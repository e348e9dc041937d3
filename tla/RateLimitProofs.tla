-------------------------- MODULE RateLimitProofs ---------------------------
(***************************************************************************)
(* Proofs about RateLimit, for any number of requests, any limits and any  *)
(* lengths of window, wait and clean-up that keep TimesAssumption.         *)
(***************************************************************************)
EXTENDS RateLimit, TLAPS

-----------------------------------------------------------------------------
(* The inductive invariant. *)

\* The history variable tells the window of the row, and of a row that was
\* cleaned up it tells that its window began more than Hour ago.
LastWindow ==
  /\ row # <<>> => last = row[1].start + 1
  /\ row = <<>> /\ last # 0 => last + Hour <= clock

\* The clock a request has read is not in the future and not too old.
ClocksRead ==
  \A r \in Requests : req[r].busy => req[r].at <= clock /\ clock <= req[r].at + MaxWait

RateInv == TypeOK /\ LastWindow /\ ClocksRead

-----------------------------------------------------------------------------
(* Single steps. *)

\* Taking the new row apart.
LEMMA JoinedRow ==
  ASSUME TypeOK, row # <<>>, NEW r \in Requests, Joins(r)
  PROVE  /\ row' # <<>> /\ row'[1] \in [count : Nat, start : Nat]
         /\ row'[1].count = row[1].count + 1 /\ row'[1].start = row[1].start
         /\ granted' = granted + 1 /\ row[1].count = granted
<1> PICK old \in [count : Nat, start : Nat] : old = row[1]
  BY DEF TypeOK
<1>1. row' = <<[old EXCEPT !.count = @ + 1]>> /\ granted' = granted + 1
  BY DEF Joins
<1>2. [old EXCEPT !.count = @ + 1] = [count |-> old.count + 1, start |-> old.start]
  OBVIOUS
<1>3. row'[1] = [count |-> old.count + 1, start |-> old.start] /\ row' # <<>>
  BY <1>1, <1>2
<1> QED
  BY <1>1, <1>3 DEF TypeOK

LEMMA OpenedRow ==
  ASSUME TypeOK, NEW r \in Requests, Opens(r)
  PROVE  /\ row' # <<>> /\ row'[1] \in [count : Nat, start : Nat]
         /\ row'[1].count = 1 /\ row'[1].start = req[r].at
         /\ granted' = 1
         /\ ceiling' = req[r].limit /\ last' = req[r].at + 1
BY DEF TypeOK, Opens

\* A request that joins or opens a window keeps the shape of the state.
LEMMA DoneType ==
  ASSUME TypeOK, NEW r \in Requests, Done(r)
  PROVE  /\ clock' = clock /\ limit' = limit
         /\ req' \in [Requests -> [at : Nat, limit : Nat, busy : BOOLEAN]]
         /\ ~req'[r].busy
         /\ \A q \in Requests : q # r => req'[q] = req[q]
BY DEF TypeOK, Done, Idle

\* Two windows are far apart: what a step does to `last`.
LEMMA OpensApart ==
  ASSUME RateInv, NEW r \in Requests, req[r].busy, Opens(r),
         row # <<>> => ~Active(r), last # 0
  PROVE  last + Minute < last'
<1>1. /\ last' = req[r].at + 1 /\ req[r].at \in Nat /\ last \in Nat /\ clock \in Nat
      /\ clock <= req[r].at + MaxWait
  BY OpenedRow DEF RateInv, TypeOK, ClocksRead
<1>2. CASE row = <<>>
  BY <1>1, <1>2, TimesAssumption DEF RateInv, LastWindow
<1>3. CASE row # <<>>
  <2> DEFINE s == row[1].start
             at == req[r].at
  <2>1. s \in Nat /\ s + Minute < at /\ last = s + 1 /\ at \in Nat /\ last' = at + 1
    BY <1>1, <1>3, TimesAssumption DEF RateInv, TypeOK, LastWindow, Active
  <2> HIDE DEF s, at
  <2>2. s + Minute + 1 < at + 1
    BY <2>1, TimesAssumption
  <2> QED
    BY <2>1, <2>2, TimesAssumption
<1> QED
  BY <1>2, <1>3

LEMMA RateInit == Init => RateInv
BY LimitsAssumption DEF Init, RateInv, TypeOK, LastWindow, ClocksRead, Idle

LEMMA RateStep ==
  ASSUME RateInv, [Next]_vars
  PROVE  RateInv'
<1> USE LimitsAssumption, TimesAssumption DEF RateInv
<1>1. CASE Tick
  BY <1>1 DEF Tick, TypeOK, LastWindow, ClocksRead
<1>2. CASE Cleanup
  BY <1>2 DEF Cleanup, TypeOK, LastWindow, ClocksRead
<1>3. ASSUME NEW l \in Limits, SetLimit(l) PROVE RateInv'
  BY <1>3 DEF SetLimit, TypeOK, LastWindow, ClocksRead
<1>4. ASSUME NEW r \in Requests, Arrive(r) PROVE RateInv'
  <2>1. limit \in Nat /\ clock \in Nat
    BY DEF TypeOK
  <2> QED
    BY <1>4, <2>1 DEF Arrive, TypeOK, LastWindow, ClocksRead
<1>5. ASSUME NEW r \in Requests, req[r].busy, Done(r), row # <<>>, Joins(r) PROVE RateInv'
  <2>1. ceiling' \in Nat /\ last' = last
    BY <1>5 DEF Joins, Larger, TypeOK
  <2>2. TypeOK'
    <3>1. /\ row' # <<>> /\ row'[1] \in [count : Nat, start : Nat]
          /\ row'[1].count = granted' /\ granted' \in Nat
      BY <1>5, JoinedRow DEF TypeOK
    <3>2. /\ clock' \in Nat /\ limit' \in Limits
          /\ req' \in [Requests -> [at : Nat, limit : Nat, busy : BOOLEAN]]
      BY <1>5, DoneType DEF TypeOK
    <3>3. last' \in Nat
      BY <2>1 DEF TypeOK
    <3> QED
      BY <2>1, <3>1, <3>2, <3>3 DEF TypeOK
  <2>3. LastWindow' /\ ClocksRead'
    BY <1>5, <2>1, DoneType, JoinedRow DEF LastWindow, ClocksRead
  <2> QED
    BY <2>2, <2>3
<1>6. ASSUME NEW r \in Requests, req[r].busy, Done(r), Opens(r) PROVE RateInv'
  <2>1. req[r].at \in Nat /\ req[r].limit \in Nat
    BY DEF TypeOK
  <2>2. TypeOK'
    BY <1>6, <2>1, DoneType, OpenedRow DEF TypeOK
  <2>3. LastWindow' /\ ClocksRead'
    BY <1>6, <2>1, DoneType, OpenedRow DEF LastWindow, ClocksRead
  <2> QED
    BY <2>2, <2>3
<1>7. ASSUME NEW r \in Requests, Done(r), UNCHANGED <<row, granted, ceiling, last>>
      PROVE  RateInv'
  BY <1>7, DoneType DEF TypeOK, LastWindow, ClocksRead
<1>8. CASE UNCHANGED vars
  BY <1>8 DEF vars, TypeOK, LastWindow, ClocksRead
<1> QED
  BY <1>1, <1>2, <1>3, <1>4, <1>5, <1>6, <1>7, <1>8
  DEF Next, Increment, Reset, FirstOfRow, Refuse, Abort, Active

-----------------------------------------------------------------------------
(* Theorems. *)

\* The state keeps its shape; in particular the row counts exactly the requests
\* let through in its window, whatever requests run into one another.
THEOREM RateTypeCorrect == Spec => []TypeOK
<1>1. RateInv => TypeOK
  BY DEF RateInv
<1> QED
  BY RateInit, RateStep, <1>1, PTL DEF Spec

\* A window of the client begins more than a minute after the one before it
\* (_reset_expired_window, _ensure_row), across clean-ups and old clocks.
THEOREM WindowsFarApart == Spec => WindowsApart
<1>1. RateInv /\ [Next]_vars => [last' # last /\ last # 0 => last + Minute < last']_vars
  <2> SUFFICES ASSUME RateInv, Next, last' # last, last # 0
               PROVE  last + Minute < last'
    BY DEF vars
  <2>1. PICK r \in Requests : Reset(r) \/ FirstOfRow(r)
    BY DEF Next, Tick, Cleanup, SetLimit, Arrive, Increment, Joins, Refuse, Abort
  <2> QED
    BY <2>1, OpensApart DEF Reset, FirstOfRow
<1> QED
  BY RateInit, RateStep, <1>1, PTL DEF Spec, WindowsApart

\* What a step does to the requests let through in the window of the row.
LEMMA GrantedStep ==
  ASSUME RateInv, [Next]_vars
  PROVE  \/ UNCHANGED <<granted, ceiling>>
         \/ \E r \in Requests :
              \/ /\ req[r].busy /\ granted < req[r].limit
                 /\ granted' = granted + 1 /\ ceiling' = Larger(ceiling, req[r].limit)
              \/ req[r].busy /\ granted' = 1 /\ ceiling' = req[r].limit
<1>1. ASSUME NEW r \in Requests, Increment(r)
      PROVE  /\ req[r].busy /\ granted < req[r].limit
             /\ granted' = granted + 1 /\ ceiling' = Larger(ceiling, req[r].limit)
  BY <1>1, JoinedRow DEF RateInv, Increment, Active, Joins
<1>2. ASSUME NEW r \in Requests, req[r].busy, Opens(r)
      PROVE  granted' = 1 /\ ceiling' = req[r].limit
  BY <1>2, OpenedRow DEF RateInv
<1> QED
  BY <1>1, <1>2
  DEF Next, vars, Tick, Cleanup, SetLimit, Arrive, Reset, FirstOfRow, Refuse, Abort

\* Whatever the limits are and however they change, a window lets no more
\* requests through than the largest limit one of them was checked against, or
\* one: the reset of an expired window does not look at the limit.
THEOREM QuotaIsKept == Spec => []QuotaKept
<1> DEFINE Bounded == granted <= Larger(ceiling, 1)
<1>1. Init => Bounded
  BY DEF Init, Larger
<1>2. RateInv /\ Bounded /\ [Next]_vars => Bounded'
  <2> SUFFICES ASSUME RateInv, Bounded, [Next]_vars
               PROVE  Bounded'
    OBVIOUS
  <2>1. /\ granted \in Nat /\ ceiling \in Nat
        /\ \A r \in Requests : req[r].limit \in Nat
    BY DEF RateInv, TypeOK
  <2> QED
    BY <2>1, GrantedStep DEF Larger
<1>3. RateInv /\ Bounded => QuotaKept
  BY DEF RateInv, QuotaKept
<1> QED
  BY RateInit, RateStep, <1>1, <1>2, <1>3, PTL DEF Spec
=============================================================================
