----------------------------- MODULE RateLimit ------------------------------
(***************************************************************************)
(* The API's fixed-window rate limit of one client: a guest's address or   *)
(* an API key, and its row in the database.  Requests run concurrently: a  *)
(* request reads the limit and the clock, then waits for the database; its *)
(* statements hold the row (MySQL, from the upsert of _ensure_row on) or   *)
(* the database (SQLite, from the first UPDATE on) until the transaction   *)
(* ends, so they are one step, but with a clock that may be old by then.   *)
(***************************************************************************)
EXTENDS Naturals

CONSTANTS Requests,     \* requests that may be in progress at once
          Limits,       \* values the setting or the key may have
          Minute, Hour, \* length of a window, age of a row to clean up
          MaxWait,      \* a longer wait for the database ends in an error
          MaxTime       \* bound of the clock

ASSUME LimitsAssumption == Limits # {} /\ Limits \subseteq Nat
ASSUME TimesAssumption ==
  /\ Minute \in Nat /\ Hour \in Nat /\ MaxWait \in Nat /\ MaxTime \in Nat
  /\ Minute + MaxWait < Hour

VARIABLES
  clock,     \* utc_now()
  limit,     \* the limit per minute in force
  row,       \* <<>>, or the client's row
  req,       \* per request: not begun, or what it has read
  granted,   \* history: requests let through in the window of the row
  ceiling,   \* history: the largest limit one of them was checked against
  last       \* history: when the latest window began, plus one; 0 for none

vars == <<clock, limit, row, req, granted, ceiling, last>>

Idle == [at |-> 0, limit |-> 0, busy |-> FALSE]

-----------------------------------------------------------------------------
Init ==
  /\ clock = 0 /\ limit \in Limits
  /\ row = <<>>
  /\ req = [r \in Requests |-> Idle]
  /\ granted = 0 /\ ceiling = 0 /\ last = 0

Tick ==
  /\ clock < MaxTime
  /\ \A r \in Requests : req[r].busy => clock < req[r].at + MaxWait
  /\ clock' = clock + 1
  /\ UNCHANGED <<limit, row, req, granted, ceiling, last>>

SetLimit(l) ==
  /\ limit' = l
  /\ UNCHANGED <<clock, row, req, granted, ceiling, last>>

\* The limit and `now` are read; the next statement waits for the database.
Arrive(r) ==
  /\ ~req[r].busy
  /\ req' = [req EXCEPT ![r] = [at |-> clock, limit |-> limit, busy |-> TRUE]]
  /\ UNCHANGED <<clock, limit, row, granted, ceiling, last>>

Done(r) ==
  /\ req' = [req EXCEPT ![r] = Idle]
  /\ UNCHANGED <<clock, limit>>

\* window_start >= cutoff, by the clock the request has read.
Active(r) == row # <<>> /\ row[1].start + Minute >= req[r].at

Larger(a, b) == IF a < b THEN b ELSE a

Joins(r) ==
  /\ row' = <<[row[1] EXCEPT !.count = @ + 1]>>
  /\ granted' = granted + 1
  /\ ceiling' = Larger(ceiling, req[r].limit)
  /\ UNCHANGED last

Opens(r) ==
  /\ row' = <<[count |-> 1, start |-> req[r].at]>>
  /\ granted' = 1 /\ ceiling' = req[r].limit
  /\ last' = req[r].at + 1

\* Broken: the count is not compared with the limit.
IncrementAlways(r) ==
  /\ req[r].busy /\ Active(r)
  /\ Joins(r) /\ Done(r)

\* _increment_active_window
Increment(r) ==
  /\ req[r].busy /\ Active(r) /\ row[1].count < req[r].limit
  /\ Joins(r) /\ Done(r)

\* Broken: the window is not checked once more, a full one starts again.
ResetAlways(r) ==
  /\ req[r].busy /\ row # <<>> /\ ~(Active(r) /\ row[1].count < req[r].limit)
  /\ Opens(r) /\ Done(r)

\* _reset_expired_window, which does not look at the limit
Reset(r) ==
  /\ req[r].busy /\ row # <<>> /\ ~Active(r)
  /\ Opens(r) /\ Done(r)

\* _ensure_row, and the increment of the new row
FirstOfRow(r) ==
  /\ req[r].busy /\ row = <<>> /\ 0 < req[r].limit
  /\ Opens(r) /\ Done(r)

\* 429: the exception rolls the transaction back, with a row it inserted.
Refuse(r) ==
  /\ req[r].busy
  /\ \/ row = <<>> /\ req[r].limit = 0
     \/ Active(r) /\ req[r].limit <= row[1].count
  /\ Done(r)
  /\ UNCHANGED <<row, granted, ceiling, last>>

\* The database stays locked too long, or the client goes away.
Abort(r) ==
  /\ req[r].busy
  /\ Done(r)
  /\ UNCHANGED <<row, granted, ceiling, last>>

\* rate_limit_cleanup_loop
Cleanup ==
  /\ row # <<>> /\ row[1].start + Hour < clock
  /\ row' = <<>>
  /\ UNCHANGED <<clock, limit, req, granted, ceiling, last>>

Next ==
  \/ Tick \/ Cleanup
  \/ \E l \in Limits : SetLimit(l)
  \/ \E r \in Requests :
       Arrive(r) \/ Increment(r) \/ Reset(r) \/ FirstOfRow(r) \/ Refuse(r) \/ Abort(r)

Spec == Init /\ [][Next]_vars

-----------------------------------------------------------------------------
(* Properties *)

\* Shape of the state; the row counts what was let through in its window.
TypeOK ==
  /\ clock \in Nat /\ limit \in Limits
  /\ row = <<>> \/ (row[1] \in [count : Nat, start : Nat] /\ row[1].count = granted)
  /\ req \in [Requests -> [at : Nat, limit : Nat, busy : BOOLEAN]]
  /\ granted \in Nat /\ ceiling \in Nat /\ last \in Nat

\* "Maximum N requests per minute": one window lets no more requests through
\* than the largest limit one of them was checked against; with a limit of 0 it
\* lets at most the one through that finds the window before expired, because
\* that resets the row without a look at the limit (_reset_expired_window).
QuotaKept == TypeOK /\ granted <= Larger(ceiling, 1)

\* A window begins more than a minute after the one before it began, even for
\* a request that waited with an old clock, and across the cleanup of the row.
WindowsApart == [][last' # last /\ last # 0 => last + Minute < last']_vars
=============================================================================
