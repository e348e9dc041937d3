--------------------------- MODULE ArcaliveProofs ---------------------------
(***************************************************************************)
(* Proofs about HttpPool and Arcalive, for any URLs, channels and contents *)
(* of the lists.                                                           *)
(***************************************************************************)
EXTENDS Arcalive, FiniteSetTheorems, SequenceTheorems, TLAPS

-----------------------------------------------------------------------------
(* The inductive invariant.  Of the sessions it is ClosedWhenUnused as it    *)
(* stands.                                                                 *)

TaskShape ==
  /\ gated \in BOOLEAN /\ cancelled \in BOOLEAN
  /\ at \in [Requests -> {"idle", "list", "channel", "info", "done"}]
  /\ left \in [Requests -> 0 .. 3]
  /\ line \in [Locks -> Seq(Requests)]
  /\ named \subseteq Slugs
  /\ DOMAIN listed = Requests /\ DOMAIN reply = Requests
  /\ \A u \in Requests : listed[u] \in Contents[u]

\* Who sends a request has the site to itself, and who asks for a name has the
\* channel, of which the name is not known.
InLock ==
  \A u \in Requests :
    /\ using[u] # 0 => Asking(u) /\ (gated => First(u, Origin))
    /\ at[u] = "info" => First(u, SlugOf[u]) /\ SlugOf[u] \notin named

\* A task ends with what its list showed, unless it is cancelled.
Replies ==
  \A u \in Requests :
    /\ reply[u] \in {{}, listed[u]}
    /\ at[u] # "done" => reply[u] = {}
    /\ at[u] = "done" /\ ~cancelled => reply[u] = listed[u]

TaskInv == TaskShape /\ InLock /\ Replies

GetInv == ClosedWhenUnused /\ TaskInv

-----------------------------------------------------------------------------
(* The sessions. *)

LEMMA SessionsNumbered == 1 \in Sessions /\ 0 \notin Sessions /\ Sessions \subseteq Nat
  BY RequestsAssumption, FS_CardinalityType DEF Sessions

LEMMA UsersFinite ==
  ASSUME PoolTypeOK, NEW s \in Sessions
  PROVE  /\ IsFiniteSet(Users(s)) /\ users[s] = Cardinality(Users(s)) /\ users[s] \in Nat
         /\ users[s] = 0 <=> Users(s) = {}
<1>1. Users(s) \in SUBSET Requests
  BY DEF Users
<1>2. IsFiniteSet(Users(s)) /\ users[s] = Cardinality(Users(s)) /\ users[s] \in Nat
  BY <1>1, RequestsAssumption, FS_Subset DEF PoolTypeOK
<1> QED
  BY <1>2, FS_EmptySet

LEMMA PoolStart == PoolInit => ClosedWhenUnused
<1> SUFFICES ASSUME PoolInit PROVE ClosedWhenUnused
  OBVIOUS
<1> USE DEF PoolInit
<1>1. \A s \in Sessions : Users(s) = {} /\ users[s] = Cardinality(Users(s))
  <2>1. \A s \in Sessions : Users(s) = {}
    BY SessionsNumbered DEF Users
  <2> QED
    BY <2>1, FS_EmptySet
<1>2. PoolTypeOK
  BY <1>1, SessionsNumbered DEF PoolTypeOK
<1> QED
  BY <1>1, <1>2, SessionsNumbered DEF ClosedWhenUnused

\* A request begins: it uses the current session, or a new one under a name that
\* no open session has.
LEMMA GetKeeps ==
  ASSUME ClosedWhenUnused, NEW r \in Requests, Get(r)
  PROVE  /\ ClosedWhenUnused' /\ using'[r] # 0
         /\ \A q \in Requests : q # r => using'[q] = using[q]
<1> PoolTypeOK
  BY DEF ClosedWhenUnused
<1>1. PICK s \in Sessions :
        /\ IF current = 0 THEN s \in Free /\ (\A free \in Free : s <= free) /\ Make(s)
           ELSE s = current /\ UNCHANGED <<made, closes, late>>
        /\ current' = s
        /\ users' = [users EXCEPT ![s] = @ + 1]
        /\ using' = [using EXCEPT ![r] = s]
  BY DEF Get
<1>2. using[r] = 0 /\ UNCHANGED <<client, closed>>
  BY DEF Get
<1>3. /\ made' = made \cup {s} /\ late' \subseteq made'
      /\ closes' \in [Sessions -> Nat] /\ closes'[s] = 0
      /\ \A t \in made : t # s => closes'[t] = closes[t]
  <2>1. CASE current = 0
    <3>1. /\ made' = made \cup {s} /\ closes' = [closes EXCEPT ![s] = 0]
          /\ late' = IF closed THEN late \cup {s} ELSE late \ {s}
      BY <1>1, <2>1 DEF Make
    <3>2. late' \subseteq made'
      BY <3>1 DEF PoolTypeOK
    <3>3. \A t \in made : t \in Sessions
      BY DEF PoolTypeOK
    <3>4. /\ closes' \in [Sessions -> Nat] /\ closes'[s] = 0
          /\ \A t \in Sessions : t # s => closes'[t] = closes[t]
      BY <3>1 DEF PoolTypeOK
    <3> QED
      BY <3>1, <3>2, <3>3, <3>4
  <2>2. CASE current # 0
    BY <1>1, <2>2 DEF PoolTypeOK, ClosedWhenUnused
  <2> QED
    BY <2>1, <2>2
<1>4. /\ using' \in [Requests -> made' \cup {0}] /\ using'[r] = s
      /\ \A q \in Requests : q # r => using'[q] = using[q]
  BY <1>1, <1>3 DEF PoolTypeOK
<1>5. s # 0
  BY SessionsNumbered
<1>6. /\ Users(s)' = Users(s) \cup {r} /\ r \notin Users(s)
      /\ \A t \in Sessions : t # s => Users(t)' = Users(t)
  BY <1>2, <1>4, <1>5, SessionsNumbered DEF Users
<1>7. /\ users' \in [Sessions -> Nat]
      /\ \A t \in Sessions : users'[t] = Cardinality(Users(t)')
  <2>1. \A t \in Sessions : users'[t] = IF t = s THEN users[t] + 1 ELSE users[t]
    BY <1>1 DEF PoolTypeOK
  <2>2. users' \in [Sessions -> Nat]
    BY <1>1 DEF PoolTypeOK
  <2>3. Cardinality(Users(s)') = Cardinality(Users(s)) + 1
    BY <1>6, UsersFinite, FS_AddElement
  <2> QED
    BY <1>6, <2>1, <2>2, <2>3 DEF PoolTypeOK
<1>8. PoolTypeOK'
  BY <1>1, <1>2, <1>3, <1>4, <1>7 DEF PoolTypeOK
<1>9. ASSUME NEW t \in made'
      PROVE  closes'[t] = IF t # current' /\ Users(t)' = {} THEN 1 ELSE 0
  <2>1. CASE t = s
    BY <1>1, <1>3, <2>1
  <2>2. CASE t # s
    <3>1. t \in made /\ t \in Sessions /\ t # current'
      BY <1>1, <1>3, <2>2 DEF PoolTypeOK
    <3>2. t # current
      BY <1>1, <1>5, <2>2, <3>1, SessionsNumbered
    <3> QED
      BY <1>3, <1>6, <2>2, <3>1, <3>2 DEF ClosedWhenUnused
  <2> QED
    BY <2>1, <2>2
<1> QED
  BY <1>4, <1>5, <1>8, <1>9 DEF ClosedWhenUnused

\* A request ends, and retires the session or not.
LEMMA EndKeeps ==
  ASSUME ClosedWhenUnused, NEW r \in Requests, Succeed(r) \/ Fail(r)
  PROVE  /\ ClosedWhenUnused' /\ using'[r] = 0
         /\ \A q \in Requests : q # r => using'[q] = using[q]
<1> PoolTypeOK
  BY DEF ClosedWhenUnused
<1> PICK s : s = using[r]
  OBVIOUS
<1>1. /\ s # 0 /\ UNCHANGED <<client, made, late>> /\ closed' \in BOOLEAN
      /\ current' = current \/ (current = s /\ current' = 0)
      /\ using' = [using EXCEPT ![r] = 0]
      /\ users' = [users EXCEPT ![s] = @ - 1]
      /\ closes' = IF users[s] = 1 /\ s # current' THEN [closes EXCEPT ![s] = @ + 1] ELSE closes
  BY DEF Succeed, Fail, Depart, PoolTypeOK
<1>2. s \in made /\ s \in Sessions
  BY <1>1 DEF PoolTypeOK
<1>3. /\ using' \in [Requests -> made' \cup {0}] /\ using'[r] = 0
      /\ \A q \in Requests : q # r => using'[q] = using[q]
  BY <1>1 DEF PoolTypeOK
<1>4. /\ Users(s)' = Users(s) \ {r} /\ r \in Users(s)
      /\ \A t \in Sessions : t # s => Users(t)' = Users(t)
  BY <1>1, <1>3, SessionsNumbered DEF Users
<1>5. Cardinality(Users(s)') = users[s] - 1 /\ users[s] \in Nat \ {0} /\ IsFiniteSet(Users(s)')
  <2>1. /\ IsFiniteSet(Users(s)) /\ users[s] = Cardinality(Users(s)) /\ users[s] \in Nat
        /\ users[s] # 0
    BY <1>2, <1>4, UsersFinite
  <2>2. Cardinality(Users(s) \ {r}) = Cardinality(Users(s)) - 1 /\ IsFiniteSet(Users(s) \ {r})
    BY <1>4, <2>1, FS_RemoveElement
  <2> QED
    BY <1>4, <2>1, <2>2
<1>6. users[s] = 1 <=> Users(s)' = {}
  BY <1>5, FS_EmptySet
<1>7. /\ users' \in [Sessions -> Nat]
      /\ \A t \in Sessions : users'[t] = Cardinality(Users(t)')
  <2>1. \A t \in Sessions : users'[t] = IF t = s THEN users[t] - 1 ELSE users[t]
    BY <1>1, <1>2 DEF PoolTypeOK
  <2>2. \A t \in Sessions : users'[t] \in Nat
    BY <1>5, <2>1 DEF PoolTypeOK
  <2>3. users' \in [Sessions -> Nat]
    <3>1. DOMAIN users' = Sessions /\ users' = [t \in Sessions |-> users'[t]]
      BY <1>1 DEF PoolTypeOK
    <3> QED
      BY <2>2, <3>1
  <2> QED
    BY <1>4, <1>5, <2>1, <2>3 DEF PoolTypeOK
<1>8. /\ closes' \in [Sessions -> Nat]
      /\ \A t \in Sessions : t # s => closes'[t] = closes[t]
      /\ closes'[s] = IF users[s] = 1 /\ s # current' THEN closes[s] + 1 ELSE closes[s]
  BY <1>1, <1>2 DEF PoolTypeOK
<1>9. PoolTypeOK'
  BY <1>1, <1>3, <1>7, <1>8 DEF PoolTypeOK
<1>10. ASSUME NEW t \in made'
       PROVE  closes'[t] = IF t # current' /\ Users(t)' = {} THEN 1 ELSE 0
  <2>1. t \in made /\ t \in Sessions /\ t # 0
    BY <1>1, SessionsNumbered DEF PoolTypeOK
  <2>2. CASE t = s
    <3>1. closes[s] = 0
      BY <1>2, <1>4 DEF ClosedWhenUnused
    <3> QED
      BY <1>6, <1>8, <2>2, <3>1
  <2>3. CASE t # s
    BY <1>1, <1>4, <1>8, <2>1, <2>3 DEF ClosedWhenUnused
  <2> QED
    BY <2>2, <2>3
<1> QED
  BY <1>3, <1>9, <1>10 DEF ClosedWhenUnused

LEMMA CloseKeeps ==
  ASSUME ClosedWhenUnused, Close
  PROVE  ClosedWhenUnused' /\ UNCHANGED using
<1> PoolTypeOK
  BY DEF ClosedWhenUnused
<1>1. /\ closed' = TRUE /\ current' = 0 /\ late' = {}
      /\ closes' = IF current # 0 /\ users[current] = 0
                   THEN [closes EXCEPT ![current] = @ + 1] ELSE closes
      /\ UNCHANGED <<client, users, made, using>>
  BY DEF Close
<1>2. \A s \in Sessions : Users(s)' = Users(s)
  BY <1>1 DEF Users
<1>3. closes' \in [Sessions -> Nat]
  BY <1>1 DEF PoolTypeOK
<1>4. PoolTypeOK'
  BY <1>1, <1>2, <1>3 DEF PoolTypeOK
<1>5. ASSUME NEW t \in made'
      PROVE  closes'[t] = IF t # current' /\ Users(t)' = {} THEN 1 ELSE 0
  <2>1. t \in made /\ t \in Sessions /\ t # 0
    BY <1>1, SessionsNumbered DEF PoolTypeOK
  <2>2. CASE t = current
    <3>1. closes[t] = 0 /\ (users[t] = 0 <=> Users(t) = {})
      BY <2>1, <2>2, UsersFinite DEF ClosedWhenUnused
    <3>2. closes'[t] = IF users[t] = 0 THEN closes[t] + 1 ELSE closes[t]
      BY <1>1, <2>1, <2>2 DEF PoolTypeOK
    <3> QED
      BY <1>1, <1>2, <2>1, <3>1, <3>2
  <2>3. CASE t # current
    <3>1. closes'[t] = closes[t]
      BY <1>1, <2>3 DEF PoolTypeOK
    <3> QED
      BY <1>1, <1>2, <2>1, <2>3, <3>1 DEF ClosedWhenUnused
  <2> QED
    BY <2>2, <2>3
<1> QED
  BY <1>1, <1>4, <1>5 DEF ClosedWhenUnused

LEMMA PoolUnchanged ==
  ASSUME ClosedWhenUnused, UNCHANGED poolVars
  PROVE  ClosedWhenUnused' /\ UNCHANGED using
<1>1. \A s \in Sessions : Users(s)' = Users(s)
  BY DEF poolVars, Users
<1> QED
  BY <1>1 DEF poolVars, ClosedWhenUnused, PoolTypeOK

-----------------------------------------------------------------------------
(* The lines before the locks. *)

LEMMA Removed ==
  ASSUME NEW S, NEW s \in Seq(S), NEW i \in DOMAIN s
  PROVE  /\ RemoveAt(s, i) \in Seq(S)
         /\ i # 1 => RemoveAt(s, i) # <<>> /\ Head(RemoveAt(s, i)) = Head(s)
<1> DEFINE n == Len(s)
           a == SubSeq(s, 1, i - 1)
           z == SubSeq(s, i + 1, n)
<1>1. n \in Nat /\ i \in 1 .. n /\ s # <<>>
  OBVIOUS
<1>2. /\ 1 \in 1 .. n + 1 /\ i - 1 \in 1 - 1 .. n
      /\ i + 1 \in 1 .. n + 1 /\ n \in (i + 1) - 1 .. n
  <2> HIDE DEF n
  <2> QED
    BY <1>1
<1>3. a \in Seq(S) /\ Len(a) = i - 1 /\ \A k \in 1 .. i - 1 : a[k] = s[k]
  <2>1. /\ a \in Seq(S) /\ Len(a) = (IF 1 <= i - 1 THEN (i - 1) - 1 + 1 ELSE 0)
        /\ \A k \in 1 .. (i - 1) - 1 + 1 : a[k] = s[1 + k - 1]
    BY <1>2, SubSeqProperties
  <2> HIDE DEF a, n
  <2>2. (i - 1) - 1 + 1 = i - 1 /\ (~(1 <= i - 1) => i - 1 = 0) /\ \A k \in 1 .. i - 1 : 1 + k - 1 = k
    BY <1>1
  <2> QED
    BY <2>1, <2>2
<1>4. z \in Seq(S)
  BY <1>2, SubSeqProperties
<1> HIDE DEF a, z, n
<1>5. a \o z \in Seq(S)
  BY <1>3, <1>4
<1>6. ASSUME i # 1 PROVE a \o z # <<>> /\ Head(a \o z) = Head(s)
  <2>1. 1 \in 1 .. i - 1 /\ i - 1 # 0
    BY <1>1, <1>6
  <2>2. a # <<>>
    BY <1>3, <2>1
  <2>3. (a \o z)[1] = a[1] /\ a \o z # <<>>
    BY <1>3, <1>4, <2>2
  <2> QED
    BY <1>1, <1>3, <1>5, <2>1, <2>3
<1>7. RemoveAt(s, i) = a \o z
  BY DEF RemoveAt, a, z, n
<1> QED
  BY <1>5, <1>6, <1>7

\* Whoever leaves, the first of the others stays the first.
LEMMA LinesGoOn ==
  ASSUME line \in [Locks -> Seq(Requests)], NEW u \in Requests, NEW locks
  PROVE  /\ Without(u, locks) \in [Locks -> Seq(Requests)]
         /\ \A l \in Locks, v \in Requests :
              v # u /\ First(v, l) => Without(u, locks)[l] # <<>> /\ Head(Without(u, locks)[l]) = v
<1>1. ASSUME NEW l \in Locks
      PROVE  /\ Without(u, locks)[l] \in Seq(Requests)
             /\ \A v \in Requests :
                  v # u /\ First(v, l) => Without(u, locks)[l] # <<>> /\ Head(Without(u, locks)[l]) = v
  <2> PICK s \in Seq(Requests) : s = line[l]
    OBVIOUS
  <2>1. CASE l \in locks /\ Contains(s, u)
    <3> PICK i : i = CHOOSE j \in DOMAIN s : s[j] = u
      OBVIOUS
    <3>1. \E j \in DOMAIN s : s[j] = u
      BY <2>1 DEF Contains
    <3>2. i \in DOMAIN s /\ s[i] = u
      BY <3>1
    <3>3. Without(u, locks)[l] = RemoveAt(s, i)
      BY <2>1 DEF Without
    <3>4. ASSUME NEW v \in Requests, v # u, First(v, l) PROVE i # 1 /\ Head(s) = v
      <4>1. Head(s) = v /\ s # <<>> /\ Head(s) = s[1]
        BY <3>4 DEF First
      <4> QED
        BY <3>2, <3>4, <4>1
    <3>5. PICK rest : rest = RemoveAt(s, i)
      OBVIOUS
    <3>6. rest \in Seq(Requests) /\ (i # 1 => rest # <<>> /\ Head(rest) = Head(s))
      BY <3>2, <3>5, Removed
    <3> QED
      BY <3>3, <3>4, <3>5, <3>6
  <2>2. CASE ~(l \in locks /\ Contains(s, u))
    <3>1. Without(u, locks)[l] = s
      BY <2>2 DEF Without
    <3> QED
      BY <3>1 DEF First
  <2> QED
    BY <2>1, <2>2
<1>2. Without(u, locks) = [l \in Locks |-> Without(u, locks)[l]]
  BY DEF Without
<1> QED
  BY <1>1, <1>2

-----------------------------------------------------------------------------
(* The tasks. *)

LEMMA SlugsAreLocks ==
  /\ Origin \in Locks
  /\ \A u \in Requests : SlugOf[u] \in Slugs /\ SlugOf[u] \in Locks /\ SlugOf[u] # Origin
  BY SlugsAssumption DEF Locks

\* Only one task at a time asks for the name of a channel.
LEMMA OneAsks ==
  ASSUME InLock, NEW u \in Requests, NEW v \in Requests, at[u] = "info", at[v] = "info",
         SlugOf[u] = SlugOf[v]
  PROVE  u = v
  BY DEF InLock, First

\* A task ends, in every line it stands in, with the name of its channel or not.
LEMMA TaskEnds ==
  ASSUME TaskInv, NEW u \in Requests,
         at' = [at EXCEPT ![u] = "done"], left' = [left EXCEPT ![u] = 0],
         line' = Without(u, Locks),
         reply' = [reply EXCEPT ![u] = listed[u]] \/ (cancelled /\ reply' = reply),
         named' = named \/ (named' = named \cup {SlugOf[u]} /\ at[u] = "info"),
         using'[u] = 0, \A v \in Requests : v # u => using'[v] = using[v],
         UNCHANGED <<gated, cancelled, listed>>
  PROVE  TaskInv'
<1> USE DEF TaskInv
<1>1. /\ line' \in [Locks -> Seq(Requests)]
      /\ \A l \in Locks, v \in Requests : v # u /\ First(v, l) => First(v, l)'
  <2>1. /\ Without(u, Locks) \in [Locks -> Seq(Requests)]
        /\ \A l \in Locks, v \in Requests :
             v # u /\ First(v, l) => Without(u, Locks)[l] # <<>> /\ Head(Without(u, Locks)[l]) = v
    BY LinesGoOn DEF TaskShape
  <2> QED
    BY <2>1 DEF First
<1>2. at'[u] = "done" /\ \A v \in Requests : v # u => at'[v] = at[v]
  BY DEF TaskShape
<1>3. TaskShape'
  BY <1>1, SlugsAreLocks DEF TaskShape
<1>4. ASSUME NEW v \in Requests
      PROVE  /\ using'[v] # 0 => Asking(v)' /\ (gated => First(v, Origin)')
             /\ at'[v] = "info" => First(v, SlugOf[v])' /\ SlugOf[v] \notin named'
  <2>1. CASE v = u
    BY <1>2, <2>1
  <2>2. CASE v # u
    <3>1. using'[v] # 0 => Asking(v)' /\ (gated => First(v, Origin)')
      BY <1>1, <1>2, <2>2, SlugsAreLocks DEF InLock, Asking
    <3>2. at'[v] = "info" => First(v, SlugOf[v])'
      BY <1>1, <1>2, <2>2, SlugsAreLocks DEF InLock
    <3>3. at'[v] = "info" => SlugOf[v] \notin named'
      BY <1>2, <2>2, OneAsks DEF InLock
    <3> QED
      BY <3>1, <3>2, <3>3
  <2> QED
    BY <2>1, <2>2
<1>5. InLock'
  BY <1>4 DEF InLock
<1>6. Replies'
  BY <1>2 DEF Replies, TaskShape
<1> QED
  BY <1>3, <1>5, <1>6

\* A task stays where it is, and makes a request or has made one.
LEMMA TaskStays ==
  ASSUME TaskInv, NEW u \in Requests, Asking(u), gated => First(u, Origin),
         \A v \in Requests : v # u => using'[v] = using[v],
         left' \in [Requests -> 0 .. 3],
         UNCHANGED <<gated, at, line, named, listed, reply, cancelled>>
  PROVE  TaskInv'
<1> USE DEF TaskInv
<1>1. TaskShape' /\ Replies'
  BY DEF TaskShape, Replies
<1>2. ASSUME NEW v \in Requests
      PROVE  /\ using'[v] # 0 => Asking(v)' /\ (gated => First(v, Origin)')
             /\ at'[v] = "info" => First(v, SlugOf[v])' /\ SlugOf[v] \notin named'
  BY DEF InLock, Asking, First
<1>3. InLock'
  BY <1>2 DEF InLock
<1> QED
  BY <1>1, <1>3

LEMMA GetInit == Init => GetInv
<1> SUFFICES ASSUME Init PROVE GetInv
  OBVIOUS
<1>1. ClosedWhenUnused
  BY PoolStart DEF Init
<1>2. TaskShape
  <2>1. \A u \in Requests : listed[u] = {} /\ {} \in Contents[u]
    BY ContentsAssumption DEF Init, Nothing
  <2>2. <<>> \in Seq(Requests) /\ 0 \in 0 .. 3
    OBVIOUS
  <2>3. /\ line \in [Locks -> Seq(Requests)] /\ left \in [Requests -> 0 .. 3]
        /\ at \in [Requests -> {"idle", "list", "channel", "info", "done"}]
    BY <2>2 DEF Init
  <2> QED
    BY <2>1, <2>3 DEF Init, TaskShape, Nothing
<1>3. InLock
  BY DEF Init, PoolInit, InLock
<1>4. Replies
  BY DEF Init, Nothing, Replies
<1> QED
  BY <1>1, <1>2, <1>3, <1>4 DEF GetInv, TaskInv

LEMMA SendStep ==
  ASSUME GetInv, NEW u \in Requests, Send(u)
  PROVE  GetInv'
<1>1. /\ ClosedWhenUnused' /\ \A v \in Requests : v # u => using'[v] = using[v]
  BY GetKeeps DEF Send, GetInv
<1>2. /\ Asking(u) /\ (gated => First(u, Origin))
      /\ UNCHANGED <<gated, at, left, line, named, listed, reply, cancelled>>
  BY DEF Send, taskVars
<1>3. left' \in [Requests -> 0 .. 3]
  BY <1>2 DEF GetInv, TaskInv, TaskShape
<1> QED
  BY <1>1, <1>2, <1>3, TaskStays DEF GetInv

\* Whoever uses a session is in the locks it needs.
LEMMA InUse ==
  ASSUME GetInv, NEW u \in Requests, Succeed(u) \/ Fail(u)
  PROVE  /\ ClosedWhenUnused' /\ using'[u] = 0
         /\ \A v \in Requests : v # u => using'[v] = using[v]
         /\ Asking(u) /\ (gated => First(u, Origin))
<1>1. using[u] # 0
  BY DEF Succeed, Fail
<1>2. /\ ClosedWhenUnused' /\ using'[u] = 0
      /\ \A v \in Requests : v # u => using'[v] = using[v]
  BY EndKeeps DEF GetInv
<1> QED
  BY <1>1, <1>2 DEF GetInv, TaskInv, InLock

LEMMA GaveUp ==
  ASSUME TaskInv, NEW u \in Requests, GiveUp(u), UNCHANGED <<gated, cancelled>>,
         using'[u] = 0, \A v \in Requests : v # u => using'[v] = using[v]
  PROVE  TaskInv'
  BY TaskEnds DEF GiveUp, Finish

LEMMA FewerLeft ==
  ASSUME TaskInv, NEW u \in Requests, left[u] > 1
  PROVE  /\ [left EXCEPT ![u] = @ - 1] \in [Requests -> 0 .. 3]
         /\ [left EXCEPT ![u] = 1] \in [Requests -> 0 .. 3]
<1>1. left \in [Requests -> 0 .. 3]
  BY DEF TaskInv, TaskShape
<1>2. left[u] - 1 \in 0 .. 3
  BY <1>1
<1> QED
  BY <1>1, <1>2

LEMMA NoResponseStep ==
  ASSUME GetInv, NEW u \in Requests, NoResponse(u)
  PROVE  GetInv'
<1>1. Fail(u) /\ UNCHANGED <<gated, cancelled>>
  BY DEF NoResponse
<1>2. /\ ClosedWhenUnused' /\ using'[u] = 0
      /\ \A v \in Requests : v # u => using'[v] = using[v]
      /\ Asking(u) /\ (gated => First(u, Origin))
  BY <1>1, InUse
<1>3. CASE left[u] > 1
  <2>1. left' = [left EXCEPT ![u] = @ - 1] /\ UNCHANGED <<at, line, named, listed, reply>>
    BY <1>3 DEF NoResponse
  <2>2. left' \in [Requests -> 0 .. 3]
    BY <1>3, <2>1, FewerLeft DEF GetInv
  <2> QED
    BY <1>1, <1>2, <2>1, <2>2, TaskStays DEF GetInv
<1>4. CASE ~(left[u] > 1)
  <2>1. GiveUp(u)
    BY <1>4 DEF NoResponse
  <2> QED
    BY <1>1, <1>2, <2>1, GaveUp DEF GetInv
<1> QED
  BY <1>3, <1>4

LEMMA UnsentStep ==
  ASSUME GetInv, NEW u \in Requests, Unsent(u)
  PROVE  GetInv'
<1>1. GiveUp(u) /\ UNCHANGED <<gated, cancelled>> /\ UNCHANGED poolVars /\ using[u] = 0
  BY DEF Unsent
<1>2. ClosedWhenUnused' /\ UNCHANGED using
  BY <1>1, PoolUnchanged DEF GetInv
<1> QED
  BY <1>1, <1>2, GaveUp DEF GetInv

LEMMA NoBodyStep ==
  ASSUME GetInv, NEW u \in Requests, NoBody(u)
  PROVE  GetInv'
<1>1. Succeed(u) /\ UNCHANGED <<gated, cancelled>>
  BY DEF NoBody
<1>2. /\ ClosedWhenUnused' /\ using'[u] = 0
      /\ \A v \in Requests : v # u => using'[v] = using[v]
      /\ Asking(u) /\ (gated => First(u, Origin))
  BY <1>1, InUse
<1>3. CASE left[u] > 1 /\ left' = [left EXCEPT ![u] = 1] /\ UNCHANGED <<at, line, named, listed, reply>>
  <2>1. left' \in [Requests -> 0 .. 3]
    BY <1>3, FewerLeft DEF GetInv
  <2> QED
    BY <1>1, <1>2, <1>3, <2>1, TaskStays DEF GetInv
<1>4. CASE GiveUp(u)
  BY <1>1, <1>2, <1>4, GaveUp DEF GetInv
<1> QED
  BY <1>3, <1>4 DEF NoBody

LEMMA NameStep ==
  ASSUME GetInv, NEW u \in Requests, Name(u)
  PROVE  GetInv'
<1>1. /\ at[u] = "info" /\ Succeed(u) /\ named' = named \cup {SlugOf[u]} /\ Finish(u)
      /\ UNCHANGED <<gated, listed, cancelled>>
  BY DEF Name
<1>2. /\ ClosedWhenUnused' /\ using'[u] = 0
      /\ \A v \in Requests : v # u => using'[v] = using[v]
  BY <1>1, InUse
<1>3. TaskInv'
  BY <1>1, <1>2, TaskEnds DEF GetInv, Finish
<1> QED
  BY <1>2, <1>3 DEF GetInv

LEMMA AbortStep ==
  ASSUME GetInv, NEW u \in Requests, Abort(u)
  PROVE  GetInv'
<1>1. /\ cancelled /\ (IF using[u] = 0 THEN UNCHANGED poolVars ELSE Fail(u))
      /\ at' = [at EXCEPT ![u] = "done"] /\ left' = [left EXCEPT ![u] = 0]
      /\ line' = Without(u, Locks)
      /\ UNCHANGED <<gated, named, listed, reply, cancelled>>
  BY DEF Abort
<1>2. /\ ClosedWhenUnused' /\ using'[u] = 0
      /\ \A v \in Requests : v # u => using'[v] = using[v]
  <2>1. CASE using[u] = 0
    BY <1>1, <2>1, PoolUnchanged DEF GetInv
  <2>2. CASE using[u] # 0
    BY <1>1, <2>2, InUse
  <2> QED
    BY <2>1, <2>2
<1>3. TaskInv'
  BY <1>1, <1>2, TaskEnds DEF GetInv
<1> QED
  BY <1>2, <1>3 DEF GetInv

\* A newcomer stands behind the others.
Behind(u, m, f) == [f EXCEPT ![m] = Append(@, u)]

LEMMA LineGrows ==
  ASSUME NEW f \in [Locks -> Seq(Requests)], NEW m \in Locks, NEW u \in Requests
  PROVE  /\ Behind(u, m, f) \in [Locks -> Seq(Requests)]
         /\ \A l \in Locks : f[l] # <<>> => /\ Behind(u, m, f)[l] # <<>>
                                           /\ Head(Behind(u, m, f)[l]) = Head(f[l])
<1> PICK s \in Seq(Requests) : s = f[m]
  OBVIOUS
<1>1. /\ Append(s, u) \in Seq(Requests) /\ Append(s, u) # <<>>
      /\ s # <<>> => Head(Append(s, u)) = Head(s)
  BY AppendProperties, HeadTailAppend
<1> QED
  BY <1>1 DEF Behind

LEMMA ListStep ==
  ASSUME GetInv, NEW u \in Requests, List(u)
  PROVE  GetInv'
<1> TaskShape /\ InLock /\ Replies
  BY DEF GetInv, TaskInv
<1>1. PICK ids \in Contents[u] :
        /\ listed' = [listed EXCEPT ![u] = ids]
        /\ IF client = "v15"
           THEN /\ reply' = [reply EXCEPT ![u] = ids]
                /\ at' = [at EXCEPT ![u] = "done"]
                /\ line' = Without(u, {Origin})
           ELSE /\ at' = [at EXCEPT ![u] = "channel"]
                /\ line' = [Without(u, {Origin}) EXCEPT ![SlugOf[u]] = Append(@, u)]
                /\ UNCHANGED reply
  BY DEF List
<1>2. /\ at[u] = "list" /\ Succeed(u) /\ left' = [left EXCEPT ![u] = 0]
      /\ UNCHANGED <<gated, named, cancelled>>
  BY DEF List
<1>3. /\ ClosedWhenUnused' /\ using'[u] = 0
      /\ \A v \in Requests : v # u => using'[v] = using[v]
  BY <1>2, InUse
<1>4. /\ Without(u, {Origin}) \in [Locks -> Seq(Requests)]
      /\ \A l \in Locks, v \in Requests : v # u /\ First(v, l) =>
           Without(u, {Origin})[l] # <<>> /\ Head(Without(u, {Origin})[l]) = v
  BY LinesGoOn DEF TaskShape
<1>5. /\ line' \in [Locks -> Seq(Requests)]
      /\ \A l \in Locks, v \in Requests : v # u /\ First(v, l) => First(v, l)'
  <2>1. CASE client = "v15"
    BY <1>1, <1>4, <2>1 DEF First
  <2>2. CASE client # "v15"
    <3> PICK f \in [Locks -> Seq(Requests)] : f = Without(u, {Origin})
      BY <1>4
    <3>1. line' = Behind(u, SlugOf[u], f)
      BY <1>1, <2>2 DEF Behind
    <3>2. /\ line' \in [Locks -> Seq(Requests)]
          /\ \A l \in Locks : f[l] # <<>> => line'[l] # <<>> /\ Head(line'[l]) = Head(f[l])
      BY <3>1, LineGrows, SlugsAreLocks
    <3> QED
      BY <1>4, <3>2 DEF First
  <2> QED
    BY <2>1, <2>2
<1>6. at'[u] \in {"channel", "done"} /\ \A v \in Requests : v # u => at'[v] = at[v]
  BY <1>1 DEF TaskShape
<1>7. TaskShape'
  <2>1. \A v \in Requests : listed'[v] \in Contents[v]
    BY <1>1 DEF TaskShape
  <2>2. at' \in [Requests -> {"idle", "list", "channel", "info", "done"}]
    BY <1>1 DEF TaskShape
  <2> QED
    BY <1>1, <1>2, <1>5, <2>1, <2>2 DEF TaskShape
<1>8. ASSUME NEW v \in Requests
      PROVE  /\ using'[v] # 0 => Asking(v)' /\ (gated' => First(v, Origin)')
             /\ at'[v] = "info" => First(v, SlugOf[v])' /\ SlugOf[v] \notin named'
  <2>1. CASE v = u
    BY <1>3, <1>6, <2>1
  <2>2. CASE v # u
    BY <1>2, <1>3, <1>5, <1>6, <2>2, SlugsAreLocks DEF InLock, Asking
  <2> QED
    BY <2>1, <2>2
<1>9. InLock'
  BY <1>8 DEF InLock
<1>10. Replies'
  <2>1. ASSUME NEW v \in Requests
        PROVE  /\ reply'[v] \in {{}, listed'[v]}
               /\ at'[v] # "done" => reply'[v] = {}
               /\ at'[v] = "done" /\ ~cancelled' => reply'[v] = listed'[v]
    <3>1. CASE v = u
      BY <1>1, <1>2, <3>1 DEF Replies, TaskShape
    <3>2. CASE v # u
      BY <1>1, <1>2, <1>6, <3>2 DEF Replies, TaskShape
    <3> QED
      BY <3>1, <3>2
  <2> QED
    BY <2>1 DEF Replies
<1> QED
  BY <1>3, <1>7, <1>9, <1>10 DEF GetInv, TaskInv

\* A task in the lock of its channel asks for the name.
LEMMA DescribeStep ==
  ASSUME GetInv, NEW u \in Requests, at[u] = "channel", First(u, SlugOf[u]),
         SlugOf[u] \notin named, Describe(u),
         UNCHANGED <<using, gated, named, listed, cancelled>>
  PROVE  TaskInv'
<1> TaskShape /\ InLock /\ Replies
  BY DEF GetInv, TaskInv
<1>1. /\ at' = [at EXCEPT ![u] = "info"] /\ UNCHANGED reply
      /\ line' = IF gated THEN [line EXCEPT ![Origin] = Append(@, u)] ELSE line
  BY DEF Describe
<1>2. left' \in [Requests -> 0 .. 3]
  <2>1. PICK k \in Attempts : left' = [left EXCEPT ![u] = k]
    BY DEF Describe
  <2>2. k \in 0 .. 3
    BY DEF Attempts
  <2> QED
    BY <2>1, <2>2 DEF TaskShape
<1>3. /\ line' \in [Locks -> Seq(Requests)]
      /\ \A l \in Locks, v \in Requests : First(v, l) => First(v, l)'
  <2>1. CASE gated
    <3>1. line' = Behind(u, Origin, line) /\ line \in [Locks -> Seq(Requests)]
      BY <1>1, <2>1 DEF TaskShape, Behind
    <3>2. /\ line' \in [Locks -> Seq(Requests)]
          /\ \A l \in Locks : line[l] # <<>> => line'[l] # <<>> /\ Head(line'[l]) = Head(line[l])
      BY <3>1, LineGrows, SlugsAreLocks
    <3> QED
      BY <3>2 DEF First
  <2>2. CASE ~gated
    BY <1>1, <2>2 DEF First, TaskShape
  <2> QED
    BY <2>1, <2>2
<1>4. at'[u] = "info" /\ \A v \in Requests : v # u => at'[v] = at[v]
  BY <1>1 DEF TaskShape
<1>5. TaskShape'
  BY <1>1, <1>2, <1>3 DEF TaskShape
<1>6. ASSUME NEW v \in Requests
      PROVE  /\ using'[v] # 0 => Asking(v)' /\ (gated' => First(v, Origin)')
             /\ at'[v] = "info" => First(v, SlugOf[v])' /\ SlugOf[v] \notin named'
  <2>1. CASE v = u
    BY <1>3, <2>1, SlugsAreLocks DEF InLock, Asking
  <2>2. CASE v # u
    BY <1>3, <1>4, <2>2, SlugsAreLocks DEF InLock, Asking
  <2> QED
    BY <2>1, <2>2
<1>7. InLock'
  BY <1>6 DEF InLock
<1>8. Replies'
  BY <1>1, <1>4 DEF Replies
<1> QED
  BY <1>5, <1>7, <1>8 DEF TaskInv

LEMMA EnterStep ==
  ASSUME GetInv, NEW u \in Requests, Enter(u)
  PROVE  GetInv'
<1>1. /\ at[u] = "channel" /\ First(u, SlugOf[u])
      /\ UNCHANGED poolVars /\ UNCHANGED <<gated, named, listed, cancelled>>
      /\ IF SlugOf[u] \in named THEN Finish(u) ELSE Describe(u)
  BY DEF Enter
<1>2. ClosedWhenUnused' /\ UNCHANGED using
  BY <1>1, PoolUnchanged DEF GetInv
<1>3. CASE SlugOf[u] \in named
  <2>1. using[u] = 0
    BY <1>1 DEF GetInv, TaskInv, InLock, Asking
  <2> QED
    BY <1>1, <1>2, <1>3, <2>1, TaskEnds DEF GetInv, Finish
<1>4. CASE SlugOf[u] \notin named
  BY <1>1, <1>2, <1>4, DescribeStep DEF GetInv
<1> QED
  BY <1>3, <1>4

\* gather starts the tasks, which line up before the site.
LEMMA StartStep ==
  ASSUME GetInv, Start
  PROVE  GetInv'
<1> TaskShape /\ InLock /\ Replies
  BY DEF GetInv, TaskInv
<1>1. /\ \A u \in Requests : at[u] = "idle"
      /\ at' = [u \in Requests |-> "list"] /\ left' \in [Requests -> Attempts]
      /\ UNCHANGED poolVars /\ UNCHANGED <<gated, named, listed, reply, cancelled>>
  BY DEF Start
<1>2. ClosedWhenUnused' /\ UNCHANGED using
  BY <1>1, PoolUnchanged DEF GetInv
<1>3. PICK urls \in SetToSeqs(Requests) :
        line' = IF gated THEN [line EXCEPT ![Origin] = urls] ELSE line
  BY DEF Start
<1>4. urls \in Seq(Requests)
  <2> PICK n \in Nat : n = Cardinality(Requests)
    BY RequestsAssumption, FS_CardinalityType
  <2>1. urls \in [1 .. n -> Requests]
    BY DEF SetToSeqs
  <2> QED
    BY <2>1
<1>5. left' \in [Requests -> 0 .. 3]
  <2>1. \A u \in Requests : left'[u] \in 0 .. 3
    BY <1>1 DEF Attempts
  <2> QED
    BY <1>1, <2>1
<1>6. TaskShape'
  BY <1>1, <1>3, <1>4, <1>5 DEF TaskShape
<1>7. InLock'
  BY <1>1, <1>2 DEF InLock, Asking
<1>8. Replies'
  BY <1>1 DEF Replies
<1> QED
  BY <1>2, <1>6, <1>7, <1>8 DEF GetInv, TaskInv

LEMMA CancelStep ==
  ASSUME GetInv, Cancel
  PROVE  GetInv'
<1> TaskShape /\ InLock /\ Replies
  BY DEF GetInv, TaskInv
<1>1. /\ cancelled' = TRUE /\ UNCHANGED poolVars
      /\ UNCHANGED <<gated, at, left, line, named, listed, reply>>
  BY DEF Cancel
<1>2. ClosedWhenUnused' /\ UNCHANGED using
  BY <1>1, PoolUnchanged DEF GetInv
<1>3. TaskShape' /\ Replies'
  BY <1>1 DEF TaskShape, Replies
<1>4. InLock'
  BY <1>1, <1>2 DEF InLock, Asking, First
<1> QED
  BY <1>2, <1>3, <1>4 DEF GetInv, TaskInv

LEMMA ReturnStep ==
  ASSUME GetInv, Return
  PROVE  GetInv'
<1> TaskShape /\ InLock /\ Replies
  BY DEF GetInv, TaskInv
<1>1. /\ \A u \in Requests : at[u] = "done"
      /\ at' = [u \in Requests |-> "idle"] /\ listed' = Nothing /\ reply' = Nothing
      /\ cancelled' = FALSE /\ UNCHANGED poolVars /\ UNCHANGED <<gated, left, line, named>>
  BY DEF Return
<1>2. ClosedWhenUnused' /\ UNCHANGED using
  BY <1>1, PoolUnchanged DEF GetInv
<1>3. TaskShape'
  BY <1>1, ContentsAssumption DEF TaskShape, Nothing
<1>4. InLock'
  BY <1>1, <1>2 DEF InLock, Asking
<1>5. Replies'
  BY <1>1 DEF Replies, Nothing
<1> QED
  BY <1>2, <1>3, <1>4, <1>5 DEF GetInv, TaskInv

\* The sessions are closed, or nothing happens.
LEMMA TasksUnchanged ==
  ASSUME GetInv, UNCHANGED taskVars, Close \/ UNCHANGED poolVars
  PROVE  GetInv'
<1> TaskShape /\ InLock /\ Replies
  BY DEF GetInv, TaskInv
<1>1. ClosedWhenUnused' /\ UNCHANGED using
  BY CloseKeeps, PoolUnchanged DEF GetInv
<1>2. TaskShape' /\ Replies'
  BY DEF TaskShape, Replies, taskVars
<1>3. InLock'
  BY <1>1 DEF InLock, Asking, First, taskVars
<1> QED
  BY <1>1, <1>2, <1>3 DEF GetInv, TaskInv

LEMMA GetStep == GetInv /\ [Next]_vars => GetInv'
<1> SUFFICES ASSUME GetInv, [Next]_vars PROVE GetInv'
  OBVIOUS
<1>1. CASE Start
  BY <1>1, StartStep
<1>2. CASE Cancel
  BY <1>2, CancelStep
<1>3. CASE Return
  BY <1>3, ReturnStep
<1>4. ASSUME NEW u \in Requests, Step(u) PROVE GetInv'
  <2>1. CASE Send(u)
    BY <2>1, SendStep
  <2>2. CASE NoResponse(u)
    BY <2>2, NoResponseStep
  <2>3. CASE Unsent(u)
    BY <2>3, UnsentStep
  <2>4. CASE NoBody(u)
    BY <2>4, NoBodyStep
  <2>5. CASE List(u)
    BY <2>5, ListStep
  <2>6. CASE Enter(u)
    BY <2>6, EnterStep
  <2>7. CASE Name(u)
    BY <2>7, NameStep
  <2>8. CASE Abort(u)
    BY <2>8, AbortStep
  <2> QED
    BY <1>4, <2>1, <2>2, <2>3, <2>4, <2>5, <2>6, <2>7, <2>8 DEF Step
<1>5. CASE Close /\ UNCHANGED taskVars
  BY <1>5, TasksUnchanged
<1>6. CASE UNCHANGED vars
  BY <1>6, TasksUnchanged DEF vars
<1> QED
  BY <1>1, <1>2, <1>3, <1>4, <1>5, <1>6 DEF Next, Progress

LEMMA GetInvHolds == Spec => []GetInv
<1>1. Init => GetInv
  BY GetInit
<1>2. GetInv /\ [Next]_vars => GetInv'
  BY GetStep
<1> QED
  BY <1>1, <1>2, PTL DEF Spec

-----------------------------------------------------------------------------
(* The results *)

\* Whatever requests fail, are cancelled or end after close(), a session that is
\* neither current nor in use has been closed exactly once, and no other has
\* been: none leaks, none is closed under a request and none is closed twice.
THEOREM SessionsClosedOnce == Spec => []ClosedWhenUnused
<1>1. GetInv => ClosedWhenUnused
  BY DEF GetInv
<1> QED
  BY <1>1, GetInvHolds, PTL

\* For any number of lists and channels, what a get() of V2 returns has the posts
\* of every list, or it is empty and then a list failed or two channels showed
\* the same post; a name that could not be fetched costs no post.
THEOREM AllListsOrNothing == Spec => []WholeOrNothing
<1>1. GetInv => WholeOrNothing
  <2> SUFFICES ASSUME GetInv PROVE WholeOrNothing
    OBVIOUS
  <2> TaskShape /\ InLock /\ Replies /\ ClosedWhenUnused
    BY DEF GetInv, TaskInv
  <2>1. TypeOK
    BY DEF ClosedWhenUnused, TaskShape, InLock, Replies, TypeOK
  <2>2. ASSUME client # "v15", ~cancelled, \A u \in Requests : at[u] = "done"
        PROVE  \/ Snapshot = {} /\ \E u \in Requests :
                    listed[u] = {} \/ \E v \in Requests :
                      SlugOf[v] # SlugOf[u] /\ listed[v] \cap listed[u] # {}
               \/ Snapshot # {} /\ \A u \in Requests :
                    listed[u] # {} /\ listed[u] \subseteq Snapshot
    <3>1. \A u \in Requests : reply[u] = listed[u]
      BY <2>2 DEF Replies
    <3>2. CASE Conflict
      BY <2>2, <3>1, <3>2 DEF Conflict, Snapshot
    <3>3. CASE \E u \in Requests : reply[u] = {}
      BY <2>2, <3>1, <3>3 DEF Snapshot
    <3>4. CASE ~Conflict /\ \A u \in Requests : reply[u] # {}
      <4>1. Snapshot = UNION {reply[u] : u \in Requests}
        BY <3>4 DEF Snapshot
      <4>2. \A u \in Requests : reply[u] \subseteq Snapshot
        BY <4>1
      <4>3. PICK u : u \in Requests
        BY UrlsAssumption
      <4>4. Snapshot # {}
        BY <3>4, <4>2, <4>3
      <4> QED
        BY <3>1, <3>4, <4>2, <4>4
    <3> QED
      BY <3>2, <3>3, <3>4
  <2> QED
    BY <2>1, <2>2 DEF WholeOrNothing
<1> QED
  BY <1>1, GetInvHolds, PTL

\* For any number of lists of a channel, the name of the channel is asked for by
\* one task at a time and never when it is known: the wait for the lock is not
\* followed by a second request.
THEOREM NamesAskedOnce == Spec => AskedOnce
<1> DEFINE Asks ==
      \A u \in Requests : at[u] = "info" /\ using[u] = 0 /\ using'[u] # 0 =>
        /\ SlugOf[u] \notin named
        /\ \A v \in Requests \ {u} : SlugOf[v] = SlugOf[u] => at[v] # "info"
<1>1. GetInv => Asks
  BY OneAsks DEF GetInv, TaskInv, InLock
<1>2. GetInv /\ [Next]_vars => [Asks]_vars
  BY <1>1
<1> QED
  BY <1>2, GetInvHolds, PTL DEF Spec, AskedOnce
=============================================================================
