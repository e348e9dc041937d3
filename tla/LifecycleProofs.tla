--------------------------- MODULE LifecycleProofs ---------------------------
(***************************************************************************)
(* Proofs about Lifecycle, for any number of bots, posts, reloads, starts, *)
(* crashes and failures, and any set of outcomes of a reload.              *)
(***************************************************************************)
EXTENDS Lifecycle, FiniteSetTheorems, SequenceTheorems, TLAPS

-----------------------------------------------------------------------------
(* The inductive invariant. *)

\* The jobs a bot holds, in the order it will do them.
Line(b) == job[b] \o queue[b]

\* No job is done twice by who works through a line.
Distinct(s) == \A i, j \in 1 .. Len(s) : s[i] = s[j] => i = j

\* Shape of the state.
TasksShape ==
  /\ proc \in {"down", "starting", "up"} /\ stopping \in BOOLEAN /\ closed \in BOOLEAN
  /\ holder \in {"none", "cycle", "reload", "close"}
  /\ waiters \in Seq({"cycle", "reload", "close"})
  /\ stage \in {"idle", "crawl", "send", "collect", "replace", "config"}
  /\ lapsed \in BOOLEAN

BotsShape ==
  /\ posted \in 1 .. MaxPosts /\ known \subseteq 1 .. posted /\ fresh \subseteq known
  /\ active \subseteq Bots /\ running \subseteq active
  /\ queue \in [Bots -> Seq(Posts)]
  /\ job \in [Bots -> {<<>>} \cup {<<p>> : p \in Posts}]
  /\ \A b \in Bots \ running : job[b] = <<>>
  /\ delivered \in [Bots -> SUBSET Posts] /\ twice \in [Bots -> SUBSET Posts]

FileShape ==
  disk # <<>> =>
    disk[1].known \subseteq 1 .. posted /\ disk[1].queue \in [Bots -> Seq(Posts)]

Shape == TasksShape /\ BotsShape /\ FileShape

\* Without a process, or before the dump is read, there is nothing in memory.
Quiet ==
  proc # "up" =>
    /\ holder = "none" /\ waiters = <<>> /\ ~closed
    /\ known = {} /\ fresh = {} /\ queue = Empty /\ job = Empty

\* Who holds the lock, and what the others find while it is held: new posts wait
\* only within a cycle; the bots a dump has collected stand still until it ends.
UnderLock ==
  /\ holder = "none" <=> stage = "idle"
  /\ holder = "cycle" <=> stage \in {"crawl", "send"}
  /\ stage = "config" => holder = "reload" /\ running = {}
  /\ fresh # {} => stage = "send" /\ ~closed
  /\ Collected \subseteq active \ running
  /\ Collected # {} => stage \in {"collect", "replace"} /\ (holder = "close" <=> closed)
  /\ \A b \in Collected : snapshot[b] = queue[b]
  /\ stage = "replace" => active \subseteq Collected
  /\ closed /\ holder # "close" => running = {}

LockInv == Shape /\ Quiet /\ UnderLock

\* What is known is accounted for, in memory and in the file.
Accounted ==
  /\ proc # "down" => Bots \ renewed \subseteq active
  /\ proc = "up" =>
       \A b \in active \ renewed :
         known \subseteq silent \cup fresh \cup delivered[b] \cup ToSet(Line(b))
  /\ SnapshotComplete

\* The file is never ahead of the memory.
FileBehind == proc = "up" /\ disk # <<>> => disk[1].known \subseteq known

\* A line without repetitions, and without what was delivered.
Pending(b, line) == Distinct(line) /\ ToSet(line) \cap delivered[b] = {}

\* As long as no process ended without saving: in memory, and in the file when
\* it is what the next process will start from.
Once ==
  ~lapsed =>
    \A b \in Bots :
      /\ twice[b] = {}
      /\ Pending(b, Line(b))
      /\ proc = "up" => ToSet(Line(b)) \cup delivered[b] \subseteq known \ fresh
      /\ proc # "up" \/ (closed /\ holder # "close") =>
           IF disk = <<>> THEN delivered[b] = {}
           ELSE /\ Pending(b, disk[1].queue[b])
                /\ ToSet(disk[1].queue[b]) \cup delivered[b] \subseteq disk[1].known

LifeInv == LockInv /\ Accounted /\ FileBehind /\ Once

-----------------------------------------------------------------------------
(* The lock, and what stands still under it. *)

LEMMA PostsNumbered == \A n \in 1 .. MaxPosts : 1 .. n \subseteq Posts /\ n \in Nat
  BY BoundsAssumption DEF Posts

\* A start or an end of the process leaves an empty memory.
LEMMA MemoryKeeps ==
  ASSUME Shape, NEW fill \in SUBSET Bots, Memory(fill), proc' \in {"down", "starting"},
         lapsed' \in BOOLEAN, UNCHANGED <<disk, posted, delivered, twice>>
  PROVE  LockInv'
<1>1. /\ holder' = "none" /\ waiters' = <<>> /\ stage' = "idle"
      /\ known' = {} /\ fresh' = {} /\ active' = fill /\ running' = fill
      /\ queue' = Empty /\ job' = Empty /\ snapshot' = <<>>
      /\ stopping' = FALSE /\ closed' = FALSE
  BY DEF Memory
<1>2. /\ queue' \in [Bots -> Seq(Posts)] /\ \A b \in Bots : job'[b] = <<>>
      /\ job' \in [Bots -> {<<>>} \cup {<<p>> : p \in Posts}]
  BY <1>1 DEF Empty
<1>3. TasksShape' /\ FileShape'
  <2>1. TasksShape'
    <3>1. <<>> \in Seq({"cycle", "reload", "close"})
      OBVIOUS
    <3> QED
      BY <1>1, <3>1 DEF TasksShape
  <2>2. FileShape'
    BY DEF Shape, FileShape
  <2> QED
    BY <2>1, <2>2
<1>4. BotsShape'
  <2>1. /\ posted' \in 1 .. MaxPosts
        /\ delivered' \in [Bots -> SUBSET Posts] /\ twice' \in [Bots -> SUBSET Posts]
    BY DEF Shape, BotsShape
  <2> QED
    BY <1>1, <1>2, <2>1 DEF BotsShape
<1>5. Collected' = {}
  BY <1>1 DEF Collected
<1> QED
  BY <1>1, <1>3, <1>4, <1>5 DEF LockInv, Shape, Quiet, UnderLock

LEMMA LockInit == Init => LockInv
<1> SUFFICES ASSUME Init PROVE LockInv
  OBVIOUS
<1>1. MaxPosts \in Nat \ {0}
  BY BoundsAssumption
<1>2. Shape
  <2>1. TasksShape /\ FileShape
    <3>1. <<>> \in Seq({"cycle", "reload", "close"})
      OBVIOUS
    <3> QED
      BY <3>1 DEF Init, TasksShape, FileShape
  <2>2. queue = Empty /\ job = Empty /\ posted = 1 /\ 1 \in 1 .. MaxPosts
    BY <1>1 DEF Init
  <2>3. queue \in [Bots -> Seq(Posts)] /\ job \in [Bots -> {<<>>} \cup {<<p>> : p \in Posts}]
        /\ \A b \in Bots : job[b] = <<>>
    BY <2>2 DEF Empty
  <2>4. BotsShape
    BY <2>2, <2>3 DEF Init, BotsShape
  <2> QED
    BY <2>1, <2>4 DEF Shape
<1>3. Collected = {}
  BY DEF Init, Collected
<1> QED
  BY <1>2, <1>3 DEF Init, LockInv, Quiet, UnderLock

\* The steps that only ask for, get, keep or leave the lock.
LEMMA TasksKeep ==
  ASSUME LockInv, UNCHANGED <<manager, bots, snapshot, disk>>,
         UNCHANGED <<proc, posted, delivered, twice, lapsed>>,
         \/ Wake \/ ScheduleCycle \/ RequestReload \/ RequestClose
         \/ TooLate \/ BeginClose \/ WriteTemp \/ CrawlNothing \/ CrawlFails
  PROVE  LockInv'
<1> USE DEF LockInv, tasks, manager, bots
<1>1. /\ stopping' \in BOOLEAN /\ closed' \in BOOLEAN
      /\ holder' \in {"none", "cycle", "reload", "close"}
      /\ waiters' \in Seq({"cycle", "reload", "close"})
      /\ stage' \in {"idle", "crawl", "send", "collect", "replace", "config"}
      /\ proc = "up"
  <2>1. waiters \in Seq({"cycle", "reload", "close"})
    BY DEF Shape, TasksShape
  <2>2. waiters # <<>> => /\ Head(waiters) \in {"cycle", "reload", "close"}
                         /\ Tail(waiters) \in Seq({"cycle", "reload", "close"})
    BY <2>1
  <2>3. \A t \in {"cycle", "reload", "close"} : Append(waiters, t) \in Seq({"cycle", "reload", "close"})
    BY <2>1
  <2>4. proc = "up"
    BY DEF Quiet, Wake, ScheduleCycle, RequestReload, RequestClose, TooLate,
           BeginClose, WriteTemp, CrawlNothing, CrawlFails, Dumping
  <2> QED
    BY <2>1, <2>2, <2>3, <2>4
    DEF Shape, TasksShape, Wake, ScheduleCycle, RequestReload, RequestClose, TooLate, BeginClose,
        WriteTemp, CrawlNothing, CrawlFails, Acquire, Release, FirstStage
<1>2. Shape'
  BY <1>1 DEF Shape, TasksShape, BotsShape, FileShape
<1>3. Quiet'
  BY <1>1 DEF Quiet
<1>4. Collected' = Collected
  BY DEF Collected
<1>5. CASE Wake
  <2>1. /\ holder = "none" /\ closed' = closed
        /\ holder' \in {"cycle", "reload", "close"} /\ stage' = FirstStage(holder')
    BY <1>5 DEF Wake, Shape, TasksShape
  <2> QED
    BY <1>2, <1>3, <1>4, <2>1 DEF UnderLock, FirstStage
<1>6. CASE ScheduleCycle
  BY <1>2, <1>3, <1>4, <1>6 DEF UnderLock, ScheduleCycle, Acquire
<1>7. CASE RequestReload
  BY <1>2, <1>3, <1>4, <1>7 DEF UnderLock, RequestReload, Acquire
<1>8. CASE RequestClose
  BY <1>2, <1>3, <1>4, <1>8 DEF UnderLock, RequestClose, Acquire
<1>9. CASE TooLate
  BY <1>2, <1>3, <1>4, <1>9 DEF UnderLock, TooLate, Release
<1>10. CASE BeginClose
  BY <1>2, <1>3, <1>4, <1>10 DEF UnderLock, BeginClose
<1>11. CASE WriteTemp
  BY <1>2, <1>3, <1>4, <1>11 DEF UnderLock, WriteTemp, Dumping
<1>12. CASE CrawlNothing
  BY <1>2, <1>3, <1>4, <1>12 DEF UnderLock, CrawlNothing
<1>13. CASE CrawlFails
  BY <1>2, <1>3, <1>4, <1>13 DEF UnderLock, CrawlFails, Release
<1> QED
  BY <1>5, <1>6, <1>7, <1>8, <1>9, <1>10, <1>11, <1>12, <1>13

LEMMA CrawlKeeps ==
  ASSUME LockInv, Crawl
  PROVE  LockInv'
<1> USE DEF LockInv
<1>1. /\ stage = "crawl" /\ stage' = "send" /\ ~closed /\ holder = "cycle"
      /\ known' = 1 .. posted /\ fresh' \subseteq 1 .. posted
      /\ UNCHANGED <<proc, stopping, closed, holder, waiters, active, running, queue, job,
                     snapshot, disk, posted, delivered, twice, lapsed>>
  <2>1. UNCHANGED <<proc, stopping, closed, holder, waiters, active, running, queue, job,
                     snapshot, disk, posted, delivered, twice, lapsed>>
    BY DEF Crawl, bots
  <2> QED
    BY <2>1 DEF Crawl
<1>2. TasksShape' /\ FileShape'
  BY <1>1 DEF Shape, TasksShape, FileShape
<1>3. BotsShape'
  BY <1>1 DEF Shape, BotsShape
<1>4. Quiet' /\ Collected' = Collected
  BY <1>1 DEF Quiet, Collected
<1> QED
  BY <1>1, <1>2, <1>3, <1>4 DEF Shape, UnderLock

\* The sequences a set's elements can be put in.
LEMMA Orders ==
  ASSUME NEW S, IsFiniteSet(S), NEW new \in SetToSeqs(S)
  PROVE  new \in Seq(S) /\ ToSet(new) = S /\ Distinct(new)
<1> DEFINE n == Cardinality(S)
<1>1. n \in Nat
  BY FS_CardinalityType
<1>2. new \in [1 .. n -> S] /\ \A i, j \in 1 .. n : i # j => new[i] # new[j]
  BY DEF SetToSeqs
<1>3. Cardinality(1 .. n) = n
  <2> HIDE DEF n
  <2>1. Cardinality(1 .. n) = IF 1 > n THEN 0 ELSE n - 1 + 1
    BY <1>1, FS_Interval
  <2> QED
    BY <1>1, <2>1
<1> HIDE DEF n
<1>4. new \in Seq(S) /\ Len(new) = n
  BY <1>1, <1>2
<1>5. new \in Injection(1 .. n, S)
  BY <1>2 DEF Injection, IsInjective
<1>6. new \in Surjection(1 .. n, S)
  <2>1. Cardinality(1 .. n) = Cardinality(S)
    BY <1>3 DEF n
  <2> QED
    BY <1>5, <2>1, FS_Injection
<1>7. ToSet(new) = S
  BY <1>2, <1>6 DEF ToSet, Surjection
<1> QED
  BY <1>2, <1>4, <1>7 DEF Distinct

LEMMA SendAllKeeps ==
  ASSUME LockInv, SendAll
  PROVE  LockInv'
<1> USE DEF LockInv
<1>1. /\ holder = "cycle" /\ stage = "send" /\ ~closed
      /\ running' = running \cup active /\ fresh' = {}
      /\ holder' = "none" /\ stage' = "idle"
      /\ UNCHANGED <<proc, stopping, closed, waiters, known, active, job, snapshot, disk,
                     posted, delivered, twice, lapsed>>
  BY DEF SendAll, Release, past
<1>2. queue' \in [Bots -> Seq(Posts)]
  <2>1. PICK new \in SetToSeqs(fresh) :
          queue' = [b \in Bots |-> IF b \in active THEN queue[b] \o new ELSE queue[b]]
    BY DEF SendAll
  <2>2. IsFiniteSet(fresh) /\ fresh \subseteq Posts
    <3>1. posted \in Nat /\ fresh \in SUBSET (1 .. posted) /\ 1 .. posted \subseteq Posts
      BY PostsNumbered DEF Shape, BotsShape
    <3>2. IsFiniteSet(1 .. posted)
      BY <3>1, FS_Interval
    <3> QED
      BY <3>1, <3>2, FS_Subset
  <2>3. new \in Seq(Posts)
    BY <2>2, Orders
  <2>4. \A b \in Bots : queue[b] \in Seq(Posts) /\ queue[b] \o new \in Seq(Posts)
    BY <2>3 DEF Shape, BotsShape
  <2> QED
    BY <2>1, <2>4
<1>3. TasksShape' /\ FileShape'
  BY <1>1 DEF Shape, TasksShape, FileShape
<1>4. BotsShape'
  BY <1>1, <1>2 DEF Shape, BotsShape
<1>5. Quiet' /\ Collected' = {}
  BY <1>1 DEF Quiet, Collected, UnderLock
<1> QED
  BY <1>1, <1>3, <1>4, <1>5 DEF Shape, UnderLock

\* What a bot holds is a sequence of posts.
LEMMA JobSequences ==
  ASSUME Shape, NEW b \in Bots
  PROVE  queue[b] \in Seq(Posts) /\ job[b] \in Seq(Posts) /\ Line(b) \in Seq(Posts)
<1>1. queue[b] \in Seq(Posts)
  BY DEF Shape, BotsShape
<1>2. job[b] \in Seq(Posts)
  <2>1. \A p \in Posts : <<p>> \in Seq(Posts)
    OBVIOUS
  <2>2. <<>> \in Seq(Posts)
    OBVIOUS
  <2> QED
    BY <2>1, <2>2 DEF Shape, BotsShape
<1> QED
  BY <1>1, <1>2 DEF Line

\* What a bot holds, as its consumer or a dump handles it.
LEMMA JobHeld ==
  ASSUME Shape, NEW b \in Bots
  PROVE  /\ queue[b] \in Seq(Posts) /\ job[b] \in Seq(Posts) /\ Line(b) \in Seq(Posts)
         /\ job[b] = <<>> => Line(b) = queue[b]
         /\ job[b] # <<>> => /\ b \in running /\ job[b][1] \in Posts
                            /\ job[b] = <<job[b][1]>> /\ Line(b) = <<job[b][1]>> \o queue[b]
<1>1. queue[b] \in Seq(Posts)
  BY DEF Shape, BotsShape
<1>2. CASE job[b] = <<>>
  BY <1>1, <1>2 DEF Line
<1>3. CASE job[b] # <<>>
  <2>1. PICK p \in Posts : job[b] = <<p>>
    BY <1>3 DEF Shape, BotsShape
  <2>2. job[b][1] = p
    BY <2>1
  <2>3. <<p>> \o queue[b] \in Seq(Posts) /\ <<p>> \in Seq(Posts)
    BY <1>1
  <2> QED
    BY <1>1, <1>3, <2>1, <2>2, <2>3 DEF Line, Shape, BotsShape
<1> QED
  BY <1>2, <1>3

LEMMA TakeJobKeeps ==
  ASSUME LockInv, NEW b \in Bots, TakeJob(b)
  PROVE  LockInv' /\ \A c \in Bots : Line(c)' = Line(c)
<1> USE DEF LockInv
<1> PICK p, rest : p = Head(queue[b]) /\ rest = Tail(queue[b])
  OBVIOUS
<1>1. /\ b \in running /\ job[b] = <<>> /\ queue[b] # <<>>
      /\ job' = [job EXCEPT ![b] = <<p>>] /\ queue' = [queue EXCEPT ![b] = rest]
      /\ UNCHANGED <<proc, stopping, closed, holder, waiters, stage, known, fresh, active,
                     running, snapshot, disk, posted, delivered, twice, lapsed>>
  <2>1. UNCHANGED <<proc, stopping, closed, holder, waiters, stage, known, fresh, active,
                     running, snapshot, disk, posted, delivered, twice, lapsed>>
    BY DEF TakeJob, tasks, manager, past
  <2> QED
    BY <2>1 DEF TakeJob
<1>2. p \in Posts /\ rest \in Seq(Posts) /\ queue[b] = <<p>> \o rest
  <2>1. queue[b] \in Seq(Posts)
    BY JobHeld
  <2> QED
    BY <1>1, <2>1
<1>3. /\ job' \in [Bots -> {<<>>} \cup {<<q>> : q \in Posts}] /\ job'[b] = <<p>>
      /\ queue' \in [Bots -> Seq(Posts)] /\ queue'[b] = rest
      /\ \A c \in Bots : c # b => job'[c] = job[c] /\ queue'[c] = queue[c]
  BY <1>1, <1>2 DEF Shape, BotsShape
<1>4. TasksShape' /\ FileShape'
  BY <1>1 DEF Shape, TasksShape, FileShape
<1>5. BotsShape'
  BY <1>1, <1>3 DEF Shape, BotsShape
<1>6. Quiet'
  BY <1>1 DEF Quiet, Empty
<1>7. Collected' = Collected /\ b \notin Collected /\ Collected \subseteq Bots
  BY <1>1 DEF Collected, UnderLock, Shape, BotsShape
<1>8. UnderLock'
  BY <1>1, <1>3, <1>7 DEF UnderLock
<1>9. ASSUME NEW c \in Bots PROVE Line(c)' = Line(c)
  <2>1. CASE c = b
    <3>1. Line(b)' = <<p>> \o rest
      BY <1>3 DEF Line
    <3> QED
      BY <1>1, <1>2, <2>1, <3>1, JobHeld
  <2>2. CASE c # b
    BY <1>3, <2>2 DEF Line
  <2> QED
    BY <2>1, <2>2
<1> QED
  BY <1>4, <1>5, <1>6, <1>8, <1>9 DEF Shape

LEMMA DeliverKeeps ==
  ASSUME LockInv, NEW b \in Bots, Deliver(b)
  PROVE  LockInv'
<1> USE DEF LockInv
<1>1. /\ b \in running /\ job[b] # <<>> /\ job' = [job EXCEPT ![b] = <<>>]
      /\ delivered' = [delivered EXCEPT ![b] = @ \cup {job[b][1]}]
      /\ twice' = [twice EXCEPT ![b] = @ \cup (delivered[b] \cap {job[b][1]})]
      /\ UNCHANGED <<proc, stopping, closed, holder, waiters, stage, known, fresh, active,
                     running, queue, snapshot, disk, posted, lapsed>>
  <2>1. UNCHANGED <<proc, stopping, closed, holder, waiters, stage, known, fresh, active,
                     running, queue, snapshot, disk, posted, lapsed>>
    BY DEF Deliver, tasks, manager
  <2> QED
    BY <2>1 DEF Deliver
<1>2. job[b][1] \in Posts
  BY <1>1, JobHeld
<1>3. /\ job' \in [Bots -> {<<>>} \cup {<<q>> : q \in Posts}]
      /\ \A c \in Bots \ running : job'[c] = <<>>
      /\ delivered' \in [Bots -> SUBSET Posts] /\ twice' \in [Bots -> SUBSET Posts]
  BY <1>1, <1>2 DEF Shape, BotsShape
<1>4. TasksShape' /\ FileShape'
  BY <1>1 DEF Shape, TasksShape, FileShape
<1>5. BotsShape'
  BY <1>1, <1>3 DEF Shape, BotsShape
<1>6. Quiet'
  BY <1>1 DEF Quiet, Empty
<1>7. UnderLock'
  BY <1>1 DEF UnderLock, Collected
<1> QED
  BY <1>4, <1>5, <1>6, <1>7 DEF Shape

LEMMA CollectKeeps ==
  ASSUME LockInv, NEW b \in Bots, Collect(b)
  PROVE  LockInv' /\ \A c \in Bots : Line(c)' = Line(c)
<1> USE DEF LockInv
<1>1. /\ b \in active \ Collected /\ stage = "collect" /\ Dumping
      /\ (holder = "close" => closed) /\ running' = running \ {b}
      /\ queue' = [queue EXCEPT ![b] = Line(b)] /\ job' = [job EXCEPT ![b] = <<>>]
      /\ snapshot' = [c \in Collected \cup {b} |-> IF c = b THEN Line(b) ELSE snapshot[c]]
      /\ UNCHANGED <<proc, stopping, closed, holder, waiters, stage, known, fresh, active,
                     disk, posted, delivered, twice, lapsed>>
  <2>1. UNCHANGED <<proc, stopping, closed, holder, waiters, stage, known, fresh, active,
                     disk, posted, delivered, twice, lapsed>>
    BY DEF Collect, tasks, manager, past
  <2>2. /\ b \in active \ Collected /\ stage = "collect" /\ Dumping
        /\ (holder = "close" => closed) /\ running' = running \ {b}
    BY DEF Collect, StopConsumer
  <2>3. queue' = [queue EXCEPT ![b] = Line(b)]
    BY DEF Collect, StopConsumer, Line
  <2> QED
    BY <2>1, <2>2, <2>3 DEF Collect, StopConsumer, Line
<1>2. Line(b) \in Seq(Posts) /\ active \subseteq Bots
  BY JobHeld DEF Shape, BotsShape
<1>3. /\ queue' \in [Bots -> Seq(Posts)] /\ queue'[b] = Line(b)
      /\ job' \in [Bots -> {<<>>} \cup {<<q>> : q \in Posts}] /\ job'[b] = <<>>
      /\ \A c \in Bots : c # b => job'[c] = job[c] /\ queue'[c] = queue[c]
  BY <1>1, <1>2 DEF Shape, BotsShape
<1>4. TasksShape' /\ FileShape'
  BY <1>1 DEF Shape, TasksShape, FileShape
<1>5. BotsShape'
  BY <1>1, <1>3 DEF Shape, BotsShape
<1>6. Quiet' /\ proc = "up"
  BY <1>1 DEF Quiet, Dumping
<1>7. /\ Collected' = Collected \cup {b} /\ snapshot'[b] = Line(b)
      /\ \A c \in Collected : snapshot'[c] = snapshot[c] /\ c # b /\ c \in Bots
      /\ Collected \subseteq active \ running
  <2>1. Collected \subseteq active \ running
    BY DEF UnderLock
  <2>2. DOMAIN snapshot' = Collected \cup {b}
    BY <1>1
  <2>3. \A c \in Collected \cup {b} : snapshot'[c] = IF c = b THEN Line(b) ELSE snapshot[c]
    BY <1>1
  <2> QED
    BY <1>1, <1>2, <2>1, <2>2, <2>3 DEF Collected
<1>8. UnderLock'
  <2>1. holder = "close" <=> closed
    BY <1>1 DEF Dumping, UnderLock, Shape, TasksShape
  <2>2. \A c \in Collected' : snapshot'[c] = queue'[c]
    BY <1>3, <1>7 DEF UnderLock
  <2>3. Collected' \subseteq active' \ running'
    BY <1>1, <1>7
  <2> QED
    BY <1>1, <2>1, <2>2, <2>3 DEF UnderLock
<1>9. ASSUME NEW c \in Bots PROVE Line(c)' = Line(c)
  <2>1. CASE c = b
    <3> PICK line \in Seq(Posts) : line = Line(b)
      BY <1>2
    <3>1. Line(b)' = <<>> \o line
      BY <1>3 DEF Line
    <3> QED
      BY <2>1, <3>1
  <2>2. CASE c # b
    BY <1>3, <2>2 DEF Line
  <2> QED
    BY <2>1, <2>2
<1> QED
  BY <1>4, <1>5, <1>6, <1>8, <1>9 DEF Shape

\* When a dump is put in place, every bot stands still with the line it has, and
\* the file gets these lines.
LEMMA Still ==
  ASSUME LockInv, stage = "replace", Dumping
  PROVE  /\ running = {} /\ Collected = active /\ fresh = {} /\ proc = "up"
         /\ \A b \in Bots : job[b] = <<>> /\ Line(b) = queue[b]
         /\ \A b \in active : Saved.queue[b] = Line(b)
         /\ \A b \in Bots \ active : Saved.queue[b] = <<>>
         /\ Saved.known = known /\ Saved.queue \in [Bots -> Seq(Posts)]
<1>1. running = {} /\ Collected = active /\ fresh = {} /\ proc = "up"
  BY DEF LockInv, UnderLock, Shape, BotsShape, Quiet, Dumping
<1>2. \A b \in Bots : job[b] = <<>> /\ queue[b] \in Seq(Posts)
  BY <1>1 DEF LockInv, Shape, BotsShape
<1>3. \A b \in Bots : Line(b) = queue[b]
  BY <1>2, JobHeld DEF LockInv
<1>4. \A b \in Bots : Saved.queue[b] = IF b \in active THEN snapshot[b] ELSE <<>>
  BY <1>1 DEF Saved
<1>5. \A b \in active : snapshot[b] = queue[b] /\ b \in Bots
  BY <1>1 DEF LockInv, UnderLock, Shape, BotsShape
<1>6. Saved.queue \in [Bots -> Seq(Posts)]
  <2>1. \A b \in Bots : Saved.queue[b] \in Seq(Posts)
    <3>1. <<>> \in Seq(Posts)
      OBVIOUS
    <3> QED
      BY <1>2, <1>4, <1>5, <3>1
  <2>2. Saved.queue = [b \in Bots |-> Saved.queue[b]]
    BY DEF Saved
  <2> QED
    BY <2>1, <2>2
<1>7. Saved.known = known
  BY DEF Saved
<1> QED
  BY <1>1, <1>2, <1>3, <1>4, <1>5, <1>6, <1>7

\* The end of a dump, with the new file in place or not.
LEMMA DumpEnds ==
  ASSUME LockInv, Replace \/ \E written \in BOOLEAN : DumpFails(written)
  PROVE  LockInv' /\ \A b \in Bots : Line(b)' = Line(b)
<1> USE DEF LockInv
<1>1. /\ stage = "replace" /\ Dumping /\ snapshot' = <<>>
      /\ disk' = <<Saved>> \/ disk' = disk
      /\ \/ running' = IF closed THEN running ELSE running \cup active
         \/ running' = running
      /\ UNCHANGED <<proc, stopping, closed, waiters, known, fresh, active,
                     queue, job, posted, delivered, twice>>
      /\ \/ holder' = "none" /\ stage' = "idle"
         \/ holder = "reload" /\ holder' = holder /\ stage' = "config" /\ running' = running
      /\ lapsed' \in BOOLEAN
  BY DEF Replace, DumpFails, Release, Dumping, manager, bots, past, Shape, TasksShape
<1>2. /\ running = {} /\ fresh = {} /\ proc = "up"
      /\ \A b \in Bots : job[b] = <<>>
      /\ Saved.known = known /\ Saved.queue \in [Bots -> Seq(Posts)]
  BY <1>1, Still
<1>3. TasksShape'
  BY <1>1 DEF Shape, TasksShape
<1>4. FileShape'
  <2>1. <<Saved>>[1] = Saved
    OBVIOUS
  <2> QED
    BY <1>1, <1>2, <2>1 DEF Shape, FileShape, BotsShape
<1>5. BotsShape'
  BY <1>1, <1>2 DEF Shape, BotsShape
<1>6. Quiet' /\ Collected' = {}
  BY <1>1, <1>2 DEF Quiet, Collected
<1>7. UnderLock'
  BY <1>1, <1>2, <1>6 DEF UnderLock
<1>8. \A b \in Bots : Line(b)' = Line(b)
  BY <1>1 DEF Line
<1> QED
  BY <1>3, <1>4, <1>5, <1>6, <1>7, <1>8 DEF Shape

\* A reload's new set of bots: those it keeps go on with the lines they have.
LEMMA ReconfigureKeeps ==
  ASSUME LockInv, NEW kept \in SUBSET active, NEW replaced \in SUBSET Bots,
         Reconfigure(kept, replaced)
  PROVE  /\ LockInv' /\ proc = "up" /\ ~closed
         /\ \A b \in kept : Line(b)' = Line(b)
         /\ \A b \in Bots \ kept : Line(b)' = <<>>
<1> USE DEF LockInv
<1>1. /\ holder = "reload" /\ ~closed /\ stage = "config"
      /\ active' = kept \cup replaced /\ running' = kept \cup replaced
      /\ queue' = [b \in Bots |-> IF b \in kept THEN queue[b] ELSE <<>>]
      /\ holder' = "none" /\ stage' = "idle"
      /\ UNCHANGED <<proc, stopping, closed, waiters, known, fresh, job, snapshot, disk,
                     posted, delivered, twice, lapsed>>
  BY DEF Reconfigure, Release
<1>2. /\ proc = "up" /\ fresh = {} /\ running = {} /\ Collected = {}
      /\ \A b \in Bots : job[b] = <<>>
  <2>1. proc = "up" /\ fresh = {} /\ running = {} /\ Collected = {}
    BY <1>1 DEF Quiet, UnderLock
  <2> QED
    BY <2>1 DEF Shape, BotsShape
<1>3. /\ queue' \in [Bots -> Seq(Posts)]
      /\ \A b \in Bots : queue'[b] = IF b \in kept THEN queue[b] ELSE <<>>
  <2>1. \A b \in Bots : queue[b] \in Seq(Posts) /\ <<>> \in Seq(Posts)
    BY DEF Shape, BotsShape
  <2> QED
    BY <1>1, <2>1
<1>4. TasksShape' /\ FileShape'
  BY <1>1 DEF Shape, TasksShape, FileShape
<1>5. BotsShape'
  BY <1>1, <1>2, <1>3 DEF Shape, BotsShape
<1>6. Quiet' /\ Collected' = {}
  BY <1>1, <1>2 DEF Quiet, Collected
<1>7. UnderLock'
  BY <1>1, <1>2, <1>6 DEF UnderLock
<1>8. kept \subseteq Bots
  BY DEF Shape, BotsShape
<1>9. \A b \in kept : Line(b)' = Line(b)
  BY <1>1, <1>3, <1>8 DEF Line
<1>10. \A b \in Bots \ kept : Line(b)' = <<>>
  BY <1>1, <1>2, <1>3 DEF Line
<1> QED
  BY <1>1, <1>2, <1>4, <1>5, <1>6, <1>7, <1>9, <1>10 DEF Shape

LEMMA LoadKeeps ==
  ASSUME LockInv, Load
  PROVE  /\ LockInv' /\ fresh = {} /\ holder = "none" /\ ~closed
         /\ \A b \in Bots : Line(b)' = IF disk = <<>> THEN <<>> ELSE disk[1].queue[b]
         /\ known' = IF disk = <<>> THEN {} ELSE disk[1].known
<1> USE DEF LockInv
<1>1. /\ proc = "starting" /\ proc' = "up"
      /\ IF disk = <<>> THEN UNCHANGED <<known, queue>>
         ELSE known' = disk[1].known /\ queue' = disk[1].queue
      /\ UNCHANGED <<stopping, closed, holder, waiters, stage, fresh, active, running, job,
                     snapshot, disk, posted, delivered, twice, lapsed>>
  BY DEF Load, tasks, past
<1>2. /\ holder = "none" /\ ~closed /\ known = {} /\ fresh = {} /\ queue = Empty
      /\ job = Empty
  BY <1>1 DEF Quiet
<1>3. /\ queue' \in [Bots -> Seq(Posts)] /\ known' \subseteq 1 .. posted
      /\ known' = IF disk = <<>> THEN {} ELSE disk[1].known
      /\ \A b \in Bots : queue'[b] = IF disk = <<>> THEN <<>> ELSE disk[1].queue[b]
  BY <1>1, <1>2 DEF Shape, BotsShape, FileShape, Empty
<1>4. TasksShape' /\ FileShape'
  BY <1>1 DEF Shape, TasksShape, FileShape
<1>5. BotsShape'
  BY <1>1, <1>2, <1>3 DEF Shape, BotsShape
<1>6. Quiet' /\ Collected' = Collected /\ Collected = {}
  BY <1>1, <1>2 DEF Quiet, Collected, UnderLock
<1>7. UnderLock'
  BY <1>1, <1>2, <1>6 DEF UnderLock
<1>8. ASSUME NEW b \in Bots PROVE Line(b)' = queue'[b]
  <2>1. job'[b] = <<>>
    BY <1>1, <1>2 DEF Empty
  <2>2. queue'[b] \in Seq(Posts)
    BY <1>3
  <2> QED
    BY <2>1, <2>2 DEF Line
<1> QED
  BY <1>2, <1>3, <1>4, <1>5, <1>6, <1>7, <1>8 DEF Shape

-----------------------------------------------------------------------------
(* What is known, sent and saved. *)

\* Steps that move no post from where it is: they only concern the lock, or move
\* a job between a bot's queue and its consumer.
LEMMA LinesStay ==
  ASSUME LifeInv, \A b \in Bots : Line(b)' = Line(b),
         UNCHANGED <<proc, known, fresh, active, disk, delivered, twice, silent, lapsed, renewed>>,
         closed' /\ holder' # "close" => closed /\ holder # "close"
  PROVE  Accounted' /\ FileBehind' /\ Once'
<1>1. Accounted'
  <2>1. \A b \in active : b \in Bots
    BY DEF LifeInv, LockInv, Shape, BotsShape
  <2>2. SnapshotComplete'
    BY DEF LifeInv, Accounted, SnapshotComplete
  <2> QED
    BY <2>1, <2>2 DEF LifeInv, Accounted
<1>2. FileBehind'
  BY DEF LifeInv, FileBehind
<1>3. Once'
  BY DEF LifeInv, Once, Pending
<1> QED
  BY <1>1, <1>2, <1>3

LEMMA EmptyLine ==
  ASSUME NEW b \in Bots
  PROVE  Pending(b, <<>>) /\ ToSet(<<>>) = {}
  BY DEF Pending, Distinct, ToSet

\* A start or an end of the process: what the file holds is what counts.
LEMMA MemoryEmptied ==
  ASSUME LifeInv, NEW fill \in SUBSET Bots, Memory(fill), proc' \in {"down", "starting"},
         proc' # "down" => fill = Bots, lapsed' \in BOOLEAN,
         UNCHANGED <<disk, posted, delivered, twice, silent, renewed>>,
         ~lapsed' => ~lapsed /\ (proc # "up" \/ (closed /\ holder # "close"))
  PROVE  LifeInv'
<1>1. LockInv'
  BY MemoryKeeps DEF LifeInv, LockInv
<1>2. active' = fill /\ proc' # "up" /\ \A b \in Bots : Line(b)' = <<>>
  <2>1. job' = Empty /\ queue' = Empty /\ active' = fill
    BY DEF Memory
  <2>2. \A b \in Bots : Line(b)' = <<>> \o <<>>
    BY <2>1 DEF Line, Empty
  <2> QED
    BY <2>1, <2>2
<1>3. SnapshotComplete'
  BY DEF LifeInv, Accounted, SnapshotComplete
<1>4. Accounted'
  BY <1>2, <1>3 DEF Accounted
<1>5. FileBehind'
  BY <1>2 DEF FileBehind
<1>6. Once'
  <2> SUFFICES ASSUME ~lapsed', NEW b \in Bots
               PROVE  /\ twice'[b] = {} /\ Pending(b, Line(b))'
                      /\ IF disk = <<>> THEN delivered[b] = {}
                         ELSE /\ Pending(b, disk[1].queue[b])
                              /\ ToSet(disk[1].queue[b]) \cup delivered[b] \subseteq disk[1].known
    BY <1>2 DEF Once, Pending
  <2>1. twice[b] = {} /\ IF disk = <<>> THEN delivered[b] = {}
                         ELSE /\ Pending(b, disk[1].queue[b])
                              /\ ToSet(disk[1].queue[b]) \cup delivered[b] \subseteq disk[1].known
    BY DEF LifeInv, Once
  <2>2. Pending(b, Line(b))'
    BY <1>2, EmptyLine DEF Pending
  <2> QED
    BY <2>1, <2>2
<1> QED
  BY <1>1, <1>4, <1>5, <1>6 DEF LifeInv

LEMMA LoadStep ==
  ASSUME LifeInv, Load
  PROVE  LifeInv'
<1>1. /\ LockInv' /\ fresh = {} /\ holder = "none" /\ ~closed
      /\ \A b \in Bots : Line(b)' = IF disk = <<>> THEN <<>> ELSE disk[1].queue[b]
      /\ known' = IF disk = <<>> THEN {} ELSE disk[1].known
  BY LoadKeeps DEF LifeInv
<1>2. /\ proc = "starting" /\ proc' = "up"
      /\ UNCHANGED <<closed, holder, fresh, active, disk, delivered, twice, silent, lapsed, renewed>>
  BY DEF Load, tasks, past
<1>3. \A b \in active : b \in Bots
  BY DEF LifeInv, LockInv, Shape, BotsShape
<1>4. SnapshotComplete /\ SnapshotComplete'
  BY <1>2 DEF LifeInv, Accounted, SnapshotComplete
<1>5. Accounted'
  <2>1. Bots \ renewed' \subseteq active'
    BY <1>2 DEF LifeInv, Accounted
  <2>2. ASSUME NEW b \in active \ renewed
        PROVE  known' \subseteq silent \cup delivered[b] \cup ToSet(Line(b)')
    <3>1. CASE disk = <<>>
      BY <1>1, <3>1
    <3>2. CASE disk # <<>>
      BY <1>1, <1>3, <1>4, <2>2, <3>2 DEF SnapshotComplete
    <3> QED
      BY <3>1, <3>2
  <2> QED
    BY <1>2, <1>4, <2>1, <2>2 DEF Accounted
<1>6. FileBehind'
  BY <1>1, <1>2 DEF FileBehind
<1>7. Once'
  <2> SUFFICES ASSUME ~lapsed, NEW b \in Bots
               PROVE  /\ twice[b] = {} /\ Pending(b, Line(b))'
                      /\ ToSet(Line(b))' \cup delivered[b] \subseteq known' \ fresh
    BY <1>1, <1>2 DEF Once, Pending
  <2>1. twice[b] = {} /\ IF disk = <<>> THEN delivered[b] = {}
                         ELSE /\ Pending(b, disk[1].queue[b])
                              /\ ToSet(disk[1].queue[b]) \cup delivered[b] \subseteq disk[1].known
    BY <1>2 DEF LifeInv, Once
  <2>2. CASE disk = <<>>
    BY <1>1, <1>2, <2>1, <2>2, EmptyLine DEF Pending
  <2>3. CASE disk # <<>>
    BY <1>1, <1>2, <2>1, <2>3 DEF Pending
  <2> QED
    BY <2>1, <2>2, <2>3
<1> QED
  BY <1>1, <1>5, <1>6, <1>7 DEF LifeInv

LEMMA CrawlStep ==
  ASSUME LifeInv, Crawl
  PROVE  LifeInv'
<1>1. /\ ~closed /\ stage = "crawl" /\ known' = 1 .. posted
      /\ fresh' = (IF known = {} THEN {} ELSE (1 .. posted) \ known)
      /\ silent' = (IF known = {} THEN silent \cup (1 .. posted) ELSE silent)
      /\ UNCHANGED <<proc, closed, holder, active, queue, job, disk, delivered, twice, lapsed,
                     renewed>>
  BY DEF Crawl, bots
<1>2. /\ LockInv /\ LockInv' /\ proc = "up" /\ fresh = {} /\ known \subseteq known'
      /\ active \subseteq Bots
  BY <1>1, CrawlKeeps DEF LifeInv, LockInv, Crawl, Quiet, UnderLock, Shape, BotsShape
<1>3. \A b \in Bots : Line(b)' = Line(b)
  BY <1>1 DEF Line
<1>4. SnapshotComplete'
  <2>1. SnapshotComplete /\ silent \subseteq silent'
    BY <1>1 DEF LifeInv, Accounted
  <2> QED
    BY <1>1, <2>1 DEF SnapshotComplete
<1>5. Accounted'
  <2>1. ASSUME NEW b \in active \ renewed
        PROVE  known' \subseteq silent' \cup fresh' \cup delivered[b] \cup ToSet(Line(b))
    <3>1. known \subseteq silent \cup delivered[b] \cup ToSet(Line(b))
      BY <1>2, <2>1 DEF LifeInv, Accounted
    <3> QED
      BY <1>1, <3>1
  <2> QED
    BY <1>1, <1>2, <1>3, <1>4, <2>1 DEF LifeInv, Accounted
<1>6. FileBehind'
  BY <1>1, <1>2 DEF FileBehind, LockInv, Shape, FileShape
<1>7. Once'
  <2> SUFFICES ASSUME ~lapsed, NEW b \in Bots
               PROVE  /\ twice[b] = {} /\ Pending(b, Line(b))
                      /\ ToSet(Line(b)) \cup delivered[b] \subseteq known' \ fresh'
    BY <1>1, <1>2, <1>3 DEF Once, Pending
  <2>1. /\ twice[b] = {} /\ Pending(b, Line(b))
        /\ ToSet(Line(b)) \cup delivered[b] \subseteq known
    BY <1>2 DEF LifeInv, Once
  <2>2. known \subseteq known' \ fresh'
    BY <1>1, <1>2
  <2> QED
    BY <2>1, <2>2
<1> QED
  BY <1>2, <1>5, <1>6, <1>7 DEF LifeInv

\* Lines put together.
LEMMA Joined ==
  ASSUME NEW S, NEW s \in Seq(S), NEW t \in Seq(S)
  PROVE  /\ ToSet(s \o t) = ToSet(s) \cup ToSet(t)
         /\ Distinct(s) /\ Distinct(t) /\ ToSet(s) \cap ToSet(t) = {} => Distinct(s \o t)
<1> DEFINE m == Len(s)
           n == Len(t)
           u == s \o t
<1>1. /\ m \in Nat /\ n \in Nat /\ Len(u) = m + n /\ u \in Seq(S)
      /\ DOMAIN s = 1 .. m /\ DOMAIN t = 1 .. n /\ DOMAIN u = 1 .. m + n
  BY ConcatProperties
<1>2. \A i \in 1 .. m + n : u[i] = IF i <= m THEN s[i] ELSE t[i - m]
  BY ConcatProperties
<1>3. \A i \in 1 .. m : i \in 1 .. m + n /\ u[i] = s[i]
  <2> HIDE DEF m, n, u
  <2> QED
    BY <1>1, <1>2
<1>4. \A i \in 1 .. n : m + i \in 1 .. m + n /\ u[m + i] = t[i]
  <2> HIDE DEF m, n, u
  <2>1. ASSUME NEW i \in 1 .. n PROVE m + i \in 1 .. m + n /\ u[m + i] = t[i]
    <3>1. m + i \in 1 .. m + n /\ ~(m + i <= m) /\ (m + i) - m = i
      BY <1>1
    <3> QED
      BY <1>2, <3>1
  <2> QED
    BY <2>1
<1>5. \A i \in 1 .. m + n : i \in 1 .. m \/ \E k \in 1 .. n : i = m + k
  <2> HIDE DEF m, n, u
  <2>1. ASSUME NEW i \in 1 .. m + n, i \notin 1 .. m PROVE \E k \in 1 .. n : i = m + k
    <3>1. i - m \in 1 .. n /\ i = m + (i - m)
      BY <1>1, <2>1
    <3> QED
      BY <3>1
  <2> QED
    BY <2>1
<1> HIDE DEF m, n, u
<1>6. ToSet(u) = ToSet(s) \cup ToSet(t)
  <2>1. ASSUME NEW x \in ToSet(u) PROVE x \in ToSet(s) \cup ToSet(t)
    <3>1. PICK i \in 1 .. m + n : u[i] = x
      BY <1>1 DEF ToSet
    <3>2. CASE i \in 1 .. m
      BY <1>1, <1>3, <3>1, <3>2 DEF ToSet
    <3>3. ASSUME NEW k \in 1 .. n, i = m + k PROVE x \in ToSet(t)
      BY <1>1, <1>4, <3>1, <3>3 DEF ToSet
    <3> QED
      BY <1>5, <3>2, <3>3
  <2>2. ASSUME NEW x \in ToSet(s) \cup ToSet(t) PROVE x \in ToSet(u)
    BY <1>1, <1>3, <1>4 DEF ToSet
  <2> QED
    BY <2>1, <2>2
<1>7. ASSUME Distinct(s), Distinct(t), ToSet(s) \cap ToSet(t) = {} PROVE Distinct(u)
  <2>1. \A i, j \in 1 .. m : s[i] = s[j] => i = j
    BY <1>7 DEF Distinct, m
  <2>2. \A i, j \in 1 .. n : t[i] = t[j] => i = j
    BY <1>7 DEF Distinct, n
  <2>3. \A i \in 1 .. m, j \in 1 .. n : s[i] # t[j]
    BY <1>1, <1>7 DEF ToSet
  <2>4. ASSUME NEW i \in 1 .. m + n, NEW j \in 1 .. m + n, u[i] = u[j] PROVE i = j
    BY <1>3, <1>4, <1>5, <2>1, <2>2, <2>3, <2>4
  <2> QED
    BY <1>1, <2>4 DEF Distinct
<1> QED
  BY <1>6, <1>7 DEF u

\* Sending puts the new posts at the end of every line.
LEMMA SendAllStep ==
  ASSUME LifeInv, SendAll
  PROVE  LifeInv'
<1>1. /\ ~closed /\ stage = "send" /\ fresh' = {} /\ holder = "cycle"
      /\ UNCHANGED <<proc, closed, known, active, job, disk, delivered, twice, silent, lapsed,
                     renewed>>
  BY DEF SendAll, past
<1>2. /\ LockInv /\ LockInv' /\ proc = "up" /\ active \subseteq Bots /\ fresh \subseteq known
  BY <1>1, SendAllKeeps DEF LifeInv, LockInv, Quiet, Shape, BotsShape
<1>3. PICK new \in SetToSeqs(fresh) :
        queue' = [b \in Bots |-> IF b \in active THEN queue[b] \o new ELSE queue[b]]
  BY DEF SendAll
<1>4. new \in Seq(Posts) /\ ToSet(new) = fresh /\ Distinct(new)
  <2>1. posted \in Nat /\ fresh \in SUBSET (1 .. posted) /\ 1 .. posted \subseteq Posts
    BY <1>2, PostsNumbered DEF LockInv, Shape, BotsShape
  <2>2. IsFiniteSet(1 .. posted)
    BY <2>1, FS_Interval
  <2>3. IsFiniteSet(fresh) /\ fresh \subseteq Posts
    BY <2>1, <2>2, FS_Subset
  <2>4. new \in Seq(fresh) /\ ToSet(new) = fresh /\ Distinct(new)
    BY <2>3, Orders
  <2> QED
    BY <2>3, <2>4
<1>5. ASSUME NEW b \in Bots
      PROVE  /\ Line(b) \in Seq(Posts)
             /\ Line(b)' = IF b \in active THEN Line(b) \o new ELSE Line(b)
  <2>1. job[b] \in Seq(Posts) /\ queue[b] \in Seq(Posts) /\ Line(b) \in Seq(Posts)
    BY <1>2, JobSequences DEF LockInv
  <2>2. \A s, t, u \in Seq(Posts) : s \o (t \o u) = (s \o t) \o u
    BY ConcatAssociative, SMTT(20)
  <2>3. Line(b)' = job[b] \o queue'[b] /\ Line(b) = job[b] \o queue[b]
    BY <1>1 DEF Line
  <2>4. queue'[b] = IF b \in active THEN queue[b] \o new ELSE queue[b]
    BY <1>3
  <2>5. Line(b)' = IF b \in active THEN Line(b) \o new ELSE Line(b)
    <3>1. CASE b \in active
      <4>1. job[b] \o (queue[b] \o new) = (job[b] \o queue[b]) \o new
        BY <1>4, <2>1, <2>2
      <4> QED
        BY <2>3, <2>4, <3>1, <4>1
    <3>2. CASE b \notin active
      BY <2>3, <2>4, <3>2
    <3> QED
      BY <3>1, <3>2
  <2> QED
    BY <2>1, <2>5
<1>6. SnapshotComplete'
  BY <1>1 DEF LifeInv, Accounted, SnapshotComplete
<1>7. Accounted'
  <2>1. ASSUME NEW b \in active \ renewed
        PROVE  known \subseteq silent \cup delivered[b] \cup ToSet(Line(b)')
    <3>1. Line(b)' = Line(b) \o new /\ Line(b) \in Seq(Posts)
      BY <1>2, <1>5, <2>1
    <3>2. ToSet(Line(b)') = ToSet(Line(b)) \cup fresh
      BY <1>4, <3>1, Joined
    <3>3. known \subseteq silent \cup fresh \cup delivered[b] \cup ToSet(Line(b))
      BY <1>2, <2>1 DEF LifeInv, Accounted
    <3> QED
      BY <3>2, <3>3
  <2> QED
    BY <1>1, <1>6, <2>1 DEF LifeInv, Accounted
<1>8. FileBehind'
  BY <1>1 DEF LifeInv, FileBehind
<1>9. Once'
  <2> SUFFICES ASSUME ~lapsed, NEW b \in Bots
               PROVE  /\ twice[b] = {} /\ Pending(b, Line(b))'
                      /\ ToSet(Line(b)') \cup delivered[b] \subseteq known
    BY <1>1, <1>2 DEF Once, Pending
  <2>1. /\ twice[b] = {} /\ Pending(b, Line(b))
        /\ ToSet(Line(b)) \cup delivered[b] \subseteq known \ fresh
    BY <1>2 DEF LifeInv, Once
  <2>2. CASE b \in active
    <3>1. Line(b)' = Line(b) \o new /\ Line(b) \in Seq(Posts)
      BY <1>5, <2>2
    <3>2. ToSet(Line(b)') = ToSet(Line(b)) \cup fresh
      BY <1>4, <3>1, Joined
    <3>3. Distinct(Line(b)')
      BY <1>4, <2>1, <3>1, Joined DEF Pending
    <3>4. ToSet(Line(b)') \cap delivered[b] = {}
      BY <2>1, <3>2 DEF Pending
    <3> QED
      BY <1>1, <1>2, <2>1, <3>2, <3>3, <3>4 DEF Pending
  <2>3. CASE b \notin active
    BY <1>1, <1>5, <2>1, <2>3 DEF Pending
  <2> QED
    BY <2>2, <2>3
<1> QED
  BY <1>2, <1>7, <1>8, <1>9 DEF LifeInv

\* A delivered post leaves the line it was the first of.
LEMMA DeliverStep ==
  ASSUME LifeInv, NEW b \in Bots, Deliver(b)
  PROVE  LifeInv'
<1> PICK p : p = job[b][1]
  OBVIOUS
<1>1. /\ b \in running /\ job[b] # <<>> /\ job' = [job EXCEPT ![b] = <<>>]
      /\ delivered' = [delivered EXCEPT ![b] = @ \cup {p}]
      /\ twice' = [twice EXCEPT ![b] = @ \cup (delivered[b] \cap {p})]
      /\ UNCHANGED <<proc, closed, holder, known, fresh, active, queue, disk, silent, lapsed,
                     renewed>>
  BY DEF Deliver, tasks, manager
<1>2. /\ LockInv /\ LockInv' /\ proc = "up" /\ active \subseteq Bots
      /\ ~(closed /\ holder # "close")
  BY <1>1, DeliverKeeps DEF LifeInv, LockInv, Quiet, Shape, BotsShape, UnderLock, Empty
<1>3. /\ \A c \in Bots : c # b => /\ delivered'[c] = delivered[c] /\ twice'[c] = twice[c]
                                 /\ Line(c)' = Line(c)
      /\ delivered'[b] = delivered[b] \cup {p}
      /\ twice'[b] = twice[b] \cup (delivered[b] \cap {p})
  BY <1>1, <1>2 DEF LockInv, Shape, BotsShape, Line
<1>4. p \in Posts /\ Line(b) = <<p>> \o queue[b] /\ queue[b] \in Seq(Posts)
  BY <1>1, <1>2, JobHeld DEF LockInv
<1>5. Line(b)' = queue[b]
  <2>1. job'[b] = <<>>
    BY <1>1, <1>2 DEF LockInv, Shape, BotsShape
  <2> PICK q \in Seq(Posts) : q = queue[b]
    BY <1>4
  <2>2. Line(b)' = <<>> \o q
    BY <1>1, <2>1 DEF Line
  <2> QED
    BY <2>2
<1>6. ToSet(Line(b)) = {p} \cup ToSet(queue[b])
  <2>1. <<p>> \in Seq(Posts) /\ ToSet(<<p>>) = {p}
    BY <1>4 DEF ToSet
  <2>2. \A s, t \in Seq(Posts) : ToSet(s \o t) = ToSet(s) \cup ToSet(t)
    BY Joined
  <2> QED
    BY <1>4, <2>1, <2>2
<1>7. Distinct(Line(b)) => Distinct(queue[b]) /\ p \notin ToSet(queue[b])
  <2> SUFFICES ASSUME Distinct(Line(b)) PROVE Distinct(queue[b]) /\ p \notin ToSet(queue[b])
    OBVIOUS
  <2> PICK q, n, line : q = queue[b] /\ n = Len(q) /\ line = Line(b)
    OBVIOUS
  <2>1. /\ n \in Nat /\ DOMAIN q = 1 .. n /\ Len(line) = n + 1 /\ line[1] = p
        /\ \A i \in 1 .. n : line[i + 1] = q[i]
    BY <1>4
  <2>2. \A i, j \in 1 .. n + 1 : line[i] = line[j] => i = j
    BY <2>1 DEF Distinct
  <2>3. \A i \in 1 .. n : i + 1 \in 1 .. n + 1 /\ i + 1 # 1 /\ 1 \in 1 .. n + 1
    BY <2>1
  <2>4. \A i \in 1 .. n : q[i] # p
    BY <2>1, <2>2, <2>3
  <2>5. ASSUME NEW i \in 1 .. n, NEW j \in 1 .. n, q[i] = q[j] PROVE i = j
    <3>1. i + 1 = j + 1
      BY <2>1, <2>2, <2>3, <2>5
    <3> QED
      BY <3>1
  <2> QED
    BY <2>1, <2>4, <2>5 DEF Distinct, ToSet
<1>8. SnapshotComplete'
  <2>1. \A c \in Bots : delivered[c] \subseteq delivered'[c]
    BY <1>3
  <2> QED
    BY <1>1, <2>1 DEF LifeInv, Accounted, SnapshotComplete
<1>9. Accounted'
  <2>1. ASSUME NEW c \in active \ renewed
        PROVE  known \subseteq silent \cup fresh \cup delivered'[c] \cup ToSet(Line(c)')
    <3>1. known \subseteq silent \cup fresh \cup delivered[c] \cup ToSet(Line(c))
      BY <1>2, <2>1 DEF LifeInv, Accounted
    <3>2. CASE c = b
      BY <1>3, <1>5, <1>6, <3>1, <3>2
    <3>3. CASE c # b
      BY <1>2, <1>3, <2>1, <3>1, <3>3
    <3> QED
      BY <3>2, <3>3
  <2> QED
    BY <1>1, <1>8, <2>1 DEF LifeInv, Accounted
<1>10. FileBehind'
  BY <1>1 DEF LifeInv, FileBehind
<1>11. Once'
  <2> SUFFICES ASSUME ~lapsed, NEW c \in Bots
               PROVE  /\ twice'[c] = {} /\ Distinct(Line(c)')
                      /\ ToSet(Line(c)') \cap delivered'[c] = {}
                      /\ ToSet(Line(c)') \cup delivered'[c] \subseteq known \ fresh
    BY <1>1, <1>2 DEF Once, Pending
  <2>1. /\ twice[c] = {} /\ Distinct(Line(c)) /\ ToSet(Line(c)) \cap delivered[c] = {}
        /\ ToSet(Line(c)) \cup delivered[c] \subseteq known \ fresh
    BY <1>2 DEF LifeInv, Once, Pending
  <2>2. CASE c = b
    <3>1. Distinct(queue[b]) /\ p \notin ToSet(queue[b]) /\ p \notin delivered[b]
      BY <1>6, <1>7, <2>1, <2>2
    <3> QED
      BY <1>3, <1>5, <1>6, <2>1, <2>2, <3>1
  <2>3. CASE c # b
    BY <1>3, <2>1, <2>3
  <2> QED
    BY <2>2, <2>3
<1> QED
  BY <1>2, <1>9, <1>10, <1>11 DEF LifeInv

\* A new file has all that is known, and the line of every bot.
LEMMA DumpStep ==
  ASSUME LifeInv, Replace \/ \E written \in BOOLEAN : DumpFails(written)
  PROVE  /\ LifeInv'
         /\ disk' # disk => disk' = <<Saved>> /\ Saved.known = known /\ proc = "up"
<1>1. /\ stage = "replace" /\ Dumping
      /\ disk' = <<Saved>> \/ disk' = disk
      /\ UNCHANGED <<proc, closed, known, fresh, active, delivered, twice, silent, renewed>>
      /\ ~lapsed' => ~lapsed /\ (closed => disk' = <<Saved>>)
  <2>1. /\ stage = "replace" /\ Dumping
        /\ disk' = <<Saved>> \/ disk' = disk
        /\ UNCHANGED <<proc, closed, known, fresh, active, delivered, twice, silent, renewed>>
    BY DEF Replace, DumpFails, manager, past
  <2>2. CASE Replace
    <3>1. disk' = <<Saved>> /\ lapsed' = lapsed
      BY <2>2 DEF Replace, past
    <3>2. ~lapsed' => ~lapsed
      BY <3>1, Zenon
    <3> QED
      BY <2>1, <3>1, <3>2
  <2>3. ASSUME NEW written \in BOOLEAN, DumpFails(written)
        PROVE  ~lapsed' => ~lapsed /\ (closed => disk' = <<Saved>>)
    <3>1. lapsed' = (lapsed \/ (closed /\ ~written))
      BY <2>3 DEF DumpFails
    <3>2. disk' = IF written THEN <<Saved>> ELSE disk
      BY <2>3 DEF DumpFails
    <3>3. ~lapsed' => ~lapsed /\ (closed => written)
      BY <3>1, Zenon
    <3> QED
      BY <3>2, <3>3
  <2> QED
    BY <2>1, <2>2, <2>3
<1>2. /\ LockInv' /\ \A b \in Bots : Line(b)' = Line(b)
  BY DumpEnds DEF LifeInv
<1>3. /\ fresh = {} /\ proc = "up" /\ active \subseteq Bots
      /\ \A b \in active : Saved.queue[b] = Line(b)
      /\ \A b \in Bots \ active : Saved.queue[b] = <<>>
      /\ Saved.known = known
  BY <1>1, Still DEF LifeInv, LockInv, Shape, BotsShape
<1>4. \A b \in Bots \ renewed : b \in active
  BY <1>3 DEF LifeInv, Accounted
<1>5. <<Saved>> # <<>> /\ <<Saved>>[1] = Saved
  OBVIOUS
<1>6. SnapshotComplete'
  <2>1. CASE disk' = <<Saved>>
    <3>1. ASSUME NEW b \in Bots \ renewed
          PROVE  Saved.known \subseteq silent \cup delivered[b] \cup ToSet(Saved.queue[b])
      BY <1>3, <1>4, <3>1 DEF LifeInv, Accounted
    <3> QED
      BY <1>1, <1>5, <2>1, <3>1 DEF SnapshotComplete
  <2>2. CASE disk' = disk
    BY <1>1, <2>2 DEF LifeInv, Accounted, SnapshotComplete
  <2> QED
    BY <1>1, <2>1, <2>2
<1>7. Accounted'
  <2>1. \A b \in active \ renewed :
          known \subseteq silent \cup fresh \cup delivered[b] \cup ToSet(Line(b)')
    BY <1>2, <1>3 DEF LifeInv, Accounted
  <2> QED
    BY <1>1, <1>6, <2>1 DEF LifeInv, Accounted
<1>8. FileBehind'
  <2>1. CASE disk' = <<Saved>>
    BY <1>1, <1>3, <1>5, <2>1 DEF FileBehind
  <2>2. CASE disk' = disk
    BY <1>1, <2>2 DEF LifeInv, FileBehind
  <2> QED
    BY <1>1, <2>1, <2>2
<1>9. Once'
  <2> SUFFICES ASSUME ~lapsed', NEW b \in Bots
               PROVE  /\ twice[b] = {} /\ Pending(b, Line(b))'
                      /\ ToSet(Line(b)') \cup delivered[b] \subseteq known \ fresh
                      /\ closed => /\ disk' # <<>> /\ Pending(b, disk[1].queue[b])'
                                   /\ ToSet(disk'[1].queue[b]) \cup delivered[b] \subseteq disk'[1].known
    BY <1>1, <1>3 DEF Once
  <2>1. /\ twice[b] = {} /\ Pending(b, Line(b))
        /\ ToSet(Line(b)) \cup delivered[b] \subseteq known \ fresh
    BY <1>1, <1>3 DEF LifeInv, Once
  <2>2. Pending(b, Line(b))'
    BY <1>1, <1>2, <2>1 DEF Pending
  <2>3. /\ Pending(b, Saved.queue[b])
        /\ ToSet(Saved.queue[b]) \cup delivered[b] \subseteq known
    <3>1. CASE b \in active
      BY <1>3, <2>1, <3>1
    <3>2. CASE b \notin active
      BY <1>3, <2>1, <3>2, EmptyLine
    <3> QED
      BY <3>1, <3>2
  <2>4. closed => disk'[1] = Saved /\ disk' # <<>>
    BY <1>1, <1>5
  <2> QED
    BY <1>1, <1>2, <1>3, <2>1, <2>2, <2>3, <2>4 DEF Pending
<1> QED
  BY <1>1, <1>2, <1>3, <1>7, <1>8, <1>9 DEF LifeInv

LEMMA ReconfigureStep ==
  ASSUME LifeInv, NEW kept \in SUBSET active, NEW replaced \in SUBSET Bots,
         replaced \cap kept = {}, Reconfigure(kept, replaced)
  PROVE  LifeInv'
<1>1. /\ active' = kept \cup replaced /\ renewed' = renewed \cup (Bots \ kept)
      /\ UNCHANGED <<proc, closed, known, fresh, disk, delivered, twice, silent, lapsed>>
  BY DEF Reconfigure
<1>2. /\ LockInv' /\ proc = "up" /\ ~closed
      /\ \A b \in kept : Line(b)' = Line(b)
      /\ \A b \in Bots \ kept : Line(b)' = <<>>
  BY ReconfigureKeeps DEF LifeInv
<1>3. active \subseteq Bots
  BY DEF LifeInv, LockInv, Shape, BotsShape
<1>4. SnapshotComplete'
  BY <1>1 DEF LifeInv, Accounted, SnapshotComplete
<1>5. Accounted'
  <2>1. Bots \ renewed' \subseteq active'
    BY <1>1
  <2>2. ASSUME NEW b \in active' \ renewed'
        PROVE  known \subseteq silent \cup fresh \cup delivered[b] \cup ToSet(Line(b)')
    <3>1. b \in kept /\ b \in active \ renewed
      BY <1>1, <1>3, <2>2
    <3> QED
      BY <1>2, <3>1 DEF LifeInv, Accounted
  <2> QED
    BY <1>1, <1>4, <2>1, <2>2 DEF Accounted
<1>6. FileBehind'
  BY <1>1 DEF LifeInv, FileBehind
<1>7. Once'
  <2> SUFFICES ASSUME ~lapsed, NEW b \in Bots
               PROVE  /\ twice[b] = {} /\ Pending(b, Line(b))'
                      /\ ToSet(Line(b)') \cup delivered[b] \subseteq known \ fresh
    BY <1>1, <1>2 DEF Once
  <2>1. /\ twice[b] = {} /\ Pending(b, Line(b))
        /\ ToSet(Line(b)) \cup delivered[b] \subseteq known \ fresh
    BY <1>2 DEF LifeInv, Once
  <2>2. CASE b \in kept
    BY <1>1, <1>2, <2>1, <2>2 DEF Pending
  <2>3. CASE b \notin kept
    BY <1>1, <1>2, <2>1, <2>3, EmptyLine DEF Pending
  <2> QED
    BY <2>2, <2>3
<1> QED
  BY <1>2, <1>5, <1>6, <1>7 DEF LifeInv

LEMMA LifeInit == Init => LifeInv
<1> SUFFICES ASSUME Init PROVE LifeInv
  OBVIOUS
<1>1. /\ proc = "down" /\ disk = <<>> /\ ~closed
      /\ \A b \in Bots : delivered[b] = {} /\ twice[b] = {}
  BY DEF Init
<1>2. \A b \in Bots : Line(b) = <<>>
  <2>1. \A b \in Bots : Line(b) = <<>> \o <<>>
    BY DEF Init, Line, Empty
  <2> QED
    BY <2>1
<1>3. Accounted /\ FileBehind
  BY <1>1 DEF Accounted, FileBehind, SnapshotComplete
<1>4. Once
  BY <1>1, <1>2, EmptyLine DEF Once
<1> QED
  BY <1>3, <1>4, LockInit DEF LifeInv

LEMMA LifeStep == LifeInv /\ [Next]_vars => LifeInv'
<1> SUFFICES ASSUME LifeInv, [Next]_vars PROVE LifeInv'
  OBVIOUS
<1>0. LockInv /\ TasksShape /\ BotsShape
  BY DEF LifeInv, LockInv, Shape
<1>1. CASE Start
  BY <1>0, <1>1, MemoryEmptied DEF Start, TasksShape, past
<1>2. CASE AbortStartup
  BY <1>0, <1>2, MemoryEmptied DEF AbortStartup, TasksShape, past
<1>3. CASE Crash
  BY <1>0, <1>3, MemoryEmptied DEF Crash
<1>4. CASE Exit
  BY <1>0, <1>4, MemoryEmptied DEF Exit, TasksShape, past
<1>5. CASE Load
  BY <1>5, LoadStep
<1>6. CASE \/ Wake \/ ScheduleCycle \/ RequestReload \/ RequestClose
           \/ TooLate \/ BeginClose \/ WriteTemp \/ CrawlNothing \/ CrawlFails
  <2>1. /\ UNCHANGED <<manager, bots, snapshot, disk>>
        /\ UNCHANGED <<proc, posted, delivered, twice, silent, lapsed, renewed>>
        /\ closed' /\ holder' # "close" => closed /\ holder # "close"
    BY <1>6 DEF Wake, ScheduleCycle, RequestReload, RequestClose, TooLate, BeginClose,
                WriteTemp, CrawlNothing, CrawlFails, Acquire, Release, tasks, past
  <2>2. LockInv'
    BY <1>0, <1>6, <2>1, TasksKeep
  <2>3. \A b \in Bots : Line(b)' = Line(b)
    BY <2>1 DEF Line, bots
  <2> QED
    BY <2>1, <2>2, <2>3, LinesStay DEF LifeInv, manager
<1>7. CASE Signal \/ PostArticle \/ UNCHANGED vars
  <2>1. /\ UNCHANGED <<proc, closed, holder, waiters, stage, known, fresh, active, running>>
        /\ UNCHANGED <<queue, job, snapshot, disk, delivered, twice, silent, lapsed, renewed>>
        /\ stopping' \in BOOLEAN
        /\ posted' \in 1 .. MaxPosts /\ 1 .. posted \subseteq 1 .. posted'
    <3>1. posted \in 1 .. MaxPosts /\ MaxPosts \in Nat /\ stopping \in BOOLEAN
      BY <1>0, BoundsAssumption DEF BotsShape, TasksShape
    <3>2. CASE Signal
      BY <3>1, <3>2 DEF Signal, tasks, manager, bots, past
    <3>3. CASE PostArticle
      <4>1. posted' = posted + 1 /\ posted < MaxPosts /\ stopping' = stopping
        BY <3>3 DEF PostArticle
      <4>2. posted' \in 1 .. MaxPosts /\ 1 .. posted \subseteq 1 .. posted'
        BY <3>1, <4>1
      <4> QED
        BY <3>1, <3>3, <4>1, <4>2 DEF PostArticle, tasks, manager, bots, past
    <3>4. CASE UNCHANGED vars
      BY <3>1, <3>4 DEF vars, tasks, manager, bots, past
    <3> QED
      BY <1>7, <3>2, <3>3, <3>4
  <2>2. Collected' = Collected
    BY <2>1 DEF Collected
  <2>3. TasksShape' /\ BotsShape' /\ FileShape'
    <3>1. TasksShape'
      BY <1>0, <2>1 DEF TasksShape
    <3>2. BotsShape'
      BY <1>0, <2>1 DEF BotsShape
    <3>3. FileShape'
      BY <1>0, <2>1 DEF FileShape, LockInv, Shape
    <3> QED
      BY <3>1, <3>2, <3>3
  <2>4. Quiet' /\ UnderLock'
    BY <1>0, <2>1, <2>2 DEF LockInv, Quiet, UnderLock
  <2>5. \A b \in Bots : Line(b)' = Line(b)
    BY <2>1 DEF Line
  <2> QED
    BY <2>1, <2>3, <2>4, <2>5, LinesStay DEF LifeInv, LockInv, Shape
<1>8. CASE Crawl
  BY <1>8, CrawlStep
<1>9. CASE SendAll
  BY <1>9, SendAllStep
<1>10. CASE Replace \/ \E written \in BOOLEAN : DumpFails(written)
  BY <1>10, DumpStep
<1>11. CASE ConfigKeepsBots
  BY <1>0, <1>11, ReconfigureStep DEF ConfigKeepsBots
<1>12. ASSUME NEW b \in Bots, TakeJob(b) PROVE LifeInv'
  <2>1. LockInv' /\ \A c \in Bots : Line(c)' = Line(c)
    BY <1>0, <1>12, TakeJobKeeps
  <2>2. UNCHANGED <<proc, known, fresh, active, disk, delivered, twice, silent, lapsed, renewed,
                    closed, holder>>
    BY <1>12 DEF TakeJob, tasks, manager, past
  <2> QED
    BY <2>1, <2>2, LinesStay DEF LifeInv
<1>13. ASSUME NEW b \in Bots, Deliver(b) PROVE LifeInv'
  BY <1>13, DeliverStep
<1>14. ASSUME NEW b \in Bots, Collect(b) PROVE LifeInv'
  <2>1. LockInv' /\ \A c \in Bots : Line(c)' = Line(c)
    BY <1>0, <1>14, CollectKeeps
  <2>2. UNCHANGED <<proc, known, fresh, active, disk, delivered, twice, silent, lapsed, renewed,
                    closed, holder>>
    BY <1>14 DEF Collect, tasks, manager, past
  <2> QED
    BY <2>1, <2>2, LinesStay DEF LifeInv
<1>15. ASSUME NEW b \in Bots, ConfigFailsAt(b) \/ ConfigChanges(b) \/ ConfigDisables(b)
       PROVE  LifeInv'
  BY <1>15, ReconfigureStep DEF ConfigFailsAt, ConfigChanges, ConfigDisables
<1> QED
  BY <1>1, <1>2, <1>3, <1>4, <1>5, <1>6, <1>7, <1>8, <1>9, <1>10, <1>11, <1>12, <1>13, <1>14,
     <1>15 DEF Next, HolderStep

LEMMA LifeInvHolds == Spec => []LifeInv
<1>1. Init => LifeInv
  BY LifeInit
<1>2. LifeInv /\ [Next]_vars => LifeInv'
  BY LifeStep
<1> QED
  BY <1>1, <1>2, PTL DEF Spec

-----------------------------------------------------------------------------
(* What the bots and their readers rely on. *)

LEMMA LifeTypes ==
  ASSUME LifeInv
  PROVE  TypeOK
<1>1. Shape /\ UnderLock
  BY DEF LifeInv, LockInv
<1>2. posted \in 1 .. MaxPosts /\ 1 .. posted \subseteq Posts
  BY <1>1, PostsNumbered DEF Shape, BotsShape
<1>3. \A b \in Bots : queue[b] \in Seq(Posts) /\ Len(job[b]) <= 1
  <2> SUFFICES ASSUME NEW b \in Bots PROVE queue[b] \in Seq(Posts) /\ Len(job[b]) <= 1
    OBVIOUS
  <2>1. job[b] = <<>> \/ \E p \in Posts : job[b] = <<p>>
    BY <1>1 DEF Shape, BotsShape
  <2>2. \A p \in Posts : Len(<<p>>) = 1 /\ Len(<<>>) = 0
    OBVIOUS
  <2>3. ASSUME NEW n, n = Len(job[b]) PROVE n = 0 \/ n = 1
    <3>1. CASE job[b] = <<>>
      BY <2>3, <3>1
    <3>2. ASSUME NEW p \in Posts, job[b] = <<p>> PROVE n = 1
      BY <2>2, <2>3, <3>2
    <3> QED
      BY <2>1, <3>1, <3>2
  <2>4. \A n : n = 0 \/ n = 1 => n <= 1
    OBVIOUS
  <2> QED
    BY <1>1, <2>3, <2>4 DEF Shape, BotsShape
<1> QED
  BY <1>1, <1>2, <1>3 DEF TypeOK, Shape, TasksShape, BotsShape, UnderLock

\* A notification of a bot that every reload has kept is not lost: neither a
\* reload, nor a dump that failed, nor a restart forgets it; and a bot that is
\* being dumped or given up sends nothing.
THEOREM NothingIsForgotten == Spec => []NothingForgotten
<1>1. LifeInv => NothingForgotten
  <2> SUFFICES ASSUME LifeInv PROVE NothingForgotten
    OBVIOUS
  <2>1. \A b \in Bots : ToSet(Line(b)) = Held(b)
    <3> SUFFICES ASSUME NEW b \in Bots PROVE ToSet(Line(b)) = Held(b)
      OBVIOUS
    <3>1. job[b] \in Seq(Posts) /\ queue[b] \in Seq(Posts)
      BY JobHeld DEF LifeInv, LockInv
    <3>2. \A s, t \in Seq(Posts) : ToSet(s \o t) = ToSet(s) \cup ToSet(t)
      BY Joined
    <3> QED
      BY <3>1, <3>2 DEF Line, Held
  <2>2. active \subseteq Bots
    BY DEF LifeInv, LockInv, Shape, BotsShape
  <2>3. StandStill
    BY DEF LifeInv, LockInv, UnderLock, Shape, BotsShape, StandStill
  <2> QED
    BY <2>1, <2>2, <2>3, LifeTypes DEF LifeInv, Accounted, NothingForgotten
<1> QED
  BY <1>1, LifeInvHolds, PTL

\* The file never knows a post whose notification it would lose.
THEOREM SnapshotsAreComplete == Spec => []SnapshotComplete
<1>1. LifeInv => SnapshotComplete
  BY DEF LifeInv, Accounted
<1> QED
  BY <1>1, LifeInvHolds, PTL

\* A bot sends a post again only after a process that ended without saving.
THEOREM RepeatsNeedALapse == Spec => []NoRepeatWithoutLapse
<1>1. LifeInv => NoRepeatWithoutLapse
  BY DEF LifeInv, Once, NoRepeatWithoutLapse
<1> QED
  BY <1>1, LifeInvHolds, PTL

\* No dump, shutdown or restart leaves a file that knows less than the last one.
THEOREM FileNeverRegresses == Spec => DumpNeverRegresses
<1>1. LifeInv /\ [Next]_vars =>
        (disk # <<>> => disk' # <<>> /\ disk[1].known \subseteq disk'[1].known)
  <2> SUFFICES ASSUME LifeInv, [Next]_vars, disk # <<>>
               PROVE  disk' # <<>> /\ disk[1].known \subseteq disk'[1].known
    OBVIOUS
  <2>1. CASE Replace \/ \E written \in BOOLEAN : DumpFails(written)
    <3>1. disk' # disk => disk' = <<Saved>> /\ Saved.known = known /\ proc = "up"
      BY <2>1, DumpStep
    <3> QED
      BY <3>1 DEF LifeInv, FileBehind
  <2>2. CASE ~(Replace \/ \E written \in BOOLEAN : DumpFails(written))
    <3>1. disk' = disk
      BY <2>2 DEF Next, HolderStep, vars, Start, Load, AbortStartup, Signal, Crash, Exit,
        Wake, ScheduleCycle, RequestReload, RequestClose, TooLate, Crawl, SendAll, BeginClose,
        WriteTemp, ConfigKeepsBots, Collect, ConfigFailsAt, ConfigChanges, ConfigDisables,
        Reconfigure, CrawlNothing, CrawlFails, PostArticle, TakeJob, Deliver
    <3> QED
      BY <3>1
  <2> QED
    BY <2>1, <2>2
<1> QED
  BY <1>1, LifeInvHolds, PTL DEF Spec, DumpNeverRegresses
=============================================================================
