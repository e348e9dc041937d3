--------------------------- MODULE NotifierProofs ---------------------------
(***************************************************************************)
(* Proofs about Bot, by itself and at work in Notifier, for any posts,     *)
(* texts, faults and number of faults.                                     *)
(***************************************************************************)
EXTENDS Notifier, CrawlingProofs, SequenceTheorems

-----------------------------------------------------------------------------
(* Facts about the sequences of jobs. *)

\* The consumer holds no job or one.
LEMMA HeldJob ==
  ASSUME BotTypeOK
  PROVE  \/ job = <<>> /\ consumer \in {"waiting", "stopped"}
         \/ \E j \in Job : job = <<j>> /\ consumer \in {"calling", "answering", "sleeping"}
<1>1. CASE job = <<>>
  BY <1>1 DEF BotTypeOK, ConsumerStates
<1>2. CASE job # <<>>
  <2> DEFINE n == Len(job)
  <2>1. job \in Seq(Job) /\ n <= 1
    BY DEF BotTypeOK
  <2>2. n \in Nat \ {0}
    BY <1>2, <2>1, EmptySeq
  <2> HIDE DEF n
  <2>3. n = 1
    BY <2>1, <2>2
  <2>4. job = <<job[1]>> /\ job[1] \in Job
    BY <2>1, <2>3 DEF n
  <2> QED
    BY <1>2, <2>4 DEF BotTypeOK
<1> QED
  BY <1>1, <1>2

\* What becomes of the jobs when articles are refreshed: only text and live.
LEMMA RefreshedJobs ==
  ASSUME NEW jobs \in Seq(Job), NEW kept, NEW text, \A p \in kept : text[p] \in Texts
  PROVE  /\ Refreshed(jobs, kept, text) \in Seq(Job)
         /\ Len(Refreshed(jobs, kept, text)) = Len(jobs)
         /\ \A k \in 1 .. Len(jobs) :
              /\ Refreshed(jobs, kept, text)[k].op = jobs[k].op
              /\ Refreshed(jobs, kept, text)[k].post = jobs[k].post
<1> DEFINE new == Refreshed(jobs, kept, text)
           n == Len(jobs)
<1>1. n \in Nat /\ DOMAIN jobs = 1 .. n
  OBVIOUS
<1>2. ASSUME NEW k \in 1 .. n
      PROVE  new[k] \in Job /\ new[k].op = jobs[k].op /\ new[k].post = jobs[k].post
  <2>1. jobs[k] \in Job
    OBVIOUS
  <2>2. new[k] = [jobs[k] EXCEPT !.text = IF jobs[k].live /\ jobs[k].post \in kept
                                          THEN text[jobs[k].post] ELSE @,
                                 !.live = FALSE]
    BY <1>1 DEF Refreshed
  <2> QED
    BY <2>1, <2>2 DEF Job
<1>3. new \in [1 .. n -> Job]
  <2>1. DOMAIN new = 1 .. n /\ new = [k \in 1 .. n |-> new[k]]
    BY <1>1 DEF Refreshed
  <2> HIDE DEF new
  <2> QED
    BY <1>2, <2>1
<1>4. new \in Seq(Job) /\ Len(new) = n
  <2> HIDE DEF new, n
  <2> QED
    BY <1>1, <1>3
<1> QED
  BY <1>2, <1>4

-----------------------------------------------------------------------------
(* The inductive invariant of a bot. *)

\* A request that is being made has a text to show; an edit, a delete, and a
\* send Telegram has acted on, have a message; when none is made there is none.
RequestMade ==
  /\ request \in [text : Nat, message : 0 .. Len(channel), picture : BOOLEAN]
  /\ consumer \in {"calling", "answering"} => request.text \in Texts
  /\ consumer = "calling" /\ Current.op # "send" => request.message # 0
  /\ consumer = "answering" => request.message # 0
  /\ request.message # 0 => consumer \in {"calling", "answering"}

BotInv == OwnMessage /\ RequestMade

\* The consumer leaves a job behind: finished, dropped or put back.
LEMMA Leaves ==
  ASSUME BotInv,
         consumer' \in {"waiting", "stopped"}, job' = <<>>, request' = NoRequest,
         queue' \in Seq(Job), faults' \in 0 .. MaxFaults, channel' = channel,
         msgs' \in [Posts -> 0 .. Len(channel)],
         \A p \in Posts : msgs'[p] # 0 => channel[msgs'[p]].post = p
  PROVE  BotInv'
<1>1. channel \in Seq(Message) /\ Len(channel) \in Nat
  BY DEF BotInv, OwnMessage, BotTypeOK
<1>2. request' \in [text : Nat, message : 0 .. Len(channel), picture : BOOLEAN]
      /\ request'.message = 0
  BY <1>1 DEF NoRequest
<1>3. BotTypeOK'
  BY <1>1, <1>2 DEF BotTypeOK, ConsumerStates
<1> QED
  BY <1>2, <1>3 DEF BotInv, OwnMessage, RequestMade

\* The consumer starts, or starts again, on a job that has its message.
LEMMA Begins ==
  ASSUME BotInv, NEW j \in Job, ~NoTarget(j), Begin(j), queue' \in Seq(Job),
         UNCHANGED <<msgs, channel, faults>>
  PROVE  BotInv'
<1>1. /\ channel \in Seq(Message) /\ Len(channel) \in Nat
      /\ j.post \in Posts /\ j.text \in Texts /\ j.text \in Nat /\ j.op \in Ops
      /\ msgs \in [Posts -> 0 .. Len(channel)]
      /\ \A p \in Posts : msgs[p] # 0 => channel[msgs[p]].post = p
  <2>1. j.post \in Posts /\ j.text \in Texts /\ j.text \in Nat /\ j.op \in Ops
    BY TextsAssumption DEF Job
  <2> QED
    BY <2>1 DEF BotInv, OwnMessage, BotTypeOK
<1>2. /\ job' = <<j>> /\ Current' = j /\ consumer' = "calling"
      /\ request'.text = j.text
      /\ request'.message = IF j.op = "send" THEN 0 ELSE msgs[j.post]
      /\ request' \in [text : Nat, message : 0 .. Len(channel), picture : BOOLEAN]
  BY <1>1 DEF Begin, Current
<1>3. BotTypeOK'
  <2>1. job' \in Seq(Job) /\ Len(job') <= 1 /\ job' # <<>>
    BY <1>2
  <2>2. request'.message \in 0 .. Len(channel)
    BY <1>2
  <2> QED
    BY <1>1, <1>2, <2>1, <2>2 DEF BotInv, OwnMessage, BotTypeOK, ConsumerStates
<1>4. request'.message # 0 => channel[request'.message].post = j.post
  BY <1>1, <1>2
<1>5. j.op # "send" => request'.message # 0
  BY <1>2 DEF NoTarget
<1> QED
  BY <1>1, <1>2, <1>3, <1>4, <1>5 DEF BotInv, OwnMessage, RequestMade

\* Telegram acts on the request: one message is added or changed.
LEMMA Acts ==
  ASSUME BotInv, NEW op, Acting(op), channel' \in Seq(Message),
         Len(channel) <= Len(channel'),
         \A m \in 1 .. Len(channel) : channel'[m].post = channel[m].post,
         request' \in [text : Nat, message : 1 .. Len(channel'), picture : BOOLEAN],
         request'.text = request.text,
         channel'[request'.message].post = Current.post
  PROVE  BotInv'
<1> DEFINE n == Len(channel)
           m == Len(channel')
<1>1. /\ n \in Nat /\ m \in Nat /\ n <= m
      /\ msgs \in [Posts -> 0 .. n]
      /\ request' \in [text : Nat, message : 1 .. m, picture : BOOLEAN]
  BY DEF BotInv, OwnMessage, BotTypeOK
<1>2. 0 .. n \subseteq 0 .. m /\ 1 .. m \subseteq 0 .. m
  <2> HIDE DEF n, m
  <2> QED
    BY <1>1
<1>3. /\ msgs' \in [Posts -> 0 .. m]
      /\ request' \in [text : Nat, message : 0 .. m, picture : BOOLEAN]
      /\ request'.message \in 0 .. m /\ request'.message # 0
  <2> HIDE DEF n, m
  <2> QED
    BY <1>1, <1>2 DEF Acting
<1>4. ASSUME NEW p \in Posts, msgs'[p] # 0
      PROVE  channel'[msgs'[p]].post = p
  <2>1. msgs'[p] \in 1 .. n /\ msgs'[p] = msgs[p]
    BY <1>1, <1>4 DEF Acting
  <2> QED
    BY <1>4, <2>1 DEF BotInv, OwnMessage
<1>5. BotTypeOK'
  BY <1>3 DEF Acting, BotInv, OwnMessage, BotTypeOK, ConsumerStates
<1> QED
  BY <1>3, <1>4, <1>5 DEF Acting, BotInv, OwnMessage, RequestMade, Current

\* sendMessage and sendPhoto add a message of the job's post.
LEMMA PublishKeeps == BotInv /\ Publish => BotInv'
<1> SUFFICES ASSUME BotInv, Publish PROVE BotInv'
  OBVIOUS
<1> DEFINE new == [post |-> Current.post, text |-> request.text, up |-> TRUE]
           n == Len(channel)
<1>1. /\ channel \in Seq(Message) /\ n \in Nat
      /\ request \in [text : Nat, message : 0 .. n, picture : BOOLEAN]
      /\ consumer = "calling" /\ request.text \in Texts
  BY DEF Publish, Acting, BotInv, OwnMessage, BotTypeOK, RequestMade
<1>2. PICK j \in Job : job = <<j>>
  BY <1>1, HeldJob DEF BotInv, OwnMessage
<1>3. new \in Message
  BY <1>1, <1>2 DEF Message, Job, Current
<1>4. channel' = Append(channel, new) /\ request' = [request EXCEPT !.message = Len(channel')]
  BY DEF Publish
<1>5. /\ channel' \in Seq(Message) /\ Len(channel') = n + 1
      /\ channel'[n + 1] = new /\ \A m \in 1 .. n : channel'[m] = channel[m]
  <2> HIDE DEF new
  <2> QED
    BY <1>1, <1>3, <1>4
<1>6. /\ request' \in [text : Nat, message : 1 .. n + 1, picture : BOOLEAN]
      /\ request'.text = request.text /\ request'.message = n + 1
  <2> HIDE DEF n
  <2> QED
    BY <1>1, <1>4, <1>5
<1>7. n <= n + 1 /\ channel'[request'.message].post = Current.post
  BY <1>1, <1>5, <1>6
<1> HIDE DEF new, n
<1>8. Len(channel) <= Len(channel')
  BY <1>5, <1>7 DEF n
<1>9. \A m \in 1 .. Len(channel) : channel'[m].post = channel[m].post
  BY <1>5 DEF n
<1>10. request' \in [text : Nat, message : 1 .. Len(channel'), picture : BOOLEAN]
  BY <1>5, <1>6
<1> QED
  BY <1>5, <1>6, <1>7, <1>8, <1>9, <1>10, Acts DEF Publish

\* editMessage and deleteMessage change the message of the request.
LEMMA ChangeKeeps ==
  ASSUME BotInv, NEW op, op # "send", Acting(op), UNCHANGED request,
         \/ channel' = [channel EXCEPT ![request.message].text = request.text]
         \/ channel' = [channel EXCEPT ![request.message].up = FALSE]
  PROVE  BotInv'
<1> DEFINE n == Len(channel)
           k == request.message
<1>1. /\ channel \in Seq(Message) /\ n \in Nat /\ channel \in [1 .. n -> Message]
      /\ request \in [text : Nat, message : 0 .. n, picture : BOOLEAN]
      /\ request.text \in Texts /\ k # 0 /\ k \in 0 .. n
      /\ channel[k].post = Current.post
  BY DEF Acting, BotInv, OwnMessage, BotTypeOK, RequestMade
<1>2. k \in 1 .. n
  <2> HIDE DEF n, k
  <2> QED
    BY <1>1
<1>3. channel[k] \in Message
  BY <1>1, <1>2
<1>4. PICK e \in Message : e.post = channel[k].post /\ channel' = [channel EXCEPT ![k] = e]
  <2>1. [channel[k] EXCEPT !.text = request.text] \in Message
    BY <1>1, <1>3 DEF Message
  <2>2. [channel[k] EXCEPT !.up = FALSE] \in Message
    BY <1>3 DEF Message
  <2>3. CASE channel' = [channel EXCEPT ![request.message].text = request.text]
    BY <1>3, <2>1, <2>3 DEF Message
  <2>4. CASE channel' = [channel EXCEPT ![request.message].up = FALSE]
    BY <1>3, <2>2, <2>4 DEF Message
  <2> QED
    BY <2>3, <2>4
<1>5. /\ channel' \in Seq(Message) /\ Len(channel') = n
      /\ \A m \in 1 .. n : channel'[m].post = channel[m].post
  <2>1. channel' \in Seq(Message) /\ Len(channel') = n
        /\ \A m \in 1 .. n : channel'[m] = IF m = k THEN e ELSE channel[m]
    BY <1>1, <1>2, <1>4, ExceptSeq
  <2> QED
    BY <1>4, <2>1
<1>6. request' \in [text : Nat, message : 1 .. Len(channel'), picture : BOOLEAN]
  BY <1>1, <1>2, <1>5
<1>7. n <= n
  <2> HIDE DEF n
  <2> QED
    BY <1>1
<1> QED
  BY <1>1, <1>2, <1>5, <1>6, <1>7, Acts

\* send_iter, edit_iter and delete_iter, for any list of jobs.
LEMMA EnqueueKeeps ==
  ASSUME BotInv, NEW jobs \in Seq(Job), Enqueue(jobs)
  PROVE  BotInv'
<1>1. queue' \in Seq(Job)
  BY DEF BotInv, OwnMessage, BotTypeOK, Enqueue
<1>2. /\ consumer' \in ConsumerStates
      /\ consumer \in {"calling", "answering", "sleeping"} <=>
           consumer' \in {"calling", "answering", "sleeping"}
      /\ consumer = "calling" <=> consumer' = "calling"
      /\ consumer = "answering" <=> consumer' = "answering"
  BY DEF BotInv, OwnMessage, BotTypeOK, Enqueue, CheckConsumer, ConsumerStates
<1> QED
  BY <1>1, <1>2 DEF BotInv, OwnMessage, BotTypeOK, RequestMade, Enqueue, Current

\* _crawling changes cached articles and forgets expired messages.
LEMMA RefreshKeeps ==
  ASSUME BotInv, NEW expired, NEW kept, NEW text, \A p \in kept : text[p] \in Texts,
         Refresh(expired, kept, text)
  PROVE  BotInv'
<1> DEFINE n == Len(channel)
<1>1. /\ queue \in Seq(Job) /\ job \in Seq(Job) /\ n \in Nat
      /\ msgs \in [Posts -> 0 .. n]
      /\ UNCHANGED <<consumer, request, channel, faults>>
      /\ msgs' = [p \in Posts |-> IF p \in expired THEN 0 ELSE msgs[p]]
  BY DEF BotInv, OwnMessage, BotTypeOK, Refresh, Unexpired
<1>2. queue' \in Seq(Job) /\ job' \in Seq(Job) /\ Len(job') = Len(job)
  BY <1>1, RefreshedJobs DEF Refresh
<1>3. msgs' \in [Posts -> 0 .. n]
  <2>1. 0 \in 0 .. n
    <3> HIDE DEF n
    <3> QED
      BY <1>1
  <2> QED
    BY <1>1, <2>1
<1>4. job' # <<>> <=> job # <<>>
  BY <1>1, <1>2, EmptySeq
<1>5. BotTypeOK'
  BY <1>1, <1>2, <1>3, <1>4 DEF BotInv, OwnMessage, BotTypeOK
<1>6. \A p \in Posts : msgs'[p] # 0 => msgs'[p] = msgs[p]
  BY <1>1
<1>7. job # <<>> => Current'.post = Current.post /\ Current'.op = Current.op
  <2>1. job # <<>> => 1 \in 1 .. Len(job)
    BY HeldJob DEF BotInv, OwnMessage
  <2>2. /\ job' = Refreshed(job, kept, text)
        /\ \A k \in 1 .. Len(job) : /\ Refreshed(job, kept, text)[k].op = job[k].op
                                   /\ Refreshed(job, kept, text)[k].post = job[k].post
    BY <1>1, RefreshedJobs DEF Refresh
  <2> QED
    BY <2>1, <2>2 DEF Current
<1>8. request.message # 0 => job # <<>>
  BY DEF BotInv, OwnMessage, BotTypeOK, RequestMade
<1> QED
  BY <1>1, <1>5, <1>6, <1>7, <1>8 DEF BotInv, OwnMessage, RequestMade, BotTypeOK

\* Every step of the consumer and of Telegram keeps the invariant.
LEMMA WorkKeeps == BotInv /\ Work => BotInv'
<1> SUFFICES ASSUME BotInv, Work PROVE BotInv'
  OBVIOUS
<1>1. /\ queue \in Seq(Job) /\ faults \in 0 .. MaxFaults /\ consumer \in ConsumerStates
      /\ msgs \in [Posts -> 0 .. Len(channel)]
      /\ \A p \in Posts : msgs[p] # 0 => channel[msgs[p]].post = p
  BY DEF BotInv, OwnMessage, BotTypeOK
<1>2. CASE Take
  <2>1. Head(queue) \in Job /\ queue' \in Seq(Job)
    BY <1>1, <1>2, HeadTailProperties DEF Take
  <2> QED
    BY <1>1, <1>2, <2>1, Begins, Leaves DEF Take, Finished
<1>3. CASE Publish
  BY <1>3, PublishKeeps
<1>4. CASE Rewrite \/ TakeDown
  BY <1>4, ChangeKeeps DEF Rewrite, TakeDown
<1>5. CASE Answered
  <2>1. PICK j \in Job : job = <<j>>
    BY <1>5, HeldJob DEF Answered, BotInv, OwnMessage
  <2>2. request.message \in 0 .. Len(channel) /\ channel[request.message].post = j.post
        /\ j.post \in Posts
    BY <1>5, <2>1 DEF Answered, BotInv, OwnMessage, BotTypeOK, RequestMade, Current, Job
  <2>3. msgs' = msgs \/ msgs' = [msgs EXCEPT ![j.post] = request.message]
    BY <1>5, <2>1 DEF Answered, Current
  <2>4. /\ msgs' \in [Posts -> 0 .. Len(channel)]
        /\ \A p \in Posts : msgs'[p] # 0 => channel[msgs'[p]].post = p
    BY <1>1, <2>2, <2>3
  <2> QED
    BY <1>1, <1>5, <2>4, Leaves DEF Answered, Finished
<1>6. CASE Refused
  BY <1>1, <1>6, Leaves DEF Refused, Finished
<1>7. CASE Retry
  <2>1. PICK j \in Job : job = <<j>>
    BY <1>7, HeldJob DEF Retry, BotInv, OwnMessage
  <2> QED
    BY <1>1, <1>7, <2>1, Begins, Leaves DEF Retry, Finished, Current
<1>8. CASE Resume
  <2>1. job = <<>>
    BY <1>8 DEF Resume, BotInv, OwnMessage, BotTypeOK
  <2>2. consumer' = "waiting" /\ UNCHANGED <<queue, job, request, msgs, channel, faults>>
    BY <1>8 DEF Resume, CheckConsumer
  <2> QED
    BY <1>8, <2>1, <2>2
    DEF Resume, BotInv, OwnMessage, BotTypeOK, RequestMade, ConsumerStates, Current
<1> QED
  BY <1>2, <1>3, <1>4, <1>5, <1>6, <1>7, <1>8 DEF Work

\* And so does every fault.
LEMMA TroubleKeeps == BotInv /\ Trouble => BotInv'
<1> SUFFICES ASSUME BotInv, Trouble PROVE BotInv'
  OBVIOUS
<1>1. /\ queue \in Seq(Job) /\ job \in Seq(Job) /\ faults \in 0 .. MaxFaults
      /\ msgs \in [Posts -> 0 .. Len(channel)]
      /\ \A p \in Posts : msgs[p] # 0 => channel[msgs[p]].post = p
  BY DEF BotInv, OwnMessage, BotTypeOK
<1>2. ASSUME NEW kind, Fault(kind)
      PROVE  faults' \in 0 .. MaxFaults
  BY <1>1, <1>2, MaxFaultsAssumption DEF Fault
<1>3. CASE RetryAfter
  <2>1. request' = NoRequest /\ 0 \in 0 .. Len(channel)
    BY <1>3 DEF RetryAfter, BotInv, OwnMessage, BotTypeOK
  <2>2. request' \in [text : Nat, message : 0 .. Len(channel), picture : BOOLEAN]
        /\ request'.message = 0
    BY <2>1 DEF NoRequest
  <2>3. job # <<>> /\ faults' \in 0 .. MaxFaults
    BY <1>2, <1>3 DEF RetryAfter, BotInv, OwnMessage, BotTypeOK
  <2> QED
    BY <1>3, <2>2, <2>3
    DEF RetryAfter, BotInv, OwnMessage, BotTypeOK, RequestMade, ConsumerStates, Current
<1>4. CASE RetryAfterDelete \/ TimedOut \/ Rejected
  BY <1>1, <1>2, <1>4, Leaves DEF RetryAfterDelete, TimedOut, Rejected, Finished
<1>5. CASE PhotoRejected
  <2>1. /\ request' \in [text : Nat, message : 0 .. Len(channel), picture : BOOLEAN]
        /\ request'.message = request.message /\ request'.text = request.text
    BY <1>5 DEF PhotoRejected, BotInv, RequestMade
  <2>2. faults' \in 0 .. MaxFaults
    BY <1>2, <1>5 DEF PhotoRejected
  <2> QED
    BY <1>5, <2>1, <2>2
    DEF PhotoRejected, BotInv, OwnMessage, BotTypeOK, RequestMade, ConsumerStates, Current
<1>6. CASE Stop
  <2>1. queue' \in Seq(Job)
    BY <1>1, <1>6, ConcatProperties DEF Stop
  <2> QED
    BY <1>1, <1>2, <1>6, <2>1, Leaves DEF Stop
<1> QED
  BY <1>3, <1>4, <1>5, <1>6 DEF Trouble

LEMMA BotInitInv == BotInit => BotInv
<1> SUFFICES ASSUME BotInit PROVE BotInv
  OBVIOUS
<1>1. /\ queue = <<>> /\ job = <<>> /\ channel = <<>> /\ Len(channel) = 0
      /\ 0 .. Len(channel) = {0}
  BY DEF BotInit
<1>2. request \in [text : Nat, message : 0 .. Len(channel), picture : BOOLEAN]
      /\ request.message = 0
  BY <1>1 DEF BotInit, NoRequest
<1>3. BotTypeOK
  <2>1. faults \in 0 .. MaxFaults /\ msgs \in [Posts -> 0 .. Len(channel)]
    BY <1>1, MaxFaultsAssumption DEF BotInit
  <2> QED
    BY <1>1, <1>2, <2>1 DEF BotInit, BotTypeOK, ConsumerStates
<1>4. /\ \A p \in Posts : msgs[p] = 0
      /\ consumer = "waiting"
  BY DEF BotInit
<1> QED
  BY <1>2, <1>3, <1>4 DEF BotInv, OwnMessage, RequestMade

LEMMA BotStep == BotInv /\ [BotNext]_botVars => BotInv'
<1> SUFFICES ASSUME BotInv, [BotNext]_botVars PROVE BotInv'
  OBVIOUS
<1>1. ASSUME NEW j \in Job, Enqueue(<<j>>) PROVE BotInv'
  <2>1. <<j>> \in Seq(Job)
    OBVIOUS
  <2> QED
    BY <1>1, <2>1, EnqueueKeeps
<1>2. ASSUME NEW expired \in SUBSET Posts, NEW kept \in SUBSET Posts,
             NEW text \in [Posts -> Texts], Refresh(expired, kept, text)
      PROVE  BotInv'
  BY <1>2, RefreshKeeps
<1>3. CASE UNCHANGED botVars
  BY <1>3 DEF botVars, BotInv, OwnMessage, BotTypeOK, RequestMade, Current
<1> QED
  BY <1>1, <1>2, <1>3, WorkKeeps, TroubleKeeps DEF BotNext

-----------------------------------------------------------------------------
(* What a step does to the jobs that are not finished, held job first. *)

\* The held job and those that wait, taken apart.
LEMMA UnfinishedParts ==
  ASSUME BotTypeOK
  PROVE  /\ Unfinished \in Seq(Job)
         /\ job = <<>> => Unfinished = queue
         /\ \A j \in Job : job = <<j>> =>
              /\ Unfinished # <<>> /\ Head(Unfinished) = j /\ Unfinished[1] = j
              /\ Tail(Unfinished) = queue
<1>1. queue \in Seq(Job) /\ job \in Seq(Job)
  BY DEF BotTypeOK
<1>2. ASSUME NEW j \in Job, job = <<j>>
      PROVE  /\ Unfinished # <<>> /\ Head(Unfinished) = j /\ Unfinished[1] = j
             /\ Tail(Unfinished) = queue
  BY <1>1, <1>2 DEF Unfinished
<1> QED
  BY <1>1, <1>2, ConcatProperties, ConcatEmptySeq DEF Unfinished

\* The consumer keeps the jobs as they are, or finishes the first one.
LEMMA ConsumerStep ==
  ASSUME BotInv, Work \/ Trouble
  PROVE  \/ Unfinished' = Unfinished
         \/ Unfinished # <<>> /\ Unfinished' = Tail(Unfinished)
<1> BotTypeOK
  BY DEF BotInv, OwnMessage
<1>1. queue \in Seq(Job)
  BY DEF BotTypeOK
<1>2. CASE UNCHANGED <<queue, job>>
  BY <1>2 DEF Unfinished
<1>3. CASE job # <<>> /\ job' = <<>> /\ queue' = queue
  BY <1>1, <1>3, HeldJob, UnfinishedParts, ConcatEmptySeq DEF Unfinished
<1>4. CASE Take
  <2>1. job = <<>> /\ queue # <<>> /\ queue' = Tail(queue)
    BY <1>4 DEF Take, BotTypeOK
  <2>2. Head(queue) \in Job /\ Tail(queue) \in Seq(Job)
    BY <1>1, <2>1
  <2>3. job' = <<>> \/ job' = <<Head(queue)>>
    BY <1>4 DEF Take, Finished, Begin
  <2>4. Unfinished = queue
    BY <2>1, UnfinishedParts
  <2>5. CASE job' = <<>>
    BY <2>1, <2>2, <2>4, <2>5, ConcatEmptySeq DEF Unfinished
  <2>6. CASE job' = <<Head(queue)>>
    BY <1>1, <2>1, <2>2, <2>4, <2>6 DEF Unfinished
  <2> QED
    BY <2>3, <2>5, <2>6
<1>5. CASE Retry
  <2>1. PICK j \in Job : job = <<j>>
    BY <1>5, HeldJob DEF Retry
  <2>2. (job' = <<>> \/ job' = job) /\ queue' = queue
    BY <1>5, <2>1 DEF Retry, Finished, Begin, Current
  <2> QED
    BY <1>2, <1>3, <2>1, <2>2
<1>6. CASE Stop
  BY <1>6, <1>1, ConcatProperties, ConcatEmptySeq DEF Stop, Unfinished, BotTypeOK
<1>7. CASE Publish \/ Rewrite \/ TakeDown \/ Resume \/ RetryAfter \/ PhotoRejected
  BY <1>2, <1>7 DEF Publish, Rewrite, TakeDown, Acting, Resume, RetryAfter, PhotoRejected
<1>8. CASE Answered \/ Refused \/ RetryAfterDelete \/ TimedOut \/ Rejected
  BY <1>3, <1>8
  DEF Answered, Refused, RetryAfterDelete, TimedOut, Rejected, Finished, BotTypeOK
<1> QED
  BY <1>4, <1>5, <1>6, <1>7, <1>8 DEF Work, Trouble

LEMMA EnqueueStep ==
  ASSUME BotInv, NEW jobs \in Seq(Job), Enqueue(jobs)
  PROVE  Unfinished' = Unfinished \o jobs
<1>1. queue \in Seq(Job) /\ job \in Seq(Job) /\ job' = job /\ queue' = queue \o jobs
  BY DEF BotInv, OwnMessage, BotTypeOK, Enqueue
<1>2. job \o (queue \o jobs) = (job \o queue) \o jobs
  <2>1. \A a, b, c \in Seq(Job) : (a \o b) \o c = a \o (b \o c)
    BY ConcatAssociative
  <2> QED
    BY <1>1, <2>1
<1> QED
  BY <1>1, <1>2 DEF Unfinished

LEMMA RefreshStep ==
  ASSUME BotInv, NEW expired, NEW kept, NEW text, \A p \in kept : text[p] \in Texts,
         Refresh(expired, kept, text)
  PROVE  Unfinished' = Refreshed(Unfinished, kept, text)
<1>1. queue \in Seq(Job) /\ job \in Seq(Job) /\ Unfinished \in Seq(Job)
  BY UnfinishedParts DEF BotInv, OwnMessage, BotTypeOK
<1> DEFINE m == Len(job)
           n == Len(queue)
           R(jobs) == Refreshed(jobs, kept, text)
           F(j) == [j EXCEPT !.text = IF j.live /\ j.post \in kept THEN text[j.post] ELSE @,
                             !.live = FALSE]
<1>2. /\ m \in Nat /\ n \in Nat /\ Len(Unfinished) = m + n
      /\ DOMAIN job = 1 .. m /\ DOMAIN queue = 1 .. n /\ DOMAIN Unfinished = 1 .. (m + n)
      /\ \A k \in 1 .. m + n : Unfinished[k] = IF k <= m THEN job[k] ELSE queue[k - m]
  BY <1>1, ConcatProperties DEF Unfinished
<1>3. ASSUME NEW jobs \in Seq(Job), NEW k \in DOMAIN jobs
      PROVE  R(jobs)[k] = F(jobs[k])
  BY DEF Refreshed
<1>4. /\ R(job) \in Seq(Job) /\ R(queue) \in Seq(Job) /\ R(Unfinished) \in Seq(Job)
      /\ Len(R(job)) = m /\ Len(R(queue)) = n /\ Len(R(Unfinished)) = m + n
  BY <1>1, <1>2, RefreshedJobs
<1>5. Unfinished' = R(job) \o R(queue)
  BY DEF Refresh, Unfinished
<1> HIDE DEF m, n, R, F
<1>6. /\ Unfinished' \in Seq(Job) /\ Len(Unfinished') = m + n
      /\ \A k \in 1 .. m + n :
           Unfinished'[k] = IF k <= m THEN R(job)[k] ELSE R(queue)[k - m]
  BY <1>4, <1>5, ConcatProperties
<1>7. ASSUME NEW k \in 1 .. m + n
      PROVE  Unfinished'[k] = R(Unfinished)[k]
  <2>1. CASE k <= m
    <3>1. k \in 1 .. m
      BY <1>2, <2>1
    <3>2. R(job)[k] = F(job[k]) /\ R(Unfinished)[k] = F(Unfinished[k])
      BY <1>1, <1>2, <1>3, <3>1
    <3> QED
      BY <1>2, <1>6, <2>1, <3>2
  <2>2. CASE ~(k <= m)
    <3>1. k - m \in 1 .. n
      BY <1>2, <2>2
    <3>2. R(queue)[k - m] = F(queue[k - m])
      BY <1>1, <1>2, <1>3, <3>1
    <3>3. R(Unfinished)[k] = F(Unfinished[k])
      BY <1>1, <1>2, <1>3
    <3> QED
      BY <1>2, <1>6, <2>2, <3>2, <3>3
  <2> QED
    BY <2>1, <2>2
<1>8. Unfinished' = R(Unfinished)
  BY <1>2, <1>4, <1>6, <1>7, SeqEqual
<1> QED
  BY <1>8 DEF R

-----------------------------------------------------------------------------
(* The bot implements JobQueue. *)

Names(jobs) == [k \in 1 .. Len(jobs) |-> Name(jobs[k])]

LEMMA NamesOfJobs ==
  ASSUME NEW jobs \in Seq(Job)
  PROVE  /\ Names(jobs) \in Seq(Ops \X Posts) /\ Len(Names(jobs)) = Len(jobs)
         /\ \A k \in 1 .. Len(jobs) : Names(jobs)[k] = Name(jobs[k])
<1> DEFINE n == Len(jobs)
<1>1. n \in Nat
  OBVIOUS
<1>2. \A k \in 1 .. n : Name(jobs[k]) \in Ops \X Posts
  <2>1. \A k \in 1 .. n : jobs[k] \in Job
    OBVIOUS
  <2>2. \A j \in Job : Name(j) \in Ops \X Posts
    BY DEF Name, Job
  <2> QED
    BY <2>1, <2>2
<1>3. Names(jobs) \in [1 .. n -> Ops \X Posts]
  BY <1>2 DEF Names
<1> HIDE DEF n
<1>4. Names(jobs) \in Seq(Ops \X Posts) /\ Len(Names(jobs)) = n
  BY <1>1, <1>3
<1> QED
  BY <1>4 DEF Names, n

\* Finishing a job finishes a name, putting jobs puts names, and a refresh
\* changes none.
LEMMA NamesOfTail ==
  ASSUME NEW jobs \in Seq(Job), jobs # <<>>
  PROVE  Names(jobs) # <<>> /\ Names(Tail(jobs)) = Tail(Names(jobs))
<1> DEFINE N == Names(jobs)
           T == Names(Tail(jobs))
           n == Len(jobs)
<1>1. /\ Tail(jobs) \in Seq(Job) /\ Len(Tail(jobs)) = n - 1 /\ n \in Nat \ {0}
      /\ \A k \in 1 .. n - 1 : Tail(jobs)[k] = jobs[k + 1]
  BY EmptySeq, HeadTailProperties
<1>2. N \in Seq(Ops \X Posts) /\ Len(N) = n /\ \A k \in 1 .. n : N[k] = Name(jobs[k])
  BY NamesOfJobs
<1>3. /\ T \in Seq(Ops \X Posts) /\ Len(T) = n - 1
      /\ \A k \in 1 .. n - 1 : T[k] = Name(Tail(jobs)[k])
  BY <1>1, NamesOfJobs
<1> HIDE DEF N, T, n
<1>4. N # <<>>
  BY <1>1, <1>2, EmptySeq
<1>5. /\ Tail(N) \in Seq(Ops \X Posts) /\ Len(Tail(N)) = n - 1
      /\ \A k \in 1 .. n - 1 : Tail(N)[k] = N[k + 1]
  BY <1>2, <1>4, HeadTailProperties
<1>6. \A k \in 1 .. n - 1 : k + 1 \in 1 .. n
  BY <1>1
<1>7. T = Tail(N)
  BY <1>1, <1>2, <1>3, <1>5, <1>6, SeqEqual
<1> QED
  BY <1>4, <1>7 DEF N, T

LEMMA NamesOfConcat ==
  ASSUME NEW jobs \in Seq(Job), NEW more \in Seq(Job)
  PROVE  Names(jobs \o more) = Names(jobs) \o Names(more)
<1> DEFINE N == Names(jobs)
           M == Names(more)
           C == Names(jobs \o more)
           n == Len(jobs)
           m == Len(more)
<1>1. /\ jobs \o more \in Seq(Job) /\ Len(jobs \o more) = n + m /\ n \in Nat /\ m \in Nat
      /\ \A k \in 1 .. n + m : (jobs \o more)[k] = IF k <= n THEN jobs[k] ELSE more[k - n]
  BY ConcatProperties
<1>2. /\ N \in Seq(Ops \X Posts) /\ Len(N) = n /\ \A k \in 1 .. n : N[k] = Name(jobs[k])
      /\ M \in Seq(Ops \X Posts) /\ Len(M) = m /\ \A k \in 1 .. m : M[k] = Name(more[k])
  BY NamesOfJobs
<1>3. /\ C \in Seq(Ops \X Posts) /\ Len(C) = n + m
      /\ \A k \in 1 .. n + m : C[k] = Name((jobs \o more)[k])
  BY <1>1, NamesOfJobs
<1> HIDE DEF N, M, C, n, m
<1>4. /\ N \o M \in Seq(Ops \X Posts) /\ Len(N \o M) = n + m
      /\ \A k \in 1 .. n + m : (N \o M)[k] = IF k <= n THEN N[k] ELSE M[k - n]
  BY <1>2, ConcatProperties
<1>5. ASSUME NEW k \in 1 .. n + m
      PROVE  C[k] = (N \o M)[k]
  <2>1. k <= n => k \in 1 .. n
    BY <1>1
  <2>2. ~(k <= n) => k - n \in 1 .. m
    BY <1>1
  <2>3. /\ C[k] = Name((jobs \o more)[k])
        /\ (jobs \o more)[k] = IF k <= n THEN jobs[k] ELSE more[k - n]
        /\ (N \o M)[k] = IF k <= n THEN N[k] ELSE M[k - n]
    BY <1>1, <1>3, <1>4
  <2>4. k <= n => N[k] = Name(jobs[k])
    BY <1>2, <2>1
  <2>5. ~(k <= n) => M[k - n] = Name(more[k - n])
    BY <1>2, <2>2
  <2> QED
    BY <2>3, <2>4, <2>5
<1>6. C = N \o M
  <2>1. Len(C) = Len(N \o M) /\ \A k \in 1 .. Len(C) : C[k] = (N \o M)[k]
    BY <1>3, <1>4, <1>5
  <2> QED
    BY <1>3, <1>4, <2>1, SeqEqual
<1> QED
  BY <1>6 DEF N, M, C

LEMMA NamesOfRefreshed ==
  ASSUME NEW jobs \in Seq(Job), NEW kept, NEW text, \A p \in kept : text[p] \in Texts
  PROVE  Names(Refreshed(jobs, kept, text)) = Names(jobs)
<1> DEFINE R == Refreshed(jobs, kept, text)
<1>1. /\ R \in Seq(Job) /\ Len(R) = Len(jobs)
      /\ \A k \in 1 .. Len(jobs) : Name(R[k]) = Name(jobs[k])
  BY RefreshedJobs DEF Name
<1> HIDE DEF R
<1> QED
  BY <1>1 DEF Names, R

\* A step of the queue, from the names before and after it.
LEMMA QueueStep ==
  ASSUME BotInv, BotInv',
         \/ Unfinished' = Unfinished
         \/ Unfinished # <<>> /\ Unfinished' = Tail(Unfinished)
         \/ \E jobs \in Seq(Job) : jobs # <<>> /\ Unfinished' = Unfinished \o jobs
         \/ Names(Unfinished') = Names(Unfinished)
  PROVE  Promise!Next \/ Names(Unfinished)' = Names(Unfinished)
<1> DEFINE N == Names(Unfinished)
<1>1. Unfinished \in Seq(Job) /\ Names(Unfinished)' = Names(Unfinished')
  BY UnfinishedParts DEF BotInv, OwnMessage, Names
<1>2. CASE Unfinished # <<>> /\ Unfinished' = Tail(Unfinished)
  <2>1. N # <<>> /\ Names(Unfinished)' = Tail(N)
    BY <1>1, <1>2, NamesOfTail
  <2> QED
    BY <2>1 DEF Promise!Next, Promise!Finish, Names
<1>3. ASSUME NEW jobs \in Seq(Job), jobs # <<>>, Unfinished' = Unfinished \o jobs
      PROVE  Promise!Next
  <2> DEFINE M == Names(jobs)
  <2>1. Names(Unfinished)' = N \o M
    BY <1>1, <1>3, NamesOfConcat
  <2>2. /\ N \in Seq(Ops \X Posts) /\ M \in Seq(Ops \X Posts)
        /\ Len(N) \in Nat /\ Len(M) \in Nat \ {0}
    BY <1>1, <1>3, NamesOfJobs, EmptySeq
  <2> HIDE DEF N, M
  <2>3. N \o M \in Seq(Ops \X Posts) /\ Len(N \o M) = Len(N) + Len(M)
    BY <2>2, ConcatProperties
  <2>4. Len(N \o M) > Len(N)
    <3> DEFINE n == Len(N)
               m == Len(M)
    <3> SUFFICES n + m > n
      BY <2>3
    <3> HIDE DEF n, m
    <3>1. n \in Nat /\ m \in Nat \ {0}
      BY <2>2 DEF n, m
    <3> QED
      BY <3>1
  <2>5. SubSeq(N \o M, 1, Len(N)) = N
    BY <2>2
  <2> QED
    BY <2>1, <2>3, <2>4, <2>5 DEF Promise!Next, Promise!Put, Names, N
<1> QED
  BY <1>1, <1>2, <1>3

LEMMA BotQueueStep ==
  ASSUME BotInv, [BotNext]_botVars
  PROVE  Promise!Next \/ Names(Unfinished)' = Names(Unfinished)
<1>1. BotInv'
  BY BotStep
<1>2. CASE Work \/ Trouble
  BY <1>1, <1>2, ConsumerStep, QueueStep
<1>3. ASSUME NEW j \in Job, Enqueue(<<j>>)
      PROVE  Promise!Next \/ Names(Unfinished)' = Names(Unfinished)
  <2>1. <<j>> \in Seq(Job) /\ <<j>> # <<>>
    OBVIOUS
  <2> QED
    BY <1>1, <1>3, <2>1, EnqueueStep, QueueStep
<1>4. ASSUME NEW expired \in SUBSET Posts, NEW kept \in SUBSET Posts,
             NEW text \in [Posts -> Texts], Refresh(expired, kept, text)
      PROVE  Promise!Next \/ Names(Unfinished)' = Names(Unfinished)
  <2>1. \A p \in kept : text[p] \in Texts
    OBVIOUS
  <2>2. Unfinished' = Refreshed(Unfinished, kept, text)
    BY <1>4, <2>1, RefreshStep
  <2>3. Names(Unfinished') = Names(Unfinished)
    BY <2>1, <2>2, NamesOfRefreshed, UnfinishedParts DEF BotInv, OwnMessage
  <2> QED
    BY <1>1, <2>3, QueueStep
<1>5. CASE UNCHANGED botVars
  BY <1>5 DEF botVars, Unfinished, Names
<1> QED
  BY <1>2, <1>3, <1>4, <1>5 DEF BotNext

LEMMA NoNames ==
  ASSUME BotInit
  PROVE  Promise!Init
<1>1. Unfinished = <<>>
  BY DEF BotInit, Unfinished
<1> QED
  BY <1>1 DEF Promise!Init

-----------------------------------------------------------------------------
(* Theorems about a bot by itself. *)

\* The consumer only ever changes the message of the post the job is about,
\* whatever jobs arrive, requests fail and messages expire (TelegramBot._edit,
\* _delete; BaseBot.set_msg_obj, remove_expired_msg_obj).
THEOREM BotTouchesOwnMessage == BotSpec => []OwnMessage
<1>1. BotInv => OwnMessage
  BY DEF BotInv
<1> QED
  BY BotInitInv, BotStep, <1>1, PTL DEF BotSpec

\* A bot is a queue that finishes its jobs one at a time and in order: no fault,
\* stop or resume loses, repeats out of order or overtakes a job.
THEOREM BotKeepsOrder == BotSpec => Promise!Safety
<1> DEFINE N == Names(Unfinished)
<1>1. BotInit => Promise!Init
  BY NoNames
<1>2. BotInv /\ [BotNext]_botVars => [Promise!Next]_N
  BY BotQueueStep
<1>3. BotSpec => [][Promise!Next]_N
  <2> HIDE DEF N
  <2> QED
    BY BotInitInv, BotStep, <1>2, PTL DEF BotSpec
<1>4. BotSpec => Promise!Init
  BY <1>1 DEF BotSpec
<1> QED
  BY <1>3, <1>4, PTL DEF Promise!Safety, Names

-----------------------------------------------------------------------------
(* The jobs of one cycle. *)

Shows(j) == j.op # "delete"

LEMMA NewJob ==
  ASSUME NEW op \in Ops, NEW p \in Posts, NEW t \in Texts, NEW j,
         j = [op |-> op, post |-> p, live |-> op = "send", text |-> t]
  PROVE  /\ j.op = op /\ j.post = p /\ (j.live <=> op = "send") /\ j.text = t
         /\ j \in Job
<1>1. j.live = (op = "send") /\ j.live \in BOOLEAN
  OBVIOUS
<1>2. j.live <=> op = "send"
  BY <1>1
<1>3. j.op = op /\ j.post = p /\ j.text = t
  OBVIOUS
<1>4. j \in Job
  BY <1>1 DEF Job
<1> QED
  BY <1>2, <1>3, <1>4

LEMMA JobsForPosts ==
  ASSUME TypeOK, NEW op \in Ops, NEW S \in SUBSET Ids, NEW posts \in SetToSeqs(S)
  PROVE  /\ JobsFor(op, posts) \in Seq(Job)
         /\ \A k \in 1 .. Len(JobsFor(op, posts)) :
              LET j == JobsFor(op, posts)[k]
              IN  /\ j.op = op /\ j.post \in S /\ (j.live <=> op = "send")
                  /\ j.post \in DOMAIN cache => j.text = cache[j.post]
         /\ \A k, l \in 1 .. Len(JobsFor(op, posts)) :
              JobsFor(op, posts)[k].post = JobsFor(op, posts)[l].post => k = l
<1> DEFINE n == Cardinality(S)
           J == JobsFor(op, posts)
           text(p) == IF p \in DOMAIN cache THEN cache[p] ELSE CHOOSE v \in Versions : TRUE
<1>1. /\ n \in Nat /\ posts \in [1 .. n -> S]
      /\ \A k, l \in 1 .. n : posts[k] = posts[l] => k = l
  <2>1. n \in Nat
    BY SubsetFinite
  <2> QED
    BY <2>1 DEF SetToSeqs
<1>2. Len(posts) = n
  <2> HIDE DEF n
  <2> QED
    BY <1>1
<1>3. \A p \in Ids : text(p) \in Texts
  <2>1. (CHOOSE v \in Versions : TRUE) \in Versions
    BY VersionsAssumption
  <2>2. \A p \in DOMAIN cache : cache[p] \in Versions
    BY DEF TypeOK, Collection
  <2> QED
    BY <2>1, <2>2, PostsAreIds
<1>4. /\ DOMAIN J = 1 .. n
      /\ J = [k \in 1 .. n |-> [op |-> op, post |-> posts[k], live |-> op = "send",
                                text |-> text(posts[k])]]
  BY <1>2 DEF JobsFor
<1>5. \A k \in 1 .. n : posts[k] \in S /\ posts[k] \in Ids
  BY <1>1
<1>6. \A k \in 1 .. n :
        /\ J[k].op = op /\ J[k].post = posts[k] /\ (J[k].live <=> op = "send")
        /\ J[k].text = text(posts[k]) /\ J[k] \in Job
  <2> HIDE DEF n, text
  <2>1. \A k \in 1 .. n :
          J[k] = [op |-> op, post |-> posts[k], live |-> op = "send", text |-> text(posts[k])]
    BY <1>4
  <2> HIDE DEF J
  <2>2. \A k \in 1 .. n : posts[k] \in Posts /\ text(posts[k]) \in Texts
    BY <1>3, <1>5, PostsAreIds
  <2>3. ASSUME NEW k \in 1 .. n
        PROVE  /\ J[k].op = op /\ J[k].post = posts[k] /\ (J[k].live <=> op = "send")
               /\ J[k].text = text(posts[k]) /\ J[k] \in Job
    <3> DEFINE p == posts[k]
               t == text(posts[k])
               j == J[k]
    <3>1. p \in Posts /\ t \in Texts
      BY <2>2
    <3>2. j = [op |-> op, post |-> p, live |-> op = "send", text |-> t]
      BY <2>1
    <3> HIDE DEF p, t, j
    <3>3. /\ j.op = op /\ j.post = p /\ (j.live <=> op = "send") /\ j.text = t
          /\ j \in Job
      BY <3>1, <3>2, NewJob
    <3> QED
      BY <3>3 DEF p, t, j
  <2> QED
    BY <2>3
<1>7. J \in Seq(Job) /\ Len(J) = n
  <2> HIDE DEF n, J, text
  <2> QED
    BY <1>1, <1>4, <1>6
<1>8. \A k \in 1 .. n :
        /\ J[k].op = op /\ J[k].post \in S /\ (J[k].live <=> op = "send")
        /\ J[k].post \in DOMAIN cache => J[k].text = cache[J[k].post]
  <2> HIDE DEF n, J
  <2> QED
    BY <1>5, <1>6
<1>9. \A k, l \in 1 .. n : J[k].post = J[l].post => k = l
  <2> HIDE DEF n, J
  <2>1. \A k \in 1 .. n : J[k].post = posts[k]
    BY <1>6
  <2>2. \A k, l \in 1 .. n : posts[k] = posts[l] => k = l
    BY <1>1
  <2> QED
    BY <2>1, <2>2
<1> HIDE DEF n, J
<1> QED
  BY <1>7, <1>8, <1>9 DEF J

\* What send() puts in the queue of a bot: jobs that show the text of the cache,
\* at most one for a post; live sends of the new posts, and other jobs.
Consignment(jobs) ==
  /\ jobs \in Seq(Job)
  /\ \A k \in 1 .. Len(jobs) :
       /\ jobs[k].op = "send" => jobs[k].post \in news
       /\ jobs[k].op # "send" => ~jobs[k].live
       /\ Shows(jobs[k]) => /\ jobs[k].post \in DOMAIN cache
                            /\ jobs[k].text = cache[jobs[k].post]
  /\ \A k, l \in 1 .. Len(jobs) :
       Shows(jobs[k]) /\ Shows(jobs[l]) /\ jobs[k].post = jobs[l].post => k = l

\* Two consignments about different posts are one.
LEMMA JoinedConsignments ==
  ASSUME NEW a, NEW b, Consignment(a), Consignment(b),
         \A k \in 1 .. Len(a), l \in 1 .. Len(b) :
           Shows(a[k]) /\ Shows(b[l]) => a[k].post # b[l].post
  PROVE  Consignment(a \o b)
<1> DEFINE m == Len(a)
           n == Len(b)
           c == a \o b
<1>1. /\ a \in Seq(Job) /\ b \in Seq(Job) /\ m \in Nat /\ n \in Nat
      /\ c \in Seq(Job) /\ Len(c) = m + n
      /\ \A k \in 1 .. m + n : c[k] = IF k <= m THEN a[k] ELSE b[k - m]
  BY ConcatProperties DEF Consignment
<1>2. \A k \in 1 .. m + n :
        \/ k \in 1 .. m /\ c[k] = a[k]
        \/ k - m \in 1 .. n /\ ~(k \in 1 .. m) /\ c[k] = b[k - m]
  <2> HIDE DEF m, n, c
  <2> QED
    BY <1>1
<1>3. /\ \A k \in 1 .. m :
           /\ a[k].op = "send" => a[k].post \in news
           /\ a[k].op # "send" => ~a[k].live
           /\ Shows(a[k]) => a[k].post \in DOMAIN cache /\ a[k].text = cache[a[k].post]
      /\ \A k \in 1 .. n :
           /\ b[k].op = "send" => b[k].post \in news
           /\ b[k].op # "send" => ~b[k].live
           /\ Shows(b[k]) => b[k].post \in DOMAIN cache /\ b[k].text = cache[b[k].post]
  BY DEF Consignment
<1>4. \A k \in 1 .. m + n :
           /\ c[k].op = "send" => c[k].post \in news
           /\ c[k].op # "send" => ~c[k].live
           /\ Shows(c[k]) => c[k].post \in DOMAIN cache /\ c[k].text = cache[c[k].post]
  <2> HIDE DEF m, n, c
  <2> QED
    BY <1>2, <1>3
<1>5. ASSUME NEW k \in 1 .. m + n, NEW l \in 1 .. m + n,
             Shows(c[k]), Shows(c[l]), c[k].post = c[l].post
      PROVE  k = l
  <2>1. /\ \A i, j \in 1 .. m :
             Shows(a[i]) /\ Shows(a[j]) /\ a[i].post = a[j].post => i = j
        /\ \A i, j \in 1 .. n :
             Shows(b[i]) /\ Shows(b[j]) /\ b[i].post = b[j].post => i = j
        /\ \A i \in 1 .. m, j \in 1 .. n :
             Shows(a[i]) /\ Shows(b[j]) => a[i].post # b[j].post
    BY DEF Consignment
  <2> HIDE DEF m, n, c
  <2>2. k \in Int /\ l \in Int /\ m \in Int
    BY <1>1
  <2>3. CASE k \in 1 .. m /\ l \in 1 .. m
    BY <1>2, <1>5, <2>1, <2>3
  <2>4. CASE ~(k \in 1 .. m) /\ ~(l \in 1 .. m)
    <3>1. k - m = l - m
      BY <1>2, <1>5, <2>1, <2>4
    <3> QED
      BY <2>2, <3>1
  <2>5. CASE k \in 1 .. m /\ ~(l \in 1 .. m)
    BY <1>2, <1>5, <2>1, <2>5
  <2>6. CASE ~(k \in 1 .. m) /\ l \in 1 .. m
    BY <1>2, <1>5, <2>1, <2>6
  <2> QED
    BY <2>3, <2>4, <2>5, <2>6
<1> HIDE DEF m, n, c
<1>6. Consignment(c)
  BY <1>1, <1>4, <1>5 DEF Consignment
<1> QED
  BY <1>6 DEF c

LEMMA Dispatched ==
  ASSUME TypeOK,
         NEW new \in SetToSeqs(news), NEW update \in SetToSeqs(updates),
         NEW remove \in SetToSeqs(removals)
  PROVE  Consignment(JobsFor("send", new) \o JobsFor("edit", update)
                       \o JobsFor("delete", remove))
<1> DEFINE a == JobsFor("send", new)
           b == JobsFor("edit", update)
           c == JobsFor("delete", remove)
<1>1. /\ news \in SUBSET Ids /\ updates \in SUBSET Ids /\ removals \in SUBSET Ids
      /\ news \subseteq DOMAIN cache /\ updates \subseteq DOMAIN cache
      /\ news \cap updates = {}
  BY CollectionDomain DEF TypeOK
<1>2. Consignment(a) /\ \A k \in 1 .. Len(a) : a[k].post \in news
  <2>1. "send" \in Ops
    BY DEF Ops
  <2>2. /\ a \in Seq(Job)
        /\ \A k \in 1 .. Len(a) :
             /\ a[k].op = "send" /\ a[k].post \in news /\ a[k].live
             /\ a[k].post \in DOMAIN cache => a[k].text = cache[a[k].post]
        /\ \A k, l \in 1 .. Len(a) : a[k].post = a[l].post => k = l
    BY <1>1, <2>1, JobsForPosts
  <2> HIDE DEF a
  <2> QED
    BY <1>1, <2>2 DEF Consignment
<1>3. Consignment(b) /\ \A k \in 1 .. Len(b) : b[k].post \in updates
  <2>1. "edit" \in Ops
    BY DEF Ops
  <2>2. /\ b \in Seq(Job)
        /\ \A k \in 1 .. Len(b) :
             /\ b[k].op = "edit" /\ b[k].post \in updates /\ ~b[k].live
             /\ b[k].post \in DOMAIN cache => b[k].text = cache[b[k].post]
        /\ \A k, l \in 1 .. Len(b) : b[k].post = b[l].post => k = l
    BY <1>1, <2>1, JobsForPosts
  <2> HIDE DEF b
  <2> QED
    BY <1>1, <2>2 DEF Consignment
<1>4. Consignment(c) /\ \A k \in 1 .. Len(c) : ~Shows(c[k])
  <2>1. "delete" \in Ops
    BY DEF Ops
  <2> HIDE DEF c
  <2> QED
    BY <1>1, <2>1, JobsForPosts DEF Consignment, Shows, c
<1> HIDE DEF a, b, c
<1>5. Consignment(a \o b)
  BY <1>1, <1>2, <1>3, JoinedConsignments
<1>6. Consignment((a \o b) \o c)
  BY <1>4, <1>5, JoinedConsignments
<1> QED
  BY <1>6 DEF a, b, c

-----------------------------------------------------------------------------
(* What the consumer and Telegram do to messages and requests. *)

\* The job in flight is the first of those not finished.
LEMMA HeldIsFirst ==
  ASSUME NEW held \in Seq(Job), NEW waiting \in Seq(Job), held # <<>>
  PROVE  1 \in 1 .. Len(held \o waiting) /\ (held \o waiting)[1] = held[1]
<1> DEFINE m == Len(held)
           n == Len(waiting)
           c == held \o waiting
<1>1. /\ m \in Nat \ {0} /\ n \in Nat /\ Len(c) = m + n
      /\ \A k \in 1 .. m + n : c[k] = IF k <= m THEN held[k] ELSE waiting[k - m]
  BY EmptySeq, ConcatProperties
<1> HIDE DEF m, n, c
<1>2. 1 \in 1 .. m + n /\ 1 <= m
  BY <1>1
<1> QED
  BY <1>1, <1>2 DEF c

LEMMA CurrentIsFirst ==
  ASSUME BotInv, consumer \in {"calling", "answering", "sleeping"}
  PROVE  /\ job # <<>> /\ Len(Unfinished) \in Nat \ {0} /\ 1 \in 1 .. Len(Unfinished)
         /\ Current = Unfinished[1] /\ Current \in Job
<1>1. PICK j \in Job : job = <<j>>
  BY HeldJob DEF BotInv, OwnMessage
<1>2. Unfinished \in Seq(Job) /\ Unfinished # <<>> /\ Unfinished[1] = j
  BY <1>1, UnfinishedParts DEF BotInv, OwnMessage
<1>3. Len(Unfinished) \in Nat \ {0}
  BY <1>2, EmptySeq
<1> QED
  BY <1>1, <1>2, <1>3 DEF Current

\* A step adds a message of a send, or changes the text of the message that the
\* edit in flight is about, and only while the request is made.
MessageActed(m) ==
  /\ consumer = "calling" /\ consumer' = "answering" /\ UNCHANGED <<job, queue>>
  /\ channel'[m].post = Current.post /\ channel'[m].text = request.text
  /\ \/ m = Len(channel) + 1 /\ Current.op = "send"
     \/ m \in 1 .. Len(channel) /\ Current.op = "edit" /\ channel[m].post = Current.post

LEMMA ChannelStep ==
  ASSUME BotInv, Work \/ Trouble
  PROVE  /\ Len(channel') \in Nat /\ 1 .. Len(channel) \subseteq 1 .. Len(channel')
         /\ \A m \in 1 .. Len(channel') :
              \/ /\ m \in 1 .. Len(channel)
                 /\ channel'[m].post = channel[m].post /\ channel'[m].text = channel[m].text
              \/ MessageActed(m)
<1> DEFINE n == Len(channel)
<1>1. channel \in Seq(Message) /\ n \in Nat /\ channel \in [1 .. n -> Message]
  BY DEF BotInv, OwnMessage, BotTypeOK
<1>2. CASE Publish
  <2> DEFINE new == [post |-> Current.post, text |-> request.text, up |-> TRUE]
  <2>1. channel' = Append(channel, new)
    BY <1>2 DEF Publish
  <2>2. new \in Message
    <3>1. request.text \in Texts /\ Current.post \in Posts
      BY <1>2, CurrentIsFirst DEF Publish, Acting, BotInv, RequestMade, Job
    <3> QED
      BY <3>1 DEF Message
  <2>3. new.post = Current.post /\ new.text = request.text
    OBVIOUS
  <2> HIDE DEF new
  <2>4. /\ Len(channel') = n + 1 /\ channel'[n + 1] = new
        /\ \A m \in 1 .. n : channel'[m] = channel[m]
    BY <1>1, <2>1, <2>2
  <2>5. \A m \in 1 .. n + 1 : m \in 1 .. n \/ m = n + 1
    <3> HIDE DEF n
    <3> QED
      BY <1>1
  <2>6. n + 1 \in Nat /\ 1 .. n \subseteq 1 .. n + 1
    <3> HIDE DEF n
    <3> QED
      BY <1>1
  <2> QED
    BY <1>2, <2>3, <2>4, <2>5, <2>6 DEF MessageActed, Publish, Acting
<1>3. CASE Rewrite \/ TakeDown
  <2> DEFINE k == request.message
  <2>1. k \in 1 .. n /\ channel[k].post = Current.post /\ channel[k] \in Message
    <3>1. k # 0 /\ k \in 0 .. n /\ channel[k].post = Current.post
      BY <1>3 DEF Rewrite, TakeDown, Acting, BotInv, OwnMessage, BotTypeOK, RequestMade
    <3>2. k \in 1 .. n
      <4> HIDE DEF k, n
      <4> QED
        BY <1>1, <3>1
    <3> QED
      BY <1>1, <3>1, <3>2
  <2>2. CASE Rewrite
    <3>1. channel' = [channel EXCEPT ![k] = [channel[k] EXCEPT !.text = request.text]]
      BY <2>2 DEF Rewrite
    <3>2. /\ [channel[k] EXCEPT !.text = request.text].post = channel[k].post
          /\ [channel[k] EXCEPT !.text = request.text].text = request.text
      BY <2>1 DEF Message
    <3>3. /\ Len(channel') = n
          /\ \A m \in 1 .. n : m # k => channel'[m] = channel[m]
          /\ channel'[k].post = channel[k].post /\ channel'[k].text = request.text
      BY <1>1, <2>1, <3>1, <3>2
    <3> QED
      BY <1>1, <2>1, <2>2, <3>3 DEF MessageActed, Rewrite, Acting
  <2>3. CASE TakeDown
    <3>1. channel' = [channel EXCEPT ![k] = [channel[k] EXCEPT !.up = FALSE]]
      BY <2>3 DEF TakeDown
    <3>2. /\ [channel[k] EXCEPT !.up = FALSE].post = channel[k].post
          /\ [channel[k] EXCEPT !.up = FALSE].text = channel[k].text
      BY <2>1 DEF Message
    <3>3. /\ Len(channel') = n
          /\ \A m \in 1 .. n : channel'[m].post = channel[m].post
                               /\ channel'[m].text = channel[m].text
      BY <1>1, <2>1, <3>1, <3>2
    <3> QED
      BY <1>1, <3>3
  <2> QED
    BY <1>3, <2>2, <2>3
<1>4. CASE UNCHANGED channel
  BY <1>1, <1>4
<1> QED
  BY <1>2, <1>3, <1>4
  DEF Work, Trouble, Take, Answered, Refused, Retry, Resume,
      RetryAfter, RetryAfterDelete, TimedOut, PhotoRejected, Rejected, Stop

\* A request that is being made after a step was begun by it with the text of its
\* job, or was being made before.
LEMMA RequestStep ==
  ASSUME BotInv, Work \/ Trouble, consumer' \in {"calling", "answering"}
  PROVE  \/ /\ consumer' = "calling" /\ UNCHANGED channel
            /\ request'.text = Current'.text
         \/ /\ consumer = "calling" /\ UNCHANGED <<queue, job>>
            /\ request'.text = request.text
            /\ consumer' = "calling" => UNCHANGED channel
<1>1. CASE Take \/ Retry
  BY <1>1 DEF Take, Retry, Finished, Begin, Current
<1>2. CASE Publish
  BY <1>2 DEF Publish, Acting, BotInv, RequestMade
<1>3. CASE Rewrite \/ TakeDown
  BY <1>3 DEF Rewrite, TakeDown, Acting
<1>4. CASE PhotoRejected
  BY <1>4 DEF PhotoRejected, BotInv, RequestMade
<1> QED
  BY <1>1, <1>2, <1>3, <1>4
  DEF Work, Trouble, Answered, Refused, Resume, CheckConsumer, Finished,
      RetryAfter, RetryAfterDelete, TimedOut, Rejected, Stop

-----------------------------------------------------------------------------
(* The inductive invariant of the pipeline: texts. *)

\* The texts that jobs about one post show rise towards the front page's, and
\* only the last of them can share the dict of the cache.
TextsRise ==
  \A k \in 1 .. Len(Unfinished) : Shows(Unfinished[k]) =>
    /\ Unfinished[k].text <= newest[Unfinished[k].post]
    /\ \A l \in 1 .. Len(Unfinished) :
         k < l /\ Shows(Unfinished[l]) /\ Unfinished[l].post = Unfinished[k].post =>
           Unfinished[k].text <= Unfinished[l].text /\ ~Unfinished[k].live

\* A message is not newer than its post or than what a job will make it show.
MessagesBehind ==
  \A m \in 1 .. Len(channel) :
    /\ channel[m].text <= newest[channel[m].post]
    /\ \A k \in 1 .. Len(Unfinished) :
         Shows(Unfinished[k]) /\ Unfinished[k].post = channel[m].post =>
           channel[m].text <= Unfinished[k].text

\* The request in flight shows a text its job may have outgrown since, but not
\* one older than the message it edits.
RequestBehind ==
  consumer \in {"calling", "answering"} /\ Shows(Current) =>
    /\ request.text <= Current.text
    /\ consumer = "calling" /\ Current.op = "edit" =>
         \A m \in 1 .. Len(channel) :
           channel[m].post = Current.post => channel[m].text <= request.text

\* Between crawling and send no job shares a dict of the cache; the cache shows
\* the newest contents; nothing is sent before there is a cache.
CycleInStep ==
  /\ crawled => \A k \in 1 .. Len(Unfinished) : ~Unfinished[k].live
  /\ \A i \in DOMAIN cache : cache[i] = newest[i]
  /\ DOMAIN cache = {} => ~crawled /\ Unfinished = <<>>

TextInv ==
  /\ Inv /\ BotInv /\ newest \in [Ids -> Nat]
  /\ TextsRise /\ MessagesBehind /\ RequestBehind /\ CycleInStep

\* Every text and every newest content is a number.
LEMMA TextsAreNumbers ==
  ASSUME TextInv
  PROVE  /\ \A k \in 1 .. Len(Unfinished) :
              /\ Unfinished[k] \in Job /\ Unfinished[k].text \in Nat
              /\ Unfinished[k].post \in Ids /\ newest[Unfinished[k].post] \in Nat
         /\ \A m \in 1 .. Len(channel) :
              /\ channel[m] \in Message /\ channel[m].text \in Nat
              /\ channel[m].post \in Ids /\ newest[channel[m].post] \in Nat
         /\ request.text \in Nat
         /\ Unfinished \in Seq(Job) /\ Len(Unfinished) \in Nat /\ Len(channel) \in Nat
<1>1. Unfinished \in Seq(Job) /\ channel \in Seq(Message) /\ request.text \in Nat
  BY UnfinishedParts DEF TextInv, BotInv, OwnMessage, BotTypeOK, RequestMade
<1>2. /\ \A k \in 1 .. Len(Unfinished) : Unfinished[k] \in Job
      /\ \A m \in 1 .. Len(channel) : channel[m] \in Message
      /\ Len(Unfinished) \in Nat /\ Len(channel) \in Nat
  BY <1>1
<1>3. /\ \A j \in Job : j.text \in Nat /\ j.post \in Ids
      /\ \A c \in Message : c.text \in Nat /\ c.post \in Ids
  BY TextsAssumption, PostsAreIds DEF Job, Message
<1>4. \A i \in Ids : newest[i] \in Nat
  BY DEF TextInv
<1> QED
  BY <1>1, <1>2, <1>3, <1>4

\* The consumer shows texts that rise.
LEMMA TextsConsumer ==
  ASSUME TextInv, Work \/ Trouble, UNCHANGED <<vars, cycle>>
  PROVE  TextsRise' /\ MessagesBehind' /\ RequestBehind' /\ CycleInStep'
<1> DEFINE U == Unfinished
           n == Len(Unfinished)
<1> BotInv /\ BotInv'
  BY WorkKeeps, TroubleKeeps DEF TextInv
<1>1. /\ U \in Seq(Job) /\ n \in Nat
      /\ UNCHANGED <<newest, crawled, cache>>
  BY TextsAreNumbers DEF vars, cycle
<1>2. /\ Len(U') \in Nat
      /\ \/ U' = U /\ Len(U') = n
         \/ Len(U') = n - 1 /\ \A k \in 1 .. Len(U') : U'[k] = U[k + 1]
  <2>1. CASE U' = U
    BY <1>1, <2>1
  <2>2. CASE U # <<>> /\ U' = Tail(U)
    BY <1>1, <2>2, HeadTailProperties, EmptySeq
  <2> QED
    BY <2>1, <2>2, ConsumerStep
<1>3. /\ \A k \in 1 .. Len(U') : \E i \in 1 .. n :
           /\ U'[k] = U[i] /\ (i = k \/ i = k + 1)
           /\ \A l \in 1 .. Len(U') : k < l => \E j \in 1 .. n : i < j /\ U'[l] = U[j]
  <2>1. CASE U' = U
    BY <2>1
  <2>2. CASE Len(U') = n - 1 /\ \A k \in 1 .. Len(U') : U'[k] = U[k + 1]
    <3> HIDE DEF U, n
    <3>1. \A k \in 1 .. Len(U') : k + 1 \in 1 .. n /\ U'[k] = U[k + 1]
      BY <1>1, <1>2, <2>2
    <3>2. \A k, l \in 1 .. Len(U') : k < l => k + 1 < l + 1
      BY <1>2
    <3> QED
      BY <3>1, <3>2
  <2> QED
    BY <1>2, <2>1, <2>2
<1>4. TextsRise'
  <2> SUFFICES ASSUME NEW k \in 1 .. Len(U'), Shows(U'[k])
               PROVE  /\ U'[k].text <= newest[U'[k].post]
                      /\ \A l \in 1 .. Len(U') :
                           k < l /\ Shows(U'[l]) /\ U'[l].post = U'[k].post =>
                             U'[k].text <= U'[l].text /\ ~U'[k].live
    BY <1>1 DEF TextsRise, Shows
  <2>1. PICK i \in 1 .. n :
           /\ U'[k] = U[i]
           /\ \A l \in 1 .. Len(U') : k < l => \E j \in 1 .. n : i < j /\ U'[l] = U[j]
    BY <1>3
  <2> QED
    BY <2>1 DEF TextInv, TextsRise
<1>5. MessagesBehind'
  <2> SUFFICES ASSUME NEW m \in 1 .. Len(channel')
               PROVE  /\ channel'[m].text <= newest[channel'[m].post]
                      /\ \A k \in 1 .. Len(U') :
                           Shows(U'[k]) /\ U'[k].post = channel'[m].post =>
                             channel'[m].text <= U'[k].text
    BY <1>1 DEF MessagesBehind
  <2>1. CASE /\ m \in 1 .. Len(channel)
             /\ channel'[m].post = channel[m].post /\ channel'[m].text = channel[m].text
    BY <1>3, <2>1 DEF TextInv, MessagesBehind
  <2>2. CASE MessageActed(m)
    <3>1. /\ n \in Nat /\ 1 \in 1 .. n /\ Current = U[1] /\ Shows(Current)
          /\ U' = U /\ Len(U') = n
          /\ channel'[m].post = Current.post /\ channel'[m].text = request.text
      BY <2>2, CurrentIsFirst DEF MessageActed, Shows, Unfinished
    <3>2. request.text <= U[1].text /\ U[1].text <= newest[U[1].post]
      BY <2>2, <3>1 DEF MessageActed, TextInv, RequestBehind, TextsRise
    <3>3. \A k \in 1 .. n : Shows(U[k]) /\ U[k].post = U[1].post => U[1].text <= U[k].text
      <4>1. \A k \in 1 .. n : k = 1 \/ 1 < k
        BY <3>1
      <4>2. U[1].text \in Nat
        BY <3>1, TextsAreNumbers
      <4> QED
        BY <3>1, <4>1, <4>2 DEF TextInv, TextsRise
    <3>4. /\ request.text \in Nat /\ U[1].text \in Nat /\ newest[U[1].post] \in Nat
          /\ \A k \in 1 .. n : U[k].text \in Nat
      BY <3>1, TextsAreNumbers
    <3> HIDE DEF U, n
    <3>5. \A k \in 1 .. n :
            Shows(U[k]) /\ U[k].post = U[1].post => request.text <= U[k].text
      BY <3>2, <3>3, <3>4
    <3>6. request.text <= newest[U[1].post]
      BY <3>2, <3>4
    <3> QED
      BY <3>1, <3>5, <3>6
  <2> QED
    BY <2>1, <2>2, ChannelStep
<1>6. RequestBehind'
  <2> SUFFICES ASSUME consumer' \in {"calling", "answering"}, Shows(Current')
               PROVE  /\ request'.text <= Current'.text
                      /\ consumer' = "calling" /\ Current'.op = "edit" =>
                           \A m \in 1 .. Len(channel') :
                             channel'[m].post = Current'.post =>
                               channel'[m].text <= request'.text
    BY DEF RequestBehind, Shows
  <2>1. /\ 1 \in 1 .. Len(U') /\ Current' = U'[1]
    <3>1. job' \in Seq(Job) /\ queue' \in Seq(Job) /\ job' # <<>>
      BY DEF BotInv, OwnMessage, BotTypeOK
    <3> QED
      BY <3>1, HeldIsFirst DEF Unfinished, Current
  <2>2. Current'.text \in Nat
    <3>1. \E i \in 1 .. n : Current' = U[i]
      BY <1>3, <2>1
    <3> QED
      BY <3>1, TextsAreNumbers
  <2>3. CASE consumer' = "calling" /\ UNCHANGED channel /\ request'.text = Current'.text
    BY <1>5, <2>1, <2>2, <2>3 DEF MessagesBehind
  <2>4. CASE /\ consumer = "calling" /\ UNCHANGED <<queue, job>>
             /\ request'.text = request.text
             /\ consumer' = "calling" => UNCHANGED channel
    BY <2>4 DEF TextInv, RequestBehind, Current, Shows
  <2> QED
    BY <2>3, <2>4, RequestStep
<1>7. CycleInStep'
  <2>1. crawled => \A k \in 1 .. Len(U') : ~U'[k].live
    BY <1>3 DEF TextInv, CycleInStep
  <2>2. DOMAIN cache = {} => U' = <<>>
    BY <1>1, ConsumerStep DEF TextInv, CycleInStep
  <2> QED
    BY <1>1, <2>1, <2>2 DEF TextInv, CycleInStep
<1> QED
  BY <1>4, <1>5, <1>6, <1>7

\* What a refresh makes of one job.
LEMMA RefreshedTexts ==
  ASSUME NEW jobs \in Seq(Job), NEW kept, NEW text, \A p \in kept : text[p] \in Texts,
         NEW k \in 1 .. Len(jobs)
  PROVE  /\ ~Refreshed(jobs, kept, text)[k].live
         /\ Refreshed(jobs, kept, text)[k].text =
              IF jobs[k].live /\ jobs[k].post \in kept THEN text[jobs[k].post] ELSE jobs[k].text
<1> DEFINE j == jobs[k]
           r == [j EXCEPT !.text = IF j.live /\ j.post \in kept THEN text[j.post] ELSE @,
                          !.live = FALSE]
<1>1. j \in Job /\ k \in DOMAIN jobs
  OBVIOUS
<1>2. Refreshed(jobs, kept, text)[k] = r
  BY <1>1 DEF Refreshed
<1> HIDE DEF j
<1>3. /\ r.live = FALSE
      /\ r.text = IF j.live /\ j.post \in kept THEN text[j.post] ELSE j.text
  BY <1>1 DEF Job
<1>4. ~r.live
  BY <1>3
<1> QED
  BY <1>2, <1>3, <1>4 DEF j

\* The contents of the cache and of a page are texts, and a plausible page shows
\* the newest contents.
LEMMA NewestOfPage ==
  ASSUME TextInv, NEW page \in Pages, Compare(page)
  PROVE  /\ page \in Collection /\ DOMAIN page \in SUBSET Ids /\ DOMAIN page # {}
         /\ \A i \in DOMAIN page : page[i] \in Texts /\ page[i] \in Nat
         /\ cache' = page /\ crawled' = TRUE
         /\ \A i \in Ids : /\ newest'[i] \in Nat /\ newest[i] \in Nat
                           /\ newest[i] <= newest'[i]
         /\ \A i \in DOMAIN page : newest'[i] = page[i]
         /\ newest' \in [Ids -> Nat]
<1>1. page \in Collection /\ DOMAIN page \in SUBSET Ids /\ DOMAIN page # {}
  BY CollectionDomain DEF Pages
<1>2. \A i \in DOMAIN page : page[i] \in Texts /\ page[i] \in Nat
  BY <1>1, PostsAreIds, TextsAssumption DEF Collection
<1>3. /\ newest' = [i \in Ids |-> IF i \in DOMAIN page THEN page[i] ELSE newest[i]]
      /\ \A i \in DOMAIN page : page[i] >= newest[i]
      /\ \A i \in Ids : newest[i] \in Nat
      /\ cache' = page /\ crawled' = TRUE
  <2>1. Plausible(page) /\ Crawl(page) /\ crawled' = TRUE
        /\ newest' = [i \in Ids |-> IF i \in DOMAIN page THEN page[i] ELSE newest[i]]
    BY DEF Compare
  <2>2. cache' = page
    BY <2>1 DEF Crawl, FirstPage, NextPage
  <2>3. \A i \in Ids : newest[i] \in Nat
    BY DEF TextInv
  <2> QED
    BY <2>1, <2>2, <2>3 DEF Plausible
<1>4. \A i \in Ids : newest'[i] = IF i \in DOMAIN page THEN page[i] ELSE newest[i]
  BY <1>3
<1>5. newest' \in [Ids -> Nat]
  BY <1>2, <1>3
<1> QED
  BY <1>1, <1>2, <1>3, <1>4, <1>5

\* A comparison keeps what it finds in the bots in step with the new page.
LEMMA TextsCompare ==
  ASSUME TextInv, NEW page \in Pages, Compare(page)
  PROVE  TextsRise' /\ MessagesBehind' /\ RequestBehind' /\ CycleInStep'
<1> DEFINE U == Unfinished
           n == Len(Unfinished)
<1>1. /\ \A i \in DOMAIN cache' : cache'[i] = newest'[i]
      /\ DOMAIN cache' # {}
  BY NewestOfPage
<1>2. CASE DOMAIN cache = {}
  <2>1. U = <<>> /\ U' = <<>> /\ Len(U') = 0 /\ UNCHANGED botVars
    BY <1>2 DEF Compare, TextInv, CycleInStep, botVars, Unfinished
  <2>2. TextsRise' /\ CycleInStep'
    BY <1>1, <2>1 DEF TextsRise, CycleInStep
  <2>3. MessagesBehind'
    <3>1. UNCHANGED channel
      BY <2>1 DEF botVars
    <3>2. ASSUME NEW m \in 1 .. Len(channel)
          PROVE  channel[m].text <= newest'[channel[m].post]
      <4>1. /\ channel[m].text \in Nat /\ newest[channel[m].post] \in Nat
            /\ newest'[channel[m].post] \in Nat
            /\ channel[m].text <= newest[channel[m].post]
            /\ newest[channel[m].post] <= newest'[channel[m].post]
        BY NewestOfPage, TextsAreNumbers DEF TextInv, MessagesBehind
      <4> QED
        BY <4>1
    <3> QED
      BY <2>1, <3>1, <3>2 DEF MessagesBehind
  <2>4. RequestBehind'
    BY <2>1 DEF RequestBehind, TextInv, botVars, Current, Shows
  <2> QED
    BY <2>2, <2>3, <2>4
<1>3. CASE DOMAIN cache # {}
  <2> DEFINE kept == Staying(page)
  <2>1. /\ Refresh(Below(Ids, page), kept, page)
        /\ UNCHANGED <<consumer, request, channel>>
        /\ \A p \in kept : page[p] \in Texts /\ page[p] = newest'[p] /\ p \in Ids
    BY <1>3, NewestOfPage DEF Compare, Refresh, Staying, Tracked
  <2> HIDE DEF kept
  <2>2. U' = Refreshed(U, kept, page)
    BY <2>1, RefreshStep DEF TextInv
  <2>3. U \in Seq(Job) /\ n \in Nat
    BY TextsAreNumbers
  <2>4. /\ U' \in Seq(Job) /\ Len(U') = n
        /\ \A k \in 1 .. n :
             /\ U'[k].op = U[k].op /\ U'[k].post = U[k].post /\ ~U'[k].live
             /\ U'[k].text = IF U[k].live /\ U[k].post \in kept THEN page[U[k].post]
                             ELSE U[k].text
    <3>1. \A p \in kept : page[p] \in Texts
      BY <2>1
    <3> HIDE DEF U, n
    <3>2. /\ U' \in Seq(Job) /\ Len(U') = n
          /\ \A k \in 1 .. n : U'[k].op = U[k].op /\ U'[k].post = U[k].post
      BY <2>2, <2>3, <3>1, RefreshedJobs DEF n, U
    <3>3. \A k \in 1 .. n :
             /\ ~U'[k].live
             /\ U'[k].text = IF U[k].live /\ U[k].post \in kept THEN page[U[k].post]
                             ELSE U[k].text
      BY <2>2, <2>3, <3>1, RefreshedTexts DEF n, U
    <3> QED
      BY <3>2, <3>3
  <2>5. ASSUME NEW k \in 1 .. n, Shows(U[k])
        PROVE  /\ Shows(U'[k]) /\ U'[k].text \in Nat /\ U[k].text <= U'[k].text
               /\ U'[k].text <= newest'[U'[k].post]
    <3> DEFINE p == U[k].post
    <3>1. /\ p \in Ids /\ U[k].text \in Nat /\ newest[p] \in Nat /\ newest'[p] \in Nat
          /\ U[k].text <= newest[p] /\ newest[p] <= newest'[p]
      BY <2>5, NewestOfPage, TextsAreNumbers DEF TextInv, TextsRise
    <3>2. U'[k].text = newest'[p] \/ U'[k].text = U[k].text
      BY <2>1, <2>4
    <3>3. U'[k].post = p /\ Shows(U'[k])
      BY <2>4, <2>5 DEF Shows
    <3> HIDE DEF p, U, n
    <3> QED
      BY <3>1, <3>2, <3>3
  <2>6. TextsRise'
    <3> SUFFICES ASSUME NEW k \in 1 .. n, Shows(U'[k])
                 PROVE  /\ U'[k].text <= newest'[U'[k].post]
                        /\ \A l \in 1 .. n :
                             k < l /\ Shows(U'[l]) /\ U'[l].post = U'[k].post =>
                               U'[k].text <= U'[l].text /\ ~U'[k].live
      BY <2>4 DEF TextsRise, Shows
    <3>1. Shows(U[k]) /\ ~U'[k].live
      BY <2>4 DEF Shows
    <3>2. ASSUME NEW l \in 1 .. n, k < l, Shows(U'[l]), U'[l].post = U'[k].post
          PROVE  U'[k].text <= U'[l].text
      <4>1. Shows(U[l]) /\ U[l].post = U[k].post
        BY <2>4, <3>2 DEF Shows
      <4>2. U[k].text <= U[l].text /\ ~U[k].live
        BY <3>1, <3>2, <4>1 DEF TextInv, TextsRise
      <4>3. U'[k].text = U[k].text /\ U[l].text <= U'[l].text
        BY <2>4, <2>5, <4>1, <4>2
      <4>4. U[k].text \in Nat /\ U[l].text \in Nat /\ U'[l].text \in Nat
        BY <2>5, <4>1, TextsAreNumbers
      <4> HIDE DEF U
      <4> QED
        BY <4>2, <4>3, <4>4
    <3> QED
      BY <2>5, <3>1, <3>2
  <2>7. MessagesBehind'
    <3> SUFFICES ASSUME NEW m \in 1 .. Len(channel)
                 PROVE  /\ channel[m].text <= newest'[channel[m].post]
                        /\ \A k \in 1 .. n :
                             Shows(U'[k]) /\ U'[k].post = channel[m].post =>
                               channel[m].text <= U'[k].text
      BY <2>1, <2>4 DEF MessagesBehind, Shows
    <3>1. channel[m].text <= newest'[channel[m].post]
      <4>1. /\ channel[m].text \in Nat /\ newest[channel[m].post] \in Nat
            /\ newest'[channel[m].post] \in Nat
            /\ channel[m].text <= newest[channel[m].post]
            /\ newest[channel[m].post] <= newest'[channel[m].post]
        BY NewestOfPage, TextsAreNumbers DEF TextInv, MessagesBehind
      <4> QED
        BY <4>1
    <3>2. ASSUME NEW k \in 1 .. n, Shows(U'[k]), U'[k].post = channel[m].post
          PROVE  channel[m].text <= U'[k].text
      <4>1. Shows(U[k]) /\ U[k].post = channel[m].post
        BY <2>4, <3>2 DEF Shows
      <4>2. channel[m].text <= U[k].text /\ U[k].text <= U'[k].text
        BY <2>5, <4>1 DEF TextInv, MessagesBehind
      <4>3. channel[m].text \in Nat /\ U[k].text \in Nat /\ U'[k].text \in Nat
        BY <2>5, <4>1, TextsAreNumbers
      <4> HIDE DEF U
      <4> QED
        BY <4>2, <4>3
    <3> QED
      BY <3>1, <3>2
  <2>8. RequestBehind'
    <3> SUFFICES ASSUME consumer \in {"calling", "answering"}, Shows(Current')
                 PROVE  /\ request.text <= Current'.text
                        /\ consumer = "calling" /\ Current'.op = "edit" =>
                             \A m \in 1 .. Len(channel) :
                               channel[m].post = Current'.post =>
                                 channel[m].text <= request.text
      BY <2>1 DEF RequestBehind, Shows
    <3>1. /\ job' \in Seq(Job) /\ queue' \in Seq(Job) /\ job' # <<>>
      <4>1. BotInv'
        BY <2>1, RefreshKeeps DEF TextInv
      <4> QED
        BY <2>1, <4>1 DEF BotInv, OwnMessage, BotTypeOK
    <3>2. Current' = U'[1] /\ 1 \in 1 .. n
      BY <2>4, <3>1, HeldIsFirst DEF Unfinished, Current
    <3>3. Current = U[1]
      BY CurrentIsFirst DEF TextInv
    <3>4. Shows(Current) /\ Current.op = Current'.op /\ Current.post = Current'.post
      BY <2>4, <3>2, <3>3 DEF Shows
    <3>5. /\ request.text <= Current.text /\ Current.text <= Current'.text
          /\ request.text \in Nat /\ Current.text \in Nat /\ Current'.text \in Nat
      BY <2>5, <3>2, <3>3, <3>4, TextsAreNumbers DEF TextInv, RequestBehind
    <3>6. request.text <= Current'.text
      <4> DEFINE a == Current.text
                 b == Current'.text
      <4> HIDE DEF a, b
      <4> QED
        BY <3>5 DEF a, b
    <3> QED
      BY <3>4, <3>6 DEF TextInv, RequestBehind
  <2>9. CycleInStep'
    BY <1>1, <2>4 DEF CycleInStep
  <2> QED
    BY <2>6, <2>7, <2>8, <2>9
<1> QED
  BY <1>2, <1>3

\* What send() appends to the jobs, for every bot state.
LEMMA DispatchStep ==
  ASSUME Inv, BotInv, Dispatch
  PROVE  \E jobs :
           /\ Consignment(jobs) /\ Enqueue(jobs)
           /\ Unfinished' = Unfinished \o jobs
           /\ Unfinished \in Seq(Job) /\ Unfinished' \in Seq(Job)
           /\ Len(Unfinished') = Len(Unfinished) + Len(jobs)
           /\ Len(Unfinished) \in Nat /\ Len(jobs) \in Nat
           /\ \A k \in 1 .. Len(Unfinished') :
                \/ k \in 1 .. Len(Unfinished) /\ Unfinished'[k] = Unfinished[k]
                \/ /\ k - Len(Unfinished) \in 1 .. Len(jobs)
                   /\ Unfinished'[k] = jobs[k - Len(Unfinished)]
           /\ \A k \in 1 .. Len(Unfinished) :
                k \in 1 .. Len(Unfinished') /\ Unfinished'[k] = Unfinished[k]
<1>1. PICK new \in SetToSeqs(news), update \in SetToSeqs(updates), remove \in SetToSeqs(removals) :
        Enqueue(JobsFor("send", new) \o JobsFor("edit", update) \o JobsFor("delete", remove))
  BY DEF Dispatch
<1> DEFINE jobs == JobsFor("send", new) \o JobsFor("edit", update) \o JobsFor("delete", remove)
           U == Unfinished
           n == Len(Unfinished)
           m == Len(jobs)
<1>2. Consignment(jobs)
  BY Dispatched DEF Inv
<1>3. Enqueue(jobs)
  BY <1>1
<1> HIDE DEF jobs
<1>4. /\ jobs \in Seq(Job) /\ U \in Seq(Job) /\ U' = U \o jobs
  BY <1>2, <1>3, EnqueueStep, UnfinishedParts DEF Consignment, BotInv, OwnMessage
<1>5. /\ U' \in Seq(Job) /\ Len(U') = n + m /\ n \in Nat /\ m \in Nat
      /\ \A k \in 1 .. n + m : U'[k] = IF k <= n THEN U[k] ELSE jobs[k - n]
  BY <1>4, ConcatProperties
<1>6. /\ \A k \in 1 .. n + m : \/ k \in 1 .. n /\ U'[k] = U[k]
                               \/ k - n \in 1 .. m /\ U'[k] = jobs[k - n]
      /\ \A k \in 1 .. n : k \in 1 .. n + m /\ U'[k] = U[k]
  <2> HIDE DEF n, m, U
  <2> QED
    BY <1>5
<1> WITNESS jobs
<1> QED
  BY <1>2, <1>3, <1>4, <1>5, <1>6

\* Sending adds jobs that show the newest contents.
LEMMA TextsDispatch ==
  ASSUME TextInv, Dispatch
  PROVE  TextsRise' /\ MessagesBehind' /\ RequestBehind' /\ CycleInStep'
<1> DEFINE U == Unfinished
           n == Len(Unfinished)
<1>1. PICK jobs :
        /\ Consignment(jobs) /\ Enqueue(jobs)
        /\ n \in Nat /\ Len(jobs) \in Nat
        /\ Len(U') = n + Len(jobs)
        /\ \A k \in 1 .. Len(U') :
             \/ k \in 1 .. n /\ U'[k] = U[k]
             \/ k - n \in 1 .. Len(jobs) /\ U'[k] = jobs[k - n]
  BY DispatchStep DEF TextInv
<1>2. /\ UNCHANGED <<vars, newest, request, job, channel>>
      /\ crawled /\ crawled' = FALSE
      /\ consumer' \in {"calling", "answering"} => consumer' = consumer
  BY <1>1 DEF Dispatch, Enqueue, CheckConsumer
<1>3. /\ DOMAIN cache # {} /\ cache' = cache
      /\ \A k \in 1 .. n : ~U[k].live
      /\ \A k \in 1 .. Len(jobs) : Shows(jobs[k]) =>
           jobs[k].text = newest[jobs[k].post] /\ jobs[k].post \in Ids
  <2>1. DOMAIN cache \in SUBSET Ids
    BY CollectionDomain DEF TextInv, Inv, TypeOK
  <2> QED
    BY <1>1, <1>2, <2>1 DEF TextInv, CycleInStep, Consignment, vars
<1>4. \A i \in Ids : newest[i] \in Nat
  BY DEF TextInv
<1>5. TextsRise'
  <2> SUFFICES ASSUME NEW k \in 1 .. Len(U'), Shows(U'[k])
               PROVE  /\ U'[k].text <= newest[U'[k].post]
                      /\ \A l \in 1 .. Len(U') :
                           k < l /\ Shows(U'[l]) /\ U'[l].post = U'[k].post =>
                             U'[k].text <= U'[l].text /\ ~U'[k].live
    BY <1>2 DEF TextsRise, Shows
  <2>1. CASE k \in 1 .. n /\ U'[k] = U[k]
    <3>1. U[k].text <= newest[U[k].post] /\ ~U[k].live
      BY <1>3, <2>1 DEF TextInv, TextsRise
    <3>2. ASSUME NEW l \in 1 .. Len(U'), k < l, Shows(U'[l]), U'[l].post = U'[k].post
          PROVE  U'[k].text <= U'[l].text
      <4>1. CASE l \in 1 .. n /\ U'[l] = U[l]
        BY <2>1, <3>2, <4>1 DEF TextInv, TextsRise
      <4>2. CASE l - n \in 1 .. Len(jobs) /\ U'[l] = jobs[l - n]
        BY <1>3, <2>1, <3>1, <3>2, <4>2
      <4> QED
        BY <1>1, <4>1, <4>2
    <3> QED
      BY <2>1, <3>1, <3>2
  <2>2. CASE k - n \in 1 .. Len(jobs) /\ U'[k] = jobs[k - n]
    <3>1. U'[k].text <= newest[U'[k].post]
      <4>1. U'[k].text = newest[U'[k].post] /\ newest[U'[k].post] \in Nat
        BY <1>3, <1>4, <2>2
      <4> QED
        BY <4>1
    <3>2. ASSUME NEW l \in 1 .. Len(U'), k < l, Shows(U'[l]), U'[l].post = U'[k].post
          PROVE  FALSE
      <4>1. ~(l \in 1 .. n) /\ k - n # l - n
        <5>1. k \in Int /\ l \in Int /\ n \in Nat /\ k - n \in Nat \ {0}
          BY <1>1, <2>2
        <5> HIDE DEF n
        <5> QED
          BY <3>2, <5>1
      <4>2. l - n \in 1 .. Len(jobs) /\ U'[l] = jobs[l - n]
        BY <1>1, <4>1
      <4> QED
        BY <1>1, <2>2, <3>2, <4>1, <4>2 DEF Consignment
    <3> QED
      BY <3>1, <3>2
  <2> QED
    BY <1>1, <2>1, <2>2
<1>6. MessagesBehind'
  <2> SUFFICES ASSUME NEW m \in 1 .. Len(channel)
               PROVE  /\ channel[m].text <= newest[channel[m].post]
                      /\ \A k \in 1 .. Len(U') :
                           Shows(U'[k]) /\ U'[k].post = channel[m].post =>
                             channel[m].text <= U'[k].text
    BY <1>2 DEF MessagesBehind, Shows
  <2>1. ASSUME NEW k \in 1 .. Len(U'), Shows(U'[k]), U'[k].post = channel[m].post
        PROVE  channel[m].text <= U'[k].text
    <3>1. CASE k \in 1 .. n /\ U'[k] = U[k]
      BY <2>1, <3>1 DEF TextInv, MessagesBehind
    <3>2. CASE k - n \in 1 .. Len(jobs) /\ U'[k] = jobs[k - n]
      BY <1>3, <2>1, <3>2 DEF TextInv, MessagesBehind
    <3> QED
      BY <1>1, <3>1, <3>2
  <2> QED
    BY <2>1 DEF TextInv, MessagesBehind
<1>7. RequestBehind'
  BY <1>2 DEF TextInv, RequestBehind, Current, Shows
<1>8. CycleInStep'
  BY <1>2, <1>3 DEF TextInv, CycleInStep, vars
<1> QED
  BY <1>5, <1>6, <1>7, <1>8

LEMMA TextInit == NotifierInit => TextInv
<1> SUFFICES ASSUME NotifierInit PROVE TextInv
  OBVIOUS
<1>1. Inv /\ BotInv
  BY InitInv, BotInitInv DEF NotifierInit
<1>2. /\ Unfinished = <<>> /\ Len(Unfinished) = 0 /\ Len(channel) = 0
      /\ consumer = "waiting" /\ ~crawled /\ DOMAIN cache = {}
      /\ newest \in [Ids -> Nat]
  BY DEF NotifierInit, BotInit, Init, Unfinished
<1> QED
  BY <1>1, <1>2 DEF TextInv, TextsRise, MessagesBehind, RequestBehind, CycleInStep

\* A comparison of the pipeline is one of Crawling, and touches bots by Refresh.
LEMMA PipelineCompare ==
  ASSUME Inv, BotInv, NEW page \in Pages, Compare(page)
  PROVE  /\ Next /\ Inv' /\ BotInv'
         /\ UNCHANGED <<consumer, request, channel, faults>>
         /\ \/ UNCHANGED botVars
            \/ \E kept \in SUBSET Ids :
                 /\ \A p \in kept : page[p] \in Texts
                 /\ Refresh(Below(Ids, page), kept, page)
<1>1. Crawl(page) /\ Next
  BY DEF Compare, Next
<1>2. Inv'
  BY <1>1, NextInv
<1>3. /\ Staying(page) \in SUBSET Ids
      /\ \A p \in Staying(page) : page[p] \in Texts
  <2>1. page \in Collection /\ DOMAIN page \in SUBSET Ids
    BY CollectionDomain
  <2> QED
    BY <2>1, PostsAreIds DEF Collection, Staying
<1>4. CASE UNCHANGED botVars
  <2>1. BotInv'
    BY <1>4, BotStep
  <2> QED
    BY <1>1, <1>2, <1>4, <2>1 DEF botVars
<1>5. CASE Refresh(Below(Ids, page), Staying(page), page)
  <2>1. BotInv'
    BY <1>3, <1>5, RefreshKeeps
  <2> QED
    BY <1>1, <1>2, <1>3, <1>5, <2>1 DEF Refresh
<1> QED
  BY <1>4, <1>5 DEF Compare

\* The diff and the bot keep their own invariants when they work together.
LEMMA PartsStep ==
  ASSUME Inv, BotInv, [NotifierNext]_notifierVars
  PROVE  Inv' /\ BotInv'
<1>1. ASSUME NEW page \in Pages, Compare(page) PROVE Inv' /\ BotInv'
  BY <1>1, PipelineCompare
<1>2. CASE Dispatch
  <2>1. Inv'
    BY <1>2, NextInv DEF Dispatch
  <2>2. BotInv'
    BY <1>2, DispatchStep, EnqueueKeeps DEF Consignment
  <2> QED
    BY <2>1, <2>2
<1>3. CASE Consumer
  BY <1>3, NextInv, WorkKeeps DEF Consumer
<1>4. CASE Disturbance
  BY <1>4, NextInv, TroubleKeeps DEF Disturbance
<1>5. CASE UNCHANGED notifierVars
  BY <1>5, NextInv, BotStep DEF notifierVars
<1> QED
  BY <1>1, <1>2, <1>3, <1>4, <1>5 DEF NotifierNext

LEMMA TextStep == TextInv /\ [NotifierNext]_notifierVars => TextInv'
<1> SUFFICES ASSUME TextInv, [NotifierNext]_notifierVars PROVE TextInv'
  OBVIOUS
<1>1. Inv' /\ BotInv'
  BY PartsStep DEF TextInv
<1>2. ASSUME NEW page \in Pages, Compare(page) PROVE TextInv'
  BY <1>1, <1>2, TextsCompare, NewestOfPage DEF TextInv
<1>3. CASE Dispatch
  <2>1. newest' = newest
    BY <1>3 DEF Dispatch
  <2> QED
    BY <1>1, <1>3, <2>1, TextsDispatch DEF TextInv
<1>4. CASE Consumer \/ Disturbance
  <2>1. (Work \/ Trouble) /\ UNCHANGED <<vars, cycle>> /\ newest' = newest
    BY <1>4 DEF Consumer, Disturbance, cycle
  <2> QED
    BY <1>1, <2>1, TextsConsumer DEF TextInv
<1>5. CASE UNCHANGED notifierVars
  <2>1. UNCHANGED <<vars, botVars, cycle>>
    BY <1>5 DEF notifierVars
  <2>2. UNCHANGED <<Unfinished, Current, newest, channel, consumer, request, crawled, cache>>
    BY <2>1 DEF vars, botVars, cycle, Unfinished, Current
  <2> QED
    BY <1>1, <2>2 DEF TextInv, TextsRise, MessagesBehind, RequestBehind, CycleInStep, Shows
<1> QED
  BY <1>2, <1>3, <1>4, <1>5 DEF NotifierNext

-----------------------------------------------------------------------------
(* Theorems about the pipeline. *)

LEMMA TextsInStep == NotifierSpec => []TextInv
  BY TextInit, TextStep, PTL DEF NotifierSpec

\* Also with the jobs and the expiries that crawling brings about, the consumer
\* only changes messages of the post its job is about.
THEOREM PipelineTouchesOwnMessage == NotifierSpec => []OwnMessage
<1>1. TextInv => OwnMessage
  BY DEF TextInv, BotInv
<1> QED
  BY TextsInStep, <1>1, PTL

\* A step of the pipeline takes the first job off, adds jobs behind, or neither.
LEMMA PipelineQueueStep ==
  ASSUME Inv, BotInv, [NotifierNext]_notifierVars
  PROVE  Promise!Next \/ Names(Unfinished)' = Names(Unfinished)
<1>1. BotInv'
  BY PartsStep
<1>2. ASSUME NEW page \in Pages, Compare(page)
      PROVE  Promise!Next \/ Names(Unfinished)' = Names(Unfinished)
  <2>1. CASE UNCHANGED botVars
    BY <2>1, BotQueueStep
  <2>2. ASSUME NEW kept \in SUBSET Ids, \A p \in kept : page[p] \in Texts,
               Refresh(Below(Ids, page), kept, page)
        PROVE  Promise!Next \/ Names(Unfinished)' = Names(Unfinished)
    <3>1. Unfinished' = Refreshed(Unfinished, kept, page)
      BY <2>2, RefreshStep
    <3>2. Names(Unfinished') = Names(Unfinished)
      BY <2>2, <3>1, NamesOfRefreshed, UnfinishedParts DEF BotInv, OwnMessage
    <3> QED
      BY <1>1, <3>2, QueueStep
  <2> QED
    BY <1>2, <2>1, <2>2, PipelineCompare
<1>3. CASE Dispatch
  <2>1. PICK jobs \in Seq(Job) : /\ Unfinished' = Unfinished \o jobs
                                 /\ Unfinished \in Seq(Job)
    BY <1>3, DispatchStep DEF Consignment
  <2>2. CASE jobs = <<>>
    <3>1. Unfinished' = Unfinished
      BY <2>1, <2>2
    <3> QED
      BY <1>1, <3>1, QueueStep
  <2>3. CASE jobs # <<>>
    BY <1>1, <2>1, <2>3, QueueStep
  <2> QED
    BY <2>2, <2>3
<1>4. CASE Consumer \/ Disturbance
  BY <1>4, BotQueueStep DEF Consumer, Disturbance, BotNext
<1>5. CASE UNCHANGED notifierVars
  BY <1>5, BotQueueStep DEF notifierVars
<1> QED
  BY <1>2, <1>3, <1>4, <1>5 DEF NotifierNext

\* The jobs of every cycle are finished one at a time and in the order of the
\* cycles, although the articles they refer to are refreshed meanwhile.
THEOREM PipelineKeepsOrder == NotifierSpec => Promise!Safety
<1> DEFINE N == Names(Unfinished)
<1>1. NotifierInit => Promise!Init
  BY NoNames DEF NotifierInit
<1>2. TextInv /\ [NotifierNext]_notifierVars => [Promise!Next]_N
  BY PipelineQueueStep DEF TextInv
<1>3. NotifierSpec => [][Promise!Next]_N
  <2> HIDE DEF N
  <2> QED
    BY TextsInStep, <1>2, PTL DEF NotifierSpec
<1>4. NotifierSpec => Promise!Init
  BY <1>1 DEF NotifierSpec
<1> QED
  BY <1>3, <1>4, PTL DEF Promise!Safety, Names

\* No message ever goes back to an older text of its post, whatever is queued,
\* retried, repeated or shares a dict with the cache (BotManager._crawling's
\* article.update, TelegramBot._edit).
THEOREM NeverBackToOlderText == NotifierSpec => NoRegress
<1> DEFINE Step == \A m \in DOMAIN channel : channel'[m].text >= channel[m].text
<1>1. ASSUME TextInv, [NotifierNext]_notifierVars PROVE Step
  <2>1. /\ DOMAIN channel = 1 .. Len(channel)
        /\ \A m \in 1 .. Len(channel) : channel[m].text \in Nat
    <3>1. channel \in Seq(Message)
      BY <1>1 DEF TextInv, BotInv, OwnMessage, BotTypeOK
    <3> QED
      BY <1>1, <3>1, TextsAreNumbers
  <2>2. CASE UNCHANGED channel
    <3>1. \A m \in 1 .. Len(channel) : channel[m].text >= channel[m].text
      <4>1. \A t \in Nat : t >= t
        OBVIOUS
      <4> QED
        BY <2>1, <4>1
    <3> QED
      BY <2>1, <2>2, <3>1
  <2>3. CASE Work \/ Trouble
    <3> SUFFICES ASSUME NEW m \in 1 .. Len(channel)
                 PROVE  channel'[m].text >= channel[m].text
      BY <2>1
    <3> DEFINE a == channel[m].text
               b == channel'[m].text
    <3>1. a \in Nat
      BY <2>1
    <3>2. b = a \/ (b = request.text /\ b \in Nat /\ a <= b)
      <4>1. CASE channel'[m].text = channel[m].text
        BY <4>1
      <4>2. CASE MessageActed(m)
        <5>1. m # Len(channel) + 1
          <6> DEFINE n == Len(channel)
          <6>1. n \in Nat
            BY <1>1, TextsAreNumbers
          <6> HIDE DEF n
          <6> QED
            BY <6>1 DEF n
        <5>2. /\ Current.op = "edit" /\ channel[m].post = Current.post
              /\ consumer = "calling" /\ b = request.text
          BY <4>2, <5>1 DEF MessageActed
        <5> QED
          BY <1>1, <5>2, TextsAreNumbers DEF TextInv, RequestBehind, Shows
      <4> QED
        BY <1>1, <2>3, <4>1, <4>2, ChannelStep DEF TextInv
    <3> HIDE DEF a, b
    <3>3. b >= a
      BY <3>1, <3>2
    <3> QED
      BY <3>3 DEF a, b
  <2>4. ASSUME NEW page \in Pages, Compare(page) PROVE UNCHANGED channel
    BY <1>1, <2>4, PipelineCompare DEF TextInv
  <2> QED
    BY <1>1, <2>2, <2>3, <2>4
    DEF NotifierNext, Dispatch, Enqueue, Consumer, Disturbance, notifierVars, botVars
<1>2. TextInv /\ [NotifierNext]_notifierVars => [Step]_notifierVars
  BY <1>1
<1> HIDE DEF Step
<1>3. NotifierSpec => [][Step]_notifierVars
  BY TextsInStep, <1>2, PTL DEF NotifierSpec
<1> QED
  BY <1>3 DEF NoRegress, Step

-----------------------------------------------------------------------------
(* The inductive invariant of the pipeline: cards. *)

SendOf(p, k) == Unfinished[k].op = "send" /\ Unfinished[k].post = p

\* What is sent, failed or repeated was announced.
AnnouncedOnly ==
  /\ news \subseteq announced
  /\ \A m \in 1 .. Len(channel) : channel[m].post \in announced
  /\ \A k \in 1 .. Len(Unfinished) :
       Unfinished[k].op = "send" => Unfinished[k].post \in announced

\* A post has one message or one job to send it, and both only while Telegram
\* has acted on the job and the answer is under way; what the last comparison
\* found and send() has not put yet has neither.
OneCard(p) ==
  /\ \A l, m \in 1 .. Len(channel) :
       channel[l].post = p /\ channel[m].post = p => l = m
  /\ \A k, l \in 1 .. Len(Unfinished) : SendOf(p, k) /\ SendOf(p, l) => k = l
  /\ \A k \in 1 .. Len(Unfinished), m \in 1 .. Len(channel) :
       SendOf(p, k) /\ channel[m].post = p => k = 1 /\ consumer = "answering"
  /\ crawled /\ p \in news =>
       /\ \A m \in 1 .. Len(channel) : channel[m].post # p
       /\ \A k \in 1 .. Len(Unfinished) : ~SendOf(p, k)

CardInv ==
  /\ Inv /\ BotInv /\ NotifierTypeOK /\ AnnouncedOnly
  /\ \A p \in Ids \ (repeated \cup evicted) : OneCard(p)

\* Jobs and messages, one by one.
LEMMA CardParts ==
  ASSUME CardInv
  PROVE  /\ Unfinished \in Seq(Job) /\ Len(Unfinished) \in Nat
         /\ channel \in Seq(Message) /\ Len(channel) \in Nat
         /\ DOMAIN channel = 1 .. Len(channel)
         /\ \A k \in 1 .. Len(Unfinished) :
              Unfinished[k] \in Job /\ Unfinished[k].post \in Ids
         /\ \A m \in 1 .. Len(channel) : channel[m].post \in Ids
         /\ news \in SUBSET Ids /\ news \subseteq announced /\ announced \subseteq seen
<1>1. Unfinished \in Seq(Job) /\ channel \in Seq(Message)
  BY UnfinishedParts DEF CardInv, BotInv, OwnMessage, BotTypeOK
<1>2. /\ \A k \in 1 .. Len(Unfinished) : Unfinished[k] \in Job
      /\ \A m \in 1 .. Len(channel) : channel[m] \in Message
      /\ Len(Unfinished) \in Nat /\ Len(channel) \in Nat
      /\ DOMAIN channel = 1 .. Len(channel)
  BY <1>1
<1>3. (\A j \in Job : j.post \in Ids) /\ (\A c \in Message : c.post \in Ids)
  BY PostsAreIds DEF Job, Message
<1>4. news \in SUBSET Ids
  BY CollectionDomain DEF CardInv, Inv, TypeOK
<1> QED
  BY <1>1, <1>2, <1>3, <1>4 DEF CardInv, AnnouncedOnly, NotifierTypeOK

LEMMA CardInit == NotifierInit => CardInv
<1> SUFFICES ASSUME NotifierInit PROVE CardInv
  OBVIOUS
<1>1. Inv /\ BotInv
  BY InitInv, BotInitInv DEF NotifierInit
<1>2. /\ Unfinished = <<>> /\ Len(Unfinished) = 0 /\ Len(channel) = 0
      /\ ~crawled /\ news = {}
  BY DEF NotifierInit, BotInit, Init, Unfinished
<1>3. cycles \in 0 .. MaxCycles /\ newest \in [Ids -> Nat]
  BY MaxCyclesAssumption DEF NotifierInit
<1>4. NotifierTypeOK
  BY <1>1, <1>3 DEF NotifierInit, NotifierTypeOK, Inv
<1> QED
  BY <1>1, <1>2, <1>4 DEF CardInv, AnnouncedOnly, OneCard

\* Once Telegram has acted, the job is over or, when the consumer is stopped,
\* returned to the queue.
LEMMA AnswerEnds ==
  ASSUME BotInv, consumer = "answering", Work \/ Trouble
  PROVE  \/ Unfinished # <<>> /\ Unfinished' = Tail(Unfinished)
         \/ Stop /\ Unfinished' = Unfinished /\ consumer' = "stopped"
<1>1. PICK j \in Job : job = <<j>>
  BY HeldJob DEF BotInv, OwnMessage
<1>2. Unfinished # <<>> /\ Tail(Unfinished) = queue
  BY <1>1, UnfinishedParts DEF BotInv, OwnMessage
<1>3. CASE Answered \/ TimedOut
  <2>1. job' = <<>> /\ queue' = queue
    BY <1>3 DEF Answered, TimedOut, Finished
  <2>2. queue \in Seq(Job)
    BY DEF BotInv, OwnMessage, BotTypeOK
  <2> QED
    BY <1>2, <2>1, <2>2 DEF Unfinished
<1>4. CASE Stop
  <2>1. /\ queue' = job \o queue /\ job' = <<>> /\ consumer' = "stopped"
        /\ job \in Seq(Job) /\ queue \in Seq(Job)
    BY <1>4 DEF Stop, BotInv, OwnMessage, BotTypeOK
  <2>2. <<>> \o (job \o queue) = job \o queue
    BY <2>1
  <2> QED
    BY <1>4, <2>1, <2>2 DEF Unfinished
<1>5. CASE PhotoRejected \/ Rejected \/ RetryAfter \/ RetryAfterDelete
  BY <1>5 DEF PhotoRejected, Rejected, RetryAfter, RetryAfterDelete
<1> QED
  BY <1>3, <1>4, <1>5
  DEF Work, Trouble, Take, Publish, Rewrite, TakeDown, Acting, Refused, Retry, Resume

\* Where the jobs of the next state were.
LEMMA JobsLeft ==
  ASSUME CardInv, Work \/ Trouble
  PROVE  /\ Len(Unfinished') \in Nat
         /\ \/ \A k \in 1 .. Len(Unfinished') :
                 k \in 1 .. Len(Unfinished) /\ Unfinished'[k] = Unfinished[k]
            \/ /\ Unfinished # <<>> /\ Unfinished' = Tail(Unfinished)
               /\ \A k \in 1 .. Len(Unfinished') :
                    /\ k + 1 \in 1 .. Len(Unfinished) /\ k + 1 # 1
                    /\ Unfinished'[k] = Unfinished[k + 1]
<1> DEFINE U == Unfinished
           n == Len(Unfinished)
<1>1. U \in Seq(Job) /\ n \in Nat
  BY CardParts
<1>2. CASE U' = U
  BY <1>1, <1>2
<1>3. CASE U # <<>> /\ U' = Tail(U)
  <2>1. /\ n \in Nat \ {0} /\ Len(U') = n - 1
        /\ \A k \in 1 .. n - 1 : U'[k] = U[k + 1]
    BY <1>1, <1>3, HeadTailProperties, EmptySeq
  <2>2. \A k \in 1 .. n - 1 : k + 1 \in 1 .. n /\ k + 1 # 1
    <3> HIDE DEF n
    <3> QED
      BY <2>1
  <2>3. n - 1 \in Nat
    <3> HIDE DEF n
    <3> QED
      BY <2>1
  <2> QED
    BY <1>3, <2>1, <2>2, <2>3
<1> QED
  BY <1>2, <1>3, ConsumerStep DEF CardInv

\* The consumer gives a post no second message.
LEMMA CardConsumer ==
  ASSUME CardInv, Work \/ Trouble, UNCHANGED <<vars, cycle>>,
         NEW p \in Ids, OneCard(p),
         Stop /\ consumer = "answering" /\ Current.op = "send" => Current.post # p
  PROVE  OneCard(p)'
<1> DEFINE U == Unfinished
           n == Len(Unfinished)
           c == Len(channel)
<1>1. /\ U \in Seq(Job) /\ n \in Nat /\ c \in Nat
      /\ UNCHANGED <<crawled, news>>
  BY CardParts DEF vars, cycle, results
<1> BotInv
  BY DEF CardInv
<1>2. ASSUME NEW k \in 1 .. Len(U')
      PROVE  \E i \in 1 .. n : U'[k] = U[i]
  BY <1>2, JobsLeft
<1>3. ASSUME NEW k \in 1 .. Len(U'), NEW l \in 1 .. Len(U'), SendOf(p, k)', SendOf(p, l)'
      PROVE  k = l
  <2>1. CASE \A i \in 1 .. Len(U') : i \in 1 .. n /\ U'[i] = U[i]
    BY <1>3, <2>1 DEF OneCard, SendOf
  <2>2. CASE \A i \in 1 .. Len(U') : i + 1 \in 1 .. n /\ U'[i] = U[i + 1]
    <3>1. k + 1 = l + 1
      BY <1>3, <2>2 DEF OneCard, SendOf
    <3> HIDE DEF U
    <3> QED
      BY <3>1
  <2> QED
    BY <2>1, <2>2, JobsLeft
<1>4. ASSUME NEW m \in 1 .. Len(channel'), MessageActed(m), channel'[m].post = p
      PROVE  \/ m \in 1 .. c /\ channel[m].post = p
             \/ /\ m = c + 1 /\ 1 \in 1 .. n /\ SendOf(p, 1) /\ consumer = "calling"
                /\ consumer' = "answering" /\ U' = U
  BY <1>4, CurrentIsFirst DEF MessageActed, SendOf, Unfinished
<1>5. ASSUME SendOf(p, 1), 1 \in 1 .. n, consumer = "calling", NEW m \in 1 .. c
      PROVE  channel[m].post # p
  BY <1>5 DEF OneCard
<1>6. ASSUME NEW m \in 1 .. Len(channel'), channel'[m].post = p
      PROVE  \/ m \in 1 .. c /\ channel[m].post = p
             \/ /\ m = c + 1 /\ 1 \in 1 .. n /\ SendOf(p, 1) /\ consumer = "calling"
                /\ consumer' = "answering" /\ U' = U
  BY <1>4, <1>6, ChannelStep
<1>7. ASSUME NEW l \in 1 .. Len(channel'), NEW m \in 1 .. Len(channel'),
             channel'[l].post = p, channel'[m].post = p
      PROVE  l = m
  BY <1>5, <1>6, <1>7 DEF OneCard
<1>8. ASSUME NEW k \in 1 .. Len(U'), NEW m \in 1 .. Len(channel'),
             SendOf(p, k)', channel'[m].post = p
      PROVE  k = 1 /\ consumer' = "answering"
  <2>1. CASE m \in 1 .. c /\ channel[m].post = p
    <3>1. PICK i \in 1 .. n : U'[k] = U[i]
      BY <1>2
    <3>2. SendOf(p, i)
      BY <1>8, <3>1 DEF SendOf
    <3>3. i = 1 /\ consumer = "answering" /\ 1 \in 1 .. n /\ SendOf(p, 1)
      BY <2>1, <3>1, <3>2 DEF OneCard
    <3>4. Current.op = "send" /\ Current.post = p
      BY <3>3, CurrentIsFirst DEF SendOf
    <3>5. U # <<>> /\ U' = Tail(U)
      BY <3>3, <3>4, AnswerEnds
    <3>6. k + 1 \in 1 .. n /\ k + 1 # 1 /\ U'[k] = U[k + 1]
      <4>1. /\ n \in Nat \ {0} /\ Len(U') = n - 1
            /\ \A j \in 1 .. n - 1 : U'[j] = U[j + 1]
        BY <1>1, <3>5, HeadTailProperties, EmptySeq
      <4>2. \A j \in 1 .. n - 1 : j + 1 \in 1 .. n /\ j + 1 # 1
        <5> HIDE DEF n
        <5> QED
          BY <4>1
      <4> QED
        BY <4>1, <4>2
    <3> QED
      BY <1>8, <3>3, <3>6 DEF OneCard, SendOf
  <2>2. CASE /\ 1 \in 1 .. n /\ SendOf(p, 1) /\ consumer = "calling"
             /\ consumer' = "answering" /\ U' = U
    BY <1>8, <2>2 DEF OneCard, SendOf
  <2> QED
    BY <1>6, <1>8, <2>1, <2>2
<1>9. ASSUME crawled, p \in news
      PROVE  /\ \A m \in 1 .. Len(channel') : channel'[m].post # p
             /\ \A k \in 1 .. Len(U') : ~SendOf(p, k)'
  <2>1. \A k \in 1 .. n : ~SendOf(p, k)
    BY <1>9 DEF OneCard
  <2>2. \A k \in 1 .. Len(U') : ~SendOf(p, k)'
    BY <1>2, <2>1 DEF SendOf
  <2> QED
    BY <1>6, <1>9, <2>1, <2>2 DEF OneCard
<1> QED
  BY <1>1, <1>3, <1>7, <1>8, <1>9 DEF OneCard

\* What failed or is repeated was announced: a request needs a message, and a
\* message or a send an announcement.
LEMMA CurrentAnnounced ==
  ASSUME CardInv, job # <<>>,
         consumer \in {"calling", "answering"} \/ Current.op = "send"
  PROVE  Current.post \in announced
<1>1. Current = Unfinished[1] /\ 1 \in 1 .. Len(Unfinished)
  BY CurrentIsFirst DEF CardInv, BotInv, OwnMessage, BotTypeOK
<1>2. CASE Current.op = "send"
  BY <1>1, <1>2 DEF CardInv, AnnouncedOnly
<1>3. CASE consumer \in {"calling", "answering"} /\ Current.op # "send"
  <2> DEFINE m == request.message
             n == Len(channel)
  <2>1. m # 0 /\ m \in 0 .. n /\ n \in Nat /\ channel[m].post = Current.post
    BY <1>3, CardParts DEF CardInv, BotInv, RequestMade, OwnMessage, BotTypeOK
  <2>2. m \in 1 .. n
    <3> HIDE DEF m, n
    <3> QED
      BY <2>1
  <2> QED
    BY <2>1, <2>2 DEF CardInv, AnnouncedOnly
<1> QED
  BY <1>2, <1>3

LEMMA AnnouncedConsumer ==
  ASSUME CardInv, Work \/ Trouble, UNCHANGED <<vars, cycle>>
  PROVE  AnnouncedOnly'
<1>1. news' = news /\ announced' = announced /\ BotInv
  BY DEF vars, cycle, results, CardInv
<1>2. ASSUME NEW m \in 1 .. Len(channel') PROVE channel'[m].post \in announced
  <2>1. CASE MessageActed(m)
    <3>1. job # <<>> /\ consumer = "calling" /\ channel'[m].post = Current.post
      BY <1>1, <2>1, CurrentIsFirst DEF MessageActed
    <3> QED
      BY <3>1, CurrentAnnounced
  <2> QED
    BY <1>1, <2>1, ChannelStep DEF CardInv, AnnouncedOnly
<1>3. ASSUME NEW k \in 1 .. Len(Unfinished'), Unfinished'[k].op = "send"
      PROVE  Unfinished'[k].post \in announced
  BY <1>3, JobsLeft DEF CardInv, AnnouncedOnly
<1> QED
  BY <1>1, <1>2, <1>3 DEF CardInv, AnnouncedOnly

LEMMA CardStepConsumer ==
  ASSUME CardInv, Consumer \/ Disturbance
  PROVE  CardInv'
<1>1. /\ Work \/ Trouble
      /\ UNCHANGED <<vars, cycle>> /\ UNCHANGED <<evicted, announced>>
  BY DEF Consumer, Disturbance, vars, cycle, history
<1>2. Inv' /\ BotInv'
  <2>1. [NotifierNext]_notifierVars
    BY DEF NotifierNext
  <2> QED
    BY <2>1, PartsStep DEF CardInv
<1>3. AnnouncedOnly'
  BY <1>1, AnnouncedConsumer
<1>4. /\ lost' \subseteq announced /\ repeated' \subseteq announced
      /\ repeated \subseteq repeated'
      /\ Stop /\ consumer = "answering" /\ Current.op = "send" => Current.post \in repeated'
  <2>1. lost \subseteq announced /\ repeated \subseteq announced
    BY DEF CardInv, NotifierTypeOK
  <2>2. CASE Consumer
    <3>1. Stop => consumer # "answering"
      BY <2>2 DEF Consumer, Stop, Work, Take, Publish, Rewrite, TakeDown, Acting, Answered,
                  Refused, Retry, Resume, Finished
    <3> QED
      BY <2>1, <2>2, <3>1 DEF Consumer, troubles
  <2>3. CASE Disturbance
    <3>1. CASE job = <<>>
      <4>1. ToSet(job) = {}
        BY <3>1 DEF ToSet
      <4>2. consumer # "answering"
        BY <3>1, CurrentIsFirst DEF CardInv
      <4> QED
        BY <2>1, <2>3, <4>1, <4>2 DEF Disturbance
    <3>2. ASSUME NEW j \in Job, job = <<j>>
          PROVE  /\ lost' \subseteq announced /\ repeated' \subseteq announced
                 /\ repeated \subseteq repeated'
                 /\ Stop /\ consumer = "answering" /\ Current.op = "send"
                      => Current.post \in repeated'
      <4>1. ToSet(job) = {j} /\ Current = j /\ job # <<>>
        BY <3>2 DEF ToSet, Current
      <4>2. consumer' = "waiting" => consumer \in {"calling", "answering"}
        BY <2>3, <4>1, HeldJob
        DEF Disturbance, Trouble, RetryAfter, RetryAfterDelete, TimedOut, PhotoRejected,
            Rejected, Stop, Finished
      <4>3. consumer' = "waiting" => j.post \in announced
        BY <4>1, <4>2, CurrentAnnounced
      <4>4. j.op = "send" => j.post \in announced
        BY <4>1, CurrentAnnounced
      <4>5. /\ lost' = lost \cup {i.post : i \in IF consumer' = "waiting" THEN {j} ELSE {}}
            /\ repeated' = repeated \cup
                 {i.post : i \in {h \in {j} : h.op = "send" /\ consumer = "answering"
                                              /\ consumer' = "stopped"}}
        BY <2>3, <4>1 DEF Disturbance
      <4>6. lost' \subseteq announced /\ repeated' \subseteq announced
        BY <2>1, <4>3, <4>4, <4>5
      <4> QED
        BY <4>1, <4>5, <4>6 DEF Stop
    <3> QED
      BY <3>1, <3>2, HeldJob DEF CardInv, BotInv, OwnMessage
  <2> QED
    BY <2>2, <2>3
<1>5. NotifierTypeOK'
  <2>1. /\ TypeOK' /\ UNCHANGED <<cycles, crawled, newest, announced, seen>>
    BY <1>1, <1>2 DEF Inv, cycle, vars, history
  <2> QED
    BY <1>4, <2>1 DEF CardInv, NotifierTypeOK
<1>6. ASSUME NEW p \in Ids \ (repeated' \cup evicted') PROVE OneCard(p)'
  <2>1. OneCard(p)
    BY <1>1, <1>4 DEF CardInv
  <2>2. Stop /\ consumer = "answering" /\ Current.op = "send" => Current.post # p
    BY <1>4
  <2> QED
    BY <1>1, <2>1, <2>2, CardConsumer
<1> QED
  BY <1>2, <1>3, <1>5, <1>6 DEF CardInv

\* What send() puts was found by the comparison before it.
LEMMA CardStepDispatch ==
  ASSUME CardInv, Dispatch
  PROVE  CardInv'
<1> DEFINE U == Unfinished
           n == Len(Unfinished)
<1>1. PICK jobs :
        /\ Consignment(jobs) /\ Enqueue(jobs)
        /\ n \in Nat /\ Len(jobs) \in Nat
        /\ \A k \in 1 .. Len(U') :
             \/ k \in 1 .. n /\ U'[k] = U[k]
             \/ k - n \in 1 .. Len(jobs) /\ U'[k] = jobs[k - n]
  BY DispatchStep DEF CardInv
<1>2. /\ UNCHANGED <<vars, channel, announced, lost, repeated, cycles, newest>>
      /\ UNCHANGED <<news, evicted, seen>>
      /\ crawled /\ crawled' = FALSE
      /\ consumer = "answering" => consumer' = "answering"
  BY <1>1 DEF Dispatch, Enqueue, CheckConsumer, vars, results, history, troubles
<1>3. Inv' /\ BotInv'
  <2>1. [NotifierNext]_notifierVars
    BY DEF NotifierNext
  <2> QED
    BY <2>1, PartsStep DEF CardInv
<1>4. \A k \in 1 .. Len(jobs) : jobs[k].op = "send" => jobs[k].post \in news
  BY <1>1 DEF Consignment
<1>5. AnnouncedOnly'
  BY <1>1, <1>2, <1>4 DEF CardInv, AnnouncedOnly
<1>6. NotifierTypeOK'
  <2>1. TypeOK' /\ crawled' \in BOOLEAN
    BY <1>2, <1>3 DEF Inv
  <2> QED
    BY <1>2, <2>1 DEF CardInv, NotifierTypeOK
<1>7. ASSUME NEW p \in Ids \ (repeated \cup evicted)
      PROVE  OneCard(p)'
  <2>1. OneCard(p)
    BY <1>7 DEF CardInv
  <2>2. ASSUME NEW k \in 1 .. Len(U'), SendOf(p, k)'
        PROVE  \/ k \in 1 .. n /\ SendOf(p, k)
               \/ k - n \in 1 .. Len(jobs) /\ p \in news
                  /\ jobs[k - n].post = p /\ Shows(jobs[k - n])
    BY <1>1, <1>4, <2>2 DEF SendOf, Shows
  <2>3. p \in news => /\ \A m \in 1 .. Len(channel) : channel[m].post # p
                      /\ \A k \in 1 .. n : ~SendOf(p, k)
    BY <1>2, <2>1 DEF OneCard
  <2>4. ASSUME NEW k \in 1 .. Len(U'), NEW l \in 1 .. Len(U'), SendOf(p, k)', SendOf(p, l)'
        PROVE  k = l
    <3>1. CASE p \notin news
      BY <2>1, <2>2, <2>4, <3>1 DEF OneCard
    <3>2. CASE p \in news
      <4>1. k - n = l - n
        <5>1. /\ k - n \in 1 .. Len(jobs) /\ jobs[k - n].post = p /\ Shows(jobs[k - n])
              /\ l - n \in 1 .. Len(jobs) /\ jobs[l - n].post = p /\ Shows(jobs[l - n])
          BY <2>2, <2>3, <2>4, <3>2
        <5>2. \A i, j \in 1 .. Len(jobs) :
                Shows(jobs[i]) /\ Shows(jobs[j]) /\ jobs[i].post = jobs[j].post => i = j
          BY <1>1 DEF Consignment
        <5> HIDE DEF n
        <5> QED
          BY <5>1, <5>2
      <4> HIDE DEF n, U
      <4> QED
        BY <1>1, <4>1
    <3> QED
      BY <3>1, <3>2
  <2>5. ASSUME NEW k \in 1 .. Len(U'), NEW m \in 1 .. Len(channel'),
               SendOf(p, k)', channel'[m].post = p
        PROVE  k = 1 /\ consumer' = "answering"
    BY <1>2, <2>1, <2>2, <2>3, <2>5 DEF OneCard
  <2> QED
    BY <1>2, <2>1, <2>4, <2>5 DEF OneCard
<1> QED
  BY <1>2, <1>3, <1>5, <1>6, <1>7 DEF CardInv

\* A comparison finds as new what was never seen, save the posts it was made to
\* forget; what was never seen has no card.
LEMMA CardStepCompare ==
  ASSUME CardInv, NEW page \in Pages, Compare(page)
  PROVE  CardInv'
<1> DEFINE U == Unfinished
           n == Len(Unfinished)
<1> Inv /\ BotInv
  BY DEF CardInv
<1>1. /\ Inv' /\ BotInv'
      /\ UNCHANGED <<consumer, channel, lost, repeated>>
      /\ announced' = announced \cup news'
      /\ cycles' = cycles + 1 /\ cycles < MaxCycles /\ crawled' = TRUE
      /\ DOMAIN page \cap dropped = {} /\ cache' = page /\ Crawl(page)
  <2>1. cache' = page
    BY DEF Compare, Crawl, FirstPage, NextPage
  <2> QED
    BY <2>1, PipelineCompare DEF Compare, Plausible, troubles
<1>2. /\ Len(U') = n
      /\ \A k \in 1 .. n : U'[k].op = U[k].op /\ U'[k].post = U[k].post
  <2>1. CASE UNCHANGED botVars
    BY <2>1 DEF botVars, Unfinished
  <2>2. ASSUME NEW kept \in SUBSET Ids, \A p \in kept : page[p] \in Texts,
               Refresh(Below(Ids, page), kept, page)
        PROVE  /\ Len(U') = n
               /\ \A k \in 1 .. n : U'[k].op = U[k].op /\ U'[k].post = U[k].post
    <3>1. U' = Refreshed(U, kept, page)
      BY <2>2, RefreshStep
    <3> QED
      BY <2>2, <3>1, RefreshedJobs, CardParts
  <2> QED
    BY <2>1, <2>2, PipelineCompare
<1>3. /\ news' \cap seen \subseteq dropped \cup evicted'
      /\ news' \subseteq DOMAIN page /\ news' \cap dropped = {}
      /\ seen \subseteq seen' /\ evicted \subseteq evicted' /\ news' \subseteq seen'
  <2>1. news' \cap seen \subseteq dropped \cup evicted'
    BY <1>1, CrawlNeverTwice
  <2>2. news' \subseteq DOMAIN page
    BY <1>1 DEF Inv, TypeOK
  <2>3. seen \subseteq seen' /\ evicted \subseteq evicted' /\ DOMAIN page \subseteq seen'
    BY <1>1 DEF Crawl, FirstPage, NextPage, Observe
  <2> QED
    BY <1>1, <2>1, <2>2, <2>3
<1>4. AnnouncedOnly'
  BY <1>1, <1>2 DEF CardInv, AnnouncedOnly
<1>5. NotifierTypeOK'
  <2>1. cycles' \in 0 .. MaxCycles
    BY <1>1, MaxCyclesAssumption DEF CardInv, NotifierTypeOK
  <2>2. newest' \in [Ids -> Nat]
    <3>1. /\ newest' = [i \in Ids |-> IF i \in DOMAIN page THEN page[i] ELSE newest[i]]
          /\ newest \in [Ids -> Nat]
      BY DEF Compare, CardInv, NotifierTypeOK
    <3>2. \A i \in DOMAIN page : page[i] \in Nat
      <4>1. page \in Collection
        BY CollectionDomain
      <4> QED
        BY <4>1, PostsAreIds, TextsAssumption DEF Collection
    <3> QED
      BY <3>1, <3>2
  <2>3. /\ announced' \subseteq seen' /\ lost' \subseteq announced'
        /\ repeated' \subseteq announced'
    BY <1>1, <1>3 DEF CardInv, NotifierTypeOK
  <2> QED
    BY <1>1, <2>1, <2>2, <2>3 DEF NotifierTypeOK, Inv
<1>6. ASSUME NEW p \in Ids \ (repeated' \cup evicted') PROVE OneCard(p)'
  <2>1. OneCard(p) /\ (p \in news' => p \notin announced)
    BY <1>1, <1>3 DEF CardInv, NotifierTypeOK
  <2>2. \A k \in 1 .. n : SendOf(p, k)' <=> SendOf(p, k)
    BY <1>2 DEF SendOf
  <2>3. p \in news' => /\ \A m \in 1 .. Len(channel) : channel[m].post # p
                       /\ \A k \in 1 .. n : ~SendOf(p, k)
    BY <2>1 DEF CardInv, AnnouncedOnly, SendOf
  <2> QED
    BY <1>1, <1>2, <2>1, <2>2, <2>3 DEF OneCard
<1> QED
  BY <1>1, <1>4, <1>5, <1>6 DEF CardInv

LEMMA CardStep == CardInv /\ [NotifierNext]_notifierVars => CardInv'
<1> SUFFICES ASSUME CardInv, [NotifierNext]_notifierVars PROVE CardInv'
  OBVIOUS
<1>1. CASE UNCHANGED notifierVars
  <2>1. Inv' /\ BotInv'
    BY <1>1, PartsStep DEF CardInv
  <2>2. UNCHANGED <<Unfinished, news, announced, channel, consumer, crawled, repeated, evicted>>
    BY <1>1
    DEF notifierVars, vars, botVars, cycle, troubles, results, history, Unfinished
  <2>3. NotifierTypeOK'
    BY <1>1, <2>1 DEF CardInv, NotifierTypeOK, Inv, notifierVars, vars, cycle, troubles, history
  <2> QED
    BY <2>1, <2>2, <2>3 DEF CardInv, AnnouncedOnly, OneCard, SendOf
<1> QED
  BY <1>1, CardStepCompare, CardStepDispatch, CardStepConsumer DEF NotifierNext

\* A post never has two messages in the channel: whatever fails, is retried,
\* dropped or put back by a stop.  The two ways there are to a second one are in
\* AtMostOneCard itself: a send stopped once Telegram had acted on it, and the limit
\* of the tombstones.
THEOREM OneCardForAPost == NotifierSpec => []AtMostOneCard
<1>1. ASSUME CardInv PROVE AtMostOneCard
  <2>1. ASSUME NEW p \in Ids \ (repeated \cup evicted)
        PROVE  Cardinality(Cards(p)) <= 1
    <3>1. \A l, m \in Cards(p) : l = m
      BY <1>1, <2>1, CardParts DEF CardInv, OneCard, Cards
    <3>2. CASE Cards(p) = {}
      <4>1. Cardinality(Cards(p)) = 0
        BY <3>2, FS_EmptySet
      <4> QED
        BY <4>1
    <3>3. CASE Cards(p) # {}
      <4>1. PICK m : Cards(p) = {m}
        BY <3>1, <3>3
      <4>2. Cardinality(Cards(p)) = 1
        BY <4>1, FS_Singleton
      <4> QED
        BY <4>2
    <3> QED
      BY <3>2, <3>3
  <2> QED
    BY <1>1, <2>1 DEF CardInv, AtMostOneCard
<1>2. NotifierSpec => []CardInv
  BY CardInit, CardStep, PTL DEF NotifierSpec
<1> QED
  BY <1>1, <1>2, PTL
=============================================================================
