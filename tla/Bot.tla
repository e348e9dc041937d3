--------------------------------- MODULE Bot --------------------------------
(***************************************************************************)
(* A TelegramBot: the queue of send, edit and delete jobs, the consumer    *)
(* task that carries them out one at a time, and the table of the messages *)
(* sent so far.  A job's request to Telegram has two steps: Telegram acts  *)
(* on it, then the answer reaches the consumer; the task can be cancelled, *)
(* and the request can fail, before and in between.                        *)
(*                                                                         *)
(* A job refers to an article dict of the manager's cache, which the next  *)
(* crawling cycle changes in place: `live` says the job still refers to    *)
(* the cached dict (Refresh).                                              *)
(***************************************************************************)
EXTENDS Naturals, Sequences

CONSTANTS Posts,        \* article ids of one crawler
          Texts,        \* contents a message can show
          Pictured,     \* posts with extra.image_url, sent as a photo
          Faults,       \* what may go wrong, see below
          MaxFaults     \* bound on the number of times it does

ASSUME PostsAssumption == Posts \subseteq Nat
ASSUME TextsAssumption == Texts \subseteq Nat
ASSUME PicturedAssumption == Pictured \subseteq Posts
ASSUME FaultsAssumption ==
  Faults \subseteq
    {"retry",         \* RetryAfter to a send or an edit
     "retryDelete",   \* RetryAfter to a delete
     "timeout",       \* TimedOut, whether or not Telegram acted
     "reject",        \* BadRequest and the other Telegram errors
     "picture",       \* BadRequest for the photo of a send
     "cancel",        \* the consumer is stopped before Telegram acted
     "cancelLate"}    \* the consumer is stopped before the answer arrived
ASSUME MaxFaultsAssumption == MaxFaults \in Nat

VARIABLES
  queue,      \* self.queue, jobs that wait
  consumer,   \* where the consumer task is
  job,        \* `item` of the consumer: <<>> or one job
  request,    \* what the request under way asks for
  msgs,       \* self.cache[crawler]: post -> message, 0 for none
  channel,    \* Telegram's channel: every message ever sent
  faults      \* how many faults there have been

botVars == <<queue, consumer, job, request, msgs, channel, faults>>

Ops == {"send", "edit", "delete"}
Job == [op : Ops, post : Posts, text : Texts, live : BOOLEAN]
Message == [post : Posts, text : Texts, up : BOOLEAN]

\* "waiting" in queue.get(), "calling" Telegram, "answering" once Telegram has
\* acted, "sleeping" for RetryAfter, "stopped" when the task is done.
ConsumerStates == {"waiting", "calling", "answering", "sleeping", "stopped"}

\* The text is formatted and the message looked up when the call starts.
NoRequest == [text |-> 0, message |-> 0, picture |-> FALSE]

Current == job[1]

-----------------------------------------------------------------------------
BotInit ==
  /\ queue = <<>> /\ job = <<>>
  /\ consumer = "waiting"
  /\ request = NoRequest
  /\ msgs = [p \in Posts |-> 0]
  /\ channel = <<>>
  /\ faults = 0

\* Broken: `item = None` is left out.
FinishedKeepingItem == UNCHANGED job /\ request' = NoRequest /\ consumer' = "waiting"

\* queue.task_done(): the consumer goes back to queue.get().
Finished ==
  /\ job' = <<>> /\ request' = NoRequest
  /\ consumer' = "waiting"

\* _edit and _delete give up when get_msg_obj finds no message.
NoTarget(j) == j.op # "send" /\ msgs[j.post] = 0

\* Broken: the last message sent is changed, whatever post the job is about.
BeginWithLast(j) ==
  /\ job' = <<j>>
  /\ request' = [text |-> j.text,
                 message |-> IF j.op = "send" THEN 0 ELSE Len(channel),
                 picture |-> j.op = "send" /\ j.post \in Pictured]
  /\ consumer' = "calling"

Begin(j) ==
  /\ job' = <<j>>
  /\ request' = [text |-> j.text,
                 message |-> IF j.op = "send" THEN 0 ELSE msgs[j.post],
                 picture |-> j.op = "send" /\ j.post \in Pictured]
  /\ consumer' = "calling"

\* The consumer gets the next job and starts on it.
Take ==
  /\ consumer = "waiting" /\ queue # <<>>
  /\ queue' = Tail(queue)
  /\ IF NoTarget(Head(queue)) THEN Finished ELSE Begin(Head(queue))
  /\ UNCHANGED <<msgs, channel, faults>>

\* Telegram acts on the request; it refuses to touch a deleted message.
Acting(op) ==
  /\ consumer = "calling" /\ Current.op = op
  /\ consumer' = "answering"
  /\ UNCHANGED <<queue, job, msgs, faults>>

Publish ==
  /\ Acting("send")
  /\ channel' = Append(channel, [post |-> Current.post,
                                 text |-> request.text, up |-> TRUE])
  /\ request' = [request EXCEPT !.message = Len(channel')]

Rewrite ==
  /\ Acting("edit")
  /\ channel[request.message].up
  /\ channel' = [channel EXCEPT ![request.message].text = request.text]
  /\ UNCHANGED request

TakeDown ==
  /\ Acting("delete")
  /\ channel[request.message].up
  /\ channel' = [channel EXCEPT ![request.message].up = FALSE]
  /\ UNCHANGED request

\* The answer arrives: a send stores its message, a delete keeps the entry.
Answered ==
  /\ consumer = "answering"
  /\ msgs' = IF Current.op = "send"
             THEN [msgs EXCEPT ![Current.post] = request.message] ELSE msgs
  /\ Finished
  /\ UNCHANGED <<queue, channel, faults>>

\* An edit or delete of a message that is gone is answered with BadRequest.
Refused ==
  /\ consumer = "calling" /\ Current.op # "send"
  /\ ~channel[request.message].up
  /\ Finished
  /\ UNCHANGED <<queue, msgs, channel, faults>>

Fault(kind) == kind \in Faults /\ faults < MaxFaults /\ faults' = faults + 1

\* RetryAfter: _send and _edit sleep and start again ...
RetryAfter ==
  /\ consumer = "calling" /\ Current.op # "delete"
  /\ Fault("retry")
  /\ consumer' = "sleeping" /\ request' = NoRequest
  /\ UNCHANGED <<queue, job, msgs, channel>>

Retry ==
  /\ consumer = "sleeping"
  /\ IF NoTarget(Current) THEN Finished ELSE Begin(Current)
  /\ UNCHANGED <<queue, msgs, channel, faults>>

\* ... _delete has no branch for it: it is logged like any TelegramError.
RetryAfterDelete ==
  /\ consumer = "calling" /\ Current.op = "delete"
  /\ Fault("retryDelete")
  /\ Finished
  /\ UNCHANGED <<queue, msgs, channel>>

\* TimedOut, before or after Telegram acted: the job is dropped.
TimedOut ==
  /\ consumer \in {"calling", "answering"}
  /\ Fault("timeout")
  /\ Finished
  /\ UNCHANGED <<queue, msgs, channel>>

\* BadRequest for the photo: the same call sends plain text instead.
PhotoRejected ==
  /\ consumer = "calling" /\ request.picture
  /\ Fault("picture")
  /\ request' = [request EXCEPT !.picture = FALSE]
  /\ UNCHANGED <<queue, consumer, job, msgs, channel>>

\* Any other Telegram error: the job is dropped.
Rejected ==
  /\ consumer = "calling" /\ ~request.picture
  /\ Fault("reject")
  /\ Finished
  /\ UNCHANGED <<queue, msgs, channel>>

\* Broken: the unfinished job goes behind those that wait; or is dropped.
StopRequeueingBehind ==
  /\ consumer # "stopped"
  /\ Fault(IF consumer = "answering" THEN "cancelLate" ELSE "cancel")
  /\ queue' = queue \o job
  /\ job' = <<>> /\ request' = NoRequest
  /\ consumer' = "stopped"
  /\ UNCHANGED <<msgs, channel>>
StopDropping ==
  /\ consumer # "stopped"
  /\ Fault(IF consumer = "answering" THEN "cancelLate" ELSE "cancel")
  /\ job' = <<>> /\ request' = NoRequest
  /\ consumer' = "stopped"
  /\ UNCHANGED <<queue, msgs, channel>>

\* stop_consumer() cancels the task; an unfinished job returns to the front.
Stop ==
  /\ consumer # "stopped"
  /\ Fault(IF consumer = "answering" THEN "cancelLate" ELSE "cancel")
  /\ queue' = job \o queue
  /\ job' = <<>> /\ request' = NoRequest
  /\ consumer' = "stopped"
  /\ UNCHANGED <<msgs, channel>>

\* check_consumer() starts a new consumer task when there is none.
CheckConsumer == consumer' = IF consumer = "stopped" THEN "waiting" ELSE consumer

Resume ==
  /\ consumer = "stopped"
  /\ CheckConsumer
  /\ UNCHANGED <<queue, job, request, msgs, channel, faults>>

\* send_iter, edit_iter, delete_iter
Enqueue(jobs) ==
  /\ CheckConsumer
  /\ queue' = queue \o jobs
  /\ UNCHANGED <<job, request, msgs, channel, faults>>

\* remove_expired_msg_obj: messages of posts below the page are forgotten.
Unexpired(expired) == [p \in Posts |-> IF p \in expired THEN 0 ELSE msgs[p]]

\* article.update(new_article): the jobs that share the cached dict of a post
\* with a new text show that text; from then on the cache holds another dict.
Refreshed(jobs, kept, text) ==
  [k \in DOMAIN jobs |->
     [jobs[k] EXCEPT !.text = IF jobs[k].live /\ jobs[k].post \in kept
                              THEN text[jobs[k].post] ELSE @,
                     !.live = FALSE]]

Refresh(expired, kept, text) ==
  /\ queue' = Refreshed(queue, kept, text)
  /\ job' = Refreshed(job, kept, text)
  /\ msgs' = Unexpired(expired)
  /\ UNCHANGED <<consumer, request, channel, faults>>

\* The steps of the consumer and of Telegram, without the faults.
Work ==
  \/ Take \/ Publish \/ Rewrite \/ TakeDown \/ Answered \/ Refused
  \/ Retry \/ Resume

Trouble ==
  RetryAfter \/ RetryAfterDelete \/ TimedOut \/ PhotoRejected \/ Rejected \/ Stop

BotNext ==
  \/ Work \/ Trouble
  \/ \E j \in Job : Enqueue(<<j>>)
  \/ \E expired, kept \in SUBSET Posts, text \in [Posts -> Texts] :
       Refresh(expired, kept, text)

\* asyncio runs every ready task, Telegram answers, a retry delay ends, and a
\* dump resumes the consumers it stopped.
BotFairness == WF_botVars(Work)

BotSpec == BotInit /\ [][BotNext]_botVars /\ BotFairness

-----------------------------------------------------------------------------
(* Properties *)

\* Shape of the state; a request is under way exactly while one is made.
BotTypeOK ==
  /\ queue \in Seq(Job) /\ job \in Seq(Job) /\ Len(job) <= 1
  /\ consumer \in ConsumerStates
  /\ request.message \in 0 .. Len(channel)
  /\ channel \in Seq(Message)
  /\ msgs \in [Posts -> 0 .. Len(channel)]
  /\ faults \in 0 .. MaxFaults
  /\ job # <<>> <=> consumer \in {"calling", "answering", "sleeping"}

\* A post's entry in the message table is a message about that post, and so is
\* the message an edit or a delete is about to change: retries, cancellation
\* and expiry never make the bot touch another post's message.
OwnMessage ==
  /\ BotTypeOK
  /\ \A p \in Posts : msgs[p] # 0 => channel[msgs[p]].post = p
  /\ request.message # 0 => channel[request.message].post = Current.post

\* The queue and the job in flight together are the promised queue: no fault,
\* stop or resume loses, repeats out of order or overtakes a job.
Name(j) == <<j.op, j.post>>
Unfinished == job \o queue
Promise == INSTANCE JobQueue WITH
  Jobs <- Ops \X Posts,
  pending <- [k \in 1 .. Len(Unfinished) |-> Name(Unfinished[k])]

KeepsPromise == Promise!Spec
=============================================================================
