----------------------------- MODULE QueueClient -----------------------------
(***************************************************************************)
(* SqsClient of aws_clients/sqs_client.py as the threads of the pool share *)
(* it: the queue URL one of them resolves and any of them may forget, the  *)
(* polling loop and the visibility heartbeat of engine/scaler.py, in       *)
(* discrete time.                                                          *)
(*                                                                         *)
(* A worker has a thread "main", which polls, handles and acks, and starts *)
(* a beat thread for every message it handles.  It waits for the beat only *)
(* so long: a beat may outlive the handling by the call it is in.  Steps   *)
(* that call no service take no time; a call takes at most MaxCall.        *)
(***************************************************************************)
EXTENDS Integers, FiniteSets

CONSTANTS
  Worker,
  Message,
  BeatId,      \* the beats of a worker that may be alive at once
  Nothing,     \* no message, no beat
  MaxMessages, \* SQS_MAX_MESSAGES
  Visibility,  \* the queue's VisibilityTimeout, set by seed.py
  Extension,   \* SQS_VISIBILITY_EXTENSION_SECONDS
  Interval,    \* SQS_VISIBILITY_HEARTBEAT_SECONDS
  JoinTimeout, \* how long a worker waits for the end of its beat
  Retry,       \* STARTUP_RETRY_SECONDS
  MaxCall,     \* how long a call may take, and an empty receive does
  Plans        \* the courses of events that are looked at: see plan

\* Settings.__post_init__ compares the interval with the extension, not with
\* the visibility timeout.
ASSUME TimesAssumption ==
  /\ {Visibility, Extension, Interval, MaxCall} \subseteq Nat \ {0}
  /\ Interval < Extension
  /\ {MaxMessages, JoinTimeout, Retry} \subseteq Nat
  /\ Nothing \notin Message \cup BeatId
  /\ "main" \notin BeatId

Plan == [workers : SUBSET Worker,  \* the threads of the pool
         files   : SUBSET Message, \* what seed.py announces
         beats   : SUBSET BeatId,  \* how many beats of a worker may be alive
         stable  : BOOLEAN,        \* the queue has one URL, however often made
         queues  : Nat,            \* how often it will be created yet
         faults  : Nat]            \* how many calls to it, and handlings, fail

ASSUME PlansAssumption == Plans \subseteq Plan

Thread == Worker \X ({"main"} \cup BeatId)

Main(w)    == <<w, "main">>
Beat(w, b) == <<w, b>>
Beats      == Worker \X BeatId

VARIABLES
  queue,   \* which queue of this name exists, counted from 1; 0 for none
  made,    \* how many there have been
  hidden,  \* message -> how long it stays invisible, 0 if it is visible
  gone,    \* the messages that are deleted, or were not announced
  url,     \* SqsClient._queue_url: the queue it leads to, or 0 for None
  pc,      \* thread -> where it is
  got,     \* thread -> the URL it has at hand
  timer,   \* thread -> how long until its wait is over, or its call must be
  held,    \* thread -> the message it handles or extends
  from,    \* thread -> the queue that its messages are from
  op,      \* worker -> what its main thread wants the URL for
  batch,   \* worker -> what it has received and not handled yet
  beat,    \* worker -> the beat of the handling under way
  assured, \* worker -> how long its message was hidden for when the handling
           \* began or a beat got through, less a round per beat missed since
  plan     \* what there is, and what is yet to happen

sqs     == <<queue, made, hidden, gone>>
threads == <<pc, got, timer>>
loop    == <<op, batch, beat, assured>>
vars    == <<sqs, url, threads, held, from, loop, plan>>

Init ==
  /\ plan \in Plans
  /\ queue = 0 /\ made = 0
  /\ hidden = [m \in Message |-> 0]
  /\ gone = {}
  /\ url = 0
  /\ pc = [t \in Thread |-> IF t \notin Beats /\ t[1] \in plan.workers THEN "next" ELSE "off"]
  /\ got = [t \in Thread |-> 0]
  /\ timer = [t \in Thread |-> 0]
  /\ held = [t \in Thread |-> Nothing]
  /\ from = [t \in Thread |-> 0]
  /\ op = [w \in Worker |-> "log"]
  /\ batch = [w \in Worker |-> {}]
  /\ beat = [w \in Worker |-> Nothing]
  /\ assured = [w \in Worker |-> 0]

Goto(t, place)         == pc' = [pc EXCEPT ![t] = place]
Within(t, place, time) == Goto(t, place) /\ timer' = [timer EXCEPT ![t] = time]

DropUrl(t) == got' = [got EXCEPT ![t] = 0]

Lesser(i, j) == IF i < j THEN i ELSE j

Mishap == plan.faults > 0 /\ plan' = [plan EXCEPT !.faults = @ - 1]

Use(t) == IF t \in Beats THEN "extend" ELSE op[t[1]]

-----------------------------------------------------------------------------
\* The property queue_url.  Another thread may run between its two looks at
\* the cached URL, and between the second one and the call.

\* if self._queue_url is None
Check(t) ==
  /\ pc[t] = "check"
  /\ IF url # 0 THEN Goto(t, "read") /\ UNCHANGED timer
                ELSE Within(t, "fetch", MaxCall)
  /\ UNCHANGED <<sqs, url, got, held, from, loop, plan>>

\* get_queue_url answers.
Resolve(t) ==
  /\ pc[t] = "fetch"
  /\ queue # 0
  /\ got' = [got EXCEPT ![t] = queue]
  /\ Within(t, "store", 0)
  /\ UNCHANGED <<sqs, url, held, from, loop, plan>>

\* There is no such queue, or the call fails.
ResolveFails(t) ==
  /\ pc[t] = "fetch"
  /\ IF queue = 0 THEN UNCHANGED plan ELSE Mishap
  /\ Within(t, "error", 0)
  /\ UNCHANGED <<sqs, url, got, held, from, loop>>

Store(t) ==
  /\ pc[t] = "store"
  /\ url' = got[t]
  /\ DropUrl(t)
  /\ Goto(t, "read")
  /\ UNCHANGED <<sqs, timer, held, from, loop, plan>>

\* return self._queue_url.  The log line is then written; the other uses go on
\* to their call, which with None for a URL fails at once.
Read(t) ==
  /\ pc[t] = "read"
  /\ IF Use(t) = "log" THEN Goto(t, "next") /\ UNCHANGED <<got, timer>>
     ELSE IF url = 0  THEN Goto(t, "error") /\ UNCHANGED <<got, timer>>
     ELSE Within(t, "call", MaxCall) /\ got' = [got EXCEPT ![t] = url]
  /\ UNCHANGED <<sqs, url, held, from, loop, plan>>

\* The call reaches the queue.  A former queue's URL may lead nowhere.
LeadsTo(u) == queue # 0 /\ (plan.stable \/ u = queue)

Reaches(t) == pc[t] = "call" /\ LeadsTo(got[t])

CallFails(t) ==
  /\ pc[t] = "call"
  /\ IF Reaches(t) THEN Mishap ELSE UNCHANGED plan
  /\ Within(t, "error", 0)
  /\ DropUrl(t)
  /\ UNCHANGED <<sqs, url, held, from, loop>>

-----------------------------------------------------------------------------
\* _worker_loop and handle_message.

\* The batch is done with.
Poll(w) ==
  LET t == Main(w)
  IN  /\ pc[t] = "next" /\ batch[w] = {}
      /\ Goto(t, "check")
      /\ op' = [op EXCEPT ![w] = "receive"]
      /\ from' = [from EXCEPT ![t] = 0]
      /\ UNCHANGED <<sqs, url, got, timer, held, batch, beat, assured, plan>>

Visible(m) == hidden[m] = 0 /\ m \notin gone

Receiving(w) == Reaches(Main(w)) /\ op[w] = "receive"

\* The long poll ends empty.
ReceiveNothing(w) ==
  /\ Receiving(w)
  /\ timer[Main(w)] = 0
  /\ \A m \in Message : ~Visible(m)
  /\ Goto(Main(w), "next")
  /\ op' = [op EXCEPT ![w] = "log"]
  /\ DropUrl(Main(w))
  /\ UNCHANGED <<sqs, url, timer, held, from, batch, beat, assured, plan>>

\* Messages arrive, and the client logs them with self.queue_url.
Receive(w, S) ==
  /\ Receiving(w)
  /\ S # {} /\ Cardinality(S) <= MaxMessages
  /\ \A m \in S : Visible(m)
  /\ hidden' = [m \in Message |-> IF m \in S THEN Visibility ELSE hidden[m]]
  /\ batch' = [batch EXCEPT ![w] = S]
  /\ from' = [from EXCEPT ![Main(w)] = queue]
  /\ op' = [op EXCEPT ![w] = "log"]
  /\ Within(Main(w), "check", 0)
  /\ DropUrl(Main(w))
  /\ UNCHANGED <<queue, made, gone, url, held, beat, assured, plan>>

\* Deviation: a failed receive is repeated at once.
ReceiveFailsNoPause(w) ==
  LET t == Main(w)
  IN  /\ pc[t] = "error" /\ op[w] \in {"receive", "log"}
      /\ url' = 0
      /\ batch' = [batch EXCEPT ![w] = {}]
      /\ Within(t, "pause", 0)
      /\ UNCHANGED <<sqs, got, held, from, op, beat, assured, plan>>

\* reset_queue_url, and a pause.  What was received before the log line failed
\* is lost to this worker.
ReceiveFails(w) ==
  LET t == Main(w)
  IN  /\ pc[t] = "error" /\ op[w] \in {"receive", "log"}
      /\ url' = 0
      /\ batch' = [batch EXCEPT ![w] = {}]
      /\ Within(t, "pause", Retry)
      /\ UNCHANGED <<sqs, got, held, from, op, beat, assured, plan>>

PauseOver(w) ==
  LET t == Main(w)
  IN  /\ pc[t] = "pause" /\ timer[t] = 0
      /\ Goto(t, "next")
      /\ op' = [op EXCEPT ![w] = "log"]
      /\ UNCHANGED <<sqs, url, got, timer, held, from, batch, beat, assured, plan>>

\* Deviation: the message stays in the batch.
HandleAgain(w, m, b) ==
  LET t == Main(w)
  IN  /\ pc[t] = "next" /\ m \in batch[w] /\ b \in plan.beats /\ pc[Beat(w, b)] = "off"
      /\ beat' = [beat EXCEPT ![w] = b]
      /\ assured' = [assured EXCEPT ![w] = Lesser(hidden[m], Extension)]
      /\ held' = [held EXCEPT ![t] = m, ![Beat(w, b)] = m]
      /\ from' = [from EXCEPT ![Beat(w, b)] = from[t]]
      /\ pc' = [pc EXCEPT ![t] = "work", ![Beat(w, b)] = "wait"]
      /\ timer' = [timer EXCEPT ![Beat(w, b)] = Interval]
      /\ UNCHANGED <<sqs, url, got, op, batch, plan>>

\* The next message, and a beat of its own before it is processed.
Handle(w, m, b) ==
  LET t == Main(w)
  IN  /\ pc[t] = "next" /\ m \in batch[w] /\ b \in plan.beats /\ pc[Beat(w, b)] = "off"
      /\ batch' = [batch EXCEPT ![w] = @ \ {m}]
      /\ beat' = [beat EXCEPT ![w] = b]
      /\ assured' = [assured EXCEPT ![w] = Lesser(hidden[m], Extension)]
      /\ held' = [held EXCEPT ![t] = m, ![Beat(w, b)] = m]
      /\ from' = [from EXCEPT ![Beat(w, b)] = from[t]]
      /\ pc' = [pc EXCEPT ![t] = "work", ![Beat(w, b)] = "wait"]
      /\ timer' = [timer EXCEPT ![Beat(w, b)] = Interval]
      /\ UNCHANGED <<sqs, url, got, op, plan>>

\* The processing ends: done.set(), and the join begins.
WorkEnds(w) ==
  /\ pc[Main(w)] = "work"
  /\ Within(Main(w), "join", JoinTimeout)
  /\ op' = [op EXCEPT ![w] = "delete"]
  /\ UNCHANGED <<sqs, url, got, held, from, batch, beat, assured, plan>>

\* It fails: the message will be left in the queue.
WorkFails(w) ==
  /\ pc[Main(w)] = "work"
  /\ Mishap
  /\ Within(Main(w), "join", JoinTimeout)
  /\ op' = [op EXCEPT ![w] = "leave"]
  /\ UNCHANGED <<sqs, url, got, held, from, batch, beat, assured>>

\* The beat has ended, or the join gives up on it.
JoinEnds(w) ==
  LET t == Main(w)
  IN  /\ pc[t] = "join"
      /\ pc[Beat(w, beat[w])] = "off" \/ timer[t] = 0
      /\ IF op[w] = "delete" THEN Within(t, "check", 0) /\ UNCHANGED held
                             ELSE /\ Within(t, "pause", Retry)
                                  /\ held' = [held EXCEPT ![t] = Nothing]
      /\ beat' = [beat EXCEPT ![w] = Nothing]
      /\ assured' = [assured EXCEPT ![w] = 0]
      /\ UNCHANGED <<sqs, url, got, from, op, batch, plan>>

\* The message is done with, deleted or not.
Done(w) ==
  /\ held' = [held EXCEPT ![Main(w)] = Nothing]
  /\ Within(Main(w), "next", 0)
  /\ op' = [op EXCEPT ![w] = "log"]

\* delete_message.  A message of a former queue is not in this one.
Delete(w) ==
  LET t == Main(w)
  IN  /\ Reaches(t) /\ op[w] = "delete"
      /\ IF from[t] = queue THEN /\ gone' = gone \cup {held[t]}
                                 /\ hidden' = [hidden EXCEPT ![held[t]] = 0]
                            ELSE UNCHANGED <<gone, hidden>>
      /\ Done(w)
      /\ DropUrl(t)
      /\ UNCHANGED <<queue, made, url, from, batch, beat, assured, plan>>

\* _ack logs the failure: the message will be redelivered.
DeleteFails(w) ==
  /\ pc[Main(w)] = "error" /\ op[w] = "delete"
  /\ Done(w)
  /\ UNCHANGED <<sqs, url, got, from, batch, beat, assured, plan>>

-----------------------------------------------------------------------------
\* _visibility_heartbeat.

\* Deviation: the end of the handling is seen only while the worker waits.
OverInTheJoin(t) == pc[Main(t[1])] = "join" /\ beat[t[1]] = t[2]

\* done.is_set(): the handling that the beat was started for is over.
Over(t) == pc[Main(t[1])] = "join" \/ beat[t[1]] # t[2]

BeatEnds(t) ==
  /\ pc[t] = "wait" /\ Over(t)
  /\ Within(t, "off", 0)
  /\ held' = [held EXCEPT ![t] = Nothing]
  /\ from' = [from EXCEPT ![t] = 0]
  /\ UNCHANGED <<sqs, url, got, loop, plan>>

BeatDue(t) ==
  /\ pc[t] = "wait" /\ ~Over(t)
  /\ timer[t] = 0
  /\ Goto(t, "check")
  /\ UNCHANGED <<sqs, url, got, timer, held, from, loop, plan>>

\* The worker's own beat, not one left over from an earlier handling.
Current(t) == beat[t[1]] = t[2]

\* The receipt is of this queue, and the message still in flight.
MayExtend(t) == from[t] = queue /\ hidden[held[t]] > 0

\* Deviation: the next beat is an extension later, not an interval.
ExtendLate(t) ==
  /\ Reaches(t)
  /\ MayExtend(t)
  /\ hidden' = [hidden EXCEPT ![held[t]] = Extension]
  /\ assured' = IF Current(t) THEN [assured EXCEPT ![t[1]] = Extension] ELSE assured
  /\ Within(t, "wait", Extension)
  /\ DropUrl(t)
  /\ UNCHANGED <<queue, made, gone, url, held, from, op, batch, beat, plan>>

Extend(t) ==
  /\ Reaches(t)
  /\ MayExtend(t)
  /\ hidden' = [hidden EXCEPT ![held[t]] = Extension]
  /\ assured' = IF Current(t) THEN [assured EXCEPT ![t[1]] = Extension] ELSE assured
  /\ Within(t, "wait", Interval)
  /\ DropUrl(t)
  /\ UNCHANGED <<queue, made, gone, url, held, from, op, batch, beat, plan>>

NotExtended(t) == pc[t] = "error" \/ (Reaches(t) /\ ~MayExtend(t))

\* From one beat to the next: the wait, the look-up of the URL and the call.
Round == Interval + 2 * MaxCall

Less(i, j) == IF i < j THEN 0 ELSE i - j

Miss(t) ==
  assured' = IF Current(t) THEN [assured EXCEPT ![t[1]] = Less(@, Round)] ELSE assured

\* The failure is logged; the next beat is an interval later.
ExtendFails(t) ==
  /\ NotExtended(t)
  /\ Miss(t)
  /\ Within(t, "wait", Interval)
  /\ DropUrl(t)
  /\ UNCHANGED <<sqs, url, held, from, op, batch, beat, plan>>

-----------------------------------------------------------------------------
\* The queue, and time.

\* seed.py deletes the queue, ...
DeleteQueue ==
  /\ queue # 0
  /\ plan.queues > 0
  /\ queue' = 0
  /\ UNCHANGED <<made, hidden, gone, url, threads, held, from, loop, plan>>

\* ... creates it, and announces every file again.
CreateQueue ==
  /\ queue = 0
  /\ plan.queues > 0
  /\ plan' = [plan EXCEPT !.queues = @ - 1]
  /\ made' = made + 1
  /\ queue' = made + 1
  /\ hidden' = [m \in Message |-> 0]
  /\ gone' = Message \ plan.files
  /\ UNCHANGED <<url, threads, held, from, loop>>

\* What a thread has time for.  With plan.beats alive the next message waits.
Patient(t) == \/ pc[t] \in {"off", "work"}
              \/ /\ pc[t] = "next" /\ batch[t[1]] # {}
                 /\ \A b \in plan.beats : pc[Beat(t[1], b)] # "off"
              \/ /\ pc[t] = "join" /\ timer[t] > 0
                 /\ pc[Beat(t[1], beat[t[1]])] # "off"
              \/ pc[t] = "wait" /\ timer[t] > 0 /\ ~Over(t)
              \/ pc[t] \in {"fetch", "call", "pause"} /\ timer[t] > 0

Older(n) == IF n > 0 THEN n - 1 ELSE 0

Tick ==
  /\ \A t \in Thread : Patient(t)
  /\ timer' = [t \in Thread |-> Older(timer[t])]
  /\ hidden' = [m \in Message |-> Older(hidden[m])]
  /\ UNCHANGED <<queue, made, gone, url, pc, got, held, from, loop, plan>>

Access(t) == Check(t) \/ Resolve(t) \/ ResolveFails(t) \/ Store(t) \/ Read(t) \/ CallFails(t)

MainStep(w) == \/ Poll(w) \/ ReceiveNothing(w) \/ ReceiveFails(w) \/ PauseOver(w)
               \/ \E S \in SUBSET Message : Receive(w, S)
               \/ \E m \in Message, b \in BeatId : Handle(w, m, b)
               \/ WorkEnds(w) \/ WorkFails(w) \/ JoinEnds(w)
               \/ Delete(w) \/ DeleteFails(w)

BeatStep(t) == BeatEnds(t) \/ BeatDue(t) \/ Extend(t) \/ ExtendFails(t)

Next == \/ \E t \in Thread : Access(t)
        \/ \E w \in Worker : MainStep(w)
        \/ \E t \in Beats : BeatStep(t)
        \/ DeleteQueue \/ CreateQueue \/ Tick

\* Every thread keeps running, and time passes.
Fairness == /\ \A w \in Worker : WF_vars(Access(Main(w)) \/ MainStep(w))
            /\ \A t \in Beats : WF_vars(Access(t) \/ BeatStep(t))
            /\ WF_vars(Tick)

Spec == Init /\ [][Next]_vars /\ Fairness

-----------------------------------------------------------------------------
\* Properties.

\* A worker is at a message, with a beat of its own, from the moment it takes
\* it from the batch; a beat has its message as long as it lives; URLs lead to
\* queues that have existed.
TypeOK ==
  /\ made \in Nat /\ queue \in {0, made}
  /\ hidden \in [Message -> 0..(Visibility + Extension)]
  /\ gone \subseteq Message
  /\ url \in 0..made
  /\ \A t \in Thread : /\ got[t] \in 0..made /\ from[t] \in 0..made
                       /\ got[t] # 0 <=> pc[t] \in {"store", "call"}
                       /\ timer[t] \in Nat
                       /\ held[t] \in Message \cup {Nothing}
  /\ \A t \in Beats : held[t] = Nothing <=> pc[t] = "off"
  /\ \A w \in Worker :
       /\ op[w] \in {"receive", "log", "delete", "leave"}
       /\ beat[w] \in BeatId \cup {Nothing}
       /\ beat[w] # Nothing <=> pc[Main(w)] \in {"work", "join"}
       /\ beat[w] # Nothing \/ op[w] = "delete" <=> held[Main(w)] # Nothing
       /\ batch[w] \in SUBSET (Message \ {held[Main(w)]})
       /\ assured[w] \in 0..Extension
  /\ plan \in Plan

\* Worker w handles a message of the queue that exists.
Handling(w) == beat[w] # Nothing /\ from[Main(w)] = queue

\* "Failures to extend are logged, never fatal: at worst the message is
\* redelivered" (scaler.py:415-416), and no sooner than that takes: a message
\* may come back while it is handled only if the beats missed in a row, with
\* the time their calls took, have used up what it had, whatever other
\* workers and beats left over from earlier handlings do to it and to the URL.
ExposureTakesMisses ==
  \A w \in Worker :
    Handling(w) /\ Visible(held[Main(w)]) => assured[w] <= Round

AtTheQueue(w) == Reaches(Main(w)) \/ pc[Main(w)] = "work"

\* "Forget the cached URL and try again" (scaler.py:256), "retry every 3s
\* forever" (DESIGN.md:26): a worker never stays away from a queue that
\* exists, be it because its URL is that of a former one, which a beat left
\* over may store late, or because the workers keep taking the URL from each
\* other.
WorkersReachTheQueue == \A w \in Worker : []<>(queue = 0 \/ pc[Main(w)] = "off" \/ AtTheQueue(w))

\* A queue that stays is emptied: what a failure after the receipt, such as
\* that of the log line's look at the URL, has lost to a worker, comes back,
\* and no beat left over keeps it hidden for good.
MessagesAreServed == <>[](queue = 0 \/ gone = Message)
=============================================================================
