------------------------- MODULE QueueClientProofs -------------------------
(***************************************************************************)
(* Theorems about the queue client, for all workers, messages, beats and   *)
(* plans, and all times: its type invariant, and what it takes for a       *)
(* message to come back while it is handled.                               *)
(***************************************************************************)
EXTENDS QueueClient, TLAPS

-----------------------------------------------------------------------------
(* Threads. *)

\* Every thread is the main thread of one worker, or one of its beats.
LEMMA ThreadsDiffer ==
  /\ \A w \in Worker : Main(w) \in Thread \ Beats /\ Main(w)[1] = w
  /\ \A v, w \in Worker : Main(v) = Main(w) => v = w
  /\ \A w \in Worker, b \in BeatId :
       Beat(w, b) \in Beats /\ Beat(w, b)[1] = w /\ Beat(w, b)[2] = b
  /\ \A t \in Beats : t \in Thread /\ t[1] \in Worker /\ t[2] \in BeatId /\ t = Beat(t[1], t[2])
  /\ \A t \in Thread \ Beats : t[1] \in Worker /\ t = Main(t[1])
BY TimesAssumption DEF Main, Beat, Thread, Beats

-----------------------------------------------------------------------------
(* Types. *)

AccessPlace == {"check", "fetch", "store", "read", "call", "error"}
MainPlace   == AccessPlace \cup {"off", "next", "pause", "work", "join"}
BeatPlace   == AccessPlace \cup {"off", "wait"}
Purpose     == {"receive", "log", "delete", "leave"}

Times == /\ {Visibility, Extension, Interval, MaxCall} \subseteq Nat \ {0}
         /\ {MaxMessages, JoinTimeout, Retry} \subseteq Nat
         /\ Nothing \notin Message /\ Nothing \notin BeatId

Shared == /\ made \in Nat /\ queue \in {0, made}
          /\ hidden \in [Message -> 0..(Visibility + Extension)]
          /\ gone \subseteq Message
          /\ url \in 0..made
          /\ plan \in Plan

Local == /\ pc \in [Thread -> MainPlace \cup BeatPlace]
         /\ got \in [Thread -> 0..made]
         /\ timer \in [Thread -> Nat]
         /\ held \in [Thread -> Message \cup {Nothing}]
         /\ from \in [Thread -> 0..made]
         /\ op \in [Worker -> Purpose]
         /\ batch \in [Worker -> SUBSET Message]
         /\ beat \in [Worker -> BeatId \cup {Nothing}]
         /\ assured \in [Worker -> 0..Extension]

\* A thread has a URL at hand just when it is about to use it, and is in time.
InTime(t) == /\ got[t] # 0 <=> pc[t] \in {"store", "call"}
             /\ pc[t] \in {"fetch", "call"} => timer[t] <= MaxCall
             /\ pc[t] = "wait" => timer[t] <= Interval

MainShape(w) ==
  LET t == Main(w)
  IN  /\ pc[t] \in MainPlace
      /\ beat[w] # Nothing <=> pc[t] \in {"work", "join"}
      /\ beat[w] # Nothing \/ op[w] = "delete" <=> held[t] # Nothing
      /\ held[t] \notin batch[w]
      /\ beat[w] # Nothing \/ batch[w] # {} => from[t] # 0
      /\ pc[t] \in {"next", "work"} => op[w] = "log"
      /\ pc[t] = "join" => op[w] \in {"delete", "leave"}
      /\ pc[t] = "pause" => op[w] # "delete"

BeatShape(t) == pc[t] \in BeatPlace /\ (held[t] = Nothing <=> pc[t] = "off")

\* While a message is handled its beat is alive, and until it ends it has the
\* worker's message.
Paired(w) ==
  beat[w] # Nothing =>
    LET b == Beat(w, beat[w])
    IN  /\ pc[Main(w)] = "work" => pc[b] # "off"
        /\ pc[b] # "off" => held[b] = held[Main(w)] /\ from[b] = from[Main(w)]

Typed == /\ Shared /\ Local
         /\ \A t \in Thread : InTime(t)
         /\ \A w \in Worker : MainShape(w) /\ Paired(w)
         /\ \A t \in Beats : BeatShape(t)

LEMMA TimesAreNumbers == Times
BY TimesAssumption DEF Times

LEMMA MishapTyped == plan \in Plan /\ Mishap => plan' \in Plan
BY DEF Plan, Mishap

LEMMA TypedInit == Init => Typed
<1> SUFFICES ASSUME Init PROVE Typed
  OBVIOUS
<1>1. Times
  BY TimesAreNumbers
<1>2. Shared /\ Local
  BY <1>1, PlansAssumption DEF Init, Times, Shared, Local, MainPlace, BeatPlace, AccessPlace, Purpose
<1>3. ASSUME NEW t \in Thread PROVE InTime(t)
  BY <1>3 DEF Init, InTime
<1>4. ASSUME NEW w \in Worker PROVE MainShape(w) /\ Paired(w)
  BY ThreadsDiffer DEF Init, MainShape, Paired, MainPlace
<1>5. ASSUME NEW t \in Beats PROVE BeatShape(t)
  BY ThreadsDiffer DEF Init, BeatShape, BeatPlace
<1> QED BY <1>2, <1>3, <1>4, <1>5 DEF Typed

\* A step of one thread that changes no message or batch.
LEMMA TypedLocally ==
  ASSUME Typed, NEW t \in Thread, Shared', Local', InTime(t)',
         \A s \in Thread \ {t} : pc'[s] = pc[s] /\ got'[s] = got[s] /\ timer'[s] = timer[s],
         UNCHANGED <<held, from, op, batch, beat>>,
         t \in Beats => BeatShape(t)' /\ (pc'[t] = "off" <=> pc[t] = "off"),
         t \notin Beats => MainShape(t[1])' /\ (pc'[t] = "work" => pc[t] = "work")
  PROVE  Typed'
<1>1. \A s \in Thread : InTime(s)'
  BY DEF Typed, InTime
<1>2. \A s \in Beats : BeatShape(s)'
  BY ThreadsDiffer DEF Typed, BeatShape
<1>3. ASSUME NEW w \in Worker PROVE MainShape(w)'
  <2>1. CASE t = Main(w)
    BY <2>1, ThreadsDiffer
  <2>2. CASE t # Main(w)
    <3>1. MainShape(w) /\ pc'[Main(w)] = pc[Main(w)]
      BY <2>2, ThreadsDiffer DEF Typed
    <3> QED BY <3>1 DEF MainShape
  <2> QED BY <2>1, <2>2
<1>4. ASSUME NEW w \in Worker PROVE Paired(w)'
  <2> SUFFICES ASSUME beat[w] # Nothing PROVE Paired(w)'
    BY DEF Paired
  <2>1. Paired(w) /\ beat[w] \in BeatId
    BY DEF Typed, Local
  <2>2. Beat(w, beat[w]) \in Beats /\ Main(w) \in Thread \ Beats
    BY <2>1, ThreadsDiffer
  <2>3. pc'[Beat(w, beat[w])] = "off" <=> pc[Beat(w, beat[w])] = "off"
    BY <2>2, ThreadsDiffer
  <2>4. pc'[Main(w)] = "work" => pc[Main(w)] = "work"
    BY <2>2
  <2> QED BY <2>1, <2>3, <2>4 DEF Paired
<1> QED BY <1>1, <1>2, <1>3, <1>4 DEF Typed

\* The property queue_url and a call that fails, in any thread.
LEMMA TypedAccess ==
  ASSUME Typed, NEW t \in Thread, Access(t)
  PROVE  Typed'
<1>1. /\ Shared /\ Local /\ Times /\ InTime(t)
      /\ t \in Beats => BeatShape(t)
      /\ t \notin Beats => t[1] \in Worker /\ MainShape(t[1]) /\ t = Main(t[1])
  BY ThreadsDiffer, TimesAreNumbers DEF Typed
<1>2. UNCHANGED <<queue, made, hidden, gone, held, from, op, batch, beat, assured>>
  BY DEF Access, Check, Resolve, ResolveFails, Store, Read, CallFails, sqs, loop
<1>3. Shared' /\ Local'
  <2> USE <1>1, <1>2 DEF Times, Shared, Local, MainPlace, BeatPlace, AccessPlace, Goto, Within, DropUrl
  <2>1. CASE Check(t)
    BY <2>1 DEF Check
  <2>2. CASE Resolve(t)
    BY <2>2 DEF Resolve
  <2>3. CASE ResolveFails(t)
    BY <2>3, MishapTyped DEF ResolveFails
  <2>4. CASE Store(t)
    BY <2>4 DEF Store
  <2>5. CASE Read(t)
    BY <2>5 DEF Read
  <2>6. CASE CallFails(t)
    BY <2>6, MishapTyped DEF CallFails
  <2> QED BY <2>1, <2>2, <2>3, <2>4, <2>5, <2>6 DEF Access
<1>4. \A s \in Thread \ {t} : pc'[s] = pc[s] /\ got'[s] = got[s] /\ timer'[s] = timer[s]
  BY <1>1 DEF Local, Access, Check, Resolve, ResolveFails, Store, Read, CallFails, Goto, Within,
       DropUrl
<1>5. /\ pc'[t] \in {"fetch", "store", "read", "error", "call"} \/ (pc'[t] = "next" /\ Use(t) = "log")
      /\ InTime(t)'
      /\ pc[t] \in {"check", "fetch", "store", "read", "call"}
  <2> USE <1>1 DEF Times, Shared, Local, InTime, Goto, Within, DropUrl
  <2>1. CASE Check(t)
    BY <2>1 DEF Check
  <2>2. CASE Resolve(t)
    BY <2>2 DEF Resolve
  <2>3. CASE ResolveFails(t)
    BY <2>3 DEF ResolveFails
  <2>4. CASE Store(t)
    BY <2>4 DEF Store
  <2>5. CASE Read(t)
    BY <2>5 DEF Read
  <2>6. CASE CallFails(t)
    BY <2>6 DEF CallFails
  <2> QED BY <2>1, <2>2, <2>3, <2>4, <2>5, <2>6 DEF Access
<1>6. t \in Beats => BeatShape(t)' /\ (pc'[t] = "off" <=> pc[t] = "off")
  BY <1>1, <1>2, <1>5 DEF BeatShape, BeatPlace, AccessPlace, Use
<1>7. t \notin Beats => MainShape(t[1])' /\ (pc'[t] = "work" => pc[t] = "work")
  <2> SUFFICES ASSUME t \notin Beats PROVE MainShape(t[1])' /\ pc'[t] # "work"
    OBVIOUS
  <2>1. /\ pc'[t] \in AccessPlace \/ (pc'[t] = "next" /\ op[t[1]] = "log")
        /\ pc[t] \in AccessPlace
    BY <1>5 DEF Use, AccessPlace
  <2> QED BY <1>1, <1>2, <2>1 DEF MainShape, MainPlace, AccessPlace
<1> QED BY <1>2, <1>3, <1>4, <1>5, <1>6, <1>7, TypedLocally

\* A step of one worker.
LEMMA TypedOfWorker ==
  ASSUME Typed, NEW w \in Worker, Shared', Local',
         \A s \in Thread : s[1] # w => /\ pc'[s] = pc[s] /\ got'[s] = got[s] /\ timer'[s] = timer[s]
                                       /\ held'[s] = held[s] /\ from'[s] = from[s],
         \A v \in Worker \ {w} : op'[v] = op[v] /\ batch'[v] = batch[v] /\ beat'[v] = beat[v],
         \A s \in Thread : s[1] = w => InTime(s)',
         \A s \in Beats : s[1] = w => BeatShape(s)',
         MainShape(w)', Paired(w)'
  PROVE  Typed'
<1>1. \A s \in Thread : InTime(s)'
  BY DEF Typed, InTime
<1>2. \A s \in Beats : BeatShape(s)'
  BY ThreadsDiffer DEF Typed, BeatShape
<1>3. ASSUME NEW v \in Worker \ {w} PROVE MainShape(v)' /\ Paired(v)'
  <2>1. MainShape(v) /\ Paired(v) /\ Main(v) \in Thread /\ Main(v)[1] # w
    BY ThreadsDiffer DEF Typed
  <2>2. beat[v] \in BeatId \cup {Nothing}
    BY DEF Typed, Local
  <2>3. beat[v] # Nothing => Beat(v, beat[v]) \in Thread /\ Beat(v, beat[v])[1] # w
    BY <2>2, ThreadsDiffer
  <2>4. MainShape(v)'
    BY <2>1 DEF MainShape
  <2>5. Paired(v)'
    BY <2>1, <2>3 DEF Paired
  <2> QED BY <2>4, <2>5
<1> QED BY <1>1, <1>2, <1>3 DEF Typed

\* A step of a main thread that leaves its beats alone.
LEMMA TypedMain ==
  ASSUME Typed, NEW w \in Worker,
         MainStep(w), ~\E m \in Message, b \in BeatId : Handle(w, m, b)
  PROVE  Typed'
<1> DEFINE t == Main(w)
<1>1. /\ Shared /\ Local /\ Times /\ InTime(t) /\ MainShape(w) /\ Paired(w)
      /\ t \in Thread \ Beats /\ t[1] = w /\ t \in Thread
  BY ThreadsDiffer, TimesAreNumbers DEF Typed
<1>2. Shared' /\ Local'
  <2> HIDE DEF t
  <2> USE <1>1 DEF Times, Shared, Local, MainPlace, BeatPlace, AccessPlace, Purpose, Goto, Within,
                   DropUrl, sqs
  <2>1. CASE Poll(w)
    BY <2>1 DEF Poll, t
  <2>2. CASE ReceiveNothing(w)
    BY <2>2 DEF ReceiveNothing, t
  <2>3. CASE ReceiveFails(w)
    BY <2>3 DEF ReceiveFails, t
  <2>4. CASE PauseOver(w)
    BY <2>4 DEF PauseOver, t
  <2>5. ASSUME NEW S \in SUBSET Message, Receive(w, S) PROVE Shared' /\ Local'
    <3>1. Visibility \in 0..(Visibility + Extension) /\ queue \in 0..made
      OBVIOUS
    <3>2. hidden' \in [Message -> 0..(Visibility + Extension)]
      BY <2>5, <3>1 DEF Receive
    <3>3. Shared'
      BY <2>5, <3>2 DEF Receive
    <3> QED BY <2>5, <3>1, <3>3 DEF Receive, t
  <2>6. CASE WorkEnds(w)
    BY <2>6 DEF WorkEnds, t
  <2>7. CASE WorkFails(w)
    BY <2>7, MishapTyped DEF WorkFails, t
  <2>8. CASE JoinEnds(w)
    <3>1. 0 \in 0..Extension
      OBVIOUS
    <3>2. Shared'
      BY <2>8 DEF JoinEnds
    <3>3. held' \in [Thread -> Message \cup {Nothing}] /\ assured' \in [Worker -> 0..Extension]
      BY <2>8, <3>1 DEF JoinEnds, t
    <3> QED BY <2>8, <3>2, <3>3 DEF JoinEnds, t
  <2>9. CASE Delete(w)
    <3>1. held[t] \in Message
      BY <2>9 DEF Delete, Reaches, MainShape, t
    <3>2. 0 \in 0..(Visibility + Extension)
      OBVIOUS
    <3>3. hidden' \in [Message -> 0..(Visibility + Extension)] /\ gone' \subseteq Message
      BY <2>9, <3>1, <3>2 DEF Delete, t
    <3>4. Shared'
      BY <2>9, <3>3 DEF Delete
    <3> QED BY <2>9, <3>4 DEF Delete, Done, t
  <2>10. CASE DeleteFails(w)
    BY <2>10 DEF DeleteFails, Done, t
  <2> QED BY <1>1, <2>1, <2>2, <2>3, <2>4, <2>5, <2>6, <2>7, <2>8, <2>9, <2>10 DEF MainStep
<1>3. /\ \A s \in Thread \ {t} : /\ pc'[s] = pc[s] /\ got'[s] = got[s] /\ timer'[s] = timer[s]
                                 /\ held'[s] = held[s] /\ from'[s] = from[s]
      /\ \A v \in Worker \ {w} : op'[v] = op[v] /\ batch'[v] = batch[v] /\ beat'[v] = beat[v]
  BY <1>1 DEF Local, MainStep, Poll, ReceiveNothing, ReceiveFails, PauseOver, Receive, WorkEnds,
       WorkFails, JoinEnds, Delete, DeleteFails, Done, Goto, Within, DropUrl
<1>4. MainShape(w)' /\ InTime(t)' /\ (beat'[w] # Nothing => /\ beat'[w] = beat[w]
                                                            /\ held'[t] = held[t] /\ from'[t] = from[t]
                                                            /\ (pc'[t] = "work" => pc[t] = "work"))
  <2> HIDE DEF t
  <2> USE <1>1 DEF Shared, Local, MainShape, InTime, MainPlace, AccessPlace, Purpose, Goto, Within,
                   DropUrl, sqs, t
  <2>1. CASE Poll(w)
    BY <2>1 DEF Poll
  <2>2. CASE ReceiveNothing(w)
    BY <2>2 DEF ReceiveNothing, Receiving, Reaches
  <2>3. CASE ReceiveFails(w)
    BY <2>3 DEF ReceiveFails
  <2>4. CASE PauseOver(w)
    BY <2>4 DEF PauseOver
  <2>5. ASSUME NEW S \in SUBSET Message, Receive(w, S)
        PROVE  MainShape(w)' /\ InTime(t)' /\ beat'[w] = Nothing
    <3>1. beat[w] = Nothing /\ held[t] = Nothing /\ op[w] = "receive" /\ queue # 0
      BY <2>5 DEF Receive, Receiving, Reaches, LeadsTo
    <3>2. Nothing \notin S /\ queue \in 0..made
      BY DEF Times
    <3> QED BY <2>5, <3>1, <3>2 DEF Receive, Receiving, Reaches
  <2>6. CASE WorkEnds(w)
    BY <2>6 DEF WorkEnds
  <2>7. CASE WorkFails(w)
    BY <2>7 DEF WorkFails
  <2>8. CASE JoinEnds(w)
    <3>1. Nothing \notin batch[w]
      BY DEF Times
    <3> QED BY <2>8, <3>1 DEF JoinEnds
  <2>9. CASE Delete(w)
    <3>1. Nothing \notin batch[w]
      BY DEF Times
    <3> QED BY <2>9, <3>1 DEF Delete, Done, Reaches
  <2>10. CASE DeleteFails(w)
    <3>1. Nothing \notin batch[w]
      BY DEF Times
    <3> QED BY <2>10, <3>1 DEF DeleteFails, Done
  <2> QED BY <2>1, <2>2, <2>3, <2>4, <2>5, <2>6, <2>7, <2>8, <2>9, <2>10 DEF MainStep
<1>5. Paired(w)'
  <2> SUFFICES ASSUME beat'[w] # Nothing PROVE Paired(w)'
    BY DEF Paired
  <2>1. beat[w] \in BeatId /\ beat'[w] = beat[w]
    BY <1>1, <1>4 DEF Local
  <2>2. Beat(w, beat[w]) \in Thread \ {t}
    BY <1>1, <2>1, ThreadsDiffer
  <2> HIDE DEF t
  <2> QED BY <1>1, <1>3, <1>4, <2>1, <2>2 DEF Paired, t
<1>6. \A s \in Thread : s[1] = w => InTime(s)'
  BY <1>3, <1>4 DEF Typed, InTime
<1>7. \A s \in Beats : BeatShape(s)'
  BY <1>1, <1>3, ThreadsDiffer DEF Typed, BeatShape
<1> HIDE DEF t
<1> QED BY <1>1, <1>2, <1>3, <1>4, <1>5, <1>6, <1>7, TypedOfWorker

\* A message taken from the batch, and its beat started.
LEMMA TypedHandle ==
  ASSUME Typed, NEW w \in Worker, NEW m \in Message, NEW b \in BeatId, Handle(w, m, b)
  PROVE  Typed'
<1> DEFINE t == Main(w)
           s == Beat(w, b)
<1>1. /\ Shared /\ Local /\ Times /\ InTime(t) /\ MainShape(w) /\ InTime(s)
      /\ t \in Thread \ Beats /\ t[1] = w /\ s \in Beats /\ s \in Thread /\ s[1] = w /\ s # t
  BY ThreadsDiffer, TimesAreNumbers DEF Typed
<1>2. /\ pc[t] = "next" /\ m \in batch[w] /\ pc[s] = "off"
      /\ batch' = [batch EXCEPT ![w] = @ \ {m}]
      /\ beat' = [beat EXCEPT ![w] = b]
      /\ assured' = [assured EXCEPT ![w] = Lesser(hidden[m], Extension)]
      /\ held' = [held EXCEPT ![t] = m, ![s] = m]
      /\ from' = [from EXCEPT ![s] = from[t]]
      /\ pc' = [pc EXCEPT ![t] = "work", ![s] = "wait"]
      /\ timer' = [timer EXCEPT ![s] = Interval]
      /\ UNCHANGED <<queue, made, hidden, gone, url, got, op, plan>>
  BY DEF Handle, sqs
<1>3. Nothing # m /\ Nothing # b
  BY <1>1 DEF Times
<1> HIDE DEF t, s
<1>4. Shared'
  BY <1>1, <1>2 DEF Shared
<1>5. Local'
  <2>1. hidden[m] \in Nat
    BY <1>1 DEF Shared, Times
  <2>2. Lesser(hidden[m], Extension) \in 0..Extension
    BY <1>1, <2>1 DEF Times, Lesser
  <2> QED BY <1>1, <1>2, <2>2 DEF Local, Times, MainPlace, BeatPlace
<1>6. \A r \in Thread \ {t, s} : /\ pc'[r] = pc[r] /\ got'[r] = got[r] /\ timer'[r] = timer[r]
                                 /\ held'[r] = held[r] /\ from'[r] = from[r]
  BY <1>1, <1>2 DEF Local
<1>7. \A v \in Worker \ {w} : op'[v] = op[v] /\ batch'[v] = batch[v] /\ beat'[v] = beat[v]
  BY <1>2 DEF Local
<1>8. /\ pc'[t] = "work" /\ pc'[s] = "wait" /\ held'[t] = m /\ held'[s] = m
      /\ from'[t] = from[t] /\ from'[s] = from[t] /\ timer'[s] = Interval
      /\ timer'[t] = timer[t] /\ got'[t] = got[t] /\ got'[s] = got[s]
      /\ beat'[w] = b /\ batch'[w] = batch[w] \ {m} /\ op'[w] = op[w]
  BY <1>1, <1>2 DEF Local
<1>9. InTime(t)' /\ InTime(s)'
  BY <1>1, <1>2, <1>8 DEF InTime, Times
<1>10. \A r \in Thread : r[1] = w => InTime(r)'
  BY <1>6, <1>9 DEF Typed, InTime
<1>11. \A r \in Beats : r[1] = w => BeatShape(r)'
  <2>1. BeatShape(s)'
    BY <1>3, <1>8 DEF BeatShape, BeatPlace
  <2>2. ASSUME NEW r \in Beats \ {s} PROVE BeatShape(r)'
    BY <1>1, <1>6, <2>2, ThreadsDiffer DEF Typed, BeatShape
  <2> QED BY <2>1, <2>2
<1>12. MainShape(w)'
  BY <1>1, <1>2, <1>3, <1>8 DEF MainShape, MainPlace, t
<1>13. Paired(w)'
  BY <1>8 DEF Paired, t, s
<1> QED BY <1>1, <1>4, <1>5, <1>6, <1>7, <1>10, <1>11, <1>12, <1>13, TypedOfWorker

\* A step of a beat.
LEMMA TypedBeat ==
  ASSUME Typed, NEW t \in Beats, BeatStep(t)
  PROVE  Typed'
<1>1. /\ Shared /\ Local /\ Times /\ InTime(t) /\ BeatShape(t)
      /\ t \in Thread /\ t[1] \in Worker /\ t[2] \in BeatId /\ t = Beat(t[1], t[2])
      /\ MainShape(t[1]) /\ Paired(t[1]) /\ t # Main(t[1]) /\ Main(t[1]) \in Thread
  BY ThreadsDiffer, TimesAreNumbers DEF Typed
<1>2. /\ UNCHANGED <<op, batch, beat, queue, made, gone, url, plan>>
      /\ \A r \in Thread \ {t} : /\ pc'[r] = pc[r] /\ got'[r] = got[r] /\ timer'[r] = timer[r]
                                 /\ held'[r] = held[r] /\ from'[r] = from[r]
  BY <1>1 DEF Local, BeatStep, BeatEnds, BeatDue, Extend, ExtendFails, Goto, Within, DropUrl, loop,
       sqs
<1>3. /\ Shared' /\ Local' /\ InTime(t)' /\ BeatShape(t)'
      /\ pc'[t] # "off" => held'[t] = held[t] /\ from'[t] = from[t] /\ pc[t] # "off"
      /\ pc'[t] = "off" => Over(t)
  <2> USE <1>1 DEF Times, Shared, Local, InTime, BeatShape, BeatPlace, AccessPlace, Goto, Within,
                   DropUrl, loop, sqs
  <2>1. CASE BeatEnds(t)
    BY <2>1 DEF BeatEnds
  <2>2. CASE BeatDue(t)
    BY <2>2 DEF BeatDue
  <2>3. CASE Extend(t)
    <3>1. /\ pc[t] = "call" /\ held[t] \in Message
          /\ hidden' = [hidden EXCEPT ![held[t]] = Extension]
          /\ assured' = [assured EXCEPT ![t[1]] = Extension] \/ assured' = assured
          /\ pc' = [pc EXCEPT ![t] = "wait"] /\ timer' = [timer EXCEPT ![t] = Interval]
          /\ got' = [got EXCEPT ![t] = 0]
          /\ UNCHANGED <<queue, made, gone, url, held, from, op, batch, beat, plan>>
      BY <2>3 DEF Extend, Reaches
    <3>2. Extension \in 0..(Visibility + Extension) /\ Extension \in 0..Extension
      OBVIOUS
    <3>3. Shared'
      BY <3>1, <3>2
    <3>4. Local'
      BY <3>1, <3>2
    <3> QED BY <3>1, <3>3, <3>4
  <2>4. CASE ExtendFails(t)
    <3>1. /\ pc[t] \in {"call", "error"}
          /\ assured' = [assured EXCEPT ![t[1]] = Less(assured[t[1]], Round)] \/ assured' = assured
          /\ pc' = [pc EXCEPT ![t] = "wait"] /\ timer' = [timer EXCEPT ![t] = Interval]
          /\ got' = [got EXCEPT ![t] = 0]
          /\ UNCHANGED <<queue, made, hidden, gone, url, held, from, op, batch, beat, plan>>
      BY <2>4 DEF ExtendFails, Miss, NotExtended, Reaches
    <3>2. Less(assured[t[1]], Round) \in 0..Extension
      BY DEF Less, Round
    <3>3. assured' \in [Worker -> 0..Extension]
      BY <3>1, <3>2
    <3>4. Shared' /\ Local'
      BY <3>1, <3>3
    <3> QED BY <3>1, <3>4
  <2> QED BY <2>1, <2>2, <2>3, <2>4 DEF BeatStep
<1>4. MainShape(t[1])'
  BY <1>1, <1>2 DEF MainShape
<1>5. Paired(t[1])'
  <2> SUFFICES ASSUME beat[t[1]] # Nothing PROVE Paired(t[1])'
    BY <1>2 DEF Paired
  <2>1. beat[t[1]] \in BeatId /\ beat'[t[1]] = beat[t[1]]
    BY <1>1, <1>2 DEF Local
  <2>2. CASE beat[t[1]] = t[2]
    <3>1. Beat(t[1], beat'[t[1]]) = t
      BY <1>1, <2>1, <2>2
    <3>2. pc'[Main(t[1])] = pc[Main(t[1])] /\ held'[Main(t[1])] = held[Main(t[1])]
          /\ from'[Main(t[1])] = from[Main(t[1])]
      BY <1>1, <1>2
    <3>3. pc'[t] = "off" => pc[Main(t[1])] # "work"
      BY <1>3, <2>2 DEF Over
    <3> QED BY <1>1, <1>3, <2>1, <2>2, <3>1, <3>2, <3>3 DEF Paired
  <2>3. CASE beat[t[1]] # t[2]
    <3>1. Beat(t[1], beat[t[1]]) \in Thread \ {t}
      BY <1>1, <2>1, <2>3, ThreadsDiffer
    <3> QED BY <1>1, <1>2, <2>1, <3>1 DEF Paired
  <2> QED BY <2>2, <2>3
<1>6. \A r \in Thread : InTime(r)'
  BY <1>2, <1>3 DEF Typed, InTime
<1>7. \A r \in Beats : BeatShape(r)'
  BY <1>2, <1>3, ThreadsDiffer DEF Typed, BeatShape
<1> QED BY <1>1, <1>2, <1>3, <1>4, <1>5, <1>6, <1>7, TypedOfWorker

LEMMA TypedNext == Typed /\ [Next]_vars => Typed'
<1> SUFFICES ASSUME Typed, [Next]_vars PROVE Typed'
  OBVIOUS
<1>1. Shared /\ Local /\ Times
  BY TimesAreNumbers DEF Typed
<1>2. ASSUME UNCHANGED <<threads, held, from, op, batch, beat>>, Shared', Local' PROVE Typed'
  BY <1>2 DEF Typed, threads, InTime, MainShape, Paired, BeatShape
<1>3. CASE DeleteQueue
  <2>1. Shared' /\ Local'
    BY <1>1, <1>3 DEF DeleteQueue, Shared, Local, threads, loop
  <2> QED BY <1>2, <1>3, <2>1 DEF DeleteQueue, loop
<1>4. CASE CreateQueue
  <2>1. made' \in Nat /\ made' >= made /\ queue' = made' /\ 0 \in 0..(Visibility + Extension)
    BY <1>1, <1>4 DEF CreateQueue, Shared, Times
  <2>2. Shared'
    <3>1. plan' \in Plan
      BY <1>1, <1>4 DEF CreateQueue, Shared, Plan
    <3> QED BY <1>1, <1>4, <2>1, <3>1 DEF CreateQueue, Shared
  <2>3. 0..made \subseteq 0..made'
    BY <1>1, <2>1 DEF Shared
  <2>4. Local'
    BY <1>1, <1>4, <2>3 DEF CreateQueue, Local, threads, loop
  <2> QED BY <1>2, <1>4, <2>2, <2>4 DEF CreateQueue, loop
<1>5. CASE Tick
  <2>1. \A n \in Nat : Older(n) \in 0..n
    BY DEF Older
  <2>2. \A n \in 0..(Visibility + Extension) : Older(n) \in 0..(Visibility + Extension)
    BY <1>1 DEF Older, Times
  <2>3. /\ UNCHANGED <<queue, made, gone, url, pc, got, held, from, op, batch, beat, assured, plan>>
        /\ timer' = [t \in Thread |-> Older(timer[t])]
        /\ hidden' = [m \in Message |-> Older(hidden[m])]
    BY <1>5 DEF Tick, loop
  <2>4. Shared'
    BY <1>1, <2>2, <2>3 DEF Shared
  <2>5. \A t \in Thread : timer'[t] \in Nat /\ timer'[t] <= timer[t]
    BY <1>1, <2>1, <2>3 DEF Local
  <2>6. Local'
    BY <1>1, <2>1, <2>3 DEF Local
  <2>7. \A t \in Thread : InTime(t)'
    BY <1>1, <2>3, <2>5 DEF Typed, InTime, Local, Times
  <2> QED BY <2>3, <2>4, <2>6, <2>7 DEF Typed, MainShape, Paired, BeatShape
<1>6. CASE UNCHANGED vars
  BY <1>1, <1>2, <1>6 DEF vars, sqs, threads, loop, Shared, Local
<1>7. ASSUME NEW t \in Thread, Access(t) PROVE Typed'
  BY <1>7, TypedAccess
<1>8. ASSUME NEW w \in Worker, MainStep(w) PROVE Typed'
  BY <1>8, TypedHandle, TypedMain
<1>9. ASSUME NEW t \in Beats, BeatStep(t) PROVE Typed'
  BY <1>9, TypedBeat
<1> QED BY <1>3, <1>4, <1>5, <1>6, <1>7, <1>8, <1>9 DEF Next

LEMMA TypedImpliesTypeOK == Typed => TypeOK
<1> SUFFICES ASSUME Typed PROVE TypeOK
  OBVIOUS
<1>1. Shared /\ Local
  BY DEF Typed
<1>2. ASSUME NEW t \in Thread
      PROVE  /\ got[t] \in 0..made /\ from[t] \in 0..made
             /\ got[t] # 0 <=> pc[t] \in {"store", "call"}
             /\ timer[t] \in Nat
             /\ held[t] \in Message \cup {Nothing}
  BY <1>1, <1>2 DEF Typed, Local, InTime
<1>3. \A t \in Beats : held[t] = Nothing <=> pc[t] = "off"
  BY DEF Typed, BeatShape
<1>4. ASSUME NEW w \in Worker
      PROVE  /\ op[w] \in {"receive", "log", "delete", "leave"}
             /\ beat[w] \in BeatId \cup {Nothing}
             /\ beat[w] # Nothing <=> pc[Main(w)] \in {"work", "join"}
             /\ beat[w] # Nothing \/ op[w] = "delete" <=> held[Main(w)] # Nothing
             /\ batch[w] \in SUBSET (Message \ {held[Main(w)]})
             /\ assured[w] \in 0..Extension
  <2>1. MainShape(w) /\ batch[w] \subseteq Message
    BY <1>1 DEF Typed, Local
  <2> QED BY <1>1, <2>1 DEF Local, MainShape, Purpose
<1>5. /\ made \in Nat /\ queue \in {0, made}
      /\ hidden \in [Message -> 0..(Visibility + Extension)]
      /\ gone \subseteq Message
      /\ url \in 0..made
      /\ plan \in Plan
  BY <1>1 DEF Shared
<1> QED BY <1>2, <1>3, <1>4, <1>5 DEF TypeOK

LEMMA AlwaysTyped == Spec => []Typed
BY TypedInit, TypedNext, PTL DEF Spec

\* Whatever the number of threads and the times: a worker that handles a
\* message has a beat of its own, which lives at least until the join begins;
\* the beats that outlive their handlings have their messages as long as they
\* live; no thread has a URL at hand but between the look-up and its use
\* (sqs_client.py:37-42, scaler.py:266-271, 417-433).
THEOREM ClientTypeCorrect == Spec => []TypeOK
BY AlwaysTyped, TypedImpliesTypeOK, PTL

-----------------------------------------------------------------------------
(* What it takes for a message to come back. *)

\* How long ago, at most, the beat last got through or was missed.
Spent(b) ==
  CASE pc[b] = "wait"              -> Interval - timer[b]
    [] pc[b] = "check"             -> Interval
    [] pc[b] = "fetch"             -> Interval + MaxCall - timer[b]
    [] pc[b] \in {"store", "read"} -> Interval + MaxCall
    [] pc[b] = "call"              -> Round - timer[b]
    [] OTHER                       -> Round

\* A message in work has of its time at least what it was assured of, less
\* what has passed since.
Covered(w) ==
  Handling(w) /\ held[Main(w)] \notin gone =>
    hidden[held[Main(w)]] + Spent(Beat(w, beat[w])) >= assured[w]

ExposureInv == Typed /\ \A w \in Worker : Covered(w)

LEMMA SpentBound ==
  ASSUME Typed, NEW b \in Beats
  PROVE  Spent(b) \in 0..Round
<1>1. InTime(b) /\ timer[b] \in Nat /\ Times
  BY ThreadsDiffer, TimesAreNumbers DEF Typed, Local
<1> QED BY <1>1 DEF Spent, InTime, Times, Round

\* What is in work is a message of the queue, and its beat a thread.
LEMMA InWork ==
  ASSUME Typed, NEW w \in Worker, Handling(w)
  PROVE  /\ held[Main(w)] \in Message /\ hidden[held[Main(w)]] \in Nat
         /\ queue # 0 /\ queue = made
         /\ Beat(w, beat[w]) \in Beats
         /\ Beat(w, beat[w])[1] = w /\ Beat(w, beat[w])[2] = beat[w]
         /\ Spent(Beat(w, beat[w])) \in 0..Round
         /\ assured[w] \in 0..Extension
         /\ pc[Main(w)] = "work" => pc[Beat(w, beat[w])] # "off"
         /\ pc[Main(w)] \in {"work", "join"}
<1>1. /\ Shared /\ Local /\ MainShape(w) /\ Paired(w) /\ Times
      /\ beat[w] \in BeatId /\ beat[w] # Nothing /\ Main(w) \in Thread
      /\ from[Main(w)] = queue
  BY ThreadsDiffer, TimesAreNumbers DEF Typed, Handling, Local
<1>2. Beat(w, beat[w]) \in Beats /\ Spent(Beat(w, beat[w])) \in 0..Round
      /\ Beat(w, beat[w])[1] = w /\ Beat(w, beat[w])[2] = beat[w]
  BY <1>1, ThreadsDiffer, SpentBound
<1>3. held[Main(w)] \in Message
  BY <1>1 DEF Local, MainShape
<1>4. hidden[held[Main(w)]] \in Nat
  BY <1>1, <1>3 DEF Shared, Times
<1> QED BY <1>1, <1>2, <1>3, <1>4 DEF Shared, Local, MainShape, Paired

\* A step that changes nothing of the handling, and hides no message less.
LEMMA CoveredStays ==
  ASSUME Typed, Typed', NEW w \in Worker, Covered(w),
         beat'[w] = beat[w], held'[Main(w)] = held[Main(w)], from'[Main(w)] = from[Main(w)],
         assured'[w] = assured[w], queue' = queue, gone \subseteq gone',
         \A m \in Message \ gone' : hidden'[m] >= hidden[m] \/ hidden'[m] = Extension,
         \A b \in BeatId : beat[w] = b => Spent(Beat(w, b))' >= Spent(Beat(w, b))
  PROVE  Covered(w)'
<1> SUFFICES ASSUME Handling(w)', held'[Main(w)] \notin gone'
             PROVE  hidden'[held'[Main(w)]] + Spent(Beat(w, beat[w]))' >= assured'[w]
  BY DEF Covered, Beat
<1>1. Handling(w) /\ held[Main(w)] \notin gone
  BY DEF Handling
<1>2. beat[w] \in BeatId
  BY <1>1 DEF Handling, Typed, Local
<1> DEFINE m == held[Main(w)]
           before == Spent(Beat(w, beat[w]))
           after == Spent(Beat(w, beat[w]))'
<1>3. hidden[m] \in Nat /\ before \in 0..Round /\ assured[w] \in 0..Extension /\ m \in Message
  BY <1>1, InWork
<1>4. hidden[m] + before >= assured[w]
  BY <1>1 DEF Covered
<1>5. after >= before
  BY <1>2
<1>6. after \in Nat
  <2>1. Beat(w, beat[w]) \in Thread
    BY <1>2, ThreadsDiffer
  <2>2. InTime(Beat(w, beat[w]))' /\ timer'[Beat(w, beat[w])] \in Nat
    BY <2>1 DEF Typed, Local
  <2> QED BY <2>2, TimesAreNumbers DEF Spent, InTime, Times, Round
<1>7. hidden'[m] \in Nat
  BY <1>3, TimesAreNumbers DEF Typed, Shared, Times
<1>8. hidden'[m] >= hidden[m] \/ hidden'[m] = Extension
  BY <1>3
<1> HIDE DEF before, after, m
<1>9. hidden'[m] + after >= assured[w]
  BY <1>3, <1>4, <1>5, <1>6, <1>7, <1>8, TimesAreNumbers DEF Times, Round
<1> QED BY <1>9 DEF m, after

\* The property queue_url and a call that fails: time spent, no more.
LEMMA CoveredAccess ==
  ASSUME Typed, Typed', NEW t \in Thread, Access(t), NEW w \in Worker, Covered(w)
  PROVE  Covered(w)'
<1>1. UNCHANGED <<queue, hidden, gone, held, from, beat, assured>>
  BY DEF Access, Check, Resolve, ResolveFails, Store, Read, CallFails, sqs, loop
<1>2. Local /\ Times /\ InTime(t) /\ timer[t] \in Nat
  BY TimesAreNumbers DEF Typed, Local
<1>3. \A s \in Thread \ {t} : Spent(s)' = Spent(s)
  BY <1>2 DEF Local, Spent, Access, Check, Resolve, ResolveFails, Store, Read, CallFails, Goto, Within
<1>4. t \in Beats => Spent(t)' >= Spent(t)
  <2> SUFFICES ASSUME t \in Beats PROVE Spent(t)' >= Spent(t)
    OBVIOUS
  <2> USE <1>2 DEF Local, Times, InTime, Spent, Round, Goto, Within
  <2>1. CASE Check(t)
    BY <2>1 DEF Check
  <2>2. CASE Resolve(t)
    BY <2>2 DEF Resolve
  <2>3. CASE ResolveFails(t)
    BY <2>3 DEF ResolveFails
  <2>4. CASE Store(t)
    BY <2>4 DEF Store
  <2>5. CASE Read(t)
    BY <2>5 DEF Read, Use
  <2>6. CASE CallFails(t)
    BY <2>6 DEF CallFails
  <2> QED BY <2>1, <2>2, <2>3, <2>4, <2>5, <2>6 DEF Access
<1>5. \A b \in BeatId : Spent(Beat(w, b))' >= Spent(Beat(w, b))
  <2> SUFFICES ASSUME NEW b \in BeatId PROVE Spent(Beat(w, b))' >= Spent(Beat(w, b))
    OBVIOUS
  <2>1. Beat(w, b) \in Beats /\ Spent(Beat(w, b)) \in Int
    BY ThreadsDiffer, SpentBound
  <2> QED BY <1>3, <1>4, <2>1, ThreadsDiffer
<1>6. \A m \in Message : hidden[m] \in Int
  BY TimesAreNumbers DEF Typed, Shared, Times
<1> QED BY <1>1, <1>5, <1>6, CoveredStays

\* A step of a main thread.
LEMMA CoveredMain ==
  ASSUME Typed, Typed', NEW v \in Worker, MainStep(v), NEW w \in Worker, Covered(w)
  PROVE  Covered(w)'
<1>1. /\ Shared /\ Local /\ Times /\ MainShape(v) /\ Main(v) \in Thread \ Beats
      /\ Main(w) \in Thread /\ Main(v)[1] = v /\ Main(w)[1] = w
  BY ThreadsDiffer, TimesAreNumbers DEF Typed
<1>2. \A m \in Message : hidden[m] \in Nat
  BY <1>1 DEF Shared, Times
<1>3. queue' = queue /\ gone \subseteq gone'
  BY DEF MainStep, Poll, ReceiveNothing, ReceiveFails, PauseOver, Receive, Handle, WorkEnds,
         WorkFails, JoinEnds, Delete, DeleteFails, sqs
<1>4. \A m \in Message \ gone' : hidden'[m] >= hidden[m] \/ hidden'[m] = Extension
  <2>1. ASSUME NEW S \in SUBSET Message, Receive(v, S)
        PROVE  \A m \in Message \ gone' : hidden'[m] >= hidden[m]
    BY <1>1, <1>2, <2>1 DEF Receive, Visible, Times
  <2>2. CASE Delete(v)
    BY <1>1, <1>2, <2>2 DEF Delete, Shared
  <2>3. CASE hidden' = hidden
    BY <1>2, <2>3
  <2> QED BY <2>1, <2>2, <2>3 DEF MainStep, Poll, ReceiveNothing, ReceiveFails, PauseOver, Handle,
           WorkEnds, WorkFails, JoinEnds, DeleteFails, sqs
<1>5. CASE \E m \in Message, b \in BeatId : Handle(v, m, b) /\ v = w
  <2> PICK m \in Message, b \in BeatId : Handle(w, m, b)
    BY <1>5
  <2>1. Beat(w, b) \in Thread /\ Beat(w, b) # Main(w)
    BY ThreadsDiffer
  <2>2. /\ beat'[w] = b /\ held'[Main(w)] = m /\ hidden' = hidden
        /\ assured'[w] = Lesser(hidden[m], Extension)
        /\ pc'[Beat(w, b)] = "wait" /\ timer'[Beat(w, b)] = Interval
    BY <1>1, <2>1 DEF Handle, Local, sqs
  <2>3. Spent(Beat(w, b))' = 0
    BY <2>2, TimesAreNumbers DEF Spent, Times
  <2>4. hidden[m] >= assured'[w] /\ hidden[m] + 0 = hidden[m]
    BY <1>1, <1>2, <2>2 DEF Lesser, Times
  <2> QED BY <2>2, <2>3, <2>4 DEF Covered, Beat
<1>6. CASE beat'[w] # Nothing /\ ~\E m \in Message, b \in BeatId : Handle(v, m, b) /\ v = w
  <2>1. /\ \A s \in Beats : (\E b \in BeatId : s = Beat(w, b) /\ beat[w] = b) =>
                              pc'[s] = pc[s] /\ timer'[s] = timer[s]
        /\ beat'[w] = beat[w] /\ held'[Main(w)] = held[Main(w)] /\ from'[Main(w)] = from[Main(w)]
        /\ assured'[w] = assured[w]
    <3>1. CASE \E m \in Message, b \in BeatId : Handle(v, m, b)
      <4> PICK m \in Message, b \in BeatId : Handle(v, m, b)
        BY <3>1
      <4>1. v # w /\ Beat(v, b)[1] = v /\ Beat(v, b) \in Thread /\ Main(w) # Main(v)
        BY <1>6, ThreadsDiffer
      <4> QED BY <1>1, <4>1, ThreadsDiffer DEF Handle, Local
    <3>2. CASE ~\E m \in Message, b \in BeatId : Handle(v, m, b)
      <4>1. \A s \in Beats : pc'[s] = pc[s] /\ timer'[s] = timer[s]
        BY <1>1, <3>2, ThreadsDiffer DEF Local, MainStep, Poll, ReceiveNothing, ReceiveFails, PauseOver,
           Receive, WorkEnds, WorkFails, JoinEnds, Delete, DeleteFails, Done, Goto, Within
      <4>2. CASE v # w
        <5>1. Main(v) # Main(w)
          BY <4>2, ThreadsDiffer
        <5>2. /\ beat'[w] = beat[w] /\ held'[Main(w)] = held[Main(w)]
              /\ from'[Main(w)] = from[Main(w)] /\ assured'[w] = assured[w]
          BY <1>1, <3>2, <4>2, <5>1 DEF Local, MainStep, Poll, ReceiveNothing, ReceiveFails,
             PauseOver, Receive, WorkEnds, WorkFails, JoinEnds, Delete, DeleteFails, Done
        <5> QED BY <4>1, <5>2
      <4>3. CASE v = w
        <5>1. ~JoinEnds(v)
          BY <1>1, <1>6, <4>3 DEF JoinEnds, Local
        <5>2. beat'[w] = beat[w] /\ pc[Main(w)] \in {"work", "join"} /\ assured'[w] = assured[w]
          BY <1>1, <1>6, <3>2, <4>3, <5>1 DEF MainShape, MainStep, Poll, ReceiveNothing, ReceiveFails,
             PauseOver, Receive, WorkEnds, WorkFails, Delete, DeleteFails, loop
        <5>3. WorkEnds(w) \/ WorkFails(w)
          BY <3>2, <4>3, <5>1, <5>2 DEF MainStep, Poll, ReceiveNothing, ReceiveFails,
             PauseOver, Receive, Receiving, Delete, DeleteFails, Reaches
        <5> QED BY <4>1, <5>2, <5>3 DEF WorkEnds, WorkFails
      <4> QED BY <4>2, <4>3
    <3> QED BY <3>1, <3>2
  <2>2. ASSUME NEW b \in BeatId, beat[w] = b PROVE Spent(Beat(w, b))' >= Spent(Beat(w, b))
    <3>1. Beat(w, b) \in Beats /\ Spent(Beat(w, b)) \in Int
      BY ThreadsDiffer, SpentBound
    <3>2. Spent(Beat(w, b))' = Spent(Beat(w, b))
      BY <2>1, <2>2, <3>1 DEF Spent
    <3> QED BY <3>1, <3>2
  <2> QED BY <1>3, <1>4, <2>1, <2>2, CoveredStays
<1>7. CASE beat'[w] = Nothing
  BY <1>7 DEF Covered, Handling
<1> QED BY <1>5, <1>6, <1>7

\* A step of a beat, the worker's own or another.
LEMMA CoveredBeat ==
  ASSUME Typed, Typed', NEW t \in Beats, BeatStep(t), NEW w \in Worker, Covered(w)
  PROVE  Covered(w)'
<1>1. /\ Shared /\ Local /\ Times /\ InTime(t) /\ BeatShape(t) /\ timer[t] \in Nat
      /\ t \in Thread /\ t[1] \in Worker /\ t[2] \in BeatId /\ t = Beat(t[1], t[2])
      /\ Main(w) \in Thread \ {t}
  BY ThreadsDiffer, TimesAreNumbers DEF Typed, Local
<1>2. \A m \in Message : hidden[m] \in Nat
  BY <1>1 DEF Shared, Times
<1>3. /\ UNCHANGED <<queue, gone, beat>>
      /\ held'[Main(w)] = held[Main(w)] /\ from'[Main(w)] = from[Main(w)]
      /\ \A s \in Thread \ {t} : pc'[s] = pc[s] /\ timer'[s] = timer[s]
  BY <1>1 DEF Local, BeatStep, BeatEnds, BeatDue, Extend, ExtendFails, Goto, Within, loop, sqs
<1>4. \A m \in Message : hidden'[m] >= hidden[m] \/ hidden'[m] = Extension
  BY <1>1, <1>2 DEF Shared, BeatStep, BeatEnds, BeatDue, Extend, ExtendFails, sqs
<1>5. \A s \in Beats \ {t} : Spent(s)' = Spent(s)
  BY <1>3, ThreadsDiffer DEF Spent
<1>6. CASE (BeatEnds(t) \/ BeatDue(t))
  <2>1. assured'[w] = assured[w]
    BY <1>6 DEF BeatEnds, BeatDue, loop
  <2>2. Spent(t)' >= Spent(t)
    <3>1. pc[t] = "wait" /\ Spent(t) = Interval - timer[t]
      BY <1>6 DEF BeatEnds, BeatDue, Spent
    <3>2. CASE BeatEnds(t)
      <4>1. pc'[t] = "off"
        BY <1>1, <3>2 DEF BeatEnds, Within, Goto, Local
      <4>2. Spent(t)' = Round
        BY <4>1 DEF Spent
      <4> QED BY <1>1, <3>1, <4>2 DEF Round, Times
    <3>3. CASE BeatDue(t)
      <4>1. pc'[t] = "check" /\ timer[t] = 0
        BY <1>1, <3>3 DEF BeatDue, Goto, Local
      <4>2. Spent(t)' = Interval
        BY <4>1 DEF Spent
      <4> QED BY <1>1, <3>1, <4>1, <4>2 DEF Times
    <3> QED BY <1>6, <3>2, <3>3
  <2>3. \A b \in BeatId : Spent(Beat(w, b))' >= Spent(Beat(w, b))
    <3> SUFFICES ASSUME NEW b \in BeatId PROVE Spent(Beat(w, b))' >= Spent(Beat(w, b))
      OBVIOUS
    <3>1. Beat(w, b) \in Beats /\ Spent(Beat(w, b)) \in Int
      BY ThreadsDiffer, SpentBound
    <3> QED BY <1>5, <2>2, <3>1
  <2> QED BY <1>3, <1>4, <2>1, <2>3, CoveredStays
<1>7. CASE (Extend(t) \/ ExtendFails(t)) /\ t # Beat(w, beat[w])
  <2>1. assured'[w] = assured[w]
    <3>1. t[1] # w \/ beat[t[1]] # t[2]
      BY <1>1, <1>7
    <3> QED BY <1>1, <1>7, <3>1 DEF Extend, ExtendFails, Miss, Current, Local
  <2>2. ASSUME NEW b \in BeatId, beat[w] = b PROVE Spent(Beat(w, b))' >= Spent(Beat(w, b))
    <3>1. Beat(w, b) \in Beats \ {t} /\ Spent(Beat(w, b)) \in Int
      BY <1>7, <2>2, ThreadsDiffer, SpentBound
    <3> QED BY <1>5, <3>1
  <2> QED BY <1>3, <1>4, <2>1, <2>2, CoveredStays
<1>8. CASE (Extend(t) \/ ExtendFails(t)) /\ t = Beat(w, beat[w])
  <2> SUFFICES ASSUME Handling(w)', held'[Main(w)] \notin gone'
               PROVE  hidden'[held'[Main(w)]] + Spent(t)' >= assured'[w]
    BY <1>3, <1>8 DEF Covered, Beat
  <2>1. Handling(w) /\ held[Main(w)] \notin gone
    BY <1>3 DEF Handling
  <2>2. /\ beat[w] \in BeatId /\ t[1] = w /\ t[2] = beat[w] /\ Current(t) /\ Paired(w)
        /\ beat[w] # Nothing /\ from[Main(w)] = queue
        /\ held[Main(w)] \in Message /\ hidden[held[Main(w)]] \in Nat
        /\ Spent(t) \in 0..Round /\ assured[w] \in 0..Extension
        /\ hidden[held[Main(w)]] + Spent(t) >= assured[w]
    BY <1>8, <2>1, ThreadsDiffer, InWork DEF Handling, Typed, Local, Current, Covered
  <2>3. pc'[t] = "wait" /\ timer'[t] = Interval
    BY <1>1, <1>8 DEF Extend, ExtendFails, Within, Goto, Local
  <2>4. Spent(t)' = 0
    BY <1>1, <2>3 DEF Spent, Times
  <2>5. pc[t] # "off"
    BY <1>8 DEF Extend, ExtendFails, NotExtended, Reaches
  <2>6. held[t] = held[Main(w)]
    BY <1>8, <2>2, <2>5 DEF Paired
  <2>7. CASE Extend(t)
    <3>1. assured'[w] = Extension /\ hidden'[held[Main(w)]] = Extension
      BY <1>1, <2>2, <2>6, <2>7 DEF Extend, Local, Shared
    <3> QED BY <1>1, <1>3, <2>4, <3>1 DEF Times
  <2>8. CASE ExtendFails(t)
    <3>1. hidden' = hidden /\ assured'[w] = Less(assured[w], Round)
      BY <1>1, <2>2, <2>8 DEF ExtendFails, Miss, Local, sqs
    <3>2. Round \in Nat
      BY <1>1 DEF Round, Times
    <3>3. hidden[held[Main(w)]] >= Less(assured[w], Round)
      BY <1>1, <2>2, <3>2 DEF Less, Times
    <3>4. hidden'[held'[Main(w)]] = hidden[held[Main(w)]]
      BY <1>3, <3>1
    <3> QED BY <2>2, <2>4, <3>1, <3>3, <3>4
  <2> QED BY <1>8, <2>7, <2>8
<1> QED BY <1>6, <1>7, <1>8 DEF BeatStep

\* Time passes: for a message in work also for its beat.
LEMMA CoveredTick ==
  ASSUME Typed, Typed', Tick, NEW w \in Worker, Covered(w)
  PROVE  Covered(w)'
<1>1. /\ UNCHANGED <<queue, gone, pc, held, from, beat, assured>>
      /\ timer' = [t \in Thread |-> Older(timer[t])]
      /\ hidden' = [m \in Message |-> Older(hidden[m])]
      /\ \A t \in Thread : Patient(t)
  BY DEF Tick, loop
<1> SUFFICES ASSUME Handling(w)', held'[Main(w)] \notin gone'
             PROVE  hidden'[held'[Main(w)]] + Spent(Beat(w, beat[w]))' >= assured'[w]
  BY <1>1 DEF Covered, Beat
<1>2. Handling(w) /\ held[Main(w)] \notin gone
  BY <1>1 DEF Handling
<1> DEFINE m == held[Main(w)]
           b == Beat(w, beat[w])
<1>3. /\ m \in Message /\ hidden[m] \in Nat /\ b \in Beats /\ b \in Thread
      /\ b[1] = w /\ b[2] = beat[w]
      /\ pc[Main(w)] = "work" => pc[b] # "off"
      /\ pc[Main(w)] \in {"work", "join"} /\ Main(w) \in Thread /\ Main(w)[1] = w
      /\ Spent(b) \in 0..Round /\ assured[w] \in 0..Extension
  BY <1>2, InWork, ThreadsDiffer
<1>4. hidden[m] + Spent(b) >= assured[w]
  BY <1>2 DEF Covered
<1>5. /\ Times /\ InTime(b) /\ BeatShape(b) /\ timer[b] \in Nat
  BY <1>3, TimesAreNumbers DEF Typed, Local
<1> HIDE DEF m, b
<1>6. pc[b] # "off"
  BY <1>1, <1>3 DEF Patient, b
<1>7. pc[b] \in {"wait", "fetch", "call"} /\ timer[b] > 0
  BY <1>1, <1>3, <1>5, <1>6 DEF Patient, BeatShape, BeatPlace, AccessPlace
<1>8. pc'[b] = pc[b] /\ timer'[b] = timer[b] - 1 /\ hidden'[m] >= hidden[m] - 1 /\ hidden'[m] \in Nat
  BY <1>1, <1>3, <1>5, <1>7 DEF Older
<1>9. Spent(b)' = Spent(b) + 1
  <2>1. b' = b
    BY <1>1 DEF b, Beat
  <2> QED BY <1>5, <1>7, <1>8, <2>1 DEF Spent, Round, Times
<1>10. hidden'[m] + (Spent(b) + 1) >= assured[w]
  BY <1>3, <1>4, <1>5, <1>8 DEF Round, Times
<1> QED BY <1>1, <1>9, <1>10 DEF m, b

LEMMA ExposureNext == ExposureInv /\ [Next]_vars => ExposureInv'
<1> SUFFICES ASSUME ExposureInv, [Next]_vars, NEW w \in Worker PROVE Covered(w)'
  BY TypedNext DEF ExposureInv
<1>1. Typed /\ Typed' /\ Covered(w)
  BY TypedNext DEF ExposureInv
<1>2. Shared /\ Local /\ Times /\ MainShape(w) /\ Main(w) \in Thread
  BY <1>1, TimesAreNumbers, ThreadsDiffer DEF Typed
<1>3. CASE DeleteQueue
  BY <1>2, <1>3 DEF DeleteQueue, Covered, Handling, MainShape, loop
<1>4. CASE CreateQueue
  <2>1. queue' = made + 1 /\ from' = from /\ from[Main(w)] \in 0..made /\ made \in Nat
    BY <1>2, <1>4 DEF CreateQueue, Local, Shared, Times
  <2> QED BY <2>1 DEF Covered, Handling
<1>5. CASE Tick
  BY <1>1, <1>5, CoveredTick
<1>6. CASE UNCHANGED vars
  BY <1>1, <1>6 DEF vars, sqs, threads, loop, Covered, Handling, Spent
<1>7. ASSUME NEW t \in Thread, Access(t) PROVE Covered(w)'
  BY <1>1, <1>7, CoveredAccess
<1>8. ASSUME NEW v \in Worker, MainStep(v) PROVE Covered(w)'
  BY <1>1, <1>8, CoveredMain
<1>9. ASSUME NEW t \in Beats, BeatStep(t) PROVE Covered(w)'
  BY <1>1, <1>9, CoveredBeat
<1> QED BY <1>3, <1>4, <1>5, <1>6, <1>7, <1>8, <1>9 DEF Next

LEMMA ExposureInit == Init => ExposureInv
<1> SUFFICES ASSUME Init, NEW w \in Worker PROVE Covered(w)
  BY TypedInit DEF ExposureInv
<1> QED BY DEF Init, Covered, Handling

LEMMA ExposedAfterMisses == ExposureInv => ExposureTakesMisses
<1> SUFFICES ASSUME ExposureInv, NEW w \in Worker, Handling(w), Visible(held[Main(w)])
             PROVE  assured[w] <= Round
  BY DEF ExposureTakesMisses
<1>1. /\ hidden[held[Main(w)]] = 0 /\ held[Main(w)] \notin gone
      /\ Spent(Beat(w, beat[w])) \in 0..Round /\ assured[w] \in 0..Extension
  BY InWork DEF ExposureInv, Visible
<1>2. hidden[held[Main(w)]] + Spent(Beat(w, beat[w])) >= assured[w]
  BY <1>1 DEF ExposureInv, Covered
<1> QED BY <1>1, <1>2, TimesAreNumbers DEF Times, Round

\* Whatever the visibility timeout, the interval and the number of faults: a
\* message comes back while it is handled only when the beats missed in a row
\* have used up the time it was last assured of, down to one round of a beat;
\* each takes an interval and its calls, and nothing that other workers, late
\* beats or the URL do shortens it further (scaler.py:411-433).
THEOREM ExposureNeedsMisses == Spec => []ExposureTakesMisses
BY ExposureInit, ExposureNext, ExposedAfterMisses, PTL DEF Spec
=============================================================================
