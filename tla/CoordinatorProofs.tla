-------------------------- MODULE CoordinatorProofs -------------------------
(* Theorems about the coordinator service, for every number of             *)
(* coordinators and streams, every deployment, capacity, batch size and    *)
(* bound on notifications, expiries and failures.                          *)
EXTENDS Coordinator, SequenceTheorems, FiniteSetTheorems, FunctionTheorems, TLAPS

USE BoundAssumption
USE DEF busVars, rpcVars, sendVars, queueVars, boundVars, dedupVars

-----------------------------------------------------------------------------
(* Type correctness.                                                       *)

DeployOK == deploy \in Deployments
TypeInv  == DeployOK /\ TypeOK

\* The streams of a deployment connect to coordinators.
LEMMA AtType ==
  ASSUME DeployOK
  PROVE  At \in [Streams -> Coordinators] /\ Distributed \in BOOLEAN
BY DeploymentAssumption DEF DeployOK, At, Distributed

\* The state main starts from has the types.
LEMMA TypeInit == Init => TypeInv
BY DEF Init, TypeInv, DeployOK, TypeOK, HandlerPcs, SenderPcs

\* Broadcast appends a trace ID to queues and adds to counters.
LEMMA TypeBroadcast ==
  ASSUME TypeInv, NEW c \in Coordinators, NEW tid \in TraceIDs, Broadcast(c, tid)
  PROVE  /\ ch' \in [Streams -> Seq(TraceIDs)] /\ log' \in [Streams -> Seq(TraceIDs)]
         /\ rejected' \in [Streams -> Nat] /\ droppedSends' \in [Streams -> Nat]
<1>1. \A s \in Streams : /\ Append(ch[s], tid) \in Seq(TraceIDs) /\ ch[s] \in Seq(TraceIDs)
                         /\ Append(log[s], tid) \in Seq(TraceIDs) /\ log[s] \in Seq(TraceIDs)
  BY AppendProperties DEF TypeInv, TypeOK
<1>2. \A s \in Streams : rejected[s] \in Nat /\ droppedSends[s] \in Nat
  BY DEF TypeInv, TypeOK
<1> QED BY <1>1, <1>2 DEF Broadcast

\* So does PUBLISH, to the messages of the channel.
LEMMA TypePublished ==
  ASSUME TypeInv, NEW tid \in TraceIDs
  PROVE  Published(tid) \in [Coordinators -> Seq(TraceIDs)]
<1>1. \A c \in Coordinators : Append(feed[c], tid) \in Seq(TraceIDs) /\ feed[c] \in Seq(TraceIDs)
  BY AppendProperties DEF TypeInv, TypeOK
<1> QED BY <1>1 DEF Published

\* SET NX adds at most one key and one win, that of tid.
LEMMA SetNXEffect ==
  ASSUME TypeInv, NEW tid \in TraceIDs, SetNX(tid)
  PROVE  /\ decided' = decided \union {tid} /\ decided' \subseteq TraceIDs
         /\ wins' \in [TraceIDs -> Nat]
         /\ tid \in decided => wins' = wins
         /\ tid \notin decided => wins'[tid] = wins[tid] + 1
         /\ \A t \in TraceIDs : t # tid => wins'[t] = wins[t]
<1> USE DEF TypeInv, TypeOK
<1>1. wins \in [TraceIDs -> Nat] /\ wins[tid] \in Nat
  OBVIOUS
<1>2. CASE tid \in decided
  <2>1. wins' = [wins EXCEPT ![tid] = wins[tid] + 0]
    BY <1>2 DEF SetNX
  <2>2. wins' = wins
    BY <1>1, <2>1
  <2> QED BY <1>1, <1>2, <2>2 DEF SetNX
<1>3. CASE tid \notin decided
  <2>1. wins' = [wins EXCEPT ![tid] = wins[tid] + 1]
    BY <1>3 DEF SetNX
  <2>2. wins[tid] + 1 \in Nat
    BY <1>1
  <2> QED BY <1>1, <1>3, <2>1, <2>2 DEF SetNX
<1> QED BY <1>2, <1>3

\* Every step of a stream's Connect handler keeps the types.
LEMMA TypeHandler ==
  ASSUME TypeInv, NEW s \in Streams, UNCHANGED deploy,
         \/ Connect(s) \/ Unregister(s) \/ HandlerStep(s)
         \/ \E tid \in TraceIDs : Recv(s, tid)
  PROVE  TypeInv'
<1> USE DEF TypeInv, TypeOK, DeployOK
<1>1. CASE Connect(s)
  BY <1>1 DEF Connect, HandlerPcs, SenderPcs
<1>2. CASE Unregister(s) \/ CloseDone(s)
  <2>1. handler' \in [Streams -> HandlerPcs]
    BY <1>2 DEF Unregister, CloseDone, HandlerPcs
  <2>2. \A t \in Streams : handler'[t] \in {"publish", "announce"} => arg[t] \in TraceIDs
    BY <1>2 DEF Unregister, CloseDone
  <2> QED BY <1>2, <2>1, <2>2 DEF Unregister, CloseDone
<1>3. ASSUME NEW tid \in TraceIDs, Recv(s, tid) PROVE TypeInv'
  <2>1. \/ UNCHANGED <<handler, arg>>
        \/ handler' = [handler EXCEPT ![s] = "publish"] /\ arg' = [arg EXCEPT ![s] = tid]
    BY <1>3 DEF Recv
  <2>2. /\ handler' \in [Streams -> HandlerPcs] /\ arg' \in [Streams -> TraceIDs \union {NoTrace}]
        /\ \A t \in Streams : handler'[t] \in {"publish", "announce"} => arg'[t] \in TraceIDs
    <3>1. CASE UNCHANGED <<handler, arg>>
      BY <3>1
    <3>2. CASE handler' = [handler EXCEPT ![s] = "publish"] /\ arg' = [arg EXCEPT ![s] = tid]
      BY <3>2 DEF HandlerPcs
    <3> QED BY <2>1, <3>1, <3>2
  <2>3. notifies' \in 0 .. MaxNotifies
    BY <1>3 DEF Recv
  <2> QED BY <1>3, <2>2, <2>3 DEF Recv
<1>4. CASE Decide(s)
  <2>1. arg[s] \in TraceIDs
    BY <1>4 DEF Decide
  <2>2. wins' \in [TraceIDs -> Nat] /\ decided' \subseteq TraceIDs
    BY <1>4, <2>1, SetNXEffect DEF Decide
  <2>3. CASE arg[s] \in decided
    BY <1>4, <2>2, <2>3 DEF Decide, HandlerPcs
  <2>4. CASE arg[s] \notin decided
    BY <1>4, <2>1, <2>2, <2>4 DEF Decide, HandlerPcs
  <2> QED BY <2>3, <2>4
<1>5. CASE DecideFails(s)
  <2>1. arg[s] \in TraceIDs /\ faults' \in 0 .. MaxFaults
    BY <1>5 DEF DecideFails, CommandFails, Fault
  <2>2. wins' \in [TraceIDs -> Nat] /\ decided' \subseteq TraceIDs
    BY <1>5, <2>1, SetNXEffect DEF DecideFails
  <2> QED BY <1>5, <2>1, <2>2 DEF DecideFails, HandlerPcs
<1>6. CASE AnnounceFails(s)
  <2>1. arg[s] \in TraceIDs /\ faults' \in 0 .. MaxFaults
    BY <1>6 DEF AnnounceFails, CommandFails, Fault
  <2>2. feed' \in [Coordinators -> Seq(TraceIDs)]
    <3>1. Published(arg[s]) \in [Coordinators -> Seq(TraceIDs)]
      BY <2>1, TypePublished
    <3>2. feed' = feed \/ feed' = Published(arg[s])
      BY <1>6 DEF AnnounceFails
    <3> QED BY <3>1, <3>2
  <2> QED BY <1>6, <2>1, <2>2 DEF AnnounceFails, HandlerPcs
<1>8. CASE DecideAgain(s)
  <2>1. arg[s] \in TraceIDs /\ faults' \in 0 .. MaxFaults
    BY <1>8 DEF DecideAgain, AnswerLost, Fault
  <2>2. wins' \in [TraceIDs -> Nat] /\ decided' \subseteq TraceIDs
    BY <1>8, <2>1, SetNXEffect DEF DecideAgain
  <2> QED BY <1>8, <2>1, <2>2 DEF DecideAgain
<1>9. CASE AnnounceAgain(s)
  <2>1. arg[s] \in TraceIDs /\ faults' \in 0 .. MaxFaults
    BY <1>9 DEF AnnounceAgain, AnswerLost, Fault
  <2>2. feed' \in [Coordinators -> Seq(TraceIDs)]
    BY <1>9, <2>1, TypePublished DEF AnnounceAgain
  <2>3. resent' \in [TraceIDs -> Nat]
    BY <1>9, <2>1 DEF AnnounceAgain
  <2> QED BY <1>9, <2>1, <2>2, <2>3 DEF AnnounceAgain
<1>7. CASE Announce(s)
  <2>1. arg[s] \in TraceIDs /\ At[s] \in Coordinators
    BY <1>7, AtType DEF Announce
  <2>2. feed' \in [Coordinators -> Seq(TraceIDs)]
    BY SMTT(30), <1>7, <2>1, TypePublished DEF Announce
  <2>3. /\ ch' \in [Streams -> Seq(TraceIDs)] /\ log' \in [Streams -> Seq(TraceIDs)]
        /\ rejected' \in [Streams -> Nat] /\ droppedSends' \in [Streams -> Nat]
    BY <1>7, <2>1, TypeBroadcast DEF Announce
  <2> QED BY <1>7, <2>2, <2>3 DEF Announce, HandlerPcs
<1> QED BY <1>1, <1>2, <1>3, <1>4, <1>5, <1>6, <1>7, <1>8, <1>9 DEF HandlerStep

\* Every step of a stream's sender goroutine keeps the types.
LEMMA TypeSender ==
  ASSUME TypeInv, NEW s \in Streams, UNCHANGED deploy, SenderStep(s)
  PROVE  TypeInv'
<1> USE DEF TypeInv, TypeOK, DeployOK
<1>1. CASE SenderTake(s)
  <2>1. Head(ch[s]) \in TraceIDs /\ Tail(ch[s]) \in Seq(TraceIDs)
    BY <1>1, HeadTailProperties DEF SenderTake
  <2>2. <<Head(ch[s])>> \in Seq(TraceIDs)
    BY <2>1
  <2> QED BY <1>1, <2>1, <2>2 DEF SenderTake, SenderPcs
<1>2. CASE SenderMore(s)
  <2>1. Head(ch[s]) \in TraceIDs /\ Tail(ch[s]) \in Seq(TraceIDs)
    BY <1>2, HeadTailProperties DEF SenderMore
  <2>2. Append(ids[s], Head(ch[s])) \in Seq(TraceIDs)
    BY <2>1, AppendProperties
  <2> QED BY <1>2, <2>1, <2>2 DEF SenderMore
<1>3. CASE SenderFlush(s)
  BY <1>3 DEF SenderFlush, SenderPcs
<1>4. CASE SenderSend(s)
  <2>1. out[s] \o ids[s] \in Seq(TraceIDs) /\ <<>> \in Seq(TraceIDs)
    BY ConcatProperties
  <2>2. sendErrors' \in [Streams -> Nat] /\ faults' \in 0 .. MaxFaults
    <3>1. faults' = faults \/ (faults < MaxFaults /\ faults' = faults + 1)
      BY <1>4 DEF SenderSend, Fault
    <3>2. sendErrors' = sendErrors \/ sendErrors' = [sendErrors EXCEPT ![s] = @ + 1]
      BY <1>4 DEF SenderSend
    <3>3. sendErrors' \in [Streams -> Nat]
      <4>1. sendErrors[s] + 1 \in Nat
        OBVIOUS
      <4> QED BY <3>2, <4>1
    <3> QED BY <3>1, <3>3
  <2> QED BY <1>4, <2>1, <2>2 DEF SenderSend, SenderPcs
<1>5. CASE SenderDone(s)
  <2>1. droppedSends[s] + Len(ch[s]) \in Nat
    BY LenProperties
  <2> QED BY <1>5, <2>1 DEF SenderDone, SenderPcs
<1> QED BY <1>1, <1>2, <1>3, <1>4, <1>5 DEF SenderStep

\* Every step of a coordinator process, and the TTL, keep the types.
LEMMA TypeProcess ==
  ASSUME TypeInv, UNCHANGED deploy,
         \/ \E c \in Coordinators : ReceiveStep(c) \/ StopStep(c) \/ Shutdown(c) \/ Crash(c)
         \/ \E tid \in TraceIDs : Expire(tid)
  PROVE  TypeInv'
<1> USE DEF TypeInv, TypeOK, DeployOK
<1>1. ASSUME NEW c \in Coordinators, Subscribe(c) PROVE TypeInv'
  BY <1>1 DEF Subscribe
<1>2. ASSUME NEW c \in Coordinators, Receive(c) PROVE TypeInv'
  <2>1. Head(feed[c]) \in TraceIDs /\ Tail(feed[c]) \in Seq(TraceIDs)
    BY <1>2, HeadTailProperties DEF Receive
  <2>2. /\ ch' \in [Streams -> Seq(TraceIDs)] /\ log' \in [Streams -> Seq(TraceIDs)]
        /\ rejected' \in [Streams -> Nat] /\ droppedSends' \in [Streams -> Nat]
    BY <1>2, <2>1, TypeBroadcast DEF Receive
  <2> QED BY <1>2, <2>1, <2>2 DEF Receive
<1>3. ASSUME NEW c \in Coordinators, ForceStop(c) \/ Shutdown(c) PROVE TypeInv'
  BY <1>3 DEF ForceStop, Shutdown
<1>4. ASSUME NEW c \in Coordinators, Exit(c) \/ Crash(c) PROVE TypeInv'
  <2>1. Ends(c) /\ faults' \in 0 .. MaxFaults
    BY <1>4 DEF Exit, Crash, Fault
  <2> QED BY SMTT(30), <2>1 DEF Ends, HandlerPcs, SenderPcs
<1>5. ASSUME NEW tid \in TraceIDs, Expire(tid) PROVE TypeInv'
  BY <1>5 DEF Expire
<1> QED BY <1>1, <1>2, <1>3, <1>4, <1>5 DEF ReceiveStep, StopStep

\* Every step keeps the types.
LEMMA TypeNext == TypeInv /\ [Next]_vars => TypeInv'
<1> SUFFICES ASSUME TypeInv, [Next]_vars PROVE TypeInv'
  OBVIOUS
<1>1. CASE UNCHANGED vars
  BY <1>1 DEF vars, stateVars, TypeInv, TypeOK, DeployOK
<1>2. CASE Next
  BY <1>2, TypeHandler, TypeSender, TypeProcess DEF Next
<1> QED BY <1>1, <1>2

(* The variables of coordinators, streams and Redis keep their types, for   *)
(* every deployment and whatever fails (server.go, the two pub/sub back     *)
(* ends); the bounds on the counters are the model's.                       *)
THEOREM CoordinatorTypes == Spec => []TypeOK
<1>1. TypeInv => TypeOK
  BY DEF TypeInv
<1> QED BY <1>1, TypeInit, TypeNext, PTL DEF Spec
-----------------------------------------------------------------------------
(* The order of a stream and what is dropped of it.                        *)

(* The sender goroutine is started by Connect; while it waits for a first   *)
(* decision it has none in hand, and once it has returned its stream has    *)
(* left the map.                                                            *)
SenderInv ==
  \A s \in Streams :
    /\ handler[s] = "new" => sender[s] = "none"
    /\ sender[s] \in {"none", "idle"} => ids[s] = <<>>
    /\ sender[s] = "gone" => handler[s] = "closed"
StreamInv == SenderInv /\ StreamOrder /\ DropsAccounted

\* What one stream keeps, and what StreamInv says of it.
StreamOK(s) ==
  /\ handler[s] = "new" => sender[s] = "none"
  /\ sender[s] \in {"none", "idle"} => ids[s] = <<>>
  /\ sender[s] = "gone" => handler[s] = "closed"
  /\ out[s] \o ids[s] \o ch[s] = log[s]
  /\ Len(ch[s]) <= Cap /\ Len(ids[s]) <= MaxBatch
  /\ sender[s] = "gone" => Len(ids[s]) < MaxBatch
  /\ droppedSends[s] = rejected[s] + (IF sender[s] = "gone" THEN Len(ch[s]) ELSE 0)

\* The inductive invariant, stream by stream.
LEMMA StreamWise == StreamInv <=> \A s \in Streams : StreamOK(s)
BY DEF StreamInv, SenderInv, StreamOrder, DropsAccounted, StreamOK

\* A stream of which nothing but the handler changes, and not back from closed.
LEMMA StreamFrame ==
  ASSUME NEW s \in Streams, StreamOK(s),
         ids'[s] = ids[s], out'[s] = out[s], ch'[s] = ch[s], log'[s] = log[s],
         rejected'[s] = rejected[s], droppedSends'[s] = droppedSends[s],
         handler[s] = "closed" => handler'[s] = "closed",
         handler'[s] = "new" => handler[s] = "new" /\ sender'[s] = sender[s],
         \/ sender'[s] = sender[s]
         \/ sender[s] # "gone" /\ sender'[s] \in {"batch", "send", "killed"}
         \/ sender[s] = "none" /\ sender'[s] = "idle"
  PROVE  StreamOK(s)'
BY DEF StreamOK

\* Appending to the end of a concatenation.
LEMMA ConcatAppend ==
  ASSUME NEW S, NEW a \in Seq(S), NEW b \in Seq(S), NEW e \in S
  PROVE  a \o Append(b, e) = Append(a \o b, e)
<1>1. a \o b \in Seq(S) /\ <<e>> \in Seq(S)
  BY ConcatProperties
<1>2. Append(a \o b, e) = (a \o b) \o <<e>> /\ Append(b, e) = b \o <<e>>
  BY <1>1, AppendIsConcat
<1> QED BY <1>1, <1>2, ConcatAssociative

\* The same, and moving an element to the end of the batch, for decisions.
LEMMA DecisionsMove ==
  /\ \A a, b \in Seq(TraceIDs), e \in TraceIDs : a \o Append(b, e) = Append(a \o b, e)
  /\ \A a, b, c \in Seq(TraceIDs), e \in TraceIDs :
       a \o Append(b, e) \o c = a \o b \o (<<e>> \o c)
<1>1. ASSUME NEW a \in Seq(TraceIDs), NEW b \in Seq(TraceIDs), NEW e \in TraceIDs
      PROVE  a \o Append(b, e) = Append(a \o b, e)
  BY ConcatAppend
<1>2. ASSUME NEW a \in Seq(TraceIDs), NEW b \in Seq(TraceIDs), NEW c \in Seq(TraceIDs),
             NEW e \in TraceIDs
      PROVE  a \o Append(b, e) \o c = a \o b \o (<<e>> \o c)
  <2>1. a \o b \in Seq(TraceIDs) /\ <<e>> \in Seq(TraceIDs)
    BY ConcatProperties
  <2>2. a \o Append(b, e) = (a \o b) \o <<e>>
    BY <1>1, <2>1, AppendIsConcat
  <2>3. ((a \o b) \o <<e>>) \o c = (a \o b) \o (<<e>> \o c)
    BY SMTT(30), <2>1, ConcatAssociative
  <2> QED BY <2>2, <2>3
<1> QED BY <1>1, <1>2

\* A queue that is not empty is its head followed by the rest.
LEMMA HeadFirst ==
  \A q \in Seq(TraceIDs) : Len(q) # 0 => q = <<Head(q)>> \o Tail(q)
<1> SUFFICES ASSUME NEW q \in Seq(TraceIDs), Len(q) # 0 PROVE q = <<Head(q)>> \o Tail(q)
  OBVIOUS
<1>1. Head(q) \in TraceIDs /\ Tail(q) \in Seq(TraceIDs) /\ q # <<>>
  BY HeadTailProperties
<1> QED BY <1>1

\* Broadcast appends to queue and log alike, or counts a rejection.
LEMMA StreamBroadcast ==
  ASSUME TypeInv, NEW c \in Coordinators, NEW tid \in TraceIDs, Broadcast(c, tid),
         NEW s \in Streams, StreamOK(s), UNCHANGED <<sender, ids, out>>,
         handler[s] = "closed" => handler'[s] = "closed",
         handler'[s] = "new" => handler[s] = "new"
  PROVE  StreamOK(s)'
<1> DEFINE fits == At[s] = c /\ Registered(s) /\ Len(ch[s]) < Cap
           full == At[s] = c /\ Registered(s) /\ Len(ch[s]) >= Cap
<1>1. /\ ch'[s] = IF fits THEN Append(ch[s], tid) ELSE ch[s]
      /\ log'[s] = IF fits THEN Append(log[s], tid) ELSE log[s]
      /\ rejected'[s] = rejected[s] + IF full THEN 1 ELSE 0
      /\ droppedSends'[s] = droppedSends[s] + IF full THEN 1 ELSE 0
  BY DEF Broadcast
<1>2. /\ out[s] \in Seq(TraceIDs) /\ ids[s] \in Seq(TraceIDs) /\ ch[s] \in Seq(TraceIDs)
      /\ rejected[s] \in Nat /\ droppedSends[s] \in Nat /\ Len(ch[s]) \in Nat
  BY LenProperties DEF TypeInv, TypeOK
<1>0. ASSUME sender[s] # "gone", Len(ch'[s]) <= Cap, droppedSends'[s] = rejected'[s],
             rejected'[s] \in Nat,
             out'[s] \o ids'[s] \o ch'[s] = log'[s]
      PROVE  StreamOK(s)'
  <2>1. sender'[s] = sender[s] /\ ids'[s] = ids[s]
    OBVIOUS
  <2>2. /\ handler'[s] = "new" => sender'[s] = "none"
        /\ sender'[s] \in {"none", "idle"} => ids'[s] = <<>>
        /\ Len(ids'[s]) <= MaxBatch /\ sender'[s] # "gone"
    BY <1>0, <2>1 DEF StreamOK
  <2>3. droppedSends'[s] = rejected'[s] + (IF sender'[s] = "gone" THEN Len(ch'[s]) ELSE 0)
    BY <1>0, <2>2
  <2> QED BY <1>0, <2>2, <2>3 DEF StreamOK
<1>3. CASE fits
  <2>1. sender[s] # "gone"
    BY <1>3 DEF StreamOK, Registered
  <2>2. out[s] \o ids[s] \in Seq(TraceIDs)
    BY <1>2, ConcatProperties
  <2>3. (out[s] \o ids[s]) \o Append(ch[s], tid) = Append((out[s] \o ids[s]) \o ch[s], tid)
    BY ZenonT(60), <1>2, <2>2, DecisionsMove
  <2>4. Len(ch'[s]) = Len(ch[s]) + 1
    BY <1>1, <1>2, <1>3, AppendProperties
  <2>5. Len(ch'[s]) <= Cap
    BY <1>2, <1>3, <2>4
  <2>6. droppedSends'[s] = rejected'[s] /\ rejected'[s] \in Nat
    BY <1>1, <1>2, <1>3, <2>1 DEF StreamOK
  <2>7. out'[s] \o ids'[s] \o ch'[s] = log'[s]
    BY <1>1, <1>3, <2>3 DEF StreamOK
  <2> QED BY <1>0, <2>1, <2>5, <2>6, <2>7
<1>4. CASE ~fits /\ full
  <2>1. sender[s] # "gone"
    BY <1>4 DEF StreamOK, Registered
  <2>2. /\ ch'[s] = ch[s] /\ log'[s] = log[s]
        /\ rejected'[s] = rejected[s] + 1 /\ droppedSends'[s] = droppedSends[s] + 1
    BY <1>1, <1>4
  <2>3. droppedSends'[s] = rejected'[s] /\ rejected'[s] \in Nat
    BY <1>2, <2>1, <2>2 DEF StreamOK
  <2>4. Len(ch'[s]) <= Cap /\ out'[s] \o ids'[s] \o ch'[s] = log'[s]
    BY <2>2 DEF StreamOK
  <2> QED BY <1>0, <2>1, <2>3, <2>4
<1>5. CASE ~fits /\ ~full
  <2>1. /\ ch'[s] = ch[s] /\ log'[s] = log[s]
        /\ rejected'[s] = rejected[s] /\ droppedSends'[s] = droppedSends[s]
    BY <1>1, <1>2, <1>5
  <2> QED BY <2>1, StreamFrame
<1> QED BY <1>3, <1>4, <1>5

\* The sender goroutine moves decisions from queue to batch to wire in order.
LEMMA StreamSender ==
  ASSUME TypeInv, NEW s \in Streams, StreamOK(s), SenderStep(s)
  PROVE  StreamOK(s)'
<1> USE DEF TypeInv, TypeOK
<1>0. /\ out[s] \in Seq(TraceIDs) /\ ids[s] \in Seq(TraceIDs) /\ ch[s] \in Seq(TraceIDs)
      /\ rejected[s] \in Nat /\ droppedSends[s] \in Nat /\ Len(ch[s]) \in Nat
      /\ Len(ids[s]) \in Nat
  BY LenProperties
<1>1. CASE SenderTake(s)
  <2>1. /\ ids[s] = <<>> /\ ch[s] # <<>> /\ ids'[s] = <<Head(ch[s])>> /\ ch'[s] = Tail(ch[s])
        /\ sender'[s] = "batch" /\ UNCHANGED <<out, log, rejected, droppedSends, handler>>
        /\ sender[s] = "idle"
    BY <1>1 DEF SenderTake, StreamOK
  <2>2. out[s] \o <<Head(ch[s])>> \o Tail(ch[s]) = out[s] \o <<>> \o ch[s]
    <3>1. Append(<<>>, Head(ch[s])) = <<Head(ch[s])>>
      BY <1>0, <2>1
    <3>2. <<>> \in Seq(TraceIDs)
      OBVIOUS
    <3>3. Head(ch[s]) \in TraceIDs /\ Tail(ch[s]) \in Seq(TraceIDs)
      BY <1>0, <2>1, HeadTailProperties
    <3>4. ch[s] = <<Head(ch[s])>> \o Tail(ch[s])
      BY <1>0, <2>1, HeadFirst
    <3>5. out[s] \o Append(<<>>, Head(ch[s])) \o Tail(ch[s])
            = out[s] \o <<>> \o (<<Head(ch[s])>> \o Tail(ch[s]))
      BY ONLY ZenonT(60), <1>0, <3>2, <3>3, DecisionsMove
    <3> QED BY <3>1, <3>4, <3>5
  <2>3. Len(Tail(ch[s])) <= Cap /\ Len(<<Head(ch[s])>>) <= MaxBatch
    BY <1>0, <2>1 DEF StreamOK
  <2> QED BY <2>1, <2>2, <2>3 DEF StreamOK
<1>2. CASE SenderMore(s)
  <2>1. /\ ch[s] # <<>> /\ ids'[s] = Append(ids[s], Head(ch[s])) /\ ch'[s] = Tail(ch[s])
        /\ UNCHANGED <<sender, out, log, rejected, droppedSends, handler>>
        /\ sender[s] = "batch" /\ Len(ids[s]) < MaxBatch
    BY <1>2 DEF SenderMore
  <2>2. out[s] \o Append(ids[s], Head(ch[s])) \o Tail(ch[s]) = out[s] \o ids[s] \o ch[s]
    <3>1. Head(ch[s]) \in TraceIDs /\ Tail(ch[s]) \in Seq(TraceIDs)
      BY <1>0, <2>1, HeadTailProperties
    <3>3. ch[s] = <<Head(ch[s])>> \o Tail(ch[s])
      BY <1>0, <2>1, HeadFirst
    <3>2. out[s] \o Append(ids[s], Head(ch[s])) \o Tail(ch[s])
            = out[s] \o ids[s] \o (<<Head(ch[s])>> \o Tail(ch[s]))
      BY ONLY ZenonT(60), <1>0, <3>1, DecisionsMove
    <3> QED BY <3>2, <3>3
  <2>3. Len(Tail(ch[s])) <= Cap /\ Len(Append(ids[s], Head(ch[s]))) <= MaxBatch
    <3>1. Len(ch[s]) <= Cap
      BY DEF StreamOK
    <3>2. Len(Tail(ch[s])) = Len(ch[s]) - 1 /\ Len(Append(ids[s], Head(ch[s]))) = Len(ids[s]) + 1
      BY <1>0, <2>1, HeadTailProperties, AppendProperties
    <3>3. Len(ch[s]) \in Nat /\ Len(ids[s]) \in Nat
      BY <1>0
    <3> QED BY <2>1, <3>1, <3>2, <3>3, BoundAssumption
  <2> QED BY <2>1, <2>2, <2>3 DEF StreamOK
<1>3. CASE SenderFlush(s)
  <2>1. /\ handler[s] # "new" /\ sender[s] = "batch" /\ sender'[s] = "send"
        /\ UNCHANGED <<handler, ids, out, queueVars>>
    BY <1>3 DEF SenderFlush, StreamOK
  <2> QED BY <2>1, StreamFrame
<1>4. CASE SenderSend(s)
  <2>1. /\ ids'[s] = <<>> /\ out'[s] = out[s] \o ids[s] /\ sender'[s] = "idle"
        /\ UNCHANGED <<ch, log, rejected, droppedSends, handler>> /\ sender[s] = "send"
    BY <1>4 DEF SenderSend
  <2>2. (out[s] \o ids[s]) \o <<>> \o ch[s] = out[s] \o ids[s] \o ch[s]
    BY <1>0
  <2>3. Len(<<>>) <= MaxBatch
    OBVIOUS
  <2> QED BY <2>1, <2>2, <2>3 DEF StreamOK
<1>5. CASE SenderDone(s)
  <2>1. /\ handler[s] = "closed" /\ sender[s] # "gone" /\ sender'[s] = "gone"
        /\ droppedSends'[s] = droppedSends[s] + Len(ch[s])
        /\ UNCHANGED <<handler, ids, out, ch, log, rejected>>
        /\ Len(ids[s]) < MaxBatch
    <3>1. sender[s] = "idle" => Len(ids[s]) = 0
      BY DEF StreamOK
    <3> QED BY <1>5, <3>1 DEF SenderDone
  <2>2. droppedSends[s] = rejected[s] /\ Len(ch[s]) <= Cap /\ Len(ids[s]) <= MaxBatch
    BY <2>1 DEF StreamOK
  <2>3. out[s] \o ids[s] \o ch[s] = log[s]
    BY DEF StreamOK
  <2> QED BY ONLY <2>1, <2>2, <2>3 DEF StreamOK
<1> QED BY <1>1, <1>2, <1>3, <1>4, <1>5 DEF SenderStep

\* Every step keeps what StreamInv says of every stream.
LEMMA StreamNext == TypeInv /\ StreamInv /\ [Next]_vars => StreamInv'
<1> SUFFICES ASSUME TypeInv, StreamInv, [Next]_vars, NEW s \in Streams PROVE StreamOK(s)'
  BY DEF StreamInv, SenderInv, StreamOrder, DropsAccounted, StreamOK
<1>0. StreamOK(s)
  BY StreamWise
<1> USE DEF TypeInv, TypeOK
<1>1. CASE UNCHANGED vars
  BY <1>0, <1>1, StreamFrame DEF vars, stateVars
<1>2. ASSUME NEW t \in Streams,
             \/ Connect(t) \/ Unregister(t) \/ (\E tid \in TraceIDs : Recv(t, tid))
             \/ CloseDone(t) \/ Decide(t) \/ DecideAgain(t) \/ DecideFails(t)
             \/ AnnounceAgain(t) \/ AnnounceFails(t)
      PROVE  StreamOK(s)'
  <2>1. CASE Connect(t)
    <3>1. handler[t] = "new" /\ UNCHANGED <<ids, out, queueVars>>
      BY <2>1 DEF Connect
    <3>2. /\ handler'[s] = IF s = t THEN "recv" ELSE handler[s]
          /\ sender'[s] = IF s = t THEN "idle" ELSE sender[s]
          /\ s = t => sender[s] = "none"
      BY <1>0, <2>1, <3>1 DEF Connect, StreamOK
    <3> QED BY <1>0, <3>1, <3>2, StreamFrame
  <2>2. CASE ~Connect(t)
    <3>1. UNCHANGED <<sender, ids, out, queueVars>>
      BY <1>2, <2>2 DEF Unregister, Recv, CloseDone, Decide, DecideAgain, DecideFails,
                        AnnounceAgain, AnnounceFails
    <3>2. /\ handler[s] = "closed" => handler'[s] = "closed"
          /\ handler'[s] = "new" => handler[s] = "new"
      BY <1>2, <2>2 DEF Unregister, Recv, CloseDone, Decide, DecideAgain, DecideFails,
                        AnnounceAgain, AnnounceFails
    <3> QED BY <1>0, <3>1, <3>2, StreamFrame
  <2> QED BY <2>1, <2>2
<1>3. ASSUME NEW t \in Streams, Announce(t) PROVE StreamOK(s)'
  <2>1. /\ UNCHANGED <<sender, ids, out>> /\ arg[t] \in TraceIDs /\ At[t] \in Coordinators
        /\ handler[s] = "closed" => handler'[s] = "closed"
        /\ handler'[s] = "new" => handler[s] = "new"
    BY <1>3, AtType DEF Announce
  <2>2. CASE UNCHANGED queueVars
    BY <1>0, <2>1, <2>2, StreamFrame
  <2>3. CASE Broadcast(At[t], arg[t])
    BY <1>0, <2>1, <2>3, StreamBroadcast
  <2> QED BY <1>3, <2>2, <2>3 DEF Announce
<1>4. ASSUME NEW t \in Streams, SenderStep(t) PROVE StreamOK(s)'
  <2>1. CASE s = t
    BY <1>0, <1>4, <2>1, StreamSender
  <2>2. CASE s # t
    <3>1. /\ ids'[s] = ids[s] /\ out'[s] = out[s] /\ ch'[s] = ch[s] /\ log'[s] = log[s]
          /\ rejected'[s] = rejected[s] /\ droppedSends'[s] = droppedSends[s]
          /\ sender'[s] = sender[s] /\ handler'[s] = handler[s]
      BY <1>4, <2>2 DEF SenderStep, SenderTake, SenderMore, SenderFlush, SenderSend, SenderDone
    <3> QED BY <1>0, <3>1, StreamFrame
  <2> QED BY <2>1, <2>2
<1>5. ASSUME NEW c \in Coordinators, Receive(c) PROVE StreamOK(s)'
  <2>1. Head(feed[c]) \in TraceIDs
    BY <1>5, HeadTailProperties DEF Receive
  <2> QED BY <1>0, <1>5, <2>1, StreamBroadcast DEF Receive
<1>6. ASSUME NEW c \in Coordinators, Exit(c) \/ Crash(c) PROVE StreamOK(s)'
  <2>1. Ends(c)
    BY <1>6 DEF Exit, Crash
  <2>2. /\ UNCHANGED <<ids, out, queueVars>>
        /\ handler'[s] = IF At[s] = c THEN "closed" ELSE handler[s]
        /\ sender'[s] = IF At[s] = c /\ sender[s] # "gone" THEN "killed" ELSE sender[s]
    BY <2>1 DEF Ends
  <2> QED BY <1>0, <2>2, StreamFrame
<1>7. CASE \/ \E c \in Coordinators : Subscribe(c) \/ ForceStop(c) \/ Shutdown(c)
           \/ \E tid \in TraceIDs : Expire(tid)
  <2>1. UNCHANGED <<sender, handler, ids, out, queueVars>>
    BY <1>7 DEF Subscribe, ForceStop, Shutdown, Expire
  <2> QED BY <1>0, <2>1, StreamFrame
<1> QED
  BY <1>1, <1>2, <1>3, <1>4, <1>5, <1>6, <1>7
     DEF Next, HandlerStep, ReceiveStep, StopStep

\* No stream has been served in the state main starts from.
LEMMA StreamInit == Init => StreamInv
<1> SUFFICES ASSUME Init, NEW s \in Streams PROVE StreamOK(s)
  BY StreamWise
<1>1. <<>> \o <<>> \o <<>> = <<>> /\ Len(<<>>) = 0
  OBVIOUS
<1> QED BY <1>1 DEF Init, StreamOK

(* Between Broadcast and stream.Send no decision is repeated or overtaken,  *)
(* neither queue nor batch outgrows its bound, and what a sender discards   *)
(* when it returns is less than a batch, for any number of streams and      *)
(* coordinators and however streams end, commands fail or are repeated and  *)
(* processes crash.                                                         *)
THEOREM StreamsInOrder == Spec => []StreamOrder
<1>1. StreamInv => StreamOrder
  BY DEF StreamInv
<1> QED BY <1>1, TypeInit, TypeNext, StreamInit, StreamNext, PTL DEF Spec

(* droppedSends counts every decision that met a full queue, and once the   *)
(* sender has returned also those left in the queue, of which there are     *)
(* then never more: the stream left the map before done was closed.         *)
THEOREM EveryDropCounted == Spec => []DropsAccounted
<1>1. StreamInv => DropsAccounted
  BY DEF StreamInv
<1> QED BY <1>1, TypeInit, TypeNext, StreamInit, StreamNext, PTL DEF Spec
-----------------------------------------------------------------------------
(* Deduplication.                                                          *)

\* Where tid occurs in a sequence.
Places(seq, tid) == {i \in 1 .. Len(seq) : seq[i] = tid}

\* There are finitely many such places.
LEMMA CountType ==
  ASSUME NEW q \in Seq(TraceIDs), NEW tid
  PROVE  /\ IsFiniteSet(Places(q, tid)) /\ Count(q, tid) = Cardinality(Places(q, tid))
         /\ Count(q, tid) \in Nat
<1>1. Len(q) \in Nat
  BY LenProperties
<1>2. IsFiniteSet(1 .. Len(q))
  BY <1>1, FS_Interval
<1>3. Places(q, tid) \in SUBSET (1 .. Len(q))
  BY DEF Places
<1>4. IsFiniteSet(Places(q, tid))
  BY <1>2, <1>3, FS_Subset
<1>5. Count(q, tid) = Cardinality(Places(q, tid))
  BY DEF Count, Places
<1> QED BY <1>4, <1>5, FS_CardinalityType

\* An empty sequence has none.
LEMMA CountEmpty == \A tid : Count(<<>>, tid) = 0
<1> SUFFICES ASSUME NEW tid PROVE Count(<<>>, tid) = 0
  OBVIOUS
<1>1. {i \in 1 .. Len(<<>>) : <<>>[i] = tid} = {}
  OBVIOUS
<1> QED BY <1>1, FS_EmptySet DEF Count

\* Appending an element adds its own place.
LEMMA CountAppend ==
  ASSUME NEW q \in Seq(TraceIDs), NEW e \in TraceIDs, NEW tid
  PROVE  Count(Append(q, e), tid) = Count(q, tid) + IF e = tid THEN 1 ELSE 0
<1>1. /\ Append(q, e) \in Seq(TraceIDs) /\ Len(q) \in Nat
      /\ Len(Append(q, e)) = Len(q) + 1 /\ Append(q, e)[Len(q) + 1] = e
      /\ \A i \in 1 .. Len(q) : Append(q, e)[i] = q[i]
  BY AppendProperties, LenProperties
<1>2. /\ IsFiniteSet(Places(q, tid)) /\ Count(q, tid) = Cardinality(Places(q, tid))
      /\ Count(Append(q, e), tid) = Cardinality(Places(Append(q, e), tid))
      /\ Count(q, tid) \in Nat
  BY <1>1, CountType
<1>3. CASE e = tid
  <2>1. Places(Append(q, e), tid) = Places(q, tid) \union {Len(q) + 1}
    BY <1>1, <1>3 DEF Places
  <2>2. Len(q) + 1 \notin Places(q, tid)
    BY <1>1 DEF Places
  <2>3. Cardinality(Places(q, tid) \union {Len(q) + 1}) = Cardinality(Places(q, tid)) + 1
    BY <1>2, <2>2, FS_AddElement
  <2> QED BY <1>2, <1>3, <2>1, <2>3
<1>4. CASE e # tid
  <2>1. Places(Append(q, e), tid) = Places(q, tid)
    BY <1>1, <1>4 DEF Places
  <2> QED BY <1>2, <1>4, <2>1
<1> QED BY <1>3, <1>4

\* Taking the head away takes its own place away.
LEMMA CountTail ==
  ASSUME NEW q \in Seq(TraceIDs), q # <<>>, NEW tid
  PROVE  Count(q, tid) = Count(Tail(q), tid) + IF Head(q) = tid THEN 1 ELSE 0
<1>1. /\ Tail(q) \in Seq(TraceIDs) /\ Len(q) \in Nat /\ Len(q) # 0
      /\ Len(Tail(q)) = Len(q) - 1 /\ Head(q) = q[1]
      /\ \A i \in 1 .. Len(Tail(q)) : Tail(q)[i] = q[i + 1]
  BY HeadTailProperties, LenProperties, EmptySeq
<1>2. /\ IsFiniteSet(Places(q, tid)) /\ Count(q, tid) = Cardinality(Places(q, tid))
      /\ Count(Tail(q), tid) = Cardinality(Places(Tail(q), tid))
      /\ IsFiniteSet(Places(Tail(q), tid))
      /\ Count(q, tid) \in Nat /\ Count(Tail(q), tid) \in Nat
  BY <1>1, CountType
<1> DEFINE rest == Places(q, tid) \ {1}
           shift == [i \in Places(Tail(q), tid) |-> i + 1]
<1>3. Cardinality(rest) = Cardinality(Places(Tail(q), tid))
  <2>1. shift \in [Places(Tail(q), tid) -> rest]
    BY <1>1 DEF Places
  <2>2. \A i, j \in Places(Tail(q), tid) : shift[i] = shift[j] => i = j
    BY <1>1 DEF Places
  <2>3. \A j \in rest : \E i \in Places(Tail(q), tid) : shift[i] = j
    <3> SUFFICES ASSUME NEW j \in rest
                 PROVE  j - 1 \in Places(Tail(q), tid) /\ shift[j - 1] = j
      OBVIOUS
    <3>1. j \in 2 .. Len(q) /\ q[j] = tid
      BY <1>1 DEF Places
    <3> QED BY <1>1, <3>1 DEF Places
  <2> HIDE DEF shift, rest
  <2>4. shift \in Bijection(Places(Tail(q), tid), rest)
    BY <2>1, <2>2, <2>3, Fun_IsBij
  <2>5. ExistsBijection(Places(Tail(q), tid), rest)
    BY <2>4, Fun_ExistsBij
  <2> QED BY <1>2, <2>5, FS_Bijection
<1>4. Cardinality(rest) = IF 1 \in Places(q, tid) THEN Cardinality(Places(q, tid)) - 1
                                                ELSE Cardinality(Places(q, tid))
  BY <1>2, FS_RemoveElement
<1>5. 1 \in Places(q, tid) <=> Head(q) = tid
  BY <1>1 DEF Places
<1> QED BY <1>2, <1>3, <1>4, <1>5

\* The one coordinator of single mode has ended; nobody can connect again.
Closed ==
  ~Distributed /\ \A s \in Streams : handler[s] \in {"new", "closed"} /\ phase[At[s]] = "down"

(* A key that is not set was set at most once per expiry, unless it was      *)
(* lost with the process that kept it; in single mode only the coordinator   *)
(* the streams connect to runs at all.                                       *)
WinsInv ==
  /\ \A tid \in TraceIDs :
       wins[tid] <= 1 + expiries /\ (tid \notin decided => wins[tid] <= expiries \/ Closed)
  /\ ~Distributed => \A c \in Coordinators : (\A s \in Streams : At[s] # c) => phase[c] = "down"

\* A process that has ended stays so, and so does a service that has.
LEMMA EndsForGood ==
  ASSUME TypeInv, Next
  PROVE  /\ \A c \in Coordinators : phase[c] = "down" => phase'[c] = "down"
         /\ Closed => Closed'
<1> USE DEF TypeInv, TypeOK
<1>0. At \in [Streams -> Coordinators] /\ At' = At /\ Distributed' = Distributed
  BY AtType DEF Next, At, Distributed
<1>1. ASSUME NEW s \in Streams,
             \/ Connect(s) \/ Unregister(s) \/ (\E tid \in TraceIDs : Recv(s, tid))
             \/ HandlerStep(s)
      PROVE  UNCHANGED phase /\ ~Closed
  BY <1>1 DEF Connect, Unregister, Recv, HandlerStep, CloseDone, Decide, DecideAgain,
              DecideFails, Announce, AnnounceAgain, AnnounceFails, Closed
<1>2. ASSUME NEW s \in Streams, SenderStep(s) PROVE UNCHANGED <<phase, handler>>
  BY <1>2 DEF SenderStep, SenderTake, SenderMore, SenderFlush, SenderSend, SenderDone
<1>3. ASSUME NEW c \in Coordinators, ReceiveStep(c) \/ ForceStop(c) \/ Shutdown(c)
      PROVE  /\ UNCHANGED handler
             /\ \A b \in Coordinators : phase[b] = "down" => phase'[b] = "down"
  BY <1>3 DEF ReceiveStep, Subscribe, Receive, ForceStop, Shutdown
<1>4. ASSUME NEW c \in Coordinators, Exit(c) \/ Crash(c)
      PROVE  /\ handler' = [s \in Streams |-> IF At[s] = c THEN "closed" ELSE handler[s]]
             /\ \A b \in Coordinators : phase[b] = "down" => phase'[b] = "down"
  BY <1>4 DEF Exit, Crash, Ends
<1>5. ASSUME NEW tid \in TraceIDs, Expire(tid) PROVE UNCHANGED <<phase, handler>>
  BY <1>5 DEF Expire
<1>6. ASSUME \A c \in Coordinators : phase[c] = "down" => phase'[c] = "down",
             \A s \in Streams : handler'[s] = handler[s] \/ handler'[s] = "closed"
      PROVE  Closed => Closed'
  BY <1>0, <1>6 DEF Closed
<1>7. ASSUME NEW s \in Streams,
             \/ Connect(s) \/ Unregister(s) \/ (\E tid \in TraceIDs : Recv(s, tid))
             \/ HandlerStep(s) \/ SenderStep(s)
      PROVE  UNCHANGED phase /\ (Closed => Closed')
  <2>1. CASE SenderStep(s)
    BY <1>2, <1>6, <2>1
  <2>2. CASE ~SenderStep(s)
    BY <1>1, <1>7, <2>2
  <2> QED BY <2>1, <2>2
<1>8. ASSUME NEW c \in Coordinators, ReceiveStep(c) \/ StopStep(c) \/ Shutdown(c) \/ Crash(c)
      PROVE  /\ \A b \in Coordinators : phase[b] = "down" => phase'[b] = "down"
             /\ Closed => Closed'
  <2>1. CASE Exit(c) \/ Crash(c)
    BY <1>4, <1>6, <2>1
  <2>2. CASE ReceiveStep(c) \/ ForceStop(c) \/ Shutdown(c)
    BY <1>3, <1>6, <2>2
  <2> QED BY <1>8, <2>1, <2>2 DEF StopStep
<1>9. ASSUME NEW tid \in TraceIDs, Expire(tid) PROVE UNCHANGED phase /\ (Closed => Closed')
  BY <1>5, <1>6, <1>9
<1>10. CASE \E s \in Streams :
             \/ Connect(s) \/ Unregister(s) \/ (\E tid \in TraceIDs : Recv(s, tid))
             \/ HandlerStep(s) \/ SenderStep(s)
  BY <1>7, <1>10
<1>11. CASE \E c \in Coordinators : ReceiveStep(c) \/ StopStep(c) \/ Shutdown(c) \/ Crash(c)
  BY <1>8, <1>11
<1>12. CASE \E tid \in TraceIDs : Expire(tid)
  BY <1>9, <1>12
<1> QED BY <1>10, <1>11, <1>12 DEF Next

\* Nothing is decided in the state main starts from.
LEMMA WinsInit == Init => WinsInv
<1> SUFFICES ASSUME Init PROVE WinsInv
  OBVIOUS
<1>1. /\ \A tid \in TraceIDs : wins[tid] = 0
      /\ expiries = 0
  BY DEF Init
<1>2. ASSUME ~Distributed, NEW c \in Coordinators, \A s \in Streams : At[s] # c
      PROVE  phase[c] = "down"
  BY <1>2 DEF Init, Homes
<1> QED BY <1>1, <1>2 DEF WinsInv

\* Steps that set no key, lose none and let none expire.
LEMMA WinsFrame ==
  ASSUME TypeInv, WinsInv, Next, UNCHANGED <<wins, expiries>>, decided \subseteq decided'
  PROVE  WinsInv'
<1>1. At' = At /\ Distributed' = Distributed
  BY DEF Next, At, Distributed
<1>2. ASSUME NEW tid \in TraceIDs
      PROVE  /\ wins'[tid] <= 1 + expiries'
             /\ tid \notin decided' => wins'[tid] <= expiries' \/ Closed'
  BY EndsForGood DEF WinsInv
<1>3. ASSUME ~Distributed', NEW c \in Coordinators, \A s \in Streams : At'[s] # c
      PROVE  phase'[c] = "down"
  BY <1>1, <1>3, EndsForGood DEF WinsInv
<1> QED BY <1>2, <1>3 DEF WinsInv

\* Every step keeps WinsInv.
LEMMA WinsNext == TypeInv /\ WinsInv /\ [Next]_vars => WinsInv'
<1> SUFFICES ASSUME TypeInv, WinsInv, [Next]_vars PROVE WinsInv'
  OBVIOUS
<1>0. CASE UNCHANGED vars
  BY <1>0 DEF WinsInv, Closed, At, Distributed, vars, stateVars
<1> SUFFICES ASSUME Next PROVE WinsInv'
  BY <1>0
<1>1. /\ At \in [Streams -> Coordinators] /\ At' = At /\ Distributed' = Distributed
      /\ expiries \in Nat /\ \A tid \in TraceIDs : wins[tid] \in Nat
  BY AtType DEF Next, At, Distributed, TypeInv, TypeOK
<1>2. ASSUME ~Distributed', NEW c \in Coordinators, \A s \in Streams : At'[s] # c
      PROVE  phase'[c] = "down"
  BY <1>1, <1>2, EndsForGood DEF WinsInv
<1>3. ASSUME NEW s \in Streams, SetNX(arg[s]), handler[s] = "publish", UNCHANGED expiries
      PROVE  WinsInv'
  <2>1. arg[s] \in TraceIDs /\ ~Closed
    BY <1>3 DEF Closed, TypeInv, TypeOK
  <2>2. /\ decided' = decided \union {arg[s]}
        /\ arg[s] \in decided => wins' = wins
        /\ arg[s] \notin decided => wins'[arg[s]] = wins[arg[s]] + 1
        /\ \A t \in TraceIDs : t # arg[s] => wins'[t] = wins[t]
    BY <1>3, <2>1, SetNXEffect
  <2>3. CASE arg[s] \in decided
    BY <1>3, <2>2, <2>3, WinsFrame
  <2>4. CASE arg[s] \notin decided
    <3>1. wins[arg[s]] <= expiries
      BY <2>1, <2>4 DEF WinsInv
    <3>2. ASSUME NEW tid \in TraceIDs
          PROVE  /\ wins'[tid] <= 1 + expiries'
                 /\ tid \notin decided' => wins'[tid] <= expiries' \/ Closed'
      <4>1. CASE tid = arg[s]
        BY <1>1, <1>3, <2>2, <2>4, <3>1, <4>1
      <4>2. CASE tid # arg[s]
        BY <1>3, <2>1, <2>2, <4>2 DEF WinsInv
      <4> QED BY <4>1, <4>2
    <3> QED BY <1>2, <3>2 DEF WinsInv
  <2> QED BY <2>3, <2>4
<1>4. ASSUME NEW c \in Coordinators, Exit(c) \/ Crash(c) PROVE WinsInv'
  <2>1. Ends(c) /\ phase[c] # "down"
    BY <1>4 DEF Exit, Crash, Up
  <2>2. CASE Distributed
    BY <2>1, <2>2, WinsFrame DEF Ends
  <2>3. CASE ~Distributed
    <3>1. \E s \in Streams : At[s] = c
      BY <2>1, <2>3 DEF WinsInv
    <3>2. \A s \in Streams : At[s] = c
      BY <2>3, <3>1, DeploymentAssumption DEF TypeInv, DeployOK, At, Distributed
    <3>3. Closed'
      BY <1>1, <2>1, <2>3, <3>2 DEF Ends, Closed, TypeInv, TypeOK
    <3>4. \A tid \in TraceIDs : wins'[tid] <= 1 + expiries'
      BY <2>1 DEF Ends, WinsInv
    <3> QED BY <1>2, <3>3, <3>4 DEF WinsInv
  <2> QED BY <2>2, <2>3
<1>5. ASSUME NEW t \in TraceIDs, Expire(t) PROVE WinsInv'
  <2>1. /\ wins' = wins /\ expiries' = expiries + 1 /\ decided' = decided \ {t}
    BY <1>5 DEF Expire
  <2>2. ASSUME NEW tid \in TraceIDs
        PROVE  wins'[tid] <= 1 + expiries' /\ wins'[tid] <= expiries'
    BY <1>1, <2>1 DEF WinsInv
  <2> QED BY <1>2, <2>2 DEF WinsInv
<1>6. ASSUME NEW s \in Streams,
             \/ Connect(s) \/ Unregister(s) \/ (\E tid \in TraceIDs : Recv(s, tid))
             \/ CloseDone(s) \/ HandlerStep(s)
      PROVE  WinsInv'
  <2>1. CASE SetNX(arg[s]) /\ handler[s] = "publish" /\ UNCHANGED expiries
    BY <1>3, <2>1
  <2>2. CASE UNCHANGED <<wins, expiries, decided>>
    BY <2>2, WinsFrame
  <2> QED BY <1>6, <2>1, <2>2
          DEF Connect, Unregister, Recv, HandlerStep, CloseDone, Decide, DecideAgain,
              DecideFails, Announce, AnnounceAgain, AnnounceFails
<1>7. ASSUME NEW s \in Streams, SenderStep(s) PROVE WinsInv'
  <2>1. UNCHANGED <<wins, expiries, decided>>
    BY <1>7 DEF SenderStep, SenderTake, SenderMore, SenderFlush, SenderSend, SenderDone
  <2> QED BY <2>1, WinsFrame
<1>8. ASSUME NEW c \in Coordinators, ReceiveStep(c) \/ ForceStop(c) \/ Shutdown(c)
      PROVE  WinsInv'
  <2>1. UNCHANGED <<wins, expiries, decided>>
    BY <1>8 DEF ReceiveStep, Subscribe, Receive, ForceStop, Shutdown
  <2> QED BY <2>1, WinsFrame
<1>9. CASE \E s \in Streams :
             \/ Connect(s) \/ Unregister(s) \/ (\E tid \in TraceIDs : Recv(s, tid))
             \/ HandlerStep(s) \/ SenderStep(s)
  BY <1>6, <1>7, <1>9
<1>10. CASE \E c \in Coordinators : ReceiveStep(c) \/ StopStep(c) \/ Shutdown(c) \/ Crash(c)
  BY <1>4, <1>8, <1>10 DEF StopStep
<1>11. CASE \E tid \in TraceIDs : Expire(tid)
  BY <1>5, <1>11
<1> QED BY <1>9, <1>10, <1>11 DEF Next

\* The handlers that set the key of tid and have not announced it yet.
Announcers(tid) == {h \in Streams : handler[h] = "announce" /\ arg[h] = tid}

(* What was offered to s, is on its way to it and is still to be announced   *)
(* comes each of a set of the key or of a repeated PUBLISH of its own.       *)
OfferedOK(s, tid) ==
  Count(log[s], tid) + Count(feed[At[s]], tid) + Cardinality(Announcers(tid))
    <= wins[tid] + resent[tid]
OfferInv == \A s \in Streams, tid \in TraceIDs : OfferedOK(s, tid)

\* The three terms are numbers.
LEMMA OfferTypes ==
  ASSUME TypeInv, NEW s \in Streams, NEW tid \in TraceIDs
  PROVE  /\ IsFiniteSet(Announcers(tid)) /\ Cardinality(Announcers(tid)) \in Nat
         /\ Count(log[s], tid) \in Nat /\ Count(feed[At[s]], tid) \in Nat
         /\ wins[tid] \in Nat /\ resent[tid] \in Nat
         /\ log[s] \in Seq(TraceIDs) /\ feed[At[s]] \in Seq(TraceIDs)
<1>1. log[s] \in Seq(TraceIDs) /\ feed[At[s]] \in Seq(TraceIDs) /\ wins[tid] \in Nat
      /\ resent[tid] \in Nat
  BY AtType DEF TypeInv, TypeOK
<1>2. Announcers(tid) \in SUBSET Streams
  BY DEF Announcers
<1>3. IsFiniteSet(Announcers(tid))
  BY <1>2, FS_Subset, DeploymentAssumption
<1> QED BY <1>1, <1>3, CountType, FS_CardinalityType

\* A step that offers nothing, and after which no more is to be announced.
LEMMA OfferFrame ==
  ASSUME TypeInv, TypeInv', UNCHANGED deploy, NEW s \in Streams, NEW tid \in TraceIDs,
         OfferedOK(s, tid),
         log'[s] = log[s], wins[tid] <= wins'[tid], resent'[tid] = resent[tid],
         feed'[At[s]] = feed[At[s]] \/ feed'[At[s]] = <<>>,
         \A h \in Streams : handler'[h] = "announce" /\ arg'[h] = tid
                          => handler[h] = "announce" /\ arg[h] = tid
  PROVE  OfferedOK(s, tid)'
<1>1. At' = At
  BY DEF At
<1>2. Announcers(tid)' \in SUBSET Announcers(tid)
  BY DEF Announcers
<1>3. Cardinality(Announcers(tid)') <= Cardinality(Announcers(tid))
  BY <1>2, OfferTypes, FS_Subset
<1>4. Cardinality(Announcers(tid)') \in Nat
  BY <1>2, OfferTypes, FS_Subset, FS_CardinalityType
<1>5. Count(feed'[At[s]], tid) <= Count(feed[At[s]], tid) /\ Count(feed'[At[s]], tid) \in Nat
  BY CountEmpty, OfferTypes
<1>6. /\ wins[tid] \in Nat /\ resent[tid] \in Nat /\ wins'[tid] \in Nat
      /\ Count(log[s], tid) \in Nat /\ Count(feed[At[s]], tid) \in Nat
      /\ Cardinality(Announcers(tid)) \in Nat
  BY OfferTypes DEF TypeInv, TypeOK
<1>7. /\ OfferedOK(s, tid)' <=> Count(log'[s], tid) + Count(feed'[At[s]], tid)
                                + Cardinality(Announcers(tid)') <= wins'[tid] + resent'[tid]
      /\ Count(log[s], tid) + Count(feed[At[s]], tid) + Cardinality(Announcers(tid))
           <= wins[tid] + resent[tid]
  BY <1>1 DEF OfferedOK
<1> QED BY <1>3, <1>4, <1>5, <1>6, <1>7

\* An announcement is used up, and at most one offer or one message comes of it.
LEMMA OfferAnnounce ==
  ASSUME TypeInv, TypeInv', UNCHANGED deploy, NEW s \in Streams, NEW tid \in TraceIDs,
         OfferedOK(s, tid), NEW h \in Streams, Announce(h) \/ AnnounceFails(h)
  PROVE  OfferedOK(s, tid)'
<1>0. /\ IsFiniteSet(Announcers(tid)) /\ Cardinality(Announcers(tid)) \in Nat
      /\ Count(log[s], tid) \in Nat /\ Count(feed[At[s]], tid) \in Nat /\ wins[tid] \in Nat
      /\ resent[tid] \in Nat
      /\ log[s] \in Seq(TraceIDs) /\ feed[At[s]] \in Seq(TraceIDs)
  BY OfferTypes
<1>1. /\ At' = At /\ arg[h] \in TraceIDs /\ At[s] \in Coordinators
      /\ handler[h] = "announce" /\ UNCHANGED <<wins, resent>>
  BY AtType DEF Announce, AnnounceFails, TypeInv, TypeOK, At
<1>2. \A t \in Streams : handler'[t] = "announce" <=> handler[t] = "announce" /\ t # h
  BY DEF Announce, AnnounceFails, TypeInv, TypeOK
<1>3. \A t \in Streams : t # h => arg'[t] = arg[t]
  BY DEF Announce, AnnounceFails, TypeInv, TypeOK
<1>4. \/ log'[s] = log[s] /\ feed'[At[s]] = feed[At[s]]
      \/ log'[s] = Append(log[s], arg[h]) /\ feed'[At[s]] = feed[At[s]]
      \/ log'[s] = log[s] /\ feed'[At[s]] = Append(feed[At[s]], arg[h])
  <2>1. CASE Announce(h) /\ Distributed
    BY <1>1, <2>1 DEF Announce, Published
  <2>2. CASE Announce(h) /\ ~Distributed
    BY <2>2 DEF Announce, Broadcast
  <2>3. CASE AnnounceFails(h)
    BY <1>1, <2>3 DEF AnnounceFails, Published
  <2> QED BY <2>1, <2>2, <2>3
<1>5. CASE arg[h] = tid
  <2>1. Announcers(tid)' = Announcers(tid) \ {h} /\ h \in Announcers(tid)
    BY <1>1, <1>2, <1>3, <1>5 DEF Announcers
  <2>2. Cardinality(Announcers(tid)') = Cardinality(Announcers(tid)) - 1
    <3>1. \A S, x : IsFiniteSet(S) /\ x \in S => Cardinality(S \ {x}) = Cardinality(S) - 1
      BY FS_RemoveElement
    <3>2. Cardinality(Announcers(tid) \ {h}) = Cardinality(Announcers(tid)) - 1
      BY <1>0, <2>1, <3>1
    <3> QED BY <2>1, <3>2
  <2>3. /\ Count(Append(log[s], arg[h]), tid) = Count(log[s], tid) + 1
        /\ Count(Append(feed[At[s]], arg[h]), tid) = Count(feed[At[s]], tid) + 1
    BY <1>0, <1>1, <1>5, CountAppend
  <2>4. /\ Count(log'[s], tid) + Count(feed'[At[s]], tid)
             <= Count(log[s], tid) + Count(feed[At[s]], tid) + 1
        /\ Count(log'[s], tid) \in Nat /\ Count(feed'[At[s]], tid) \in Nat
    <3>1. CASE log'[s] = log[s] /\ feed'[At[s]] = feed[At[s]]
      BY <1>0, <3>1
    <3>2. CASE log'[s] = Append(log[s], arg[h]) /\ feed'[At[s]] = feed[At[s]]
      BY <1>0, <2>3, <3>2
    <3>3. CASE log'[s] = log[s] /\ feed'[At[s]] = Append(feed[At[s]], arg[h])
      BY <1>0, <2>3, <3>3
    <3> QED BY <1>4, <3>1, <3>2, <3>3
  <2> QED BY <1>0, <1>1, <2>2, <2>4 DEF OfferedOK
<1>6. CASE arg[h] # tid
  <2>1. Announcers(tid)' = Announcers(tid)
    BY <1>1, <1>2, <1>3, <1>6 DEF Announcers
  <2>2. /\ Count(Append(log[s], arg[h]), tid) = Count(log[s], tid)
        /\ Count(Append(feed[At[s]], arg[h]), tid) = Count(feed[At[s]], tid)
    BY <1>0, <1>1, <1>6, CountAppend
  <2>3. /\ Count(log'[s], tid) = Count(log[s], tid)
        /\ Count(feed'[At[s]], tid) = Count(feed[At[s]], tid)
    BY <1>4, <2>2
  <2> QED BY <1>1, <2>1, <2>3 DEF OfferedOK
<1> QED BY <1>5, <1>6

\* A message is used up, and at most one offer to each stream comes of it.
LEMMA OfferReceive ==
  ASSUME TypeInv, TypeInv', UNCHANGED deploy, NEW s \in Streams, NEW tid \in TraceIDs,
         OfferedOK(s, tid), NEW c \in Coordinators, Receive(c)
  PROVE  OfferedOK(s, tid)'
<1> DEFINE e == Head(feed[c])
<1>0. /\ IsFiniteSet(Announcers(tid)) /\ Cardinality(Announcers(tid)) \in Nat
      /\ Count(log[s], tid) \in Nat /\ Count(feed[At[s]], tid) \in Nat /\ wins[tid] \in Nat
      /\ resent[tid] \in Nat
      /\ log[s] \in Seq(TraceIDs) /\ feed[At[s]] \in Seq(TraceIDs)
  BY OfferTypes
<1>1. /\ At' = At /\ At[s] \in Coordinators /\ UNCHANGED <<handler, arg, wins, resent>>
      /\ feed[c] # <<>> /\ feed[c] \in Seq(TraceIDs)
  BY AtType DEF Receive, TypeInv, TypeOK, At
<1>2. CASE At[s] # c
  <2>1. feed'[At[s]] = feed[At[s]] /\ log'[s] = log[s]
    BY <1>1, <1>2 DEF Receive, Broadcast, TypeInv, TypeOK
  <2> QED BY <1>0, <1>1, <2>1, OfferFrame
<1>3. CASE At[s] = c
  <2>1. feed'[At[s]] = Tail(feed[c]) /\ (log'[s] = log[s] \/ log'[s] = Append(log[s], e))
    BY <1>1, <1>3 DEF Receive, Broadcast, TypeInv, TypeOK
  <2>2. e \in TraceIDs /\ Tail(feed[c]) \in Seq(TraceIDs)
    BY <1>1, HeadTailProperties
  <2>3. /\ Count(feed[c], tid) = Count(Tail(feed[c]), tid) + IF e = tid THEN 1 ELSE 0
        /\ Count(Append(log[s], e), tid) = Count(log[s], tid) + IF e = tid THEN 1 ELSE 0
    <3>1. Count(feed[c], tid) = Count(Tail(feed[c]), tid) + IF e = tid THEN 1 ELSE 0
      BY <1>1, CountTail
    <3>2. Count(Append(log[s], e), tid) = Count(log[s], tid) + IF e = tid THEN 1 ELSE 0
      BY <1>0, <2>2, CountAppend
    <3> QED BY <3>1, <3>2
  <2>4. Count(Tail(feed[c]), tid) \in Nat
    BY <2>2, CountType
  <2> HIDE DEF e
  <2>5. /\ Count(log'[s], tid) + Count(Tail(feed[c]), tid)
             <= Count(log[s], tid) + Count(feed[c], tid)
        /\ Count(log'[s], tid) \in Nat
    <3>1. CASE log'[s] = log[s]
      BY <1>0, <2>3, <2>4, <3>1
    <3>2. CASE log'[s] = Append(log[s], e)
      BY <1>0, <2>3, <2>4, <3>2
    <3> QED BY <2>1, <3>1, <3>2
  <2>6. Announcers(tid)' = Announcers(tid)
    BY <1>1 DEF Announcers
  <2> QED BY SMTT(30), <1>0, <1>1, <1>3, <2>1, <2>4, <2>5, <2>6 DEF OfferedOK
<1> QED BY <1>2, <1>3

\* A repeated PUBLISH makes one message more.
LEMMA OfferAgain ==
  ASSUME TypeInv, TypeInv', UNCHANGED deploy, NEW s \in Streams, NEW tid \in TraceIDs,
         OfferedOK(s, tid), NEW h \in Streams, AnnounceAgain(h)
  PROVE  OfferedOK(s, tid)'
<1>0. /\ IsFiniteSet(Announcers(tid)) /\ Cardinality(Announcers(tid)) \in Nat
      /\ Count(log[s], tid) \in Nat /\ Count(feed[At[s]], tid) \in Nat /\ wins[tid] \in Nat
      /\ resent[tid] \in Nat /\ feed[At[s]] \in Seq(TraceIDs)
  BY OfferTypes
<1>1. /\ At' = At /\ arg[h] \in TraceIDs /\ At[s] \in Coordinators
      /\ UNCHANGED <<handler, arg, log, wins>>
      /\ feed' = Published(arg[h])
      /\ resent' = [resent EXCEPT ![arg[h]] = @ + 1]
  BY AtType DEF AnnounceAgain, TypeInv, TypeOK, At
<1>6. /\ feed'[At[s]] = feed[At[s]] \/ feed'[At[s]] = Append(feed[At[s]], arg[h])
      /\ resent'[tid] = resent[tid] + IF arg[h] = tid THEN 1 ELSE 0
  <2>1. resent \in [TraceIDs -> Nat]
    BY DEF TypeInv, TypeOK
  <2>2. feed'[At[s]] = feed[At[s]] \/ feed'[At[s]] = Append(feed[At[s]], arg[h])
    BY <1>1 DEF Published
  <2> QED BY <1>0, <1>1, <2>1, <2>2
<1>2. Announcers(tid)' = Announcers(tid)
  BY <1>1 DEF Announcers
<1>3. Count(Append(feed[At[s]], arg[h]), tid)
        = Count(feed[At[s]], tid) + IF arg[h] = tid THEN 1 ELSE 0
  BY <1>0, <1>1, CountAppend
<1>4. CASE feed'[At[s]] = feed[At[s]]
  BY <1>0, <1>1, <1>2, <1>4, <1>6 DEF OfferedOK
<1>5. CASE feed'[At[s]] = Append(feed[At[s]], arg[h])
  BY SMTT(30), <1>0, <1>1, <1>2, <1>3, <1>5, <1>6 DEF OfferedOK
<1> QED BY <1>6, <1>4, <1>5

\* Setting the key of tid makes one more announcer and one more win.
LEMMA OfferDecide ==
  ASSUME TypeInv, TypeInv', UNCHANGED deploy, NEW s \in Streams, NEW tid \in TraceIDs,
         OfferedOK(s, tid), NEW h \in Streams, Decide(h)
  PROVE  OfferedOK(s, tid)'
<1>0. /\ IsFiniteSet(Announcers(tid)) /\ Cardinality(Announcers(tid)) \in Nat
      /\ Count(log[s], tid) \in Nat /\ Count(feed[At[s]], tid) \in Nat /\ wins[tid] \in Nat
      /\ resent[tid] \in Nat
  BY OfferTypes
<1>1. /\ At' = At /\ UNCHANGED <<log, feed, resent>> /\ arg[h] \in TraceIDs
      /\ handler[h] = "publish" /\ SetNX(arg[h])
  BY DEF Decide, At, TypeInv, TypeOK
<1>2. CASE arg[h] \in decided
  <2>1. /\ wins' = wins
        /\ \A t \in Streams : handler'[t] = "announce" /\ arg'[t] = tid
                            => handler[t] = "announce" /\ arg[t] = tid
    <3>1. wins' = wins
      BY <1>1, <1>2, SetNXEffect
    <3>2. /\ handler' = [handler EXCEPT ![h] = "recv"] /\ arg' = [arg EXCEPT ![h] = NoTrace]
          /\ handler \in [Streams -> HandlerPcs] /\ arg \in [Streams -> TraceIDs \union {NoTrace}]
      BY <1>1, <1>2 DEF Decide, TypeInv, TypeOK
    <3> QED BY <3>1, <3>2
  <2> QED BY <1>0, <1>1, <2>1, OfferFrame
<1>3. CASE arg[h] \notin decided
  <2>1. /\ wins'[tid] = wins[tid] + IF arg[h] = tid THEN 1 ELSE 0
        /\ arg' = arg /\ handler' = [handler EXCEPT ![h] = "announce"]
    <3>1. arg' = arg /\ handler' = [handler EXCEPT ![h] = "announce"]
      BY <1>3 DEF Decide
    <3>2. /\ wins'[arg[h]] = wins[arg[h]] + 1
          /\ \A u \in TraceIDs : u # arg[h] => wins'[u] = wins[u]
      BY <1>1, <1>3, SetNXEffect
    <3> QED BY <1>0, <3>1, <3>2
  <2>2. \A t \in Streams : handler'[t] = "announce" <=> handler[t] = "announce" \/ t = h
    BY <2>1 DEF TypeInv, TypeOK
  <2>3. CASE arg[h] = tid
    <3>1. Announcers(tid)' = Announcers(tid) \union {h} /\ h \notin Announcers(tid)
      BY <1>1, <2>1, <2>2, <2>3 DEF Announcers
    <3>2. Cardinality(Announcers(tid)') = Cardinality(Announcers(tid)) + 1
      BY <1>0, <3>1, FS_AddElement
    <3> QED BY <1>0, <1>1, <2>1, <2>3, <3>2 DEF OfferedOK
  <2>4. CASE arg[h] # tid
    <3>1. Announcers(tid)' = Announcers(tid)
      BY <2>1, <2>2, <2>4 DEF Announcers
    <3> QED BY <1>0, <1>1, <2>1, <2>4, <3>1 DEF OfferedOK
  <2> QED BY <2>3, <2>4
<1> QED BY <1>2, <1>3

\* Every step keeps OfferInv.
LEMMA OfferNext == TypeInv /\ OfferInv /\ [Next]_vars => OfferInv'
<1> SUFFICES ASSUME TypeInv, OfferInv, [Next]_vars, NEW s \in Streams, NEW tid \in TraceIDs
             PROVE  OfferedOK(s, tid)'
  BY DEF OfferInv
<1>1. TypeInv' /\ UNCHANGED deploy /\ OfferedOK(s, tid)
  BY TypeNext DEF Next, vars, OfferInv
<1>0. wins[tid] \in Nat
  BY DEF TypeInv, TypeOK
<1>2. At[s] \in Coordinators
  BY AtType DEF TypeInv
<1>3. ASSUME UNCHANGED <<log, resent>>, wins[tid] <= wins'[tid],
             feed'[At[s]] = feed[At[s]] \/ feed'[At[s]] = <<>>,
             \A h \in Streams : handler'[h] = "announce" /\ arg'[h] = tid
                              => handler[h] = "announce" /\ arg[h] = tid
      PROVE  OfferedOK(s, tid)'
  BY <1>1, <1>3, OfferFrame
<1>4. CASE UNCHANGED vars
  BY <1>0, <1>3, <1>4 DEF vars, stateVars
<1>5. ASSUME NEW h \in Streams,
             \/ Connect(h) \/ Unregister(h) \/ (\E t \in TraceIDs : Recv(h, t))
             \/ CloseDone(h) \/ DecideAgain(h) \/ DecideFails(h)
      PROVE  OfferedOK(s, tid)'
  <2>1. UNCHANGED <<log, resent, feed>>
    BY <1>5 DEF Connect, Unregister, Recv, CloseDone, DecideAgain, DecideFails
  <2>2. \A g \in Streams : \/ handler'[g] = handler[g] /\ arg'[g] = arg[g]
                           \/ handler'[g] # "announce"
    BY <1>5 DEF Connect, Unregister, Recv, CloseDone, DecideAgain, DecideFails,
                TypeInv, TypeOK
  <2>3. wins[tid] <= wins'[tid]
    <3>1. CASE UNCHANGED wins
      BY <1>0, <3>1
    <3>2. CASE SetNX(arg[h]) /\ handler[h] = "publish"
      <4>1. arg[h] \in TraceIDs
        BY <3>2 DEF TypeInv, TypeOK
      <4> QED BY <1>0, <3>2, <4>1, SetNXEffect
    <3> QED BY <1>5, <3>1, <3>2
            DEF Connect, Unregister, Recv, CloseDone, DecideAgain, DecideFails
  <2> QED BY <1>3, <2>1, <2>2, <2>3
<1>6. ASSUME NEW h \in Streams, Decide(h) \/ Announce(h) \/ AnnounceAgain(h) \/ AnnounceFails(h)
      PROVE  OfferedOK(s, tid)'
  BY <1>1, <1>6, OfferDecide, OfferAnnounce, OfferAgain
<1>7. ASSUME NEW h \in Streams, SenderStep(h) PROVE OfferedOK(s, tid)'
  <2>1. UNCHANGED <<log, wins, resent, feed, handler, arg>>
    BY <1>7 DEF SenderStep, SenderTake, SenderMore, SenderFlush, SenderSend, SenderDone
  <2> QED BY <1>0, <1>3, <2>1
<1>8. ASSUME NEW c \in Coordinators, Receive(c) PROVE OfferedOK(s, tid)'
  BY <1>1, <1>8, OfferReceive
<1>9. ASSUME NEW c \in Coordinators, Subscribe(c) \/ ForceStop(c) \/ Shutdown(c)
      PROVE  OfferedOK(s, tid)'
  <2>1. UNCHANGED <<log, wins, resent, feed, handler, arg>>
    BY <1>9 DEF Subscribe, ForceStop, Shutdown
  <2> QED BY <1>0, <1>3, <2>1
<1>10. ASSUME NEW c \in Coordinators, Exit(c) \/ Crash(c) PROVE OfferedOK(s, tid)'
  <2>1. Ends(c)
    BY <1>10 DEF Exit, Crash
  <2>2. /\ UNCHANGED <<log, wins, resent>>
        /\ feed'[At[s]] = feed[At[s]] \/ feed'[At[s]] = <<>>
    BY <1>2, <2>1 DEF Ends, TypeInv, TypeOK
  <2>3. \A g \in Streams : \/ handler'[g] = handler[g] /\ arg'[g] = arg[g]
                           \/ handler'[g] # "announce"
    BY <2>1 DEF Ends
  <2> QED BY <1>0, <1>3, <2>2, <2>3
<1>11. ASSUME NEW t \in TraceIDs, Expire(t) PROVE OfferedOK(s, tid)'
  <2>1. UNCHANGED <<log, wins, resent, feed, handler, arg>>
    BY <1>11 DEF Expire
  <2> QED BY <1>0, <1>3, <2>1
<1>12. CASE \E h \in Streams :
             \/ Connect(h) \/ Unregister(h) \/ (\E t \in TraceIDs : Recv(h, t))
             \/ HandlerStep(h) \/ SenderStep(h)
  BY <1>5, <1>6, <1>7, <1>12 DEF HandlerStep
<1>13. CASE \E c \in Coordinators : ReceiveStep(c) \/ StopStep(c) \/ Shutdown(c) \/ Crash(c)
  BY <1>8, <1>9, <1>10, <1>13 DEF ReceiveStep, StopStep
<1>14. CASE \E t \in TraceIDs : Expire(t)
  BY <1>11, <1>14
<1> QED BY <1>4, <1>12, <1>13, <1>14 DEF Next

\* Nothing is offered in the state main starts from.
LEMMA OfferInit == Init => OfferInv
<1> SUFFICES ASSUME Init, NEW s \in Streams, NEW tid \in TraceIDs PROVE OfferedOK(s, tid)
  BY DEF OfferInv
<1>1. At[s] \in Coordinators
  BY TypeInit, AtType DEF TypeInv
<1>2. log[s] = <<>> /\ feed[At[s]] = <<>> /\ wins[tid] = 0 /\ resent[tid] = 0
      /\ Announcers(tid) = {}
  BY <1>1 DEF Init, Announcers
<1>3. Count(<<>>, tid) = 0 /\ Cardinality({}) = 0
  BY CountEmpty, FS_EmptySet
<1> QED BY <1>2, <1>3 DEF OfferedOK

(* No stream is offered a decision more often than its key was set and a    *)
(* PUBLISH of it was repeated, and a key is set again only after it         *)
(* expired, for any number of coordinators and streams that notify it at    *)
(* once and whatever fails or is retried in between: cache.Add and SET NX   *)
(* choose one announcer, and memory.Publish and the Redis channel offer     *)
(* each announcement once.                                                  *)
THEOREM DecisionsDeduplicated == Spec => []Deduplicated
<1>1. TypeInv /\ WinsInv /\ OfferInv => Deduplicated
  <2> SUFFICES ASSUME TypeInv, WinsInv, OfferInv, NEW tid \in TraceIDs
               PROVE  /\ \A s \in Streams : Count(log[s], tid) <= wins[tid] + resent[tid]
                      /\ wins[tid] <= 1 + expiries
    BY DEF Deduplicated
  <2>1. ASSUME NEW s \in Streams PROVE Count(log[s], tid) <= wins[tid] + resent[tid]
    <3>1. OfferedOK(s, tid)
      BY DEF OfferInv
    <3>2. /\ Cardinality(Announcers(tid)) \in Nat /\ wins[tid] \in Nat /\ resent[tid] \in Nat
          /\ Count(log[s], tid) \in Nat /\ Count(feed[At[s]], tid) \in Nat
      BY OfferTypes
    <3> QED BY <3>1, <3>2 DEF OfferedOK
  <2> QED BY <2>1 DEF WinsInv
<1> QED BY <1>1, TypeInit, TypeNext, WinsInit, WinsNext, OfferInit, OfferNext, PTL DEF Spec
=============================================================================
