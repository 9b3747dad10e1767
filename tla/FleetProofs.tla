---------------------------- MODULE FleetProofs ----------------------------
(* Theorems about processors, local coordinators and the parent, for any   *)
(* number of each, any assignment of clients to local coordinators and any *)
(* capacities, however streams break and whoever closes.                   *)
EXTENDS Fleet, SequenceTheorems, FiniteSetTheorems, FunctionTheorems, TLAPS

USE DEF clientVars, proxyVars, linkVars, histVars

-----------------------------------------------------------------------------
(* Type correctness.                                                       *)

Pcs == {"top", "up", "wait", "done"}

\* The parts of the state: clients, proxies, streams, and the rest.
ClientTypes ==
  /\ sendCh \in [Clients -> Seq(TraceIDs)]
  /\ \A c \in Clients : Len(sendCh[c]) <= SendCap
  /\ run \in [Clients -> Pcs] /\ cancelled \in [Clients -> BOOLEAN]
  /\ backoff \in [Clients -> 1 .. 2 * MaxBackoff - 1]
ProxyTypes ==
  /\ pubCh \in [Proxies -> Seq(TraceIDs)]
  /\ \A p \in Proxies : Len(pubCh[p]) <= SendBufSize
  /\ loop \in [Proxies -> Pcs] /\ closed \in [Proxies -> BOOLEAN]
  /\ pause \in [Proxies -> 1 .. MaxPause]
UpTypes ==
  /\ link \in [Endpoints -> {"none", "opening", "open", "broken"}]
  /\ up \in [Endpoints -> Seq(TraceIDs)] /\ old \in [Endpoints -> Nat]
OtherTypes ==
  /\ deploy \in Deployments
  /\ notified \in [TraceIDs -> Nat] /\ reached \in [TraceIDs -> Nat]
  /\ faults \in 0 .. MaxFaults

(* Everything on its way down, held by the receiver of a former stream or    *)
(* handed to a processor was decided by the parent; that is the type of it.  *)
DownTypes ==
  /\ decided \subseteq TraceIDs
  /\ down \in [Endpoints -> Seq(decided)] /\ \A e \in Endpoints : Len(down[e]) <= Cap
  /\ late \in [Endpoints -> SUBSET decided] /\ kept \in [Clients -> SUBSET decided]
TypeInv == ClientTypes /\ ProxyTypes /\ UpTypes /\ OtherTypes /\ DownTypes

\* Every client has a local coordinator.
LEMMA HomeType == deploy \in Deployments => Home \in [Clients -> Proxies]
BY FleetAssumption DEF Home

\* The types hold before anything is connected.
LEMMA TypeInit == Init => TypeInv
<1> SUFFICES ASSUME Init PROVE TypeInv
  OBVIOUS
<1>0. <<>> \in Seq(TraceIDs) /\ Len(<<>>) = 0
  OBVIOUS
<1>1. ClientTypes
  BY <1>0, FleetAssumption DEF Init, ClientInit, ClientTypes, Pcs
<1>2. ProxyTypes
  BY <1>0, FleetAssumption DEF Init, ProxyInit, ProxyTypes, Pcs
<1>3. UpTypes
  BY <1>0 DEF Init, UpTypes
<1>4. OtherTypes
  BY FleetAssumption DEF Init, OtherTypes
<1>5. DownTypes
  <2>1. <<>> \in Seq(decided) /\ Cap \in Nat
    BY FleetAssumption
  <2> QED BY <1>0, <2>1 DEF Init, DownTypes
<1> QED BY <1>1, <1>2, <1>3, <1>4, <1>5 DEF TypeInv

\* The operations of a client, those that take from sendCh set apart.
ClientTakes(c) == Send(c) \/ SendFails(c)
ClientOp(c) ==
  \/ Connected(c) \/ ConnectFails(c) \/ RecvFails(c) \/ Retry(c) \/ Cancel(c) \/ Leave(c)

\* They keep its types: sendCh within its capacity, the wait below twice the limit.
LEMMA ClientOps ==
  ASSUME ClientTypes, NEW c \in Clients,
         \/ UNCHANGED clientVars \/ ClientOp(c) \/ ClientTakes(c)
         \/ \E t \in TraceIDs : Notify(c, t)
  PROVE  ClientTypes'
<1>0. /\ sendCh[c] \in Seq(TraceIDs) /\ Len(sendCh[c]) \in Nat /\ Len(sendCh[c]) <= SendCap
      /\ SendCap \in Nat /\ MaxBackoff \in Nat /\ backoff[c] \in 1 .. 2 * MaxBackoff - 1
  BY FleetAssumption, LenProperties DEF ClientTypes
<1>1. CASE UNCHANGED clientVars
  BY <1>1 DEF ClientTypes
<1>2. CASE ClientTakes(c)
  <2>1. /\ sendCh' = [sendCh EXCEPT ![c] = Tail(@)] /\ sendCh[c] # <<>>
        /\ run' \in [Clients -> Pcs] /\ UNCHANGED <<cancelled, backoff>>
    BY <1>2 DEF ClientTakes, Send, SendFails, ClientTypes, Pcs
  <2>2. Tail(sendCh[c]) \in Seq(TraceIDs) /\ Len(Tail(sendCh[c])) <= SendCap
    BY <1>0, <2>1, HeadTailProperties
  <2>3. sendCh' \in [Clients -> Seq(TraceIDs)] /\ \A d \in Clients : Len(sendCh'[d]) <= SendCap
    BY <2>1, <2>2 DEF ClientTypes
  <2> QED BY <2>1, <2>3 DEF ClientTypes
<1>3. ASSUME NEW t \in TraceIDs, Notify(c, t) PROVE ClientTypes'
  <2>1. CASE UNCHANGED sendCh
    BY <1>3, <2>1 DEF Notify, ClientTypes
  <2>2. CASE sendCh' = [sendCh EXCEPT ![c] = Append(@, t)] /\ Len(sendCh[c]) < SendCap
    <3>1. Append(sendCh[c], t) \in Seq(TraceIDs) /\ Len(Append(sendCh[c], t)) <= SendCap
      BY <1>0, <2>2, AppendProperties
    <3>2. sendCh' \in [Clients -> Seq(TraceIDs)] /\ \A d \in Clients : Len(sendCh'[d]) <= SendCap
      BY <2>2, <3>1 DEF ClientTypes
    <3> QED BY <1>3, <3>2 DEF Notify, ClientTypes
  <2> QED BY <1>3, <2>1, <2>2 DEF Notify
<1>4. CASE ClientOp(c) /\ ~Retry(c)
  BY <1>4 DEF ClientOp, Connected, ConnectFails, RecvFails, Cancel, Leave, ClientTypes, Pcs
<1>5. CASE Retry(c)
  <2>1. (IF backoff[c] < MaxBackoff THEN 2 * backoff[c] ELSE backoff[c])
          \in 1 .. 2 * MaxBackoff - 1
    BY <1>0
  <2> QED BY <1>5, <2>1 DEF Retry, ClientTypes, Pcs
<1> QED BY <1>1, <1>2, <1>3, <1>4, <1>5

\* The operations of a proxy likewise.
ProxyTakes(p) == Forward(p) \/ ForwardFails(p)
ProxyOp(p) ==
  \/ Attached(p) \/ AttachFails(p) \/ Detached(p) \/ Reattach(p) \/ CloseProxy(p) \/ Quit(p)

\* They keep the types of a proxy.
LEMMA ProxyOps ==
  ASSUME ProxyTypes, NEW p \in Proxies,
         \/ UNCHANGED proxyVars \/ ProxyOp(p) \/ ProxyTakes(p)
         \/ \E t \in TraceIDs : Publish(p, t)
  PROVE  ProxyTypes'
<1>0. /\ pubCh[p] \in Seq(TraceIDs) /\ Len(pubCh[p]) \in Nat /\ Len(pubCh[p]) <= SendBufSize
      /\ SendBufSize \in Nat /\ MaxPause \in Nat \ {0} /\ pause[p] \in 1 .. MaxPause
  BY FleetAssumption, LenProperties DEF ProxyTypes
<1>1. CASE UNCHANGED proxyVars
  BY <1>1 DEF ProxyTypes
<1>2. CASE ProxyTakes(p)
  <2>1. /\ pubCh' = [pubCh EXCEPT ![p] = Tail(@)] /\ pubCh[p] # <<>>
        /\ loop' \in [Proxies -> Pcs] /\ UNCHANGED <<closed, pause>>
    BY <1>2 DEF ProxyTakes, Forward, ForwardFails, ProxyTypes, Pcs
  <2>2. Tail(pubCh[p]) \in Seq(TraceIDs) /\ Len(Tail(pubCh[p])) <= SendBufSize
    BY <1>0, <2>1, HeadTailProperties
  <2>3. pubCh' \in [Proxies -> Seq(TraceIDs)] /\ \A q \in Proxies : Len(pubCh'[q]) <= SendBufSize
    BY <2>1, <2>2 DEF ProxyTypes
  <2> QED BY <2>1, <2>3 DEF ProxyTypes
<1>3. ASSUME NEW t \in TraceIDs, Publish(p, t) PROVE ProxyTypes'
  <2>1. CASE UNCHANGED pubCh
    BY <1>3, <2>1 DEF Publish, ProxyTypes
  <2>2. CASE pubCh' = [pubCh EXCEPT ![p] = Append(@, t)] /\ Len(pubCh[p]) < SendBufSize
    <3>1. Append(pubCh[p], t) \in Seq(TraceIDs) /\ Len(Append(pubCh[p], t)) <= SendBufSize
      BY <1>0, <2>2, AppendProperties
    <3>2. pubCh' \in [Proxies -> Seq(TraceIDs)] /\ \A q \in Proxies : Len(pubCh'[q]) <= SendBufSize
      BY <2>2, <3>1 DEF ProxyTypes
    <3> QED BY <1>3, <3>2 DEF Publish, ProxyTypes
  <2> QED BY <1>3, <2>1, <2>2 DEF Publish
<1>4. CASE ProxyOp(p) /\ ~Reattach(p)
  BY <1>4 DEF ProxyOp, Attached, AttachFails, Detached, CloseProxy, Quit, ProxyTypes, Pcs
<1>5. CASE Reattach(p)
  <2>1. (IF 2 * pause[p] < MaxPause THEN 2 * pause[p] ELSE MaxPause) \in 1 .. MaxPause
    BY <1>0
  <2> QED BY <1>5, <2>1 DEF Reattach, ProxyTypes, Pcs
<1> QED BY <1>1, <1>2, <1>3, <1>4, <1>5

\* What a step does to the notifications on their way.
UpMove ==
  \/ UNCHANGED up
  \/ \E e \in Endpoints : up[e] # <<>> /\ up' = [up EXCEPT ![e] = Tail(@)]
  \/ \E e \in Endpoints, t \in TraceIDs : up' = [up EXCEPT ![e] = Append(@, t)]
  \/ \E e \in Endpoints : \E k \in 0 .. Len(up[e]) : up' = [up EXCEPT ![e] = SubSeq(@, 1, k)]

\* A prefix of a sequence.
LEMMA PrefixType ==
  ASSUME NEW S, NEW q \in Seq(S), NEW k \in 0 .. Len(q)
  PROVE  /\ SubSeq(q, 1, k) \in Seq(S) /\ Len(SubSeq(q, 1, k)) = k /\ k <= Len(q)
         /\ \A i \in 1 .. k : SubSeq(q, 1, k)[i] = q[i]
<1>1. Len(q) \in Nat /\ \A i \in 1 .. Len(q) : q[i] \in S
  BY LenProperties, ElementOfSeq
<1>2. k \in Nat /\ \A i \in 1 .. k : q[i] \in S
  BY <1>1
<1>3. /\ SubSeq(q, 1, k) \in Seq(S)
      /\ Len(SubSeq(q, 1, k)) = IF 1 <= k THEN k - 1 + 1 ELSE 0
      /\ \A i \in 1 .. k - 1 + 1 : SubSeq(q, 1, k)[i] = q[1 + i - 1]
  BY <1>2, SubSeqProperties
<1> QED BY <1>1, <1>2, <1>3

\* It leaves sequences of trace IDs.
LEMMA UpMoves ==
  ASSUME up \in [Endpoints -> Seq(TraceIDs)], UpMove
  PROVE  up' \in [Endpoints -> Seq(TraceIDs)]
<1>1. CASE UNCHANGED up
  BY <1>1
<1>2. ASSUME NEW e \in Endpoints, up[e] # <<>>, up' = [up EXCEPT ![e] = Tail(@)]
      PROVE  up' \in [Endpoints -> Seq(TraceIDs)]
  <2>1. Tail(up[e]) \in Seq(TraceIDs)
    BY <1>2, HeadTailProperties
  <2> QED BY <1>2, <2>1
<1>3. ASSUME NEW e \in Endpoints, NEW t \in TraceIDs, up' = [up EXCEPT ![e] = Append(@, t)]
      PROVE  up' \in [Endpoints -> Seq(TraceIDs)]
  <2>1. Append(up[e], t) \in Seq(TraceIDs)
    BY AppendProperties
  <2> QED BY <1>3, <2>1
<1>4. ASSUME NEW e \in Endpoints, NEW k \in 0 .. Len(up[e]),
             up' = [up EXCEPT ![e] = SubSeq(@, 1, k)]
      PROVE  up' \in [Endpoints -> Seq(TraceIDs)]
  <2>1. SubSeq(up[e], 1, k) \in Seq(TraceIDs)
    BY PrefixType
  <2> QED BY <1>4, <2>1
<1> QED BY <1>1, <1>2, <1>3, <1>4 DEF UpMove

\* A queue of decisions after a step: as it was, a part of it, or one more.
QueueMove(D, was, new) ==
  \/ new = was \/ new = <<>>
  \/ was # <<>> /\ new = Tail(was)
  \/ \E k \in 0 .. Len(was) : new = SubSeq(was, 1, k)
  \/ Len(was) < Cap /\ \E t \in D : new = Append(was, t)

\* It holds decisions in D and has its bound.
LEMMA QueueMoves ==
  ASSUME NEW D, NEW was \in Seq(D), Len(was) <= Cap, NEW new, QueueMove(D, was, new)
  PROVE  new \in Seq(D) /\ Len(new) <= Cap
<1>0. Cap \in Nat /\ Len(was) \in Nat
  BY FleetAssumption, LenProperties
<1>1. CASE new = <<>>
  <2>1. <<>> \in Seq(D) /\ Len(<<>>) = 0
    OBVIOUS
  <2> QED BY <1>0, <1>1, <2>1
<1>2. CASE was # <<>> /\ new = Tail(was)
  BY <1>0, <1>2, HeadTailProperties
<1>3. ASSUME NEW k \in 0 .. Len(was), new = SubSeq(was, 1, k) PROVE new \in Seq(D) /\ Len(new) <= Cap
  BY <1>0, <1>3, PrefixType
<1>4. ASSUME NEW t \in D, Len(was) < Cap, new = Append(was, t) PROVE new \in Seq(D) /\ Len(new) <= Cap
  BY <1>0, <1>4, AppendProperties
<1> QED BY <1>1, <1>2, <1>3, <1>4 DEF QueueMove

(* What a step does to decisions: the parent's keys only grow, each queue    *)
(* moves, and receivers and handlers take up what was decided.               *)
DownMove ==
  /\ decided \subseteq decided' /\ decided' \subseteq TraceIDs
  /\ down' = [e \in Endpoints |-> down'[e]]
  /\ \A e \in Endpoints : QueueMove(decided', down[e], down'[e])
  /\ late' \in [Endpoints -> SUBSET decided'] /\ kept' \in [Clients -> SUBSET decided']

\* Such a move keeps the types of the ways down.
LEMMA DownMoves ==
  ASSUME DownTypes, DownMove
  PROVE  DownTypes'
<1>1. ASSUME NEW e \in Endpoints PROVE down'[e] \in Seq(decided') /\ Len(down'[e]) <= Cap
  <2>1. down[e] \in Seq(decided) /\ Len(down[e]) <= Cap
    BY DEF DownTypes
  <2>2. down[e] \in Seq(decided')
    BY <2>1, SeqMonotonic DEF DownMove
  <2>3. QueueMove(decided', down[e], down'[e])
    BY DEF DownMove
  <2> QED BY <2>1, <2>2, <2>3, QueueMoves
<1>2. down' \in [Endpoints -> Seq(decided')] /\ \A e \in Endpoints : Len(down'[e]) <= Cap
  BY <1>1 DEF DownMove
<1> QED BY <1>2 DEF DownMove, DownTypes

\* The steps of a client and its local coordinator's handler, of a proxy and the parent's, and of a stream.
StepOfClient(c) ==
  \/ \E t \in TraceIDs : ProcessorNotifies(c, t)
  \/ ClientStep(c) \/ ClientDialFails(c)
  \/ ClientHandles(c) \/ \E t \in late[c] : ClientHandlesLate(c, t)
  \/ ClientCloses(c) \/ ClientLeaves(c)
  \/ LocalRecv(c)
StepOfProxy(p) ==
  \/ ProxyStep(p) \/ ProxyDialFails(p)
  \/ ProxyRelays(p) \/ \E t \in late[p] : ProxyRelaysLate(p, t)
  \/ LocalStops(p) \/ LocalCloses(p) \/ ProxyQuits(p)
  \/ ParentRecv(p)
StepOfStream(e) == Accept(e) \/ Break(e) \/ LateEnds(e)

\* Every step is a step of a client, of a proxy or of a stream.
LEMMA StepCases ==
  Next => /\ UNCHANGED deploy
          /\ \/ \E c \in Clients : StepOfClient(c)
             \/ \E p \in Proxies : StepOfProxy(p)
             \/ \E e \in Endpoints : StepOfStream(e)
BY DEF Next, Step, StepOfClient, StepOfProxy, StepOfStream

\* Every step keeps the types of clients and proxies.
LEMMA EndpointNext ==
  ASSUME TypeInv, Next
  PROVE  ClientTypes' /\ ProxyTypes'
<1> USE DEF TypeInv
<1>0. Home \in [Clients -> Proxies] /\ up \in [Endpoints -> Seq(TraceIDs)]
  BY HomeType DEF OtherTypes, UpTypes
<1>1. ASSUME NEW c \in Clients, StepOfClient(c) PROVE ClientTypes' /\ ProxyTypes'
  <2>1. \/ UNCHANGED clientVars \/ ClientOp(c) \/ ClientTakes(c)
        \/ \E t \in TraceIDs : Notify(c, t)
    BY <1>1 DEF StepOfClient, ProcessorNotifies, ClientStep, ClientDials, ClientSends,
         ClientSendFails, ClientRecvFails, ClientRetries, ClientDialFails, ClientHandles,
         ClientHandlesLate, ClientCloses, ClientLeaves, LocalRecv, Reads, ClientOp, ClientTakes
  <2>2. UNCHANGED proxyVars \/ \E t \in TraceIDs : Publish(Home[c], t)
    <3>1. CASE LocalRecv(c)
      <4>1. Head(up[c]) \in TraceIDs
        BY <1>0, <3>1, HeadTailProperties DEF LocalRecv, Reads, Endpoints
      <4> QED BY <3>1, <4>1 DEF LocalRecv, Reads
    <3>2. CASE ~LocalRecv(c)
      BY <1>1, <3>2 DEF StepOfClient, ProcessorNotifies, ClientStep, ClientDials, ClientSends,
           ClientSendFails, ClientRecvFails, ClientRetries, ClientDialFails, ClientHandles,
           ClientHandlesLate, ClientCloses, ClientLeaves
    <3> QED BY <3>1, <3>2
  <2>3. Home[c] \in Proxies
    BY <1>0
  <2> QED BY <2>1, <2>2, <2>3, ClientOps, ProxyOps
<1>2. ASSUME NEW p \in Proxies, StepOfProxy(p) PROVE ClientTypes' /\ ProxyTypes'
  <2>1. UNCHANGED clientVars
    BY <1>2 DEF StepOfProxy, ProxyStep, ProxyDials, ProxySends, ProxySendFails, ProxyRecvFails,
         ProxyRetries, ProxyDialFails, ProxyRelays, ProxyRelaysLate, LocalStops, LocalCloses,
         ProxyQuits, ParentRecv, Reads
  <2>2. UNCHANGED proxyVars \/ ProxyOp(p) \/ ProxyTakes(p)
    BY <1>2 DEF StepOfProxy, ProxyStep, ProxyDials, ProxySends, ProxySendFails, ProxyRecvFails,
         ProxyRetries, ProxyDialFails, ProxyRelays, ProxyRelaysLate, LocalStops, LocalCloses,
         ProxyQuits, ParentRecv, Reads, ProxyOp, ProxyTakes
  <2>3. ClientTypes'
    BY <2>1 DEF ClientTypes
  <2> QED BY <2>2, <2>3, ProxyOps
<1>3. ASSUME NEW e \in Endpoints, StepOfStream(e) PROVE ClientTypes' /\ ProxyTypes'
  <2>1. UNCHANGED clientVars /\ UNCHANGED proxyVars
    BY <1>3 DEF StepOfStream, Accept, Break, LateEnds
  <2> QED BY <2>1 DEF ClientTypes, ProxyTypes
<1> QED BY <1>1, <1>2, <1>3, StepCases

(* How notifications move.  Cut: what a stream that ends or breaks has       *)
(* accepted may be cut off.  Lift: the first element of a channel goes up    *)
(* the stream of its owner, or is gone, with a part of what went before.     *)
Cut(e) == \E k \in 0 .. Len(up[e]) : up' = [up EXCEPT ![e] = SubSeq(@, 1, k)]
Lift(e, t) == UNCHANGED up \/ up' = [up EXCEPT ![e] = Append(@, t)] \/ Cut(e)

MoveIdle == UNCHANGED <<sendCh, pubCh, up, notified, reached>>
MoveIn(c, t) ==
  /\ notified' = [notified EXCEPT ![t] = @ + 1]
  /\ UNCHANGED sendCh \/ sendCh' = [sendCh EXCEPT ![c] = Append(@, t)]
  /\ UNCHANGED <<pubCh, up, reached>>
MoveCut(e) == Cut(e) /\ UNCHANGED <<sendCh, pubCh, notified, reached>>
MoveSent(c) ==
  /\ sendCh[c] # <<>> /\ sendCh' = [sendCh EXCEPT ![c] = Tail(@)] /\ Lift(c, Head(sendCh[c]))
  /\ UNCHANGED <<pubCh, notified, reached>>
MovePublished(c) ==
  /\ up[c] # <<>> /\ up' = [up EXCEPT ![c] = Tail(@)]
  /\ UNCHANGED pubCh \/ pubCh' = [pubCh EXCEPT ![Home[c]] = Append(@, Head(up[c]))]
  /\ UNCHANGED <<sendCh, notified, reached>>
MoveForwarded(p) ==
  /\ pubCh[p] # <<>> /\ pubCh' = [pubCh EXCEPT ![p] = Tail(@)] /\ Lift(p, Head(pubCh[p]))
  /\ UNCHANGED <<sendCh, notified, reached>>
MoveRead(p) ==
  /\ up[p] # <<>> /\ up' = [up EXCEPT ![p] = Tail(@)]
  /\ reached' = [reached EXCEPT ![Head(up[p])] = @ + 1]
  /\ UNCHANGED <<sendCh, pubCh, notified>>

\* Every step is one of these.
LEMMA Moves ==
  Next => \/ MoveIdle
          \/ \E c \in Clients : (\E t \in TraceIDs : MoveIn(c, t)) \/ MoveSent(c) \/ MovePublished(c)
          \/ \E p \in Proxies : MoveForwarded(p) \/ MoveRead(p)
          \/ \E e \in Endpoints : MoveCut(e)
<1> SUFFICES ASSUME Next
             PROVE  \/ MoveIdle
                    \/ \E c \in Clients : (\E t \in TraceIDs : MoveIn(c, t)) \/ MoveSent(c) \/ MovePublished(c)
                    \/ \E p \in Proxies : MoveForwarded(p) \/ MoveRead(p)
                    \/ \E e \in Endpoints : MoveCut(e)
  OBVIOUS
<1>1. ASSUME NEW c \in Clients, StepOfClient(c)
      PROVE  MoveIdle \/ (\E t \in TraceIDs : MoveIn(c, t)) \/ MoveSent(c) \/ MovePublished(c) \/ MoveCut(c)
  <2>1. ASSUME NEW t \in TraceIDs, ProcessorNotifies(c, t) PROVE MoveIn(c, t)
    BY <2>1 DEF ProcessorNotifies, Notify, MoveIn
  <2>2. CASE ClientSends(c)
    BY <2>2 DEF ClientSends, Send, MoveSent, Lift
  <2>3. CASE ClientSendFails(c)
    BY <2>3 DEF ClientSendFails, SendFails, End, MoveSent, Lift, Cut
  <2>4. CASE ClientRecvFails(c)
    BY <2>4 DEF ClientRecvFails, RecvFails, End, MoveCut, Cut
  <2>5. CASE ClientLeaves(c)
    BY <2>5 DEF ClientLeaves, Leave, End, MoveCut, Cut, MoveIdle
  <2>6. CASE LocalRecv(c)
    BY <2>6 DEF LocalRecv, Reads, Publish, MovePublished
  <2>7. CASE ClientDials(c) \/ ClientRetries(c) \/ ClientDialFails(c) \/ ClientHandles(c)
             \/ (\E t \in late[c] : ClientHandlesLate(c, t)) \/ ClientCloses(c)
    BY <2>7 DEF ClientDials, Connected, Open, ClientRetries, Retry, ClientDialFails, ConnectFails,
         ClientHandles, ClientHandlesLate, ClientCloses, Cancel, MoveIdle
  <2> QED BY <1>1, <2>1, <2>2, <2>3, <2>4, <2>5, <2>6, <2>7 DEF StepOfClient, ClientStep
<1>2. ASSUME NEW p \in Proxies, StepOfProxy(p)
      PROVE  MoveIdle \/ MoveForwarded(p) \/ MoveRead(p) \/ MoveCut(p)
  <2>1. CASE ProxySends(p)
    BY <2>1 DEF ProxySends, Forward, MoveForwarded, Lift
  <2>2. CASE ProxySendFails(p)
    BY <2>2 DEF ProxySendFails, ForwardFails, End, MoveForwarded, Lift, Cut
  <2>3. CASE ProxyRecvFails(p)
    BY <2>3 DEF ProxyRecvFails, Detached, End, MoveCut, Cut
  <2>4. CASE ProxyQuits(p)
    BY <2>4 DEF ProxyQuits, Quit, End, MoveCut, Cut, MoveIdle
  <2>5. CASE ParentRecv(p)
    BY <2>5 DEF ParentRecv, Reads, MoveRead
  <2>6. CASE ProxyDials(p) \/ ProxyRetries(p) \/ ProxyDialFails(p) \/ ProxyRelays(p)
             \/ (\E t \in late[p] : ProxyRelaysLate(p, t)) \/ LocalStops(p) \/ LocalCloses(p)
    BY <2>6 DEF ProxyDials, Attached, Open, ProxyRetries, Reattach, ProxyDialFails, AttachFails,
         ProxyRelays, ProxyRelaysLate, LocalStops, LocalCloses, CloseProxy, MoveIdle
  <2> QED BY <1>2, <2>1, <2>2, <2>3, <2>4, <2>5, <2>6 DEF StepOfProxy, ProxyStep
<1>3. ASSUME NEW e \in Endpoints, StepOfStream(e) PROVE MoveIdle \/ MoveCut(e)
  BY <1>3 DEF StepOfStream, Accept, Break, LateEnds, MoveIdle, MoveCut, Cut
<1>4. \A c \in Clients \union Proxies : c \in Endpoints
  BY DEF Endpoints
<1> QED BY <1>1, <1>2, <1>3, <1>4, StepCases

\* Every step keeps the types of streams going up, and of what is counted.
LEMMA UpNext ==
  ASSUME TypeInv, Next
  PROVE  UpTypes' /\ OtherTypes'
<1>0. /\ sendCh \in [Clients -> Seq(TraceIDs)] /\ pubCh \in [Proxies -> Seq(TraceIDs)]
      /\ up \in [Endpoints -> Seq(TraceIDs)]
      /\ notified \in [TraceIDs -> Nat] /\ reached \in [TraceIDs -> Nat]
  BY DEF TypeInv, ClientTypes, ProxyTypes, UpTypes, OtherTypes
<1>1. \A e \in Clients \union Proxies : e \in Endpoints
  BY DEF Endpoints
<1>2. UpMove
  <2>1. CASE MoveIdle
    BY <2>1 DEF MoveIdle, UpMove
  <2>2. ASSUME NEW c \in Clients,
               (\E t \in TraceIDs : MoveIn(c, t)) \/ MoveSent(c) \/ MovePublished(c)
        PROVE  UpMove
    <3>1. CASE \E t \in TraceIDs : MoveIn(c, t)
      BY <3>1 DEF MoveIn, UpMove
    <3>2. CASE MoveSent(c)
      <4>1. Head(sendCh[c]) \in TraceIDs
        BY <1>0, <3>2, HeadTailProperties DEF MoveSent
      <4> QED BY <1>1, <3>2, <4>1 DEF MoveSent, Lift, Cut, UpMove
    <3>3. CASE MovePublished(c)
      BY <1>1, <3>3 DEF MovePublished, UpMove
    <3> QED BY <2>2, <3>1, <3>2, <3>3
  <2>3. ASSUME NEW p \in Proxies, MoveForwarded(p) \/ MoveRead(p) PROVE UpMove
    <3>1. CASE MoveForwarded(p)
      <4>1. Head(pubCh[p]) \in TraceIDs
        BY <1>0, <3>1, HeadTailProperties DEF MoveForwarded
      <4> QED BY <1>1, <3>1, <4>1 DEF MoveForwarded, Lift, Cut, UpMove
    <3>2. CASE MoveRead(p)
      BY <1>1, <3>2 DEF MoveRead, UpMove
    <3> QED BY <2>3, <3>1, <3>2
  <2>4. ASSUME NEW e \in Endpoints, MoveCut(e) PROVE UpMove
    BY <2>4 DEF MoveCut, Cut, UpMove
  <2> QED BY <2>1, <2>2, <2>3, <2>4, Moves
<1>3. up' \in [Endpoints -> Seq(TraceIDs)]
  BY <1>0, <1>2, UpMoves
<1>4. notified' \in [TraceIDs -> Nat] /\ reached' \in [TraceIDs -> Nat]
  <2>1. ASSUME NEW c \in Clients, NEW t \in TraceIDs, MoveIn(c, t)
        PROVE  notified' \in [TraceIDs -> Nat] /\ reached' \in [TraceIDs -> Nat]
    BY <1>0, <2>1 DEF MoveIn
  <2>2. ASSUME NEW p \in Proxies, MoveRead(p)
        PROVE  notified' \in [TraceIDs -> Nat] /\ reached' \in [TraceIDs -> Nat]
    <3>1. Head(up[p]) \in TraceIDs
      BY <1>0, <1>1, <2>2, HeadTailProperties DEF MoveRead
    <3> QED BY <1>0, <2>2, <3>1 DEF MoveRead
  <2>3. CASE UNCHANGED <<notified, reached>>
    BY <1>0, <2>3
  <2> QED BY <2>1, <2>2, <2>3, Moves
          DEF MoveIdle, MoveSent, MovePublished, MoveForwarded, MoveCut
<1>5. link' \in [Endpoints -> {"none", "opening", "open", "broken"}] /\ faults' \in 0 .. MaxFaults
  <2> DEFINE Links == {"none", "opening", "open", "broken"}
  <2>0. link \in [Endpoints -> Links] /\ faults \in 0 .. MaxFaults /\ MaxFaults \in Nat
    BY FleetAssumption DEF TypeInv, UpTypes, OtherTypes
  <2>1. ASSUME NEW c \in Clients, StepOfClient(c)
        PROVE  link' \in [Endpoints -> Links] /\ faults' \in 0 .. MaxFaults
    <3>1. link' = link \/ link' = [link EXCEPT ![c] = "opening"] \/ link' = [link EXCEPT ![c] = "none"]
      BY <2>1 DEF StepOfClient, ProcessorNotifies, ClientStep, ClientDials, ClientSends,
         ClientSendFails, ClientRecvFails, ClientRetries, ClientDialFails, ClientHandles,
         ClientHandlesLate, ClientCloses, ClientLeaves, LocalRecv, Reads, Open, End
    <3>2. faults' = faults \/ Fault
      BY <2>1 DEF StepOfClient, ProcessorNotifies, ClientStep, ClientDials, ClientSends,
         ClientSendFails, ClientRecvFails, ClientRetries, ClientDialFails, ClientHandles,
         ClientHandlesLate, ClientCloses, ClientLeaves, LocalRecv, Reads
    <3>3. link' \in [Endpoints -> Links]
      BY <2>0, <3>1
    <3>4. faults' \in 0 .. MaxFaults
      BY <2>0, <3>2 DEF Fault
    <3> QED BY <3>3, <3>4
  <2>2. ASSUME NEW p \in Proxies, StepOfProxy(p)
        PROVE  link' \in [Endpoints -> Links] /\ faults' \in 0 .. MaxFaults
    <3>1. \/ link' = link \/ link' = [link EXCEPT ![p] = "opening"] \/ link' = [link EXCEPT ![p] = "none"]
          \/ link' = [e \in Endpoints |->
                        IF e \in Below(p) /\ link[e] # "none" THEN "broken" ELSE link[e]]
      BY <2>2 DEF StepOfProxy, ProxyStep, ProxyDials, ProxySends, ProxySendFails, ProxyRecvFails,
         ProxyRetries, ProxyDialFails, ProxyRelays, ProxyRelaysLate, LocalStops, LocalCloses,
         ProxyQuits, ParentRecv, Reads, Open, End
    <3>2. faults' = faults \/ Fault
      BY <2>2 DEF StepOfProxy, ProxyStep, ProxyDials, ProxySends, ProxySendFails, ProxyRecvFails,
         ProxyRetries, ProxyDialFails, ProxyRelays, ProxyRelaysLate, LocalStops, LocalCloses,
         ProxyQuits, ParentRecv, Reads
    <3>3. link' \in [Endpoints -> Links]
      BY <2>0, <3>1
    <3>4. faults' \in 0 .. MaxFaults
      BY <2>0, <3>2 DEF Fault
    <3> QED BY <3>3, <3>4
  <2>3. ASSUME NEW e \in Endpoints, StepOfStream(e)
        PROVE  link' \in [Endpoints -> Links] /\ faults' \in 0 .. MaxFaults
    <3>1. link' = link \/ link' = [link EXCEPT ![e] = "open"] \/ link' = [link EXCEPT ![e] = "broken"]
      BY <2>3 DEF StepOfStream, Accept, Break, LateEnds
    <3>2. faults' = faults \/ Fault
      BY <2>3 DEF StepOfStream, Accept, Break, LateEnds
    <3>3. link' \in [Endpoints -> Links]
      BY <2>0, <3>1
    <3>4. faults' \in 0 .. MaxFaults
      BY <2>0, <3>2 DEF Fault
    <3> QED BY <3>3, <3>4
  <2> QED BY <2>1, <2>2, <2>3, StepCases
<1>6. deploy' \in Deployments
  BY StepCases DEF TypeInv, OtherTypes
<1>7. old' \in [Endpoints -> Nat]
  <2>0. old \in [Endpoints -> Nat] /\ \A e \in Endpoints : Len(up[e]) \in Nat
    BY <1>0, LenProperties DEF TypeInv, UpTypes
  <2> DEFINE Set(e) == old' = old \/ \E k \in Nat : old' = [old EXCEPT ![e] = k]
  <2>1. ASSUME NEW e \in Endpoints, Reads(e) PROVE Set(e)
    <3>1. (IF old[e] > 0 THEN old[e] - 1 ELSE 0) \in Nat
      BY <2>0
    <3> QED BY <2>1, <3>1 DEF Reads
  <2>2. ASSUME NEW e \in Endpoints, End(e) PROVE Set(e)
    <3>1. PICK k \in 0 .. Len(up[e]) : old' = [old EXCEPT ![e] = k]
      BY <2>2 DEF End
    <3>2. k \in Nat
      BY <2>0
    <3> QED BY <3>1, <3>2
  <2>3. ASSUME NEW c \in Clients, StepOfClient(c) PROVE Set(c)
    <3>1. old' = old \/ End(c) \/ Reads(c)
      BY <2>3 DEF StepOfClient, ProcessorNotifies, ClientStep, ClientDials, ClientSends,
         ClientSendFails, ClientRecvFails, ClientRetries, ClientDialFails, ClientHandles,
         ClientHandlesLate, ClientCloses, ClientLeaves, LocalRecv, Open
    <3> QED BY <1>1, <2>1, <2>2, <3>1
  <2>4. ASSUME NEW p \in Proxies, StepOfProxy(p) PROVE Set(p)
    <3>1. old' = old \/ End(p) \/ Reads(p)
      BY <2>4 DEF StepOfProxy, ProxyStep, ProxyDials, ProxySends, ProxySendFails, ProxyRecvFails,
         ProxyRetries, ProxyDialFails, ProxyRelays, ProxyRelaysLate, LocalStops, LocalCloses,
         ProxyQuits, ParentRecv, Open
    <3> QED BY <1>1, <2>1, <2>2, <3>1
  <2>5. ASSUME NEW e \in Endpoints, StepOfStream(e) PROVE Set(e)
    <3>1. old' = old \/ old' = [old EXCEPT ![e] = 0]
      BY <2>5 DEF StepOfStream, Accept, Break, LateEnds
    <3> QED BY <3>1
  <2>6. \E e \in Endpoints : Set(e)
    BY <1>1, <2>3, <2>4, <2>5, StepCases
  <2> QED BY <2>0, <2>6
<1> QED BY <1>3, <1>4, <1>5, <1>6, <1>7 DEF UpTypes, OtherTypes

\* Steps that leave queues of decisions, receivers, handlers and keys alone.
LEMMA DownIdle ==
  ASSUME TypeInv, UNCHANGED <<down, late, kept, decided>>
  PROVE  DownMove
<1>1. down = [e \in Endpoints |-> down[e]]
  BY DEF TypeInv, DownTypes
<1> QED BY <1>1 DEF TypeInv, DownTypes, DownMove, QueueMove

\* A stream that ends leaves its decisions to its receiver.
LEMMA DownEnd ==
  ASSUME TypeInv, NEW e \in Endpoints, End(e), UNCHANGED <<kept, decided>>
  PROVE  DownMove
<1>1. down \in [Endpoints -> Seq(decided)] /\ late \in [Endpoints -> SUBSET decided]
      /\ kept \in [Clients -> SUBSET decided] /\ decided \subseteq TraceIDs
  BY DEF TypeInv, DownTypes
<1>2. Range(down[e]) \in SUBSET decided
  BY <1>1, RangeOfSeq
<1>3. late' \in [Endpoints -> SUBSET decided']
  BY <1>1, <1>2 DEF End
<1>4. /\ down' = [f \in Endpoints |-> down'[f]]
      /\ \A f \in Endpoints : down'[f] = down[f] \/ down'[f] = <<>>
  BY <1>1 DEF End
<1> QED BY <1>1, <1>3, <1>4 DEF DownMove, QueueMove

\* A decision is broadcast into the queues that have room.
LEMMA DownBroadcast ==
  ASSUME TypeInv, NEW es, NEW t \in decided', Broadcast(es, t),
         decided \subseteq decided', decided' \subseteq TraceIDs,
         late' \in [Endpoints -> SUBSET decided'], UNCHANGED kept
  PROVE  DownMove
<1>1. kept' \in [Clients -> SUBSET decided']
  BY DEF TypeInv, DownTypes
<1>2. /\ down' = [f \in Endpoints |-> down'[f]]
      /\ \A f \in Endpoints : \/ down'[f] = down[f]
                              \/ Len(down[f]) < Cap /\ down'[f] = Append(down[f], t)
  BY DEF Broadcast
<1> QED BY <1>1, <1>2 DEF DownMove, QueueMove

\* Every step moves decisions as DownMove says.
LEMMA DownNext ==
  ASSUME TypeInv, Next
  PROVE  DownMove
<1>0. /\ down \in [Endpoints -> Seq(decided)] /\ late \in [Endpoints -> SUBSET decided]
      /\ kept \in [Clients -> SUBSET decided] /\ decided \subseteq TraceIDs
      /\ up \in [Endpoints -> Seq(TraceIDs)]
  BY DEF TypeInv, DownTypes, UpTypes
<1>1. ASSUME NEW c \in Clients, StepOfClient(c) PROVE DownMove
  <2>0. c \in Endpoints
    BY DEF Endpoints
  <2>1. CASE ClientHandles(c)
    <3>1. Head(down[c]) \in decided
      BY <1>0, <2>0, <2>1, HeadTailProperties DEF ClientHandles
    <3>2. kept' \in [Clients -> SUBSET decided'] /\ UNCHANGED <<late, decided>>
      BY <1>0, <2>1, <3>1 DEF ClientHandles
    <3>3. /\ down' = [f \in Endpoints |-> down'[f]]
          /\ \A f \in Endpoints : down'[f] = down[f] \/ (down[f] # <<>> /\ down'[f] = Tail(down[f]))
      BY <1>0, <2>0, <2>1 DEF ClientHandles
    <3> QED BY <1>0, <3>2, <3>3 DEF DownMove, QueueMove
  <2>2. ASSUME NEW t \in late[c], ClientHandlesLate(c, t) PROVE DownMove
    <3>1. t \in decided
      BY <1>0, <2>0
    <3>2. /\ kept' \in [Clients -> SUBSET decided'] /\ late' \in [Endpoints -> SUBSET decided']
          /\ UNCHANGED <<down, decided>>
      BY <1>0, <2>0, <2>2, <3>1 DEF ClientHandlesLate
    <3>3. down = [f \in Endpoints |-> down[f]]
      BY <1>0
    <3> QED BY <1>0, <3>2, <3>3 DEF DownMove, QueueMove
  <2>3. CASE End(c) /\ UNCHANGED <<kept, decided>>
    BY <2>0, <2>3, DownEnd
  <2>4. CASE UNCHANGED <<down, late, kept, decided>>
    BY <2>4, DownIdle
  <2> QED BY <1>1, <2>1, <2>2, <2>3, <2>4
          DEF StepOfClient, ProcessorNotifies, ClientStep, ClientDials, ClientSends,
              ClientSendFails, ClientRecvFails, ClientRetries, ClientDialFails,
              ClientCloses, ClientLeaves, LocalRecv, Reads, Open
<1>2. ASSUME NEW p \in Proxies, StepOfProxy(p) PROVE DownMove
  <2>0. p \in Endpoints
    BY DEF Endpoints
  <2>1. CASE ProxyRelays(p)
    <3>1. Head(down[p]) \in decided
      BY <1>0, <2>0, <2>1, HeadTailProperties DEF ProxyRelays
    <3>2. /\ UNCHANGED <<late, decided, kept>>
          /\ down' = [f \in Endpoints |-> down'[f]]
      BY <2>1 DEF ProxyRelays
    <3>3. ASSUME NEW f \in Endpoints
          PROVE  \/ down'[f] = down[f] \/ (down[f] # <<>> /\ down'[f] = Tail(down[f]))
                 \/ Len(down[f]) < Cap /\ down'[f] = Append(down[f], Head(down[p]))
      BY <2>1 DEF ProxyRelays
    <3>4. ASSUME NEW f \in Endpoints PROVE QueueMove(decided', down[f], down'[f])
      BY <3>1, <3>2, <3>3 DEF QueueMove
    <3> QED BY <1>0, <3>2, <3>4 DEF DownMove
  <2>2. ASSUME NEW t \in late[p], ProxyRelaysLate(p, t) PROVE DownMove
    <3>1. t \in decided
      BY <1>0, <2>0
    <3>2. /\ late' \in [Endpoints -> SUBSET decided'] /\ Broadcast(Below(p), t)
          /\ UNCHANGED <<kept, decided>>
      BY <1>0, <2>0, <2>2 DEF ProxyRelaysLate
    <3> QED BY <1>0, <3>1, <3>2, DownBroadcast
  <2>3. CASE ParentRecv(p)
    <3> DEFINE t == Head(up[p])
    <3>1. t \in TraceIDs
      BY <1>0, <2>0, <2>3, HeadTailProperties DEF ParentRecv, Reads
    <3>2. /\ decided' = decided \union {t} /\ UNCHANGED <<late, kept>>
          /\ UNCHANGED <<down, decided>> \/ Broadcast(Proxies, t)
      BY <2>3 DEF ParentRecv, Reads
    <3> HIDE DEF t
    <3>3. /\ t \in decided' /\ decided \subseteq decided' /\ decided' \subseteq TraceIDs
          /\ late' \in [Endpoints -> SUBSET decided']
      BY <1>0, <3>1, <3>2
    <3>4. CASE UNCHANGED <<down, decided>>
      BY <3>2, <3>4, DownIdle
    <3>5. CASE Broadcast(Proxies, t)
      BY <3>2, <3>3, <3>5, DownBroadcast
    <3> QED BY <3>2, <3>4, <3>5
  <2>4. CASE End(p) /\ UNCHANGED <<kept, decided>>
    BY <2>0, <2>4, DownEnd
  <2>5. CASE UNCHANGED <<down, late, kept, decided>>
    BY <2>5, DownIdle
  <2> QED BY <1>2, <2>1, <2>2, <2>3, <2>4, <2>5
          DEF StepOfProxy, ProxyStep, ProxyDials, ProxySends, ProxySendFails, ProxyRecvFails,
              ProxyRetries, ProxyDialFails, LocalStops, LocalCloses, ProxyQuits, Open
<1>3. ASSUME NEW e \in Endpoints, StepOfStream(e) PROVE DownMove
  <2>1. CASE Accept(e)
    BY <2>1, DownIdle DEF Accept
  <2>2. CASE Break(e)
    <3>1. PICK k \in 0 .. Len(down[e]) : down' = [down EXCEPT ![e] = SubSeq(@, 1, k)]
      BY <2>2 DEF Break
    <3>2. /\ down' = [f \in Endpoints |-> down'[f]]
          /\ \A f \in Endpoints : down'[f] = down[f] \/ (f = e /\ down'[f] = SubSeq(down[f], 1, k))
      BY <1>0, <3>1
    <3>3. ASSUME NEW f \in Endpoints PROVE QueueMove(decided', down[f], down'[f])
      BY <3>2 DEF QueueMove
    <3> QED BY <1>0, <2>2, <3>2, <3>3 DEF Break, DownMove
  <2>3. CASE LateEnds(e)
    <3>1. /\ late' \in [Endpoints -> SUBSET decided'] /\ UNCHANGED <<down, kept, decided>>
      BY <1>0, <2>3 DEF LateEnds
    <3>2. down = [f \in Endpoints |-> down[f]]
      BY <1>0
    <3> QED BY <1>0, <3>1, <3>2 DEF DownMove, QueueMove
  <2> QED BY <1>3, <2>1, <2>2, <2>3 DEF StepOfStream
<1> QED BY <1>1, <1>2, <1>3, StepCases

\* Every step keeps the types.
LEMMA TypeNext == TypeInv /\ [Next]_vars => TypeInv'
<1> SUFFICES ASSUME TypeInv, [Next]_vars PROVE TypeInv'
  OBVIOUS
<1>1. CASE UNCHANGED vars
  BY <1>1 DEF TypeInv, ClientTypes, ProxyTypes, UpTypes, OtherTypes, DownTypes, vars, stateVars
<1>2. CASE Next
  <2>1. DownTypes'
    BY <1>2, DownNext, DownMoves DEF TypeInv
  <2> QED BY <1>2, <2>1, EndpointNext, UpNext DEF TypeInv
<1> QED BY <1>1, <1>2

(* Channels and streams stay within their capacities and the waits between  *)
(* connection attempts within their limits (client.go run, proxy/pubsub.go  *)
(* run), and nothing but trace IDs travels, however often streams fail.     *)
THEOREM FleetTypes == Spec => []TypeOK
<1>1. TypeInv => TypeOK
  <2> SUFFICES ASSUME TypeInv PROVE TypeOK
    OBVIOUS
  <2>1. ASSUME NEW e \in Endpoints
        PROVE  Range(up[e]) \union Range(down[e]) \union late[e] \subseteq TraceIDs
    <3>1. /\ up[e] \in Seq(TraceIDs) /\ down[e] \in Seq(decided) /\ late[e] \subseteq decided
          /\ decided \subseteq TraceIDs
      BY DEF TypeInv, UpTypes, DownTypes
    <3>2. Range(up[e]) \in SUBSET TraceIDs /\ Range(down[e]) \in SUBSET decided
      BY <3>1, RangeOfSeq
    <3> QED BY <3>1, <3>2
  <2> QED BY <2>1
          DEF TypeInv, ClientTypes, ProxyTypes, UpTypes, OtherTypes, DownTypes, TypeOK, Pcs
<1> QED BY <1>1, TypeInit, TypeNext, PTL DEF Spec

(* A handler is called only with what the parent decided, for any number of *)
(* clients, proxies and traces and however streams end: every decision on   *)
(* its way down was put there by the parent's Broadcast.                    *)
THEOREM OnlyDecidedIsKept == Spec => []KeptWasDecided
<1>1. TypeInv => KeptWasDecided
  BY DEF TypeInv, DownTypes, KeptWasDecided
<1> QED BY <1>1, TypeInit, TypeNext, PTL DEF Spec
-----------------------------------------------------------------------------
(* No notification is multiplied.                                          *)

\* Where t occurs in a family of sequences.
Spots(q, t) == {w \in (DOMAIN q) \X Nat : w[2] \in 1 .. Len(q[w[1]]) /\ q[w[1]][w[2]] = t}

\* Appending an element to one of them adds at most its own place.
LEMMA SpotsAppend ==
  ASSUME NEW S, NEW q \in [S -> Seq(TraceIDs)], NEW x \in S, NEW e \in TraceIDs, NEW t,
         IsFiniteSet(Spots(q, t)),
         NEW r, DOMAIN r = S, r[x] = Append(q[x], e), \A y \in S : y # x => r[y] = q[y]
  PROVE  /\ IsFiniteSet(Spots(r, t))
         /\ Cardinality(Spots(r, t)) = Cardinality(Spots(q, t)) + IF e = t THEN 1 ELSE 0
<1> DEFINE w0 == <<x, Len(q[x]) + 1>>
<1>1. /\ q[x] \in Seq(TraceIDs) /\ Len(q[x]) \in Nat
      /\ Len(Append(q[x], e)) = Len(q[x]) + 1 /\ Append(q[x], e)[Len(q[x]) + 1] = e
      /\ \A i \in 1 .. Len(q[x]) : Append(q[x], e)[i] = q[x][i]
  BY AppendProperties, LenProperties
<1>2. DOMAIN r = S /\ DOMAIN q = S /\ r[x] = Append(q[x], e) /\ \A y \in S : y # x => r[y] = q[y]
  OBVIOUS
<1>3. Cardinality(Spots(q, t)) \in Nat
  BY FS_CardinalityType
<1>4. CASE e = t
  <2>1. Spots(r, t) = Spots(q, t) \union {w0}
    <3>1. ASSUME NEW y \in S, NEW i \in Nat
          PROVE  <<y, i>> \in Spots(r, t) <=> <<y, i>> \in Spots(q, t) \/ <<y, i>> = w0
      <4>1. CASE y # x
        BY <1>2, <4>1 DEF Spots
      <4>2. CASE y = x
        BY <1>1, <1>2, <1>4, <4>2 DEF Spots
      <4> QED BY <4>1, <4>2
    <3>2. w0 \in S \X Nat
      BY <1>1
    <3> QED BY <1>2, <3>1, <3>2 DEF Spots
  <2>2. w0 \notin Spots(q, t)
    BY <1>1 DEF Spots
  <2> HIDE DEF w0
  <2>3. /\ IsFiniteSet(Spots(q, t) \union {w0})
        /\ Cardinality(Spots(q, t) \union {w0}) = Cardinality(Spots(q, t)) + 1
    BY <2>2, FS_AddElement
  <2> QED BY <1>4, <2>1, <2>3
<1>5. CASE e # t
  <2>1. Spots(r, t) = Spots(q, t)
    <3>1. ASSUME NEW y \in S, NEW i \in Nat PROVE <<y, i>> \in Spots(r, t) <=> <<y, i>> \in Spots(q, t)
      <4>1. CASE y # x
        BY <1>2, <4>1 DEF Spots
      <4>2. CASE y = x
        BY <1>1, <1>2, <1>5, <4>2 DEF Spots
      <4> QED BY <4>1, <4>2
    <3> QED BY <1>2, <3>1 DEF Spots
  <2> QED BY <1>3, <1>5, <2>1
<1> QED BY <1>4, <1>5

\* Cutting one of them short adds none.
LEMMA SpotsCut ==
  ASSUME NEW S, NEW q \in [S -> Seq(TraceIDs)], NEW x \in S, NEW k \in 0 .. Len(q[x]), NEW t,
         IsFiniteSet(Spots(q, t))
  PROVE  LET r == [q EXCEPT ![x] = SubSeq(@, 1, k)]
         IN  /\ IsFiniteSet(Spots(r, t))
             /\ Cardinality(Spots(r, t)) <= Cardinality(Spots(q, t))
<1> DEFINE r == [q EXCEPT ![x] = SubSeq(@, 1, k)]
<1>1. /\ q[x] \in Seq(TraceIDs) /\ Len(q[x]) \in Nat /\ k \in Nat
      /\ Len(SubSeq(q[x], 1, k)) = k /\ k <= Len(q[x])
      /\ \A i \in 1 .. k : SubSeq(q[x], 1, k)[i] = q[x][i]
  <2>1. q[x] \in Seq(TraceIDs) /\ Len(q[x]) \in Nat /\ k \in Nat
    BY LenProperties
  <2> QED BY <2>1, PrefixType
<1>2. DOMAIN r = S /\ DOMAIN q = S /\ r[x] = SubSeq(q[x], 1, k) /\ \A y \in S : y # x => r[y] = q[y]
  OBVIOUS
<1> HIDE DEF r
<1>3. ASSUME NEW y \in S, NEW i \in Nat, <<y, i>> \in Spots(r, t) PROVE <<y, i>> \in Spots(q, t)
  <2>1. CASE y # x
    BY <1>2, <1>3, <2>1 DEF Spots
  <2>2. CASE y = x
    BY <1>1, <1>2, <1>3, <2>2 DEF Spots
  <2> QED BY <2>1, <2>2
<1>4. Spots(r, t) \in SUBSET Spots(q, t)
  BY <1>2, <1>3 DEF Spots
<1> QED BY <1>4, FS_Subset DEF r

\* Taking the head of one of them away takes its own place away.
LEMMA SpotsTail ==
  ASSUME NEW S, NEW q \in [S -> Seq(TraceIDs)], NEW x \in S, q[x] # <<>>, NEW t,
         IsFiniteSet(Spots(q, t))
  PROVE  LET r == [q EXCEPT ![x] = Tail(@)]
         IN  /\ IsFiniteSet(Spots(r, t))
             /\ Cardinality(Spots(r, t)) + (IF Head(q[x]) = t THEN 1 ELSE 0) <= Cardinality(Spots(q, t))
<1> DEFINE r == [q EXCEPT ![x] = Tail(@)]
           w1 == <<x, 1>>
           rest == Spots(q, t) \ {w1}
           shift == [w \in Spots(r, t) |-> IF w[1] = x THEN <<x, w[2] + 1>> ELSE w]
<1>1. /\ q[x] \in Seq(TraceIDs) /\ Len(q[x]) \in Nat /\ Len(q[x]) # 0 /\ Head(q[x]) = q[x][1]
      /\ Len(Tail(q[x])) = Len(q[x]) - 1
      /\ \A i \in 1 .. Len(Tail(q[x])) : Tail(q[x])[i] = q[x][i + 1]
  BY HeadTailProperties, LenProperties, EmptySeq
<1>2. DOMAIN r = S /\ DOMAIN q = S /\ r[x] = Tail(q[x]) /\ \A y \in S : y # x => r[y] = q[y]
  OBVIOUS
<1> HIDE DEF r
<1>3. ASSUME NEW w \in Spots(r, t) PROVE shift[w] \in rest
  <2>1. w[1] \in S /\ w[2] \in Nat /\ w = <<w[1], w[2]>>
    BY <1>2 DEF Spots
  <2>2. CASE w[1] # x
    <3>1. shift[w] = w /\ w # <<x, 1>>
      BY <2>1, <2>2
    <3>2. w \in Spots(q, t)
      <4>1. r[w[1]] = q[w[1]]
        BY <1>2, <2>1, <2>2
      <4>2. w \in S \X Nat /\ w[2] \in 1 .. Len(r[w[1]]) /\ r[w[1]][w[2]] = t
        BY <1>2 DEF Spots
      <4> QED BY <1>2, <4>1, <4>2 DEF Spots
    <3> QED BY <3>1, <3>2
  <2>3. CASE w[1] = x
    <3>1. w[2] \in 1 .. Len(q[x]) - 1 /\ q[x][w[2] + 1] = t
      BY <1>1, <1>2, <2>3 DEF Spots
    <3>2. w[2] + 1 \in 1 .. Len(q[x]) /\ w[2] + 1 \in Nat /\ w[2] + 1 # 1
      BY <1>1, <3>1
    <3>3. shift[w] = <<x, w[2] + 1>>
      BY <2>3
    <3>4. <<x, w[2] + 1>> \in Spots(q, t)
      BY <1>2, <3>1, <3>2 DEF Spots
    <3>5. <<x, w[2] + 1>> # <<x, 1>>
      BY <3>2
    <3> QED BY <3>3, <3>4, <3>5
  <2> QED BY <2>2, <2>3
<1>4. ASSUME NEW v \in Spots(r, t), NEW w \in Spots(r, t), shift[v] = shift[w] PROVE v = w
  <2>1. /\ v[1] \in S /\ v[2] \in Nat /\ v = <<v[1], v[2]>>
        /\ w[1] \in S /\ w[2] \in Nat /\ w = <<w[1], w[2]>>
    BY <1>2 DEF Spots
  <2>2. shift[v] = (IF v[1] = x THEN <<x, v[2] + 1>> ELSE v)
        /\ shift[w] = (IF w[1] = x THEN <<x, w[2] + 1>> ELSE w)
    OBVIOUS
  <2>3. v[1] = w[1]
    BY <1>4, <2>1, <2>2
  <2>4. v[2] = w[2]
    BY <1>4, <2>1, <2>2, <2>3
  <2> QED BY <2>1, <2>3, <2>4
<1>5. /\ IsFiniteSet(rest)
      /\ Cardinality(rest) = IF w1 \in Spots(q, t) THEN Cardinality(Spots(q, t)) - 1
                                                  ELSE Cardinality(Spots(q, t))
  BY FS_RemoveElement
<1>6. Head(q[x]) = t => w1 \in Spots(q, t)
  BY <1>1, <1>2 DEF Spots
<1>7. shift \in Injection(Spots(r, t), rest)
  <2>1. shift \in [Spots(r, t) -> rest]
    BY <1>3
  <2> HIDE DEF shift, rest
  <2> QED BY <1>4, <2>1, Fun_IsInj
<1>8. IsFiniteSet(Spots(r, t)) /\ Cardinality(Spots(r, t)) <= Cardinality(rest)
  <2> HIDE DEF shift, rest
  <2> QED BY <1>5, <1>7, FS_Injection
<1>9. Cardinality(Spots(r, t)) \in Nat /\ Cardinality(Spots(q, t)) \in Nat
  BY <1>8, FS_CardinalityType
<1>10. Cardinality(Spots(r, t)) + (IF Head(q[x]) = t THEN 1 ELSE 0) <= Cardinality(Spots(q, t))
  <2> HIDE DEF rest, w1
  <2> QED BY <1>5, <1>6, <1>8, <1>9
<1> QED BY <1>8, <1>10 DEF r

(* The notifications of t that the parent has read, and those in the         *)
(* channels of clients, on streams and in the channels of proxies, are no    *)
(* more than were made.                                                      *)
Held(q, t) == Cardinality(Spots(q, t))
EchoOK(t) ==
  /\ IsFiniteSet(Spots(sendCh, t)) /\ IsFiniteSet(Spots(up, t)) /\ IsFiniteSet(Spots(pubCh, t))
  /\ reached[t] + Held(sendCh, t) + Held(up, t) + Held(pubCh, t) <= notified[t]
EchoInv == \A t \in TraceIDs : EchoOK(t)

\* No channel holds anything before Notify is called.
LEMMA EchoInit == Init => EchoInv
<1> SUFFICES ASSUME Init, NEW t \in TraceIDs PROVE EchoOK(t)
  BY DEF EchoInv
<1>1. /\ \A c \in Clients : sendCh[c] = <<>>
      /\ \A p \in Proxies : pubCh[p] = <<>>
      /\ \A e \in Endpoints : up[e] = <<>>
      /\ DOMAIN sendCh = Clients /\ DOMAIN pubCh = Proxies /\ DOMAIN up = Endpoints
      /\ reached[t] = 0 /\ notified[t] = 0
  BY DEF Init, ClientInit, ProxyInit
<1>2. ASSUME NEW S, NEW q, DOMAIN q = S, \A x \in S : q[x] = <<>> PROVE Spots(q, t) = {}
  <2>1. ASSUME NEW w \in S \X Nat PROVE w[2] \notin 1 .. Len(q[w[1]])
    <3>1. w[1] \in S /\ Len(<<>>) = 0
      OBVIOUS
    <3> QED BY <1>2, <3>1
  <2> QED BY <1>2, <2>1 DEF Spots
<1>3. Spots(sendCh, t) = {} /\ Spots(pubCh, t) = {} /\ Spots(up, t) = {}
  BY <1>1, <1>2
<1> QED BY <1>1, <1>3, FS_EmptySet DEF EchoOK, Held

\* What a taken notification adds to the streams: at most itself.
LEMMA LiftSpots ==
  ASSUME up \in [Endpoints -> Seq(TraceIDs)], NEW e \in Endpoints, NEW u \in TraceIDs, Lift(e, u),
         NEW t \in TraceIDs, IsFiniteSet(Spots(up, t))
  PROVE  /\ IsFiniteSet(Spots(up', t))
         /\ Held(up', t) <= Held(up, t) + IF u = t THEN 1 ELSE 0
<1>0. Held(up, t) \in Nat
  BY FS_CardinalityType DEF Held
<1>1. CASE UNCHANGED up
  BY <1>0, <1>1
<1>2. CASE up' = [up EXCEPT ![e] = Append(@, u)]
  <2>1. /\ IsFiniteSet(Spots(up', t))
        /\ Cardinality(Spots(up', t)) = Cardinality(Spots(up, t)) + IF u = t THEN 1 ELSE 0
    <3>1. /\ DOMAIN up' = Endpoints /\ up'[e] = Append(up[e], u)
          /\ \A y \in Endpoints : y # e => up'[y] = up[y]
      BY <1>2
    <3> QED BY <3>1, SpotsAppend
  <2> QED BY <1>0, <2>1 DEF Held
<1>3. ASSUME NEW k \in 0 .. Len(up[e]), up' = [up EXCEPT ![e] = SubSeq(@, 1, k)]
      PROVE  IsFiniteSet(Spots(up', t)) /\ Held(up', t) <= Held(up, t)
  BY <1>3, SpotsCut DEF Held
<1>4. CASE Cut(e)
  <2>1. IsFiniteSet(Spots(up', t)) /\ Held(up', t) <= Held(up, t)
    BY <1>3, <1>4 DEF Cut
  <2>2. Held(up', t) \in Nat
    BY <2>1, FS_CardinalityType DEF Held
  <2> QED BY <1>0, <2>1, <2>2
<1> QED BY <1>1, <1>2, <1>4 DEF Lift

\* What Notify adds to its channel: itself.
LEMMA SendSpots ==
  ASSUME sendCh \in [Clients -> Seq(TraceIDs)], NEW x \in Clients, NEW u \in TraceIDs,
         sendCh' = [sendCh EXCEPT ![x] = Append(@, u)],
         NEW t \in TraceIDs, IsFiniteSet(Spots(sendCh, t))
  PROVE  /\ IsFiniteSet(Spots(sendCh', t))
         /\ Held(sendCh', t) = Held(sendCh, t) + IF u = t THEN 1 ELSE 0
<1>0. /\ sendCh \in [Clients -> Seq(TraceIDs)] /\ x \in Clients /\ u \in TraceIDs
      /\ IsFiniteSet(Spots(sendCh, t))
  OBVIOUS
<1>1. /\ DOMAIN sendCh' = Clients /\ sendCh'[x] = Append(sendCh[x], u)
      /\ \A y \in Clients : y # x => sendCh'[y] = sendCh[y]
  OBVIOUS
<1>2. /\ IsFiniteSet(Spots(sendCh', t))
      /\ Cardinality(Spots(sendCh', t)) = Cardinality(Spots(sendCh, t)) + IF u = t THEN 1 ELSE 0
  BY ONLY <1>0, <1>1, SpotsAppend
<1> QED BY <1>2 DEF Held

\* What Publish adds to its channel: itself.
LEMMA PubSpots ==
  ASSUME pubCh \in [Proxies -> Seq(TraceIDs)], NEW x \in Proxies, NEW u \in TraceIDs,
         pubCh' = [pubCh EXCEPT ![x] = Append(@, u)],
         NEW t \in TraceIDs, IsFiniteSet(Spots(pubCh, t))
  PROVE  /\ IsFiniteSet(Spots(pubCh', t))
         /\ Held(pubCh', t) = Held(pubCh, t) + IF u = t THEN 1 ELSE 0
<1>0. /\ pubCh \in [Proxies -> Seq(TraceIDs)] /\ x \in Proxies /\ u \in TraceIDs
      /\ IsFiniteSet(Spots(pubCh, t))
  OBVIOUS
<1>1. /\ DOMAIN pubCh' = Proxies /\ pubCh'[x] = Append(pubCh[x], u)
      /\ \A y \in Proxies : y # x => pubCh'[y] = pubCh[y]
  OBVIOUS
<1>2. /\ IsFiniteSet(Spots(pubCh', t))
      /\ Cardinality(Spots(pubCh', t)) = Cardinality(Spots(pubCh, t)) + IF u = t THEN 1 ELSE 0
  BY ONLY <1>0, <1>1, SpotsAppend
<1> QED BY <1>2 DEF Held

\* Every step keeps EchoInv.
LEMMA EchoNext == TypeInv /\ EchoInv /\ [Next]_vars => EchoInv'
<1> SUFFICES ASSUME TypeInv, EchoInv, [Next]_vars, NEW t \in TraceIDs PROVE EchoOK(t)'
  BY DEF EchoInv
<1>0. /\ sendCh \in [Clients -> Seq(TraceIDs)] /\ pubCh \in [Proxies -> Seq(TraceIDs)]
      /\ up \in [Endpoints -> Seq(TraceIDs)] /\ Home \in [Clients -> Proxies]
      /\ notified \in [TraceIDs -> Nat] /\ reached \in [TraceIDs -> Nat]
  BY HomeType DEF TypeInv, ClientTypes, ProxyTypes, UpTypes, OtherTypes
<1>1. \A e \in Clients \union Proxies : e \in Endpoints
  BY DEF Endpoints
<1>2. /\ IsFiniteSet(Spots(sendCh, t)) /\ IsFiniteSet(Spots(up, t)) /\ IsFiniteSet(Spots(pubCh, t))
      /\ reached[t] + Held(sendCh, t) + Held(up, t) + Held(pubCh, t) <= notified[t]
  BY DEF EchoInv, EchoOK
<1>3. /\ Held(sendCh, t) \in Nat /\ Held(up, t) \in Nat /\ Held(pubCh, t) \in Nat
      /\ reached[t] \in Nat /\ notified[t] \in Nat
  BY <1>0, <1>2, FS_CardinalityType DEF Held
<1>4. ASSUME IsFiniteSet(Spots(sendCh', t)), IsFiniteSet(Spots(up', t)), IsFiniteSet(Spots(pubCh', t)),
             reached'[t] + Held(sendCh', t) + Held(up', t) + Held(pubCh', t) <= notified'[t]
      PROVE  EchoOK(t)'
  BY <1>4 DEF EchoOK, Held
<1>5. CASE MoveIdle \/ UNCHANGED vars
  BY <1>2, <1>4, <1>5 DEF MoveIdle, vars, stateVars
<1>6. ASSUME NEW c \in Clients, NEW u \in TraceIDs, MoveIn(c, u) PROVE EchoOK(t)'
  <2>1. /\ IsFiniteSet(Spots(sendCh', t))
        /\ Held(sendCh', t) <= Held(sendCh, t) + (IF u = t THEN 1 ELSE 0)
    <3>1. CASE UNCHANGED sendCh
      BY <1>2, <1>3, <3>1
    <3>2. CASE sendCh' = [sendCh EXCEPT ![c] = Append(@, u)]
      <4>1. /\ IsFiniteSet(Spots(sendCh', t))
            /\ Held(sendCh', t) = Held(sendCh, t) + IF u = t THEN 1 ELSE 0
        BY <1>0, <1>2, <3>2, SendSpots
      <4> QED BY <1>3, <4>1
    <3> QED BY <1>6, <3>1, <3>2 DEF MoveIn
  <2>2. /\ UNCHANGED <<up, pubCh, reached>>
        /\ notified'[t] = notified[t] + IF u = t THEN 1 ELSE 0
    BY <1>0, <1>6 DEF MoveIn
  <2>3. Held(sendCh', t) \in Nat
    BY <2>1, FS_CardinalityType DEF Held
  <2>4. reached'[t] + Held(sendCh', t) + Held(up', t) + Held(pubCh', t) <= notified'[t]
    BY <1>2, <1>3, <2>1, <2>2, <2>3
  <2> QED BY <1>2, <1>4, <2>1, <2>2, <2>4
<1>7. ASSUME NEW c \in Clients, MoveSent(c) PROVE EchoOK(t)'
  <2> DEFINE u == Head(sendCh[c])
  <2>1. /\ sendCh[c] # <<>> /\ sendCh' = [sendCh EXCEPT ![c] = Tail(@)] /\ Lift(c, u)
        /\ UNCHANGED <<pubCh, notified, reached>> /\ u \in TraceIDs
    BY <1>0, <1>7, HeadTailProperties DEF MoveSent
  <2>2. /\ IsFiniteSet(Spots(sendCh', t))
        /\ Held(sendCh', t) + (IF u = t THEN 1 ELSE 0) <= Held(sendCh, t)
    BY <1>0, <1>2, <2>1, SpotsTail DEF Held
  <2> HIDE DEF u
  <2>3. IsFiniteSet(Spots(up', t)) /\ Held(up', t) <= Held(up, t) + IF u = t THEN 1 ELSE 0
    BY <1>0, <1>1, <1>2, <2>1, LiftSpots
  <2>4. Held(sendCh', t) \in Nat /\ Held(up', t) \in Nat
    BY <2>2, <2>3, FS_CardinalityType DEF Held
  <2>5. reached'[t] + Held(sendCh', t) + Held(up', t) + Held(pubCh', t) <= notified'[t]
    BY SMTT(30), <1>2, <1>3, <2>1, <2>2, <2>3, <2>4
  <2> QED BY <1>2, <1>4, <2>1, <2>2, <2>3, <2>5
<1>8. ASSUME NEW c \in Clients, MovePublished(c) PROVE EchoOK(t)'
  <2> DEFINE u == Head(up[c])
  <2>1. /\ up[c] # <<>> /\ up' = [up EXCEPT ![c] = Tail(@)] /\ u \in TraceIDs
        /\ UNCHANGED pubCh \/ pubCh' = [pubCh EXCEPT ![Home[c]] = Append(@, u)]
        /\ UNCHANGED <<sendCh, notified, reached>> /\ Home[c] \in Proxies
    BY <1>0, <1>1, <1>8, HeadTailProperties DEF MovePublished
  <2>2. /\ IsFiniteSet(Spots(up', t))
        /\ Held(up', t) + (IF u = t THEN 1 ELSE 0) <= Held(up, t)
    BY <1>0, <1>1, <1>2, <2>1, SpotsTail DEF Held
  <2> HIDE DEF u
  <2>3. /\ IsFiniteSet(Spots(pubCh', t))
        /\ Held(pubCh', t) <= Held(pubCh, t) + IF u = t THEN 1 ELSE 0
    <3>1. CASE UNCHANGED pubCh
      BY <1>2, <1>3, <3>1
    <3>2. CASE pubCh' = [pubCh EXCEPT ![Home[c]] = Append(@, u)]
      <4>1. /\ IsFiniteSet(Spots(pubCh', t))
            /\ Held(pubCh', t) = Held(pubCh, t) + IF u = t THEN 1 ELSE 0
        BY <1>0, <1>2, <2>1, <3>2, PubSpots
      <4> QED BY <1>3, <4>1
    <3> QED BY <2>1, <3>1, <3>2
  <2>4. Held(pubCh', t) \in Nat /\ Held(up', t) \in Nat
    BY <2>2, <2>3, FS_CardinalityType DEF Held
  <2>5. reached'[t] + Held(sendCh', t) + Held(up', t) + Held(pubCh', t) <= notified'[t]
    BY SMTT(30), <1>2, <1>3, <2>1, <2>2, <2>3, <2>4
  <2> QED BY <1>2, <1>4, <2>1, <2>2, <2>3, <2>5
<1>9. ASSUME NEW p \in Proxies, MoveForwarded(p) PROVE EchoOK(t)'
  <2> DEFINE u == Head(pubCh[p])
  <2>1. /\ pubCh[p] # <<>> /\ pubCh' = [pubCh EXCEPT ![p] = Tail(@)] /\ Lift(p, u)
        /\ UNCHANGED <<sendCh, notified, reached>> /\ u \in TraceIDs
    BY <1>0, <1>9, HeadTailProperties DEF MoveForwarded
  <2>2. /\ IsFiniteSet(Spots(pubCh', t))
        /\ Held(pubCh', t) + (IF u = t THEN 1 ELSE 0) <= Held(pubCh, t)
    BY <1>0, <1>2, <2>1, SpotsTail DEF Held
  <2> HIDE DEF u
  <2>3. IsFiniteSet(Spots(up', t)) /\ Held(up', t) <= Held(up, t) + IF u = t THEN 1 ELSE 0
    BY <1>0, <1>1, <1>2, <2>1, LiftSpots
  <2>4. Held(pubCh', t) \in Nat /\ Held(up', t) \in Nat
    BY <2>2, <2>3, FS_CardinalityType DEF Held
  <2>5. reached'[t] + Held(sendCh', t) + Held(up', t) + Held(pubCh', t) <= notified'[t]
    BY SMTT(30), <1>2, <1>3, <2>1, <2>2, <2>3, <2>4
  <2> QED BY <1>2, <1>4, <2>1, <2>2, <2>3, <2>5
<1>10. ASSUME NEW p \in Proxies, MoveRead(p) PROVE EchoOK(t)'
  <2> DEFINE u == Head(up[p])
  <2>1. /\ up[p] # <<>> /\ up' = [up EXCEPT ![p] = Tail(@)] /\ u \in TraceIDs
        /\ reached' = [reached EXCEPT ![u] = @ + 1] /\ UNCHANGED <<sendCh, pubCh, notified>>
    BY <1>0, <1>1, <1>10, HeadTailProperties DEF MoveRead
  <2>2. /\ IsFiniteSet(Spots(up', t))
        /\ Held(up', t) + (IF u = t THEN 1 ELSE 0) <= Held(up, t)
    BY <1>0, <1>1, <1>2, <2>1, SpotsTail DEF Held
  <2> HIDE DEF u
  <2>3. reached'[t] = reached[t] + IF u = t THEN 1 ELSE 0
    BY <1>0, <2>1
  <2>4. Held(up', t) \in Nat
    BY <2>2, FS_CardinalityType DEF Held
  <2>5. reached'[t] + Held(sendCh', t) + Held(up', t) + Held(pubCh', t) <= notified'[t]
    BY SMTT(30), <1>2, <1>3, <2>1, <2>2, <2>3, <2>4
  <2> QED BY <1>2, <1>4, <2>1, <2>2, <2>5
<1>11. ASSUME NEW e \in Endpoints, MoveCut(e) PROVE EchoOK(t)'
  <2>1. PICK k \in 0 .. Len(up[e]) : up' = [up EXCEPT ![e] = SubSeq(@, 1, k)]
    BY <1>11 DEF MoveCut, Cut
  <2>2. IsFiniteSet(Spots(up', t)) /\ Held(up', t) <= Held(up, t)
    BY <1>0, <1>2, <2>1, SpotsCut DEF Held
  <2>3. Held(up', t) \in Nat /\ UNCHANGED <<sendCh, pubCh, notified, reached>>
    BY <1>11, <2>2, FS_CardinalityType DEF Held, MoveCut
  <2>4. reached'[t] + Held(sendCh', t) + Held(up', t) + Held(pubCh', t) <= notified'[t]
    BY <1>2, <1>3, <2>2, <2>3
  <2> QED BY <1>2, <1>4, <2>2, <2>3, <2>4
<1> QED BY <1>5, <1>6, <1>7, <1>8, <1>9, <1>10, <1>11, Moves

(* The parent reads of a trace at most as often as processors notified it,  *)
(* for any number of clients and proxies: a channel gives a notification to *)
(* one stream and never takes it back, and what is retried is the           *)
(* connection only (client.go connect, proxy/pubsub.go send).               *)
THEOREM NotificationsNotMultiplied == Spec => []NoEcho
<1>1. TypeInv /\ EchoInv => NoEcho
  <2> SUFFICES ASSUME TypeInv, EchoInv, NEW t \in TraceIDs PROVE reached[t] <= notified[t]
    BY DEF NoEcho
  <2>1. EchoOK(t)
    BY DEF EchoInv
  <2>2. Held(sendCh, t) \in Nat /\ Held(up, t) \in Nat /\ Held(pubCh, t) \in Nat
    BY <2>1, FS_CardinalityType DEF EchoOK, Held
  <2>3. reached[t] \in Nat /\ notified[t] \in Nat
    BY DEF TypeInv, OtherTypes
  <2> QED BY <2>1, <2>2, <2>3 DEF EchoOK
<1> QED BY <1>1, TypeInit, TypeNext, EchoInit, EchoNext, PTL DEF Spec
=============================================================================
