------------------------------- MODULE Fleet -------------------------------
(***************************************************************************)
(* Processors, their local coordinators in proxy mode and the parent       *)
(* coordinator, composed: Client and Proxy with the streams between them.  *)
(*                                                                         *)
(* A stream belongs to the endpoint that made it, a client (to the local   *)
(* coordinator Home names) or a proxy (to the parent).  What it carries    *)
(* upwards was accepted by Send; what it carries downwards is the queue the*)
(* server keeps for it and what is on the wire.  The server's own steps    *)
(* (batches, its sender goroutine) are the business of Coordinator; here a *)
(* server reads, deduplicates (parent) or publishes (proxy), and           *)
(* broadcasts to the streams it has registered.                            *)
(***************************************************************************)
EXTENDS Client, Proxy, FiniteSets, Functions

CONSTANTS
  TraceIDs,
  Deployments,   \* where clients connect to, how often they notify (a bound), and
                 \* which clients and local coordinators may be closed
  Cap,           \* decisions a stream holds
  MaxFaults      \* bound: broken streams and failed connects

ASSUME FleetAssumption ==
  /\ Deployments \subseteq [home : [Clients -> Proxies], notifies : Nat,
                     closers : SUBSET (Clients \union Proxies)]
  /\ Clients \intersect Proxies = {}
  /\ SendCap \in Nat \ {0} /\ SendBufSize \in Nat \ {0} /\ Cap \in Nat \ {0}
  /\ MaxBackoff \in Nat \ {0} /\ MaxPause \in Nat \ {0} /\ MaxFaults \in Nat

Endpoints == Clients \union Proxies

VARIABLES
  deploy,    \* the deployment; it does not change
  link,      \* by endpoint: none, opening, open (registered), broken
  up,        \* by endpoint: notifications on their way
  old,       \* by endpoint: how many of those were sent on former streams
  down,      \* by endpoint: decisions on their way
  late,      \* by endpoint: what receivers of former streams still hold
  serving,   \* by proxy: its server accepts streams and notifications
  decided,   \* the parent's keys
  kept,      \* by client: the decisions its handler was called with
  faults,
  \* history
  notified,  \* by trace: calls of Notify
  reached,   \* by trace: notifications the parent has read
  lost,      \* traces of which a notification was lost
  missed     \* by client: decisions lost on their way to it

linkVars  == <<link, up, old, down, late>>
histVars  == <<notified, reached, lost, missed>>
stateVars == <<clientVars, proxyVars, linkVars, serving, decided, kept, faults, histVars>>
vars      == <<deploy, stateVars>>

Home == deploy.home   \* the local coordinator of each client

Init ==
  /\ deploy \in Deployments
  /\ ClientInit /\ ProxyInit(Range(Home))
  /\ link = [e \in Endpoints |-> "none"]
  /\ up = [e \in Endpoints |-> <<>>] /\ down = [e \in Endpoints |-> <<>>]
  /\ late = [e \in Endpoints |-> {}] /\ old = [e \in Endpoints |-> 0]
  /\ serving = [p \in Proxies |-> p \in Range(Home)]
  /\ decided = {} /\ kept = [c \in Clients |-> {}] /\ faults = 0
  /\ notified = [t \in TraceIDs |-> 0] /\ reached = [t \in TraceIDs |-> 0]
  /\ lost = {} /\ missed = [c \in Clients |-> {}]

Fault == faults < MaxFaults /\ faults' = faults + 1

\* The clients that hear through endpoint e.
Below(e) == IF e \in Clients THEN {e} ELSE {c \in Clients : Home[c] = e}

\* Decisions ds do not get past the endpoints es.
Missed(es, ds) ==
  missed' = [c \in Clients |->
               IF \E e \in es : c \in Below(e) THEN missed[c] \union ds ELSE missed[c]]

\* Server.Broadcast to the streams of es: one that has no room misses t.
Broadcast(es, t) ==
  LET fits == {e \in es : link[e] = "open" /\ Len(down[e]) < Cap}
  IN  /\ down' = [e \in Endpoints |-> IF e \in fits THEN Append(down[e], t) ELSE down[e]]
      /\ Missed(es \ fits, {t})
-----------------------------------------------------------------------------
(* Streams.                                                                *)

\* A stream is asked for; the server side does not know of it yet.
Open(e) ==
  /\ link' = [link EXCEPT ![e] = "opening"]
  /\ UNCHANGED <<up, old, down, late>>

\* The server registers the stream, before it reads from it.
Accept(e) ==
  /\ link[e] = "opening"
  /\ e \in Clients => serving[Home[e]]
  /\ link' = [link EXCEPT ![e] = "open"]
  /\ old' = [old EXCEPT ![e] = 0]
  /\ UNCHANGED <<clientVars, proxyVars, up, down, late, serving, decided, kept, faults, histVars>>

(* The endpoint ends its stream: some of what it sent may still arrive, and *)
(* its receiver, which nobody waits for, keeps what has come.               *)
End(e) ==
  /\ link' = [link EXCEPT ![e] = "none"]
  /\ \E k \in 0 .. Len(up[e]) :
       up' = [up EXCEPT ![e] = SubSeq(@, 1, k)] /\ old' = [old EXCEPT ![e] = k]
  /\ late' = [late EXCEPT ![e] = @ \union Range(down[e])]
  /\ down' = [down EXCEPT ![e] = <<>>]

\* What End takes away from up, and notification sequence s, is lost.
Loses(e, s) ==
  lost' = lost \union Range(s) \union Range(SubSeq(up[e], Len(up'[e]) + 1, Len(up[e])))

(* The server reads the next of up: from a stream it has registered, or what *)
(* is left of a former one.                                                 *)
Reads(e) ==
  /\ up[e] # <<>> /\ (link[e] = "opening" => old[e] > 0)
  /\ up' = [up EXCEPT ![e] = Tail(@)]
  /\ old' = [old EXCEPT ![e] = IF @ > 0 THEN @ - 1 ELSE 0]

\* The transport fails: on both sides a prefix has got through.
Break(e) ==
  /\ link[e] \in {"opening", "open"} /\ Fault
  /\ link' = [link EXCEPT ![e] = "broken"]
  /\ \E k \in 0 .. Len(up[e]) : up' = [up EXCEPT ![e] = SubSeq(@, 1, k)]
  /\ old' = [old EXCEPT ![e] = 0]
  /\ Loses(e, <<>>)
  /\ \E k \in 0 .. Len(down[e]) :
       /\ down' = [down EXCEPT ![e] = SubSeq(@, 1, k)]
       /\ Missed({e}, Range(SubSeq(down[e], k + 1, Len(down[e]))))
  /\ UNCHANGED <<clientVars, proxyVars, late, serving, decided, kept, notified, reached>>

\* A receiver of a former stream meets the end of it.
LateEnds(e) ==
  /\ late[e] # {}
  /\ late' = [late EXCEPT ![e] = {}]
  /\ Missed({e}, late[e])
  /\ UNCHANGED <<clientVars, proxyVars, link, up, old, down, serving, decided, kept, faults,
                 notified, reached, lost>>
-----------------------------------------------------------------------------
(* Clients.                                                                *)

ProcessorNotifies(c, t) ==
  /\ ~cancelled[c]
  /\ FoldFunction(+, 0, notified) < deploy.notifies
  /\ Notify(c, t)
  /\ notified' = [notified EXCEPT ![t] = @ + 1]
  /\ lost' = IF sendCh' = sendCh THEN lost \union {t} ELSE lost
  /\ UNCHANGED <<proxyVars, linkVars, serving, decided, kept, faults, reached, missed>>

ClientDials(c) ==
  /\ Connected(c) /\ serving[Home[c]]
  /\ Open(c)
  /\ UNCHANGED <<proxyVars, serving, decided, kept, faults, histVars>>

ClientDialFails(c) ==
  /\ ConnectFails(c)
  /\ Fault \/ ((cancelled[c] \/ ~serving[Home[c]]) /\ UNCHANGED faults)
  /\ UNCHANGED <<proxyVars, linkVars, serving, decided, kept, histVars>>

\* Send returns nil also for a stream whose failure is not yet known.
ClientSends(c) ==
  /\ Send(c) /\ ~cancelled[c]
  /\ IF link[c] = "broken"
     THEN lost' = lost \union {Head(sendCh[c])} /\ UNCHANGED up
     ELSE up' = [up EXCEPT ![c] = Append(@, Head(sendCh[c]))] /\ UNCHANGED lost
  /\ UNCHANGED <<proxyVars, link, old, down, late, serving, decided, kept, faults,
                 notified, reached, missed>>

ClientSendFails(c) ==
  /\ SendFails(c) /\ (link[c] = "broken" \/ cancelled[c])
  /\ End(c) /\ Loses(c, <<Head(sendCh[c])>>)
  /\ UNCHANGED <<proxyVars, serving, decided, kept, faults, notified, reached, missed>>

\* The receiver has read all there is and fails.
ClientRecvFails(c) ==
  /\ RecvFails(c) /\ link[c] = "broken" /\ down[c] = <<>>
  /\ End(c) /\ Loses(c, <<>>)
  /\ UNCHANGED <<proxyVars, serving, decided, kept, faults, notified, reached, missed>>

ClientRetries(c) ==
  /\ Retry(c)
  /\ UNCHANGED <<proxyVars, linkVars, serving, decided, kept, faults, histVars>>

\* The receiver calls the handler; so may one of a former stream.
ClientHandles(c) ==
  /\ run[c] = "up" /\ down[c] # <<>>
  /\ kept' = [kept EXCEPT ![c] = @ \union {Head(down[c])}]
  /\ down' = [down EXCEPT ![c] = Tail(@)]
  /\ UNCHANGED <<clientVars, proxyVars, link, up, old, late, serving, decided, faults, histVars>>

ClientHandlesLate(c, t) ==
  /\ t \in late[c]
  /\ kept' = [kept EXCEPT ![c] = @ \union {t}]
  /\ late' = [late EXCEPT ![c] = @ \ {t}]
  /\ UNCHANGED <<clientVars, proxyVars, link, up, old, down, serving, decided, faults, histVars>>

ClientCloses(c) ==
  /\ c \in deploy.closers /\ Cancel(c)
  /\ UNCHANGED <<proxyVars, linkVars, serving, decided, kept, faults, histVars>>

ClientLeaves(c) ==
  /\ Leave(c)
  /\ IF run[c] = "up" THEN End(c) /\ Loses(c, <<>>) ELSE UNCHANGED <<linkVars, lost>>
  /\ UNCHANGED <<proxyVars, serving, decided, kept, faults, notified, reached, missed>>
-----------------------------------------------------------------------------
(* Local coordinators.                                                     *)

\* Mutant: the proxy tells its own clients without asking the parent.
LocalRecvDecides(c) ==
  LET t == Head(up[c]) IN
  /\ Reads(c)
  /\ Publish(Home[c], t) /\ Broadcast(Below(Home[c]), t)
  /\ UNCHANGED <<clientVars, link, late, serving, decided, kept, faults,
                 notified, reached, lost>>

\* The server reads a notification: onNotify publishes, unless stopping.
LocalRecv(c) ==
  LET t == Head(up[c]) IN
  /\ Reads(c)
  /\ IF serving[Home[c]] THEN Publish(Home[c], t) ELSE UNCHANGED proxyVars
  /\ lost' = IF pubCh' = pubCh THEN lost \union {t} ELSE lost
  /\ UNCHANGED <<clientVars, link, down, late, serving, decided, kept, faults,
                 notified, reached, missed>>

ProxyDials(p) ==
  /\ Attached(p)
  /\ Open(p)
  /\ UNCHANGED <<clientVars, serving, decided, kept, faults, histVars>>

ProxyDialFails(p) ==
  /\ AttachFails(p)
  /\ Fault \/ (closed[p] /\ UNCHANGED faults)
  /\ UNCHANGED <<clientVars, linkVars, serving, decided, kept, histVars>>

ProxySends(p) ==
  /\ Forward(p) /\ ~closed[p]
  /\ IF link[p] = "broken"
     THEN lost' = lost \union {Head(pubCh[p])} /\ UNCHANGED up
     ELSE up' = [up EXCEPT ![p] = Append(@, Head(pubCh[p]))] /\ UNCHANGED lost
  /\ UNCHANGED <<clientVars, link, old, down, late, serving, decided, kept, faults,
                 notified, reached, missed>>

ProxySendFails(p) ==
  /\ ForwardFails(p) /\ (link[p] = "broken" \/ closed[p])
  /\ End(p) /\ Loses(p, <<Head(pubCh[p])>>)
  /\ UNCHANGED <<clientVars, serving, decided, kept, faults, notified, reached, missed>>

ProxyRecvFails(p) ==
  /\ Detached(p) /\ link[p] = "broken" /\ down[p] = <<>>
  /\ End(p) /\ Loses(p, <<>>)
  /\ UNCHANGED <<clientVars, serving, decided, kept, faults, notified, reached, missed>>

ProxyRetries(p) ==
  /\ Reattach(p)
  /\ UNCHANGED <<clientVars, linkVars, serving, decided, kept, faults, histVars>>

\* recv calls the handler: the decision is broadcast to the local streams.
ProxyRelays(p) ==
  /\ loop[p] = "up" /\ down[p] # <<>>
  /\ LET fits == {c \in Below(p) : link[c] = "open" /\ Len(down[c]) < Cap}
     IN  /\ down' = [e \in Endpoints |->
                       IF e = p THEN Tail(down[e])
                       ELSE IF e \in fits THEN Append(down[e], Head(down[p])) ELSE down[e]]
         /\ Missed(Below(p) \ fits, {Head(down[p])})
  /\ UNCHANGED <<clientVars, proxyVars, link, up, old, late, serving, decided, kept, faults,
                 notified, reached, lost>>

ProxyRelaysLate(p, t) ==
  /\ t \in late[p]
  /\ late' = [late EXCEPT ![p] = @ \ {t}]
  /\ Broadcast(Below(p), t)
  /\ UNCHANGED <<clientVars, proxyVars, link, up, old, serving, decided, kept, faults,
                 notified, reached, lost>>

(* The signal: the server stops, which ends the streams of its clients, and *)
(* then Close is called.                                                    *)
LocalStops(p) ==
  /\ p \in deploy.closers /\ serving[p]
  /\ serving' = [serving EXCEPT ![p] = FALSE]
  /\ link' = [e \in Endpoints |-> IF e \in Below(p) /\ link[e] # "none" THEN "broken" ELSE link[e]]
  /\ UNCHANGED <<clientVars, proxyVars, up, old, down, late, decided, kept, faults, histVars>>

LocalCloses(p) ==
  /\ ~serving[p] /\ CloseProxy(p)
  /\ UNCHANGED <<clientVars, linkVars, serving, decided, kept, faults, histVars>>

ProxyQuits(p) ==
  /\ Quit(p)
  /\ IF loop[p] = "up" THEN End(p) /\ Loses(p, <<>>) ELSE UNCHANGED <<linkVars, lost>>
  /\ UNCHANGED <<clientVars, serving, decided, kept, faults, notified, reached, missed>>
-----------------------------------------------------------------------------
(* The parent.                                                             *)

\* Mutant: the proxy that brought the notification is not told.
ParentRecvOthers(p) ==
  LET t == Head(up[p]) IN
  /\ Reads(p)
  /\ reached' = [reached EXCEPT ![t] = @ + 1]
  /\ decided' = decided \union {t}
  /\ IF t \in decided THEN UNCHANGED <<down, missed>> ELSE Broadcast(Proxies \ {p}, t)
  /\ UNCHANGED <<clientVars, proxyVars, link, late, serving, kept, faults, notified, lost>>

\* A notification of a new trace is announced to every proxy.
ParentRecv(p) ==
  LET t == Head(up[p]) IN
  /\ Reads(p)
  /\ reached' = [reached EXCEPT ![t] = @ + 1]
  /\ decided' = decided \union {t}
  /\ IF t \in decided THEN UNCHANGED <<down, missed>> ELSE Broadcast(Proxies, t)
  /\ UNCHANGED <<clientVars, proxyVars, link, late, serving, kept, faults, notified, lost>>
-----------------------------------------------------------------------------
ClientStep(c) ==
  \/ ClientDials(c) \/ ClientSends(c) \/ ClientSendFails(c) \/ ClientRecvFails(c)
  \/ ClientRetries(c)

ProxyStep(p) ==
  \/ ProxyDials(p) \/ ProxySends(p) \/ ProxySendFails(p) \/ ProxyRecvFails(p)
  \/ ProxyRetries(p)

Step ==
  \/ \E c \in Clients :
       \/ \E t \in TraceIDs : ProcessorNotifies(c, t)
       \/ ClientStep(c) \/ ClientDialFails(c)
       \/ ClientHandles(c) \/ \E t \in late[c] : ClientHandlesLate(c, t)
       \/ ClientCloses(c) \/ ClientLeaves(c)
       \/ LocalRecv(c)
  \/ \E p \in Proxies :
       \/ ProxyStep(p) \/ ProxyDialFails(p)
       \/ ProxyRelays(p) \/ \E t \in late[p] : ProxyRelaysLate(p, t)
       \/ LocalStops(p) \/ LocalCloses(p) \/ ProxyQuits(p)
       \/ ParentRecv(p)
  \/ \E e \in Endpoints : Accept(e) \/ Break(e) \/ LateEnds(e)

Next == Step /\ UNCHANGED deploy

(* Every goroutine runs, timers fire, and a server gets round to a stream   *)
(* and to what was sent; nothing makes processors notify, streams break or  *)
(* anybody close.                                                           *)
Fairness ==
  /\ \A c \in Clients :
       /\ WF_stateVars(ClientStep(c)) /\ WF_stateVars(ClientHandles(c)) /\ WF_stateVars(ClientLeaves(c))
       /\ WF_stateVars(LocalRecv(c))
  /\ \A p \in Proxies :
       /\ WF_stateVars(ProxyStep(p)) /\ WF_stateVars(ProxyRelays(p)) /\ WF_stateVars(ProxyQuits(p))
       /\ WF_stateVars(ParentRecv(p)) /\ WF_stateVars(LocalCloses(p))
  /\ \A e \in Endpoints : WF_stateVars(Accept(e)) /\ WF_stateVars(LateEnds(e))

Spec == Init /\ [][Next]_vars /\ Fairness
-----------------------------------------------------------------------------
(* Properties.                                                             *)

(* The variables have their types; channels stay within their capacities,   *)
(* and the waits between connection attempts within maxBackoff at a proxy   *)
(* and below twice the limit at a client, however often streams fail.       *)
TypeOK ==
  /\ deploy \in Deployments
  /\ \A c \in Clients : backoff[c] \in 1 .. 2 * MaxBackoff - 1
  /\ \A p \in Proxies : pause[p] \in 1 .. MaxPause
  /\ \A c \in Clients : Len(sendCh[c]) <= SendCap /\ run[c] \in {"top", "up", "wait", "done"}
  /\ \A p \in Proxies : Len(pubCh[p]) <= SendBufSize /\ loop[p] \in {"top", "up", "wait", "done"}
  /\ \A e \in Endpoints :
       /\ link[e] \in {"none", "opening", "open", "broken"}
       /\ Len(down[e]) <= Cap
       /\ Range(up[e]) \union Range(down[e]) \union late[e] \subseteq TraceIDs
       /\ old[e] \in Nat
  /\ faults \in 0 .. MaxFaults

(* No notification is multiplied: whatever is retried, replaced or echoed   *)
(* between processor and parent, the parent reads of a trace at most as     *)
(* often as processors notified it (client.go connect, proxy send).         *)
NoEcho == \A t \in TraceIDs : reached[t] <= notified[t]

(* A handler is called only with what the parent decided: a proxy neither   *)
(* decides by itself nor hands back what its own clients told it.           *)
KeptWasDecided == \A c \in Clients : kept[c] \subseteq decided

\* A notification waits in the channel of an end that is, or whose peer is, closed.
Stranded(t) ==
  \/ \E c \in Clients :
       t \in Range(sendCh[c]) /\ (cancelled[c] \/ ~serving[Home[c]])
  \/ \E p \in Proxies : t \in Range(pubCh[p]) /\ closed[p]

(* A decision reaches the whole fleet: a notified trace is handed to every  *)
(* processor, unless its notification was lost by name (a full channel, a   *)
(* failed Send, a broken or closed stream, a channel left behind by Close)  *)
(* or the decision was, on the way to that processor (no stream, no room, a *)
(* broken stream).                                                          *)
DecisionReachesFleet ==
  \A t \in TraceIDs :
    (notified[t] > 0) ~>
      \/ t \in lost \/ Stranded(t)
      \/ \A c \in Clients : t \in kept[c] \union missed[c]

(* run never gets stuck (client.go, proxy/pubsub.go): a lost connection is  *)
(* made again for as long as the coordinator is there, and the goroutine of *)
(* a closed end stops, so that Client.Close returns, wherever the loop      *)
(* stood and whatever failed before.                                        *)
ConnectedOrClosed ==
  /\ \A c \in Clients :
       []<>(IF cancelled[c] THEN run[c] = "done" ELSE run[c] = "up" \/ ~serving[Home[c]])
  /\ \A p \in Proxies :
       []<>(IF closed[p] THEN loop[p] = "done" ELSE loop[p] = "up")
=============================================================================
