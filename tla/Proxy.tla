------------------------------- MODULE Proxy -------------------------------
(***************************************************************************)
(* The pub/sub back end of a coordinator in proxy mode                     *)
(* (coordinator/proxy/pubsub.go): Publish queues for the parent            *)
(* coordinator, run keeps a stream to it, recv calls the handler, which is *)
(* the server's Broadcast.  What the stream does is Fleet's.               *)
(***************************************************************************)
EXTENDS Integers, Sequences

CONSTANTS
  Proxies,
  SendBufSize,  \* sendBufSize
  MaxPause      \* maxBackoff, in units of the first wait

VARIABLES
  pubCh,       \* by proxy: sendCh
  loop,        \* by proxy: where run stands: top, up, wait, done
  closed,      \* by proxy: Close has cancelled ctx
  pause        \* by proxy: the backoff

proxyVars == <<pubCh, loop, closed, pause>>

\* New, for those that are deployed.
ProxyInit(used) ==
  /\ pubCh = [p \in Proxies |-> <<>>]
  /\ loop = [p \in Proxies |-> IF p \in used THEN "top" ELSE "done"]
  /\ closed = [p \in Proxies |-> p \notin used]
  /\ pause = [p \in Proxies |-> 1]

\* Publish: queued without a look at what was published before, or dropped.
Publish(p, t) ==
  /\ pubCh' = IF Len(pubCh[p]) < SendBufSize THEN [pubCh EXCEPT ![p] = Append(@, t)] ELSE pubCh
  /\ UNCHANGED <<loop, closed, pause>>

\* run has a stream; recv is started.
Attached(p) ==
  /\ loop[p] = "top" /\ ~closed[p]
  /\ loop' = [loop EXCEPT ![p] = "up"]
  /\ UNCHANGED <<pubCh, closed, pause>>

\* The stream cannot be made.
AttachFails(p) ==
  /\ loop[p] = "top"
  /\ loop' = [loop EXCEPT ![p] = "wait"]
  /\ UNCHANGED <<pubCh, closed, pause>>

\* send takes a notification and client.Send returns nil.
Forward(p) ==
  /\ loop[p] = "up" /\ pubCh[p] # <<>>
  /\ pubCh' = [pubCh EXCEPT ![p] = Tail(@)]
  /\ UNCHANGED <<loop, closed, pause>>

\* client.Send fails: send returns, and the notification is gone.
ForwardFails(p) ==
  /\ loop[p] = "up" /\ pubCh[p] # <<>>
  /\ pubCh' = [pubCh EXCEPT ![p] = Tail(@)]
  /\ loop' = [loop EXCEPT ![p] = "wait"]
  /\ UNCHANGED <<closed, pause>>

\* recv has failed and cancelled the connection: send returns its error.
Detached(p) ==
  /\ loop[p] = "up"
  /\ loop' = [loop EXCEPT ![p] = "wait"]
  /\ UNCHANGED <<pubCh, closed, pause>>

\* The wait is over: min(backoff*2, maxBackoff).
Reattach(p) ==
  /\ loop[p] = "wait"
  /\ loop' = [loop EXCEPT ![p] = "top"]
  /\ pause' = [pause EXCEPT ![p] = IF 2 * @ < MaxPause THEN 2 * @ ELSE MaxPause]
  /\ UNCHANGED <<pubCh, closed>>

\* Close cancels ctx and closes the connection; it does not wait for run.
CloseProxy(p) ==
  /\ ~closed[p]
  /\ closed' = [closed EXCEPT ![p] = TRUE]
  /\ UNCHANGED <<pubCh, loop, pause>>

\* ctx.Done, at the top of the loop, in send or in a wait: run returns.
Quit(p) ==
  /\ closed[p] /\ loop[p] \in {"top", "up", "wait"}
  /\ loop' = [loop EXCEPT ![p] = "done"]
  /\ UNCHANGED <<pubCh, closed, pause>>
=============================================================================
