------------------------------- MODULE Client -------------------------------
(***************************************************************************)
(* The coordinator client of a processor (internal/coordinator/client.go): *)
(* a bounded channel of notifications and a goroutine that connects, sends *)
(* what is in the channel and, when the stream fails, waits and connects   *)
(* again.  What the stream does is Fleet's.                                *)
(***************************************************************************)
EXTENDS Integers, Sequences

CONSTANTS
  Clients,
  SendCap,      \* capacity of sendCh
  MaxBackoff    \* the 30 s of run, in units of the first wait

VARIABLES
  sendCh,      \* by client: notifications not yet sent
  run,         \* by client: where run stands: top, up, wait, done
  cancelled,   \* by client: Close has cancelled ctx
  backoff      \* by client: the next wait

clientVars == <<sendCh, run, cancelled, backoff>>

\* New.
ClientInit ==
  /\ sendCh = [c \in Clients |-> <<>>]
  /\ run = [c \in Clients |-> "top"]
  /\ cancelled = [c \in Clients |-> FALSE]
  /\ backoff = [c \in Clients |-> 1]

\* Notify: the trace is queued, or dropped when the channel is full.
Notify(c, t) ==
  /\ sendCh' = IF Len(sendCh[c]) < SendCap THEN [sendCh EXCEPT ![c] = Append(@, t)] ELSE sendCh
  /\ UNCHANGED <<run, cancelled, backoff>>

\* connect has a stream; a receiver goroutine is started.
Connected(c) ==
  /\ run[c] = "top" /\ ~cancelled[c]
  /\ run' = [run EXCEPT ![c] = "up"]
  /\ UNCHANGED <<sendCh, cancelled, backoff>>

\* connect fails; so it does when ctx is cancelled after the test at the top.
ConnectFails(c) ==
  /\ run[c] = "top"
  /\ run' = [run EXCEPT ![c] = "wait"]
  /\ UNCHANGED <<sendCh, cancelled, backoff>>

\* Mutant: what was sent stays in the channel.
SendKeeps(c) ==
  /\ run[c] = "up" /\ sendCh[c] # <<>>
  /\ UNCHANGED clientVars

\* A notification is taken from the channel and Send returns nil.
Send(c) ==
  /\ run[c] = "up" /\ sendCh[c] # <<>>
  /\ sendCh' = [sendCh EXCEPT ![c] = Tail(@)]
  /\ UNCHANGED <<run, cancelled, backoff>>

\* Send fails: connect returns, and the notification is gone.
SendFails(c) ==
  /\ run[c] = "up" /\ sendCh[c] # <<>>
  /\ sendCh' = [sendCh EXCEPT ![c] = Tail(@)]
  /\ run' = [run EXCEPT ![c] = "wait"]
  /\ UNCHANGED <<cancelled, backoff>>

\* Mutant: run returns when the receiver reports an error.
RecvFailsEnds(c) ==
  /\ run[c] = "up"
  /\ run' = [run EXCEPT ![c] = "done"]
  /\ UNCHANGED <<sendCh, cancelled, backoff>>

\* The receiver's error is taken from recvErr: connect returns.
RecvFails(c) ==
  /\ run[c] = "up"
  /\ run' = [run EXCEPT ![c] = "wait"]
  /\ UNCHANGED <<sendCh, cancelled, backoff>>

\* Mutant: the wait doubles without a limit.
RetryUncapped(c) ==
  /\ run[c] = "wait"
  /\ run' = [run EXCEPT ![c] = "top"]
  /\ backoff' = [backoff EXCEPT ![c] = 2 * @]
  /\ UNCHANGED <<sendCh, cancelled>>

\* The wait is over and doubles as long as it is below the limit.
Retry(c) ==
  /\ run[c] = "wait"
  /\ run' = [run EXCEPT ![c] = "top"]
  /\ backoff' = [backoff EXCEPT ![c] = IF @ < MaxBackoff THEN 2 * @ ELSE @]
  /\ UNCHANGED <<sendCh, cancelled>>

\* Close cancels ctx, and waits.
Cancel(c) ==
  /\ ~cancelled[c]
  /\ cancelled' = [cancelled EXCEPT ![c] = TRUE]
  /\ UNCHANGED <<sendCh, run, backoff>>

(* ctx.Done, at the top of the loop, in connect or in the wait: run returns. *)
(* (connect returns nil here, and only here, so the reset of backoff never   *)
(* meets another wait.)                                                      *)
Leave(c) ==
  /\ cancelled[c] /\ run[c] \in {"top", "up", "wait"}
  /\ run' = [run EXCEPT ![c] = "done"]
  /\ UNCHANGED <<sendCh, cancelled, backoff>>
=============================================================================
