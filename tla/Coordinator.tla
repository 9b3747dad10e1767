---------------------------- MODULE Coordinator ----------------------------
(***************************************************************************)
(* The coordinator service (coordinator/main.go, server/server.go,         *)
(* memory/pubsub.go, redis/pubsub.go): one coordinator in single mode, or  *)
(* several that share a Redis in distributed mode.                         *)
(*                                                                         *)
(* Processors hold a gRPC stream each.  A notification read from a stream  *)
(* is deduplicated by a key with a TTL; the winner announces the decision, *)
(* directly (single) or through the Redis channel (distributed), and every *)
(* coordinator broadcasts it into the bounded queues of its own streams,   *)
(* from which one sender goroutine per stream sends batches.               *)
(*                                                                         *)
(* A stream of the model is one connection, used once; a coordinator that  *)
(* comes back after a crash is another member of Coordinators.             *)
(***************************************************************************)
EXTENDS Integers, Sequences, FiniteSets

CONSTANTS
  Coordinators,  \* the coordinator processes
  Streams,       \* the connections made to them
  Deployments,   \* the configurations a run starts from
  TraceIDs,
  Cap,           \* capacity of streamEntry.ch
  MaxBatch,      \* maxBatchSize
  MaxNotifies,   \* bound: notifications received
  MaxExpiries,   \* bound: keys whose TTL runs out
  MaxFaults,     \* bound: failed Redis commands, broken streams, crashes
  MayStop,       \* the coordinators that are told to shut down
  NoTrace        \* no trace ID

\* The coordinators that streams connect to.
Homes(at) == {at[s] : s \in Streams}

ASSUME DeploymentAssumption ==
  /\ Deployments \subseteq [distributed : BOOLEAN, at : [Streams -> Coordinators]]
  /\ \A d \in Deployments : ~d.distributed => \A s, t \in Streams : d.at[s] = d.at[t]
  /\ IsFiniteSet(Streams)
ASSUME BoundAssumption ==
  /\ MayStop \subseteq Coordinators
  /\ Cap \in Nat \ {0} /\ MaxBatch \in Nat \ {0}
  /\ MaxNotifies \in Nat /\ MaxExpiries \in Nat /\ MaxFaults \in Nat
  /\ NoTrace \notin TraceIDs

VARIABLES
  deploy,       \* the configuration; it does not change
  phase,        \* by coordinator: serving, graceful, forced, down
  subscribed,   \* by coordinator: its receive goroutine has subscribed
  feed,         \* by coordinator: messages of the Redis channel on their way
  decided,      \* keys that are set and have not expired
  handler,      \* by stream: where Connect stands
  arg,          \* by stream: the notification Connect works on
  ch,           \* by stream: streamEntry.ch
  sender,       \* by stream: where the sender goroutine stands
  ids,          \* by stream: the batch the sender has in hand
  droppedSends, \* by stream: its part of the counter droppedSends
  sendErrors,   \* by stream: its part of the counter sendErrors
  notifies, expiries, faults,  \* history: what the bounds count
  log,          \* history, by stream: decisions put into ch
  out,          \* history, by stream: decisions handed to stream.Send
  rejected,     \* history, by stream: decisions that met a full ch
  wins,         \* history, by trace: how often its key was set
  resent        \* history, by trace: how often its PUBLISH was executed again

busVars    == <<phase, subscribed, feed, decided>>
rpcVars    == <<handler, arg>>
sendVars   == <<sender, ids, sendErrors, out>>
queueVars  == <<ch, log, rejected, droppedSends>>
boundVars  == <<notifies, expiries, faults>>
dedupVars  == <<wins, resent>>
stateVars  == <<busVars, rpcVars, sendVars, queueVars, boundVars, dedupVars>>
vars       == <<deploy, stateVars>>

At          == deploy.at            \* by stream: the coordinator it connects to
Distributed == deploy.distributed   \* redis.PubSub rather than memory.PubSub

Up(c)         == phase[c] # "down"
\* Mutant: Connect returns without removing the stream from the map.
RegisteredAlways(s) == handler[s] # "new"

\* The stream is in Server.streams.
Registered(s) == handler[s] \in {"recv", "publish", "announce"}
Stopping(c)   == phase[c] # "serving"        \* ctx.Err() # nil

Fault == faults < MaxFaults /\ faults' = faults + 1
\* A Redis command fails, as it does when the signal has cancelled ctx.
CommandFails(c) == Fault \/ (Stopping(c) /\ UNCHANGED faults)
(* The answer to a Redis command is lost.  The Redis client then sends the  *)
(* command again (max_retries), so Redis executes it more than once.        *)
AnswerLost == Distributed /\ Fault
-----------------------------------------------------------------------------
(* Server.                                                                  *)

\* Connect: the stream is registered and its sender goroutine started.
Connect(s) ==
  /\ handler[s] = "new" /\ phase[At[s]] = "serving"
  /\ handler' = [handler EXCEPT ![s] = "recv"]
  /\ sender' = [sender EXCEPT ![s] = "idle"]
  /\ UNCHANGED <<busVars, arg, ids, sendErrors, out, queueVars, boundVars, dedupVars>>

\* Broadcast, under mu: every registered queue of c that has room gets tid.
Broadcast(c, tid) ==
  LET targets == {s \in Streams : At[s] = c /\ Registered(s)}
      fits(s) == s \in targets /\ Len(ch[s]) < Cap
      full(s) == s \in targets /\ Len(ch[s]) >= Cap
  IN  /\ ch'  = [s \in Streams |-> IF fits(s) THEN Append(ch[s], tid) ELSE ch[s]]
      /\ log' = [s \in Streams |-> IF fits(s) THEN Append(log[s], tid) ELSE log[s]]
      /\ rejected' = [s \in Streams |-> rejected[s] + IF full(s) THEN 1 ELSE 0]
      /\ droppedSends' = [s \in Streams |-> droppedSends[s] + IF full(s) THEN 1 ELSE 0]

\* Mutant: onNotify is called without the trace ID of the message.
RecvNoID(s, tid) ==
  /\ handler[s] = "recv" /\ notifies < MaxNotifies
  /\ notifies' = notifies + 1
  /\ handler' = [handler EXCEPT ![s] = "publish"]
  /\ UNCHANGED <<busVars, arg, sendVars, queueVars, expiries, faults, dedupVars>>

\* The receive loop reads a notification; onNotify ignores it once stopping.
Recv(s, tid) ==
  /\ handler[s] = "recv" /\ notifies < MaxNotifies
  /\ notifies' = notifies + 1
  /\ IF Stopping(At[s]) THEN UNCHANGED rpcVars
     ELSE handler' = [handler EXCEPT ![s] = "publish"] /\ arg' = [arg EXCEPT ![s] = tid]
  /\ UNCHANGED <<busVars, sendVars, queueVars, expiries, faults, dedupVars>>

\* The receive loop ends: the stream leaves the map, then done is closed.
Unregister(s) ==
  /\ handler[s] = "recv"
  /\ handler' = [handler EXCEPT ![s] = "removed"]
  /\ UNCHANGED <<busVars, arg, sendVars, queueVars, boundVars, dedupVars>>

CloseDone(s) ==
  /\ handler[s] = "removed"
  /\ handler' = [handler EXCEPT ![s] = "closed"]
  /\ UNCHANGED <<busVars, arg, sendVars, queueVars, boundVars, dedupVars>>
-----------------------------------------------------------------------------
(* The sender goroutine.                                                    *)

SenderTake(s) ==
  /\ sender[s] = "idle" /\ ch[s] # <<>>
  /\ ids' = [ids EXCEPT ![s] = <<Head(ch[s])>>]
  /\ ch' = [ch EXCEPT ![s] = Tail(@)]
  /\ sender' = [sender EXCEPT ![s] = "batch"]
  /\ UNCHANGED <<busVars, rpcVars, sendErrors, out, log, rejected, droppedSends, boundVars, dedupVars>>

\* Mutant: later decisions are put in front of the batch.
SenderMorePrepends(s) ==
  /\ sender[s] = "batch" /\ Len(ids[s]) < MaxBatch /\ ch[s] # <<>>
  /\ ids' = [ids EXCEPT ![s] = <<Head(ch[s])>> \o @]
  /\ ch' = [ch EXCEPT ![s] = Tail(@)]
  /\ UNCHANGED <<busVars, rpcVars, sender, sendErrors, out, log, rejected, droppedSends,
                 boundVars, dedupVars>>

SenderMore(s) ==
  /\ sender[s] = "batch" /\ Len(ids[s]) < MaxBatch /\ ch[s] # <<>>
  /\ ids' = [ids EXCEPT ![s] = Append(@, Head(ch[s]))]
  /\ ch' = [ch EXCEPT ![s] = Tail(@)]
  /\ UNCHANGED <<busVars, rpcVars, sender, sendErrors, out, log, rejected, droppedSends,
                 boundVars, dedupVars>>

\* Mutant: the flush timer is never started.
SenderFlushWhenFull(s) ==
  /\ sender[s] = "batch" /\ Len(ids[s]) = MaxBatch
  /\ sender' = [sender EXCEPT ![s] = "send"]
  /\ UNCHANGED <<busVars, rpcVars, ids, sendErrors, out, queueVars, boundVars, dedupVars>>

\* The batch is full or the flush timer fires.
SenderFlush(s) ==
  /\ sender[s] = "batch"
  /\ sender' = [sender EXCEPT ![s] = "send"]
  /\ UNCHANGED <<busVars, rpcVars, ids, sendErrors, out, queueVars, boundVars, dedupVars>>

\* stream.Send, which fails on a broken stream and once its handler is gone.
SenderSend(s) ==
  /\ sender[s] = "send"
  /\ \/ Registered(s) /\ UNCHANGED <<sendErrors, faults>>
     \/ /\ Registered(s) /\ Fault
        /\ sendErrors' = [sendErrors EXCEPT ![s] = @ + 1]
     \/ /\ ~Registered(s) /\ UNCHANGED faults
        /\ sendErrors' = [sendErrors EXCEPT ![s] = @ + 1]
  /\ out' = [out EXCEPT ![s] = @ \o ids[s]]
  /\ ids' = [ids EXCEPT ![s] = <<>>]
  /\ sender' = [sender EXCEPT ![s] = "idle"]
  /\ UNCHANGED <<busVars, rpcVars, queueVars, notifies, expiries, dedupVars>>

\* case <-done, in either select: what is queued counts as dropped.
SenderDone(s) ==
  /\ handler[s] = "closed"
  /\ \/ sender[s] = "idle"
     \/ sender[s] = "batch" /\ Len(ids[s]) < MaxBatch
  /\ droppedSends' = [droppedSends EXCEPT ![s] = @ + Len(ch[s])]
  /\ sender' = [sender EXCEPT ![s] = "gone"]
  /\ UNCHANGED <<busVars, rpcVars, ids, sendErrors, out, ch, log, rejected, boundVars, dedupVars>>
-----------------------------------------------------------------------------
(* PubSub.Publish: cache.Add or SET NX, then Broadcast or PUBLISH.           *)

\* The key of tid is set if it was not.
SetNX(tid) ==
  /\ decided' = decided \union {tid}
  /\ wins' = [wins EXCEPT ![tid] = @ + IF tid \in decided THEN 0 ELSE 1]
\* What a PUBLISH of tid adds to the channel's messages.
Published(tid) ==
  [c \in Coordinators |-> IF subscribed[c] THEN Append(feed[c], tid) ELSE feed[c]]

Decide(s) ==
  /\ handler[s] = "publish"
  /\ IF arg[s] \in decided
       THEN /\ handler' = [handler EXCEPT ![s] = "recv"]
            /\ arg' = [arg EXCEPT ![s] = NoTrace]
       ELSE /\ handler' = [handler EXCEPT ![s] = "announce"]
            /\ UNCHANGED arg
  /\ SetNX(arg[s])
  /\ UNCHANGED <<phase, subscribed, feed, sendVars, queueVars, boundVars, resent>>

\* SET NX is executed and sent again: the next one finds the key already set.
DecideAgain(s) ==
  /\ handler[s] = "publish" /\ AnswerLost
  /\ SetNX(arg[s])
  /\ UNCHANGED <<phase, subscribed, feed, rpcVars, sendVars, queueVars, notifies, expiries,
                 resent>>

\* SET NX returns an error; Redis may have executed it all the same.
DecideFails(s) ==
  /\ Distributed /\ handler[s] = "publish"
  /\ CommandFails(At[s])
  /\ handler' = [handler EXCEPT ![s] = "recv"]
  /\ arg' = [arg EXCEPT ![s] = NoTrace]
  /\ SetNX(arg[s]) \/ UNCHANGED <<decided, wins>>
  /\ UNCHANGED <<phase, subscribed, feed, sendVars, queueVars, notifies, expiries, resent>>

Announce(s) ==
  /\ handler[s] = "announce"
  /\ handler' = [handler EXCEPT ![s] = "recv"]
  /\ arg' = [arg EXCEPT ![s] = NoTrace]
  /\ IF Distributed
       THEN feed' = Published(arg[s]) /\ UNCHANGED queueVars
       ELSE Broadcast(At[s], arg[s]) /\ UNCHANGED feed
  /\ UNCHANGED <<phase, subscribed, decided, sendVars, boundVars, dedupVars>>

\* PUBLISH is executed and sent again: the subscribers get it twice.
AnnounceAgain(s) ==
  /\ handler[s] = "announce" /\ AnswerLost
  /\ feed' = Published(arg[s])
  /\ resent' = [resent EXCEPT ![arg[s]] = @ + 1]
  /\ UNCHANGED <<phase, subscribed, decided, rpcVars, sendVars, queueVars, notifies,
                 expiries, wins>>

(* PUBLISH returns an error; Redis may have executed it all the same.  If    *)
(* not, the key stays and nobody hears of the decision.                      *)
AnnounceFails(s) ==
  /\ Distributed /\ handler[s] = "announce"
  /\ CommandFails(At[s])
  /\ handler' = [handler EXCEPT ![s] = "recv"]
  /\ arg' = [arg EXCEPT ![s] = NoTrace]
  /\ feed' \in {feed, Published(arg[s])}
  /\ UNCHANGED <<phase, subscribed, decided, sendVars, queueVars, notifies, expiries,
                 dedupVars>>

\* receive: the goroutine that New starts subscribes, then hands over messages.
Subscribe(c) ==
  /\ Distributed /\ Up(c) /\ ~subscribed[c]
  /\ subscribed' = [subscribed EXCEPT ![c] = TRUE]
  /\ UNCHANGED <<phase, feed, decided, rpcVars, sendVars, queueVars, boundVars, dedupVars>>

\* Mutant: a message is handed over again.
ReceiveAgain(c) ==
  /\ Up(c) /\ feed[c] # <<>>
  /\ Broadcast(c, Head(feed[c]))
  /\ UNCHANGED <<busVars, rpcVars, sendVars, boundVars, dedupVars>>

Receive(c) ==
  /\ Up(c) /\ feed[c] # <<>>
  /\ feed' = [feed EXCEPT ![c] = Tail(@)]
  /\ Broadcast(c, Head(feed[c]))
  /\ UNCHANGED <<phase, subscribed, decided, rpcVars, sendVars, boundVars, dedupVars>>

\* The TTL of a key runs out.
Expire(tid) ==
  /\ tid \in decided /\ expiries < MaxExpiries
  /\ decided' = decided \ {tid}
  /\ expiries' = expiries + 1
  /\ UNCHANGED <<phase, subscribed, feed, rpcVars, sendVars, queueVars, notifies, faults, dedupVars>>
-----------------------------------------------------------------------------
(* Server.Start and main.                                                   *)

\* The signal: GracefulStop refuses new streams and waits for open ones.
Shutdown(c) ==
  /\ c \in MayStop /\ phase[c] = "serving"
  /\ phase' = [phase EXCEPT ![c] = "graceful"]
  /\ UNCHANGED <<subscribed, feed, decided, rpcVars, sendVars, queueVars, boundVars, dedupVars>>

\* The shutdown timeout: Stop breaks every stream.
ForceStop(c) ==
  /\ phase[c] = "graceful"
  /\ phase' = [phase EXCEPT ![c] = "forced"]
  /\ UNCHANGED <<subscribed, feed, decided, rpcVars, sendVars, queueVars, boundVars, dedupVars>>

\* The process ends: its goroutines, queues and subscription are gone.
Ends(c) ==
  /\ phase' = [phase EXCEPT ![c] = "down"]
  /\ subscribed' = [subscribed EXCEPT ![c] = FALSE]
  /\ feed' = [feed EXCEPT ![c] = <<>>]
  /\ handler' = [s \in Streams |-> IF At[s] = c THEN "closed" ELSE handler[s]]
  /\ arg' = [s \in Streams |-> IF At[s] = c THEN NoTrace ELSE arg[s]]
  /\ sender' = [s \in Streams |->
                 IF At[s] = c /\ sender[s] # "gone" THEN "killed" ELSE sender[s]]
  /\ decided' = IF Distributed THEN decided ELSE {}
  /\ UNCHANGED <<ids, sendErrors, out, queueVars, notifies, expiries, dedupVars>>

\* Mutant: Serve waits for the handlers after Stop as well.
ExitWaits(c) ==
  /\ phase[c] \in {"graceful", "forced"}
  /\ \A s \in Streams : At[s] = c => handler[s] \in {"new", "closed"}
  /\ Ends(c)
  /\ UNCHANGED faults

\* Serve returns once every handler has, or after Stop without waiting for them.
Exit(c) ==
  /\ \/ phase[c] = "forced"
     \/ /\ phase[c] = "graceful"
        /\ \A s \in Streams : At[s] = c => handler[s] \in {"new", "closed"}
  /\ Ends(c)
  /\ UNCHANGED faults

Crash(c) == Up(c) /\ Fault /\ Ends(c)
-----------------------------------------------------------------------------
Init ==
  /\ deploy \in Deployments
  /\ phase = [c \in Coordinators |->
               IF Distributed \/ c \in Homes(At) THEN "serving" ELSE "down"]
  /\ subscribed = [c \in Coordinators |-> FALSE]
  /\ feed = [c \in Coordinators |-> <<>>]
  /\ decided = {}
  /\ handler = [s \in Streams |-> "new"] /\ arg = [s \in Streams |-> NoTrace]
  /\ ch = [s \in Streams |-> <<>>]
  /\ sender = [s \in Streams |-> "none"] /\ ids = [s \in Streams |-> <<>>]
  /\ droppedSends = [s \in Streams |-> 0] /\ sendErrors = [s \in Streams |-> 0]
  /\ notifies = 0 /\ expiries = 0 /\ faults = 0
  /\ log = [s \in Streams |-> <<>>] /\ out = [s \in Streams |-> <<>>]
  /\ rejected = [s \in Streams |-> 0] /\ wins = [t \in TraceIDs |-> 0]
  /\ resent = [t \in TraceIDs |-> 0]

\* What the goroutines of one stream, and of one coordinator, do on their own.
HandlerStep(s) == \/ CloseDone(s) \/ Decide(s) \/ DecideAgain(s) \/ DecideFails(s)
                  \/ Announce(s) \/ AnnounceAgain(s) \/ AnnounceFails(s)
SenderStep(s)  == \/ SenderTake(s) \/ SenderMore(s) \/ SenderFlush(s)
                  \/ SenderSend(s) \/ SenderDone(s)
ReceiveStep(c) == Subscribe(c) \/ Receive(c)
StopStep(c)    == ForceStop(c) \/ Exit(c)

Next ==
  /\ \/ \E s \in Streams :
          \/ Connect(s) \/ Unregister(s)
          \/ \E tid \in TraceIDs : Recv(s, tid)
          \/ HandlerStep(s)
          \/ SenderStep(s)
     \/ \E c \in Coordinators :
          \/ ReceiveStep(c) \/ StopStep(c)
          \/ Shutdown(c) \/ Crash(c)
     \/ \E tid \in TraceIDs : Expire(tid)
  /\ UNCHANGED deploy

(* Goroutines that can run do run, processors read their streams, and the   *)
(* shutdown timeout passes.  Nobody has to connect, to notify or to hang up. *)
Fairness ==
  /\ \A s \in Streams : WF_stateVars(HandlerStep(s)) /\ WF_stateVars(SenderStep(s))
  /\ \A c \in Coordinators : WF_stateVars(ReceiveStep(c)) /\ WF_stateVars(StopStep(c))

Spec     == Init /\ [][Next]_vars
FairSpec == Spec /\ Fairness
-----------------------------------------------------------------------------
(* Properties.                                                              *)

HandlerPcs == {"new", "recv", "publish", "announce", "removed", "closed"}
SenderPcs  == {"none", "idle", "batch", "send", "gone", "killed"}

\* Types of what the coordinators, the streams and Redis keep.
TypeOK ==
  /\ phase \in [Coordinators -> {"serving", "graceful", "forced", "down"}]
  /\ subscribed \in [Coordinators -> BOOLEAN]
  /\ feed \in [Coordinators -> Seq(TraceIDs)]
  /\ decided \subseteq TraceIDs
  /\ handler \in [Streams -> HandlerPcs]
  /\ arg \in [Streams -> TraceIDs \union {NoTrace}]
  /\ \A s \in Streams : handler[s] \in {"publish", "announce"} => arg[s] \in TraceIDs
  /\ ch \in [Streams -> Seq(TraceIDs)]
  /\ sender \in [Streams -> SenderPcs]
  /\ ids \in [Streams -> Seq(TraceIDs)]
  /\ droppedSends \in [Streams -> Nat] /\ sendErrors \in [Streams -> Nat]
  /\ notifies \in 0 .. MaxNotifies /\ expiries \in 0 .. MaxExpiries
  /\ faults \in 0 .. MaxFaults
  /\ log \in [Streams -> Seq(TraceIDs)] /\ out \in [Streams -> Seq(TraceIDs)]
  /\ rejected \in [Streams -> Nat] /\ wins \in [TraceIDs -> Nat]
  /\ resent \in [TraceIDs -> Nat]

(* Between Broadcast and stream.Send no decision is repeated or overtaken:   *)
(* what was sent, what the sender has in hand and what is queued are         *)
(* together exactly what Broadcast put into the queue, in order, and neither *)
(* the queue nor a batch outgrows its bound.  A sender that returns discards *)
(* what it has in hand (it does not count it): that is never a full batch.   *)
StreamOrder ==
  \A s \in Streams :
    /\ out[s] \o ids[s] \o ch[s] = log[s]
    /\ Len(ch[s]) <= Cap /\ Len(ids[s]) <= MaxBatch
    /\ sender[s] = "gone" => Len(ids[s]) < MaxBatch

(* Removing the stream from the map before closing done bounds what is left: *)
(* once the sender goroutine has returned, droppedSends accounts for every   *)
(* decision that met a full queue or was left in it, and stays right.        *)
DropsAccounted ==
  \A s \in Streams :
    droppedSends[s] = rejected[s] + (IF sender[s] = "gone" THEN Len(ch[s]) ELSE 0)

\* How often tid occurs in a sequence.
Count(seq, tid) == Cardinality({i \in 1 .. Len(seq) : seq[i] = tid})

(* Deduplication: no stream is offered a decision more often than its key    *)
(* was set, however many coordinators and streams notify it at once, plus    *)
(* the times the Redis client sent a PUBLISH again that had been executed;   *)
(* and a key is set again only after it expired.                             *)
Deduplicated ==
  \A tid \in TraceIDs :
    /\ \A s \in Streams : Count(log[s], tid) <= wins[tid] + resent[tid]
    /\ wins[tid] <= 1 + expiries

\* tid is on its way to the streams that are registered now.
Announcing(tid) == \E h \in Streams : handler[h] = "announce" /\ arg[h] = tid

\* tid has been sent to s, or s ended or met a limit or a failure.
Hears(s, tid) ==
  \/ \E i \in 1 .. Len(out[s]) : out[s][i] = tid
  \/ ~Registered(s) \/ rejected[s] > 0 \/ faults > 0
  \/ \E c \in Coordinators : Stopping(c)

(* Every stream that is registered with a subscribed coordinator when a      *)
(* decision is about to be announced is sent it, unless it meets a full      *)
(* queue, the stream ends or something fails.                                *)
DecisionHeard ==
  \A s \in Streams, tid \in TraceIDs :
    Announcing(tid) /\ Registered(s) /\ (Distributed => subscribed[At[s]])
      ~> Hears(s, tid)

\* A coordinator that is told to stop does, whatever its streams do.
ShutdownEnds == \A c \in Coordinators : phase[c] = "graceful" ~> phase[c] = "down"
-----------------------------------------------------------------------------
(* What documentation says and the code does not do.                        *)

(* "broadcasts keep decisions to all connected processors": a stream that    *)
(* is registered when a decision is about to be announced is sent it.        *)
ConnectedHear ==
  \A s \in Streams, tid \in TraceIDs :
    Announcing(tid) /\ Registered(s) ~> Hears(s, tid)
=============================================================================
