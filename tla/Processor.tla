----------------------------- MODULE Processor -----------------------------
(***************************************************************************)
(* The retroactive_sampling processor (processor.go): several goroutines   *)
(* of the collector call processTraces, the buffer's sweeper calls onMatch,*)
(* the coordinator client calls onDecision, and Shutdown closes the client *)
(* and the buffer.  The buffer is SpanQueue, which SpanBuffer implements.  *)
(*                                                                         *)
(* A group is the part of one received batch that belongs to one trace;    *)
(* groups are numbered as they come.  What Evaluate says is left open, and *)
(* so is whether the next consumer accepts what it is given.               *)
(***************************************************************************)
EXTENDS Split, FiniteSets

CONSTANTS
  TraceIDs,
  DecisionWait,    \* decisionWait
  Callers,         \* the goroutines that call processTraces
  Batches,         \* the ptrace.Traces they may bring
  MaxGroups,       \* bound: groups received
  MaxDecisions,    \* bound: calls of onDecision
  MaxTime          \* bound: the clock

(* The traces are finitely many, and the batches hold spans of these only. *)
ASSUME ProcessorAssumption ==
  /\ IsFiniteSet(TraceIDs)
  /\ Batches \subseteq Traces(TraceIDs)
  /\ DecisionWait \in Nat \ {0}
  /\ MaxGroups \in Nat /\ MaxDecisions \in Nat /\ MaxTime \in Nat

VARIABLES
  now, interest, accepted, fate, passed, closed, stopped,   \* the buffer
  call,        \* the processTraces call of each caller
  phase,       \* where Shutdown stands
  notified,    \* the traces handed to the client's Notify
  decisions,   \* how many decisions the client has handed over
  \* history
  groups,      \* every group: trace, spans, the time read by processTraces
  verdict,     \* how its call decided on it
  ended,       \* where it left the processor
  groupOf,     \* the group of each accepted record
  marks        \* when each trace was marked

queueVars == <<now, interest, accepted, fate, passed, closed, stopped>>
histVars  == <<groups, verdict, ended, groupOf, marks>>
vars      == <<queueVars, call, phase, notified, decisions, histVars>>

Queue == INSTANCE SpanQueue

NoCall == [pc |-> "idle", td |-> <<>>, todo |-> {}, cur |-> 0, out |-> {}]

Init ==
  /\ Queue!Init
  /\ call = [c \in Callers |-> NoCall]
  /\ phase = "running" /\ notified = {} /\ decisions = 0
  /\ groups = <<>> /\ verdict = <<>> /\ ended = <<>> /\ groupOf = <<>>
  /\ marks = [t \in TraceIDs |-> {}]

\* Group g leaves the processor.
Ends(gs, how) ==
  ended' = [g \in 1 .. Len(ended) |-> IF g \in gs THEN Append(ended[g], how) ELSE ended[g]]

\* buf.AddInterest, with its place in the history.
Mark(t) ==
  /\ Queue!AddInterest(t)
  /\ marks' = [marks EXCEPT ![t] = @ \union {now}]
-----------------------------------------------------------------------------
(* processTraces.                                                          *)

\* The call starts: the clock is read and the batch divided.
Receive(c, td) ==
  LET parts == GroupByTrace(td)
      order == SetToSeq(DOMAIN parts)
      new   == [i \in 1 .. Len(order) |->
                  [tid |-> order[i], spans |-> parts[order[i]], began |-> now]]
  IN  /\ phase = "running" /\ call[c].pc = "idle"
      /\ Len(groups) + Len(order) <= MaxGroups
      /\ groups' = groups \o new
      /\ verdict' = verdict \o [i \in 1 .. Len(order) |-> "none"]
      /\ ended' = ended \o [i \in 1 .. Len(order) |-> <<>>]
      /\ call' = [call EXCEPT ![c] =
           [NoCall EXCEPT !.pc = "next", !.td = td,
                          !.todo = Len(groups) + 1 .. Len(groups) + Len(order)]]
      /\ UNCHANGED <<queueVars, phase, notified, decisions, groupOf, marks>>

\* The loop takes a group, in the order of a Go map; its trace is decided.
TakeKnown(c, g) ==
  /\ call[c].pc = "next" /\ g \in call[c].todo
  /\ Queue!HasInterest(groups[g].tid)
  /\ call' = [call EXCEPT ![c].todo = @ \ {g}, ![c].out = @ \union {g}]
  /\ verdict' = [verdict EXCEPT ![g] = "known"]
  /\ UNCHANGED <<queueVars, phase, notified, decisions, groups, ended, groupOf, marks>>

\* The trace is not decided: Evaluate is called.
TakeUnknown(c, g) ==
  /\ call[c].pc = "next" /\ g \in call[c].todo
  /\ ~Queue!HasInterest(groups[g].tid)
  /\ call' = [call EXCEPT ![c].pc = "undecided", ![c].todo = @ \ {g}, ![c].cur = g]
  /\ UNCHANGED <<queueVars, phase, notified, decisions, histVars>>

\* Mutant: the case has no continue, and the batch is stored as well.
SampledFallsThrough(c) ==
  LET g == call[c].cur IN
  /\ call[c].pc = "undecided"
  /\ Queue!Accept(groups[g].tid, groups[g].began)
  /\ groupOf' = Append(groupOf, g)
  /\ verdict' = [verdict EXCEPT ![g] = "sampled"]
  /\ call' = [call EXCEPT ![c].pc = "next", ![c].cur = 0, ![c].out = @ \union {g}]
  /\ UNCHANGED <<phase, notified, decisions, groups, ended, marks>>

\* Evaluate returns Sampled.
Sampled(c) ==
  LET g == call[c].cur IN
  /\ call[c].pc = "undecided"
  /\ Mark(groups[g].tid)
  /\ verdict' = [verdict EXCEPT ![g] = "sampled"]
  /\ call' = [call EXCEPT ![c].pc = "notify", ![c].out = @ \union {g}]
  /\ UNCHANGED <<phase, notified, decisions, groups, ended, groupOf>>

\* Mutant: the client is handed the zero trace ID.
NotifyNoID(c) ==
  /\ call[c].pc = "notify"
  /\ notified' = notified \union {"zero"}
  /\ call' = [call EXCEPT ![c].pc = "next", ![c].cur = 0]
  /\ UNCHANGED <<queueVars, phase, decisions, histVars>>

\* p.coord.Notify, which never blocks.
Notify(c) ==
  /\ call[c].pc = "notify"
  /\ notified' = notified \union {groups[call[c].cur].tid}
  /\ call' = [call EXCEPT ![c].pc = "next", ![c].cur = 0]
  /\ UNCHANGED <<queueVars, phase, decisions, histVars>>

\* Evaluate returns SampledLocal.
SampledLocal(c) ==
  LET g == call[c].cur IN
  /\ call[c].pc = "undecided"
  /\ Mark(groups[g].tid)
  /\ verdict' = [verdict EXCEPT ![g] = "local"]
  /\ call' = [call EXCEPT ![c].pc = "next", ![c].cur = 0, ![c].out = @ \union {g}]
  /\ UNCHANGED <<phase, notified, decisions, groups, ended, groupOf>>

(* Evaluate returns NotSampled or Dropped, with or without an error: the    *)
(* switch has no case for either, and the batch is stored under the time    *)
(* read at the start of the call.                                           *)
Unsampled == {"notSampled", "dropped"}
Store(c) ==
  LET g == call[c].cur IN
  /\ call[c].pc = "undecided"
  /\ Queue!Accept(groups[g].tid, groups[g].began)
  /\ groupOf' = Append(groupOf, g)
  /\ \E v \in Unsampled : verdict' = [verdict EXCEPT ![g] = v]
  /\ call' = [call EXCEPT ![c].pc = "next", ![c].cur = 0]
  /\ UNCHANGED <<phase, notified, decisions, groups, ended, marks>>

\* The batch cannot be marshalled, is too large, or writeCh is full.
StoreFails(c) ==
  LET g == call[c].cur IN
  /\ call[c].pc = "undecided"
  /\ Ends({g}, "unstored")
  /\ \E v \in Unsampled : verdict' = [verdict EXCEPT ![g] = v]
  /\ call' = [call EXCEPT ![c].pc = "next", ![c].cur = 0]
  /\ UNCHANGED <<queueVars, phase, notified, decisions, groups, groupOf, marks>>

(* The loop is over.  With nothing in out the call ends in                  *)
(* ErrSkipProcessingData; otherwise out goes to the next consumer.          *)
Return(c, how) ==
  /\ call[c].pc = "next" /\ call[c].todo = {}
  /\ Ends(call[c].out, how)
  /\ call' = [call EXCEPT ![c] = NoCall]
  /\ UNCHANGED <<queueVars, phase, notified, decisions, groups, verdict, groupOf, marks>>
-----------------------------------------------------------------------------
(* Callbacks, shutdown, and what the buffer does on its own.               *)

\* onMatch, called by the sweeper: the next consumer may refuse.
OnMatch(d, how) ==
  /\ Queue!Deliver(d)
  /\ Ends({groupOf[d]}, how)
  /\ UNCHANGED <<call, phase, notified, decisions, groups, verdict, groupOf, marks>>

(* onDecision, called by a receiver goroutine of the client, which Close    *)
(* does not wait for.                                                       *)
OnDecision(t) ==
  /\ decisions < MaxDecisions
  /\ decisions' = decisions + 1
  /\ Mark(t)
  /\ UNCHANGED <<call, phase, notified, groups, verdict, ended, groupOf>>

(* The collector calls Shutdown when no one calls processTraces any more;   *)
(* coord.Close returns.                                                     *)
Shutdown ==
  /\ phase = "running" /\ \A c \in Callers : call[c].pc = "idle"
  /\ phase' = "disconnected"
  /\ UNCHANGED <<queueVars, call, notified, decisions, histVars>>

CloseBuffer ==
  /\ phase = "disconnected"
  /\ phase' = "closing"
  /\ Queue!Close
  /\ UNCHANGED <<call, notified, decisions, histVars>>

\* Mutant: Shutdown does not wait for the buffer's goroutines.
ShutdownReturnsEarly ==
  /\ phase = "closing"
  /\ phase' = "down"
  /\ UNCHANGED <<queueVars, call, notified, decisions, histVars>>

ShutdownReturns ==
  /\ phase = "closing" /\ stopped
  /\ phase' = "down"
  /\ UNCHANGED <<queueVars, call, notified, decisions, histVars>>

\* The sweeper looks, evicts and stops.
Sweep ==
  /\ \/ \E d \in Queue!Waiting : Queue!Pass(d)
     \/ \E d \in Queue!Waiting : Queue!Evict(d)
     \/ \E ds \in SUBSET Queue!Waiting : Queue!Drop(ds)
     \/ Queue!Keep
     \/ Queue!Stop
  /\ UNCHANGED <<call, phase, notified, decisions, histVars>>

Tick ==
  /\ now < MaxTime
  /\ Queue!Tick
  /\ UNCHANGED <<call, phase, notified, decisions, histVars>>

Step(c) ==
  \/ \E td \in Batches : Receive(c, td)
  \/ \E g \in call[c].todo : TakeKnown(c, g) \/ TakeUnknown(c, g)
  \/ Sampled(c) \/ Notify(c) \/ SampledLocal(c)
  \/ Store(c) \/ StoreFails(c)
  \/ \E how \in {"forwarded", "refused"} : Return(c, how)

Next ==
  \/ \E c \in Callers : Step(c)
  \/ \E d \in Queue!Waiting, how \in {"forwarded", "refused"} : OnMatch(d, how)
  \/ \E t \in TraceIDs : OnDecision(t)
  \/ Shutdown \/ CloseBuffer \/ ShutdownReturns
  \/ Sweep
  \/ Tick

Spec == Init /\ [][Next]_vars
-----------------------------------------------------------------------------
(* Properties.                                                             *)

\* The variables have their types.
TypeOK ==
  /\ \A c \in Callers :
       /\ call[c].pc \in {"idle", "next", "undecided", "notify"}
       /\ call[c].todo \union call[c].out \subseteq 1 .. Len(groups)
       /\ call[c].cur \in 0 .. Len(groups)
       /\ (call[c].cur # 0) = (call[c].pc \in {"undecided", "notify"})
  /\ phase \in {"running", "disconnected", "closing", "down"}
  /\ Len(groupOf) = Len(accepted) /\ Len(ended) = Len(groups)
  /\ \A g \in 1 .. Len(groups) : groups[g].tid \in TraceIDs
  /\ notified \subseteq TraceIDs /\ decisions \in 0 .. MaxDecisions

(* groupByTrace (split.go) loses, repeats, reorders and moves no span: it   *)
(* divides a call's batch by trace, two resources or scopes with equal      *)
(* contents included, and the groups the call has to decide on or is going  *)
(* to forward still are what the batch has of their traces.                 *)
GroupsFaithful ==
  \A c \in Callers : call[c].pc # "idle" =>
    LET td == call[c].td IN
    /\ GroupByTrace(td) = [t \in TracesOf(td) |-> OfTrace(td, t)]
    /\ \A g \in call[c].todo \union call[c].out \union ({call[c].cur} \ {0}) :
         groups[g].spans = OfTrace(td, groups[g].tid)

(* processTraces and the buffer together keep each group exactly once: in   *)
(* the hands of one call, in one record that was not handed back, or out of *)
(* the processor by one of the named ways, whatever callers, sweeper,       *)
(* decisions and shutdown do in between.                                    *)
OneFate ==
  \A g \in 1 .. Len(groups) :
    LET held   == {c \in Callers : g \in call[c].todo \/
                                   (g = call[c].cur /\ call[c].pc = "undecided")}
        sent   == {c \in Callers : g \in call[c].out}
        stored == {d \in 1 .. Len(fate) : groupOf[d] = g /\ fate[d] # "delivered"}
    IN  Cardinality(held) + Cardinality(sent) + Cardinality(stored) + Len(ended[g]) = 1

(* A batch that was evaluated to NotSampled or Dropped reaches the next     *)
(* consumer only on a decision about its trace that came before its window  *)
(* closed; one that was not evaluated, only after some decision.  (That one *)
(* evaluated to Dropped does so at all is the subject of DroppedStays.)     *)
ForwardedOnDecision ==
  \A g \in 1 .. Len(groups) :
    (ended[g] # <<>> /\ Head(ended[g]) \in {"forwarded", "refused"})
      => CASE verdict[g] \in Unsampled ->
                \E m \in marks[groups[g].tid] : m < groups[g].began + DecisionWait
           [] verdict[g] = "none" -> FALSE
           [] OTHER -> marks[groups[g].tid] # {}

(* A trace is sampled as a whole.  When the sweeper finds a record undecided*)
(* there was no decision on its trace in its window, made before or after   *)
(* the batch came, between HasInterest and Write or later; except one that  *)
(* is two windows old, or was renewed after the record's window closed.     *)
WholeTrace ==
  [][\A d \in 1 .. Len(accepted) :
       (passed = 0 /\ passed' = d) =>
         \A m \in marks[accepted[d].tid] :
           m < accepted[d].at + DecisionWait =>
             \/ now - m >= 2 * DecisionWait
             \/ \E r \in marks[accepted[d].tid] : r >= accepted[d].at + DecisionWait]_vars

(* Once Shutdown has returned nothing more is delivered, stored or evicted, *)
(* though a receiver of the client may still hand over decisions.           *)
QuietAfterShutdown ==
  [][phase = "down" => UNCHANGED <<accepted, fate, ended>>]_vars
-----------------------------------------------------------------------------
(* What documentation says and the code does not do.                       *)

(* "Explicitly drop traces matching all sub-policies (halts the policy      *)
(* chain; overrides any later `sampled` result)": a batch that Evaluate     *)
(* dropped does not reach the next consumer.                                *)
DroppedStays ==
  \A g \in 1 .. Len(groups) :
    verdict[g] = "dropped" => \A i \in 1 .. Len(ended[g]) : ended[g][i] # "forwarded"
=============================================================================
