---------------------------- MODULE DecisionEngine ----------------------------
(***************************************************************************)
(* Aggregation of signals into incidents: decision.Engine (channel, buffer *)
(* and timer per container), the judgement of a batch and the dispatch of  *)
(* an incident to the sinks by action.Engine.                              *)
(*                                                                         *)
(* The loop goroutine moves signals from the channel to the buffers under  *)
(* e.mu.  A timer that fires starts a goroutine that takes the whole       *)
(* buffer under e.mu and then judges and dispatches it without the lock;   *)
(* any number of such flushes can be under way.  The context ends at       *)
(* shutdown: the loop returns, the timers stay armed, and the process      *)
(* exits once they have fired (it sleeps for the window plus 2 s).         *)
(***************************************************************************)
EXTENDS Judge, Selection, FiniteSets

CONSTANTS
  Containers,  \* container ids
  Kinds,       \* [source, score] of the signals the detectors send
  Namespaces,  \* what the resolver may answer, "unknown" when it fails
  ChanCap,     \* capacity of inputCh
  Sinks,       \* the sinks of the action engine, in their order
  Failing,     \* those whose Send may fail
  MaxSignals   \* bound: signals sent

ASSUME DecisionAssumption ==
  /\ Kinds \subseteq [source: Sources, score: Nat]
  /\ \A s \in Kinds : s.source = "fsm" => s.score = 90
  /\ Namespaces # {}
  /\ ChanCap \in Nat \ {0}
  /\ MaxSignals \in Nat
  /\ Sinks \in Seq(STRING)
  /\ Failing \subseteq STRING

VARIABLES
  inputCh,    \* the buffered channel
  sent,       \* number of signals sent so far
  buffer,     \* per container, << >> when it has no entry
  timers,     \* per container: no entry, a pending timer, or one that has fired
  waiting,    \* flush goroutines that have not got the lock yet
  flushes,    \* flushes past the lock: what they took and how far they are
  delivered,  \* per sink, the incidents it accepted, one entry for every Send
  taken,      \* history: the batches taken from the buffers
  started,    \* history: per container, the flushes that found something to judge
  looping,    \* the loop goroutine has not returned
  cancelled,  \* ctx is done
  exited      \* the process has ended

vars == <<inputCh, sent, buffer, timers, waiting, flushes, delivered, taken, started,
          looping, cancelled, exited>>

\* n is not in the code: it numbers the signals in the order they were sent.
Signal   == [cid: Containers, source: Sources, score: Nat, n: Nat]
Batch    == Seq(Signal)
\* A flush is before Evaluate (next = 0) or about to call the sink number next.  Its id
\* tells the flushes of a container apart, whatever they took.  The score and the severity of an
\* incident follow from its batch and its namespace.
Flush    == [id: Nat, batch: Batch, namespace: Namespaces \cup {"unknown"}, next: Nat]
Incident == [batch: Batch, namespace: Namespaces \cup {"unknown"}]

Score(x) == Risk(Tally(x.batch), x.namespace)

TypeOK ==
  /\ inputCh \in Seq(Signal)
  /\ sent \in Nat
  /\ buffer \in [Containers -> Batch]
  /\ timers \in [Containers -> {"none", "armed", "fired"}]
  /\ waiting \subseteq Containers
  /\ flushes \subseteq Flush
  /\ delivered \in [1 .. Len(Sinks) -> Seq(Incident)]
  /\ taken \subseteq Batch
  /\ started \in [Containers -> Nat]
  /\ looping \in BOOLEAN /\ cancelled \in BOOLEAN /\ exited \in BOOLEAN

-----------------------------------------------------------------------------
\* Mutant of Send: the container id is not filled in.
SendAnonymous(c, s) ==
  /\ ~exited
  /\ sent < MaxSignals
  /\ Len(inputCh) < ChanCap
  /\ sent' = sent + 1
  /\ inputCh' = Append(inputCh, [cid |-> "", source |-> s.source, score |-> s.score,
                                 n |-> sent + 1])
  /\ UNCHANGED <<buffer, timers, waiting, flushes, delivered, taken, started, looping,
                 cancelled, exited>>

\* A detector sends a signal; the send blocks while the channel is full.
Send(c, s) ==
  /\ ~exited
  /\ sent < MaxSignals
  /\ Len(inputCh) < ChanCap
  /\ sent' = sent + 1
  /\ inputCh' = Append(inputCh, [cid |-> c, source |-> s.source, score |-> s.score,
                                 n |-> sent + 1])
  /\ UNCHANGED <<buffer, timers, waiting, flushes, delivered, taken, started, looping,
                 cancelled, exited>>

\* Mutant of handleSignal: the newest signal goes to the front of the buffer.
handleSignalFront ==
  /\ looping /\ ~exited
  /\ inputCh # << >>
  /\ LET sig == Head(inputCh) IN
     /\ buffer' = [buffer EXCEPT ![sig.cid] = <<sig>> \o @]
     /\ timers' = [timers EXCEPT ![sig.cid] = IF @ = "none" THEN "armed" ELSE @]
  /\ inputCh' = Tail(inputCh)
  /\ UNCHANGED <<sent, waiting, flushes, delivered, taken, started, looping, cancelled,
                 exited>>

\* Mutant of handleSignal: the buffer keeps the newest signal only.
handleSignalReplaces ==
  /\ looping /\ ~exited
  /\ inputCh # << >>
  /\ LET sig == Head(inputCh) IN
     /\ buffer' = [buffer EXCEPT ![sig.cid] = <<sig>>]
     /\ timers' = [timers EXCEPT ![sig.cid] = IF @ = "none" THEN "armed" ELSE @]
  /\ inputCh' = Tail(inputCh)
  /\ UNCHANGED <<sent, waiting, flushes, delivered, taken, started, looping, cancelled,
                 exited>>

\* The loop receives a signal and appends it to its buffer, arming the timer if the
\* container has none.
handleSignal ==
  /\ looping /\ ~exited
  /\ inputCh # << >>
  /\ LET sig == Head(inputCh) IN
     /\ buffer' = [buffer EXCEPT ![sig.cid] = Append(@, sig)]
     /\ timers' = [timers EXCEPT ![sig.cid] = IF @ = "none" THEN "armed" ELSE @]
  /\ inputCh' = Tail(inputCh)
  /\ UNCHANGED <<sent, waiting, flushes, delivered, taken, started, looping, cancelled,
                 exited>>

\* Mutant of LoopExit: the timers are stopped.
LoopExitStops ==
  /\ looping /\ cancelled /\ ~exited
  /\ looping' = FALSE
  /\ timers' = [c \in Containers |-> IF timers[c] = "armed" THEN "none" ELSE timers[c]]
  /\ UNCHANGED <<inputCh, sent, buffer, waiting, flushes, delivered, taken, started,
                 cancelled, exited>>

\* ctx.Done: the loop returns, whatever the channel holds.
LoopExit ==
  /\ looping /\ cancelled /\ ~exited
  /\ looping' = FALSE
  /\ UNCHANGED <<inputCh, sent, buffer, timers, waiting, flushes, delivered, taken,
                 started, cancelled, exited>>

\* The aggregation window of c is over: its timer starts a flush goroutine.
TimerFires(c) ==
  /\ ~exited
  /\ timers[c] = "armed"
  /\ timers' = [timers EXCEPT ![c] = "fired"]
  /\ waiting' = waiting \cup {c}
  /\ UNCHANGED <<inputCh, sent, buffer, flushes, delivered, taken, started, looping,
                 cancelled, exited>>

NewFlush(c) == [id |-> started[c] + 1, batch |-> buffer[c], namespace |-> "unknown", next |-> 0]

\* Mutant of Take: the timer entry stays behind.
TakeKeepsTimer(c) ==
  /\ ~exited
  /\ c \in waiting
  /\ waiting' = waiting \ {c}
  /\ IF buffer[c] = << >> THEN UNCHANGED <<flushes, taken, started>>
     ELSE /\ flushes' = flushes \cup {NewFlush(c)}
          /\ taken' = taken \cup {buffer[c]}
          /\ started' = [started EXCEPT ![c] = @ + 1]
  /\ buffer' = [buffer EXCEPT ![c] = << >>]
  /\ UNCHANGED <<inputCh, sent, timers, delivered, looping, cancelled, exited>>

\* Mutant of Take: the buffer entry stays behind.
TakeKeepsBuffer(c) ==
  /\ ~exited
  /\ c \in waiting
  /\ waiting' = waiting \ {c}
  /\ IF buffer[c] = << >> THEN UNCHANGED <<flushes, taken, started>>
     ELSE /\ flushes' = flushes \cup {NewFlush(c)}
          /\ taken' = taken \cup {buffer[c]}
          /\ started' = [started EXCEPT ![c] = @ + 1]
  /\ timers' = [timers EXCEPT ![c] = "none"]
  /\ UNCHANGED <<inputCh, sent, buffer, delivered, looping, cancelled, exited>>

\* flush under e.mu: take the buffer, delete both entries, give up when there was nothing.
Take(c) ==
  /\ ~exited
  /\ c \in waiting
  /\ waiting' = waiting \ {c}
  /\ IF buffer[c] = << >> THEN UNCHANGED <<flushes, taken, started>>
     ELSE /\ flushes' = flushes \cup {NewFlush(c)}
          /\ taken' = taken \cup {buffer[c]}
          /\ started' = [started EXCEPT ![c] = @ + 1]
  /\ buffer' = [buffer EXCEPT ![c] = << >>]
  /\ timers' = [timers EXCEPT ![c] = "none"]
  /\ UNCHANGED <<inputCh, sent, delivered, looping, cancelled, exited>>

Becomes(f, g) == flushes' = (flushes \ {f}) \cup {g}

\* Judge.Evaluate with whatever namespace the resolver knows at this moment; noise ends the
\* flush.
Evaluate(f) ==
  /\ ~exited
  /\ f \in flushes /\ f.next = 0
  /\ \E ns \in Namespaces :
       LET g == [f EXCEPT !.namespace = ns, !.next = 1] IN
       IF Suppressed(Score(g)) THEN flushes' = flushes \ {f} ELSE Becomes(f, g)
  /\ UNCHANGED <<inputCh, sent, buffer, timers, waiting, delivered, taken, started,
                 looping, cancelled, exited>>

Accepts(f) ==
  delivered' = [delivered EXCEPT
                  ![f.next] = Append(@, [batch |-> f.batch, namespace |-> f.namespace])]

\* Mutant of Dispatch: a sink that returns an error is called again, although it may have
\* stored the incident before it failed.
DispatchRetries(f) ==
  /\ ~exited
  /\ f \in flushes /\ f.next \in 1 .. Len(Sinks)
  /\ Accepts(f) \/ (Sinks[f.next] \in Failing /\ UNCHANGED delivered)
  /\ \/ Becomes(f, [f EXCEPT !.next = @ + 1])
     \/ Sinks[f.next] \in Failing /\ UNCHANGED flushes
  /\ UNCHANGED <<inputCh, sent, buffer, timers, waiting, taken, started, looping, cancelled,
                 exited>>

\* Mutant of Dispatch: the first failing sink ends it.
DispatchStops(f) ==
  /\ ~exited
  /\ f \in flushes /\ f.next \in 1 .. Len(Sinks)
  /\ \/ Accepts(f) /\ Becomes(f, [f EXCEPT !.next = @ + 1])
     \/ Sinks[f.next] \in Failing /\ UNCHANGED delivered /\ flushes' = flushes \ {f}
  /\ UNCHANGED <<inputCh, sent, buffer, timers, waiting, taken, started, looping,
                 cancelled, exited>>

\* Dispatch offers the incident to the next sink; an error is logged and the next follows.
Dispatch(f) ==
  /\ ~exited
  /\ f \in flushes /\ f.next \in 1 .. Len(Sinks)
  /\ Accepts(f) \/ (Sinks[f.next] \in Failing /\ UNCHANGED delivered)
  /\ Becomes(f, [f EXCEPT !.next = @ + 1])
  /\ UNCHANGED <<inputCh, sent, buffer, timers, waiting, taken, started, looping,
                 cancelled, exited>>

\* All sinks have been called: the goroutine ends.
Done(f) ==
  /\ ~exited
  /\ f \in flushes /\ f.next > Len(Sinks)
  /\ flushes' = flushes \ {f}
  /\ UNCHANGED <<inputCh, sent, buffer, timers, waiting, delivered, taken, started,
                 looping, cancelled, exited>>

\* SIGTERM: main calls cancel.
Cancel ==
  /\ ~cancelled
  /\ cancelled' = TRUE
  /\ UNCHANGED <<inputCh, sent, buffer, timers, waiting, flushes, delivered, taken,
                 started, looping, exited>>

\* main returns after sleeping for longer than the window: every timer has fired and its
\* goroutine has had the lock; nothing waits for the channel or for a slow sink.
Exit ==
  /\ ~looping /\ ~exited
  /\ \A c \in Containers : timers[c] = "none"
  /\ exited' = TRUE
  /\ UNCHANGED <<inputCh, sent, buffer, timers, waiting, flushes, delivered, taken,
                 started, looping, cancelled>>

FlushStep(f) == Evaluate(f) \/ Dispatch(f) \/ Done(f)

-----------------------------------------------------------------------------
Init ==
  /\ inputCh = << >>
  /\ sent = 0
  /\ buffer = [c \in Containers |-> << >>]
  /\ timers = [c \in Containers |-> "none"]
  /\ waiting = {}
  /\ flushes = {}
  /\ delivered = [i \in 1 .. Len(Sinks) |-> << >>]
  /\ taken = {}
  /\ started = [c \in Containers |-> 0]
  /\ looping = TRUE
  /\ cancelled = FALSE
  /\ exited = FALSE

Next ==
  \/ \E c \in Containers, s \in Kinds : Send(c, s)
  \/ handleSignal
  \/ LoopExit
  \/ \E c \in Containers : TimerFires(c) \/ Take(c)
  \/ \E f \in flushes : FlushStep(f)
  \/ Cancel
  \/ Exit

Spec == Init /\ [][Next]_vars

\* The runtime runs every goroutine that can run and fires every timer; sinks return.
FairSpec ==
  /\ Spec
  /\ WF_vars(handleSignal \/ LoopExit)
  /\ \A c \in Containers : WF_vars(TimerFires(c)) /\ WF_vars(Take(c))
  /\ WF_vars(\E f \in flushes : FlushStep(f))

-----------------------------------------------------------------------------
(* Properties. *)

\* A container has signals waiting exactly when it has a timer entry, and an entry is
\* pending or has its flush goroutine at the lock: no signal waits for a window that
\* nobody will close, and no flush finds its buffer empty.
TimerCoversBuffer ==
  /\ \A c \in Containers : timers[c] = "none" <=> buffer[c] = << >>
  /\ waiting = {c \in Containers : timers[c] = "fired"}

Increasing(b) == \A i, j \in 1 .. Len(b) : i < j => b[i].n < b[j].n
Before(a, b)  == \A i \in 1 .. Len(a), j \in 1 .. Len(b) : a[i].n < b[j].n
BatchOf(c, b) == \A i \in 1 .. Len(b) : b[i].cid = c

\* Signals of a container stay in the order they were sent, from the channel through the
\* buffer to the batches, and a batch never mixes containers or repeats a signal: two
\* batches of one container lie one after the other.
InOrder ==
  /\ Increasing(inputCh)
  /\ \A c \in Containers :
       /\ BatchOf(c, buffer[c]) /\ Increasing(buffer[c]) /\ Before(buffer[c], inputCh)
  /\ \A b \in taken : \E c \in Containers :
       /\ BatchOf(c, b) /\ Increasing(b) /\ Before(b, buffer[c]) /\ Before(b, inputCh)
  /\ \A a, b \in taken : a # b /\ a[1].cid = b[1].cid => Before(a, b) \/ Before(b, a)

\* Every signal sent is in the channel, in a buffer or in a batch.
Holds(b, m) == \E i \in 1 .. Len(b) : b[i].n = m

NothingLost ==
  \A m \in 1 .. sent :
    \/ Holds(inputCh, m)
    \/ \E c \in Containers : Holds(buffer[c], m)
    \/ \E b \in taken : Holds(b, m)

\* No sink is told of one signal twice: no two of the Sends it accepted have a signal in
\* common, be it that a batch was judged twice, that batches overlap or that an incident was
\* offered again.
OneIncidentPerSignal ==
  \A i \in 1 .. Len(Sinks) : \A x, y \in 1 .. Len(delivered[i]) :
    x # y => \A j \in 1 .. Len(delivered[i][x].batch) :
               ~Holds(delivered[i][y].batch, delivered[i][x].batch[j].n)

\* A batch with a completed attack chain reaches every sink that works, as CRITICAL, whether
\* or not the pod is found and although another sink fails.
HasChain(b) == \E i \in 1 .. Len(b) : b[i].source = "fsm"
UnderWay(b) == \E f \in flushes : f.batch = b

ChainReported ==
  \A b \in taken : HasChain(b) /\ ~UnderWay(b) =>
    \A i \in 1 .. Len(Sinks) : Sinks[i] \notin Failing =>
      \E m \in 1 .. Len(delivered[i]) :
        LET x == delivered[i][m] IN
        x.batch = b /\ determineSeverity(Score(x)) = "CRITICAL"

\* The engine implements the aggregator: what is in the channel or in a buffer is pending.
SignalsOf(c) == [cid: {c}, source: Sources, score: Nat, n: Nat]
Pending(c) == buffer[c] \o Chosen(inputCh, SignalsOf(c))

Aggregation == INSTANCE Aggregator WITH pending <- [c \in Containers |-> Pending(c)]

ImplementsAggregator == Aggregation!Spec

\* "Allow decision engine timers to flush buffered signals" (cmd/brain/main.go): a buffered
\* signal gets into a batch even when the context ends meanwhile.
BufferIsFlushed ==
  \A c \in Containers : buffer[c] # << >> ~> buffer[c] = << >>

\* Until shutdown every signal a detector got rid of is judged, and what is worth it is
\* dispatched.
SignalIsJudged ==
  \A m \in 1 .. MaxSignals :
    sent >= m ~> cancelled \/ \E b \in taken : Holds(b, m) /\ ~UnderWay(b)
=============================================================================
