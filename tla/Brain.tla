-------------------------------- MODULE Brain --------------------------------
(***************************************************************************)
(* The pipeline of cmd/brain: HTTP handlers, eventsCh, the event loop,     *)
(* alertCh with its bridge, the input channel of the decision engine, and  *)
(* the shutdown sequence of main.                                          *)
(*                                                                         *)
(* The event loop scores an event (velocity), runs every chain over it     *)
(* (FSM) and only then takes the next one.  Velocity alerts go through     *)
(* alertCh, where they are dropped when it is full, and the bridge; chain  *)
(* signals go straight to the decision engine and wait for room.  Redis    *)
(* answers or fails as it likes; what the engines compute is left to       *)
(* VelocityDetector and FsmEngine, what happens to a signal after the      *)
(* decision loop has received it to DecisionEngine.                        *)
(***************************************************************************)
EXTENDS Naturals, Sequences, Selection

CONSTANTS
  EventsCap,  \* capacity of eventsCh
  AlertCap,   \* capacity of alertCh
  InputCap,   \* capacity of decisionInput
  NumChains,  \* chains of the registry
  MaxEvents   \* bound: events accepted

ASSUME BrainAssumption ==
  /\ EventsCap \in Nat \ {0} /\ AlertCap \in Nat \ {0} /\ InputCap \in Nat \ {0}
  /\ NumChains \in Nat \ {0}
  /\ MaxEvents \in Nat

VARIABLES
  eventsCh,   \* accepted events, by number
  accepted,   \* events answered with 202 so far
  loop,       \* where the event loop is
  current,    \* the event it took last
  left,       \* chains it has still to run over it
  alertCh,    \* velocity alerts, by the number of their event
  open,       \* alertCh has not been closed
  bridge,     \* where the bridge goroutine is
  held,       \* the alert it forwards
  input,      \* decisionInput
  deciding,   \* the decision loop has not returned
  decided,    \* history: the signals it received
  detected,   \* history: the events of the detections, in order
  alerted,    \* history: the events an alert was made for, in order
  dropped,    \* history: the events whose alert was dropped
  ctxDone,    \* the context is cancelled
  main,       \* where main is
  panicked    \* a send on the closed alertCh has ended the process

vars == <<eventsCh, accepted, loop, current, left, alertCh, open, bridge, held, input,
          deciding, decided, detected, alerted, dropped, ctxDone, main, panicked>>

Events == 1 .. MaxEvents
Signal == [source: {"fsm", "velocity"}, event: Events]

TypeOK ==
  /\ eventsCh \in Seq(Events) /\ alertCh \in Seq(Events) /\ input \in Seq(Signal)
  /\ decided \in Seq(Signal) /\ detected \in Seq(Events) /\ alerted \in Seq(Events)
  /\ dropped \subseteq Events
  /\ accepted \in 0 .. MaxEvents
  /\ loop \in {"select", "velocity", "alert", "chains", "send", "done"}
  /\ current \in 0 .. MaxEvents /\ left \in 0 .. NumChains
  /\ bridge \in {"select", "send", "done"} /\ held \in 0 .. MaxEvents
  /\ main \in {"running", "cancelled", "closed", "down", "exited"}
  /\ open \in BOOLEAN /\ deciding \in BOOLEAN /\ ctxDone \in BOOLEAN /\ panicked \in BOOLEAN

Alive == main # "exited" /\ ~panicked

pipeline == <<loop, current, left, alertCh, bridge, held, input, deciding, decided, detected,
              alerted, dropped>>
shutdown == <<open, ctxDone, main, panicked>>

-----------------------------------------------------------------------------
(* HTTP handlers. *)

\* A valid event goes into the queue and is answered with 202.  When the queue is full the
\* answer is 503 and nothing changes.
ServeHTTP ==
  /\ Alive /\ main \in {"running", "cancelled", "closed"}
  /\ accepted < MaxEvents
  /\ Len(eventsCh) < EventsCap
  /\ accepted' = accepted + 1
  /\ eventsCh' = Append(eventsCh, accepted + 1)
  /\ UNCHANGED <<pipeline, shutdown>>

-----------------------------------------------------------------------------
(* The event loop. *)

\* Mutant of LoopTake: an event without container or tactic ends the loop.
LoopTakeReturns ==
  /\ Alive /\ loop = "select" /\ eventsCh # << >>
  /\ current' = Head(eventsCh)
  /\ eventsCh' = Tail(eventsCh)
  /\ loop' \in {"done", "velocity"}
  /\ UNCHANGED <<accepted, left, alertCh, bridge, held, input, deciding, decided, detected,
                 alerted, dropped, shutdown>>

\* An event without container id, or whose tags the mapper rejects, is skipped.
LoopTake ==
  /\ Alive /\ loop = "select" /\ eventsCh # << >>
  /\ current' = Head(eventsCh)
  /\ eventsCh' = Tail(eventsCh)
  /\ loop' \in {"select", "velocity"}
  /\ UNCHANGED <<accepted, left, alertCh, bridge, held, input, deciding, decided, detected,
                 alerted, dropped, shutdown>>

LoopExit ==
  /\ Alive /\ loop = "select" /\ ctxDone
  /\ loop' = "done"
  /\ UNCHANGED <<eventsCh, accepted, current, left, alertCh, bridge, held, input, deciding,
                 decided, detected, alerted, dropped, shutdown>>

\* Mutant of ToChains: the loop over the chains runs once too often.
ToChainsPastEnd == loop' = "chains" /\ left' = NumChains + 1

ToChains == loop' = "chains" /\ left' = NumChains

\* AddAndScore returns a score, or an error, after which there is no alert.
Score ==
  /\ Alive /\ loop = "velocity"
  /\ \/ loop' = "alert" /\ UNCHANGED left
     \/ ToChains
  /\ UNCHANGED <<eventsCh, accepted, current, alertCh, bridge, held, input, deciding, decided,
                 detected, alerted, dropped, shutdown>>

\* Mutant of SendAlert: a full channel loses its oldest alert and nobody knows.
SendAlertEvicts ==
  /\ Alive /\ loop = "alert" /\ open
  /\ IF Len(alertCh) < AlertCap THEN alertCh' = Append(alertCh, current)
     ELSE alertCh' = Append(Tail(alertCh), current)
  /\ alerted' = Append(alerted, current)
  /\ ToChains
  /\ UNCHANGED <<eventsCh, accepted, current, bridge, held, input, deciding, decided, detected,
                 dropped, shutdown>>

\* The alert is sent without waiting; it is dropped when the channel is full.
SendAlert ==
  /\ Alive /\ loop = "alert" /\ open
  /\ \/ /\ Len(alertCh) < AlertCap
        /\ alertCh' = Append(alertCh, current)
        /\ UNCHANGED dropped
     \/ /\ Len(alertCh) = AlertCap
        /\ dropped' = dropped \cup {current}
        /\ UNCHANGED alertCh
  /\ alerted' = Append(alerted, current)
  /\ ToChains
  /\ UNCHANGED <<eventsCh, accepted, current, bridge, held, input, deciding, decided, detected,
                 shutdown>>

\* A send on a closed channel panics, in a select with a default as well.
SendPanics ==
  /\ Alive /\ loop = "alert" /\ ~open
  /\ panicked' = TRUE
  /\ UNCHANGED <<eventsCh, accepted, pipeline, open, ctxDone, main>>

\* fsmEngine.Process for the next chain: a detection, or nothing (an error is logged).
Process ==
  /\ Alive /\ loop = "chains" /\ left > 0
  /\ \/ /\ loop' = "send"
        /\ detected' = Append(detected, current)
        /\ UNCHANGED left
     \/ /\ left' = left - 1
        /\ UNCHANGED <<loop, detected>>
  /\ UNCHANGED <<eventsCh, accepted, current, alertCh, bridge, held, input, deciding, decided,
                 alerted, dropped, shutdown>>

LoopNext ==
  /\ Alive /\ loop = "chains" /\ left = 0
  /\ loop' = "select"
  /\ UNCHANGED <<eventsCh, accepted, current, left, alertCh, bridge, held, input, deciding,
                 decided, detected, alerted, dropped, shutdown>>

\* Mutant of SendSignal: like the alerts, a signal is dropped when the channel is full.
SendSignalDrops ==
  /\ Alive /\ loop = "send"
  /\ input' = IF Len(input) < InputCap
              THEN Append(input, [source |-> "fsm", event |-> current]) ELSE input
  /\ loop' = "chains" /\ left' = left - 1
  /\ UNCHANGED <<eventsCh, accepted, current, alertCh, bridge, held, deciding, decided,
                 detected, alerted, dropped, shutdown>>

\* The signal of a detection waits for room in the channel, after ctx.Done as well.
SendSignal ==
  /\ Alive /\ loop = "send"
  /\ Len(input) < InputCap
  /\ input' = Append(input, [source |-> "fsm", event |-> current])
  /\ loop' = "chains" /\ left' = left - 1
  /\ UNCHANGED <<eventsCh, accepted, current, alertCh, bridge, held, deciding, decided,
                 detected, alerted, dropped, shutdown>>

EventLoop ==
  LoopTake \/ LoopExit \/ Score \/ SendAlert \/ SendPanics \/ Process \/ LoopNext \/ SendSignal

-----------------------------------------------------------------------------
(* The bridge and the decision loop. *)

BridgeTake ==
  /\ Alive /\ bridge = "select" /\ alertCh # << >>
  /\ held' = Head(alertCh)
  /\ alertCh' = Tail(alertCh)
  /\ bridge' = "send"
  /\ UNCHANGED <<eventsCh, accepted, loop, current, left, input, deciding, decided, detected,
                 alerted, dropped, shutdown>>

\* Mutant of BridgeSend: an alert jumps the queue.
BridgeSendFirst ==
  /\ Alive /\ bridge = "send" /\ Len(input) < InputCap
  /\ input' = <<[source |-> "velocity", event |-> held]>> \o input
  /\ bridge' = "select"
  /\ UNCHANGED <<eventsCh, accepted, loop, current, left, alertCh, held, deciding, decided,
                 detected, alerted, dropped, shutdown>>

BridgeSend ==
  /\ Alive /\ bridge = "send" /\ Len(input) < InputCap
  /\ input' = Append(input, [source |-> "velocity", event |-> held])
  /\ bridge' = "select"
  /\ UNCHANGED <<eventsCh, accepted, loop, current, left, alertCh, held, deciding, decided,
                 detected, alerted, dropped, shutdown>>

\* The bridge returns at ctx.Done, whether or not it holds an alert, or when alertCh is
\* closed and empty.
BridgeExit ==
  /\ Alive
  /\ \/ bridge \in {"select", "send"} /\ ctxDone
     \/ bridge = "select" /\ ~open /\ alertCh = << >>
  /\ bridge' = "done"
  /\ UNCHANGED <<eventsCh, accepted, loop, current, left, alertCh, held, input, deciding,
                 decided, detected, alerted, dropped, shutdown>>

Bridge == BridgeTake \/ BridgeSend \/ BridgeExit

\* The loop of the decision engine receives a signal ...
Decide ==
  /\ Alive /\ deciding /\ input # << >>
  /\ decided' = Append(decided, Head(input))
  /\ input' = Tail(input)
  /\ UNCHANGED <<eventsCh, accepted, loop, current, left, alertCh, bridge, held, deciding,
                 detected, alerted, dropped, shutdown>>

\* ... or returns.
DecideExit ==
  /\ Alive /\ deciding /\ ctxDone
  /\ deciding' = FALSE
  /\ UNCHANGED <<eventsCh, accepted, loop, current, left, alertCh, bridge, held, input,
                 decided, detected, alerted, dropped, shutdown>>

-----------------------------------------------------------------------------
(* main: cancel, close(alertCh) 100 ms later, server.Shutdown, the last sleep.  How far the *)
(* other goroutines get during the sleeps is up to the scheduler and to Redis.             *)

Step(from, to) == Alive /\ main = from /\ main' = to

Cancel ==
  /\ Step("running", "cancelled")
  /\ ctxDone' = TRUE
  /\ UNCHANGED <<eventsCh, accepted, pipeline, open, panicked>>

CloseAlerts ==
  /\ Step("cancelled", "closed")
  /\ open' = FALSE
  /\ UNCHANGED <<eventsCh, accepted, pipeline, ctxDone, panicked>>

ServerShutdown ==
  /\ Step("closed", "down")
  /\ UNCHANGED <<eventsCh, accepted, pipeline, open, ctxDone, panicked>>

Exit ==
  /\ Step("down", "exited")
  /\ UNCHANGED <<eventsCh, accepted, pipeline, open, ctxDone, panicked>>

-----------------------------------------------------------------------------
Init ==
  /\ eventsCh = << >> /\ accepted = 0
  /\ loop = "select" /\ current = 0 /\ left = 0
  /\ alertCh = << >> /\ open = TRUE
  /\ bridge = "select" /\ held = 0
  /\ input = << >> /\ deciding = TRUE
  /\ decided = << >> /\ detected = << >> /\ alerted = << >> /\ dropped = {}
  /\ ctxDone = FALSE /\ main = "running" /\ panicked = FALSE

Next ==
  \/ ServeHTTP
  \/ EventLoop
  \/ Bridge
  \/ Decide \/ DecideExit
  \/ Cancel \/ CloseAlerts \/ ServerShutdown \/ Exit

Spec == Init /\ [][Next]_vars

\* Every goroutine that can run runs; every call to Redis returns.
FairSpec ==
  /\ Spec
  /\ WF_vars(EventLoop)
  /\ WF_vars(Bridge)
  /\ WF_vars(Decide \/ DecideExit)

-----------------------------------------------------------------------------
(* Properties. *)

\* The signals on their way through, oldest first.
Sent == decided \o input

EventsOf(s, source) ==
  LET chosen == Chosen(s, [source: {source}, event: Events])
  IN  [i \in 1 .. Len(chosen) |-> chosen[i].event]

\* No detection is lost while the process lives, and they reach the decision engine in the
\* order of the events: only the one the event loop is sending is not there yet.
DetectionsAreKept ==
  EventsOf(Sent, "fsm") \o (IF loop = "send" THEN <<current>> ELSE << >>) = detected

\* Every alert that was made is dropped, queued, held by the bridge or sent, and those that
\* are not dropped stay in the order of the events, as long as the bridge runs.
InBridge == IF bridge = "send" THEN <<held>> ELSE << >>

AlertsAreAccounted ==
  bridge # "done" =>
    EventsOf(Sent, "velocity") \o InBridge \o alertCh = Chosen(alerted, Events \ dropped)

\* The detour through the bridge delays alerts only: the signal of a completed chain is
\* never behind the alert of a later event.
ChainIsNotOvertaken ==
  \A i, j \in 1 .. Len(Sent) :
    i < j /\ Sent[i].source = "velocity" /\ Sent[j].source = "fsm" =>
      Sent[i].event <= Sent[j].event

\* Every event answered with 202 is taken from the queue, unless the brain is stopped.
AcceptedIsTaken ==
  \A n \in Events : accepted >= n ~> ctxDone \/ current >= n

\* "Allow event loop to exit before closing alertCh (avoids panic from concurrent send)"
\* (cmd/brain/main.go).
NoPanic == ~panicked
=============================================================================
