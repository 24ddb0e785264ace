----------------------------- MODULE BrainProofs -----------------------------
(***************************************************************************)
(* Proofs about Brain, for every capacity of the channels, any number of   *)
(* chains and any number of events.                                        *)
(***************************************************************************)
EXTENDS Brain, OperatorProofs

-----------------------------------------------------------------------------
(* Type correctness. *)

\* The event loop has an event at hand while it works, and a chain while it sends; the
\* bridge has an alert while it sends.
AtHand ==
  /\ loop \in {"velocity", "alert", "chains", "send"} => current \in Events
  /\ loop = "send" => left > 0
  /\ bridge = "send" => held \in Events

Typed == TypeOK /\ AtHand

\* Nothing is under way at the start.
LEMMA TypedInit == Init => Typed
  <1> SUFFICES ASSUME Init PROVE Typed
    OBVIOUS
  <1>1. /\ << >> \in Seq(Events) /\ << >> \in Seq(Signal)
        /\ 0 \in 0 .. MaxEvents /\ 0 \in 0 .. NumChains
    BY BrainAssumption DEF BrainAssumption
  <1> QED
    BY <1>1 DEF Init, Typed, TypeOK, AtHand

\* A signal of the event at hand.
LEMMA SignalTypes ==
  ASSUME NEW n \in Events, NEW source \in {"fsm", "velocity"}
  PROVE  [source |-> source, event |-> n] \in Signal
  BY DEF Signal

\* No operation on a channel exceeds its capacity or forgets what its goroutine holds.
LEMMA TypedStep == Typed /\ [Next]_vars => Typed'
  <1> SUFFICES ASSUME Typed, [Next]_vars PROVE Typed'
    OBVIOUS
  <1> USE BrainAssumption DEF BrainAssumption
  <1>1. CASE ServeHTTP
    <2>1. accepted + 1 \in Events /\ accepted + 1 \in 0 .. MaxEvents
      BY <1>1 DEF ServeHTTP, Typed, TypeOK, Events
    <2>2. eventsCh' \in Seq(Events)
      BY <1>1, <2>1 DEF ServeHTTP, Typed, TypeOK
    <2> QED
      BY <1>1, <2>1, <2>2 DEF ServeHTTP, Typed, TypeOK, AtHand, pipeline, shutdown
  <1>2. CASE LoopTake
    <2>1. current' \in Events /\ eventsCh' \in Seq(Events)
      BY <1>2 DEF LoopTake, Typed, TypeOK
    <2>2. current' \in 0 .. MaxEvents
      BY <2>1 DEF Events
    <2> QED
      BY <1>2, <2>1, <2>2 DEF LoopTake, Typed, TypeOK, AtHand, shutdown
  <1>3. CASE LoopExit
    BY <1>3 DEF LoopExit, Typed, TypeOK, AtHand, shutdown
  <1>4. CASE Score
    BY <1>4 DEF Score, ToChains, Typed, TypeOK, AtHand, shutdown
  <1>5. CASE SendAlert
    <2>1. current \in Events
      BY <1>5 DEF SendAlert, Typed, AtHand
    <2>2. /\ Append(alertCh, current) \in Seq(Events) /\ Append(alerted, current) \in Seq(Events)
          /\ dropped \cup {current} \subseteq Events
      BY <2>1 DEF Typed, TypeOK
    <2>3. /\ alertCh' \in {alertCh, Append(alertCh, current)} /\ alerted' = Append(alerted, current)
          /\ dropped' \in {dropped, dropped \cup {current}}
      BY <1>5 DEF SendAlert
    <2>4. /\ alertCh' \in Seq(Events) /\ alerted' \in Seq(Events) /\ dropped' \subseteq Events
      BY <2>2, <2>3 DEF Typed, TypeOK
    <2> QED
      BY <1>5, <2>1, <2>4 DEF SendAlert, ToChains, Typed, TypeOK, AtHand, shutdown
  <1>6. CASE SendPanics
    BY <1>6 DEF SendPanics, Typed, TypeOK, AtHand, pipeline
  <1>7. CASE Process
    <2>1. current \in Events /\ left \in 0 .. NumChains /\ left > 0
      BY <1>7 DEF Process, Typed, TypeOK, AtHand
    <2>2. Append(detected, current) \in Seq(Events) /\ left - 1 \in 0 .. NumChains
      BY <2>1 DEF Typed, TypeOK
    <2> QED
      BY <1>7, <2>1, <2>2 DEF Process, Typed, TypeOK, AtHand, shutdown
  <1>8. CASE LoopNext
    BY <1>8 DEF LoopNext, Typed, TypeOK, AtHand, shutdown
  <1>9. CASE SendSignal
    <2>1. current \in Events /\ left > 0
      BY <1>9 DEF SendSignal, Typed, AtHand
    <2>2. input' \in Seq(Signal)
      <3>1. [source |-> "fsm", event |-> current] \in Signal
        BY <2>1, SignalTypes
      <3> QED
        BY <1>9, <3>1 DEF SendSignal, Typed, TypeOK
    <2>3. left' \in 0 .. NumChains
      BY <1>9, <2>1 DEF SendSignal, Typed, TypeOK
    <2> QED
      BY <1>9, <2>1, <2>2, <2>3 DEF SendSignal, Typed, TypeOK, AtHand, shutdown
  <1>10. CASE BridgeTake
    <2>1. held' \in Events /\ alertCh' \in Seq(Events)
      BY <1>10 DEF BridgeTake, Typed, TypeOK
    <2>2. held' \in 0 .. MaxEvents
      BY <2>1 DEF Events
    <2> QED
      BY <1>10, <2>1, <2>2 DEF BridgeTake, Typed, TypeOK, AtHand, shutdown
  <1>11. CASE BridgeSend
    <2>1. input' \in Seq(Signal)
      <3>1. held \in Events
        BY <1>11 DEF BridgeSend, Typed, AtHand
      <3>2. [source |-> "velocity", event |-> held] \in Signal
        BY <3>1, SignalTypes
      <3> QED
        BY <1>11, <3>2 DEF BridgeSend, Typed, TypeOK
    <2> QED
      BY <1>11, <2>1 DEF BridgeSend, Typed, TypeOK, AtHand, shutdown
  <1>12. CASE BridgeExit
    BY <1>12 DEF BridgeExit, Typed, TypeOK, AtHand, shutdown
  <1>13. CASE Decide
    <2>1. decided' \in Seq(Signal) /\ input' \in Seq(Signal)
      BY <1>13 DEF Decide, Typed, TypeOK
    <2> QED
      BY <1>13, <2>1 DEF Decide, Typed, TypeOK, AtHand, shutdown
  <1>14. CASE DecideExit
    BY <1>14 DEF DecideExit, Typed, TypeOK, AtHand, shutdown
  <1>15. CASE Cancel \/ CloseAlerts \/ ServerShutdown \/ Exit
    BY <1>15 DEF Cancel, CloseAlerts, ServerShutdown, Exit, Step, Typed, TypeOK, AtHand, pipeline
  <1>16. CASE UNCHANGED vars
    BY <1>16 DEF vars, Typed, TypeOK, AtHand
  <1> QED
    BY <1>1, <1>2, <1>3, <1>4, <1>5, <1>6, <1>7, <1>8, <1>9, <1>10, <1>11, <1>12, <1>13, <1>14,
       <1>15, <1>16 DEF Next, EventLoop, Bridge

\* The variables keep their types, whatever the capacities.
THEOREM TypeCorrect == Spec => []TypeOK
  <1>1. Typed => TypeOK
    BY DEF Typed
  <1> QED
    BY <1>1, TypedInit, TypedStep, PTL DEF Spec

-----------------------------------------------------------------------------
(* A chain signal is not overtaken. *)

\* The queue holds later events than the one the loop is at, in order.
Queued ==
  /\ current <= accepted
  /\ \A i \in 1 .. Len(eventsCh) : current < eventsCh[i] /\ eventsCh[i] <= accepted
  /\ \A i, j \in 1 .. Len(eventsCh) : i < j => eventsCh[i] < eventsCh[j]

\* Alerts and signals on their way are of events the loop has come to.
Past ==
  /\ \A i \in 1 .. Len(alertCh) : alertCh[i] <= current
  /\ bridge = "send" => held <= current
  /\ \A i \in 1 .. Len(Sent) : Sent[i].event <= current

\* What the invariants need to know of the numbers of events and of the queues.
LEMMA Numbers ==
  ASSUME Typed
  PROVE  /\ Events \subseteq Nat /\ current \in Nat /\ accepted \in Nat /\ held \in Nat
         /\ eventsCh \in Seq(Events) /\ \A i \in 1 .. Len(eventsCh) : eventsCh[i] \in Nat
         /\ alertCh \in Seq(Events) /\ \A i \in 1 .. Len(alertCh) : alertCh[i] \in Nat
         /\ Sent \in Seq(Signal)
         /\ \A i \in 1 .. Len(Sent) : Sent[i].event \in Nat
  <1>1. Events \subseteq Nat /\ current \in Nat /\ accepted \in Nat /\ held \in Nat
    BY BrainAssumption DEF BrainAssumption, Typed, TypeOK, Events
  <1>2. /\ eventsCh \in Seq(Events) /\ \A i \in 1 .. Len(eventsCh) : eventsCh[i] \in Nat
        /\ alertCh \in Seq(Events) /\ \A i \in 1 .. Len(alertCh) : alertCh[i] \in Nat
    <2>1. eventsCh \in Seq(Events) /\ alertCh \in Seq(Events)
      BY DEF Typed, TypeOK
    <2>2. /\ \A i \in 1 .. Len(eventsCh) : eventsCh[i] \in Events
          /\ \A i \in 1 .. Len(alertCh) : alertCh[i] \in Events
      BY <2>1
    <2> QED
      BY <1>1, <2>1, <2>2
  <1>3. Sent \in Seq(Signal)
    BY DEF Typed, TypeOK, Sent
  <1>4. \A i \in 1 .. Len(Sent) : Sent[i].event \in Nat
    <2>1. \A i \in 1 .. Len(Sent) : Sent[i] \in Signal
      BY <1>3
    <2> QED
      BY <1>1, <2>1 DEF Signal
  <1> QED
    BY <1>1, <1>2, <1>3, <1>4

\* A step that touches neither the queue nor the place of the loop.
LEMMA QueuedKeeps ==
  ASSUME Queued, UNCHANGED <<eventsCh, accepted, current>> PROVE Queued'
  BY DEF Queued

\* The queues between the webhook and the bridge stay in the order of the events.
LEMMA QueuedStep == Typed /\ Queued /\ [Next]_vars => Queued'
  <1> SUFFICES ASSUME Typed, Queued, [Next]_vars PROVE Queued'
    OBVIOUS
  <1>1. CASE ServeHTTP
    <2>1. /\ eventsCh' = Append(eventsCh, accepted + 1) /\ accepted' = accepted + 1
          /\ current' = current
      BY <1>1 DEF ServeHTTP, pipeline
    <2> QED
      <3>1. /\ Len(eventsCh') = Len(eventsCh) + 1 /\ Len(eventsCh) \in Nat
            /\ \A i \in 1 .. Len(eventsCh) : eventsCh'[i] = eventsCh[i]
            /\ eventsCh'[Len(eventsCh) + 1] = accepted + 1
        BY <2>1, Numbers
      <3> QED
        BY <2>1, <3>1, Numbers DEF Queued
  <1>2. CASE LoopTake
    <2>1. /\ eventsCh # << >> /\ eventsCh' = Tail(eventsCh) /\ current' = Head(eventsCh)
          /\ accepted' = accepted
      BY <1>2 DEF LoopTake
    <2> QED
      BY <2>1, Numbers DEF Queued
  <1>3. CASE UNCHANGED <<eventsCh, accepted, current>>
    BY <1>3, QueuedKeeps
  <1> QED
    BY <1>1, <1>2, <1>3
    DEF Next, EventLoop, Bridge, LoopExit, Score, SendAlert, SendPanics, Process, LoopNext,
        SendSignal, BridgeTake, BridgeSend, BridgeExit, Decide, DecideExit, Cancel, CloseAlerts,
        ServerShutdown, Exit, pipeline, vars

\* The three steps that touch the signals on their way: the loop and the bridge append one,
\* the decision loop only moves one.
LEMMA SentDetail ==
  ASSUME Typed, [Next]_vars
  PROVE  /\ Sent \in Seq(Signal)
         /\ \/ /\ SendSignal
               /\ [source |-> "fsm", event |-> current] \in Signal
               /\ Sent' = Append(Sent, [source |-> "fsm", event |-> current])
            \/ /\ BridgeSend
               /\ [source |-> "velocity", event |-> held] \in Signal
               /\ Sent' = Append(Sent, [source |-> "velocity", event |-> held])
            \/ ~SendSignal /\ ~BridgeSend /\ Sent' = Sent
  <1>0. Sent \in Seq(Signal) /\ input \in Seq(Signal) /\ decided \in Seq(Signal)
    BY Numbers DEF Typed, TypeOK
  <1>1. CASE SendSignal
    <2>1. /\ [source |-> "fsm", event |-> current] \in Signal /\ decided' = decided
          /\ input' = Append(input, [source |-> "fsm", event |-> current])
      BY <1>1, SignalTypes DEF SendSignal, Typed, AtHand
    <2> QED
      BY <1>0, <1>1, <2>1, ConcatAppend DEF Sent
  <1>2. CASE BridgeSend
    <2>1. /\ [source |-> "velocity", event |-> held] \in Signal /\ decided' = decided
          /\ input' = Append(input, [source |-> "velocity", event |-> held])
      BY <1>2, SignalTypes DEF BridgeSend, Typed, AtHand
    <2> QED
      BY <1>0, <1>2, <2>1, ConcatAppend DEF Sent
  <1>3. CASE Decide
    <2>1. /\ input # << >> /\ decided' = Append(decided, Head(input)) /\ input' = Tail(input)
          /\ loop' = loop /\ bridge' = bridge /\ Len(input) \in Nat
      BY <1>0, <1>3 DEF Decide
    <2>2. ~SendSignal /\ ~BridgeSend
      BY <2>1 DEF SendSignal, BridgeSend
    <2>3. /\ Head(input) \in Signal /\ Tail(input) \in Seq(Signal)
          /\ input = <<Head(input)>> \o Tail(input)
      BY <1>0, <2>1, HeadTailProperties
    <2>4. /\ Append(decided, Head(input)) = decided \o <<Head(input)>>
          /\ <<Head(input)>> \in Seq(Signal)
      BY <1>0, <2>3, AppendIsConcat
    <2>5. (decided \o <<Head(input)>>) \o Tail(input) = decided \o input
      BY <1>0, <2>3, <2>4, ConcatAssociative
    <2> QED
      BY <1>0, <2>1, <2>2, <2>4, <2>5 DEF Sent
  <1>4. CASE UNCHANGED <<input, decided>> /\ ~SendSignal /\ ~BridgeSend
    BY <1>0, <1>4 DEF Sent
  <1>5. SendSignal \/ BridgeSend \/ Decide
        \/ (UNCHANGED <<input, decided>> /\ ~SendSignal /\ ~BridgeSend)
    BY DEF Next, EventLoop, Bridge, ServeHTTP, LoopTake, LoopExit, Score, SendAlert, SendPanics,
        Process, LoopNext, BridgeTake, BridgeExit, DecideExit, Cancel, CloseAlerts,
        ServerShutdown, Exit, pipeline, vars
  <1> QED
    BY <1>1, <1>2, <1>3, <1>4, <1>5

\* What is added is of an event that is not ahead of the loop, a chain signal of the event at
\* hand.
LEMMA SentStep ==
  ASSUME Typed, Past, [Next]_vars
  PROVE  \/ Sent' = Sent
         \/ /\ current' = current
            /\ \E x \in Signal : /\ Sent' = Append(Sent, x)
                                 /\ x.event <= current
                                 /\ x.source = "fsm" => x.event = current
  <1>1. ASSUME NEW x \in Signal, Sent' = Append(Sent, x), SendSignal,
               x = [source |-> "fsm", event |-> current]
        PROVE  /\ current' = current /\ x.event <= current
               /\ x.source = "fsm" => x.event = current
    BY <1>1, Numbers DEF SendSignal
  <1>2. ASSUME NEW x \in Signal, Sent' = Append(Sent, x), BridgeSend,
               x = [source |-> "velocity", event |-> held]
        PROVE  /\ current' = current /\ x.event <= current
               /\ x.source = "fsm" => x.event = current
    BY <1>2 DEF BridgeSend, Past
  <1> QED
    BY <1>1, <1>2, SentDetail

\* The loop never goes back.
LEMMA CurrentGrows == ASSUME Typed, Queued, [Next]_vars PROVE current <= current'
  <1>1. CASE LoopTake
    <2>1. eventsCh # << >> /\ current' = eventsCh[1]
      BY <1>1 DEF LoopTake
    <2>2. 1 \in 1 .. Len(eventsCh) /\ eventsCh[1] \in Nat
      BY <2>1, Numbers
    <2> QED
      BY <2>1, <2>2, Numbers DEF Queued
  <1>2. CASE current' = current
    BY <1>2, Numbers
  <1> QED
    BY <1>1, <1>2
    DEF Next, EventLoop, Bridge, ServeHTTP, LoopExit, Score, SendAlert, SendPanics, Process,
        LoopNext, SendSignal, BridgeTake, BridgeSend, BridgeExit, Decide, DecideExit, Cancel,
        CloseAlerts, ServerShutdown, Exit, pipeline, vars

\* What has left the event loop is not younger than the event it holds.
LEMMA PastStep == Typed /\ Typed' /\ Queued /\ Past /\ [Next]_vars => Past'
  <1> SUFFICES ASSUME Typed, Typed', Queued, Past, [Next]_vars PROVE Past'
    OBVIOUS
  <1>0. current <= current' /\ current \in Nat /\ current' \in Nat
    BY CurrentGrows, Numbers DEF Typed, TypeOK
  <1>1. \A i \in 1 .. Len(Sent') : Sent'[i].event <= current'
    <2>1. CASE Sent' = Sent
      BY <1>0, <2>1, Numbers DEF Past
    <2>2. ASSUME current' = current, NEW x \in Signal, Sent' = Append(Sent, x),
                 x.event <= current
          PROVE  \A i \in 1 .. Len(Sent') : Sent'[i].event <= current'
      <3>1. /\ Len(Sent') = Len(Sent) + 1 /\ Sent'[Len(Sent) + 1] = x /\ Len(Sent) \in Nat
            /\ \A i \in 1 .. Len(Sent) : Sent'[i] = Sent[i]
        BY <2>2, Numbers
      <3> QED
        BY <2>2, <3>1 DEF Past
    <2> QED
      BY <2>1, <2>2, SentStep
  <1>2. \A i \in 1 .. Len(alertCh') : alertCh'[i] <= current'
    <2>1. CASE SendAlert
      <3>1. current' = current /\ alertCh' \in {alertCh, Append(alertCh, current)}
        BY <2>1 DEF SendAlert
      <3>2. /\ alertCh \in Seq(Events)
            /\ \A i \in 1 .. Len(alertCh) : alertCh[i] \in Nat /\ alertCh[i] <= current
        BY Numbers DEF Past
      <3>3. CASE alertCh' = Append(alertCh, current)
        <4>1. /\ Len(alertCh') = Len(alertCh) + 1 /\ Len(alertCh) \in Nat
              /\ alertCh'[Len(alertCh) + 1] = current
              /\ \A i \in 1 .. Len(alertCh) : alertCh'[i] = alertCh[i]
          BY <3>2, <3>3
        <4> QED
          BY <1>0, <3>1, <3>2, <4>1
      <3>4. CASE alertCh' = alertCh
        BY <3>1, <3>2, <3>4
      <3> QED
        BY <3>1, <3>3, <3>4
    <2>2. CASE BridgeTake
      BY <1>0, <2>2, Numbers DEF BridgeTake, Past
    <2>3. CASE alertCh' = alertCh
      BY <1>0, <2>3, Numbers DEF Past
    <2> QED
      BY <2>1, <2>2, <2>3
      DEF Next, EventLoop, Bridge, ServeHTTP, LoopTake, LoopExit, Score, SendPanics, Process,
          LoopNext, SendSignal, BridgeSend, BridgeExit, Decide, DecideExit, Cancel,
          CloseAlerts, ServerShutdown, Exit, pipeline, vars
  <1>3. bridge' = "send" => held' <= current'
    <2>1. CASE BridgeTake
      BY <1>0, <2>1, Numbers DEF BridgeTake, Past
    <2>2. CASE bridge' = "send" => bridge = "send" /\ held' = held
      BY <1>0, <2>2, Numbers DEF Past
    <2> QED
      BY <2>1, <2>2
      DEF Next, EventLoop, Bridge, ServeHTTP, LoopTake, LoopExit, Score, SendAlert, SendPanics,
          Process, LoopNext, SendSignal, BridgeSend, BridgeExit, Decide, DecideExit, Cancel,
          CloseAlerts, ServerShutdown, Exit, pipeline, vars
  <1> QED
    BY <1>1, <1>2, <1>3 DEF Past

\* What a step appends to inputCh is not older than a chain signal before it.
LEMMA OvertakingStep == Typed /\ Past /\ ChainIsNotOvertaken /\ [Next]_vars => ChainIsNotOvertaken'
  <1> SUFFICES ASSUME Typed, Past, ChainIsNotOvertaken, [Next]_vars PROVE ChainIsNotOvertaken'
    OBVIOUS
  <1>1. CASE Sent' = Sent
    BY <1>1 DEF ChainIsNotOvertaken
  <1>2. ASSUME NEW x \in Signal, Sent' = Append(Sent, x), x.event <= current,
               x.source = "fsm" => x.event = current
        PROVE  ChainIsNotOvertaken'
    <2>1. /\ Len(Sent') = Len(Sent) + 1 /\ Sent'[Len(Sent) + 1] = x /\ Len(Sent) \in Nat
          /\ \A i \in 1 .. Len(Sent) : Sent'[i] = Sent[i]
      BY <1>2, Numbers
    <2> SUFFICES ASSUME NEW i \in 1 .. Len(Sent'), NEW j \in 1 .. Len(Sent'), i < j,
                        Sent'[i].source = "velocity", Sent'[j].source = "fsm"
                 PROVE  Sent'[i].event <= Sent'[j].event
      BY DEF ChainIsNotOvertaken
    <2>2. i \in 1 .. Len(Sent)
      BY <2>1
    <2>3. CASE j \in 1 .. Len(Sent)
      BY <2>1, <2>2, <2>3 DEF ChainIsNotOvertaken
    <2>4. CASE j = Len(Sent) + 1
      BY <1>2, <2>1, <2>2, <2>4 DEF Past
    <2> QED
      BY <2>1, <2>3, <2>4
  <1> QED
    BY <1>1, <1>2, SentStep

\* No capacity and no schedule lets the alert of a later event get ahead of a chain signal.
THEOREM ChainsAreNotOvertaken == Spec => []ChainIsNotOvertaken
  <1>1. Init => Queued /\ Past /\ ChainIsNotOvertaken
    BY DEF Init, Queued, Past, Sent, ChainIsNotOvertaken
  <1> QED
    BY <1>1, TypedInit, TypedStep, QueuedStep, PastStep, OvertakingStep, PTL DEF Spec

-----------------------------------------------------------------------------
(* Signals by their source. *)

\* The signals of a source.
SignalsOf(source) == [source: {source}, event: Events]

\* The events of the signals of a source are events, as many as there are signals.
LEMMA EventsType ==
  ASSUME NEW s \in Seq(Signal), NEW source
  PROVE  /\ EventsOf(s, source) \in Seq(Events)
         /\ Len(EventsOf(s, source)) = Len(Chosen(s, SignalsOf(source)))
  <1> DEFINE c == Chosen(s, SignalsOf(source))
  <1>1. c \in Seq(Signal) /\ EventsOf(s, source) = [i \in 1 .. Len(c) |-> c[i].event]
    BY ChosenType DEF EventsOf, SignalsOf
  <1> HIDE DEF c
  <1>2. Len(c) \in Nat /\ \A i \in 1 .. Len(c) : c[i].event \in Events
    <2>1. \A i \in 1 .. Len(c) : c[i] \in Signal
      BY <1>1, ElementOfSeq
    <2> QED
      BY <1>1, <2>1, LenProperties DEF Signal
  <1>3. EventsOf(s, source) \in [1 .. Len(c) -> Events]
    BY <1>1, <1>2
  <1> QED
    BY <1>2, <1>3, SeqDef, LenProperties DEF c

\* They come one signal at a time.
LEMMA EventsAppend ==
  ASSUME NEW s \in Seq(Signal), NEW x \in Signal, NEW source
  PROVE  EventsOf(Append(s, x), source)
           = IF x.source = source THEN Append(EventsOf(s, source), x.event)
             ELSE EventsOf(s, source)
  <1> DEFINE c == Chosen(s, SignalsOf(source))
             d == Chosen(Append(s, x), SignalsOf(source))
             e == EventsOf(s, source)
  <1>1. c \in Seq(Signal) /\ d = IF x \in SignalsOf(source) THEN Append(c, x) ELSE c
    BY ChosenType, ChosenAppend
  <1>2. x \in SignalsOf(source) <=> x.source = source
    BY DEF Signal, SignalsOf
  <1>3. /\ EventsOf(s, source) = [i \in 1 .. Len(c) |-> c[i].event]
        /\ EventsOf(Append(s, x), source) = [i \in 1 .. Len(d) |-> d[i].event]
    BY DEF EventsOf, SignalsOf
  <1> HIDE DEF c, d, e
  <1>4. e \in Seq(Events) /\ Len(e) = Len(c) /\ Len(c) \in Nat
    BY <1>1, EventsType, LenProperties DEF e, c
  <1>5. CASE x.source = source
    <2>1. /\ d = Append(c, x) /\ Len(d) = Len(c) + 1 /\ d[Len(c) + 1] = x
          /\ \A i \in 1 .. Len(c) : d[i] = c[i]
      BY <1>1, <1>2, <1>5, AppendProperties
    <2>2. x.event \in Events
      BY DEF Signal
    <2> DEFINE f == Append(e, x.event)
    <2>3. /\ f \in Seq(Events) /\ Len(f) = Len(c) + 1 /\ f[Len(c) + 1] = x.event
          /\ \A i \in 1 .. Len(c) : f[i] = e[i]
      BY <1>4, <2>2, AppendProperties
    <2> HIDE DEF f
    <2>4. f = [i \in 1 .. Len(d) |-> f[i]]
      BY <2>1, <2>3, LenProperties
    <2>5. ASSUME NEW i \in 1 .. Len(d) PROVE d[i].event = f[i]
      <3>1. CASE i = Len(c) + 1
        BY <2>1, <2>3, <3>1
      <3>2. CASE i # Len(c) + 1
        <4>1. i \in 1 .. Len(c)
          BY <1>4, <2>1, <3>2
        <4>2. e[i] = c[i].event
          BY <1>3, <4>1 DEF e
        <4> QED
          BY <2>1, <2>3, <4>1, <4>2
      <3> QED
        BY <3>1, <3>2
    <2>6. [i \in 1 .. Len(d) |-> d[i].event] = f
      BY <2>4, <2>5
    <2> QED
      BY <1>3, <1>5, <2>6 DEF e, f
  <1>6. CASE x.source # source
    BY <1>1, <1>2, <1>3, <1>6 DEF e
  <1> QED
    BY <1>5, <1>6

\* There are none in the empty sequence.
LEMMA EventsEmpty == \A source : EventsOf(<< >>, source) = << >>
  <1> SUFFICES ASSUME NEW source PROVE EventsOf(<< >>, source) = << >>
    OBVIOUS
  <1>1. Chosen(<< >>, SignalsOf(source)) = << >> /\ Len(<< >>) = 0
    BY ChosenEmpty, EmptySeq
  <1>2. EventsOf(<< >>, source) = [i \in 1 .. 0 |-> << >>[i].event]
    BY <1>1 DEF EventsOf, SignalsOf
  <1> QED
    BY <1>2

-----------------------------------------------------------------------------
(* Detections. *)

\* A detection is with the loop, in the channel or received, one after the other.
LEMMA DetectionStep == Typed /\ DetectionsAreKept /\ [Next]_vars => DetectionsAreKept'
  <1> SUFFICES ASSUME Typed, DetectionsAreKept, [Next]_vars PROVE DetectionsAreKept'
    OBVIOUS
  <1> DEFINE chains == EventsOf(Sent, "fsm")
             atLoop == IF loop = "send" THEN <<current>> ELSE << >>
  <1>1. chains \in Seq(Events) /\ chains \o << >> = chains /\ detected = chains \o atLoop
    <2>1. chains \in Seq(Events)
      BY SentDetail, EventsType
    <2> QED
      BY <2>1, ConcatEmptySeq DEF DetectionsAreKept
  <1>2. CASE SendSignal
    <2>1. /\ loop = "send" /\ loop' = "chains" /\ detected' = detected /\ current \in Events
      BY <1>2 DEF SendSignal, Typed, AtHand
    <2>2. chains' = Append(chains, current)
      BY <1>2, SentDetail, EventsAppend DEF SendSignal, BridgeSend
    <2>3. Append(chains, current) = chains \o <<current>>
      BY <1>1, <2>1, AppendIsConcat
    <2>4. chains' \o << >> = chains'
      BY <1>1, <2>1, <2>2, AppendProperties, ConcatEmptySeq
    <2> QED
      BY <1>1, <2>1, <2>2, <2>3, <2>4 DEF DetectionsAreKept
  <1>3. chains' = chains \/ SendSignal
    <2> DEFINE alert == [source |-> "velocity", event |-> held]
    <2>1. CASE alert \in Signal /\ Sent' = Append(Sent, alert)
      <3>1. alert.source # "fsm"
        OBVIOUS
      <3> HIDE DEF alert
      <3>2. EventsOf(Append(Sent, alert), "fsm") = chains
        BY <2>1, <3>1, SentDetail, EventsAppend
      <3> QED
        BY <2>1, <3>2
    <2>2. CASE Sent' = Sent
      BY <2>2
    <2> QED
      BY <2>1, <2>2, SentDetail
  <1>4. CASE Process /\ chains' = chains
    <2>1. current \in Events /\ loop = "chains" /\ current' = current
      BY <1>4 DEF Process, Typed, AtHand
    <2>2. Append(chains, current) = chains \o <<current>>
      BY <1>1, <2>1, AppendIsConcat
    <2>3. atLoop = << >> /\ detected = chains
      BY <1>1, <2>1
    <2>4. \/ loop' = "send" /\ detected' = Append(detected, current)
          \/ loop' = "chains" /\ detected' = detected
      BY <1>4 DEF Process
    <2> QED
      BY <1>1, <1>4, <2>1, <2>2, <2>3, <2>4 DEF DetectionsAreKept
  <1>5. CASE /\ chains' = chains /\ detected' = detected
             /\ loop = "send" <=> loop' = "send"
             /\ loop = "send" => current' = current
    BY <1>1, <1>5 DEF DetectionsAreKept
  <1>6. \/ SendSignal \/ Process
        \/ /\ detected' = detected
           /\ loop = "send" <=> loop' = "send"
           /\ loop = "send" => current' = current
    BY DEF Next, EventLoop, Bridge, ServeHTTP, LoopTake, LoopExit, Score, ToChains, SendAlert,
        SendPanics, LoopNext, BridgeTake, BridgeSend, BridgeExit, Decide, DecideExit, Cancel,
        CloseAlerts, ServerShutdown, Exit, pipeline, vars
  <1> QED
    BY <1>2, <1>3, <1>4, <1>5, <1>6

\* No detection is lost or reordered on its way to the decision engine, whatever the
\* capacities and however the goroutines are scheduled.
THEOREM NoDetectionIsLost == Spec => []DetectionsAreKept
  <1>1. Init => DetectionsAreKept
    <2> SUFFICES ASSUME Init PROVE DetectionsAreKept
      OBVIOUS
    <2>1. << >> \o << >> = << >>
      BY EmptySeq, ConcatEmptySeq
    <2> QED
      BY <2>1, EventsEmpty DEF Init, DetectionsAreKept, Sent
  <1> QED
    BY <1>1, TypedInit, TypedStep, DetectionStep, PTL DEF Spec

-----------------------------------------------------------------------------
(* Alerts. *)

\* The loop makes at most one alert for an event, and comes to each event once.
Fresh ==
  /\ \A i \in 1 .. Len(alerted) : alerted[i] <= current
  /\ \A n \in dropped : n <= current
  /\ loop \in {"velocity", "alert"} =>
       (\A i \in 1 .. Len(alerted) : alerted[i] < current) /\ (\A n \in dropped : n < current)

\* The next event has no alert yet, and after its alert the loop has left the place of alerts.
LEMMA FreshStep == Typed /\ Queued /\ Fresh /\ [Next]_vars => Fresh'
  <1> SUFFICES ASSUME Typed, Queued, Fresh, [Next]_vars PROVE Fresh'
    OBVIOUS
  <1>1. /\ current \in Nat /\ alerted \in Seq(Events) /\ Len(alerted) \in Nat
        /\ \A i \in 1 .. Len(alerted) : alerted[i] \in Nat
        /\ \A n \in dropped : n \in Nat
    <2>1. alerted \in Seq(Events) /\ dropped \subseteq Events
      BY DEF Typed, TypeOK
    <2> QED
      BY <2>1, Numbers, ElementOfSeq, LenProperties
  <1>2. CASE LoopTake
    <2>1. current < current' /\ current' \in Nat
      <3>1. eventsCh # << >> /\ current' = eventsCh[1]
        BY <1>2 DEF LoopTake
      <3>2. 1 \in 1 .. Len(eventsCh) /\ eventsCh[1] \in Nat
        BY <3>1, Numbers
      <3> QED
        BY <3>1, <3>2 DEF Queued
    <2>2. alerted' = alerted /\ dropped' = dropped
      BY <1>2 DEF LoopTake
    <2> QED
      BY <1>1, <2>1, <2>2 DEF Fresh
  <1>3. CASE SendAlert
    <2>1. /\ alerted' = Append(alerted, current) /\ current' = current
          /\ dropped' \subseteq dropped \cup {current} /\ loop' = "chains"
      BY <1>3 DEF SendAlert, ToChains
    <2>2. current \in Events
      BY <1>3 DEF SendAlert, Typed, AtHand
    <2>3. /\ Len(alerted') = Len(alerted) + 1 /\ alerted'[Len(alerted) + 1] = current
          /\ \A i \in 1 .. Len(alerted) : alerted'[i] = alerted[i]
      BY <1>1, <2>1, <2>2, AppendProperties
    <2> QED
      BY <1>1, <2>1, <2>3 DEF Fresh
  <1>4. CASE /\ UNCHANGED <<current, alerted, dropped>>
             /\ loop' \in {"velocity", "alert"} => loop \in {"velocity", "alert"}
    BY <1>4 DEF Fresh
  <1> QED
    BY <1>2, <1>3, <1>4
    DEF Next, EventLoop, Bridge, ServeHTTP, LoopExit, Score, ToChains, SendPanics, Process,
        LoopNext, SendSignal, BridgeTake, BridgeSend, BridgeExit, Decide, DecideExit, Cancel,
        CloseAlerts, ServerShutdown, Exit, pipeline, vars

\* The alerts in the order they were made, those apart that were dropped.
Surviving == Chosen(alerted, Events \ dropped)
Flow == (EventsOf(Sent, "velocity") \o InBridge) \o alertCh

\* The parts of the way of an alert are sequences of events.
LEMMA FlowTypes ==
  ASSUME Typed
  PROVE  /\ EventsOf(Sent, "velocity") \in Seq(Events) /\ InBridge \in Seq(Events)
         /\ alertCh \in Seq(Events) /\ alerted \in Seq(Events)
         /\ EventsOf(Sent, "velocity") \o InBridge \in Seq(Events)
  <1>1. EventsOf(Sent, "velocity") \in Seq(Events)
    BY Numbers, EventsType
  <1>2. InBridge \in Seq(Events)
    BY DEF InBridge, Typed, AtHand
  <1> QED
    BY <1>1, <1>2, ConcatProperties DEF Typed, TypeOK

\* The bridge passes on what it holds.
LEMMA FlowSend ==
  ASSUME Typed, [Next]_vars, BridgeSend
  PROVE  Flow' = Flow
  <1> DEFINE v == EventsOf(Sent, "velocity")
             alert == [source |-> "velocity", event |-> held]
  <1>1. /\ bridge = "send" /\ bridge' = "select" /\ held \in Events /\ loop' = loop
        /\ alertCh' = alertCh
    BY DEF BridgeSend, Typed, AtHand
  <1>2. ~SendSignal
    <2>1. alertCh' = alertCh /\ bridge # bridge'
      BY <1>1
    <2> QED
      BY <2>1 DEF SendSignal
  <1>3. Sent' = Append(Sent, alert) /\ alert \in Signal /\ Sent \in Seq(Signal)
    BY <1>2, SentDetail
  <1>4. v' = Append(v, held)
    BY <1>3, EventsAppend
  <1> HIDE DEF v, alert
  <1>5. v \in Seq(Events) /\ Append(v, held) = v \o <<held>> /\ v \o <<held>> \in Seq(Events)
    BY <1>1, FlowTypes, AppendIsConcat, AppendProperties DEF v
  <1>6. (v \o <<held>>) \o << >> = v \o <<held>>
    BY <1>5, ConcatEmptySeq
  <1> QED
    BY <1>1, <1>4, <1>5, <1>6 DEF Flow, InBridge, v

\* The bridge takes the oldest alert.
LEMMA FlowTake ==
  ASSUME Typed, [Next]_vars, BridgeTake
  PROVE  Flow' = Flow
  <1> DEFINE v == EventsOf(Sent, "velocity")
             first == Head(alertCh)
             rest == Tail(alertCh)
  <1>1. /\ bridge = "select" /\ bridge' = "send" /\ held' = first
        /\ alertCh # << >> /\ alertCh' = rest /\ Sent' = Sent
    BY DEF BridgeTake, Sent
  <1>2. v \in Seq(Events) /\ alertCh \in Seq(Events)
    BY FlowTypes
  <1>3. /\ first \in Events /\ rest \in Seq(Events) /\ <<first>> \in Seq(Events)
        /\ alertCh = <<first>> \o rest
    BY <1>1, <1>2, HeadTailProperties
  <1>4. (v \o <<first>>) \o rest = v \o alertCh /\ v \o << >> = v
    BY <1>2, <1>3, ConcatAssociative, ConcatEmptySeq
  <1> QED
    BY <1>1, <1>4 DEF Flow, InBridge

\* The loop sends an alert, or drops it when there is no room.
LEMMA FlowAlert ==
  ASSUME Typed, Fresh, [Next]_vars, SendAlert, Flow = Surviving
  PROVE  Flow' = Surviving'
  <1> DEFINE ahead == EventsOf(Sent, "velocity") \o InBridge
  <1>1. /\ current \in Events /\ current \notin dropped /\ alerted' = Append(alerted, current)
        /\ ahead' = ahead
    <2>1. loop = "alert" /\ current \in Events /\ alerted' = Append(alerted, current)
      BY DEF SendAlert, Typed, AtHand
    <2>2. current \notin dropped
      BY <2>1, Numbers DEF Fresh
    <2>3. input' = input /\ decided' = decided /\ bridge' = bridge /\ held' = held
      BY DEF SendAlert
    <2> QED
      BY <2>1, <2>2, <2>3 DEF Sent, InBridge
  <1>2. alerted \in Seq(Events) /\ alertCh \in Seq(Events) /\ ahead \in Seq(Events)
    BY FlowTypes
  <1> HIDE DEF ahead
  <1>3. CASE alertCh' = Append(alertCh, current) /\ dropped' = dropped
    <2>1. ahead \o Append(alertCh, current) = Append(ahead \o alertCh, current)
      BY <1>1, <1>2, ConcatAppend
    <2>2. Chosen(Append(alerted, current), Events \ dropped)
            = Append(Chosen(alerted, Events \ dropped), current)
      <3> DEFINE T == Events \ dropped
      <3>1. current \in T
        BY <1>1
      <3> HIDE DEF T
      <3>2. Chosen(Append(alerted, current), T) = Append(Chosen(alerted, T), current)
        BY <1>1, <1>2, <3>1, ChosenAppend
      <3> QED
        BY <3>2 DEF T
    <2> QED
      BY <1>1, <1>3, <2>1, <2>2 DEF Flow, Surviving, ahead
  <1>4. CASE alertCh' = alertCh /\ dropped' = dropped \cup {current}
    <2>1. Chosen(Append(alerted, current), Events \ dropped')
            = Chosen(alerted, Events \ dropped')
      BY <1>1, <1>2, <1>4, ChosenAppend
    <2>2. alerted \in Seq(Events \ {current})
      <3>1. \A i \in 1 .. Len(alerted) : alerted[i] \in Events \ {current}
        <4>1. loop = "alert" /\ \A i \in 1 .. Len(alerted) : alerted[i] \in Events
          BY <1>2, ElementOfSeq DEF SendAlert
        <4> QED
          BY <4>1, Numbers DEF Fresh
      <3> QED
        BY <1>2, <3>1, LenProperties, SeqDef
    <2>3. \A x \in Events \ {current} : x \in Events \ dropped' <=> x \in Events \ dropped
      BY <1>4
    <2>4. Chosen(alerted, Events \ dropped') = Chosen(alerted, Events \ dropped)
      BY <2>2, <2>3, ChosenAgree
    <2> QED
      BY <1>1, <1>4, <2>1, <2>4 DEF Flow, Surviving, ahead
  <1> QED
    BY <1>3, <1>4 DEF SendAlert

\* Steps that touch no alert.
LEMMA FlowFrame ==
  ASSUME Typed, [Next]_vars, ~BridgeSend, UNCHANGED <<alertCh, InBridge>>
  PROVE  Flow' = Flow
  <1> DEFINE chain == [source |-> "fsm", event |-> current]
  <1>1. CASE chain \in Signal /\ Sent' = Append(Sent, chain)
    <2>1. chain.source # "velocity"
      OBVIOUS
    <2> HIDE DEF chain
    <2>2. EventsOf(Append(Sent, chain), "velocity") = EventsOf(Sent, "velocity")
      BY <1>1, <2>1, SentDetail, EventsAppend
    <2> QED
      BY <1>1, <2>2 DEF Flow
  <1>2. CASE Sent' = Sent
    BY <1>2 DEF Flow
  <1> QED
    BY <1>1, <1>2, SentDetail

\* Until the bridge returns every alert is accounted for.
LEMMA AlertStep == Typed /\ Fresh /\ AlertsAreAccounted /\ [Next]_vars => AlertsAreAccounted'
  <1> SUFFICES ASSUME Typed, Fresh, AlertsAreAccounted, [Next]_vars, bridge' # "done"
               PROVE  Flow' = Surviving'
    BY DEF AlertsAreAccounted, Flow, Surviving
  <1>1. bridge # "done" /\ ~BridgeExit
    BY DEF Next, EventLoop, Bridge, ServeHTTP, LoopTake, LoopExit, Score, SendAlert, SendPanics,
        Process, LoopNext, SendSignal, BridgeTake, BridgeSend, BridgeExit, Decide, DecideExit,
        Cancel, CloseAlerts, ServerShutdown, Exit, pipeline, vars
  <1>2. Flow = Surviving
    BY <1>1 DEF AlertsAreAccounted, Flow, Surviving
  <1>3. CASE BridgeSend
    BY <1>2, <1>3, FlowSend DEF BridgeSend, Surviving
  <1>4. CASE BridgeTake
    BY <1>2, <1>4, FlowTake DEF BridgeTake, Surviving
  <1>5. CASE SendAlert
    BY <1>2, <1>5, FlowAlert
  <1>6. CASE ~BridgeSend /\ UNCHANGED <<alertCh, InBridge, alerted, dropped>>
    BY <1>2, <1>6, FlowFrame DEF Surviving
  <1>7. BridgeSend \/ BridgeTake \/ SendAlert \/ UNCHANGED <<alertCh, InBridge, alerted, dropped>>
    BY <1>1 DEF Next, EventLoop, Bridge, ServeHTTP, LoopTake, LoopExit, Score, SendPanics,
        Process, LoopNext, SendSignal, Decide, DecideExit, Cancel, CloseAlerts, ServerShutdown,
        Exit, pipeline, vars, InBridge
  <1> QED
    BY <1>3, <1>4, <1>5, <1>6, <1>7

\* An alert is dropped in one place only, where the loop finds the channel full, and the
\* others keep their order, whatever the capacities and however the goroutines are scheduled.
THEOREM NoAlertVanishes == Spec => []AlertsAreAccounted
  <1>1. Init => Fresh /\ Queued /\ AlertsAreAccounted
    <2> SUFFICES ASSUME Init PROVE Fresh /\ Queued /\ AlertsAreAccounted
      OBVIOUS
    <2>1. << >> \o << >> = << >>
      BY EmptySeq, ConcatEmptySeq
    <2>2. Sent = << >> /\ InBridge = << >> /\ alertCh = << >> /\ alerted = << >>
      BY <2>1 DEF Init, Sent, InBridge
    <2>3. AlertsAreAccounted
      BY <2>1, <2>2, EventsEmpty, ChosenEmpty DEF AlertsAreAccounted
    <2> QED
      BY <2>3 DEF Init, Fresh, Queued
  <1> QED
    BY <1>1, TypedInit, TypedStep, QueuedStep, FreshStep, AlertStep, PTL DEF Spec
=============================================================================
