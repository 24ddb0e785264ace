------------------------- MODULE DecisionEngineProofs -------------------------
(***************************************************************************)
(* Proofs about DecisionEngine for every set of containers, signal kinds   *)
(* and namespaces, every channel capacity and every list of sinks.         *)
(***************************************************************************)
EXTENDS DecisionEngine, OperatorProofs

-----------------------------------------------------------------------------
(* Type correctness. *)

\* What Send puts into the channel is a signal.
LEMMA SentType ==
  ASSUME NEW c \in Containers, NEW s \in Kinds, NEW m \in Nat
  PROVE  [cid |-> c, source |-> s.source, score |-> s.score, n |-> m] \in Signal
  <1>1. s.source \in Sources /\ s.score \in Nat
    BY DecisionAssumption DEF DecisionAssumption
  <1> QED
    BY <1>1 DEF Signal

\* The head of the channel is a signal of some container.
LEMMA HeadType ==
  ASSUME TypeOK, inputCh # << >>
  PROVE  /\ Head(inputCh) \in Signal /\ Head(inputCh).cid \in Containers
         /\ Tail(inputCh) \in Seq(Signal)
  <1>1. Head(inputCh) \in Signal /\ Tail(inputCh) \in Seq(Signal)
    BY DEF TypeOK
  <1> QED
    BY <1>1 DEF Signal

\* The initial state has the types.
LEMMA TypeInit == Init => TypeOK
  <1>1. << >> \in Seq(Signal)
    OBVIOUS
  <1>2. Sinks \in Seq(STRING) /\ Len(Sinks) \in Nat
    BY DecisionAssumption DEF DecisionAssumption
  <1> SUFFICES ASSUME Init PROVE TypeOK
    OBVIOUS
  <1>3. buffer \in [Containers -> Batch]
    BY <1>1 DEF Init, Batch
  <1>4. delivered \in [1 .. Len(Sinks) -> Seq(Incident)]
    <2>1. << >> \in Seq(Incident)
      OBVIOUS
    <2> QED
      BY <1>2, <2>1 DEF Init
  <1>5. inputCh \in Seq(Signal) /\ timers \in [Containers -> {"none", "armed", "fired"}]
    BY <1>1 DEF Init
  <1> QED
    BY <1>3, <1>4, <1>5 DEF Init, TypeOK

\* Send puts a well-formed signal into the channel.
LEMMA TypeSend ==
  ASSUME TypeOK, NEW c \in Containers, NEW s \in Kinds, Send(c, s)
  PROVE  TypeOK'
  <1>1. sent + 1 \in Nat
    BY DEF TypeOK
  <1>2. [cid |-> c, source |-> s.source, score |-> s.score, n |-> sent + 1] \in Signal
    BY <1>1, SentType
  <1>3. inputCh' \in Seq(Signal)
    BY <1>2 DEF Send, TypeOK
  <1> QED
    BY <1>1, <1>3 DEF Send, TypeOK

\* handleSignal moves a signal of the channel to the buffer of its container.
LEMMA TypeHandle ==
  ASSUME TypeOK, handleSignal
  PROVE  TypeOK'
  <1> DEFINE sig == Head(inputCh)
  <1>1. sig \in Signal /\ sig.cid \in Containers /\ Tail(inputCh) \in Seq(Signal)
    BY HeadType DEF handleSignal
  <1>2. Append(buffer[sig.cid], sig) \in Seq(Signal)
    BY <1>1 DEF TypeOK, Batch
  <1>3. buffer' \in [Containers -> Batch]
    BY <1>1, <1>2 DEF handleSignal, TypeOK, Batch
  <1>4. timers' \in [Containers -> {"none", "armed", "fired"}]
    BY <1>1 DEF handleSignal, TypeOK
  <1> QED
    BY <1>1, <1>3, <1>4 DEF handleSignal, TypeOK

\* Taking a buffer makes a flush of it.
LEMMA TypeTake ==
  ASSUME TypeOK, NEW c \in Containers, Take(c)
  PROVE  TypeOK'
  <1>1. buffer[c] \in Batch /\ << >> \in Batch
    BY DEF TypeOK, Batch
  <1>2. started[c] + 1 \in Nat /\ NewFlush(c) \in Flush
    BY <1>1 DEF NewFlush, Flush, TypeOK
  <1>3. flushes' \subseteq Flush /\ taken' \subseteq Batch
    BY <1>1, <1>2 DEF Take, TypeOK
  <1>4. buffer' \in [Containers -> Batch]
    BY <1>1 DEF Take, TypeOK
  <1>5. started' \in [Containers -> Nat]
    BY <1>2 DEF Take, TypeOK
  <1> QED
    BY <1>3, <1>4, <1>5 DEF Take, TypeOK

\* Evaluate gives a flush one of the namespaces of the resolver.
LEMMA TypeEvaluate ==
  ASSUME TypeOK, NEW f \in flushes, Evaluate(f)
  PROVE  TypeOK'
  <1>1. f \in Flush
    BY DEF TypeOK
  <1>2. \A ns \in Namespaces : [f EXCEPT !.namespace = ns, !.next = 1] \in Flush
    BY <1>1 DEF Flush
  <1>3. flushes' \subseteq Flush
    BY <1>2 DEF Evaluate, Becomes, TypeOK
  <1> QED
    BY <1>3 DEF Evaluate, TypeOK

\* What Dispatch hands to a sink is an incident.
LEMMA TypeDispatch ==
  ASSUME TypeOK, NEW f \in flushes, Dispatch(f)
  PROVE  TypeOK'
  <1>1. f \in Flush /\ f.next \in Nat /\ f.next \in 1 .. Len(Sinks)
    BY DEF TypeOK, Flush, Dispatch
  <1>2. [f EXCEPT !.next = @ + 1] \in Flush
    BY <1>1 DEF Flush
  <1>3. flushes' \subseteq Flush
    BY <1>2 DEF Dispatch, Becomes, TypeOK
  <1>4. [batch |-> f.batch, namespace |-> f.namespace] \in Incident
    BY <1>1 DEF Flush, Incident
  <1> DEFINE x == [batch |-> f.batch, namespace |-> f.namespace]
  <1>5. delivered' \in [1 .. Len(Sinks) -> Seq(Incident)]
    <2>1. delivered' = delivered \/ delivered' = [delivered EXCEPT ![f.next] = Append(@, x)]
      BY DEF Dispatch, Accepts
    <2>2. Append(delivered[f.next], x) \in Seq(Incident)
      <3>1. delivered[f.next] \in Seq(Incident) /\ x \in Incident
        BY <1>1, <1>4 DEF TypeOK
      <3> HIDE DEF x
      <3> QED
        BY <3>1, AppendProperties
    <2> HIDE DEF x
    <2> QED
      BY <1>1, <2>1, <2>2 DEF TypeOK
  <1> QED
    BY <1>3, <1>5 DEF Dispatch, TypeOK

\* Every step keeps the types.
LEMMA TypeStep == TypeOK /\ [Next]_vars => TypeOK'
  <1> SUFFICES ASSUME TypeOK, [Next]_vars PROVE TypeOK'
    OBVIOUS
  <1>1. CASE UNCHANGED vars
    BY <1>1 DEF vars, TypeOK
  <1>2. CASE \E c \in Containers, s \in Kinds : Send(c, s)
    BY <1>2, TypeSend
  <1>3. CASE handleSignal
    BY <1>3, TypeHandle
  <1>4. CASE LoopExit
    BY <1>4 DEF LoopExit, TypeOK
  <1>5. CASE \E c \in Containers : TimerFires(c)
    BY <1>5 DEF TimerFires, TypeOK
  <1>6. CASE \E c \in Containers : Take(c)
    BY <1>6, TypeTake
  <1>7. CASE \E f \in flushes : Evaluate(f)
    BY <1>7, TypeEvaluate
  <1>8. CASE \E f \in flushes : Dispatch(f)
    BY <1>8, TypeDispatch
  <1>9. CASE \E f \in flushes : Done(f)
    BY <1>9 DEF Done, TypeOK
  <1>10. CASE Cancel
    BY <1>10 DEF Cancel, TypeOK
  <1>11. CASE Exit
    BY <1>11 DEF Exit, TypeOK
  <1> QED
    BY <1>1, <1>2, <1>3, <1>4, <1>5, <1>6, <1>7, <1>8, <1>9, <1>10, <1>11
    DEF Next, FlushStep

\* Every variable of the decision engine keeps its type, for every instance.
THEOREM TypeCorrect == Spec => []TypeOK
  <1>1. Init => TypeOK
    BY TypeInit
  <1>2. TypeOK /\ [Next]_vars => TypeOK'
    BY TypeStep
  <1> QED
    BY <1>1, <1>2, PTL DEF Spec

-----------------------------------------------------------------------------
(* Timers. *)

\* A sequence to which something was appended is not empty.
LEMMA AppendIsNotEmpty ==
  ASSUME NEW S, NEW b \in Seq(S), NEW e \in S
  PROVE  Append(b, e) # << >>
  <1>1. Len(Append(b, e)) = Len(b) + 1 /\ Len(b) \in Nat
    OBVIOUS
  <1>2. Len(<< >>) = 0
    OBVIOUS
  <1> QED
    BY <1>1, <1>2

\* handleSignal arms the timer it needs, Take removes both entries together.
LEMMA TimerStep == TypeOK /\ TimerCoversBuffer /\ [Next]_vars => TimerCoversBuffer'
  <1> SUFFICES ASSUME TypeOK, TimerCoversBuffer, [Next]_vars PROVE TimerCoversBuffer'
    OBVIOUS
  <1>1. CASE UNCHANGED <<buffer, timers, waiting>>
    BY <1>1 DEF TimerCoversBuffer
  <1>2. CASE handleSignal
    <2> DEFINE sig == Head(inputCh)
    <2>1. sig \in Signal /\ sig.cid \in Containers
      BY <1>2, HeadType DEF handleSignal
    <2>2. Append(buffer[sig.cid], sig) # << >>
      <3>1. buffer[sig.cid] \in Seq(Signal)
        BY <2>1 DEF TypeOK, Batch
      <3> HIDE DEF sig
      <3> QED
        BY <2>1, <3>1, AppendIsNotEmpty
    <2>3. \A c \in Containers : timers'[c] = "none" <=> buffer'[c] = << >>
      BY <1>2, <2>1, <2>2 DEF handleSignal, TypeOK, TimerCoversBuffer
    <2>4. \A c \in Containers : timers'[c] = "fired" <=> timers[c] = "fired"
      BY <1>2, <2>1 DEF handleSignal, TypeOK
    <2> QED
      BY <1>2, <2>3, <2>4 DEF handleSignal, TimerCoversBuffer
  <1>3. CASE \E c \in Containers : TimerFires(c)
    BY <1>3 DEF TimerFires, TypeOK, TimerCoversBuffer
  <1>4. CASE \E c \in Containers : Take(c)
    BY <1>4 DEF Take, TypeOK, TimerCoversBuffer
  <1>5. (\E c \in Containers, s \in Kinds : Send(c, s)) \/ LoopExit
        \/ (\E f \in flushes : FlushStep(f)) \/ Cancel \/ Exit \/ UNCHANGED vars
        => UNCHANGED <<buffer, timers, waiting>>
    BY DEF Send, LoopExit, FlushStep, Evaluate, Dispatch, Done, Cancel, Exit, vars
  <1> QED
    BY <1>1, <1>2, <1>3, <1>4, <1>5 DEF Next

\* No buffered signal is without a pending flush and no flush finds an empty buffer.
THEOREM EveryBufferHasATimer == Spec => []TimerCoversBuffer
  <1>1. Init => TimerCoversBuffer
    BY DEF Init, TimerCoversBuffer
  <1>2. TypeOK /\ TimerCoversBuffer /\ [Next]_vars => TimerCoversBuffer'
    BY TimerStep
  <1> QED
    BY <1>1, <1>2, TypeCorrect, PTL DEF Spec

-----------------------------------------------------------------------------
(* The numbers of the signals.  The channel holds the last ones in order,  *)
(* everything else was received; buffers and batches share no number.      *)

Received == sent - Len(inputCh)

Queued ==
  /\ Received \in Nat
  /\ \A i \in 1 .. Len(inputCh) : inputCh[i].n = Received + i

\* A batch, or a buffer, of one container, in order, of signals received so far.
Orderly(c, b) ==
  /\ BatchOf(c, b) /\ Increasing(b)
  /\ \A i \in 1 .. Len(b) : b[i].n <= Received

Apart(a, b) == \A i \in 1 .. Len(a), j \in 1 .. Len(b) : a[i].n # b[j].n

Buffers ==
  /\ \A c \in Containers : Orderly(c, buffer[c])
  /\ \A c, d \in Containers : c # d => Apart(buffer[c], buffer[d])

Batches ==
  /\ \A b \in taken :
       /\ b # << >> /\ b[1].cid \in Containers
       /\ Orderly(b[1].cid, b) /\ Before(b, buffer[b[1].cid])
       /\ \A c \in Containers : Apart(b, buffer[c])
  /\ \A a, b \in taken : a # b => Apart(a, b)
  /\ \A a, b \in taken : a # b /\ a[1].cid = b[1].cid => Before(a, b) \/ Before(b, a)

Kept ==
  \A m \in 1 .. Received :
    (\E c \in Containers : Holds(buffer[c], m)) \/ (\E b \in taken : Holds(b, m))

Numbered == Queued /\ Buffers /\ Batches /\ Kept

\* The numbers compared below are numbers.
LEMMA NumberTypes ==
  ASSUME TypeOK
  PROVE  /\ \A c \in Containers : Len(buffer[c]) \in Nat
         /\ \A c \in Containers, i \in Nat :
              i \in 1 .. Len(buffer[c]) => buffer[c][i].n \in Nat
         /\ \A b \in taken : Len(b) \in Nat
         /\ \A b \in taken, i \in Nat : i \in 1 .. Len(b) => b[i].n \in Nat
  <1>1. \A b \in Batch : Len(b) \in Nat /\ \A i \in 1 .. Len(b) : b[i] \in Signal
    BY DEF Batch
  <1>2. \A sig \in Signal : sig.n \in Nat
    BY DEF Signal
  <1>3. taken \subseteq Batch /\ \A c \in Containers : buffer[c] \in Batch
    BY DEF TypeOK
  <1> QED
    BY <1>1, <1>2, <1>3

\* Nothing has been sent.
LEMMA NumberedInit == Init => Numbered
  <1> SUFFICES ASSUME Init PROVE Numbered
    OBVIOUS
  <1>1. Received = 0
    <2>1. Len(<< >>) = 0
      OBVIOUS
    <2>2. sent = 0 /\ inputCh = << >>
      BY DEF Init
    <2>3. Received = 0 - 0
      BY <2>1, <2>2 DEF Received
    <2> QED
      BY <2>3
  <1>2. Queued
    BY <1>1 DEF Init, Queued
  <1>3. Buffers
    BY DEF Init, Buffers, Orderly, BatchOf, Increasing, Apart
  <1>4. Batches
    BY DEF Init, Batches
  <1>5. Kept
    BY <1>1 DEF Kept
  <1> QED
    BY <1>2, <1>3, <1>4, <1>5 DEF Numbered

\* Nothing but the channel, the buffers and the batches matters.
LEMMA NumberedFrame ==
  ASSUME Numbered, UNCHANGED <<inputCh, sent, buffer, taken>>
  PROVE  Numbered'
  BY DEF Numbered, Queued, Buffers, Batches, Kept, Received, Orderly

\* The new signal carries the next number, behind all others.
LEMMA NumberedSend ==
  ASSUME TypeOK, Numbered, NEW c \in Containers, NEW s \in Kinds, Send(c, s)
  PROVE  Numbered'
  <1> DEFINE sig == [cid |-> c, source |-> s.source, score |-> s.score, n |-> sent + 1]
  <1>1. sig \in Signal /\ sig.n = sent + 1
    BY SentType DEF TypeOK
  <1>2. /\ Len(inputCh') = Len(inputCh) + 1 /\ inputCh'[Len(inputCh) + 1] = sig
        /\ \A i \in 1 .. Len(inputCh) : inputCh'[i] = inputCh[i]
    BY <1>1 DEF Send, TypeOK
  <1>3. Received' = Received
    BY <1>2 DEF Received, Send, TypeOK
  <1>4. Queued'
    <2> SUFFICES ASSUME NEW i \in 1 .. Len(inputCh')
                 PROVE  inputCh'[i].n = Received + i
      BY <1>3 DEF Numbered, Queued
    <2>1. Len(inputCh) \in Nat /\ sent \in Nat
      BY DEF TypeOK
    <2>2. CASE i = Len(inputCh) + 1
      BY <2>1, <2>2, <1>1, <1>2 DEF Received
    <2>3. CASE i # Len(inputCh) + 1
      BY <2>1, <2>3, <1>2 DEF Numbered, Queued
    <2> QED
      BY <2>2, <2>3
  <1>5. buffer' = buffer /\ taken' = taken
    BY DEF Send
  <1> QED
    BY <1>3, <1>4, <1>5 DEF Numbered, Buffers, Batches, Kept, Orderly

\* The oldest signal of the channel is newer than all that was received before it.
LEMMA NumberedHandle ==
  ASSUME TypeOK, Numbered, handleSignal
  PROVE  Numbered'
  <1> DEFINE sig == Head(inputCh)
             c   == sig.cid
             old == buffer[c]
             new == buffer'[c]
  <1>1. sig \in Signal /\ c \in Containers /\ sig = inputCh[1] /\ inputCh # << >>
    BY HeadType DEF handleSignal, TypeOK
  <1>2. Len(inputCh) \in Nat \ {0}
    BY <1>1 DEF TypeOK
  <1>3. sig.n = Received + 1
    BY <1>1, <1>2 DEF Numbered, Queued
  <1>4. /\ Len(inputCh') = Len(inputCh) - 1
        /\ \A i \in 1 .. Len(inputCh') : inputCh'[i] = inputCh[i + 1]
    BY <1>1, <1>2 DEF handleSignal, TypeOK
  <1>5. Received' = Received + 1 /\ Received \in Nat
    BY <1>2, <1>4 DEF Received, handleSignal, TypeOK, Numbered, Queued
  <1>6. Queued'
    <2> SUFFICES ASSUME NEW i \in 1 .. Len(inputCh')
                 PROVE  inputCh'[i].n = Received' + i
      BY <1>5 DEF Queued
    <2>1. i \in Nat /\ i + 1 \in 1 .. Len(inputCh) /\ inputCh'[i] = inputCh[i + 1]
      BY <1>2, <1>4
    <2>2. inputCh[i + 1].n = Received + (i + 1)
      BY <2>1 DEF Numbered, Queued
    <2> QED
      BY <1>5, <2>1, <2>2
  <1>7. old \in Seq(Signal) /\ new = Append(old, sig)
    BY <1>1 DEF TypeOK, Batch, handleSignal
  <1>8. /\ Len(new) = Len(old) + 1 /\ new[Len(old) + 1] = sig /\ Len(old) \in Nat
        /\ \A i \in 1 .. Len(old) : new[i] = old[i]
    BY <1>1, <1>7
  <1>9. \A d \in Containers : d # c => buffer'[d] = buffer[d]
    BY <1>1 DEF handleSignal, TypeOK
  <1>10. taken' = taken
    BY DEF handleSignal
  <1> HIDE DEF sig, c, old, new
  <1>11. \A d \in Containers, i \in Nat : i \in 1 .. Len(buffer[d]) => buffer[d][i].n \in Nat
    BY NumberTypes
  <1>12. \A b \in taken, i \in Nat : i \in 1 .. Len(b) => b[i].n \in Nat
    BY NumberTypes
  <1>13. Orderly(c, old)
    BY <1>1 DEF Numbered, Buffers, old
  <1>14. BatchOf(c, new)
    BY <1>8, <1>13 DEF BatchOf, Orderly, c
  <1>15. \A i \in 1 .. Len(new) : new[i].n \in Nat /\ new[i].n <= Received + 1
    BY <1>1, <1>3, <1>5, <1>8, <1>11, <1>13 DEF Orderly, old
  <1>16. Increasing(new)
    <2> SUFFICES ASSUME NEW i \in 1 .. Len(new), NEW j \in 1 .. Len(new), i < j
                 PROVE  new[i].n < new[j].n
      BY DEF Increasing
    <2>1. i \in 1 .. Len(old) /\ new[i] = old[i] /\ old[i].n \in Nat
      BY <1>1, <1>8, <1>11 DEF old
    <2>2. CASE j = Len(old) + 1
      BY <2>1, <2>2, <1>3, <1>5, <1>8, <1>13 DEF Orderly
    <2>3. CASE j # Len(old) + 1
      BY <2>1, <2>3, <1>8, <1>13 DEF Orderly, Increasing
    <2> QED
      BY <2>2, <2>3
  <1>17. \A d \in Containers : Orderly(d, buffer[d])'
    <2> SUFFICES ASSUME NEW d \in Containers
                 PROVE  /\ BatchOf(d, buffer'[d]) /\ Increasing(buffer'[d])
                        /\ \A i \in 1 .. Len(buffer'[d]) : buffer'[d][i].n <= Received + 1
      BY <1>5 DEF Orderly
    <2>1. CASE d = c
      BY <2>1, <1>14, <1>15, <1>16 DEF new
    <2>2. CASE d # c
      <3>1. Orderly(d, buffer[d]) /\ Len(buffer[d]) \in Nat
        BY DEF Numbered, Buffers, TypeOK, Batch
      <3> QED
        BY <2>2, <3>1, <1>5, <1>9, <1>11 DEF Orderly
    <2> QED
      BY <2>1, <2>2
  <1>18. \A d \in Containers : d # c => Apart(new, buffer[d]) /\ Apart(buffer[d], new)
    <2> SUFFICES ASSUME NEW d \in Containers, d # c
                 PROVE  Apart(new, buffer[d]) /\ Apart(buffer[d], new)
      OBVIOUS
    <2>1. Orderly(d, buffer[d]) /\ Apart(old, buffer[d]) /\ Len(buffer[d]) \in Nat
      BY <1>1 DEF Numbered, Buffers, old, TypeOK, Batch
    <2>2. ASSUME NEW i \in 1 .. Len(new), NEW j \in 1 .. Len(buffer[d])
          PROVE  new[i].n # buffer[d][j].n
      <3>1. buffer[d][j].n \in Nat /\ buffer[d][j].n <= Received
        BY <2>1, <1>11 DEF Orderly
      <3>2. CASE i = Len(old) + 1
        BY <3>1, <3>2, <1>3, <1>5, <1>8
      <3>3. CASE i # Len(old) + 1
        BY <3>3, <2>1, <1>8 DEF Apart
      <3> QED
        BY <3>2, <3>3
    <2> QED
      BY <2>2 DEF Apart
  <1>19. Buffers'
    BY <1>1, <1>9, <1>17, <1>18 DEF Numbered, Buffers, new
  <1>20. \A b \in taken :
           /\ Len(b) \in Nat /\ \A i \in 1 .. Len(b) : b[i].n <= Received
           /\ Apart(b, old) /\ (b[1].cid = c => Before(b, old))
    BY <1>1 DEF Numbered, Batches, Orderly, old, TypeOK, Batch
  <1>21. \A b \in taken : Apart(b, new) /\ (b[1].cid = c => Before(b, new))
    <2> SUFFICES ASSUME NEW b \in taken, NEW i \in 1 .. Len(b), NEW j \in 1 .. Len(new)
                 PROVE  b[i].n # new[j].n /\ (b[1].cid = c => b[i].n < new[j].n)
      BY DEF Apart, Before
    <2>1. b[i].n \in Nat /\ b[i].n <= Received
      BY <1>12, <1>20
    <2>2. CASE j = Len(old) + 1
      BY <2>1, <2>2, <1>3, <1>5, <1>8
    <2>3. CASE j # Len(old) + 1
      BY <2>3, <1>8, <1>20 DEF Apart, Before
    <2> QED
      BY <2>2, <2>3
  <1>22. \A b \in taken : Orderly(b[1].cid, b)'
    <2> SUFFICES ASSUME NEW b \in taken
                 PROVE  /\ BatchOf(b[1].cid, b) /\ Increasing(b)
                        /\ \A i \in 1 .. Len(b) : b[i].n <= Received + 1
      BY <1>5, <1>10 DEF Orderly
    <2>1. Orderly(b[1].cid, b)
      BY DEF Numbered, Batches
    <2> QED
      BY <2>1, <1>5, <1>12, <1>20 DEF Orderly
  <1>23. Batches'
    <2>1. \A b \in taken :
            /\ b # << >> /\ b[1].cid \in Containers
            /\ Before(b, buffer'[b[1].cid])
            /\ \A d \in Containers : Apart(b, buffer'[d])
      BY <1>9, <1>21 DEF Numbered, Batches, new
    <2> QED
      BY <2>1, <1>10, <1>22 DEF Numbered, Batches
  <1>24. Kept'
    <2> SUFFICES ASSUME NEW m \in 1 .. Received + 1
                 PROVE  \/ \E d \in Containers : Holds(buffer'[d], m)
                        \/ \E b \in taken : Holds(b, m)
      BY <1>5, <1>10 DEF Kept
    <2>1. CASE m = Received + 1
      BY <2>1, <1>1, <1>3, <1>8 DEF Holds, new
    <2>2. CASE m # Received + 1
      <3>1. m \in 1 .. Received
        BY <2>2, <1>5
      <3>2. Holds(old, m) => Holds(new, m)
        BY <1>8 DEF Holds
      <3> QED
        BY <3>1, <3>2, <1>1, <1>9 DEF Numbered, Kept, old, new
    <2> QED
      BY <2>1, <2>2
  <1> QED
    BY <1>6, <1>19, <1>23, <1>24 DEF Numbered

\* A batch inherits from its buffer that it is newer than the batches before it.
LEMMA NumberedTake ==
  ASSUME TypeOK, TimerCoversBuffer, Numbered, NEW c \in Containers, Take(c)
  PROVE  Numbered'
  <1> DEFINE new == buffer[c]
  <1>1. new # << >>
    BY DEF Take, TimerCoversBuffer
  <1>2. /\ taken' = taken \cup {new} /\ buffer'[c] = << >>
        /\ \A d \in Containers : d # c => buffer'[d] = buffer[d]
    BY <1>1 DEF Take, TypeOK
  <1>3. Received' = Received /\ Queued'
    BY DEF Take, Received, Numbered, Queued
  <1>4. new \in Seq(Signal) /\ Len(new) \in Nat \ {0}
    BY <1>1 DEF TypeOK, Batch
  <1>5. new[1].cid = c
    BY <1>4 DEF Numbered, Buffers, Orderly, BatchOf
  <1>6. \A d \in Containers : Orderly(d, buffer[d])'
    <2>1. Orderly(c, << >>)'
      BY DEF Orderly, BatchOf, Increasing
    <2>2. \A d \in Containers : d # c => Orderly(d, buffer[d])'
      BY <1>2, <1>3 DEF Numbered, Buffers, Orderly
    <2> QED
      BY <1>2, <2>1, <2>2 DEF Orderly
  <1>7. \A b : Apart(b, << >>) /\ Apart(<< >>, b) /\ Before(b, << >>)
    BY DEF Apart, Before
  <1>8. Buffers'
    BY <1>2, <1>6, <1>7 DEF Numbered, Buffers
  <1>9. \A d \in Containers : d # c => Apart(new, buffer[d])
    BY DEF Numbered, Buffers
  <1>10. \A b \in taken : Apart(b, new) /\ Apart(new, b)
                          /\ (b[1].cid = c => Before(b, new))
    BY DEF Numbered, Batches, Apart
  <1>11. \A b \in taken' :
           /\ b # << >> /\ b[1].cid \in Containers
           /\ Orderly(b[1].cid, b)'
           /\ Before(b, buffer'[b[1].cid])
           /\ \A d \in Containers : Apart(b, buffer'[d])
    <2> SUFFICES ASSUME NEW b \in taken'
                 PROVE  /\ b # << >> /\ b[1].cid \in Containers
                        /\ BatchOf(b[1].cid, b) /\ Increasing(b)
                        /\ \A i \in 1 .. Len(b) : b[i].n <= Received
                        /\ Before(b, buffer'[b[1].cid])
                        /\ \A d \in Containers : Apart(b, buffer'[d])
      BY <1>3 DEF Orderly
    <2>1. CASE b = new
      BY <2>1, <1>1, <1>2, <1>5, <1>7, <1>9 DEF Numbered, Buffers, Orderly
    <2>2. CASE b \in taken
      BY <2>2, <1>2, <1>7 DEF Numbered, Batches, Orderly
    <2> QED
      BY <1>2, <2>1, <2>2
  <1>12. Batches'
    BY <1>2, <1>5, <1>10, <1>11 DEF Numbered, Batches
  <1>13. Kept'
    BY <1>2, <1>3 DEF Numbered, Kept
  <1> QED
    BY <1>3, <1>8, <1>12, <1>13 DEF Numbered

\* Every step keeps the numbering.
LEMMA NumberedStep ==
  TypeOK /\ TimerCoversBuffer /\ Numbered /\ [Next]_vars => Numbered'
  <1> SUFFICES ASSUME TypeOK, TimerCoversBuffer, Numbered, [Next]_vars PROVE Numbered'
    OBVIOUS
  <1>1. CASE \E c \in Containers, s \in Kinds : Send(c, s)
    BY <1>1, NumberedSend
  <1>2. CASE handleSignal
    BY <1>2, NumberedHandle
  <1>3. CASE \E c \in Containers : Take(c)
    BY <1>3, NumberedTake
  <1>4. LoopExit \/ (\E c \in Containers : TimerFires(c)) \/ (\E f \in flushes : FlushStep(f))
        \/ Cancel \/ Exit \/ UNCHANGED vars
        => UNCHANGED <<inputCh, sent, buffer, taken>>
    BY DEF LoopExit, TimerFires, FlushStep, Evaluate, Dispatch, Done, Cancel, Exit, vars
  <1> QED
    BY <1>1, <1>2, <1>3, <1>4, NumberedFrame DEF Next

\* The numbering is an invariant: numbers grow from the batches over the buffers to the channel,
\* and none is missing.
THEOREM SignalsNumbered == Spec => []Numbered
  <1>1. TypeOK /\ TimerCoversBuffer /\ Numbered /\ [Next]_vars => Numbered'
    BY NumberedStep
  <1> QED
    BY <1>1, NumberedInit, TypeCorrect, EveryBufferHasATimer, PTL DEF Spec

\* Order, separation of containers and of batches, for every interleaving.
THEOREM SignalsStayInOrder == Spec => []InOrder
  <1>1. TypeOK /\ Numbered => InOrder
    <2> SUFFICES ASSUME TypeOK, Numbered PROVE InOrder
      OBVIOUS
    <2>1. Len(inputCh) \in Nat /\ Received \in Nat
      BY DEF TypeOK, Numbered, Queued
    <2>2. \A i \in 1 .. Len(inputCh) : inputCh[i].n = Received + i
      BY DEF Numbered, Queued
    <2>3. Increasing(inputCh)
      BY <2>1, <2>2 DEF Increasing
    <2>4. \A c \in Containers :
            BatchOf(c, buffer[c]) /\ Increasing(buffer[c]) /\ Before(buffer[c], inputCh)
      BY <2>1, <2>2, NumberTypes DEF Numbered, Buffers, Orderly, Before
    <2>5. \A b \in taken : Before(b, inputCh)
      BY <2>1, <2>2, NumberTypes DEF Numbered, Batches, Orderly, Before
    <2>6. \A b \in taken :
            /\ b[1].cid \in Containers /\ BatchOf(b[1].cid, b) /\ Increasing(b)
            /\ Before(b, buffer[b[1].cid])
      BY DEF Numbered, Batches, Orderly
    <2> QED
      BY <2>3, <2>4, <2>5, <2>6 DEF InOrder, Numbered, Batches
  <1> QED
    BY <1>1, TypeCorrect, SignalsNumbered, PTL

\* No signal that the channel accepted disappears before it is in a batch.
THEOREM NoSignalIsLost == Spec => []NothingLost
  <1>1. TypeOK /\ Numbered => NothingLost
    <2> SUFFICES ASSUME TypeOK, Numbered, NEW m \in 1 .. sent
                 PROVE  \/ Holds(inputCh, m)
                        \/ \E c \in Containers : Holds(buffer[c], m)
                        \/ \E b \in taken : Holds(b, m)
      BY DEF NothingLost
    <2>1. Len(inputCh) \in Nat /\ Received \in Nat /\ sent = Received + Len(inputCh)
      BY DEF TypeOK, Numbered, Queued, Received
    <2>2. CASE m <= Received
      BY <2>1, <2>2 DEF Numbered, Kept
    <2>3. CASE m > Received
      <3>1. m - Received \in 1 .. Len(inputCh)
        BY <2>1, <2>3
      <3>2. inputCh[m - Received].n = m
        BY <2>1, <3>1 DEF Numbered, Queued
      <3> QED
        BY <3>1, <3>2 DEF Holds
    <2> QED
      BY <2>1, <2>2, <2>3
  <1> QED
    BY <1>1, TypeCorrect, SignalsNumbered, PTL

-----------------------------------------------------------------------------
(* Incidents.                                                               *)

\* A batch has at most one flush, which has yet to reach the sinks that do not know it, and
\* a sink accepted it at most once.
Delivery ==
  /\ \A f \in flushes : f.batch \in taken
  /\ \A f, g \in flushes : f.batch = g.batch => f = g
  /\ \A i \in 1 .. Len(Sinks) : \A m \in 1 .. Len(delivered[i]) :
       /\ delivered[i][m].batch \in taken
       /\ \A f \in flushes : f.batch = delivered[i][m].batch => f.next > i
  /\ \A i \in 1 .. Len(Sinks) : \A x, y \in 1 .. Len(delivered[i]) :
       delivered[i][x].batch = delivered[i][y].batch => x = y

\* A sink that accepts an incident has it as the last of those it accepted, and keeps the others.
LEMMA SinkAccepts ==
  ASSUME TypeOK, NEW f \in flushes, Dispatch(f), NEW i \in 1 .. Len(Sinks)
  PROVE  /\ Len(delivered[i]) \in Nat
         /\ \/ delivered'[i] = delivered[i]
            \/ /\ i = f.next
               /\ Len(delivered'[i]) = Len(delivered[i]) + 1
               /\ delivered'[i][Len(delivered[i]) + 1].batch = f.batch
               /\ \A m \in 1 .. Len(delivered[i]) : delivered'[i][m] = delivered[i][m]
         /\ i = f.next /\ Sinks[i] \notin Failing =>
              Len(delivered'[i]) = Len(delivered[i]) + 1
  <1> DEFINE x   == [batch |-> f.batch, namespace |-> f.namespace]
             old == delivered[i]
  <1>1. f.next \in 1 .. Len(Sinks) /\ old \in Seq(Incident)
    BY DEF Dispatch, TypeOK
  <1>2. x \in Incident /\ x.batch = f.batch
    BY DEF TypeOK, Flush, Incident
  <1>3. /\ \/ delivered' = delivered
           \/ delivered' = [delivered EXCEPT ![f.next] = Append(@, x)]
        /\ Sinks[f.next] \notin Failing =>
             delivered' = [delivered EXCEPT ![f.next] = Append(@, x)]
    BY DEF Dispatch, Accepts
  <1>4. delivered' = [delivered EXCEPT ![f.next] = Append(@, x)] =>
          delivered'[i] = IF i = f.next THEN Append(old, x) ELSE old
    <2> HIDE DEF x
    <2> QED
      BY <1>1 DEF TypeOK
  <1> HIDE DEF x, old
  <1>5. /\ Len(old) \in Nat /\ Len(Append(old, x)) = Len(old) + 1
        /\ Append(old, x)[Len(old) + 1] = x
        /\ \A m \in 1 .. Len(old) : Append(old, x)[m] = old[m]
    BY <1>1, <1>2, AppendProperties, LenProperties
  <1> QED
    BY <1>2, <1>3, <1>4, <1>5 DEF old

\* A batch that was just taken has reached no sink.
LEMMA DeliveryTake ==
  ASSUME TypeOK, TimerCoversBuffer, Numbered, Delivery, NEW c \in Containers, Take(c)
  PROVE  Delivery'
  <1> DEFINE new == buffer[c]
  <1>1. new # << >> /\ Len(new) \in Nat \ {0}
    BY DEF Take, TimerCoversBuffer, TypeOK, Batch
  <1>2. new \notin taken
    BY <1>1 DEF Numbered, Batches, Apart
  <1>3. /\ taken' = taken \cup {new} /\ flushes' = flushes \cup {NewFlush(c)}
        /\ delivered' = delivered
    BY <1>1 DEF Take
  <1>4. NewFlush(c).batch = new
    BY DEF NewFlush
  <1> HIDE DEF new
  <1> QED
    BY <1>2, <1>3, <1>4 DEF Delivery

\* Evaluate reaches no sink.
LEMMA DeliveryEvaluate ==
  ASSUME TypeOK, Delivery, NEW f \in flushes, Evaluate(f)
  PROVE  Delivery'
  <1>1. taken' = taken /\ delivered' = delivered /\ f.next = 0
    BY DEF Evaluate
  <1>2. CASE flushes' = flushes \ {f}
    BY <1>1, <1>2 DEF Delivery
  <1>3. CASE \E ns \in Namespaces : Becomes(f, [f EXCEPT !.namespace = ns, !.next = 1])
    <2>1. PICK ns \in Namespaces : Becomes(f, [f EXCEPT !.namespace = ns, !.next = 1])
      BY <1>3
    <2> DEFINE g == [f EXCEPT !.namespace = ns, !.next = 1]
    <2>2. flushes' = (flushes \ {f}) \cup {g}
      BY <2>1 DEF Becomes
    <2>3. g.batch = f.batch
      BY DEF TypeOK, Flush
    <2>4. \A i \in 1 .. Len(Sinks) : \A m \in 1 .. Len(delivered[i]) :
            delivered[i][m].batch # f.batch
      BY <1>1 DEF Delivery
    <2> HIDE DEF g
    <2> QED
      BY <1>1, <2>2, <2>3, <2>4 DEF Delivery
  <1> QED
    BY <1>2, <1>3 DEF Evaluate

\* Dispatch moves a flush past the sink it has reached.
LEMMA DeliveryDispatch ==
  ASSUME TypeOK, Delivery, NEW f \in flushes, Dispatch(f)
  PROVE  Delivery'
  <1> DEFINE g == [f EXCEPT !.next = @ + 1]
  <1>1. f \in Flush /\ f.next \in Nat /\ f.next \in 1 .. Len(Sinks)
    BY DEF Dispatch, TypeOK, Flush
  <1>2. g.batch = f.batch /\ g.next = f.next + 1
    BY <1>1 DEF Flush
  <1>3. taken' = taken /\ flushes' = (flushes \ {f}) \cup {g}
    BY DEF Dispatch, Becomes
  <1> HIDE DEF g
  <1>4. \A h \in flushes' : h.batch \in taken
    BY <1>2, <1>3 DEF Delivery
  <1>5. \A h, k \in flushes' : h.batch = k.batch => h = k
    BY <1>2, <1>3 DEF Delivery
  <1>6. \A h \in flushes' : h.batch = f.batch => h = g
    BY <1>2, <1>3 DEF Delivery
  <1>7. ASSUME NEW i \in 1 .. Len(Sinks), NEW m \in 1 .. Len(delivered[i])
        PROVE  /\ delivered[i][m].batch \in taken
               /\ \A h \in flushes' : h.batch = delivered[i][m].batch => h.next > i
               /\ i = f.next => delivered[i][m].batch # f.batch
    BY <1>1, <1>2, <1>3 DEF Delivery
  <1>8. ASSUME NEW i \in 1 .. Len(Sinks)
        PROVE  /\ \A m \in 1 .. Len(delivered'[i]) :
                    /\ delivered'[i][m].batch \in taken
                    /\ \A h \in flushes' : h.batch = delivered'[i][m].batch => h.next > i
               /\ \A x, y \in 1 .. Len(delivered'[i]) :
                    delivered'[i][x].batch = delivered'[i][y].batch => x = y
    <2>1. CASE delivered'[i] = delivered[i]
      BY <2>1, <1>7 DEF Delivery
    <2>2. CASE delivered'[i] # delivered[i]
      <3> DEFINE last == Len(delivered[i]) + 1
      <3>1. /\ i = f.next /\ last \in Nat
            /\ Len(delivered'[i]) = last /\ delivered'[i][last].batch = f.batch
            /\ \A m \in 1 .. Len(delivered'[i]) : m # last =>
                 m \in 1 .. Len(delivered[i]) /\ delivered'[i][m] = delivered[i][m]
        BY <2>2, SinkAccepts
      <3> HIDE DEF last
      <3>2. f.batch \in taken /\ \A h \in flushes' : h.batch = f.batch => h.next > i
        BY <1>1, <1>2, <1>6, <3>1 DEF Delivery
      <3>3. \A m \in 1 .. Len(delivered'[i]) :
              /\ delivered'[i][m].batch \in taken
              /\ \A h \in flushes' : h.batch = delivered'[i][m].batch => h.next > i
        BY <1>7, <3>1, <3>2
      <3>4. \A m \in 1 .. Len(delivered'[i]) : m # last => delivered'[i][m].batch # f.batch
        BY <1>7, <3>1
      <3>5. \A x, y \in 1 .. Len(delivered'[i]) :
              delivered'[i][x].batch = delivered'[i][y].batch => x = y
        <4> SUFFICES ASSUME NEW x \in 1 .. Len(delivered'[i]), NEW y \in 1 .. Len(delivered'[i]),
                            delivered'[i][x].batch = delivered'[i][y].batch
                     PROVE  x = y
          OBVIOUS
        <4>1. CASE x # last /\ y # last
          <5>1. /\ x \in 1 .. Len(delivered[i]) /\ y \in 1 .. Len(delivered[i])
                /\ delivered[i][x].batch = delivered[i][y].batch
            BY <3>1, <4>1
          <5> QED
            BY <5>1 DEF Delivery
        <4>2. CASE x = last \/ y = last
          BY <3>1, <3>4, <4>2
        <4> QED
          BY <4>1, <4>2
      <3> QED
        BY <3>3, <3>5
    <2> QED
      BY <2>1, <2>2
  <1> QED
    BY <1>3, <1>4, <1>5, <1>8 DEF Delivery

\* Every step keeps a batch with one flush, and ahead of the sinks that flush has yet to call.
LEMMA DeliveryStep ==
  TypeOK /\ TimerCoversBuffer /\ Numbered /\ Delivery /\ [Next]_vars => Delivery'
  <1> SUFFICES ASSUME TypeOK, TimerCoversBuffer, Numbered, Delivery, [Next]_vars
               PROVE  Delivery'
    OBVIOUS
  <1>1. CASE \E c \in Containers : Take(c)
    BY <1>1, DeliveryTake
  <1>2. CASE \E f \in flushes : Evaluate(f)
    BY <1>2, DeliveryEvaluate
  <1>3. CASE \E f \in flushes : Dispatch(f)
    BY <1>3, DeliveryDispatch
  <1>4. CASE \E f \in flushes : Done(f)
    BY <1>4 DEF Done, Delivery
  <1>5. CASE UNCHANGED <<flushes, delivered, taken>>
    BY <1>5 DEF Delivery
  <1>6. (\E c \in Containers, s \in Kinds : Send(c, s)) \/ handleSignal \/ LoopExit
        \/ (\E c \in Containers : TimerFires(c)) \/ Cancel \/ Exit \/ UNCHANGED vars
        => UNCHANGED <<flushes, delivered, taken>>
    BY DEF Send, handleSignal, LoopExit, TimerFires, Cancel, Exit, vars
  <1> QED
    BY <1>1, <1>2, <1>3, <1>4, <1>5, <1>6 DEF Next, FlushStep

\* However the flushes interleave, a sink never accepts one signal twice, in two incidents or in
\* one that is sent again.
THEOREM SinksHearOnce == Spec => []OneIncidentPerSignal
  <1>1. Init => Delivery
    BY DEF Init, Delivery
  <1>2. TypeOK /\ TimerCoversBuffer /\ Numbered /\ Delivery /\ [Next]_vars => Delivery'
    BY DeliveryStep
  <1>3. Numbered /\ Delivery => OneIncidentPerSignal
    <2> SUFFICES ASSUME Numbered, Delivery, NEW i \in 1 .. Len(Sinks),
                        NEW x \in 1 .. Len(delivered[i]), NEW y \in 1 .. Len(delivered[i]),
                        x # y
                 PROVE  Apart(delivered[i][x].batch, delivered[i][y].batch)
      BY DEF OneIncidentPerSignal, Apart, Holds
    <2>1. /\ delivered[i][x].batch \in taken /\ delivered[i][y].batch \in taken
          /\ delivered[i][x].batch # delivered[i][y].batch
      BY DEF Delivery
    <2> QED
      BY <2>1 DEF Numbered, Batches
  <1> QED
    BY <1>1, <1>2, <1>3, TypeCorrect, EveryBufferHasATimer, SignalsNumbered, PTL DEF Spec

-----------------------------------------------------------------------------
(* Chains are reported. *)

\* Signals as the detectors make them: a chain has the score that main gives it.
Graded == {x \in Signal : x.source = "fsm" => x.score = 90}

\* No signal changes on its way.
Genuine ==
  /\ inputCh \in Seq(Graded)
  /\ \A c \in Containers : buffer[c] \in Seq(Graded)
  /\ taken \subseteq Seq(Graded)

\* A batch with a chain has a flush ahead of each sink that works, or the sink knows it.
Reported ==
  \A b \in taken : HasChain(b) =>
    \A i \in 1 .. Len(Sinks) : Sinks[i] \notin Failing =>
      \/ \E f \in flushes : f.batch = b /\ f.next <= i
      \/ \E m \in 1 .. Len(delivered[i]) : delivered[i][m].batch = b

\* The risk of a batch with a chain, for every answer of the resolver.
LEMMA ChainScore ==
  ASSUME NEW x, x.batch \in Seq(Graded), HasChain(x.batch)
  PROVE  ~Suppressed(Score(x)) /\ determineSeverity(Score(x)) = "CRITICAL"
  <1>1. Scored(Graded) /\ \A y \in Graded : y.source = "fsm" => y.score = 90
    BY DEF Graded, Signal, Scored
  <1>2. Tally(x.batch) \in Account /\ Tally(x.batch).total >= 180
    BY <1>1, TallyType, ChainWorth DEF HasChain
  <1> QED
    BY <1>2, ChainRisk DEF Score

\* Every step passes signals on as they are.
LEMMA GenuineStep == TypeOK /\ Genuine /\ [Next]_vars => Genuine'
  <1> SUFFICES ASSUME TypeOK, Genuine, [Next]_vars PROVE Genuine'
    OBVIOUS
  <1>1. ASSUME NEW c \in Containers, NEW s \in Kinds, Send(c, s) PROVE Genuine'
    <2> DEFINE x == [cid |-> c, source |-> s.source, score |-> s.score, n |-> sent + 1]
    <2>1. x \in Signal
      BY SentType DEF TypeOK
    <2>2. x.source = "fsm" => x.score = 90
      BY DecisionAssumption DEF DecisionAssumption
    <2>3. x \in Graded /\ inputCh' = Append(inputCh, x) /\ buffer' = buffer /\ taken' = taken
      BY <1>1, <2>1, <2>2 DEF Graded, Send
    <2> HIDE DEF x
    <2> QED
      BY <2>3, AppendProperties DEF Genuine
  <1>2. CASE handleSignal
    <2> DEFINE sig == Head(inputCh)
    <2>1. sig \in Graded /\ Tail(inputCh) \in Seq(Graded) /\ sig.cid \in Containers
      BY <1>2, HeadType, HeadTailProperties DEF handleSignal, Genuine
    <2>2. /\ inputCh' = Tail(inputCh) /\ taken' = taken
          /\ \A d \in Containers :
               buffer'[d] = IF d = sig.cid THEN Append(buffer[d], sig) ELSE buffer[d]
      BY <1>2, <2>1 DEF handleSignal, TypeOK
    <2> HIDE DEF sig
    <2>3. ASSUME NEW d \in Containers PROVE buffer'[d] \in Seq(Graded)
      <3>1. buffer[d] \in Seq(Graded)
        BY DEF Genuine
      <3>2. Append(buffer[d], sig) \in Seq(Graded)
        BY <2>1, <3>1, AppendProperties
      <3> QED
        BY <2>2, <3>1, <3>2
    <2> QED
      BY <2>1, <2>2, <2>3 DEF Genuine
  <1>3. ASSUME NEW c \in Containers, Take(c) PROVE Genuine'
    <2>1. /\ inputCh' = inputCh /\ taken' \in {taken, taken \cup {buffer[c]}}
          /\ \A d \in Containers : buffer'[d] \in {buffer[d], << >>}
      BY <1>3 DEF Take, TypeOK
    <2> QED
      BY <2>1, EmptySeq DEF Genuine
  <1>4. CASE UNCHANGED <<inputCh, buffer, taken>>
    BY <1>4 DEF Genuine
  <1>5. LoopExit \/ (\E c \in Containers : TimerFires(c)) \/ (\E f \in flushes : FlushStep(f))
        \/ Cancel \/ Exit \/ UNCHANGED vars
        => UNCHANGED <<inputCh, buffer, taken>>
    BY DEF LoopExit, TimerFires, FlushStep, Evaluate, Dispatch, Done, Cancel, Exit, vars
  <1> QED
    BY <1>1, <1>2, <1>3, <1>4, <1>5 DEF Next

\* A batch that was just taken has its flush at the start.
LEMMA ReportedTake ==
  ASSUME Reported, NEW c \in Containers, Take(c)
  PROVE  Reported'
  <1>1. /\ flushes \subseteq flushes' /\ delivered' = delivered
        /\ \A b \in taken' : b \in taken \/ (b = buffer[c] /\ NewFlush(c) \in flushes')
    BY DEF Take
  <1>2. NewFlush(c).batch = buffer[c] /\ NewFlush(c).next = 0
    BY DEF NewFlush
  <1>3. \A i \in 1 .. Len(Sinks) : 0 <= i
    OBVIOUS
  <1> QED
    BY <1>1, <1>2, <1>3 DEF Reported

\* The judge does not suppress a chain.
LEMMA ReportedEvaluate ==
  ASSUME TypeOK, Genuine, Delivery, Reported, NEW f \in flushes, Evaluate(f)
  PROVE  Reported'
  <1>1. PICK ns \in Namespaces :
          LET g == [f EXCEPT !.namespace = ns, !.next = 1] IN
          IF Suppressed(Score(g)) THEN flushes' = flushes \ {f} ELSE Becomes(f, g)
    BY DEF Evaluate
  <1> DEFINE g == [f EXCEPT !.namespace = ns, !.next = 1]
  <1>2. g.batch = f.batch /\ g.next = 1
    BY DEF TypeOK, Flush
  <1>3. f.batch \in Seq(Graded) /\ taken' = taken /\ delivered' = delivered
    BY DEF Genuine, Delivery, Evaluate
  <1>4. HasChain(f.batch) => flushes' = (flushes \ {f}) \cup {g}
    <2>1. HasChain(f.batch) => ~Suppressed(Score(g))
      <3> HIDE DEF g
      <3> QED
        BY <1>2, <1>3, ChainScore
    <2> QED
      BY <1>1, <2>1 DEF Becomes
  <1>5. \A h \in flushes : h # f => h \in flushes'
    BY <1>1 DEF Becomes
  <1> HIDE DEF g
  <1>6. ASSUME NEW b \in taken, HasChain(b), NEW i \in 1 .. Len(Sinks), NEW h \in flushes,
               h.batch = b, h.next <= i
        PROVE  \E k \in flushes' : k.batch = b /\ k.next <= i
    <2>1. CASE h = f
      <3>1. g \in flushes' /\ g.batch = b /\ g.next <= i
        BY <1>2, <1>4, <1>6, <2>1
      <3> QED
        BY <3>1
    <2>2. CASE h # f
      BY <1>5, <1>6, <2>2
    <2> QED
      BY <2>1, <2>2
  <1> QED
    BY <1>3, <1>6 DEF Reported

\* A sink that works accepts the incident, and the flush goes on to the next one after a sink
\* that fails.
LEMMA ReportedDispatch ==
  ASSUME TypeOK, Reported, NEW f \in flushes, Dispatch(f)
  PROVE  Reported'
  <1> DEFINE g == [f EXCEPT !.next = @ + 1]
  <1>1. f.next \in 1 .. Len(Sinks) /\ f.next \in Nat /\ Len(Sinks) \in Nat
    BY DecisionAssumption DEF Dispatch, TypeOK, Flush, DecisionAssumption
  <1>2. g.batch = f.batch /\ g.next = f.next + 1
    BY DEF TypeOK, Flush
  <1>3. taken' = taken /\ flushes' = (flushes \ {f}) \cup {g}
    BY DEF Dispatch, Becomes
  <1> HIDE DEF g
  <1>4. ASSUME NEW i \in 1 .. Len(Sinks)
        PROVE  /\ \A m \in 1 .. Len(delivered[i]) :
                    m \in 1 .. Len(delivered'[i]) /\ delivered'[i][m] = delivered[i][m]
               /\ i = f.next /\ Sinks[i] \notin Failing =>
                    \E m \in 1 .. Len(delivered'[i]) : delivered'[i][m].batch = f.batch
    <2>1. CASE delivered'[i] = delivered[i]
      BY <2>1, SinkAccepts
    <2>2. CASE delivered'[i] # delivered[i]
      <3> DEFINE last == Len(delivered[i]) + 1
      <3>1. /\ last \in 1 .. Len(delivered'[i]) /\ delivered'[i][last].batch = f.batch
            /\ \A m \in 1 .. Len(delivered[i]) :
                 m \in 1 .. Len(delivered'[i]) /\ delivered'[i][m] = delivered[i][m]
        BY <2>2, SinkAccepts
      <3> QED
        BY <3>1
    <2> QED
      BY <2>1, <2>2
  <1>5. ASSUME NEW i \in 1 .. Len(Sinks), Sinks[i] \notin Failing, NEW h \in flushes, h.next <= i
        PROVE  \/ \E k \in flushes' : k.batch = h.batch /\ k.next <= i
               \/ \E m \in 1 .. Len(delivered'[i]) : delivered'[i][m].batch = h.batch
    <2>1. CASE h # f
      BY <1>3, <1>5, <2>1
    <2>2. CASE h = f /\ f.next = i
      BY <1>4, <1>5, <2>2
    <2>3. CASE h = f /\ f.next # i
      <3>1. g.next <= i
        BY <1>1, <1>2, <1>5, <2>3
      <3> QED
        BY <1>2, <1>3, <2>3, <3>1
    <2> QED
      BY <2>1, <2>2, <2>3
  <1> QED
    BY <1>3, <1>4, <1>5 DEF Reported

\* Every step keeps a chain on its way to each sink that works.
LEMMA ReportedStep == TypeOK /\ Genuine /\ Delivery /\ Reported /\ [Next]_vars => Reported'
  <1> SUFFICES ASSUME TypeOK, Genuine, Delivery, Reported, [Next]_vars PROVE Reported'
    OBVIOUS
  <1>1. CASE \E c \in Containers : Take(c)
    BY <1>1, ReportedTake
  <1>2. CASE \E f \in flushes : Evaluate(f)
    BY <1>2, ReportedEvaluate
  <1>3. CASE \E f \in flushes : Dispatch(f)
    BY <1>3, ReportedDispatch
  <1>4. ASSUME NEW f \in flushes, Done(f) PROVE Reported'
    <2>1. \A i \in 1 .. Len(Sinks) : ~(f.next <= i)
      BY <1>4, DecisionAssumption DEF Done, TypeOK, Flush, DecisionAssumption
    <2>2. flushes' = flushes \ {f} /\ taken' = taken /\ delivered' = delivered
      BY <1>4 DEF Done
    <2> QED
      BY <2>1, <2>2 DEF Reported
  <1>5. CASE UNCHANGED <<flushes, delivered, taken>>
    BY <1>5 DEF Reported
  <1>6. (\E c \in Containers, s \in Kinds : Send(c, s)) \/ handleSignal \/ LoopExit
        \/ (\E c \in Containers : TimerFires(c)) \/ Cancel \/ Exit \/ UNCHANGED vars
        => UNCHANGED <<flushes, delivered, taken>>
    BY DEF Send, handleSignal, LoopExit, TimerFires, Cancel, Exit, vars
  <1> QED
    BY <1>1, <1>2, <1>3, <1>4, <1>5, <1>6 DEF Next, FlushStep

\* A completed chain is never suppressed and never stops at a sink that fails: when its flush
\* is over every other sink has it as CRITICAL, for every namespace the resolver can answer.
THEOREM ChainsAreReported == Spec => []ChainReported
  <1>1. Init => Delivery /\ Genuine /\ Reported
    BY EmptySeq DEF Init, Delivery, Genuine, Reported
  <1>2. TypeOK /\ Genuine /\ Delivery /\ Reported => ChainReported
    <2> SUFFICES ASSUME Genuine, Delivery, Reported,
                        NEW b \in taken, HasChain(b), ~UnderWay(b),
                        NEW i \in 1 .. Len(Sinks), Sinks[i] \notin Failing
                 PROVE  \E m \in 1 .. Len(delivered[i]) :
                          /\ delivered[i][m].batch = b
                          /\ determineSeverity(Score(delivered[i][m])) = "CRITICAL"
      BY DEF ChainReported
    <2>1. PICK m \in 1 .. Len(delivered[i]) : delivered[i][m].batch = b
      BY DEF Reported, UnderWay
    <2>2. determineSeverity(Score(delivered[i][m])) = "CRITICAL"
      BY <2>1, ChainScore DEF Genuine
    <2> QED
      BY <2>1, <2>2
  <1> QED
    BY <1>1, <1>2, DeliveryStep, GenuineStep, ReportedStep, TypeCorrect, EveryBufferHasATimer,
       SignalsNumbered, PTL DEF Spec

-----------------------------------------------------------------------------
(* The engine implements the aggregator. *)

Queues == [c \in Containers |-> Pending(c)]

\* What is pending is a sequence of signals.
LEMMA PendingType ==
  ASSUME TypeOK, NEW c \in Containers
  PROVE  /\ buffer[c] \in Seq(Signal) /\ Chosen(inputCh, SignalsOf(c)) \in Seq(Signal)
         /\ Pending(c) \in Seq(Signal)
  <1>1. buffer[c] \in Seq(Signal) /\ inputCh \in Seq(Signal)
    BY DEF TypeOK, Batch
  <1>2. Chosen(inputCh, SignalsOf(c)) \in Seq(Signal)
    BY <1>1, ChosenType
  <1> QED
    BY <1>1, <1>2, ConcatProperties DEF Pending

\* Send appends to the queue of its container.
LEMMA SendArrives ==
  ASSUME TypeOK, NEW c \in Containers, NEW s \in Kinds, Send(c, s)
  PROVE  Aggregation!Arrive(c, s)
  <1> DEFINE x == [cid |-> c, source |-> s.source, score |-> s.score, n |-> sent + 1]
  <1>1. x \in Signal /\ x.cid = c /\ inputCh \in Seq(Signal)
    BY SentType DEF TypeOK
  <1>2. inputCh' = Append(inputCh, x) /\ buffer' = buffer /\ taken' = taken /\ sent' = sent + 1
    BY DEF Send
  <1>3. \A d \in Containers : x \in SignalsOf(d) <=> d = c
    BY <1>1 DEF SignalsOf, Signal
  <1> HIDE DEF x
  <1>4. ASSUME NEW d \in Containers
        PROVE  Pending(d)' = IF d = c THEN Append(Pending(d), x) ELSE Pending(d)
    <2> DEFINE T == SignalsOf(d)
               new == Append(inputCh, x)
    <2>1. Chosen(new, T) = IF x \in T THEN Append(Chosen(inputCh, T), x) ELSE Chosen(inputCh, T)
      <3> HIDE DEF T
      <3> QED
        BY <1>1, ChosenAppend
    <2>2. Pending(d)' = buffer[d] \o Chosen(new, T)
      BY <1>2 DEF Pending, SignalsOf
    <2>3. buffer[d] \o Append(Chosen(inputCh, T), x) = Append(buffer[d] \o Chosen(inputCh, T), x)
      <3>1. buffer[d] \in Seq(Signal) /\ Chosen(inputCh, T) \in Seq(Signal)
        BY PendingType
      <3> DEFINE front == buffer[d]
                 back == Chosen(inputCh, T)
      <3>2. front \in Seq(Signal) /\ back \in Seq(Signal) /\ x \in Signal
        BY <1>1, <3>1
      <3> HIDE DEF T, front, back
      <3>3. front \o Append(back, x) = Append(front \o back, x)
        BY <3>2, ConcatAppend
      <3> QED
        BY <3>3 DEF front, back
    <2> QED
      BY <1>3, <2>1, <2>2, <2>3 DEF Pending
  <1>5. Queues' = [Queues EXCEPT ![c] = Append(@, x)]
    BY <1>4 DEF Queues
  <1> QED
    BY <1>2, <1>5 DEF x, Aggregation!Arrive, Queues

\* handleSignal moves a signal from the back part of its queue to the front part.
LEMMA handleSignalStutters ==
  ASSUME TypeOK, handleSignal
  PROVE  Queues' = Queues /\ sent' = sent /\ taken' = taken
  <1> DEFINE sig == Head(inputCh)
             rest == Tail(inputCh)
  <1>1. sig \in Signal /\ rest \in Seq(Signal) /\ sig.cid \in Containers
    BY HeadType DEF handleSignal
  <1>2. inputCh = <<sig>> \o rest
    BY HeadTailProperties DEF handleSignal, TypeOK
  <1>3. /\ inputCh' = rest /\ taken' = taken /\ sent' = sent
        /\ \A d \in Containers :
             buffer'[d] = IF d = sig.cid THEN Append(buffer[d], sig) ELSE buffer[d]
    BY <1>1 DEF handleSignal, TypeOK
  <1>4. \A d \in Containers : sig \in SignalsOf(d) <=> d = sig.cid
    BY <1>1 DEF SignalsOf, Signal
  <1> HIDE DEF sig, rest
  <1>5. ASSUME NEW d \in Containers PROVE Pending(d)' = Pending(d)
    <2> DEFINE T == SignalsOf(d)
               b == buffer[d]
               r == Chosen(rest, T)
    <2>1. Pending(d)' = buffer'[d] \o r
      BY <1>3 DEF Pending, SignalsOf
    <2>2. b \in Seq(Signal) /\ r \in Seq(Signal) /\ <<sig>> \in Seq(Signal) /\ << >> \in Seq(Signal)
      <3>1. r \in Seq(Signal)
        BY <1>1, ChosenType
      <3> QED
        BY <1>1, <3>1, PendingType, EmptySeq, ConcatAppend
    <2>3. Chosen(<<sig>>, T) = IF sig \in T THEN <<sig>> ELSE << >>
      <3> HIDE DEF T
      <3>1. Append(<< >>, sig) = <<sig>>
        BY <1>1, <2>2, ConcatAppend, ConcatEmptySeq
      <3>2. Chosen(Append(<< >>, sig), T)
              = IF sig \in T THEN Append(Chosen(<< >>, T), sig) ELSE Chosen(<< >>, T)
        BY <1>1, <2>2, ChosenAppend
      <3> QED
        BY <3>1, <3>2, ChosenEmpty
    <2>4. Chosen(inputCh, T) = Chosen(<<sig>>, T) \o r
      <3> HIDE DEF T, r
      <3> DEFINE one == <<sig>>
      <3>1. one \in Seq(Signal) /\ rest \in Seq(Signal)
        BY <1>1, <2>2
      <3> HIDE DEF one
      <3>2. Chosen(one \o rest, T) = Chosen(one, T) \o Chosen(rest, T)
        BY <3>1, ChosenConcat
      <3> QED
        BY <1>2, <3>2 DEF r, one
    <2>5. Pending(d) = b \o Chosen(inputCh, T)
      BY DEF Pending
    <2> HIDE DEF T, b, r
    <2>6. CASE d = sig.cid
      <3>1. Chosen(inputCh, T) = <<sig>> \o r
        BY <1>4, <2>3, <2>4, <2>6 DEF T
      <3>2. b \o (<<sig>> \o r) = (b \o <<sig>>) \o r
        BY <2>2, ConcatAssociative
      <3>3. Append(b, sig) = b \o <<sig>>
        BY <1>1, <2>2, AppendIsConcat
      <3> QED
        BY <1>3, <2>1, <2>5, <2>6, <3>1, <3>2, <3>3 DEF b
    <2>7. CASE d # sig.cid
      <3>1. Chosen(inputCh, T) = << >> \o r
        BY <1>4, <2>3, <2>4, <2>7 DEF T
      <3>2. << >> \o r = r
        BY <2>2, ConcatEmptySeq
      <3> QED
        BY <1>3, <2>1, <2>5, <2>7, <3>1, <3>2 DEF b
    <2> QED
      BY <2>6, <2>7
  <1> QED
    BY <1>3, <1>5 DEF Queues

\* The first part of a concatenation is cut off where it ends.
LEMMA CutConcat ==
  ASSUME NEW S, NEW s \in Seq(S), NEW t \in Seq(S), s # << >>
  PROVE  /\ Len(s) \in 1 .. Len(s \o t)
         /\ SubSeq(s \o t, 1, Len(s)) = s
         /\ SubSeq(s \o t, Len(s) + 1, Len(s \o t)) = t
  <1>1. Len(s) \in Nat /\ Len(s) # 0 /\ Len(t) \in Nat /\ Len(s \o t) = Len(s) + Len(t)
    BY EmptySeq, LenProperties, ConcatProperties
  <1>2. SubSeq(s \o t, 1, Len(s)) = s
    <2>1. SubSeq(s \o t, 1, Len(s)) = SubSeq(s, 1, Len(s))
      BY <1>1, SubSeqOfConcat1
    <2> QED
      BY <2>1, SubSeqFull
  <1>3. SubSeq(s \o t, Len(s) + 1, Len(s) + Len(t)) = t
    <2>1. CASE t = << >>
      BY <1>1, <2>1, EmptySeq, SubSeqEmpty
    <2>2. CASE t # << >>
      <3>1. Len(t) # 0
        BY <2>2, EmptySeq
      <3>2. SubSeq(s \o t, Len(s) + 1, Len(s) + Len(t))
              = SubSeq(t, (Len(s) + 1) - Len(s), (Len(s) + Len(t)) - Len(s))
        BY <1>1, <3>1, SubSeqOfConcat2
      <3>3. (Len(s) + 1) - Len(s) = 1 /\ (Len(s) + Len(t)) - Len(s) = Len(t)
        BY <1>1
      <3> QED
        BY <3>2, <3>3, SubSeqFull
    <2> QED
      BY <2>1, <2>2
  <1> QED
    BY <1>1, <1>2, <1>3

\* Take cuts the queue where its buffer ends.
LEMMA TakeCuts ==
  ASSUME TypeOK, TimerCoversBuffer, NEW c \in Containers, Take(c)
  PROVE  \E i \in 1 .. Len(Queues[c]) : Aggregation!Cut(c, i)
  <1> DEFINE b == buffer[c]
             r == Chosen(inputCh, SignalsOf(c))
  <1>1. b # << >>
    BY DEF Take, TimerCoversBuffer
  <1>2. /\ taken' = taken \cup {b} /\ sent' = sent /\ inputCh' = inputCh
        /\ \A d \in Containers : buffer'[d] = IF d = c THEN << >> ELSE buffer[d]
    BY <1>1 DEF Take, TypeOK
  <1>3. b \in Seq(Signal) /\ r \in Seq(Signal) /\ Queues[c] = b \o r
    BY PendingType DEF Queues, Pending
  <1>4. \A d \in Containers : Pending(d)' = IF d = c THEN << >> \o r ELSE Pending(d)
    BY <1>2 DEF Pending, SignalsOf
  <1>5. << >> \o r = r
    BY <1>3, ConcatEmptySeq
  <1> HIDE DEF b, r
  <1>6. PICK i : i = Len(b)
    OBVIOUS
  <1>7. i \in 1 .. Len(Queues[c]) /\ SubSeq(Queues[c], 1, i) = b
        /\ SubSeq(Queues[c], i + 1, Len(Queues[c])) = r
    BY <1>1, <1>3, <1>6, CutConcat
  <1>8. Queues' = [Queues EXCEPT ![c] = r]
    BY <1>4, <1>5 DEF Queues
  <1>9. Aggregation!Cut(c, i)
    BY <1>2, <1>7, <1>8 DEF Aggregation!Cut, Queues
  <1> QED
    BY <1>7, <1>9

\* Every step is a step of the aggregator or changes nothing it knows of.
LEMMA AggregationStep ==
  TypeOK /\ TimerCoversBuffer /\ [Next]_vars => [Aggregation!Next]_(Aggregation!vars)
  <1> SUFFICES ASSUME TypeOK, TimerCoversBuffer, [Next]_vars
               PROVE  [Aggregation!Next]_(Aggregation!vars)
    OBVIOUS
  <1>1. ASSUME NEW c \in Containers, NEW s \in Kinds, Send(c, s) PROVE Aggregation!Next
    BY <1>1, SendArrives DEF Aggregation!Next
  <1>2. ASSUME NEW c \in Containers, Take(c) PROVE Aggregation!Next
    BY <1>2, TakeCuts DEF Aggregation!Next, Queues
  <1>3. CASE handleSignal
    BY <1>3, handleSignalStutters DEF Aggregation!vars, Queues
  <1>4. CASE UNCHANGED <<inputCh, sent, buffer, taken>>
    BY <1>4 DEF Aggregation!vars, Pending, SignalsOf
  <1>5. LoopExit \/ (\E c \in Containers : TimerFires(c)) \/ (\E f \in flushes : FlushStep(f))
        \/ Cancel \/ Exit \/ UNCHANGED vars
        => UNCHANGED <<inputCh, sent, buffer, taken>>
    BY DEF LoopExit, TimerFires, FlushStep, Evaluate, Dispatch, Done, Cancel, Exit, vars
  <1> QED
    BY <1>1, <1>2, <1>3, <1>4, <1>5 DEF Next

\* From a detector's send to the batch, the channel, the buffer and the timer of a container are
\* one queue that is cut into batches front to back.
THEOREM EngineAggregates == Spec => ImplementsAggregator
  <1>1. Init => Aggregation!Init
    <2> SUFFICES ASSUME Init PROVE Aggregation!Init
      OBVIOUS
    <2>1. \A c \in Containers : Pending(c) = << >> \o << >>
      BY ChosenEmpty DEF Init, Pending
    <2>2. << >> \o << >> = << >>
      BY EmptySeq, ConcatEmptySeq
    <2> QED
      BY <2>1, <2>2 DEF Init, Aggregation!Init
  <1> QED
    BY <1>1, AggregationStep, TypeCorrect, EveryBufferHasATimer, PTL
    DEF Spec, ImplementsAggregator, Aggregation!Spec
=============================================================================
