--------------------------- MODULE FsmEngineProofs ---------------------------
(***************************************************************************)
(* Proofs about FsmEngine for every set of brains, containers and tactics, *)
(* every chain table and every max_duration: the bounds of the TLC runs    *)
(* play no part here.                                                      *)
(***************************************************************************)
EXTENDS FsmEngine, TLAPS

-----------------------------------------------------------------------------
(* Type correctness. *)

\* The keys and the chain table of a brain are what the constants say.
LEMMA LocalTypes ==
  ASSUME TypeOK, NEW b \in Brains
  PROVE  /\ Key(b) \in Keys
         /\ event[b].cid \in Containers /\ event[b].tactic \in Tactics
         /\ event[b].pos \in Nat
         /\ chain[b] \in Chains /\ version[b] \in Versions
         /\ Chain(b) \in Seq(Tactics) /\ Len(Chain(b)) \in Nat /\ Len(Chain(b)) >= 2
         /\ TTL(b) \in Nat \ {0}
  <1>1. event[b] \in Event /\ chain[b] \in Chains /\ version[b] \in Versions
    BY DEF TypeOK
  <1>2. event[b].cid \in Containers /\ event[b].tactic \in Tactics /\ event[b].pos \in Nat
    BY <1>1 DEF Event
  <1>3. Sequence[version[b]] \in [Chains -> Seq(Tactics)]
    BY <1>1, FsmAssumption DEF FsmAssumption
  <1>4. Chain(b) \in Seq(Tactics) /\ Len(Chain(b)) >= 2
    BY <1>1, <1>3, FsmAssumption DEF FsmAssumption, validateChainFile, Chain
  <1>5. TTL(b) \in Nat \ {0}
    BY <1>1, FsmAssumption DEF FsmAssumption, TTL
  <1> QED
    BY <1>1, <1>2, <1>4, <1>5 DEF Key, Keys

\* Returning from Process leaves the variables of the loop well typed.
LEMMA ReturnTypes ==
  ASSUME TypeOK, NEW b \in Brains, Return(b)
  PROVE  /\ pc' \in [Brains -> PCs] /\ event' \in [Brains -> Event]
         /\ chain' \in [Brains -> Chains] /\ state' \in [Brains -> Entry \cup {Missing}]
         /\ next' \in [Brains -> Nat] /\ tries' \in [Brains -> Nat]
  <1>1. chain' \in [Brains -> Chains]
    <2>1. chain \in [Brains -> Chains] /\ chain[b] \in Chains
      BY DEF TypeOK
    <2>2. NumChains \in Nat
      BY FsmAssumption DEF FsmAssumption
    <2>3. chain[b] < NumChains => chain[b] + 1 \in Chains
      BY <2>1, <2>2 DEF Chains
    <2> QED
      BY <2>1, <2>3 DEF Return
  <1>2. pc' \in [Brains -> PCs]
    BY DEF Return, TypeOK, Goto, PCs
  <1> QED
    BY <1>1, <1>2 DEF Return, TypeOK

\* What a brain stores is an entry.
LEMMA WriteTypes ==
  ASSUME TypeOK, NEW b \in Brains, NEW k \in Keys,
         NEW e \in Entry \cup {Missing}, Write(b, k, e)
  PROVE  redis' \in [Keys -> Entry \cup {Missing}] /\ dirty' \subseteq Brains
  BY DEF Write, TypeOK, Watchers

\* The states that Process stores are well-formed.
LEMMA EntryTypes ==
  ASSUME TypeOK, NEW b \in Brains
  PROVE  /\ NewState(b) \in Entry
         /\ state[b] # Missing => Promoted(b) \in Entry
         /\ \A e \in Entry : [e EXCEPT !.volatile = TRUE, !.expires = now + TTL(b)] \in Entry
  <1>1. now \in Nat /\ now + TTL(b) \in Nat /\ next[b] \in Nat
    BY LocalTypes DEF TypeOK
  <1>2. NewState(b) \in Entry
    BY <1>1, LocalTypes DEF NewState, Entry
  <1>3. ASSUME state[b] # Missing
        PROVE  Promoted(b) \in Entry
    <2>1. state[b] \in Entry
      BY <1>3 DEF TypeOK
    <2>2. Append(state[b].evidence, event[b].pos) \in Seq(Nat)
      BY <2>1, LocalTypes DEF Entry
    <2> QED
      BY <1>1, <2>1, <2>2, LocalTypes DEF Promoted, Entry
  <1>4. ASSUME NEW e \in Entry
        PROVE  [e EXCEPT !.volatile = TRUE, !.expires = now + TTL(b)] \in Entry
    BY <1>1 DEF Entry
  <1> QED
    BY <1>2, <1>3, <1>4

\* TypeOK is not inductive by itself: Promote and Complete use the state that Get stored.
HoldsState ==
  \A b \in Brains : pc[b] \in {"watch", "read", "exec", "delete"} => state[b] # Missing

Typed == TypeOK /\ HoldsState

\* The loop over the chains has a first chain to begin with.
LEMMA FirstChain == 1 \in Chains
  <1>1. NumChains \in Nat /\ NumChains > 0
    BY FsmAssumption DEF FsmAssumption, validateChainFile
  <1> QED
    BY <1>1 DEF Chains

\* The initial state has the types, and no call of Process holds a state.
LEMMA TypedInit == Init => Typed
  <1> SUFFICES ASSUME Init PROVE Typed
    OBVIOUS
  <1>1. event \in [Brains -> Event]
    BY DEF Init, Event
  <1>2. chain \in [Brains -> Chains]
    BY FirstChain DEF Init
  <1>3. observed \in [Containers -> Seq(Tactics)]
    BY DEF Init
  <1> QED
    BY <1>1, <1>2, <1>3 DEF Init, Typed, TypeOK, HoldsState, PCs

\* A returning brain holds no state and needs none; the others keep theirs.
LEMMA ReturnHolds ==
  ASSUME Typed, NEW b \in Brains, Return(b)
  PROVE  HoldsState'
  BY DEF Return, Goto, Typed, HoldsState, TypeOK

\* A new event is well-formed, its position is that of the log.
LEMMA TypedTake ==
  ASSUME Typed, NEW b \in Brains, NEW c \in Containers, NEW t \in Tactics,
         TakeEvent(b, c, t)
  PROVE  Typed'
  <1>1. Append(observed[c], t) \in Seq(Tactics) /\ Len(observed[c]) + 1 \in Nat
    BY DEF Typed, TypeOK
  <1>2. observed' \in [Containers -> Seq(Tactics)]
    BY <1>1 DEF TakeEvent, Typed, TypeOK
  <1>3. event' \in [Brains -> Event]
    BY <1>1 DEF TakeEvent, Typed, TypeOK, Event
  <1>4. 1 \in Chains
    BY FirstChain
  <1>6. chain' \in [Brains -> Chains] /\ pc' \in [Brains -> PCs]
    BY <1>4 DEF TakeEvent, Typed, TypeOK, Goto, PCs
  <1>5. HoldsState'
    BY DEF TakeEvent, Typed, TypeOK, HoldsState, Goto
  <1> QED
    BY <1>2, <1>3, <1>6, <1>5 DEF TakeEvent, Typed, TypeOK

\* Get leaves Process in a call that holds the state it needs.
LEMMA TypedGet ==
  ASSUME Typed, NEW b \in Brains, Get(b)
  PROVE  Typed'
  <1> DEFINE s == redis[Key(b)]
  <1>1. s \in Entry \cup {Missing}
    BY LocalTypes DEF Typed, TypeOK
  <1>2. CASE Expects(b, s)
    <2>1. s \in Entry /\ s.step + 1 \in Nat /\ s # Missing
      BY <1>1, <1>2 DEF Expects, HasNext, Entry
    <2>2. /\ state' = [state EXCEPT ![b] = s]
          /\ next' = [next EXCEPT ![b] = s.step + 1]
          /\ Goto(b, IF Completes(b, s) THEN "delete" ELSE "watch")
          /\ UNCHANGED <<event, chain, tries>>
      BY <1>2, <2>1 DEF Get, Starts
    <2>3. pc' \in [Brains -> PCs]
      BY <2>2 DEF Goto, Typed, TypeOK, PCs
    <2>4. HoldsState'
      BY <2>1, <2>2 DEF Goto, Typed, TypeOK, HoldsState
    <2> QED
      BY <2>1, <2>2, <2>3, <2>4 DEF Get, Typed, TypeOK
  <1>3. CASE Starts(b, s)
    <2>1. ~Expects(b, s)
      BY <1>3 DEF Starts, Expects, HasNext
    <2>2. Goto(b, "set") /\ UNCHANGED locals
      BY <1>3, <2>1 DEF Get
    <2> QED
      BY <2>2 DEF Get, Typed, TypeOK, HoldsState, Goto, locals, PCs
  <1>4. CASE ~Expects(b, s) /\ ~Starts(b, s)
    <2>1. Return(b)
      BY <1>4 DEF Get
    <2> QED
      BY <2>1, ReturnTypes, ReturnHolds DEF Get, Typed, TypeOK
  <1> QED
    BY <1>2, <1>3, <1>4

\* The SET of Create stores a well-formed state.
LEMMA TypedCreateSet ==
  ASSUME Typed, NEW b \in Brains, CreateSet(b)
  PROVE  Typed'
  <1>1. redis' \in [Keys -> Entry \cup {Missing}] /\ dirty' \subseteq Brains
    BY LocalTypes, EntryTypes, WriteTypes DEF CreateSet, Typed
  <1> QED
    BY <1>1 DEF CreateSet, Goto, Typed, TypeOK, HoldsState, locals, PCs

\* The EXPIRE of Create keeps the state well-formed, or finds none.
LEMMA TypedCreateExpire ==
  ASSUME Typed, NEW b \in Brains, CreateExpire(b)
  PROVE  Typed'
  <1>1. redis[Key(b)] \in Entry \cup {Missing}
    BY LocalTypes DEF Typed, TypeOK
  <1>2. redis' \in [Keys -> Entry \cup {Missing}] /\ dirty' \subseteq Brains
    <2>1. CASE redis[Key(b)] = Missing
      BY <2>1 DEF CreateExpire, Typed, TypeOK
    <2>2. CASE redis[Key(b)] # Missing
      <3> DEFINE e == [redis[Key(b)] EXCEPT !.volatile = TRUE, !.expires = now + TTL(b)]
      <3>1. e \in Entry
        BY <1>1, <2>2, EntryTypes DEF Typed
      <3>2. Write(b, Key(b), e)
        BY <2>2 DEF CreateExpire
      <3> QED
        BY <3>1, <3>2, LocalTypes, WriteTypes DEF Typed
    <2> QED
      BY <2>1, <2>2
  <1> QED
    BY <1>2, ReturnTypes, ReturnHolds DEF CreateExpire, Typed, TypeOK

\* WATCH touches no stored state.
LEMMA TypedPromoteWatch ==
  ASSUME Typed, NEW b \in Brains, PromoteWatch(b)
  PROVE  Typed'
  BY DEF PromoteWatch, Goto, Typed, TypeOK, HoldsState, locals, PCs

\* Promote goes on with a state only if it found one.
LEMMA TypedPromoteRead ==
  ASSUME Typed, NEW b \in Brains, PromoteRead(b)
  PROVE  Typed'
  <1>1. CASE redis[Key(b)] = Missing
    BY <1>1, ReturnTypes, ReturnHolds DEF PromoteRead, Typed, TypeOK
  <1>2. CASE redis[Key(b)] # Missing
    <2>1. redis[Key(b)] \in Entry
      BY <1>2, LocalTypes DEF Typed, TypeOK
    <2> QED
      BY <1>2, <2>1 DEF PromoteRead, Goto, Typed, TypeOK, HoldsState, PCs
  <1> QED
    BY <1>1, <1>2

\* Promote stores a well-formed state.
LEMMA TypedPromoteExec ==
  ASSUME Typed, NEW b \in Brains, PromoteExec(b)
  PROVE  Typed'
  <1>1. Promoted(b) \in Entry
    BY EntryTypes DEF PromoteExec, Typed, HoldsState
  <1>2. redis' \in [Keys -> Entry \cup {Missing}] /\ dirty' \subseteq Brains
    BY <1>1, LocalTypes, WriteTypes DEF PromoteExec, Typed
  <1> QED
    BY <1>2, ReturnTypes, ReturnHolds DEF PromoteExec, Typed, TypeOK

\* A refused EXEC changes the position in Promote only.
LEMMA TypedPromoteConflict ==
  ASSUME Typed, NEW b \in Brains, PromoteConflict(b)
  PROVE  Typed'
  <1>1. CASE Return(b)
    BY <1>1, ReturnTypes, ReturnHolds DEF PromoteConflict, Typed, TypeOK
  <1>2. CASE ~Return(b)
    <2>1. /\ tries' = [tries EXCEPT ![b] = @ + 1]
          /\ Goto(b, "watch")
          /\ UNCHANGED <<event, chain, state, next>>
      BY <1>2 DEF PromoteConflict
    <2> QED
      BY <2>1 DEF PromoteConflict, Goto, Typed, TypeOK, HoldsState, PCs
  <1> QED
    BY <1>1, <1>2

\* The alert is made of the state that Process holds.
LEMMA TypedComplete ==
  ASSUME Typed, NEW b \in Brains, Complete(b)
  PROVE  Typed'
  <1>1. Write(b, Key(b), Missing) \/ UNCHANGED <<redis, dirty>>
    BY DEF Complete, Delete
  <1>3. redis' \in [Keys -> Entry \cup {Missing}] /\ dirty' \subseteq Brains
    <2>1. CASE Write(b, Key(b), Missing)
      BY <2>1, LocalTypes, WriteTypes DEF Typed
    <2>2. CASE UNCHANGED <<redis, dirty>>
      BY <2>2 DEF Typed, TypeOK
    <2> QED
      BY <1>1, <2>1, <2>2
  <1>4. state[b] \in Entry
    BY DEF Complete, Typed, TypeOK, HoldsState
  <1>5. Finding(b) \in Alert
    BY <1>4, LocalTypes DEF Finding, Alert, Entry, Typed
  <1> QED
    BY <1>3, <1>5, ReturnTypes, ReturnHolds DEF Complete, Typed, TypeOK

\* A failed call only returns.
LEMMA TypedCallFails ==
  ASSUME Typed, NEW b \in Brains, CallFails(b)
  PROVE  Typed'
  BY ReturnTypes, ReturnHolds DEF CallFails, Typed, TypeOK

\* A restart forgets the locals.
LEMMA TypedRestart ==
  ASSUME Typed, NEW b \in Brains, NEW v \in Versions, Restart(b, v)
  PROVE  Typed'
  BY DEF Restart, Typed, TypeOK, HoldsState, PCs

\* Expiry only removes states.
LEMMA TypedTick ==
  ASSUME Typed, Tick
  PROVE  Typed'
  <1>1. now' \in Nat
    BY DEF Tick, Typed, TypeOK
  <1>2. redis' \in [Keys -> Entry \cup {Missing}]
    BY DEF Tick, Typed, TypeOK
  <1>3. dirty' \subseteq Brains
    BY DEF Tick, Typed, TypeOK, Watchers
  <1> QED
    BY <1>1, <1>2, <1>3 DEF Tick, Typed, TypeOK, HoldsState, locals

\* Every step keeps the types.
LEMMA TypedStep == Typed /\ [Next]_vars => Typed'
  <1> SUFFICES ASSUME Typed, [Next]_vars PROVE Typed'
    OBVIOUS
  <1>1. ASSUME NEW b \in Brains, NEW c \in Containers, NEW t \in Tactics, TakeEvent(b, c, t)
        PROVE  Typed'
    BY <1>1, TypedTake
  <1>2. ASSUME NEW b \in Brains, BrainStep(b)
        PROVE  Typed'
    BY <1>2, TypedGet, TypedCreateSet, TypedCreateExpire, TypedPromoteWatch,
       TypedPromoteRead, TypedPromoteExec, TypedPromoteConflict, TypedComplete,
       TypedCallFails DEF BrainStep
  <1>3. ASSUME NEW b \in Brains, NEW v \in Versions, Restart(b, v)
        PROVE  Typed'
    BY <1>3, TypedRestart
  <1>4. CASE Tick
    BY <1>4, TypedTick
  <1>5. CASE UNCHANGED vars
    BY <1>5 DEF vars, locals, Typed, TypeOK, HoldsState
  <1> QED
    BY <1>1, <1>2, <1>3, <1>4, <1>5 DEF Next

\* Every variable keeps its type, and a Promote or a completion under way has a state to
\* work on, whatever fails and whenever a brain restarts.
THEOREM TypeCorrect == Spec => []TypeOK
  <1>1. Spec => []Typed
    BY TypedInit, TypedStep, PTL DEF Spec
  <1>2. Typed => TypeOK
    BY DEF Typed
  <1> QED
    BY <1>1, <1>2, PTL

-----------------------------------------------------------------------------
(* Stored steps stay within their chain, for any number of brains that run *)
(* the same chains.                                                        *)

\* e is a step of seq that has a successor.
Within(e, seq) == e.step + 1 < Len(seq) /\ e.tactic = seq[e.step + 1]

\* What Process has decided to store is within the chain too.
PendingInBounds ==
  \A b \in Brains :
    /\ pc[b] = "set" => event[b].tactic = Chain(b)[1]
    /\ pc[b] \in {"watch", "read", "exec"} =>
         next[b] + 1 < Len(Chain(b)) /\ event[b].tactic = Chain(b)[next[b] + 1]

Bounded == Typed /\ StepInBounds /\ PendingInBounds

\* A step that leaves what a brain works on alone leaves its decision alone.
LEMMA PendingStep ==
  ASSUME PendingInBounds, NEW b \in Brains, NEW d \in Brains, b # d, Typed,
         UNCHANGED version,
         \A x \in Brains : x # d =>
           /\ pc'[x] = pc[x] /\ event'[x] = event[x]
           /\ chain'[x] = chain[x] /\ next'[x] = next[x]
  PROVE  /\ pc'[b] = "set" => event'[b].tactic = Chain(b)'[1]
         /\ pc'[b] \in {"watch", "read", "exec"} =>
              next'[b] + 1 < Len(Chain(b)') /\ event'[b].tactic = Chain(b)'[next'[b] + 1]
  BY DEF PendingInBounds, Chain

\* In a step of brain d nothing changes that belongs to another brain.
LEMMA OthersUntouched ==
  ASSUME Typed, NEW d \in Brains,
         \/ BrainStep(d)
         \/ \E c \in Containers, t \in Tactics : TakeEvent(d, c, t)
  PROVE  /\ UNCHANGED version
         /\ \A x \in Brains : x # d =>
              /\ pc'[x] = pc[x] /\ event'[x] = event[x] /\ chain'[x] = chain[x]
              /\ next'[x] = next[x] /\ state'[x] = state[x]
  BY DEF BrainStep, TakeEvent, Get, CreateSet, CreateExpire, PromoteWatch, PromoteRead,
     PromoteExec, PromoteConflict, Complete, CallFails, Return, Goto, locals, Typed, TypeOK

\* What one step of brain d does to a key.
LEMMA KeyStep ==
  ASSUME Typed, NEW d \in Brains, BrainStep(d), NEW k \in Keys
  PROVE  \/ redis'[k] = redis[k]
         \/ redis'[k] = Missing
         \/ k = Key(d) /\ pc[d] = "set" /\ redis'[k] = NewState(d)
         \/ /\ k = Key(d) /\ pc[d] = "expire" /\ redis[k] # Missing
            /\ redis'[k] = [redis[k] EXCEPT !.volatile = TRUE, !.expires = now + TTL(d)]
         \/ k = Key(d) /\ pc[d] = "exec" /\ ~Conflict(d) /\ redis'[k] = Promoted(d)
  <1>1. CASE CreateSet(d)
    BY <1>1 DEF CreateSet, Write, Typed, TypeOK
  <1>2. CASE CreateExpire(d)
    BY <1>2 DEF CreateExpire, Write, Typed, TypeOK
  <1>3. CASE PromoteExec(d)
    BY <1>3 DEF PromoteExec, Write, Typed, TypeOK
  <1>4. CASE Complete(d)
    BY <1>4 DEF Complete, Delete, Write, Typed, TypeOK
  <1>5. CASE UNCHANGED redis
    BY <1>5
  <1> QED
    BY <1>1, <1>2, <1>3, <1>4, <1>5 DEF BrainStep, Get, PromoteWatch, PromoteRead,
       PromoteConflict, CallFails

\* When a key expires, all brains that WATCH it are marked dirty.
LEMMA KeyTick ==
  ASSUME Tick, NEW k \in Keys
  PROVE  redis'[k] = redis[k] \/ redis'[k] = Missing
  BY DEF Tick

\* Within survives what the steps of a brain do to a key.
LEMMA BoundsStep ==
  ASSUME Bounded, NEW v, Versions = {v}, NEW d \in Brains, BrainStep(d)
  PROVE  StepInBounds'
  <1> SUFFICES ASSUME NEW b \in Brains, NEW k \in Keys, redis'[k] # Missing
               PROVE  Within(redis'[k], Sequence[v][k[2]])
    <2>1. \A b \in Brains : version'[b] = v
      BY OthersUntouched DEF Bounded, Typed, TypeOK
    <2> QED
      BY <2>1 DEF StepInBounds, Within
  <1>1. version[b] = v /\ version[d] = v /\ Chain(d) = Sequence[v][Key(d)[2]]
    BY DEF Bounded, Typed, TypeOK, Chain, Key
  <1>2. redis[k] # Missing => Within(redis[k], Sequence[v][k[2]])
    BY <1>1 DEF Bounded, StepInBounds, Within
  <1>3. CASE redis'[k] = redis[k]
    BY <1>2, <1>3
  <1>4. CASE k = Key(d) /\ pc[d] = "set" /\ redis'[k] = NewState(d)
    <2>1. event[d].tactic = Chain(d)[1] /\ Len(Chain(d)) \in Nat /\ Len(Chain(d)) >= 2
      BY <1>4, LocalTypes DEF Bounded, PendingInBounds, Typed
    <2>2. redis'[k].step = 0 /\ redis'[k].tactic = event[d].tactic
      BY <1>4 DEF NewState
    <2> QED
      BY <1>1, <1>4, <2>1, <2>2 DEF Within
  <1>5. CASE /\ k = Key(d) /\ pc[d] = "expire" /\ redis[k] # Missing
             /\ redis'[k] = [redis[k] EXCEPT !.volatile = TRUE, !.expires = now + TTL(d)]
    <2>1. redis[k] \in Entry
      BY <1>5 DEF Bounded, Typed, TypeOK
    <2>2. redis'[k].step = redis[k].step /\ redis'[k].tactic = redis[k].tactic
      BY <1>5, <2>1 DEF Entry
    <2> QED
      BY <1>2, <1>5, <2>2 DEF Within
  <1>6. CASE k = Key(d) /\ pc[d] = "exec" /\ redis'[k] = Promoted(d)
    <2>1. state[d] \in Entry
      BY <1>6 DEF Bounded, Typed, TypeOK, HoldsState
    <2>2. redis'[k].step = next[d] /\ redis'[k].tactic = event[d].tactic
      BY <1>6, <2>1 DEF Promoted, Entry
    <2>3. next[d] + 1 < Len(Chain(d)) /\ event[d].tactic = Chain(d)[next[d] + 1]
      BY <1>6 DEF Bounded, PendingInBounds
    <2> QED
      BY <1>1, <1>6, <2>2, <2>3 DEF Within
  <1> QED
    BY <1>3, <1>4, <1>5, <1>6, KeyStep DEF Bounded

\* A decision of Process stays within the chain, its own or that of another brain.
LEMMA PendingBrainStep ==
  ASSUME Bounded, NEW v, Versions = {v}, NEW d \in Brains, BrainStep(d)
  PROVE  PendingInBounds'
  <1>1. \A b \in Brains : version[b] = v
    BY DEF Bounded, Typed, TypeOK
  <1>2. UNCHANGED version
    BY OthersUntouched DEF Bounded
  <1>3. /\ pc'[d] = "set" => event'[d].tactic = Chain(d)'[1]
        /\ pc'[d] \in {"watch", "read", "exec"} =>
             next'[d] + 1 < Len(Chain(d)') /\ event'[d].tactic = Chain(d)'[next'[d] + 1]
    <2>1. CASE Return(d)
      <3>1. pc'[d] \in {"idle", "get"}
        BY <2>1 DEF Return, Goto, Bounded, Typed, TypeOK
      <3> QED
        BY <3>1
    <2>2. CASE Get(d) /\ Expects(d, redis[Key(d)])
      <3> DEFINE s == redis[Key(d)]
      <3>1. s \in Entry /\ s.step \in Nat /\ s # Missing
        BY <2>2, LocalTypes DEF Bounded, Typed, TypeOK, Expects, HasNext, Entry
      <3>2. /\ next'[d] = s.step + 1 /\ event' = event /\ chain' = chain
            /\ pc'[d] = IF Completes(d, s) THEN "delete" ELSE "watch"
        BY <2>2, <3>1 DEF Get, Starts, Goto, Bounded, Typed, TypeOK
      <3>3. Chain(d)' = Chain(d)
        BY <1>2, <3>2 DEF Chain
      <3>4. pc'[d] = "watch" => s.step + 2 < Len(Chain(d))
                                /\ event[d].tactic = Chain(d)[s.step + 2]
        BY <2>2, <3>1, <3>2, LocalTypes
           DEF Completes, Expects, HasNext, Bounded, Typed
      <3> QED
        BY <3>1, <3>2, <3>3, <3>4
    <2>3. CASE Get(d) /\ Starts(d, redis[Key(d)])
      <3>1. ~Expects(d, redis[Key(d)])
        BY <2>3 DEF Starts, Expects, HasNext
      <3>2. pc'[d] = "set" /\ UNCHANGED locals
        BY <2>3, <3>1 DEF Get, Goto, Bounded, Typed, TypeOK
      <3> QED
        BY <1>2, <2>3, <3>2 DEF Starts, Chain, locals
    <2>4. CASE PromoteWatch(d) \/ PromoteRead(d) \/ PromoteConflict(d)
      <3>1. CASE Return(d)
        BY <2>1, <3>1
      <3>2. CASE ~Return(d)
        <4>1. pc[d] \in {"watch", "read", "exec"} /\ UNCHANGED <<event, chain, next>>
              /\ pc'[d] \in {"watch", "read", "exec"}
          BY <2>4, <3>2 DEF PromoteWatch, PromoteRead, PromoteConflict, locals, Goto,
             Bounded, Typed, TypeOK
        <4> QED
          BY <1>2, <4>1 DEF Bounded, PendingInBounds, Chain
      <3> QED
        BY <3>1, <3>2
    <2>5. CASE CreateSet(d)
      BY <2>5 DEF CreateSet, Goto, Bounded, Typed, TypeOK
    <2>6. CASE Get(d) /\ ~Expects(d, redis[Key(d)]) /\ ~Starts(d, redis[Key(d)])
      BY <2>1, <2>6 DEF Get
    <2> QED
      BY <2>1, <2>2, <2>3, <2>4, <2>5, <2>6 DEF BrainStep, CreateExpire, PromoteExec,
         Complete, CallFails
  <1> SUFFICES ASSUME NEW b \in Brains, b # d
               PROVE  /\ pc'[b] = "set" => event'[b].tactic = Chain(b)'[1]
                      /\ pc'[b] \in {"watch", "read", "exec"} =>
                           /\ next'[b] + 1 < Len(Chain(b)')
                           /\ event'[b].tactic = Chain(b)'[next'[b] + 1]
    BY <1>3 DEF PendingInBounds
  <1> QED
    BY OthersUntouched, PendingStep DEF Bounded

\* Every step keeps stored and pending steps within their chains.
LEMMA BoundedStep ==
  ASSUME Bounded, NEW v, Versions = {v}, [Next]_vars
  PROVE  Bounded'
  <1> SUFFICES StepInBounds' /\ PendingInBounds'
    BY TypedStep DEF Bounded
  <1>1. ASSUME NEW d \in Brains, BrainStep(d)
        PROVE  StepInBounds' /\ PendingInBounds'
    BY <1>1, BoundsStep, PendingBrainStep
  <1>2. ASSUME NEW d \in Brains, NEW c \in Containers, NEW t \in Tactics, TakeEvent(d, c, t)
        PROVE  StepInBounds' /\ PendingInBounds'
    <2>1. pc'[d] = "get" /\ UNCHANGED <<redis, version>>
      BY <1>2 DEF TakeEvent, Goto, Bounded, Typed, TypeOK
    <2>2. StepInBounds'
      BY <2>1 DEF StepInBounds, Bounded
    <2>3. ASSUME NEW b \in Brains, b # d
          PROVE  /\ pc'[b] = "set" => event'[b].tactic = Chain(b)'[1]
                 /\ pc'[b] \in {"watch", "read", "exec"} =>
                      /\ next'[b] + 1 < Len(Chain(b)')
                      /\ event'[b].tactic = Chain(b)'[next'[b] + 1]
      BY <1>2, <2>3, OthersUntouched, PendingStep DEF Bounded
    <2> QED
      BY <2>1, <2>2, <2>3 DEF PendingInBounds
  <1>3. ASSUME NEW d \in Brains, NEW w \in Versions, Restart(d, w)
        PROVE  StepInBounds' /\ PendingInBounds'
    <2>1. version' = version
      BY <1>3 DEF Restart, Bounded, Typed, TypeOK
    <2>2. StepInBounds'
      BY <1>3, <2>1 DEF Restart, StepInBounds, Bounded
    <2>3. PendingInBounds'
      BY <1>3, <2>1 DEF Restart, PendingInBounds, Chain, Bounded, Typed, TypeOK
    <2> QED
      BY <2>2, <2>3
  <1>4. CASE Tick
    <2>1. StepInBounds'
      BY <1>4, KeyTick DEF Tick, StepInBounds, Bounded
    <2>2. PendingInBounds'
      BY <1>4 DEF Tick, locals, PendingInBounds, Chain, Bounded
    <2> QED
      BY <2>1, <2>2
  <1>5. CASE UNCHANGED vars
    BY <1>5 DEF vars, locals, Bounded, StepInBounds, PendingInBounds, Chain
  <1> QED
    BY <1>1, <1>2, <1>3, <1>4, <1>5 DEF Next

\* At the start there is no state to be out of bounds.
LEMMA BoundedInit == Init => Bounded
  <1>1. Init => StepInBounds
    BY DEF Init, StepInBounds
  <1>2. Init => PendingInBounds
    BY DEF Init, PendingInBounds
  <1> QED
    BY <1>1, <1>2, TypedInit DEF Bounded

\* While all brains run one and the same chains.yml, no brain ever meets a state beyond the
\* end of a chain or one whose tactic is not that of its step: the safety check of Process
\* is dead code then, however many brains race on a key, whatever fails or restarts.
THEOREM StepsStayInBounds ==
  ASSUME NEW v, Versions = {v}
  PROVE  Spec => []StepInBounds
  <1>1. Bounded /\ [Next]_vars => Bounded'
    BY BoundedStep
  <1>2. Bounded => StepInBounds
    BY DEF Bounded
  <1> QED
    BY <1>1, <1>2, BoundedInit, PTL DEF Spec

-----------------------------------------------------------------------------
(* WATCH does its work, for any number of brains and any mix of chains. *)

\* Unless the transaction is doomed, the key still holds what txf has read.
WatchFresh == \A b \in Brains : pc[b] = "exec" /\ b \notin dirty => redis[Key(b)] = state[b]

Watched == Typed /\ WatchFresh

\* A brain step that changes a key dooms every other transaction that watches it.
LEMMA WriteDooms ==
  ASSUME Typed, NEW d \in Brains, BrainStep(d), NEW b \in Brains, b # d, pc[b] = "exec"
  PROVE  redis'[Key(b)] = redis[Key(b)] \/ b \in dirty'
  <1>1. ASSUME NEW e, Write(d, Key(d), e)
        PROVE  redis'[Key(b)] = redis[Key(b)] \/ b \in dirty'
    BY <1>1, LocalTypes DEF Write, Watchers, Typed, TypeOK
  <1>2. UNCHANGED redis \/ \E e : Write(d, Key(d), e)
    BY DEF BrainStep, Get, CreateSet, CreateExpire, PromoteWatch, PromoteRead, PromoteExec,
       PromoteConflict, Complete, Delete, CallFails
  <1> QED
    BY <1>1, <1>2

\* dirty is only ever lifted from the brain that takes the step.
LEMMA DirtyStays ==
  ASSUME Typed, NEW d \in Brains, BrainStep(d), NEW b \in Brains, b # d, b \in dirty
  PROVE  b \in dirty'
  BY DEF BrainStep, Get, CreateSet, CreateExpire, PromoteWatch, PromoteRead, PromoteExec,
     PromoteConflict, Complete, Delete, CallFails, Write

\* A transaction that is not doomed keeps seeing what it has read.
LEMMA WatchedStep == Watched /\ [Next]_vars => Watched'
  <1> SUFFICES ASSUME Watched, [Next]_vars PROVE WatchFresh'
    BY TypedStep DEF Watched
  <1> SUFFICES ASSUME NEW b \in Brains, pc'[b] = "exec", b \notin dirty'
               PROVE  redis'[Key(b)'] = state'[b]
    BY DEF WatchFresh, Key
  <1>1. ASSUME NEW d \in Brains, BrainStep(d), d # b
        PROVE  redis'[Key(b)'] = state'[b]
    <2>1. /\ pc[b] = "exec" /\ state'[b] = state[b] /\ Key(b)' = Key(b)
      BY <1>1, OthersUntouched DEF Watched, Key
    <2>2. b \notin dirty
      BY <1>1, DirtyStays DEF Watched
    <2>3. redis'[Key(b)] = redis[Key(b)]
      BY <1>1, <2>1, WriteDooms DEF Watched
    <2> QED
      BY <2>1, <2>2, <2>3 DEF Watched, WatchFresh
  <1>2. CASE BrainStep(b)
    <2>1. PromoteRead(b) /\ redis[Key(b)] # Missing
      BY <1>2 DEF BrainStep, Get, CreateSet, CreateExpire, PromoteWatch, PromoteRead,
         PromoteExec, PromoteConflict, Complete, CallFails, Return, Goto, Watched, Typed, TypeOK
    <2> QED
      BY <2>1 DEF PromoteRead, Return, Goto, Key, Watched, Typed, TypeOK
  <1>3. ASSUME NEW d \in Brains, NEW c \in Containers, NEW t \in Tactics, TakeEvent(d, c, t)
        PROVE  redis'[Key(b)'] = state'[b]
    BY <1>3 DEF TakeEvent, Goto, Key, Watched, WatchFresh, Typed, TypeOK
  <1>4. ASSUME NEW d \in Brains, NEW w \in Versions, Restart(d, w)
        PROVE  redis'[Key(b)'] = state'[b]
    BY <1>4 DEF Restart, Key, Watched, WatchFresh, Typed, TypeOK
  <1>5. CASE Tick
    <2>1. pc[b] = "exec" /\ state'[b] = state[b] /\ Key(b)' = Key(b) /\ b \notin dirty
      BY <1>5 DEF Tick, locals, Key
    <2>2. ~Expired(Key(b), now + 1)
      <3> SUFFICES ASSUME Expired(Key(b), now + 1) PROVE FALSE
        OBVIOUS
      <3>1. Key(b) \in Keys
        BY LocalTypes DEF Watched, Typed
      <3>2. Watchers(Key(b)) \subseteq dirty'
        BY <1>5, <3>1 DEF Tick
      <3>3. b \in Watchers(Key(b))
        BY <2>1 DEF Watchers
      <3> QED
        BY <3>2, <3>3
    <2> QED
      BY <1>5, <2>1, <2>2, LocalTypes DEF Tick, Watched, WatchFresh, Typed
  <1>6. CASE UNCHANGED vars
    BY <1>6 DEF vars, locals, Key, Watched, WatchFresh
  <1> QED
    BY <1>1, <1>2, <1>3, <1>4, <1>5, <1>6 DEF Next

\* What one step may do to an attempt that is past its first tactic.
InPlace(k) ==
  redis'[k] # Missing /\ redis'[k].step > 0 =>
    /\ redis[k] # Missing
    /\ redis'[k].started = redis[k].started
    /\ redis'[k].evidence = redis[k].evidence
       \/ \E b \in Brains : redis'[k].evidence = Append(redis[k].evidence, event[b].pos)

\* Every step leaves an advanced attempt alone, removes it or extends it.
LEMMA InPlaceStep ==
  ASSUME Watched, [Next]_vars, NEW k \in Keys
  PROVE  InPlace(k)
  <1>1. CASE redis'[k] = redis[k] \/ redis'[k] = Missing
    BY <1>1 DEF InPlace
  <1>2. ASSUME NEW d \in Brains, BrainStep(d)
        PROVE  InPlace(k)
    <2>1. CASE redis'[k] = NewState(d)
      BY <2>1 DEF NewState, InPlace
    <2>2. CASE /\ redis[k] # Missing
               /\ redis'[k] = [redis[k] EXCEPT !.volatile = TRUE, !.expires = now + TTL(d)]
      <3>1. redis[k] \in Entry
        BY <2>2 DEF Watched, Typed, TypeOK
      <3>2. redis'[k].started = redis[k].started /\ redis'[k].evidence = redis[k].evidence
        BY <2>2, <3>1 DEF Entry
      <3> QED
        BY <2>2, <3>2 DEF InPlace
    <2>3. CASE k = Key(d) /\ pc[d] = "exec" /\ ~Conflict(d) /\ redis'[k] = Promoted(d)
      <3>1. redis[k] = state[d]
        BY <2>3 DEF Watched, WatchFresh, Conflict
      <3>2. state[d] \in Entry /\ state[d] # Missing
        BY <2>3 DEF Watched, Typed, TypeOK, HoldsState
      <3>3. /\ redis'[k].started = state[d].started
            /\ redis'[k].evidence = Append(state[d].evidence, event[d].pos)
        BY <2>3, <3>2 DEF Promoted, Entry
      <3> QED
        BY <3>1, <3>2, <3>3 DEF InPlace
    <2> QED
      BY <1>1, <1>2, <2>1, <2>2, <2>3, KeyStep DEF Watched
  <1>3. ASSUME NEW d \in Brains, NEW c \in Containers, NEW t \in Tactics, TakeEvent(d, c, t)
        PROVE  InPlace(k)
    BY <1>1, <1>3 DEF TakeEvent
  <1>4. ASSUME NEW d \in Brains, NEW w \in Versions, Restart(d, w)
        PROVE  InPlace(k)
    BY <1>1, <1>4 DEF Restart
  <1>5. CASE Tick
    BY <1>1, <1>5, KeyTick
  <1>6. CASE UNCHANGED vars
    BY <1>1, <1>6 DEF vars
  <1> QED
    BY <1>2, <1>3, <1>4, <1>5, <1>6 DEF Next

\* However many brains share a key, a promotion extends the very attempt that is stored: it
\* neither brings back an attempt that expired or was finished while Promote was under way
\* nor mixes the start of one attempt with the steps of another.
THEOREM PromoteIsInPlace == Spec => AdvanceInPlace
  <1>1. Init => Watched
    BY TypedInit DEF Init, Watched, WatchFresh
  <1>2. Watched /\ [Next]_vars => Watched'
    BY WatchedStep
  <1>3. Watched /\ [Next]_vars => [\A k \in Keys : InPlace(k)]_vars
    BY InPlaceStep
  <1> QED
    BY <1>1, <1>2, <1>3, PTL DEF Spec, AdvanceInPlace, InPlace

-----------------------------------------------------------------------------
(* Alerts are backed by evidence, for one brain, under every fault and     *)
(* with any chains.yml after a restart.                                    *)

\* The positions ev all come before p.
Earlier(ev, p) == \A i \in 1 .. Len(ev) : ev[i] < p

\* Every stored attempt occurs in the log of its container ...
StatesOccur ==
  \A k \in Keys : redis[k] # Missing =>
    Occurs(redis[k].evidence, observed[k[1]], k[2], redis[k].step + 1)

\* ... the event being processed is the newest of its log ...
EventIsNewest ==
  \A b \in Brains : pc[b] # "idle" =>
    LET log == observed[event[b].cid] IN
    /\ event[b].pos = Len(log) /\ event[b].pos > 0
    /\ log[event[b].pos] = event[b].tactic

\* ... and the chains that have not had it yet do not count it ...
NotCounted ==
  \A b \in Brains, n \in Chains :
    /\ pc[b] # "idle"
    /\ n > chain[b] \/ (n = chain[b] /\ pc[b] # "expire")
    /\ redis[<<event[b].cid, n>>] # Missing
    => Earlier(redis[<<event[b].cid, n>>].evidence, event[b].pos)

\* ... nor does the state that Process is about to extend by it ...
ReadyToExtend ==
  \A b \in Brains : pc[b] \in {"watch", "read", "exec", "delete"} =>
    /\ Occurs(state[b].evidence, observed[event[b].cid], chain[b], state[b].step + 1)
    /\ Earlier(state[b].evidence, event[b].pos)
    /\ next[b] = state[b].step + 1
    /\ event[b].tactic = Chain(b)[next[b] + 1] /\ next[b] + 1 <= Len(Chain(b))
    /\ pc[b] = "delete" <=> next[b] + 1 = Len(Chain(b))
    /\ redis[Key(b)] \in {Missing, state[b]}

\* ... or a new state, which begins with the first tactic.
ReadyToStart == \A b \in Brains : pc[b] = "set" => event[b].tactic = Chain(b)[1]

Tracked ==
  /\ Typed /\ StatesOccur /\ EventIsNewest /\ NotCounted /\ ReadyToExtend /\ ReadyToStart
  /\ EvidenceBacked

\* A tactic of the chain table of a brain is one that its step asks for.
LEMMA ChainAsks ==
  ASSUME Typed, NEW b \in Brains, NEW i \in Nat \ {0}, i <= Len(Chain(b))
  PROVE  Chain(b)[i] \in StepTactics(chain[b], i)
  <1>1. version[b] \in Versions /\ Chain(b) = Sequence[version[b]][chain[b]]
    BY DEF Typed, TypeOK, Chain
  <1> QED
    BY <1>1 DEF StepTactics

\* An occurrence in a log is one in every longer log.
LEMMA OccursInLonger ==
  ASSUME NEW S, NEW log \in Seq(S), NEW t \in S, NEW n, NEW m, NEW ev \in Seq(Nat),
         Occurs(ev, log, n, m)
  PROVE  Occurs(ev, Append(log, t), n, m)
  BY DEF Occurs

\* A later position with the next tactic extends an occurrence.
LEMMA OccursNext ==
  ASSUME NEW S, NEW log \in Seq(S), NEW n, NEW m \in Nat, NEW ev \in Seq(Nat),
         Occurs(ev, log, n, m), NEW p \in 1 .. Len(log), log[p] \in StepTactics(n, m + 1),
         Earlier(ev, p)
  PROVE  Occurs(Append(ev, p), log, n, m + 1)
  <1>1. Len(Append(ev, p)) = m + 1 /\ Append(ev, p)[m + 1] = p
        /\ \A i \in 1 .. m : Append(ev, p)[i] = ev[i]
    BY DEF Occurs
  <1>2. \A i \in 1 .. m : ev[i] < p
    BY DEF Occurs, Earlier
  <1> QED
    BY <1>1, <1>2 DEF Occurs

\* The finding of a brain that has read the last but one step.
LEMMA ExtendedOccurs ==
  ASSUME Tracked, NEW b \in Brains,
         pc[b] \in {"watch", "read", "exec", "delete"}
  PROVE  Occurs(Append(state[b].evidence, event[b].pos), observed[event[b].cid],
                chain[b], next[b] + 1)
  <1>1. state[b] \in Entry
    BY DEF Tracked, Typed, TypeOK, HoldsState
  <1>2. state[b].evidence \in Seq(Nat) /\ state[b].step + 1 \in Nat
    BY <1>1 DEF Entry
  <1>3. observed[event[b].cid] \in Seq(Tactics)
    BY LocalTypes DEF Tracked, Typed, TypeOK
  <1>4. /\ event[b].pos \in 1 .. Len(observed[event[b].cid])
        /\ observed[event[b].cid][event[b].pos] = event[b].tactic
    <2>1. /\ event[b].pos = Len(observed[event[b].cid]) /\ event[b].pos > 0
          /\ observed[event[b].cid][event[b].pos] = event[b].tactic
      BY DEF Tracked, EventIsNewest
    <2> QED
      BY <1>3, <2>1
  <1>5. /\ Occurs(state[b].evidence, observed[event[b].cid], chain[b], state[b].step + 1)
        /\ Earlier(state[b].evidence, event[b].pos)
        /\ next[b] = state[b].step + 1
        /\ event[b].tactic = Chain(b)[next[b] + 1] /\ next[b] + 1 <= Len(Chain(b))
    BY DEF Tracked, ReadyToExtend
  <1>6. event[b].tactic \in StepTactics(chain[b], next[b] + 1)
    BY <1>2, <1>5, ChainAsks DEF Tracked
  <1> QED
    BY <1>2, <1>3, <1>4, <1>5, <1>6, OccursNext

\* What a brain stores as evidence is an occurrence of the steps done so far.
LEMMA StatesOccurStep ==
  ASSUME Tracked, NEW d \in Brains, BrainStep(d)
  PROVE  StatesOccur'
  <1>1. observed' = observed
    BY DEF BrainStep, Get, CreateSet, CreateExpire, PromoteWatch, PromoteRead, PromoteExec,
       PromoteConflict, Complete, CallFails
  <1> SUFFICES ASSUME NEW k \in Keys, redis'[k] # Missing
               PROVE  Occurs(redis'[k].evidence, observed[k[1]], k[2], redis'[k].step + 1)
    BY <1>1 DEF StatesOccur
  <1>2. redis[k] # Missing =>
          Occurs(redis[k].evidence, observed[k[1]], k[2], redis[k].step + 1)
    BY DEF Tracked, StatesOccur
  <1>3. CASE redis'[k] = redis[k]
    BY <1>2, <1>3
  <1>4. CASE k = Key(d) /\ pc[d] = "set" /\ redis'[k] = NewState(d)
    <2>1. redis'[k].evidence = <<event[d].pos>> /\ redis'[k].step = 0
      BY <1>4 DEF NewState
    <2>3. event[d].tactic \in StepTactics(chain[d], 1)
      <3>1. event[d].tactic = Chain(d)[1]
        BY <1>4 DEF Tracked, ReadyToStart
      <3>2. 1 <= Len(Chain(d))
        BY LocalTypes DEF Tracked, Typed
      <3> QED
        BY <3>1, <3>2, ChainAsks DEF Tracked
    <2>4. /\ event[d].pos = Len(observed[event[d].cid]) /\ event[d].pos > 0
          /\ observed[event[d].cid][event[d].pos] = event[d].tactic
      BY <1>4 DEF Tracked, EventIsNewest
    <2>5. event[d].pos \in Nat
      BY LocalTypes DEF Tracked, Typed
    <2>6. k[1] = event[d].cid /\ k[2] = chain[d]
      BY <1>4 DEF Key
    <2> QED
      BY <2>1, <2>3, <2>4, <2>5, <2>6 DEF Occurs
  <1>5. CASE /\ redis[k] # Missing
             /\ redis'[k] = [redis[k] EXCEPT !.volatile = TRUE, !.expires = now + TTL(d)]
    <2>1. redis[k] \in Entry
      BY <1>5 DEF Tracked, Typed, TypeOK
    <2>2. redis'[k].step = redis[k].step /\ redis'[k].evidence = redis[k].evidence
      BY <1>5, <2>1 DEF Entry
    <2> QED
      BY <1>2, <1>5, <2>2
  <1>6. CASE k = Key(d) /\ pc[d] = "exec" /\ redis'[k] = Promoted(d)
    <2>1. state[d] \in Entry
      BY <1>6 DEF Tracked, Typed, TypeOK, HoldsState
    <2>2. /\ redis'[k].step = next[d]
          /\ redis'[k].evidence = Append(state[d].evidence, event[d].pos)
      BY <1>6, <2>1 DEF Promoted, Entry
    <2>3. k[1] = event[d].cid /\ k[2] = chain[d]
      BY <1>6 DEF Key
    <2> QED
      BY <1>6, <2>2, <2>3, ExtendedOccurs
  <1> QED
    BY <1>3, <1>4, <1>5, <1>6, KeyStep DEF Tracked

\* The event under way is not evidence for a state before Process has stored it.
LEMMA NotCountedStep ==
  ASSUME Tracked, NEW d, Brains = {d}, BrainStep(d)
  PROVE  NotCounted'
  <1>1. event' = event
    BY DEF BrainStep, Get, CreateSet, CreateExpire, PromoteWatch, PromoteRead, PromoteExec,
       PromoteConflict, Complete, CallFails, Return, locals
  <1> SUFFICES ASSUME NEW n \in Chains, pc'[d] # "idle",
                      n > chain'[d] \/ (n = chain'[d] /\ pc'[d] # "expire"),
                      redis'[<<event[d].cid, n>>] # Missing
               PROVE  Earlier(redis'[<<event[d].cid, n>>].evidence, event[d].pos)
    BY <1>1 DEF NotCounted
  <1> DEFINE k == <<event[d].cid, n>>
  <1>2. k \in Keys /\ chain[d] \in Chains /\ n \in Nat /\ chain[d] \in Nat
    BY LocalTypes DEF Tracked, Typed, Keys, Chains
  <1>3. ASSUME n > chain[d] \/ (n = chain[d] /\ pc[d] # "expire"),
               redis'[k] = redis[k], pc[d] # "idle"
        PROVE  Earlier(redis'[k].evidence, event[d].pos)
    BY <1>3 DEF Tracked, NotCounted
  <1>4. pc[d] # "idle"
    BY DEF BrainStep, Get, CreateSet, CreateExpire, PromoteWatch, PromoteRead, PromoteExec,
       PromoteConflict, Complete, CallFails
  <1>5. CASE n > chain[d]
    <2>1. k # Key(d)
      BY <1>2, <1>5 DEF Key
    <2>2. redis'[k] = redis[k]
      BY <1>2, <2>1, KeyStep DEF Tracked
    <2> QED
      BY <1>3, <1>4, <1>5, <2>2
  <1>6. CASE ~(n > chain[d])
    <2>1. chain'[d] \in Nat /\ ~Return(d)
      <3>1. chain'[d] \in {chain[d], chain[d] + 1}
        BY DEF BrainStep, Get, CreateSet, CreateExpire, PromoteWatch, PromoteRead,
           PromoteExec, PromoteConflict, Complete, CallFails, Return, locals, Tracked, Typed, TypeOK
      <3>2. Return(d) => pc'[d] = "idle" \/ chain'[d] = chain[d] + 1
        BY DEF Return, Goto, Tracked, Typed, TypeOK
      <3> QED
        BY <1>2, <1>6, <3>1, <3>2
    <2>2. chain' = chain
      BY <2>1 DEF BrainStep, Get, CreateSet, CreateExpire, PromoteWatch, PromoteRead,
         PromoteExec, PromoteConflict, Complete, CallFails, locals
    <2>3. n = chain[d] /\ pc'[d] # "expire"
      BY <1>2, <1>6, <2>2
    <2>4. ~CreateSet(d)
      BY <2>3 DEF CreateSet, Goto, Tracked, Typed, TypeOK
    <2>5. redis' = redis /\ pc[d] # "expire"
      BY <2>1, <2>4 DEF BrainStep, Get, CreateExpire, PromoteWatch, PromoteRead,
         PromoteExec, PromoteConflict, Complete, CallFails
    <2> QED
      BY <1>3, <1>4, <2>3, <2>5
  <1> QED
    BY <1>5, <1>6

\* What Process has read can be extended by the event it holds.
LEMMA ReadyStep ==
  ASSUME Tracked, NEW d, Brains = {d}, BrainStep(d)
  PROVE  ReadyToExtend'
  <1>1. observed' = observed /\ event' = event
    BY DEF BrainStep, Get, CreateSet, CreateExpire, PromoteWatch, PromoteRead, PromoteExec,
       PromoteConflict, Complete, CallFails, Return, locals
  <1>2. version' = version
    BY DEF BrainStep, Get, CreateSet, CreateExpire, PromoteWatch, PromoteRead, PromoteExec,
       PromoteConflict, Complete, CallFails
  <1>3. CASE Return(d)
    <2>1. pc'[d] \in {"idle", "get"}
      BY <1>3 DEF Return, Goto, Tracked, Typed, TypeOK
    <2> QED
      BY <2>1 DEF ReadyToExtend
  <1>4. CASE Get(d) /\ Expects(d, redis[Key(d)])
    <2> DEFINE s == redis[Key(d)]
    <2>1. s \in Entry /\ s.step \in Nat /\ s # Missing
      BY <1>4, LocalTypes DEF Tracked, Typed, TypeOK, Expects, HasNext, Entry
    <2>2. /\ state'[d] = s /\ next'[d] = s.step + 1 /\ UNCHANGED <<chain, redis>>
          /\ pc'[d] = IF Completes(d, s) THEN "delete" ELSE "watch"
      BY <1>4, <2>1 DEF Get, Starts, Goto, Tracked, Typed, TypeOK
    <2>3. Occurs(s.evidence, observed[event[d].cid], chain[d], s.step + 1)
      <3>1. Key(d) \in Keys /\ Key(d)[1] = event[d].cid /\ Key(d)[2] = chain[d]
        BY LocalTypes DEF Key, Tracked, Typed
      <3> QED
        BY <2>1, <3>1 DEF Tracked, StatesOccur
    <2>4. Earlier(s.evidence, event[d].pos)
      <3>1. pc[d] = "get" /\ chain[d] \in Chains /\ Key(d) = <<event[d].cid, chain[d]>>
        BY <1>4, LocalTypes DEF Get, Key, Tracked, Typed
      <3> QED
        BY <2>1, <3>1 DEF Tracked, NotCounted
    <2>5. /\ event[d].tactic = Chain(d)[s.step + 2] /\ s.step + 1 < Len(Chain(d))
          /\ Completes(d, s) <=> s.step + 2 = Len(Chain(d))
      BY <1>4 DEF Expects, Completes, HasNext
    <2>6. Key(d)' = Key(d) /\ redis'[Key(d)'] = s /\ Chain(d)' = Chain(d)
      BY <1>1, <1>2, <2>2 DEF Key, Chain
    <2>7. /\ next'[d] + 1 = s.step + 2 /\ next'[d] + 1 <= Len(Chain(d))
          /\ pc'[d] = "delete" <=> next'[d] + 1 = Len(Chain(d))
      BY <2>1, <2>2, <2>5, LocalTypes DEF Tracked, Typed
    <2> QED
      BY <1>1, <2>2, <2>3, <2>4, <2>5, <2>6, <2>7 DEF ReadyToExtend
  <1>5. CASE Get(d) /\ Starts(d, redis[Key(d)])
    <2>1. ~Expects(d, redis[Key(d)])
      BY <1>5 DEF Starts, Expects, HasNext
    <2>2. pc'[d] = "set"
      BY <1>5, <2>1 DEF Get, Goto, Tracked, Typed, TypeOK
    <2> QED
      BY <2>2 DEF ReadyToExtend
  <1>6. CASE PromoteWatch(d)
    BY <1>1, <1>2, <1>6 DEF PromoteWatch, locals, Goto, Key, Chain, ReadyToExtend, Tracked,
       Typed, TypeOK
  <1>7. CASE PromoteRead(d) /\ redis[Key(d)] # Missing
    <2>1. /\ state'[d] = redis[Key(d)] /\ pc'[d] = "exec"
          /\ UNCHANGED <<event, chain, next>>
      BY <1>7 DEF PromoteRead, Goto, Tracked, Typed, TypeOK
    <2>2. redis[Key(d)] = state[d] /\ pc[d] = "read" /\ redis' = redis
      BY <1>7 DEF PromoteRead, Tracked, ReadyToExtend
    <2>3. Key(d)' = Key(d) /\ Chain(d)' = Chain(d)
      BY <1>2, <2>1 DEF Key, Chain
    <2> QED
      BY <1>1, <2>1, <2>2, <2>3 DEF ReadyToExtend, Tracked
  <1>8. CASE PromoteConflict(d) /\ ~Return(d)
    <2>1. /\ pc[d] = "exec" /\ pc'[d] = "watch"
          /\ UNCHANGED <<event, chain, state, next, redis>>
      BY <1>8 DEF PromoteConflict, Goto, Tracked, Typed, TypeOK
    <2> QED
      BY <1>1, <1>2, <2>1 DEF ReadyToExtend, Key, Chain, Tracked
  <1>9. CASE CreateSet(d)
    BY <1>9 DEF CreateSet, Goto, ReadyToExtend, Tracked, Typed, TypeOK
  <1>10. CASE Get(d) /\ ~Expects(d, redis[Key(d)]) /\ ~Starts(d, redis[Key(d)])
    BY <1>3, <1>10 DEF Get
  <1> QED
    BY <1>3, <1>4, <1>5, <1>6, <1>7, <1>8, <1>9, <1>10 DEF BrainStep, CreateExpire,
       PromoteRead, PromoteExec, Complete, CallFails

\* A brain that is about to create a state has been told to by the first tactic.
LEMMA StartStep ==
  ASSUME Tracked, NEW d, Brains = {d}, BrainStep(d)
  PROVE  ReadyToStart'
  <1>1. event' = event /\ version' = version
    BY DEF BrainStep, Get, CreateSet, CreateExpire, PromoteWatch, PromoteRead, PromoteExec,
       PromoteConflict, Complete, CallFails, Return, locals
  <1> SUFFICES ASSUME pc'[d] = "set" PROVE event[d].tactic = Chain(d)'[1]
    BY <1>1 DEF ReadyToStart
  <1>2. ~Return(d)
    BY DEF Return, Goto, Tracked, Typed, TypeOK
  <1>3. Get(d) /\ Starts(d, redis[Key(d)]) /\ chain' = chain
    BY <1>2 DEF BrainStep, Get, CreateSet, CreateExpire, PromoteWatch, PromoteRead,
       PromoteExec, PromoteConflict, Complete, CallFails, Goto, locals, Tracked, Typed, TypeOK
  <1> QED
    BY <1>1, <1>3 DEF Starts, Chain

\* The alert of a completion is an occurrence of the whole chain.
LEMMA AlertStep ==
  ASSUME Tracked, NEW d \in Brains, BrainStep(d)
  PROVE  EvidenceBacked'
  <1>1. observed' = observed
    BY DEF BrainStep, Get, CreateSet, CreateExpire, PromoteWatch, PromoteRead, PromoteExec,
       PromoteConflict, Complete, CallFails
  <1>2. CASE Complete(d)
    <2>1. next[d] + 1 = Len(Chain(d)) /\ pc[d] = "delete"
      BY <1>2 DEF Complete, Tracked, ReadyToExtend
    <2>2. Occurs(Finding(d).evidence, observed[Finding(d).key[1]], Finding(d).key[2],
                 Len(Sequence[version[d]][Finding(d).key[2]]))
      BY <2>1, ExtendedOccurs DEF Finding, Key, Chain
    <2>3. alerts' = alerts \cup {Finding(d)}
      BY <1>2 DEF Complete
    <2> QED
      BY <1>1, <2>2, <2>3, LocalTypes DEF EvidenceBacked, Tracked, Typed
  <1>3. CASE UNCHANGED alerts
    BY <1>1, <1>3 DEF EvidenceBacked, Tracked
  <1> QED
    BY <1>2, <1>3 DEF BrainStep, Get, CreateSet, CreateExpire, PromoteWatch, PromoteRead,
       PromoteExec, PromoteConflict, CallFails

\* What lies within a log of length m comes before the position m + 1.
LEMMA WithinIsEarlier ==
  ASSUME NEW ev \in Seq(Nat), NEW m \in Nat, \A i \in 1 .. Len(ev) : ev[i] \in 1 .. m
  PROVE  Earlier(ev, m + 1)
  <1> SUFFICES ASSUME NEW i \in 1 .. Len(ev) PROVE ev[i] < m + 1
    BY DEF Earlier
  <1>1. ev[i] \in 1 .. m
    OBVIOUS
  <1> QED
    BY <1>1

\* A new event is later than all evidence.
LEMMA TrackedTake ==
  ASSUME Tracked, NEW d, Brains = {d},
         NEW c \in Containers, NEW t \in Tactics, TakeEvent(d, c, t)
  PROVE  /\ StatesOccur' /\ EventIsNewest' /\ NotCounted' /\ ReadyToExtend'
         /\ ReadyToStart' /\ EvidenceBacked'
  <1>1. /\ observed \in [Containers -> Seq(Tactics)]
        /\ observed' = [observed EXCEPT ![c] = Append(@, t)]
        /\ event'[d] = [cid |-> c, tactic |-> t, pos |-> Len(observed[c]) + 1]
        /\ pc'[d] = "get" /\ UNCHANGED <<redis, state, alerts>>
    BY DEF TakeEvent, Goto, Tracked, Typed, TypeOK
  <1>2. ASSUME NEW x \in Containers, NEW n, NEW m, NEW ev \in Seq(Nat),
               Occurs(ev, observed[x], n, m)
        PROVE  Occurs(ev, observed'[x], n, m)
    BY <1>1, <1>2, OccursInLonger
  <1>3. StatesOccur'
    <2> SUFFICES ASSUME NEW k \in Keys, redis[k] # Missing
                 PROVE  Occurs(redis[k].evidence, observed'[k[1]], k[2], redis[k].step + 1)
      BY <1>1 DEF StatesOccur
    <2>1. redis[k].evidence \in Seq(Nat) /\ k[1] \in Containers
      BY DEF Tracked, Typed, TypeOK, Entry, Keys
    <2> QED
      BY <1>2, <2>1 DEF Tracked, StatesOccur
  <1>4. EventIsNewest'
    <2>1. /\ Len(observed'[c]) = Len(observed[c]) + 1
          /\ observed'[c][Len(observed[c]) + 1] = t /\ Len(observed[c]) \in Nat
      BY <1>1
    <2> QED
      BY <1>1, <2>1 DEF EventIsNewest
  <1>5. NotCounted'
    <2> SUFFICES ASSUME NEW n \in Chains, redis[<<c, n>>] # Missing
                 PROVE  Earlier(redis[<<c, n>>].evidence, Len(observed[c]) + 1)
      BY <1>1 DEF NotCounted
    <2> DEFINE k == <<c, n>>
    <2>1. k \in Keys /\ redis[k] \in Entry
      BY DEF Keys, Tracked, Typed, TypeOK
    <2>2. Occurs(redis[k].evidence, observed[c], n, redis[k].step + 1)
      BY <2>1 DEF Tracked, StatesOccur
    <2>3. redis[k].evidence \in Seq(Nat) /\ Len(observed[c]) \in Nat
      BY <1>1, <2>1 DEF Entry
    <2>4. \A i \in 1 .. Len(redis[k].evidence) : redis[k].evidence[i] \in 1 .. Len(observed[c])
      BY <2>2 DEF Occurs
    <2> HIDE DEF k
    <2>5. Earlier(redis[k].evidence, Len(observed[c]) + 1)
      BY <2>3, <2>4, WithinIsEarlier
    <2> QED
      BY <2>5 DEF k
  <1>6. ReadyToExtend'
    BY <1>1 DEF ReadyToExtend
  <1>7. EvidenceBacked'
    <2> SUFFICES ASSUME NEW a \in alerts
                 PROVE  \E v \in Versions :
                          Occurs(a.evidence, observed'[a.key[1]], a.key[2],
                                 Len(Sequence[v][a.key[2]]))
      BY <1>1 DEF EvidenceBacked
    <2>1. a.evidence \in Seq(Nat) /\ a.key[1] \in Containers
      BY DEF Tracked, Typed, TypeOK, Alert, Keys
    <2> QED
      BY <1>2, <2>1 DEF Tracked, EvidenceBacked
  <1>8. ReadyToStart'
    BY <1>1 DEF ReadyToStart
  <1> QED
    BY <1>3, <1>4, <1>5, <1>6, <1>7, <1>8

\* Every step keeps evidence and log in agreement.
LEMMA TrackedStep ==
  ASSUME Tracked, NEW d, Brains = {d}, [Next]_vars
  PROVE  Tracked'
  <1> SUFFICES /\ StatesOccur' /\ EventIsNewest' /\ NotCounted' /\ ReadyToExtend'
               /\ ReadyToStart' /\ EvidenceBacked'
    BY TypedStep DEF Tracked
  <1>1. CASE BrainStep(d)
    <2>1. EventIsNewest'
      <3>1. /\ observed' = observed /\ event' = event /\ pc[d] # "idle"
        BY <1>1 DEF BrainStep, Get, CreateSet, CreateExpire, PromoteWatch, PromoteRead,
           PromoteExec, PromoteConflict, Complete, CallFails, Return, locals
      <3> QED
        BY <3>1 DEF EventIsNewest, Tracked
    <2> QED
      BY <1>1, <2>1, StatesOccurStep, NotCountedStep, ReadyStep, StartStep, AlertStep
  <1>2. ASSUME NEW c \in Containers, NEW t \in Tactics, TakeEvent(d, c, t)
        PROVE  /\ StatesOccur' /\ EventIsNewest' /\ NotCounted' /\ ReadyToExtend'
               /\ ReadyToStart' /\ EvidenceBacked'
    BY <1>2, TrackedTake
  <1>3. ASSUME NEW w \in Versions, Restart(d, w)
        PROVE  /\ StatesOccur' /\ EventIsNewest' /\ NotCounted' /\ ReadyToExtend'
               /\ ReadyToStart' /\ EvidenceBacked'
    <2>1. pc'[d] = "idle" /\ UNCHANGED <<redis, observed, alerts>>
      BY <1>3 DEF Restart, Tracked, Typed, TypeOK
    <2> QED
      BY <2>1 DEF StatesOccur, EventIsNewest, NotCounted, ReadyToExtend, ReadyToStart,
         EvidenceBacked, Tracked
  <1>4. CASE Tick
    <2>1. UNCHANGED <<event, version, chain, state, next, pc, observed, alerts>>
      BY <1>4 DEF Tick, locals
    <2>2. StatesOccur'
      BY <1>4, <2>1, KeyTick DEF StatesOccur, Tracked
    <2>3. EventIsNewest' /\ EvidenceBacked' /\ ReadyToStart'
      BY <2>1 DEF EventIsNewest, EvidenceBacked, ReadyToStart, Chain, Tracked
    <2>4. NotCounted'
      <3>1. \A n \in Chains : <<event[d].cid, n>> \in Keys
        BY LocalTypes DEF Keys, Tracked, Typed
      <3> QED
        BY <1>4, <2>1, <3>1, KeyTick DEF NotCounted, Tracked
    <2>5. ReadyToExtend'
      <3>1. Key(d)' = Key(d) /\ Key(d) \in Keys /\ Chain(d)' = Chain(d)
        BY <2>1, LocalTypes DEF Key, Chain, Tracked, Typed
      <3>2. redis'[Key(d)] = redis[Key(d)] \/ redis'[Key(d)] = Missing
        BY <1>4, <3>1, KeyTick
      <3> QED
        BY <2>1, <3>1, <3>2 DEF ReadyToExtend, Tracked
    <2> QED
      BY <2>2, <2>3, <2>4, <2>5
  <1>5. CASE UNCHANGED vars
    BY <1>5 DEF vars, locals, Key, Chain, StatesOccur, EventIsNewest, NotCounted,
       ReadyToExtend, ReadyToStart, EvidenceBacked, Tracked
  <1> QED
    BY <1>1, <1>2, <1>3, <1>4, <1>5 DEF Next

\* At the start there is no evidence.
LEMMA TrackedInit == Init => Tracked
  <1>1. Init => StatesOccur /\ EventIsNewest /\ NotCounted /\ ReadyToExtend /\ ReadyToStart
    BY DEF Init, StatesOccur, EventIsNewest, NotCounted, ReadyToExtend, ReadyToStart
  <1>2. Init => EvidenceBacked
    BY DEF Init, EvidenceBacked
  <1> QED
    BY <1>1, <1>2, TypedInit DEF Tracked

\* With one brain no alert is ever raised for a sequence that was not observed: each of its
\* tactics was an event of that container, each after the one before it, and each is what
\* that step of the chain asked for when it was stored.  Failing Redis calls, keys that
\* expire at any point, a DEL that fails, crashes in the middle of Process and restarts with
\* any other chains.yml do not change that.
THEOREM AlertsAreBacked ==
  ASSUME NEW d, Brains = {d}
  PROVE  Spec => []EvidenceBacked
  <1>1. Tracked /\ [Next]_vars => Tracked'
    BY TrackedStep
  <1>2. Tracked => EvidenceBacked
    BY DEF Tracked
  <1> QED
    BY <1>1, <1>2, TrackedInit, PTL DEF Spec

-----------------------------------------------------------------------------
(* Every state gets its TTL, for any number of brains.                     *)

\* A brain step leaves a key without a TTL only when it is between SET and EXPIRE.
LEMMA ExpiryStep ==
  ASSUME Typed, EveryStateExpires, "expire" \notin Faults, NEW d \in Brains, BrainStep(d)
  PROVE  EveryStateExpires'
  <1> SUFFICES ASSUME NEW k \in Keys, redis'[k] # Missing, ~redis'[k].volatile
               PROVE  \E b \in Brains : pc'[b] = "expire" /\ Key(b)' = k
    BY DEF EveryStateExpires
  <1>1. ASSUME NEW b \in Brains, b # d, pc[b] = "expire", Key(b) = k
        PROVE  pc'[b] = "expire" /\ Key(b)' = k
    BY <1>1, OthersUntouched DEF Key
  <1>2. CASE redis'[k] = redis[k]
    <2>1. PICK b \in Brains : pc[b] = "expire" /\ Key(b) = k
      BY <1>2 DEF EveryStateExpires
    <2>2. b # d
      <3> SUFFICES ASSUME pc[d] = "expire", Key(d) = k PROVE FALSE
        BY <2>1
      <3>1. CreateExpire(d)
        BY DEF BrainStep, Get, CreateSet, CreateExpire, PromoteWatch, PromoteRead,
           PromoteExec, PromoteConflict, Complete, CallFails
      <3>2. redis[k] \in Entry /\ redis'[k] = [redis[k] EXCEPT !.volatile = TRUE,
                                                               !.expires = now + TTL(d)]
        BY <1>2, <3>1 DEF CreateExpire, Write, Typed, TypeOK
      <3>3. redis'[k].volatile
        BY <3>2 DEF Entry
      <3> QED
        BY <3>3
    <2> QED
      BY <1>1, <2>1, <2>2
  <1>3. CASE k = Key(d) /\ pc[d] = "set" /\ redis'[k] = NewState(d)
    <2>1. CreateSet(d) \/ Return(d)
      BY <1>3 DEF BrainStep, Get, CreateSet, CreateExpire, PromoteWatch, PromoteRead,
         PromoteExec, PromoteConflict, Complete, CallFails
    <2>2. CASE CreateSet(d)
      <3>1. pc'[d] = "expire" /\ Key(d)' = Key(d)
        BY <2>2 DEF CreateSet, Goto, Key, locals, Typed, TypeOK
      <3> QED
        BY <1>3, <3>1
    <2>3. CASE ~CreateSet(d)
      <3>1. redis' = redis
        BY <1>3, <2>3 DEF BrainStep, Get, CreateExpire, PromoteWatch, PromoteRead,
           PromoteExec, PromoteConflict, Complete, CallFails
      <3>2. PICK b \in Brains : pc[b] = "expire" /\ Key(b) = k
        BY <3>1 DEF EveryStateExpires
      <3> QED
        BY <1>1, <1>3, <3>2
    <2> QED
      BY <2>2, <2>3
  <1>4. CASE redis[k] # Missing /\ redis'[k] = [redis[k] EXCEPT !.volatile = TRUE,
                                                                !.expires = now + TTL(d)]
    <2>1. redis[k] \in Entry
      BY <1>4 DEF Typed, TypeOK
    <2>2. redis'[k].volatile
      BY <1>4, <2>1 DEF Entry
    <2> QED
      BY <2>2
  <1>5. CASE pc[d] = "exec" /\ redis'[k] = Promoted(d)
    <2>1. state[d] \in Entry
      BY <1>5 DEF Typed, TypeOK, HoldsState
    <2>2. redis'[k].volatile
      BY <1>5, <2>1 DEF Promoted, Entry
    <2> QED
      BY <2>2
  <1> QED
    BY <1>2, <1>3, <1>4, <1>5, KeyStep

\* The clock, new events and the steps of every brain keep to it.
LEMMA ExpiryNext ==
  ASSUME Typed, EveryStateExpires, "expire" \notin Faults, "crash" \notin Faults, [Next]_vars
  PROVE  EveryStateExpires'
  <1>1. ASSUME NEW d \in Brains, BrainStep(d) PROVE EveryStateExpires'
    BY <1>1, ExpiryStep
  <1>2. ASSUME NEW d \in Brains, NEW c \in Containers, NEW t \in Tactics, TakeEvent(d, c, t)
        PROVE  EveryStateExpires'
    <2>1. redis' = redis /\ pc[d] = "idle"
      BY <1>2 DEF TakeEvent
    <2>2. \A b \in Brains : b # d => pc'[b] = pc[b] /\ Key(b)' = Key(b)
      BY <1>2, OthersUntouched DEF Key
    <2> QED
      BY <2>1, <2>2 DEF EveryStateExpires
  <1>3. CASE Tick
    <2>1. UNCHANGED <<pc, event, chain>>
      BY <1>3 DEF Tick, locals
    <2> QED
      BY <1>3, <2>1, KeyTick DEF EveryStateExpires, Key
  <1>4. CASE UNCHANGED vars
    BY <1>4 DEF vars, EveryStateExpires, Key
  <1> QED
    BY <1>1, <1>2, <1>3, <1>4 DEF Next, Restart

\* Unless a Create is cut in two, by a failing EXPIRE or by a crash, no state of Redis
\* lives for ever, whatever brains write, promote and delete the key at the same time.
THEOREM StatesExpire ==
  ASSUME "expire" \notin Faults, "crash" \notin Faults
  PROVE  Spec => []EveryStateExpires
  <1>1. Init => EveryStateExpires
    BY DEF Init, EveryStateExpires
  <1>2. Typed /\ EveryStateExpires /\ [Next]_vars => EveryStateExpires'
    BY ExpiryNext
  <1> QED
    BY <1>1, <1>2, TypedInit, TypedStep, PTL DEF Spec

-----------------------------------------------------------------------------
(* A state beyond the end of its chain, for one brain, under every fault    *)
(* and with any chains.yml after a restart.                                 *)

\* Once Process has decided to act on a key, the state there is within the chain or gone.
ActsWithin == \A b \in Brains : pc[b] \notin {"idle", "get"} => ~Beyond(b, Key(b))

\* What one step of brain d leaves alone: every key but its own, and that one too until it
\* sends a command that writes.
LEMMA Untouched ==
  ASSUME Typed, NEW d \in Brains, BrainStep(d), NEW k \in Keys,
         k # Key(d) \/ pc[d] \in {"idle", "get"}
  PROVE  redis'[k] = redis[k]
  BY DEF BrainStep, Get, CreateSet, CreateExpire, PromoteWatch, PromoteRead, PromoteExec,
     PromoteConflict, Complete, Delete, CallFails, Write, Typed, TypeOK

\* A state that was missing or within its chain is so after an expiry.
LEMMA BeyondTick ==
  ASSUME Typed, Tick, NEW b \in Brains, NEW k \in Keys, ~Beyond(b, k)
  PROVE  ~Beyond(b, k)'
  BY KeyTick DEF Tick, Beyond

\* Every step of one brain keeps it.
LEMMA ActsWithinStep ==
  ASSUME NEW d, Brains = {d}, Typed, ActsWithin, [Next]_vars
  PROVE  ActsWithin'
  <1> SUFFICES ASSUME pc'[d] \notin {"idle", "get"} PROVE ~Beyond(d, Key(d))'
    BY DEF ActsWithin
  <1>0. Key(d) \in Keys /\ Key(d)[2] = chain[d] /\ version[d] \in Versions /\ chain[d] \in Chains
    BY LocalTypes DEF Key, Typed, TypeOK
  <1>1. CASE BrainStep(d)
    <2>1. UNCHANGED <<event, chain, version>> /\ Key(d)' = Key(d)
      BY <1>1 DEF BrainStep, Get, CreateSet, CreateExpire, PromoteWatch, PromoteRead,
         PromoteExec, PromoteConflict, Complete, CallFails, Return, Goto, locals, Key, Typed, TypeOK
    <2>2. CASE Get(d)
      <3>1. redis' = redis /\ (redis[Key(d)] = Missing \/ HasNext(d, redis[Key(d)]))
        BY <2>2 DEF Get, Expects, Starts, Return, Goto, Typed, TypeOK
      <3>2. redis[Key(d)] \in Entry \cup {Missing}
        BY <1>0 DEF Typed, TypeOK
      <3>3. redis[Key(d)] # Missing => redis[Key(d)].step \in Nat
        BY <3>2 DEF Entry
      <3>4. Len(Chain(d)) \in Nat /\ Chain(d) = Sequence[version[d]][Key(d)[2]]
        BY <1>0, LocalTypes DEF Chain, Typed
      <3>5. ~Beyond(d, Key(d))
        BY <3>1, <3>3, <3>4 DEF HasNext, Beyond
      <3> QED
        BY <2>1, <3>1, <3>5 DEF Beyond
    <2>3. CASE CreateSet(d)
      <3>1. redis'[Key(d)] = NewState(d)
        BY <1>0, <2>3 DEF CreateSet, Write, Typed, TypeOK
      <3>2. Len(Chain(d)) >= 2 /\ Len(Chain(d)) \in Nat /\ Chain(d) = Sequence[version[d]][Key(d)[2]]
        BY <1>0, LocalTypes DEF Chain, Typed
      <3>3. redis'[Key(d)].step = 0
        BY <3>1 DEF NewState
      <3> QED
        BY <2>1, <3>2, <3>3 DEF Beyond
    <2>4. CASE PromoteWatch(d) \/ PromoteRead(d) \/ PromoteConflict(d)
      <3>1. redis' = redis /\ pc[d] \notin {"idle", "get"}
        BY <2>4 DEF PromoteWatch, PromoteRead, PromoteConflict
      <3> QED
        BY <2>1, <3>1 DEF ActsWithin, Beyond
    <2>5. CASE CreateExpire(d) \/ PromoteExec(d) \/ Complete(d) \/ CallFails(d)
      <3>1. pc'[d] \in {"idle", "get"}
        BY <2>5 DEF CreateExpire, PromoteExec, Complete, CallFails, Return, Goto, Typed, TypeOK
      <3> QED
        BY <3>1
    <2> QED
      BY <1>1, <2>2, <2>3, <2>4, <2>5 DEF BrainStep
  <1>2. ASSUME NEW c \in Containers, NEW t \in Tactics, TakeEvent(d, c, t)
        PROVE  ~Beyond(d, Key(d))'
    BY <1>2 DEF TakeEvent, Goto, Typed, TypeOK
  <1>3. ASSUME NEW w \in Versions, Restart(d, w) PROVE ~Beyond(d, Key(d))'
    BY <1>3 DEF Restart, Typed, TypeOK
  <1>4. CASE Tick
    <2>1. pc[d] \notin {"idle", "get"} /\ Key(d)' = Key(d)
      BY <1>4 DEF Tick, locals, Key
    <2> QED
      BY <1>0, <1>4, <2>1, BeyondTick DEF ActsWithin, Beyond
  <1>5. CASE UNCHANGED vars
    BY <1>5 DEF vars, locals, Key, ActsWithin, Beyond
  <1> QED
    BY <1>1, <1>2, <1>3, <1>4, <1>5 DEF Next

\* A step of one brain, of the clock or of a restart leaves a state beyond its chain alone,
\* but for its TTL.
LEMMA FrozenStep ==
  ASSUME NEW d, Brains = {d}, Typed, ActsWithin, [Next]_vars,
         NEW b \in Brains, NEW k \in Keys, Beyond(b, k)
  PROVE  redis'[k] = redis[k] \/ (redis'[k] = Missing /\ now' > now)
  <1>1. CASE BrainStep(d)
    BY <1>1, Untouched DEF ActsWithin
  <1>2. CASE UNCHANGED redis
    BY <1>2
  <1>3. CASE Tick
    BY <1>3, KeyTick DEF Tick, Typed, TypeOK
  <1> QED
    BY <1>1, <1>2, <1>3 DEF Next, TakeEvent, Restart, vars

\* With one brain a state beyond the end of a chain that became shorter stays as it is until
\* its TTL: no tactic advances it or starts the chain again, whatever fails and however
\* often the brain restarts (Safety check of Process).
THEOREM BeyondStaysFrozen ==
  ASSUME NEW d, Brains = {d}
  PROVE  Spec => BeyondIsFrozen
  <1>1. Init => ActsWithin
    BY DEF Init, ActsWithin
  <1>2. Typed /\ ActsWithin /\ [Next]_vars => ActsWithin'
    BY ActsWithinStep
  <1>3. Typed /\ ActsWithin /\ [Next]_vars =>
          [\A b \in Brains, k \in Keys : Beyond(b, k) /\ version'[b] = version[b] =>
             \/ redis'[k] = redis[k]
             \/ redis'[k] = Missing /\ now' > now]_vars
    BY FrozenStep
  <1> QED
    BY <1>1, <1>2, <1>3, TypedInit, TypedStep, PTL DEF Spec, BeyondIsFrozen

-----------------------------------------------------------------------------
(* How long an attempt lives, for one brain that keeps its chains.         *)

\* A state that waits for its EXPIRE has just been created ...
Young ==
  \A b \in Brains : pc[b] = "expire" /\ redis[Key(b)] # Missing => redis[Key(b)].started = now

\* ... and every other state has time left.
Alive == \A k \in Keys : redis[k] # Missing /\ redis[k].volatile => now < redis[k].expires

Living ==
  /\ Tracked /\ WatchFresh /\ EveryStateExpires
  /\ Young /\ Alive /\ LifetimeBound

\* One promotion more is one max_duration more.
LEMMA OneMore ==
  ASSUME NEW D \in Nat, NEW s \in Nat
  PROVE  (s + 1) * D \in Nat /\ (s + 1 + 1) * D = (s + 1) * D + D
  OBVIOUS

\* What a brain does to a key keeps it within its time.
LEMMA LivingStep ==
  ASSUME Living, NEW d, Brains = {d}, NEW v, Versions = {v}, BrainStep(d)
  PROVE  Young' /\ Alive' /\ LifetimeBound'
  <1>1. Typed /\ d \in Brains /\ version[d] = v /\ version' = version /\ now' = now
    BY OthersUntouched DEF Living, Tracked, Typed, TypeOK, BrainStep, Get, CreateSet,
       CreateExpire, PromoteWatch, PromoteRead, PromoteExec, PromoteConflict, Complete, CallFails
  <1>2. Key(d) \in Keys /\ Key(d)[2] = chain[d] /\ now \in Nat
    BY <1>1, LocalTypes DEF Key, Typed, TypeOK
  <1>3. TTL(d) = MaxDuration[v][chain[d]] /\ TTL(d) \in Nat /\ TTL(d) > 0
    BY <1>1, FsmAssumption DEF TTL, Typed, TypeOK, FsmAssumption
  <1>4. Young'
    <2> SUFFICES ASSUME pc'[d] = "expire" PROVE redis'[Key(d)'].started = now
      BY <1>1 DEF Young
    <2>1. CreateSet(d)
      <3>1. ~Return(d)
        BY <1>1 DEF Return, Goto, Typed, TypeOK
      <3> QED
        BY <1>1, <3>1 DEF BrainStep, Get, CreateExpire, PromoteWatch, PromoteRead,
           PromoteExec, PromoteConflict, Complete, CallFails, Goto, Typed, TypeOK
    <2>2. redis'[Key(d)] = NewState(d) /\ Key(d)' = Key(d)
      BY <1>1, <1>2, <2>1 DEF CreateSet, Write, Key, locals, Typed, TypeOK
    <2> QED
      BY <2>2 DEF NewState
  <1>5. ASSUME NEW k \in Keys, redis'[k] # Missing, redis'[k].volatile
        PROVE  /\ now < redis'[k].expires
               /\ redis'[k].expires <= redis'[k].started
                                       + (redis'[k].step + 1) * MaxDuration[v][k[2]]
    <2>1. CASE redis'[k] = redis[k]
      BY <1>1, <1>5, <2>1 DEF Living, Alive, LifetimeBound
    <2>2. CASE redis'[k] = NewState(d)
      BY <1>5, <2>2 DEF NewState
    <2>3. CASE /\ k = Key(d) /\ pc[d] = "expire" /\ redis[k] # Missing
               /\ redis'[k] = [redis[k] EXCEPT !.volatile = TRUE, !.expires = now + TTL(d)]
      <3>1. redis[k] \in Entry /\ redis[k].started = now
        BY <1>1, <2>3 DEF Living, Young, Typed, TypeOK
      <3>2. /\ redis'[k].expires = now + TTL(d) /\ redis'[k].started = now
            /\ redis'[k].step = redis[k].step /\ redis[k].step \in Nat
        BY <2>3, <3>1 DEF Entry
      <3>3. (redis[k].step + 1) * TTL(d) >= TTL(d)
        BY <1>3, <3>2
      <3>4. (redis[k].step + 1) * TTL(d) \in Nat
        BY <1>3, <3>2, OneMore
      <3> QED
        BY <1>2, <1>3, <2>3, <3>2, <3>3, <3>4
    <2>4. CASE k = Key(d) /\ pc[d] = "exec" /\ ~Conflict(d) /\ redis'[k] = Promoted(d)
      <3>1. state[d] \in Entry /\ state[d] # Missing
        BY <1>1, <2>4 DEF Typed, TypeOK, HoldsState
      <3>2. redis[k] = state[d] /\ next[d] = state[d].step + 1
        BY <1>1, <2>4 DEF Living, WatchFresh, Conflict, Tracked, ReadyToExtend
      <3>3. redis[k].volatile
        BY <1>1, <2>4, <3>1, <3>2 DEF Living, EveryStateExpires
      <3>4. /\ now < state[d].expires
            /\ state[d].expires <= state[d].started + (state[d].step + 1) * TTL(d)
        BY <1>1, <1>2, <1>3, <2>4, <3>1, <3>2, <3>3 DEF Living, Alive, LifetimeBound
      <3>5. /\ redis'[k].expires = now + TTL(d) /\ redis'[k].started = state[d].started
            /\ redis'[k].step = state[d].step + 1
            /\ state[d].step \in Nat /\ state[d].started \in Nat /\ state[d].expires \in Nat
        BY <2>4, <3>1, <3>2 DEF Promoted, Entry
      <3>6. /\ (state[d].step + 1) * TTL(d) \in Nat
            /\ (state[d].step + 1 + 1) * TTL(d) = (state[d].step + 1) * TTL(d) + TTL(d)
        BY <1>3, <3>5, OneMore
      <3>7. now + TTL(d) <= state[d].started + (state[d].step + 1 + 1) * TTL(d)
        BY <1>2, <1>3, <3>4, <3>5, <3>6
      <3> QED
        BY <1>2, <1>3, <2>4, <3>5, <3>7
    <2> QED
      BY <1>1, <1>5, <2>1, <2>2, <2>3, <2>4, KeyStep
  <1>6. Alive'
    BY <1>1, <1>5 DEF Alive
  <1>7. LifetimeBound'
    BY <1>1, <1>5 DEF LifetimeBound
  <1> QED
    BY <1>4, <1>6, <1>7

\* Every step keeps every state within its time.
LEMMA LivingNext ==
  ASSUME Living, NEW d, Brains = {d}, NEW v, Versions = {v},
         "expire" \notin Faults, "crash" \notin Faults, [Next]_vars
  PROVE  Living'
  <1>1. Tracked' /\ WatchFresh' /\ EveryStateExpires'
    BY TrackedStep, WatchedStep, ExpiryNext DEF Living, Tracked, Watched
  <1> SUFFICES Young' /\ Alive' /\ LifetimeBound'
    BY <1>1 DEF Living
  <1>2. CASE BrainStep(d)
    BY <1>2, LivingStep
  <1>3. ASSUME NEW c \in Containers, NEW t \in Tactics, TakeEvent(d, c, t)
        PROVE  Young' /\ Alive' /\ LifetimeBound'
    <2>1. UNCHANGED <<now, redis, version>> /\ pc'[d] = "get"
      BY <1>3 DEF TakeEvent, Goto, Living, Tracked, Typed, TypeOK
    <2> QED
      BY <2>1 DEF Young, Alive, LifetimeBound, Living
  <1>4. CASE Tick
    <2>1. UNCHANGED <<pc, event, chain, version>> /\ now' = now + 1 /\ now \in Nat
      BY <1>4 DEF Tick, locals, Living, Tracked, Typed, TypeOK
    <2>2. Young'
      BY <1>4, <2>1 DEF Tick, Young
    <2>3. ASSUME NEW k \in Keys, redis'[k] # Missing
          PROVE  redis'[k] = redis[k] /\ (redis[k].volatile => now' < redis[k].expires)
      <3>1. redis'[k] = redis[k] /\ ~Expired(k, now + 1) /\ redis[k] \in Entry
        BY <1>4, <2>3 DEF Tick, Living, Tracked, Typed, TypeOK
      <3>2. redis[k].expires \in Nat
        BY <3>1 DEF Entry
      <3> QED
        BY <2>1, <2>3, <3>1, <3>2 DEF Expired
    <2>4. Alive' /\ LifetimeBound'
      BY <2>1, <2>3 DEF Alive, LifetimeBound, Living
    <2> QED
      BY <2>2, <2>4
  <1>5. CASE UNCHANGED vars
    BY <1>5 DEF vars, Young, Alive, LifetimeBound, Key, Living
  <1> QED
    BY <1>2, <1>3, <1>4, <1>5 DEF Next, Restart

\* An attempt at step s ends at most (s + 1) * max_duration after it began: each promotion
\* finds the state alive and gives it one max_duration more (Promote, EXPIRE).  This is how far
\* the code is from the documented bound, one max_duration from the first to the last step.
THEOREM AttemptsAge ==
  ASSUME NEW d, Brains = {d}, NEW v, Versions = {v},
         "expire" \notin Faults, "crash" \notin Faults
  PROVE  Spec => []LifetimeBound
  <1>1. Init => Living
    <2>1. Init => Tracked
      BY TrackedInit
    <2>2. Init => WatchFresh /\ EveryStateExpires /\ Young /\ Alive /\ LifetimeBound
      BY DEF Init, WatchFresh, EveryStateExpires, Young, Alive, LifetimeBound
    <2> QED
      BY <2>1, <2>2 DEF Living
  <1>2. Living /\ [Next]_vars => Living'
    BY LivingNext
  <1>3. Living => LifetimeBound
    BY DEF Living
  <1> QED
    BY <1>1, <1>2, <1>3, PTL DEF Spec

-----------------------------------------------------------------------------
(* No event counts twice, for one brain whose DELs arrive.                 *)

\* All positions of x come before all positions of y.
Precedes(x, y) == \A i \in 1 .. Len(x), j \in 1 .. Len(y) : x[i] < y[j]

\* A stored attempt is younger than the alerts of its chain ...
StoredLater ==
  \A k \in Keys : redis[k] # Missing =>
    \A a \in alerts : a.key = k => Precedes(a.evidence, redis[k].evidence)

\* ... and so is the attempt that a brain holds ...
HeldLater ==
  \A b \in Brains : pc[b] \in {"watch", "read", "exec", "delete"} =>
    \A a \in alerts : a.key = Key(b) => Precedes(a.evidence, state[b].evidence)

\* ... and the event under way, for the chains that have not had it.
EventLater ==
  \A b \in Brains, n \in Chains : pc[b] # "idle" /\ n >= chain[b] =>
    \A a \in alerts : a.key = <<event[b].cid, n>> => Earlier(a.evidence, event[b].pos)

Separate == Tracked /\ StoredLater /\ HeldLater /\ EventLater /\ DisjointEvidence

\* Extending an attempt by a later position keeps it younger.
LEMMA PrecedesNext ==
  ASSUME NEW x \in Seq(Nat), NEW y \in Seq(Nat), NEW p \in Nat, Precedes(x, y), Earlier(x, p)
  PROVE  Precedes(x, Append(y, p))
  <1>1. Len(Append(y, p)) = Len(y) + 1 /\ Append(y, p)[Len(y) + 1] = p
        /\ \A j \in 1 .. Len(y) : Append(y, p)[j] = y[j]
    OBVIOUS
  <1> SUFFICES ASSUME NEW i \in 1 .. Len(x), NEW j \in 1 .. Len(y) + 1
               PROVE  x[i] < Append(y, p)[j]
    BY <1>1 DEF Precedes
  <1>2. CASE j = Len(y) + 1
    BY <1>1, <1>2 DEF Earlier
  <1>3. CASE j \in 1 .. Len(y)
    BY <1>1, <1>3 DEF Precedes
  <1> QED
    BY <1>2, <1>3

\* Where one sequence precedes another, they share no position.
LEMMA PrecedesDisjoint ==
  ASSUME NEW x \in Seq(Nat), NEW y \in Seq(Nat), Precedes(x, y)
  PROVE  \A i \in 1 .. Len(x), j \in 1 .. Len(y) : x[i] # y[j]
  <1> SUFFICES ASSUME NEW i \in 1 .. Len(x), NEW j \in 1 .. Len(y) PROVE x[i] # y[j]
    OBVIOUS
  <1>1. x[i] < y[j] /\ x[i] \in Nat /\ y[j] \in Nat
    BY DEF Precedes
  <1> QED
    BY <1>1

\* What a brain holds, extended by its event, is younger than the alerts of its chain.
LEMMA ExtendedLater ==
  ASSUME Separate, NEW b \in Brains, pc[b] \in {"watch", "read", "exec", "delete"},
         NEW a \in alerts, a.key = Key(b)
  PROVE  Precedes(a.evidence, Append(state[b].evidence, event[b].pos))
  <1>1. a.evidence \in Seq(Nat) /\ state[b].evidence \in Seq(Nat) /\ event[b].pos \in Nat
    BY LocalTypes DEF Separate, Tracked, Typed, TypeOK, HoldsState, Alert, Entry
  <1>2. Precedes(a.evidence, state[b].evidence)
    BY DEF Separate, HeldLater
  <1>3. Earlier(a.evidence, event[b].pos)
    <2>1. chain[b] \in Chains /\ chain[b] >= chain[b] /\ pc[b] # "idle"
      BY LocalTypes DEF Separate, Tracked, Typed, TypeOK, Chains
    <2> QED
      BY <2>1 DEF Separate, EventLater, Key
  <1> QED
    BY <1>1, <1>2, <1>3, PrecedesNext

\* The alerts that are there stay behind what a brain stores.
LEMMA StoredStep ==
  ASSUME Separate, NEW d, Brains = {d}, BrainStep(d), NEW k \in Keys, redis'[k] # Missing,
         NEW a \in alerts, a.key = k
  PROVE  Precedes(a.evidence, redis'[k].evidence)
  <1>1. Typed /\ d \in Brains
    BY DEF Separate, Tracked
  <1>2. CASE redis'[k] = redis[k]
    BY <1>2 DEF Separate, StoredLater
  <1>3. CASE k = Key(d) /\ pc[d] = "set" /\ redis'[k] = NewState(d)
    <2>1. redis'[k].evidence = <<event[d].pos>> /\ event[d].pos \in Nat
      BY <1>1, <1>3, LocalTypes DEF NewState, Typed
    <2>2. chain[d] \in Chains /\ chain[d] >= chain[d] /\ pc[d] # "idle"
      BY <1>1, <1>3, LocalTypes DEF Typed, Chains
    <2>3. Earlier(a.evidence, event[d].pos)
      BY <1>1, <1>3, <2>2 DEF Separate, EventLater, Key
    <2> QED
      BY <2>1, <2>3 DEF Precedes, Earlier
  <1>4. CASE redis[k] # Missing /\ redis'[k] = [redis[k] EXCEPT !.volatile = TRUE,
                                                                !.expires = now + TTL(d)]
    <2>1. redis[k] \in Entry
      BY <1>1, <1>4 DEF Typed, TypeOK
    <2>2. redis'[k].evidence = redis[k].evidence
      BY <1>4, <2>1 DEF Entry
    <2> QED
      BY <1>4, <2>2 DEF Separate, StoredLater
  <1>5. CASE k = Key(d) /\ pc[d] = "exec" /\ redis'[k] = Promoted(d)
    <2>1. state[d] \in Entry
      BY <1>1, <1>5 DEF Typed, TypeOK, HoldsState
    <2>2. redis'[k].evidence = Append(state[d].evidence, event[d].pos)
      BY <1>5, <2>1 DEF Promoted, Entry
    <2> QED
      BY <1>1, <1>5, <2>2, ExtendedLater
  <1> QED
    BY <1>1, <1>2, <1>3, <1>4, <1>5, KeyStep

\* The state in hand stays the one that was read.
LEMMA HeldStep ==
  ASSUME Separate, NEW d, Brains = {d}, BrainStep(d),
         pc'[d] \in {"watch", "read", "exec", "delete"}
  PROVE  /\ alerts' = alerts /\ Key(d)' = Key(d)
         /\ \A a \in alerts : a.key = Key(d) => Precedes(a.evidence, state'[d].evidence)
  <1>1. Typed /\ d \in Brains
    BY DEF Separate, Tracked
  <1>2. ~Return(d) /\ ~CreateSet(d)
    BY <1>1 DEF CreateSet, Return, Goto, Typed, TypeOK
  <1>3. alerts' = alerts /\ Key(d)' = Key(d)
    BY <1>1, <1>2 DEF BrainStep, Get, CreateExpire, PromoteWatch, PromoteRead, PromoteExec,
       PromoteConflict, Complete, CallFails, Key, locals
  <1>4. \/ state'[d] = state[d] /\ pc[d] \in {"watch", "read", "exec", "delete"}
        \/ state'[d] = redis[Key(d)] /\ redis[Key(d)] # Missing
    <2>1. CASE Get(d)
      <3>1. Expects(d, redis[Key(d)])
        BY <1>1, <1>2, <2>1 DEF Get, Goto, Typed, TypeOK
      <3> QED
        BY <1>1, <2>1, <3>1 DEF Get, Starts, Expects, HasNext, Typed, TypeOK
    <2>2. CASE ~Get(d)
      BY <1>1, <1>2, <2>2 DEF BrainStep, CreateExpire, PromoteWatch, PromoteRead, PromoteExec,
         PromoteConflict, Complete, CallFails, Goto, locals, Typed, TypeOK
    <2> QED
      BY <2>1, <2>2
  <1>5. Key(d) \in Keys
    BY <1>1, LocalTypes DEF Typed
  <1> QED
    BY <1>1, <1>3, <1>4, <1>5 DEF Separate, HeldLater, StoredLater

\* A completion adds one alert and leaves the chain.
LEMMA CompleteStep ==
  ASSUME Separate, NEW d, Brains = {d}, "delete" \notin Faults, Complete(d)
  PROVE  StoredLater' /\ HeldLater' /\ EventLater' /\ DisjointEvidence'
  <1>1. Typed /\ d \in Brains /\ Key(d) \in Keys /\ chain[d] \in Chains /\ pc[d] = "delete"
    BY LocalTypes DEF Separate, Tracked, Typed, Complete
  <1>2. alerts' = alerts \cup {Finding(d)} /\ Return(d) /\ event' = event
    BY DEF Complete, Return
  <1>3. Finding(d).key = Key(d)
        /\ Finding(d).evidence = Append(state[d].evidence, event[d].pos)
    BY DEF Finding
  <1>4. redis'[Key(d)] = Missing
    BY <1>1 DEF Complete, Delete, Write, Typed, TypeOK
  <1>5. StoredLater'
    <2> SUFFICES ASSUME NEW k \in Keys, redis'[k] # Missing, NEW a \in alerts', a.key = k
                 PROVE  Precedes(a.evidence, redis'[k].evidence)
      BY DEF StoredLater
    <2>1. k # Key(d) /\ a # Finding(d)
      BY <1>3, <1>4
    <2>2. a \in alerts
      BY <1>2, <2>1
    <2> QED
      BY <2>2, StoredStep DEF BrainStep
  <1>6. HeldLater'
    <2>1. pc'[d] \in {"idle", "get"}
      BY <1>1, <1>2 DEF Return, Goto, Typed, TypeOK
    <2> QED
      BY <2>1 DEF HeldLater
  <1>7. EventLater'
    <2> SUFFICES ASSUME NEW n \in Chains, pc'[d] # "idle", n >= chain'[d],
                        NEW a \in alerts', a.key = <<event[d].cid, n>>
                 PROVE  Earlier(a.evidence, event[d].pos)
      BY <1>2 DEF EventLater
    <2>1. chain'[d] = chain[d] + 1 /\ chain[d] \in Nat /\ n \in Nat
      BY <1>1, <1>2 DEF Return, Goto, Typed, TypeOK, Chains
    <2>2. n # chain[d] /\ n >= chain[d]
      BY <2>1
    <2>3. a \in alerts
      BY <1>2, <1>3, <2>2 DEF Key
    <2> QED
      BY <1>1, <2>2, <2>3 DEF Separate, EventLater
  <1>8. DisjointEvidence'
    <2>1. /\ Finding(d).evidence \in Seq(Nat)
          /\ \A a \in alerts : a.evidence \in Seq(Nat)
      BY <1>1, <1>3, LocalTypes DEF Typed, TypeOK, HoldsState, Entry, Alert
    <2>2. ASSUME NEW a \in alerts, a.key = Key(d)
          PROVE  \A i \in 1 .. Len(a.evidence), j \in 1 .. Len(Finding(d).evidence) :
                   a.evidence[i] # Finding(d).evidence[j]
      <3>1. Precedes(a.evidence, Finding(d).evidence)
        BY <1>1, <1>3, <2>2, ExtendedLater
      <3> QED
        BY <2>1, <3>1, PrecedesDisjoint
    <2> SUFFICES ASSUME NEW x \in alerts', NEW y \in alerts', x # y, x.key = y.key,
                        NEW i \in 1 .. Len(x.evidence), NEW j \in 1 .. Len(y.evidence)
                 PROVE  x.evidence[i] # y.evidence[j]
      BY DEF DisjointEvidence
    <2>3. CASE x \in alerts /\ y \in alerts
      BY <2>3 DEF Separate, DisjointEvidence
    <2>4. CASE x \in alerts /\ y = Finding(d)
      BY <1>3, <2>2, <2>4
    <2>5. CASE x = Finding(d) /\ y \in alerts
      BY <1>3, <2>2, <2>5
    <2> QED
      BY <1>2, <2>3, <2>4, <2>5
  <1> QED
    BY <1>5, <1>6, <1>7, <1>8

\* A new event is younger than every alert.
LEMMA SeparateTake ==
  ASSUME Separate, NEW d, Brains = {d},
         NEW c \in Containers, NEW t \in Tactics, TakeEvent(d, c, t)
  PROVE  StoredLater' /\ HeldLater' /\ EventLater' /\ DisjointEvidence'
  <1>1. /\ event'[d] = [cid |-> c, tactic |-> t, pos |-> Len(observed[c]) + 1]
        /\ pc'[d] = "get" /\ UNCHANGED <<redis, alerts>>
    BY DEF TakeEvent, Goto, Separate, Tracked, Typed, TypeOK
  <1>2. ASSUME NEW n \in Chains, NEW a \in alerts, a.key = <<c, n>>
        PROVE  Earlier(a.evidence, Len(observed[c]) + 1)
    <2>1. a.evidence \in Seq(Nat) /\ Len(observed[c]) \in Nat
      BY DEF Separate, Tracked, Typed, TypeOK, Alert
    <2>2. \E m : Occurs(a.evidence, observed[c], n, m)
      BY <1>2 DEF Separate, Tracked, EvidenceBacked
    <2>3. \A i \in 1 .. Len(a.evidence) : a.evidence[i] \in 1 .. Len(observed[c])
      BY <2>2 DEF Occurs
    <2> QED
      BY <2>1, <2>3, WithinIsEarlier
  <1>3. EventLater'
    BY <1>1, <1>2 DEF EventLater
  <1> QED
    BY <1>1, <1>3 DEF StoredLater, HeldLater, DisjointEvidence, Separate

\* Every step keeps the alerts of a chain apart.
LEMMA SeparateNext ==
  ASSUME Separate, NEW d, Brains = {d}, "delete" \notin Faults, [Next]_vars
  PROVE  Separate'
  <1> SUFFICES StoredLater' /\ HeldLater' /\ EventLater' /\ DisjointEvidence'
    BY TrackedStep DEF Separate
  <1>1. CASE BrainStep(d) /\ ~Complete(d)
    <2>1. /\ UNCHANGED <<alerts, event>> /\ pc[d] # "idle"
          /\ chain'[d] \in {chain[d], chain[d] + 1} /\ chain[d] \in Nat
      BY <1>1 DEF BrainStep, Get, CreateSet, CreateExpire, PromoteWatch, PromoteRead,
         PromoteExec, PromoteConflict, CallFails, Return, locals, Separate, Tracked, Typed,
         TypeOK, Chains
    <2>2. StoredLater'
      BY <1>1, <2>1, StoredStep DEF StoredLater
    <2>3. HeldLater'
      BY <1>1, HeldStep DEF HeldLater
    <2>4. EventLater'
      <3>1. \A n \in Chains : n >= chain'[d] => n >= chain[d]
        BY <2>1 DEF Chains
      <3> QED
        BY <2>1, <3>1 DEF EventLater, Separate
    <2> QED
      BY <2>1, <2>2, <2>3, <2>4 DEF DisjointEvidence, Separate
  <1>2. CASE Complete(d)
    BY <1>2, CompleteStep
  <1>3. ASSUME NEW c \in Containers, NEW t \in Tactics, TakeEvent(d, c, t)
        PROVE  StoredLater' /\ HeldLater' /\ EventLater' /\ DisjointEvidence'
    BY <1>3, SeparateTake
  <1>4. ASSUME NEW w \in Versions, Restart(d, w)
        PROVE  StoredLater' /\ HeldLater' /\ EventLater' /\ DisjointEvidence'
    <2>1. pc'[d] = "idle" /\ UNCHANGED <<redis, alerts>>
      BY <1>4 DEF Restart, Separate, Tracked, Typed, TypeOK
    <2> QED
      BY <2>1 DEF StoredLater, HeldLater, EventLater, DisjointEvidence, Separate
  <1>5. CASE Tick
    <2>1. UNCHANGED <<event, chain, state, pc, alerts>>
      BY <1>5 DEF Tick, locals
    <2>2. StoredLater'
      BY <1>5, <2>1, KeyTick DEF StoredLater, Separate
    <2> QED
      BY <2>1, <2>2 DEF HeldLater, EventLater, DisjointEvidence, Key, Separate
  <1>6. CASE UNCHANGED vars
    BY <1>6 DEF vars, StoredLater, HeldLater, EventLater, DisjointEvidence, Key, Separate
  <1> QED
    BY <1>1, <1>2, <1>3, <1>4, <1>5, <1>6 DEF Next

\* With one brain whose DELs arrive no event is evidence for two alerts of a chain: the
\* completing event deletes the state and starts no other, and everything that is stored
\* later is younger.  Crashes, other failing calls and new chain tables do not change that.
THEOREM AlertsAreDisjoint ==
  ASSUME NEW d, Brains = {d}, "delete" \notin Faults
  PROVE  Spec => []DisjointEvidence
  <1>1. Init => Separate
    <2>1. Init => StoredLater /\ HeldLater /\ EventLater /\ DisjointEvidence
      BY DEF Init, StoredLater, HeldLater, EventLater, DisjointEvidence
    <2> QED
      BY <2>1, TrackedInit DEF Separate
  <1>2. Separate /\ [Next]_vars => Separate'
    BY SeparateNext
  <1>3. Separate => DisjointEvidence
    BY DEF Separate
  <1> QED
    BY <1>1, <1>2, <1>3, PTL DEF Spec

-----------------------------------------------------------------------------
(* Process implements AttackChain, for one brain that loses no DEL; it may  *)
(* crash and start again with any chains.yml.                              *)

\* The refinement mapping.
Table    == version[TheBrain]
Progress == [k \in Keys |-> IF InHand(k) THEN state[TheBrain].evidence
                            ELSE IF redis[k] = Missing THEN << >> ELSE redis[k].evidence]
\* ... of what is stored.
Stored   == [k \in Keys |-> IF redis[k] = Missing THEN << >> ELSE redis[k].evidence]

\* A new attempt takes the place of none that waits for the same tactic, or for nothing.
StartIsChosen ==
  \A b \in Brains : pc[b] = "set" =>
    \/ redis[Key(b)] = Missing
    \/ HasNext(b, redis[Key(b)]) /\ ~Expects(b, redis[Key(b)])

Refining == Tracked /\ WatchFresh /\ StartIsChosen

\* The invariant holds of what StartIsChosen adds.
LEMMA StartIsChosenStep ==
  ASSUME Typed, StartIsChosen, NEW d, Brains = {d}, BrainStep(d)
  PROVE  StartIsChosen'
  <1> SUFFICES ASSUME pc'[d] = "set"
               PROVE  \/ redis'[Key(d)'] = Missing
                      \/ HasNext(d, redis[Key(d)])' /\ ~Expects(d, redis[Key(d)])'
    BY DEF StartIsChosen, Expects, HasNext
  <1>1. ~Return(d)
    BY DEF Return, Goto, Typed, TypeOK
  <1>2. Get(d) /\ Starts(d, redis[Key(d)]) /\ UNCHANGED <<redis, version, locals>>
    BY <1>1 DEF BrainStep, Get, CreateSet, CreateExpire, PromoteWatch, PromoteRead,
       PromoteExec, PromoteConflict, Complete, CallFails, Goto, Typed, TypeOK
  <1>3. redis[Key(d)] = Missing \/ (HasNext(d, redis[Key(d)]) /\ ~Expects(d, redis[Key(d)]))
    BY <1>2 DEF Starts
  <1> QED
    BY <1>2, <1>3 DEF Expects, HasNext, Key, Chain, locals

\* Every step keeps what the refinement rests on.
LEMMA RefiningStep ==
  ASSUME Refining, NEW d, Brains = {d}, [Next]_vars
  PROVE  Refining'
  <1>1. Tracked' /\ WatchFresh'
    BY TrackedStep, WatchedStep DEF Refining, Tracked, Watched
  <1>2. StartIsChosen'
    <2>1. CASE BrainStep(d)
      BY <2>1, StartIsChosenStep DEF Refining, Tracked
    <2>2. ASSUME NEW c \in Containers, NEW t \in Tactics, TakeEvent(d, c, t)
          PROVE  StartIsChosen'
      <3>1. pc'[d] = "get"
        BY <2>2 DEF TakeEvent, Goto, Refining, Tracked, Typed, TypeOK
      <3> QED
        BY <3>1 DEF StartIsChosen
    <2>3. ASSUME NEW w \in Versions, Restart(d, w) PROVE StartIsChosen'
      <3>1. pc'[d] = "idle"
        BY <2>3 DEF Restart, Refining, Tracked, Typed, TypeOK
      <3> QED
        BY <3>1 DEF StartIsChosen
    <2>4. CASE Tick
      <3>1. UNCHANGED <<pc, event, chain, version>> /\ Key(d) \in Keys
        BY <2>4, LocalTypes DEF Tick, locals, Refining, Tracked, Typed
      <3>2. redis'[Key(d)] = redis[Key(d)] \/ redis'[Key(d)] = Missing
        BY <2>4, <3>1, KeyTick
      <3> QED
        BY <3>1, <3>2 DEF StartIsChosen, Expects, HasNext, Key, Chain, Refining
    <2>5. CASE UNCHANGED vars
      BY <2>5 DEF vars, locals, StartIsChosen, Expects, HasNext, Key, Chain, Refining
    <2> QED
      BY <2>1, <2>2, <2>3, <2>4, <2>5 DEF Next
  <1> QED
    BY <1>1, <1>2 DEF Refining

\* The chain table of the abstract detector is that of the brain.
LEMMA SameTable ==
  ASSUME NEW d, Brains = {d}
  PROVE  TheBrain = d /\ Table = version[d] /\ Chain(d) = Attack!Steps(Key(d))
  <1>1. TheBrain = d
    BY DEF TheBrain
  <1> QED
    BY <1>1 DEF Table, Chain, Key, Attack!Steps

\* While Process runs, the newest entry of the log is its event.
LEMMA EventMatches ==
  ASSUME Refining, NEW d, Brains = {d}, pc[d] # "idle", NEW i \in Nat
  PROVE  /\ Attack!Newest(Key(d)) = event[d].pos
         /\ Attack!Matches(Key(d), i) <=> i <= Len(Chain(d)) /\ event[d].tactic = Chain(d)[i]
  <1>1. /\ event[d].pos = Len(observed[event[d].cid]) /\ event[d].pos > 0
        /\ observed[event[d].cid][event[d].pos] = event[d].tactic
    BY DEF Refining, Tracked, EventIsNewest
  <1>2. Key(d)[1] = event[d].cid
    BY DEF Key
  <1>3. Chain(d) = Attack!Steps(Key(d))
    BY SameTable
  <1> QED
    BY <1>1, <1>2, <1>3 DEF Attack!Matches, Attack!Newest

\* Away from the completion, progress is what is stored.
LEMMA Unfinished ==
  ASSUME NEW d, Brains = {d}, pc[d] # "delete"
  PROVE  Progress = Stored
  BY SameTable DEF Progress, Stored, InHand

\* The same after a step.
LEMMA UnfinishedNext ==
  ASSUME NEW d, Brains = {d}, pc'[d] # "delete"
  PROVE  Progress' = Stored'
  BY SameTable DEF Progress, Stored, InHand

\* What a brain holds and its event continues is progress that is due.
LEMMA HeldIsFresh ==
  ASSUME Refining, NEW d \in Brains, pc[d] # "idle", NEW s \in Entry,
         Occurs(s.evidence, observed[event[d].cid], chain[d], s.step + 1),
         Earlier(s.evidence, event[d].pos)
  PROVE  /\ s.evidence # << >> /\ Len(s.evidence) = s.step + 1
         /\ s.evidence[Len(s.evidence)] < event[d].pos
  <1>1. Len(s.evidence) = s.step + 1 /\ s.step \in Nat /\ s.evidence \in Seq(Nat)
    BY DEF Occurs, Entry
  <1>2. s.step + 1 \in 1 .. Len(s.evidence)
    BY <1>1
  <1> QED
    BY <1>1, <1>2 DEF Earlier

\* What a brain that promotes or completes has in hand.
LEMMA HeldIsDue ==
  ASSUME Refining, NEW d, Brains = {d}, pc[d] \in {"exec", "delete"}
  PROVE  /\ state[d] \in Entry /\ Key(d) \in Keys
         /\ state[d].evidence # << >> /\ Len(state[d].evidence) = next[d]
         /\ state[d].evidence[Len(state[d].evidence)] < event[d].pos
         /\ next[d] \in Nat /\ Attack!Matches(Key(d), next[d] + 1)
         /\ Len(Chain(d)) \in Nat /\ Chain(d) = Attack!Steps(Key(d))
         /\ Attack!Newest(Key(d)) = event[d].pos
  <1>1. Typed /\ d \in Brains /\ state[d] \in Entry /\ Key(d) \in Keys /\ Len(Chain(d)) \in Nat
    BY LocalTypes DEF Refining, Tracked, Typed, TypeOK, HoldsState
  <1>2. /\ state[d].evidence # << >> /\ Len(state[d].evidence) = state[d].step + 1
        /\ state[d].evidence[Len(state[d].evidence)] < event[d].pos
    BY <1>1, HeldIsFresh DEF Refining, Tracked, ReadyToExtend
  <1>3. /\ next[d] = state[d].step + 1 /\ next[d] \in Nat /\ next[d] + 1 <= Len(Chain(d))
        /\ event[d].tactic = Chain(d)[next[d] + 1]
    BY <1>1 DEF Refining, Tracked, ReadyToExtend, Typed, TypeOK
  <1>4. next[d] + 1 \in Nat
    BY <1>3
  <1>5. Attack!Matches(Key(d), next[d] + 1) /\ Attack!Newest(Key(d)) = event[d].pos
    BY <1>3, <1>4, EventMatches
  <1> QED
    BY <1>1, <1>2, <1>3, <1>5, SameTable

\* A SET is the beginning of an attempt.
LEMMA BeginRefined ==
  ASSUME Refining, NEW d, Brains = {d}, CreateSet(d)
  PROVE  \E k \in Keys : Attack!Begin(k)
  <1>1. Typed /\ d \in Brains /\ pc[d] = "set" /\ pc'[d] = "expire" /\ Key(d) \in Keys
    BY LocalTypes DEF Refining, Tracked, Typed, TypeOK, CreateSet, Goto
  <1>2. /\ redis' = [redis EXCEPT ![Key(d)] = NewState(d)] /\ redis \in [Keys -> Entry \cup {Missing}]
        /\ UNCHANGED <<version, observed, alerts>>
    BY <1>1 DEF CreateSet, Write, Typed, TypeOK
  <1>3. NewState(d) # Missing /\ NewState(d).evidence = <<event[d].pos>>
    <2>1. NewState(d) \in Entry
      BY <1>1, EntryTypes DEF Typed
    <2> QED
      BY <2>1, MissingAssumption DEF NewState
  <1>4. Progress = Stored /\ Progress' = Stored'
    BY <1>1, Unfinished, UnfinishedNext
  <1>6. Attack!Newest(Key(d)) = event[d].pos /\ Attack!Matches(Key(d), 1)
    <2>1. event[d].tactic = Chain(d)[1] /\ 1 <= Len(Chain(d))
      BY <1>1, LocalTypes DEF Refining, Tracked, ReadyToStart, Typed
    <2> QED
      BY <1>1, <2>1, EventMatches
  <1>7. \/ Progress[Key(d)] = << >>
        \/ /\ Len(Progress[Key(d)]) < Len(Attack!Steps(Key(d)))
           /\ ~Attack!Matches(Key(d), Len(Progress[Key(d)]) + 1)
    <2> SUFFICES ASSUME redis[Key(d)] # Missing
                 PROVE  /\ Len(redis[Key(d)].evidence) < Len(Chain(d))
                        /\ ~Attack!Matches(Key(d), Len(redis[Key(d)].evidence) + 1)
      BY <1>1, <1>4, SameTable DEF Stored
    <2>1. redis[Key(d)] \in Entry /\ redis[Key(d)].step \in Nat
      BY <1>1, <1>2 DEF Entry
    <2>2. Len(redis[Key(d)].evidence) = redis[Key(d)].step + 1
      BY <1>1 DEF Refining, Tracked, StatesOccur, Occurs
    <2>3. redis[Key(d)].step + 1 < Len(Chain(d)) /\ ~Expects(d, redis[Key(d)])
      BY <1>1 DEF Refining, StartIsChosen, HasNext
    <2>4. event[d].tactic # Chain(d)[redis[Key(d)].step + 2]
      BY <2>3 DEF Expects, HasNext
    <2>5. redis[Key(d)].step + 2 \in Nat /\ Len(redis[Key(d)].evidence) + 1 = redis[Key(d)].step + 2
      BY <2>1, <2>2
    <2>6. ~Attack!Matches(Key(d), redis[Key(d)].step + 2)
      BY <1>1, <2>4, <2>5, EventMatches
    <2> QED
      BY <2>2, <2>3, <2>5, <2>6
  <1>8. Progress' = [Progress EXCEPT ![Key(d)] = <<event[d].pos>>]
    BY <1>1, <1>2, <1>3, <1>4 DEF Stored
  <1>9. PICK k \in Keys : k = Key(d)
    BY <1>1
  <1>10. Attack!Begin(k)
    BY <1>2, <1>6, <1>7, <1>8, <1>9 DEF Attack!Begin, Progress
  <1> QED
    BY <1>10

\* An EXEC that is not refused advances the attempt that was read.
LEMMA AdvanceRefined ==
  ASSUME Refining, NEW d, Brains = {d}, PromoteExec(d)
  PROVE  \E k \in Keys : Attack!Advance(k)
  <1>1. Typed /\ d \in Brains /\ pc[d] = "exec" /\ pc'[d] # "delete" /\ Key(d) \in Keys
    BY LocalTypes DEF Refining, Tracked, Typed, TypeOK, PromoteExec, Return, Goto
  <1>2. /\ redis' = [redis EXCEPT ![Key(d)] = Promoted(d)] /\ redis \in [Keys -> Entry \cup {Missing}]
        /\ UNCHANGED <<version, observed, alerts>>
    BY <1>1 DEF PromoteExec, Write, Typed, TypeOK
  <1>3. redis[Key(d)] = state[d] /\ state[d] \in Entry /\ state[d] # Missing
    BY <1>1, MissingAssumption
       DEF Refining, WatchFresh, PromoteExec, Conflict, Typed, TypeOK, HoldsState
  <1>4. Promoted(d) # Missing /\ Promoted(d).evidence = Append(state[d].evidence, event[d].pos)
    <2>1. Promoted(d) \in Entry
      BY <1>1, <1>3, EntryTypes DEF Typed
    <2> QED
      BY <1>3, <2>1, MissingAssumption DEF Promoted, Entry
  <1>5. Progress = Stored /\ Progress' = Stored'
    BY <1>1, Unfinished, UnfinishedNext
  <1>6. Progress[Key(d)] = state[d].evidence
        /\ Progress' = [Progress EXCEPT ![Key(d)] = Append(@, event[d].pos)]
    BY <1>1, <1>2, <1>3, <1>4, <1>5 DEF Stored
  <1>7. next[d] + 1 < Len(Chain(d))
    <2>1. next[d] + 1 <= Len(Chain(d)) /\ next[d] + 1 # Len(Chain(d))
      BY <1>1 DEF Refining, Tracked, ReadyToExtend
    <2> QED
      BY <1>1, <2>1, HeldIsDue
  <1>8. /\ Len(Progress[Key(d)]) + 1 < Len(Attack!Steps(Key(d)))
        /\ Attack!Matches(Key(d), Len(Progress[Key(d)]) + 1)
        /\ Attack!Newest(Key(d)) = event[d].pos
    BY <1>1, <1>6, <1>7, HeldIsDue
  <1>9. Attack!Fresh(Key(d))
    BY <1>1, <1>6, HeldIsDue DEF Attack!Fresh, Progress
  <1>10. PICK k \in Keys : k = Key(d)
    BY <1>1
  <1>11. Attack!Advance(k)
    BY <1>2, <1>6, <1>8, <1>9, <1>10 DEF Attack!Advance, Progress
  <1> QED
    BY <1>11

\* The DEL and the alert finish the attempt in hand.
LEMMA FinishRefined ==
  ASSUME Refining, NEW d, Brains = {d}, "delete" \notin Faults, Complete(d)
  PROVE  \E k \in Keys : Attack!Finish(k)
  <1>1. Typed /\ d \in Brains /\ pc[d] = "delete" /\ pc'[d] # "delete" /\ Key(d) \in Keys
    BY LocalTypes DEF Refining, Tracked, Typed, TypeOK, Complete, Return, Goto
  <1>2. /\ redis' = [redis EXCEPT ![Key(d)] = Missing] /\ redis \in [Keys -> Entry \cup {Missing}]
        /\ UNCHANGED <<version, observed>> /\ alerts' = alerts \cup {Finding(d)}
    BY <1>1 DEF Complete, Delete, Write, Typed, TypeOK
  <1>3. /\ Progress[Key(d)] = state[d].evidence
        /\ \A k \in Keys : k # Key(d) => Progress[k] = Stored[k]
    BY <1>1, SameTable DEF Progress, Stored, InHand
  <1>4. Progress' = [Progress EXCEPT ![Key(d)] = << >>]
    <2>1. Progress' = Stored'
      BY <1>1, UnfinishedNext
    <2> QED
      BY <1>1, <1>2, <1>3, <2>1 DEF Stored, Progress
  <1>5. Finding(d) = [key |-> Key(d), evidence |-> Append(Progress[Key(d)], event[d].pos)]
    BY <1>3 DEF Finding
  <1>6. next[d] + 1 = Len(Chain(d))
    BY <1>1 DEF Refining, Tracked, ReadyToExtend
  <1>7. /\ Len(Progress[Key(d)]) + 1 = Len(Attack!Steps(Key(d)))
        /\ Attack!Matches(Key(d), Len(Progress[Key(d)]) + 1)
        /\ Attack!Newest(Key(d)) = event[d].pos
    BY <1>1, <1>3, <1>6, HeldIsDue
  <1>8. Attack!Fresh(Key(d))
    BY <1>1, <1>3, HeldIsDue DEF Attack!Fresh, Progress
  <1>9. PICK k \in Keys : k = Key(d)
    BY <1>1
  <1>10. Attack!Finish(k)
    BY <1>2, <1>4, <1>5, <1>7, <1>8, <1>9 DEF Attack!Finish, Progress
  <1> QED
    BY <1>10

\* Expiry forgets progress, that in hand excepted.
LEMMA ForgetRefined ==
  ASSUME Refining, NEW d, Brains = {d}, Tick
  PROVE  \E K \in SUBSET Keys : Attack!Forget(K)
  <1> DEFINE K == {k \in Keys : Expired(k, now + 1) /\ ~InHand(k)}
  <1>1. /\ redis' = [k \in Keys |-> IF Expired(k, now + 1) THEN Missing ELSE redis[k]]
        /\ UNCHANGED <<version, pc, event, chain, state, observed, alerts>>
    BY DEF Tick, locals
  <1>2. \A k \in Keys : InHand(k)' <=> InHand(k)
    BY <1>1, SameTable DEF InHand, Key
  <1>3. Progress' = [k \in Keys |-> IF k \in K THEN << >> ELSE Progress[k]]
    BY <1>1, <1>2, SameTable DEF Progress, Expired
  <1>4. K \in SUBSET Keys /\ Keys = Attack!Keys
    BY DEF Keys, Chains, Attack!Keys, Attack!Chains
  <1>5. PICK L \in SUBSET Keys : L = K
    BY <1>4
  <1>6. Attack!Forget(L)
    BY <1>1, <1>3, <1>4, <1>5 DEF Attack!Forget, Attack!Forgotten, Progress
  <1> QED
    BY <1>6

\* A restart forgets what was in hand and has left Redis meanwhile; all else is stored.
LEMMA ReloadRefined ==
  ASSUME Refining, NEW d, Brains = {d}, NEW v \in Versions, Restart(d, v)
  PROVE  \E K \in SUBSET Keys : Attack!Reload(v, K)
  <1> DEFINE K == {k \in Keys : redis[k] = Missing}
  <1>1. /\ Typed /\ d \in Brains /\ version'[d] = v /\ pc'[d] # "delete"
        /\ UNCHANGED <<redis, observed, alerts>>
    BY DEF Restart, Refining, Tracked, Typed, TypeOK
  <1>2. Progress' = Stored
    <2>1. Progress' = Stored'
      BY <1>1, UnfinishedNext
    <2> QED
      BY <1>1, <2>1 DEF Stored
  <1>3. \A k \in Keys : redis[k] # Missing => Progress[k] = Stored[k]
    <2> SUFFICES ASSUME NEW k \in Keys, redis[k] # Missing, InHand(k)
                 PROVE  state[d].evidence = redis[k].evidence
      BY SameTable DEF Progress, Stored
    <2>1. pc[d] = "delete" /\ Key(d) = k
      BY SameTable DEF InHand
    <2> QED
      BY <1>1, <2>1 DEF Refining, Tracked, ReadyToExtend
  <1>4. Progress' = [k \in Keys |-> IF k \in K THEN << >> ELSE Progress[k]]
    BY <1>2, <1>3 DEF Stored
  <1>5. K \in SUBSET Keys /\ Keys = Attack!Keys
    BY DEF Keys, Chains, Attack!Keys, Attack!Chains
  <1>6. PICK L \in SUBSET Keys : L = K
    BY <1>5
  <1>7. Attack!Reload(v, L)
    BY <1>1, <1>4, <1>5, <1>6, SameTable DEF Attack!Reload, Attack!Forgotten, Progress
  <1> QED
    BY <1>7

\* A GET that is answered with the last step but one takes the attempt in hand.
LEMMA HandStep ==
  ASSUME Refining, NEW d, Brains = {d}, Get(d), pc'[d] = "delete"
  PROVE  UNCHANGED <<Table, observed, Progress, alerts>>
  <1>1. Typed /\ d \in Brains /\ pc[d] = "get" /\ Key(d) \in Keys
    BY LocalTypes DEF Refining, Tracked, Typed, Get
  <1>2. ~Return(d) /\ Expects(d, redis[Key(d)])
    BY <1>1 DEF Get, Return, Goto, Typed, TypeOK
  <1>3. /\ state'[d] = redis[Key(d)] /\ redis[Key(d)] # Missing
        /\ Key(d)' = Key(d) /\ UNCHANGED <<redis, version, observed, alerts>>
    BY <1>1, <1>2 DEF Get, Goto, Expects, HasNext, Key, locals, Typed, TypeOK
  <1>4. Progress = Stored
    BY <1>1, Unfinished
  <1>5. TheBrain = d
    BY SameTable
  <1>6. Progress' = Stored
    BY <1>1, <1>3, <1>5 DEF Progress, Stored, InHand, TheBrain
  <1> QED
    BY <1>3, <1>4, <1>6 DEF Table

\* Everything else a brain does is invisible.
LEMMA HiddenStep ==
  ASSUME Refining, NEW d, Brains = {d}, BrainStep(d), ~CreateSet(d), ~PromoteExec(d),
         ~Complete(d), ~(Get(d) /\ pc'[d] = "delete")
  PROVE  UNCHANGED <<Table, observed, Progress, alerts>>
  <1>1. Typed /\ d \in Brains /\ Key(d) \in Keys
    BY LocalTypes DEF Refining, Tracked, Typed
  <1>2. pc[d] # "delete" /\ pc'[d] # "delete" /\ UNCHANGED <<version, observed, alerts>>
    BY <1>1 DEF BrainStep, Get, CreateExpire, PromoteWatch, PromoteRead,
       PromoteConflict, CallFails, Return, Goto, Typed, TypeOK
  <1>3. ASSUME NEW k \in Keys
        PROVE  (IF redis'[k] = Missing THEN << >> ELSE redis'[k].evidence)
               = (IF redis[k] = Missing THEN << >> ELSE redis[k].evidence)
    <2>1. CASE CreateExpire(d) /\ redis'[k] # redis[k]
      <3>1. /\ redis[k] # Missing /\ redis[k] \in Entry
            /\ redis'[k] = [redis[k] EXCEPT !.volatile = TRUE, !.expires = now + TTL(d)]
        BY <1>1, <2>1 DEF CreateExpire, Write, Typed, TypeOK
      <3>2. redis'[k].evidence = redis[k].evidence
        BY <3>1 DEF Entry
      <3>3. redis'[k] # Missing
        BY <1>1, <3>1, EntryTypes, MissingAssumption DEF Typed
      <3> QED
        BY <3>1, <3>2, <3>3
    <2>2. CASE ~CreateExpire(d)
      <3>1. redis' = redis
        BY <2>2 DEF BrainStep, Get, PromoteWatch, PromoteRead, PromoteConflict, CallFails
      <3> QED
        BY <3>1
    <2> QED
      BY <2>1, <2>2
  <1>4. Progress' = Progress
    <2>1. Progress' = Stored' /\ Progress = Stored
      BY <1>2, Unfinished, UnfinishedNext
    <2> QED
      BY <1>3, <2>1 DEF Stored
  <1> QED
    BY <1>2, <1>4 DEF Table

\* A new event is a new entry of the log.
LEMMA ObserveRefined ==
  ASSUME Refining, NEW d, Brains = {d}, NEW c \in Containers, NEW t \in Tactics, TakeEvent(d, c, t)
  PROVE  Attack!Observe(c, t)
  <1>1. pc[d] # "delete" /\ pc'[d] # "delete"
    BY DEF TakeEvent, Goto, Refining, Tracked, Typed, TypeOK
  <1>2. /\ UNCHANGED <<redis, version, alerts>>
        /\ observed' = [observed EXCEPT ![c] = Append(@, t)]
    BY DEF TakeEvent
  <1>3. Progress' = Progress
    <2>1. Progress' = Stored' /\ Progress = Stored
      BY <1>1, Unfinished, UnfinishedNext
    <2> QED
      BY <1>2, <2>1 DEF Stored
  <1> QED
    BY <1>2, <1>3 DEF Attack!Observe, Progress

\* Every step of a brain is a step of the abstract detector or none.
LEMMA StepRefined ==
  ASSUME Refining, NEW d, Brains = {d}, "delete" \notin Faults, [Next]_vars
  PROVE  [Attack!Next]_(Attack!vars)
  <1>1. Keys = Attack!Keys
    BY DEF Keys, Chains, Attack!Keys, Attack!Chains
  <1>2. CASE CreateSet(d)
    BY <1>1, <1>2, BeginRefined DEF Attack!Next
  <1>3. CASE PromoteExec(d)
    BY <1>1, <1>3, AdvanceRefined DEF Attack!Next
  <1>4. CASE Complete(d)
    BY <1>1, <1>4, FinishRefined DEF Attack!Next
  <1>5. CASE Get(d) /\ pc'[d] = "delete"
    BY <1>5, HandStep DEF Attack!vars, Progress, Table
  <1>6. CASE BrainStep(d) /\ ~CreateSet(d) /\ ~PromoteExec(d) /\ ~Complete(d)
             /\ ~(Get(d) /\ pc'[d] = "delete")
    BY <1>6, HiddenStep DEF Attack!vars, Progress, Table
  <1>7. ASSUME NEW c \in Containers, NEW t \in Tactics, TakeEvent(d, c, t) PROVE Attack!Next
    BY <1>7, ObserveRefined DEF Attack!Next
  <1>8. CASE Tick
    BY <1>1, <1>8, ForgetRefined DEF Attack!Next
  <1>9. ASSUME NEW v \in Versions, Restart(d, v) PROVE Attack!Next
    BY <1>1, <1>9, ReloadRefined DEF Attack!Next
  <1>10. CASE UNCHANGED vars
    <2>1. UNCHANGED <<Table, observed, Progress, alerts>>
      BY <1>10 DEF vars, locals, Table, Progress, InHand, Key
    <2> QED
      BY <2>1 DEF Attack!vars, Progress, Table
  <1> QED
    BY <1>2, <1>3, <1>4, <1>5, <1>6, <1>7, <1>8, <1>9, <1>10 DEF Next

\* fsm.Engine over Redis is the attack-chain detector of the README: with one brain whose
\* DELs arrive, every step of Process, of the clock, of failing calls, of a crash and of the
\* restart with another chain table is a step of AttackChain or none.
THEOREM ProcessIsADetector ==
  ASSUME NEW d, Brains = {d}, "delete" \notin Faults
  PROVE  Spec => ImplementsAttackChain
  <1>1. Init => Refining
    <2>1. Init => WatchFresh /\ StartIsChosen
      BY DEF Init, WatchFresh, StartIsChosen
    <2> QED
      BY <2>1, TrackedInit DEF Refining
  <1>2. Refining /\ [Next]_vars => Refining'
    BY RefiningStep
  <1>3. Init => Attack!Init
    <2> SUFFICES ASSUME Init PROVE Attack!Init
      OBVIOUS
    <2>1. /\ Progress = [k \in Keys |-> << >>] /\ alerts = {}
          /\ observed = [c \in Containers |-> << >>] /\ version[TheBrain] \in Versions
      BY SameTable DEF Init, Progress, InHand
    <2>2. Keys = Attack!Keys
      BY DEF Keys, Chains, Attack!Keys, Attack!Chains
    <2> QED
      BY <2>1, <2>2 DEF Attack!Init, Progress
  <1>4. Refining /\ [Next]_vars => [Attack!Next]_(Attack!vars)
    BY StepRefined
  <1> QED
    BY <1>1, <1>2, <1>3, <1>4, PTL DEF Spec, ImplementsAttackChain, Attack!Spec
=============================================================================
