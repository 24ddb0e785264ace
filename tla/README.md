# kube-reflex in TLA+

A verification project for the kube-reflex brain: TLA+ modules translated from the Go
source, TLC configurations that check them on small instances, and theorems about them
whose proofs TLAPS checks. Paths below are relative to the root of the repository
(`src/` in `PROJECT.json`).

## 1. The system

Falco posts its alerts to the brain's webhook. The brain maps the tags of an event to a
MITRE tactic, keeps a velocity score per container and one state per container and attack
chain in Redis, collects the resulting signals per container for ten seconds, judges each
batch, and hands incidents to its sinks.

```
ServeHTTP --eventsCh(256)--> event loop --velocity--> alertCh(128) --> bridge --+
                                  |                                              v
                                  +--FSM (Redis), chain by chain----------> inputCh(1000)
                                                                                 |
                        sinks <-- Dispatch <-- Evaluate <-- flush <-- timer <-- buffers
```

| Part | State it keeps | Operations | What must hold |
|---|---|---|---|
| webhook (`internal/falco`) | `eventsCh` | `ServeHTTP`: 202, 400, 503; never waits | an accepted event is taken |
| event loop, bridge, shutdown (`cmd/brain/main.go`) | `alertCh`, the context, closed or not | take, score, run the chains, send; forward; cancel, close, exit | detections are not lost or overtaken, the drop of alerts loses only the alert that found no room, nothing is sent on a closed channel |
| FSM engine and store (`internal/correlator/fsm`) | `fsm:<container>:<chain>` in Redis, with a TTL | `Process` = `Get`, then `Create`, `Promote`, `Delete` or nothing | an alert means the chain was observed, an attempt that ended stays ended, no state outlives its TTL, `Process` returns |
| chain loader and registry (`internal/correlator/rules`) | the chain table, read at start | `Load`, `NewChainRegistry`, `All` | every chain has two tactics or more and an id of its own |
| taxonomy mapper (`internal/correlator/taxonomy`) | an index, built at start | `Map` | the most specific tag decides, and the last tactic that lists it |
| velocity detector (`internal/correlator/velocity`) | a sorted set per container in Redis, with a TTL | `AddAndScore`, one transaction | the score is that of the window |
| decision engine (`internal/decision/engine.go`) | `inputCh`, `buffer`, `timers` under `mu`; flush goroutines | `handleSignal`, `flush`, `dispatch` | no signal is lost, repeated, reordered or mixed up; every buffer is flushed |
| judge (`internal/decision/judge.go`) | none | `Evaluate`, `calculateRisk`, `determineSeverity` | more evidence is more risk, a chain is CRITICAL |
| Kubernetes resolver (`internal/k8s`) | the pod cache of an informer | `Resolve` | the pod of the container, or an error |
| action engine and sinks (`internal/action`, `internal/db`) | table `incidents` | `Dispatch`, `Send`, `SaveIncident` | a failing sink does not keep the others from their incident |
| container state (`internal/redis`) | per container a hash and two sets in Redis, each with a TTL | `UpdateContainerState`: HINCRBY, HSET, SADD, EXPIRE, one by one | what an update that stopped half-way has left behind does not stay for ever; an update that went well stays in the score for the TTL |

The event loop calls the velocity engine, the container state and the FSM engine one after
the other; they share nothing but Redis. The loop and the bridge share `inputCh` with the
decision loop; the decision loop and the flush goroutines share the maps. Two brains share
Redis while the Deployment (one replica, `k8s/deployment.yaml:8`) is rolled over.

What is hard here: two brains in one state machine of Redis; TTLs that run out between two
commands; replies that are lost; states that outlive the configuration they were written
under; events that are late; a bounded channel with a policy of its own at every stage
(refuse, drop, block); timers and flushes that overlap; a shutdown that relies on sleeps.
`PROJECT.json` lists the hazards line by line, with the properties that cover them.

Unused code is left out: the in-memory correlator (`internal/correlator/*.go`), the alert
sinks (`internal/alert`), `BuildAlert`, `IngestFromFile`, `AddEvent` and
`IncrementFrequency` of the repository, `GetByID` and `GetStartingWith` of the registry.

## 2. The modules

| Module | Models | Correspondence |
|---|---|---|
| `FsmEngine` | `fsm.Engine.Process`, `RedisStore`, the loop over the chains | `redis` is the store, `pc[b]` the place of brain `b` inside `Process`; one action per Redis command: `Get`, `CreateSet`, `CreateExpire`, `PromoteWatch`, `PromoteRead`, `PromoteExec`/`PromoteConflict`, `Complete` (DEL and alert), `CallFails`; `Tick` is the clock and key expiry, `Restart` a crash and a start with any version of `chains.yml` |
| `AttackChain` | what attack-chain detection promises: progress through a log of tactics | abstract; refined by `FsmEngine` |
| `VelocityDetector` | `Detector.AddAndScore` | `zset` is the sorted set; the transaction is one step (`AddAndScore`), `AddFails` is the same with a lost reply |
| `Judge` | `calculateRisk`, `determineSeverity`, the noise threshold | operators over natural numbers; `Count` is one round of the loop, `Tally` all of it, `Risk` what follows |
| `RiskLoop` | the loop of `calculateRisk` as a state machine | `acc` holds its local variables |
| `Evaluation` | `Judge.Evaluate` from the look-up to the incident, with `K8sClient.Resolve` and `matchContainerID`; EXTENDS `RiskLoop` | `List` is the answer of the cache, `Visit` a round of the loop over the pods, `Round` a round of the loop over the signals, `Conclude` what follows |
| `DecisionEngine` | `decision.Engine`, `Judge.Evaluate`, `action.Engine.Dispatch` | `handleSignal`, `TimerFires`, `Take` (the locked half of `flush`), `Evaluate`, `Dispatch` (one sink), `Done`; `Cancel`, `LoopExit`, `Exit` are the shutdown |
| `Aggregator` | what the decision engine promises the detectors: one queue per container, cut into batches | abstract; refined by `DecisionEngine` |
| `Brain` | the goroutines and channels of `main`, `ServeHTTP`, the send of the velocity engine | one action per channel operation, and `Cancel`, `CloseAlerts`, `ServerShutdown`, `Exit` for `main` |
| `Taxonomy` | `loadAndIndexTaxonomy`, `MapperImpl.Map` | both are loops, a round is a step: `IndexTechnique` over `file`, `Consider` over `tags`; `Return` is the look-up. The module is its own TLC instance |
| `ContainerState` | `UpdateContainerState` | one action per Redis command (`HIncrBy`, `HSet`, `SAdd`, `Expire`), each executed or not and answered or not; `Begin` is the call of the event loop, `Crash` a brain that ends in between. The module is its own TLC instance |
| `MCFsmEngine`, `MCVelocityDetector`, `MCEvaluation`, `MCDecisionEngine` | instances for TLC | |
| `Selection` | nothing of the code: `Chosen`, the elements of a sequence that are in a set, which `Brain` and `DecisionEngine` state properties with | |
| `*Proofs` | theorems and proofs about the module of that name; `VelocityProofs` about `VelocityDetector`, `EvaluationProofs` about `RiskLoop` and `Evaluation`, `OperatorProofs` about the operators of `Selection` and `Judge` | |

`Brain` and `DecisionEngine` meet in `inputCh`: `Brain` ends where the decision loop has
received a signal, `DecisionEngine` begins with a send that waits for room. `FsmEngine` and
`VelocityDetector` are what `Process` and `Score` of `Brain` abstract to an arbitrary
answer. `RiskLoop`, `Evaluation` and `DecisionEngine` use the operators of `Judge` as they
are; `DecisionEngine` takes the whole of `Evaluate` in one step, with any namespace
`Evaluation` can end in.

Operators named in a comment "Mutant of ..." are plausible mistakes in the definition they
stand before; each property of a passing run is violated by one of them, so none of the
properties holds for any program whatsoever.

### What is abstracted

* Ids, names and tactics are model values; time is a count of ticks, of which a
  `max_duration` or a window has two or three.
* History variables are not in the code: `observed`, `evidence`, `alerts` (FSM), `log`
  (velocity), `delivered`, `taken`, `started` and the numbers of signals (decision), `detected`, `alerted`,
  `dropped`, `decided` (brain), `clean`, `intact`, `last`, `recent` (container state).
  Guards never read them, except to bound a run.
* A container id is a substring of others as `Containing` says: the characters of an id do
  not matter, the ids it is part of do.
* A pipeline of Redis that is no transaction (`Create`) is one step per command, a
  transaction (`Promote`, `AddAndScore`) one step. An error without effect is a branch of
  its own, an error after the effect is the effect with an error.
* Incident ids are fresh, so that every Send is an entry of its own in `delivered`; the
  flushes of a container are told apart by a number. Texts and logs are left out.
* The 100 ms and 12 s sleeps of the shutdown: nothing is assumed of the first one (`Brain`);
  the second one is longer than the aggregation window, so `Exit` of `DecisionEngine` waits
  for the timers, as the code intends, and for nothing else.

## 3. The runs

Each run is `tlc -config X.cfg M`. Deadlock is not checked: every model stops when its
bounds are used up.

### fsm_faults (MCFsmEngine)
One brain, one container, two chains, failing GETs, SETs and promotions, a half-executed
`Create`, a crash anywhere, TTLs of two ticks that run out between any two commands, and two
versions of the chain table: in the first one the chains are `<<A, B, C>>` and `<<A, B, A>>`
(it ends with its first tactic), in the second one `<<A, B>>` (shorter) and `<<B, A, B>>`
(another order); a restart picks any. *EvidenceBacked*: the steps of an alert were observed
on the container in that order, and each step was what some version of the chain asks for at
its place. More does not hold: a step stored under one version is continued under the next
(`engine.go:58` never compares `last_tactic`), so that an alert may mix two versions.
*DisjointEvidence*: no event counts for two alerts of one chain. *BeyondIsFrozen*: a state
beyond the end of a shortened chain is neither advanced nor restarted; until its TTL that
chain is blind for the container. *ImplementsAttackChain*: with progress read from Redis (and
from the hand of `Process` between its last match and the DEL) and the table of the running
brain, every step of `Process`, crashes and restarts included, is a step of the abstract
detector or none. DELs arrive in this run: a lost one lets one chain be reported twice, which
*DisjointEvidence* and the abstract detector rule out. What holds with lost DELs is in
fsm_rolling and in the theorem `AlertsAreBacked`.

### fsm_rolling (MCFsmEngine)
Two brains, a chain of four steps that repeats a tactic, failing GETs and promotions, lost
DELs, two attempts per `Promote` instead of a hundred (`promoteMaxRetries`), four events.
*StepInBounds*: whatever the races, a stored step has a successor and carries its tactic;
*EveryStateExpires*: no interleaving of two `Create`s, a `Promote` and a DEL leaves a state
whose EXPIRE never comes; *AdvanceInPlace*: `Promote` neither revives an attempt that
expired or was completed nor grafts a step onto another attempt; *ProcessReturns*: under
weak fairness of a brain inside `Process`, every call returns. A `Create` that is cut in half
is left out here: it leaves a state without a TTL, against which the code does nothing.

### velocity (MCVelocityDetector)
One container, window 2, events up to one second late and up to one second ahead, lost
replies, seven ticks (the TTL of four runs out and the set starts again), five events.
*WindowIsExact*: when the newest event is scored, the set is the set of logged members of
its window: the TTL, lost replies and late events have taken nothing away and nothing old
is left. *WindowIsComplete*: after a late event the window of the newest event is still
complete. *SetIsBounded*: a container has at most one member per second and weight of the
span that the window and the delays cover. The assumption that delay and lead together do
not exceed the window (five minutes) is needed: without it WindowIsExact fails.

### risk_loop (MCEvaluation)
`Evaluate` for a container id, a shortened one that two pods contain, an id of an init
container, an unknown one and the empty one, over any part of a cluster of three pods in any
order; then all batches of up to twelve signals over a chain (90) and a velocity score of
15, an odd one, so that halving rounds; eleven velocity signals next to a chain reach the
boost. *IncidentNamesOwner*: the pod has the container, and is unknown only when the cache
has none. *RiskIsMonotone*, *AtLeastStrongest*, *ChainIsCritical*, *OrderIsIrrelevant* speak
of the risk.

### container_state (ContainerState)
A TTL of two ticks, five ticks, three updates with values for none, one or both sets, two
faults: a command that fails before or after Redis has executed it, a HINCRBY that the
client repeats because its answer was lost (the only command here that a repetition
changes), a brain that ends in the middle, which for Redis is the same as a context that is
cancelled there. Keys run out between any two commands. *LeaksAreHealed*: an update that
stops after HINCRBY leaves a hash without a TTL, but after the next update that goes well
every key runs out one TTL after its EXPIRE. *RecentIsCounted*: an update that went well is
in the score for the whole TTL, with metadata not older than its own, unless the hash ran
out between its own commands: then `UpdateContainerState` returns without an error and the
increment is gone. That a repeated HINCRBY counts an event twice is in the model and no
property forbids it; no document promises an exact score.

### decision (MCDecisionEngine)
Two containers, a channel of two, three signals, all interleavings of sends, timers, flushes
and shutdown, a resolver that answers an ordinary or a sensitive namespace, and the sink
that fails first in line. *TimerCoversBuffer*: a buffer has a timer entry exactly when it
has signals. *InOrder*, *NothingLost*: order, separation and completeness from the channel
to the batches. *OneIncidentPerSignal*: of the Sends a sink accepted no two have a signal in
common; `delivered` has an entry for every accepted Send, so that an incident that is offered
twice counts twice. *ChainReported*: a batch with a chain reaches the working sink as
CRITICAL. *ImplementsAggregator*: the
refinement of `Aggregator`. Under fairness *BufferIsFlushed*: a buffered signal gets into a
batch, after the cancellation too; *SignalIsJudged*: until the cancellation every sent
signal is judged and dispatched.

### taxonomy (Taxonomy)
Two tactics, a technique and two sub-techniques, all files of three entries (an empty
sub-technique id is one of the choices; the technique-shaped ids that `behaviors.yml` lists
as sub ids, for example in lines 189, 199 and 291, all repeat the id of their own technique
and index the same entry, so they are left out) and all events of three tags of every kind.
*LastTacticWins*: the table against the file. *FirstMostSpecific*: the choice against the
tags. *MappedAsWritten*: the result against both, errors included. An event whose first most
specific id is unknown is rejected although another id of it is known.

### brain (Brain)
Channels of one, one and two, two chains, three events: each channel is full in some states
and the decision loop may return at any time after the cancellation. *DetectionsAreKept*:
the detections are exactly the chain signals sent plus the one in the hand of the event
loop, in order. *AlertsAreAccounted*: alerts that are not dropped arrive in order while the
bridge runs. *ChainIsNotOvertaken*: although alerts take a detour, no alert of a later event
is ahead of a chain signal. *AcceptedIsTaken*: an accepted event is taken from the queue,
unless the brain is stopped.

### Runs in which the code does not do what it says

* `fsm_v_rolling`: with two brains, `Promote` stores the step that `Process` computed from
  an older GET (`redis_store.go:87`), although it has just read the state again. An attempt
  that was restarted in between jumps over a tactic: it was seen on the container, but before
  the restart, so that the attempt does not contain it.
* `fsm_v_lifetime`: `internal/model/chain.go:18` calls `max_duration` the "Max allowed time
  between first and last step". Each promotion renews the whole TTL (`redis_store.go:98`),
  so the time allowed grows with the steps: a chain of four steps with a `max_duration` of
  two ticks is completed after three. What does hold, (s + 1) * max_duration for an attempt
  at step s, is the theorem `AttemptsAge`.
* `velocity_v_burst`: the member of the sorted set is the second and the weight
  (`detector.go:39`), and the weight is always 5, because `main.go:167` passes the behavior
  id where a priority is expected. All events of a second count once; the README promises
  the detection of "high-frequency alert bursts".
* `brain_v_panic`: `main` closes `alertCh` 100 ms after the cancellation "to avoid panic
  from concurrent send" (`main.go:227-229`) without waiting for the event loop. A loop that
  is inside a Redis call, or that took another event because both cases of its select were
  ready, sends on the closed channel; the process dies and buffered signals with it.

### Bounds

The bounds limit how many events come and how long the clock runs, never what a step may do.
They let every case occur: within four events a chain of two steps is completed twice, one
of three is restarted and completed, and a brain is restarted with the other table in
between; a TTL of two ticks runs out and the key is used again within four; a `Promote`
collides twice and gives up; a channel is full; three flushes overlap; a window passes
twice; a key that was left without a TTL gets one and runs out. Larger instances add
repetitions of these. Where the properties do not depend on the
bounds, the theorems below say so for all values.

### Fairness

* `FsmEngine!FairSpec`: weak fairness of `BrainStep(b)`. `Process` is a straight line on a
  goroutine of its own, every Redis call returns or fails (the client has time-outs). Events,
  crashes and the clock are not fair.
* `DecisionEngine!FairSpec`: weak fairness of the decision loop, of each timer, of the lock
  of each flush and of the flushes past it. Timers fire, the mutex is held for a few map
  operations only, sinks return. Sends and the cancellation are not fair.
* `Brain!FairSpec`: weak fairness of the event loop, the bridge and the decision loop, each
  as a whole: a Go select with a ready case takes one. Which one is left open, so the loops
  may ignore `ctx.Done()` as long as there is work. Requests and `main` are not fair.

## 4. The proofs

`FsmEngineProofs`, `EvaluationProofs`, `DecisionEngineProofs`, `TaxonomyProofs`,
`ContainerStateProofs`, `VelocityProofs` and `BrainProofs` prove, for every value of the
constants that satisfies the named assumptions of the module, each safety property that a
passing run checks, and both refinements:

| Theorem | Statement | Argument |
|---|---|---|
| `FsmEngineProofs!TypeCorrect` | `Spec => []TypeOK` | TypeOK alone is not inductive: `Promoted` and `Finding` need a state to work on. `Typed` adds that a brain inside `Promote` or `Complete` holds one |
| `FsmEngineProofs!StepsStayInBounds` | `Spec => []StepInBounds` if all brains run one chain table | `Bounded` adds `PendingInBounds`: what a brain is about to store lies within the chain too. That step was computed from an older state, which is why it can be wrong (`fsm_v_rolling`) and still never out of bounds |
| `FsmEngineProofs!PromoteIsInPlace` | `Spec => AdvanceInPlace` | `WatchFresh`: unless the transaction is marked dirty, the key still holds what it read. Every step of another brain that writes the key, and expiry, mark it (`WriteDooms`) |
| `FsmEngineProofs!AlertsAreBacked` | `Spec => []EvidenceBacked` for one brain, whatever versions of the chain table it restarts with | `Tracked`: the evidence of a stored state is an occurrence of the steps done; it does not contain the event under way until `Process` has stored it; the state in hand can be extended by it |
| `FsmEngineProofs!BeyondStaysFrozen` | `Spec => BeyondIsFrozen` for one brain, all faults, any versions | `ActsWithin`: what is stored under a key that `Process` has decided to act on is within the chain or gone; every write is such an act |
| `FsmEngineProofs!StatesExpire` | `Spec => []EveryStateExpires` for any number of brains, if no pipeline is cut in two and no brain crashes | inductive with `Typed`: a brain at its EXPIRE covers the key, and each SET is followed by one |
| `FsmEngineProofs!AttemptsAge` | `Spec => []LifetimeBound` for one brain, one chain table, the same faults excluded: (s + 1) * max_duration, which is what the code keeps and not what is documented (`fsm_v_lifetime`); no run checks it | `Living` adds `Alive` (a state with a TTL has time left, so that a promotion finds at most one max_duration less than it gives) and `Young` (a state that waits for its EXPIRE has just been created) |
| `FsmEngineProofs!AlertsAreDisjoint` | `Spec => []DisjointEvidence` for one brain whose DELs arrive; crashes, restarts and other failures allowed | `Separate`: whatever is stored, in hand or under way is younger than the last position of every alert of its chain |
| `FsmEngineProofs!ProcessIsADetector` | `Spec => ImplementsAttackChain` for one brain whose DELs arrive; other failing calls, crashes and restarts with any chain table allowed | `Refining` = `Tracked`, `WatchFresh` and `StartIsChosen` (a SET never takes the place of an attempt that waits for the same tactic, nor of one beyond the end of its chain); then one lemma per kind of step: `BeginRefined`, `AdvanceRefined`, `FinishRefined`, `ForgetRefined`, `ReloadRefined`, `ObserveRefined`, `HandStep` (a state goes into the hand), `HiddenStep` |
| `EvaluationProofs!StrongestIsALowerBound`, `ChainsAreCritical`, `MoreEvidenceMoreRisk` | `Spec => []AtLeastStrongest`, `Spec => []ChainIsCritical`, `Spec => RiskIsMonotone` for batches of any length and all scores | `Informed`: the accumulator bounds the batch (its maximum, its chains, a total of at least 180 with a chain) |
| `EvaluationProofs!OrderDoesNotMatter` | `Spec => []OrderIsIrrelevant` | `Tallied`: the accumulator is `Tally` of the batch. The tally of a concatenation is the two tallies added field by field (`TallyConcat`), which is commutative and associative (`TogetherLaws`) |
| `EvaluationProofs!NoOrderMatters` | `Spec => []AnyOrderIsTheSame`: every permutation of a batch has the same risk. TLC checks a few orders only, there are too many | by induction on the length: an order of n + 1 signals without its last one is an order of n (`ShorterOrder`, `Without`) |
| `EvaluationProofs!EvaluateRunsTheLoop` | `EvaluateSpec => Spec` of `RiskLoop` | every step of `Evaluate` is a round of the loop or leaves its variables alone; hence the three rows above hold inside `Evaluate` |
| `EvaluationProofs!TheOwnerIsNamed` | `EvaluateSpec => []IncidentNamesOwner` | `Searching`: as long as the loop goes on, every pod with the container is ahead of it |
| `DecisionEngineProofs!TypeCorrect` | `Spec => []TypeOK` | inductive as it is |
| `DecisionEngineProofs!EveryBufferHasATimer` | `Spec => []TimerCoversBuffer` | inductive relative to TypeOK |
| `DecisionEngineProofs!SignalsStayInOrder`, `NoSignalIsLost` | `Spec => []InOrder`, `Spec => []NothingLost` | `Numbered`: the channel holds the last numbers in sequence, everything before them is in exactly one buffer or batch |
| `DecisionEngineProofs!SinksHearOnce` | `Spec => []OneIncidentPerSignal` | `Delivery`: a batch has one flush at most, which has passed every sink that knows the batch, and a sink has one entry of a batch at most; needs `Numbered` to tell a new batch from the old ones |
| `DecisionEngineProofs!ChainsAreReported` | `Spec => []ChainReported` | `Reported`: a batch with a chain has a flush that has yet to call the sink, or the sink knows the batch. `Genuine`: no score changes on the way, so that the total is 180 or more (`ChainWorth`) and no namespace makes it less than CRITICAL (`ChainRisk`): `Evaluate` cannot suppress it |
| `DecisionEngineProofs!EngineAggregates` | `Spec => ImplementsAggregator` | `Send` is `Arrive` (`SendArrives`), `Take` is `Cut` where the buffer ends (`TakeCuts`; TimerCoversBuffer says that there is something to cut), `handleSignal` moves a signal from the back part of the queue to the front part (`handleSignalStutters`), all others stutter |
| `TaxonomyProofs!TypeCorrect` | `Spec => []TypeOK` | inductive as it is |
| `TaxonomyProofs!LastTactic`, `Choice` | `Spec => []LastTacticWins`, `Spec => []FirstMostSpecific` | inductive with TypeOK: a new entry decides for the ids it names, a new tag is compared with the choice so far |
| `TaxonomyProofs!EndToEnd` | `Spec => []MappedAsWritten` | `Mapping` adds `LoadsFirst` (nothing is mapped before the table is finished) and the two invariants above; that an event has one first most specific id (`DecidesOnce`) gives the error case |
| `ContainerStateProofs!TypeCorrect` | `Spec => []TypeOK` | inductive as it is |
| `ContainerStateProofs!UpdatesHeal` | `Spec => []LeaksAreHealed` | `Healing`: in an update without a failure, the keys whose EXPIRE is behind it have a TTL it has set |
| `ContainerStateProofs!UpdatesLast` | `Spec => []RecentIsCounted` | `Lasting`: the hash lives as long as the updates it owes, and what the update under way has done so far is in it unless the hash has run out |
| `VelocityProofs!WindowsAreComplete`, `WindowsAreExact` | `Spec => WindowIsComplete`, `Spec => WindowIsExact` | `Kept`: a logged event is missing only if the set has expired or a logged event is a window newer (`Lacking`); nothing is ahead of its arrival by more than the clocks differ (`Timely`); nothing is older than the latest possible event allows (`Sound`). The TTL of two windows then covers every delay and lead that fit into one |
| `VelocityProofs!SetsStaySmall` | `Spec => []SetIsBounded` | from `Sound` and `Timely`: the members lie in a span of bounded length, and a member is its second and its weight |
| `VelocityProofs!TypeCorrect` | `Spec => []TypeOK`, the score included | a set is always finite (`KeptIsSmall`), therefore the recursive sum over it exists (`TotalsExist`) and is a number |
| `VelocityProofs!ScoresAreBounded` | the last score of a container is at most 100 for each member of the largest set | `TotalScoreBounds`, by induction on the size of a set |
| `BrainProofs!TypeCorrect` | `Spec => []TypeOK` | `Typed` adds what the event loop holds in each of its places (`AtHand`) |
| `BrainProofs!ChainsAreNotOvertaken` | `Spec => []ChainIsNotOvertaken` | `Queued`: the queue holds later events than the loop; `Past`: alerts and signals on their way are not later than it |

| `BrainProofs!NoDetectionIsLost`, `NoAlertVanishes` | `Spec => []DetectionsAreKept`, `Spec => []AlertsAreAccounted` | the first equation is inductive with `Typed`, the second one needs `Fresh` too: the loop makes at most one alert for an event, so that a new drop takes nothing back; `FlowSend`, `FlowTake`, `FlowAlert`, `FlowFrame` say what a step does to the selections |

`OperatorProofs` is what the proofs about sequences rest on. The library states induction for
an operator parameter, which the provers cannot instantiate; that a set of numbers has a least
element it states for sets (`WFMin`, `NatLessThanWellFounded`), and from this `LeastNumber`,
`NumberInduction` and `SequenceInduction` follow for sets. A function that is defined by
recursion over the places of a sequence exists (`RunExists`) and is the only one with its
equations (`RunIsUnique`); so `Chosen` and `Tally` satisfy theirs (`ChosenAppend`,
`ChosenConcat`, `TallyAppend`, `TallyConcat`). `VelocityProofs` does the same for the sum over
a set.

The assumptions: `FsmAssumption` (what `validateChainFile` accepts, positive durations),
`MissingAssumption` (no entry is the answer redis.Nil), `DecisionAssumption` (a chain signal
scores 90, the channel has room for one), `RiskLoopAssumption`, `EvaluationAssumption` (a pod
has its four fields, every id contains the empty one), `TaxonomyAssumption` (the kinds of
tags are told apart), `ContainerStateAssumption` (a positive TTL), `VelocityAssumption`
(delay and lead together fit into a window), `BrainAssumption` (channels with room, a
chain). TLC evaluates them in every run of these modules.

One brain is needed where two can do harm: `EvidenceBacked` and the refinement fail when two
brains share Redis, the jump of `fsm_v_rolling` ends in an alert. The faults that a theorem
excludes are the ones its property does not survive: a half-executed `Create` leaves a state
without a TTL, a lost DEL lets one chain be reported twice. Nothing is claimed of the state
that another brain stored between the last match of `Process` and its DEL, which takes away
whatever is there.

Only model-checked: what rests on fairness (ProcessReturns, BufferIsFlushed, SignalIsJudged,
AcceptedIsTaken), for which TLAPS has no support. The four properties of the runs that expect
a violation are false of the code.

## 5. Not modelled

* The loader beyond what the engine relies on: `validateChainFile` also rejects a version
  below one, empty ids and severities and ids that occur twice; it runs once, before
  anything else, and ends the process. Of the indexes of the registry only the list behind
  `All` is used.
* Two brains that update the state of one container at the same time; the informer that
  fills the pod cache (a library): `Evaluation` lets the cache hold any part of the cluster.
* That signals, alerts and accepted events in memory are lost when the brain ends: the code
  does not try to keep them. The properties that would say otherwise end at the cancellation.
* The contents of the data files. TA0010 is in four chains of `chains.yml` (lines 210, 225,
  237, 254) and nowhere in `behaviors.yml`, so these chains cannot be completed; T1078 and
  its sub-techniques are listed under four tactics and always mapped to the last one, TA0005.
* Start-up, HTTP parsing, SQL, migrations, logging, the manifests and the tools.

## 6. Plan

Done, in this order: the FSM engine, which is the core of the detection, with its abstract
detector; the judge; the decision engine with the aggregator; the velocity detector; the
pipeline of `main`; the taxonomy mapper; the container state; the resolver and the whole of
`Evaluate`; chain tables that change over restarts; proofs for each of these, last those
that need induction over sequences and sets.

Left:

1. A composition of `Brain` with `FsmEngine`: between the DEL and the sinks a detection is
   in memory only. The code has no means to recover it, so the composition would state a
   loss rather than a property.
2. Two brains in `ContainerState`.
