------------------------------ MODULE FsmEngine ------------------------------
(***************************************************************************)
(* Attack-chain detection: fsm.Engine.Process and the Redis store behind   *)
(* it, driven by the per-chain loop of the event goroutine of cmd/brain.   *)
(*                                                                         *)
(* Each brain takes one event at a time and runs Process for every chain   *)
(* of its chain table.  Process is a GET followed by at most one write     *)
(* sequence (SET;EXPIRE, WATCH/GET/EXEC, or DEL); every Redis command is a *)
(* step of its own, so a TTL may run out, or another brain may act,        *)
(* between any two of them.  Two brains share one Redis while a Deployment *)
(* is rolled over; a single brain is the steady state.                     *)
(***************************************************************************)
EXTENDS Naturals, Sequences, FiniteSets

CONSTANTS
  Brains,            \* running brain processes that share the Redis
  Containers,        \* container ids
  Tactics,           \* MITRE tactic ids the mapper can return
  Versions,          \* versions of chains.yml a brain may start with
  NumChains,         \* chains of the file; a chain is its index in it
  Sequence,          \* Sequence[v][n]: the tactics of chain n in version v
  MaxDuration,       \* MaxDuration[v][n]: its max_duration, in ticks
  PromoteMaxRetries, \* promoteMaxRetries of redis_store.go
  Faults,            \* the failures the environment may inject
  Missing,           \* "no such key" (redis.Nil, a nil *State)
  MaxTime,           \* bound: the clock stops here
  MaxEvents          \* bound: events taken per container

Chains == 1 .. NumChains
Keys   == Containers \X Chains        \* fsm:<container>:<chain>
FaultKinds == {"get", "set", "expire", "promote", "delete", "crash"}

\* What Load demands of version v of the file: a chain, and two tactics in each.
validateChainFile(v) == NumChains > 0 /\ \A n \in Chains : Len(Sequence[v][n]) >= 2

\* A brain runs only with files that Load accepts; a max_duration is positive in
\* every chain of chains.yml and in the fallback of parseDuration.
ASSUME FsmAssumption ==
  /\ Brains # {} /\ Versions # {}
  /\ NumChains \in Nat
  /\ Sequence \in [Versions -> [Chains -> Seq(Tactics)]]
  /\ \A v \in Versions : validateChainFile(v)
  /\ MaxDuration \in [Versions -> [Chains -> Nat \ {0}]]
  /\ PromoteMaxRetries \in Nat \ {0}
  /\ Faults \subseteq FaultKinds
  /\ MaxTime \in Nat /\ MaxEvents \in Nat

VARIABLES
  now,      \* wall clock of the brains and of Redis
  redis,    \* the fsm:* keys
  version,  \* chain table each brain loaded when it started
  pc,       \* where each brain is inside Process
  event,    \* the event a brain is processing
  chain,    \* the chain its loop is at
  state,    \* the State it last read (Process's state, then txf's)
  next,     \* nextStepIndex, computed from the state Process read
  tries,    \* conflicting EXECs of the current Promote
  dirty,    \* brains whose WATCHed key has been touched since the WATCH
  observed, \* history: the tactics taken so far, per container
  alerts    \* history: the alerts Process has returned

vars == <<now, redis, version, pc, event, chain, state, next, tries, dirty,
          observed, alerts>>
locals == <<event, chain, state, next, tries>>

(***************************************************************************)
(* A stored State.  "volatile" and "expires" are the key's TTL (a volatile *)
(* key is one that has a TTL); "evidence" is not in the code: it holds the *)
(* positions in observed of the events that made the state what it is.     *)
(* last_seen is left out, nothing reads it.                                *)
(***************************************************************************)
Entry == [step: Nat, tactic: Tactics, started: Nat, volatile: BOOLEAN,
          expires: Nat, evidence: Seq(Nat)]
Event == [cid: Containers, tactic: Tactics, pos: Nat]
Alert == [key: Keys, evidence: Seq(Nat)]
\* "No such key" is not a state.
ASSUME MissingAssumption == Missing \notin Entry

PCs   == {"idle", "get", "set", "expire", "watch", "read", "exec", "delete"}

TypeOK ==
  /\ now \in Nat
  /\ redis \in [Keys -> Entry \cup {Missing}]
  /\ version \in [Brains -> Versions]
  /\ pc \in [Brains -> PCs]
  /\ event \in [Brains -> Event]
  /\ chain \in [Brains -> Chains]
  /\ state \in [Brains -> Entry \cup {Missing}]
  /\ next \in [Brains -> Nat]
  /\ tries \in [Brains -> Nat]
  /\ dirty \subseteq Brains
  /\ observed \in [Containers -> Seq(Tactics)]
  /\ alerts \subseteq Alert

-----------------------------------------------------------------------------
Key(b)   == <<event[b].cid, chain[b]>>
Chain(b) == Sequence[version[b]][chain[b]]
TTL(b)   == MaxDuration[version[b]][chain[b]]

Goto(b, label) == pc' = [pc EXCEPT ![b] = label]

\* Mutant of Return: the loop runs once more than there are chains.
ReturnPastLast(b) ==
  /\ \/ /\ chain[b] <= NumChains
        /\ chain' = [chain EXCEPT ![b] = @ + 1]
        /\ Goto(b, "get")
     \/ /\ chain[b] > NumChains
        /\ UNCHANGED chain
        /\ Goto(b, "idle")
  /\ state' = [state EXCEPT ![b] = Missing]
  /\ next' = [next EXCEPT ![b] = 0]
  /\ tries' = [tries EXCEPT ![b] = 0]
  /\ UNCHANGED event

\* Process returns: on to the next chain of the table, or back to the channel.
\* The locals of the call go out of scope.
Return(b) ==
  /\ \/ /\ chain[b] < NumChains
        /\ chain' = [chain EXCEPT ![b] = @ + 1]
        /\ Goto(b, "get")
     \/ /\ chain[b] = NumChains
        /\ UNCHANGED chain
        /\ Goto(b, "idle")
  /\ state' = [state EXCEPT ![b] = Missing]
  /\ next' = [next EXCEPT ![b] = 0]
  /\ tries' = [tries EXCEPT ![b] = 0]
  /\ UNCHANGED event

\* Redis marks a transaction dirty when a key it WATCHes is written, deleted or expires.
Watchers(k) == {b \in Brains : pc[b] \in {"read", "exec"} /\ Key(b) = k}

\* Brain b stores e under k.
Write(b, k, e) ==
  /\ redis' = [redis EXCEPT ![k] = e]
  /\ dirty' = (dirty \cup Watchers(k)) \ {b}

-----------------------------------------------------------------------------
(***************************************************************************)
(* What Process decides from the state s it read.  Steps count from 0 in   *)
(* the code and sequences from 1 here: Sequence[nextStepIndex] of the code *)
(* is Chain(b)[s.step + 2].                                                *)
(***************************************************************************)
HasNext(b, s) == s # Missing /\ s.step + 1 < Len(Chain(b))

\* Mutant of Expects: a tactic that comes later in the chain is accepted too.
ExpectsAnyLater(b, s) ==
  HasNext(b, s) /\ \E i \in s.step + 2 .. Len(Chain(b)) : event[b].tactic = Chain(b)[i]

Expects(b, s) == HasNext(b, s) /\ event[b].tactic = Chain(b)[s.step + 2]

\* Mutant of Completes: off by one, the last step is promoted to.
CompletesPastEnd(b, s) == Expects(b, s) /\ s.step + 1 = Len(Chain(b))

Completes(b, s) == Expects(b, s) /\ s.step + 2 = Len(Chain(b))

\* Mutant of Starts: any tactic of the chain starts it.
StartsAnywhere(b, s) ==
  /\ \E i \in 1 .. Len(Chain(b)) : event[b].tactic = Chain(b)[i]
  /\ s = Missing \/ (HasNext(b, s) /\ ~Expects(b, s))

\* Mutant of Starts: the reset does not stop at the safety check.
StartsBeyond(b, s) ==
  /\ event[b].tactic = Chain(b)[1]
  /\ s = Missing \/ ~Expects(b, s)

Starts(b, s) ==
  /\ event[b].tactic = Chain(b)[1]
  /\ s = Missing \/ (HasNext(b, s) /\ ~Expects(b, s))

NewState(b) == [step |-> 0, tactic |-> event[b].tactic, started |-> now,
                volatile |-> FALSE, expires |-> 0,
                evidence |-> <<event[b].pos>>]

\* Mutant of Promoted: SET without EXPIRE.
PromotedForever(b) == [state[b] EXCEPT !.step = next[b], !.tactic = event[b].tactic,
                                       !.volatile = FALSE,
                                       !.evidence = Append(@, event[b].pos)]

Promoted(b) == [state[b] EXCEPT !.step = next[b], !.tactic = event[b].tactic,
                                !.volatile = TRUE, !.expires = now + TTL(b),
                                !.evidence = Append(@, event[b].pos)]

Finding(b) == [key |-> Key(b), evidence |-> Append(state[b].evidence, event[b].pos)]

\* Mutant of Delete: the finished state is not deleted.
NotDeleted(b) == UNCHANGED <<redis, dirty>>

\* A DEL, and the failure that leaves the finished state in place: Process only logs it.
Delete(b) ==
  \/ Write(b, Key(b), Missing)
  \/ "delete" \in Faults /\ UNCHANGED <<redis, dirty>>

\* EXEC is refused.
Conflict(b) == b \in dirty

-----------------------------------------------------------------------------
(* The actions of a brain. *)

\* The event goroutine receives an event whose tactic the mapper resolved.
TakeEvent(b, c, t) ==
  /\ pc[b] = "idle"
  /\ Len(observed[c]) < MaxEvents
  /\ observed' = [observed EXCEPT ![c] = Append(@, t)]
  /\ event' = [event EXCEPT ![b] = [cid |-> c, tactic |-> t,
                                    pos |-> Len(observed[c]) + 1]]
  /\ chain' = [chain EXCEPT ![b] = 1]
  /\ Goto(b, "get")
  /\ UNCHANGED <<now, redis, version, state, next, tries, dirty, alerts>>

\* store.Get answered; Process chooses between promote, complete, start or reset, nothing.
Get(b) ==
  LET s == redis[Key(b)] IN
  /\ pc[b] = "get"
  /\ \/ /\ Expects(b, s)
        /\ state' = [state EXCEPT ![b] = s]
        /\ next' = [next EXCEPT ![b] = s.step + 1]
        /\ Goto(b, IF Completes(b, s) THEN "delete" ELSE "watch")
        /\ UNCHANGED <<event, chain, tries>>
     \/ /\ Starts(b, s)
        /\ Goto(b, "set")
        /\ UNCHANGED locals
     \/ /\ ~Expects(b, s) /\ ~Starts(b, s)
        /\ Return(b)
  /\ UNCHANGED <<now, redis, version, dirty, observed, alerts>>

\* Create, first command of the pipeline: SET, which drops any TTL of the key.
CreateSet(b) ==
  /\ pc[b] = "set"
  /\ Write(b, Key(b), NewState(b))
  /\ Goto(b, "expire")
  /\ UNCHANGED <<now, version, locals, observed, alerts>>

\* Create, second command: EXPIRE, which does nothing to a key that is gone.
CreateExpire(b) ==
  /\ pc[b] = "expire"
  /\ \/ /\ redis[Key(b)] # Missing
        /\ Write(b, Key(b), [redis[Key(b)] EXCEPT !.volatile = TRUE,
                                                  !.expires = now + TTL(b)])
     \/ /\ redis[Key(b)] = Missing
        /\ UNCHANGED <<redis, dirty>>
  /\ Return(b)
  /\ UNCHANGED <<now, version, observed, alerts>>

\* Promote: client.Watch sends WATCH ...
PromoteWatch(b) ==
  /\ pc[b] = "watch"
  /\ dirty' = dirty \ {b}
  /\ Goto(b, "read")
  /\ UNCHANGED <<now, redis, version, locals, observed, alerts>>

\* ... txf reads the key again ("state not found for promote" when it is gone) ...
PromoteRead(b) ==
  /\ pc[b] = "read"
  /\ \/ /\ redis[Key(b)] = Missing
        /\ Return(b)
     \/ /\ redis[Key(b)] # Missing
        /\ state' = [state EXCEPT ![b] = redis[Key(b)]]
        /\ Goto(b, "exec")
        /\ UNCHANGED <<event, chain, next, tries>>
  /\ UNCHANGED <<now, redis, version, dirty, observed, alerts>>

\* Mutant of PromoteExec: SET and EXPIRE run without WATCH.
PromoteUnwatched(b) ==
  /\ pc[b] = "exec"
  /\ Write(b, Key(b), Promoted(b))
  /\ Return(b)
  /\ UNCHANGED <<now, version, observed, alerts>>

\* ... and SET;EXPIRE run in one MULTI/EXEC, unless the watched key was touched.
PromoteExec(b) ==
  /\ pc[b] = "exec"
  /\ ~Conflict(b)
  /\ Write(b, Key(b), Promoted(b))
  /\ Return(b)
  /\ UNCHANGED <<now, version, observed, alerts>>

\* Mutant of PromoteConflict: the transaction is retried within the same WATCH.
RetrySameWatch(b) ==
  /\ pc[b] = "exec"
  /\ Conflict(b)
  /\ Goto(b, "read")
  /\ UNCHANGED <<now, redis, version, locals, dirty, observed, alerts>>

\* TxFailedErr: try again, at most PromoteMaxRetries times.
PromoteConflict(b) ==
  /\ pc[b] = "exec"
  /\ Conflict(b)
  /\ \/ /\ tries[b] + 1 < PromoteMaxRetries
        /\ tries' = [tries EXCEPT ![b] = @ + 1]
        /\ Goto(b, "watch")
        /\ UNCHANGED <<event, chain, state, next>>
     \/ /\ tries[b] + 1 >= PromoteMaxRetries
        /\ Return(b)
  /\ UNCHANGED <<now, redis, version, dirty, observed, alerts>>

\* The last tactic: delete the state, whatever it is by now, and return the alert.
Complete(b) ==
  /\ pc[b] = "delete"
  /\ Delete(b)
  /\ alerts' = alerts \cup {Finding(b)}
  /\ Return(b)
  /\ UNCHANGED <<now, version, observed>>

\* A Redis error that Process returns: the event loop logs it and goes on.  A command
\* that ran although its reply was lost is the successful step above.
CallFails(b) ==
  /\ \/ pc[b] = "get" /\ "get" \in Faults
     \/ pc[b] = "set" /\ "set" \in Faults
     \/ pc[b] = "expire" /\ "expire" \in Faults
     \/ pc[b] \in {"watch", "read", "exec"} /\ "promote" \in Faults
  /\ Return(b)
  /\ UNCHANGED <<now, redis, version, dirty, observed, alerts>>

BrainStep(b) ==
  \/ Get(b) \/ CreateSet(b) \/ CreateExpire(b)
  \/ PromoteWatch(b) \/ PromoteRead(b) \/ PromoteExec(b) \/ PromoteConflict(b)
  \/ Complete(b) \/ CallFails(b)

\* The process dies, losing the event it held, and starts again with the chains.yml it
\* finds; Redis keeps the states.
Restart(b, v) ==
  /\ "crash" \in Faults
  /\ pc' = [pc EXCEPT ![b] = "idle"]
  /\ version' = [version EXCEPT ![b] = v]
  /\ state' = [state EXCEPT ![b] = Missing]
  /\ next' = [next EXCEPT ![b] = 0]
  /\ tries' = [tries EXCEPT ![b] = 0]
  /\ UNCHANGED <<now, redis, event, chain, dirty, observed, alerts>>

\* Time passes and Redis drops the keys whose TTL has run out.  The SET and the EXPIRE of
\* one pipeline reach Redis together, so no tick falls between them.
Expired(k, t) == redis[k] # Missing /\ redis[k].volatile /\ redis[k].expires <= t

Tick ==
  /\ now < MaxTime
  /\ \A b \in Brains : pc[b] # "expire"
  /\ now' = now + 1
  /\ redis' = [k \in Keys |-> IF Expired(k, now + 1) THEN Missing ELSE redis[k]]
  /\ dirty' = dirty \cup UNION {Watchers(k) : k \in {j \in Keys : Expired(j, now + 1)}}
  /\ UNCHANGED <<version, pc, locals, observed, alerts>>

-----------------------------------------------------------------------------
Init ==
  /\ now = 0
  /\ redis = [k \in Keys |-> Missing]
  /\ version \in [Brains -> Versions]
  /\ pc = [b \in Brains |-> "idle"]
  /\ event \in [Brains -> {[cid |-> c, tactic |-> t, pos |-> 0] :
                             c \in Containers, t \in Tactics}]
  /\ chain = [b \in Brains |-> 1]
  /\ state = [b \in Brains |-> Missing]
  /\ next = [b \in Brains |-> 0]
  /\ tries = [b \in Brains |-> 0]
  /\ dirty = {}
  /\ observed = [c \in Containers |-> << >>]
  /\ alerts = {}

Next ==
  \/ \E b \in Brains : \/ \E c \in Containers, t \in Tactics : TakeEvent(b, c, t)
                       \/ BrainStep(b)
                       \/ \E v \in Versions : Restart(b, v)
  \/ Tick

Spec == Init /\ [][Next]_vars

\* A goroutine that is inside Process keeps running: every Redis call returns or fails.
FairSpec == Spec /\ \A b \in Brains : WF_vars(BrainStep(b))

-----------------------------------------------------------------------------
(* Properties. *)

\* Process is never handed a state beyond its chain: whatever brains that agree on the
\* chains do to each other, a stored step has a successor and stands for the tactic that
\* was stored with it.  (The "Safety check" of Process is for other cases than these.)
StepInBounds ==
  \A b \in Brains, k \in Keys :
    redis[k] # Missing =>
      LET seq == Sequence[version[b]][k[2]] IN
      /\ redis[k].step + 1 < Len(seq)
      /\ redis[k].tactic = seq[redis[k].step + 1]

\* What step i of chain n asks for in some version of the file.
StepTactics(n, i) == {Sequence[v][n][i] : v \in {w \in Versions : i <= Len(Sequence[w][n])}}

\* The positions ev in a log of tactics are an occurrence of the first m steps of chain n.
Occurs(ev, log, n, m) ==
  /\ Len(ev) = m
  /\ \A i \in 1 .. m : ev[i] \in 1 .. Len(log) /\ log[ev[i]] \in StepTactics(n, i)
  /\ \A i, j \in 1 .. m : i < j => ev[i] < ev[j]

\* An alert is backed by its chain: as many tactics as the chain has were observed on that
\* container, each after the one before it and each the one that its step asked for.  Redis
\* errors, a state that outlives its DEL and restarts in the middle of Process included; a
\* state that was stored under another version of the file counts with the tactics that
\* version asked for.
EvidenceBacked ==
  \A a \in alerts : \E v \in Versions :
    Occurs(a.evidence, observed[a.key[1]], a.key[2], Len(Sequence[v][a.key[2]]))

\* One event is evidence for one completion of a chain only: the completing event deletes
\* the state and does not start the next attempt.
DisjointEvidence ==
  \A x, y \in alerts : x # y /\ x.key = y.key =>
    \A i \in 1 .. Len(x.evidence), j \in 1 .. Len(y.evidence) :
      x.evidence[i] # y.evidence[j]

\* "Max allowed time between first and last step" (model/chain.go, of max_duration): when
\* the last tactic is accepted the attempt is at most that old.
WithinMaxDuration ==
  [][\A b \in Brains : pc[b] = "get" /\ pc'[b] = "delete" =>
       now <= state'[b].started + TTL(b)]_vars

\* What the code keeps instead, while the chains stay what they are: every promotion starts
\* the TTL anew, so that an attempt at step s ends within (s + 1) * max_duration.
LifetimeBound ==
  \A b \in Brains, k \in Keys :
    redis[k] # Missing /\ redis[k].volatile =>
      redis[k].expires <= redis[k].started
                          + (redis[k].step + 1) * MaxDuration[version[b]][k[2]]

\* Promote only advances the attempt it finds: it never brings back one that expired or was
\* finished meanwhile, nor does it carry over the start of an attempt that was replaced.
AdvanceInPlace ==
  [][\A k \in Keys :
       redis'[k] # Missing /\ redis'[k].step > 0 =>
         /\ redis[k] # Missing
         /\ redis'[k].started = redis[k].started
         /\ redis'[k].evidence = redis[k].evidence
            \/ \E b \in Brains :
                 redis'[k].evidence = Append(redis[k].evidence, event[b].pos)]_vars

\* No state is left without a TTL: the EXPIRE that belongs to a SET still comes, whichever
\* brain wrote or deleted the key in between.
EveryStateExpires ==
  \A k \in Keys : redis[k] # Missing =>
    redis[k].volatile \/ \E b \in Brains : pc[b] = "expire" /\ Key(b) = k

\* A chain that became shorter: a state beyond its end (Safety check of Process) is neither
\* advanced nor restarted, by no tactic; only its TTL ends it.
Beyond(b, k) == redis[k] # Missing /\ redis[k].step + 1 >= Len(Sequence[version[b]][k[2]])

BeyondIsFrozen ==
  [][\A b \in Brains, k \in Keys : Beyond(b, k) /\ version'[b] = version[b] =>
       \/ redis'[k] = redis[k]
       \/ redis'[k] = Missing /\ now' > now]_vars

\* The event goroutine gets through every event: conflicts with another brain, failing
\* calls and expiring keys included, each Process returns.
ProcessReturns == \A b \in Brains : pc[b] # "idle" ~> pc[b] = "idle"

\* A promotion moves a state on by one step (by none when another brain has done so for
\* the same step): Promote stores the step that Process computed from the state it read.
PromoteAdvances ==
  [][\A k \in Keys :
       redis[k] # Missing /\ redis'[k] # Missing /\ redis'[k].step > 0 =>
         redis'[k].step \in {redis[k].step, redis[k].step + 1}]_vars

\* Process implements the detector promised by the README, for one brain: failing calls,
\* crashes and restarts with another chain table included.  A state that Process has read
\* with its last tactic is as good as finished, it is held until DEL and alert.
TheBrain   == CHOOSE b \in Brains : TRUE
InHand(k)  == pc[TheBrain] = "delete" /\ Key(TheBrain) = k

Attack == INSTANCE AttackChain WITH
  table    <- version[TheBrain],
  progress <- [k \in Keys |-> IF InHand(k) THEN state[TheBrain].evidence
                              ELSE IF redis[k] = Missing THEN << >> ELSE redis[k].evidence]

ImplementsAttackChain == Attack!Spec
=============================================================================
