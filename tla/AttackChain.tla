----------------------------- MODULE AttackChain -----------------------------
(***************************************************************************)
(* What attack-chain detection promises (README of the repository: "tracks *)
(* state per container and chain; completes when a full attack sequence is *)
(* observed").  Every container has a log of the tactics seen on it.  For  *)
(* each container and chain the detector holds the positions in that log   *)
(* of the tactics that matched so far, extends them one tactic at a time   *)
(* by the newest entry of the log, reports them when the last tactic is    *)
(* matched and then forgets them; it may forget unfinished progress at any *)
(* time.  The chains are those of the table in force; progress survives a  *)
(* change of the table and goes on with what the new one asks for next.    *)
(* fsm.Engine over Redis is shown to implement this in FsmEngine.          *)
(***************************************************************************)
EXTENDS Naturals, Sequences

CONSTANTS
  Containers,  \* container ids
  Tactics,     \* MITRE tactic ids
  Versions,    \* versions of the chain table
  NumChains,   \* chains; a chain is its index
  Sequence     \* Sequence[v][n]: the tactics of chain n in version v

Chains == 1 .. NumChains
Keys   == Containers \X Chains

VARIABLES
  table,     \* the version in force
  observed,  \* tactics seen so far, per container
  progress,  \* positions matched so far, per container and chain
  alerts     \* the reports made

vars == <<table, observed, progress, alerts>>

-----------------------------------------------------------------------------
Newest(k) == Len(observed[k[1]])
Steps(k)  == Sequence[table][k[2]]

\* The newest entry of the log is the tactic that chain k[2] waits for at step i.
Matches(k, i) ==
  /\ Newest(k) > 0
  /\ i <= Len(Steps(k))
  /\ observed[k[1]][Newest(k)] = Steps(k)[i]

Init ==
  /\ table \in Versions
  /\ observed = [c \in Containers |-> << >>]
  /\ progress = [k \in Keys |-> << >>]
  /\ alerts = {}

Observe(c, t) ==
  /\ observed' = [observed EXCEPT ![c] = Append(@, t)]
  /\ UNCHANGED <<table, progress, alerts>>

\* The first tactic begins an attempt, in place of one under way that waits for another;
\* progress beyond the end of its chain waits for nothing and is not replaced.
Begin(k) ==
  /\ Matches(k, 1)
  /\ \/ progress[k] = << >>
     \/ /\ Len(progress[k]) < Len(Steps(k))
        /\ ~Matches(k, Len(progress[k]) + 1)
  /\ progress' = [progress EXCEPT ![k] = <<Newest(k)>>]
  /\ UNCHANGED <<table, observed, alerts>>

\* An entry counts for one step of a chain only.
Fresh(k) == progress[k] # << >> /\ progress[k][Len(progress[k])] < Newest(k)

Advance(k) ==
  /\ Fresh(k)
  /\ Len(progress[k]) + 1 < Len(Steps(k))
  /\ Matches(k, Len(progress[k]) + 1)
  /\ progress' = [progress EXCEPT ![k] = Append(@, Newest(k))]
  /\ UNCHANGED <<table, observed, alerts>>

Finish(k) ==
  /\ Fresh(k)
  /\ Len(progress[k]) + 1 = Len(Steps(k))
  /\ Matches(k, Len(progress[k]) + 1)
  /\ alerts' = alerts \cup {[key |-> k, evidence |-> Append(progress[k], Newest(k))]}
  /\ progress' = [progress EXCEPT ![k] = << >>]
  /\ UNCHANGED <<table, observed>>

Forgotten(K) == progress' = [k \in Keys |-> IF k \in K THEN << >> ELSE progress[k]]

Forget(K) == Forgotten(K) /\ UNCHANGED <<table, observed, alerts>>

\* The detector starts again with the table it finds.
Reload(v, K) ==
  /\ table' = v
  /\ Forgotten(K)
  /\ UNCHANGED <<observed, alerts>>

Next ==
  \/ \E c \in Containers, t \in Tactics : Observe(c, t)
  \/ \E k \in Keys : Begin(k) \/ Advance(k) \/ Finish(k)
  \/ \E K \in SUBSET Keys : Forget(K) \/ \E v \in Versions : Reload(v, K)

Spec == Init /\ [][Next]_vars
=============================================================================
