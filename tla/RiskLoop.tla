------------------------------- MODULE RiskLoop -------------------------------
(***************************************************************************)
(* The loop of Judge.calculateRisk as a state machine: batch is the part   *)
(* of the signals it has been through, acc its local variables.            *)
(***************************************************************************)
EXTENDS Judge, SequencesExt

CONSTANTS
  Kinds,      \* the signals that occur: [source, score]
  MaxSignals  \* bound: the longest batch

ASSUME RiskLoopAssumption ==
  /\ Kinds \subseteq [source: Sources, score: Nat]
  /\ \A s \in Kinds : s.source = "fsm" => s.score = 90     \* cmd/brain/main.go
  /\ MaxSignals \in Nat

VARIABLES
  batch,  \* the signals accounted for
  acc     \* total, maxSingle, fsmHits, velocityHits

vars == <<batch, acc>>

TypeOK == batch \in Seq(Kinds) /\ acc \in Account

Init == batch = << >> /\ acc = Empty

Consider(s) ==
  /\ Len(batch) < MaxSignals
  /\ batch' = Append(batch, s)
  /\ acc' = Count(acc, s)

Next == \E s \in Kinds : Consider(s)

Spec == Init /\ [][Next]_vars

-----------------------------------------------------------------------------
Namespaces == SensitiveNamespaces \cup {"unknown"}

\* More evidence never makes a container look safer, whatever the namespace.
RiskIsMonotone ==
  [][\A ns \in Namespaces : Risk(acc', ns) >= Risk(acc, ns)]_vars

\* No batch is worth less than its strongest signal, although a velocity signal counts half.
AtLeastStrongest ==
  \A i \in 1 .. Len(batch), ns \in Namespaces : Risk(acc, ns) >= batch[i].score

\* A completed attack chain is never noise: whatever else is in the batch, it is CRITICAL.
ChainIsCritical ==
  (\E i \in 1 .. Len(batch) : batch[i].source = "fsm") =>
    \A ns \in Namespaces : determineSeverity(Risk(acc, ns)) = "CRITICAL"

\* The order in which signals reached the buffer does not matter to their risk.
OrderIsIrrelevant ==
  \A ns \in Namespaces :
    /\ Risk(Tally(Reverse(batch)), ns) = Risk(acc, ns)
    /\ \A i \in 1 .. Len(batch) :
         Risk(Tally(RemoveAt(batch, i) \o <<batch[i]>>), ns) = Risk(acc, ns)
=============================================================================
