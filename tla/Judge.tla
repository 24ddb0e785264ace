-------------------------------- MODULE Judge --------------------------------
(***************************************************************************)
(* Risk scoring of decision.Judge: what one batch of signals is worth.     *)
(* Only the source and the score of a signal matter to it; findings and    *)
(* categories are texts for the incident and are left out.                 *)
(***************************************************************************)
EXTENDS Naturals, Sequences

Sources == {"fsm", "velocity"}
SensitiveNamespaces == {"kube-system", "monitoring"}

\* The variables of the loop of calculateRisk.
Account == [total: Nat, maxSingle: Nat, fsmHits: Nat, velocityHits: Nat]

Empty == [total |-> 0, maxSingle |-> 0, fsmHits |-> 0, velocityHits |-> 0]

Larger(x, y) == IF x > y THEN x ELSE y

\* Mutant of Worth: the factors of the two sources are swapped.
WorthSwapped(s) == IF s.source = "fsm" THEN s.score \div 2 ELSE s.score * 2

\* What a signal adds to the total: the integer division rounds each signal down.
Worth(s) == IF s.source = "fsm" THEN s.score * 2 ELSE s.score \div 2

\* Mutant of Count: velocity signals count from the first chain on only.
CountAfterChain(acc, s) ==
  [total        |-> acc.total + Worth(s),
   maxSingle    |-> Larger(acc.maxSingle, s.score),
   fsmHits      |-> acc.fsmHits + (IF s.source = "fsm" THEN 1 ELSE 0),
   velocityHits |-> acc.velocityHits
                    + (IF s.source = "velocity" /\ acc.fsmHits > 0 THEN 1 ELSE 0)]

\* One round of the loop.
Count(acc, s) ==
  [total        |-> acc.total + Worth(s),
   maxSingle    |-> Larger(acc.maxSingle, s.score),
   fsmHits      |-> acc.fsmHits + (IF s.source = "fsm" THEN 1 ELSE 0),
   velocityHits |-> acc.velocityHits + (IF s.source = "velocity" THEN 1 ELSE 0)]

\* The whole loop.
Tally(signals) ==
  LET run[i \in 0 .. Len(signals)] == IF i = 0 THEN Empty ELSE Count(run[i - 1], signals[i])
  IN  run[Len(signals)]

\* Mutant of Boosted: the boost replaces the total.
BoostedTo50(acc) == IF acc.fsmHits > 0 /\ acc.velocityHits > 10 THEN 50 ELSE acc.total

\* A chain together with more than ten velocity signals.
Boosted(acc) == acc.total + (IF acc.fsmHits > 0 /\ acc.velocityHits > 10 THEN 50 ELSE 0)

\* Mutant of Risk: without the lower bound.
RiskUnclamped(acc, namespace) ==
  IF namespace \in SensitiveNamespaces THEN (Boosted(acc) * 3) \div 2 ELSE Boosted(acc)

\* int(float64(total) * 1.5) of a natural number.
Risk(acc, namespace) ==
  LET total == Larger(Boosted(acc), acc.maxSingle) IN
  IF namespace \in SensitiveNamespaces THEN (total * 3) \div 2 ELSE total

\* Noise suppression threshold: Evaluate returns no incident.
Suppressed(risk) == risk < 20

determineSeverity(score) ==
  CASE score >= 100 -> "CRITICAL"
    [] score >= 70 /\ score < 100 -> "HIGH"
    [] score >= 40 /\ score < 70 -> "MEDIUM"
    [] OTHER -> "LOW"
=============================================================================
