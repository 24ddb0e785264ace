----------------------------- MODULE MCFsmEngine -----------------------------
(* Instances of FsmEngine for TLC: chain tables, their durations. *)
EXTENDS FsmEngine

CONSTANTS A, B, C,   \* tactics
          v1, v2     \* versions of chains.yml

\* Four steps, the first tactic comes twice.
FourSteps    == [v \in Versions |-> << <<A, B, A, C>> >>]
\* A chain with three different tactics, and one that ends with the tactic it starts with;
\* the second version of the file cuts the first one short and reorders the other.
Rewritten    == [v \in Versions |-> IF v = v1 THEN << <<A, B, C>>, <<A, B, A>> >>
                                              ELSE << <<A, B>>, <<B, A, B>> >>]

TwoTicks     == [v \in Versions |-> [n \in Chains |-> 2]]
=============================================================================
