-------------------------- MODULE MCDecisionEngine --------------------------
(* Instances of DecisionEngine for TLC: signals and the sinks of cmd/brain.  *)
EXTENDS DecisionEngine

\* A completed chain, and a velocity signal that is noise when it is alone.
ChainAndNoise    == {[source |-> "fsm", score |-> 90], [source |-> "velocity", score |-> 10]}

\* The sinks of cmd/brain, the one that can fail first.
PostgresFirst == <<"postgres", "stdout">>
=============================================================================
