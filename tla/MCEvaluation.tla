----------------------------- MODULE MCEvaluation -----------------------------
(* Evaluation for TLC: a completed chain, and a velocity score below the threshold whose *)
(* half is rounded; twelve signals allow eleven velocity signals next to a chain.  A pod  *)
(* with an init container, and two whose container ids share a part.                     *)
EXTENDS Evaluation

MCKinds == {[source |-> "fsm", score |-> 90], [source |-> "velocity", score |-> 15]}

MCPods ==
  {[name |-> "dns",  namespace |-> "kube-system", containers |-> {"c4a1"}, inits |-> {"c2ff"}],
   [name |-> "shop", namespace |-> "default",     containers |-> {"a1e0", "b7d3"}, inits |-> {}],
   [name |-> "cron", namespace |-> "default",     containers |-> {"9b7d"}, inits |-> {}]}

MCContaining ==
  [id \in {"c4a1", "c2ff", "b7d", "0000", ""} |->
     CASE id = "b7d"  -> {"b7d3", "9b7d"}
       [] id = "0000" -> {}
       [] id = ""     -> UNION {Ids(p) : p \in MCPods}
       [] OTHER       -> {id}]
=============================================================================
