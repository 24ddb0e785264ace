------------------------------ MODULE Evaluation ------------------------------
(***************************************************************************)
(* Judge.Evaluate from beginning to end: the resolver looks the container  *)
(* up in the pods of the informer's cache, calculateRisk runs over the     *)
(* batch with the namespace it has found (RiskLoop), and noise is          *)
(* suppressed.  The cache may hold any of the pods of the cluster: it lags *)
(* behind, and a pod may be gone by the time it is looked up.  The lister  *)
(* goes through a map and returns the pods in any order.                   *)
(***************************************************************************)
EXTENDS RiskLoop

CONSTANTS
  Pods,      \* pods of the cluster: [name, namespace, containers, inits], with container ids
  Searches,  \* container ids of signals; they may be shortened
  NoId,      \* the empty one
  Containing \* Containing[x]: the container ids of the cluster that x is a substring of

Ids(p) == p.containers \cup p.inits

ASSUME EvaluationAssumption ==
  /\ \A p \in Pods : {"name", "namespace", "containers", "inits"} = DOMAIN p
  /\ NoId \in Searches
  /\ Containing \in [Searches -> SUBSET UNION {Ids(p) : p \in Pods}]
  /\ Containing[NoId] = UNION {Ids(p) : p \in Pods}

VARIABLES
  phase,    \* where Evaluate is
  searched, \* containerID
  listed,   \* the pods List has returned
  unseen,   \* those the loop of Resolve has not come to
  context,  \* podName and namespace
  incident  \* what Evaluate has returned

evaluateVars == <<vars, phase, searched, listed, unseen, context, incident>>

Unknown == [pod |-> "unknown", namespace |-> "unknown"]
Context(p) == [pod |-> p.name, namespace |-> p.namespace]
None == [severity |-> "none"]

\* Mutant of matchContainerID: every id contains the empty one.
matchEmpty(id, search) == id \in Containing[search]

matchContainerID(id, search) == search # NoId /\ id \in Containing[search]

-----------------------------------------------------------------------------
\* Evaluate is called for a container and asks for the pods of the cache.
List ==
  /\ phase = "list"
  /\ \/ \E known \in SUBSET Pods : listed' = known /\ unseen' = known /\ phase' = "search"
     \/ phase' = "resolved" /\ UNCHANGED <<listed, unseen>>
  /\ UNCHANGED <<vars, searched, context, incident>>

\* The loop comes to pod p: its container statuses are searched, its init containers are not.
Visit(p) ==
  /\ phase = "search" /\ p \in unseen
  /\ unseen' = unseen \ {p}
  /\ IF \E id \in p.containers : matchContainerID(id, searched)
     THEN context' = Context(p) /\ phase' = "resolved"
     ELSE UNCHANGED <<context, phase>>
  /\ UNCHANGED <<vars, searched, listed, incident>>

NotFound ==
  /\ phase = "search" /\ unseen = {}
  /\ phase' = "resolved"
  /\ UNCHANGED <<vars, searched, listed, unseen, context, incident>>

\* calculateRisk begins; the pods have gone out of scope.
Calculate ==
  /\ phase = "resolved"
  /\ phase' = "risk"
  /\ searched' = NoId /\ listed' = {} /\ unseen' = {}
  /\ UNCHANGED <<vars, context, incident>>

Round ==
  /\ phase = "risk"
  /\ Next
  /\ UNCHANGED <<phase, searched, listed, unseen, context, incident>>

\* The batch is through: noise, or an incident.
Conclude ==
  /\ phase = "risk" /\ batch # << >>
  /\ phase' = "returned"
  /\ LET risk == Risk(acc, context.namespace) IN
     incident' = IF Suppressed(risk) THEN None
                 ELSE [pod |-> context.pod, namespace |-> context.namespace, score |-> risk,
                       severity |-> determineSeverity(risk), signals |-> Len(batch)]
  /\ UNCHANGED <<vars, searched, listed, unseen, context>>

EvaluateInit ==
  /\ Init
  /\ phase = "list" /\ searched \in Searches
  /\ listed = {} /\ unseen = {} /\ context = Unknown /\ incident = None

EvaluateNext == List \/ (\E p \in Pods : Visit(p)) \/ NotFound \/ Calculate \/ Round \/ Conclude

EvaluateSpec == EvaluateInit /\ [][EvaluateNext]_evaluateVars

-----------------------------------------------------------------------------
(* Properties. *)

\* The pods of the cache with a running container that the id stands for.
Candidates ==
  IF searched = NoId THEN {}
  ELSE {p \in listed : p.containers \cap Containing[searched] # {}}

\* An incident names a pod that has the container, with the namespace of that pod, whatever
\* the order of the cache; it names none when the cache has no such pod, when the id is that
\* of an init container, or when there is no id, which every container id contains.
IncidentNamesOwner ==
  phase = "resolved" =>
    IF Candidates = {} THEN context = Unknown ELSE context \in {Context(p) : p \in Candidates}
=============================================================================
