------------------------------ MODULE Aggregator ------------------------------
(***************************************************************************)
(* What the decision engine promises its detectors: the signals of a       *)
(* container form one queue that is cut, front to back, into batches.  No  *)
(* signal is lost, counted twice, reordered or mixed with those of another *)
(* container on its way into a batch.                                      *)
(***************************************************************************)
EXTENDS Naturals, Sequences

CONSTANTS
  Containers,  \* container ids
  Kinds        \* [source, score] of the signals

VARIABLES
  sent,     \* number of signals sent
  pending,  \* per container, the signals not yet in a batch
  taken     \* the batches

vars == <<sent, pending, taken>>

Init ==
  /\ sent = 0
  /\ pending = [c \in Containers |-> << >>]
  /\ taken = {}

\* Signals are numbered in the order they are sent.
Arrive(c, s) ==
  /\ sent' = sent + 1
  /\ pending' = [pending EXCEPT ![c] = Append(@, [cid |-> c, source |-> s.source,
                                                 score |-> s.score, n |-> sent + 1])]
  /\ UNCHANGED taken

\* The first i signals of c become a batch.
Cut(c, i) ==
  /\ taken' = taken \cup {SubSeq(pending[c], 1, i)}
  /\ pending' = [pending EXCEPT ![c] = SubSeq(@, i + 1, Len(@))]
  /\ UNCHANGED sent

Next ==
  \/ \E c \in Containers, s \in Kinds : Arrive(c, s)
  \/ \E c \in Containers : \E i \in 1 .. Len(pending[c]) : Cut(c, i)

Spec == Init /\ [][Next]_vars
=============================================================================
