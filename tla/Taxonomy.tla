------------------------------- MODULE Taxonomy -------------------------------
(***************************************************************************)
(* The taxonomy mapper: loadAndIndexTaxonomy flattens behaviors.yml into a *)
(* table from MITRE ids to tactics, Map picks one id from the tags of an   *)
(* event and looks it up.  Both are loops, a round is a step: file is the  *)
(* part of behaviors.yml and tags the part of an event they have been      *)
(* through.  The tactic that Map returns drives every chain of the FSM.    *)
(***************************************************************************)
EXTENDS Naturals, Sequences

CONSTANTS
  Tactics,       \* MITRE tactic ids
  Techniques,    \* technique ids, Txxxx
  SubTechniques, \* sub-technique ids, Txxxx.yyy
  SemanticTags,  \* tags that begin with mitre_
  NoiseTags,     \* the tags of noiseTags
  OtherTags,     \* all other tags
  NoId,          \* the empty string
  MaxTechniques, \* bound: techniques of the file
  MaxSubs,       \* bound: sub-techniques of a technique
  MaxTags        \* bound: tags of an event

Ids  == Techniques \cup SubTechniques
Tags == Ids \cup SemanticTags \cup NoiseTags \cup OtherTags

ASSUME TaxonomyAssumption ==
  /\ Techniques \cap SubTechniques = {}
  /\ Ids \cap (SemanticTags \cup NoiseTags \cup OtherTags) = {}
  /\ OtherTags \cap (SemanticTags \cup NoiseTags) = {}
  /\ NoId \notin Tags
  /\ MaxTechniques \in Nat /\ MaxSubs \in Nat /\ MaxTags \in Nat

VARIABLES
  file,     \* techniques indexed so far, each with the tactic it is listed under
  loading,  \* NewMapper has not returned
  index,    \* behaviorIndex
  tags,     \* tags of the event seen so far
  selected, \* selectedID
  context,  \* contextTags
  result    \* what Map returned for the event: nothing yet, an error or a behavior

vars == <<file, loading, index, tags, selected, context, result>>

Listing  == [tactic: Tactics, id: Techniques, subs: Seq(SubTechniques \cup {NoId})]
Behavior == [status: {"mapped"}, id: Ids, tactic: Tactics]
Pending  == [status |-> "pending"]
Error    == [status |-> "error"]

TypeOK ==
  /\ file \in Seq(Listing)
  /\ loading \in BOOLEAN
  /\ index \in UNION {[known -> Tactics] : known \in SUBSET Ids}
  /\ tags \in Seq(Tags)
  /\ selected \in Ids \cup {NoId}
  /\ context \in Seq(OtherTags)
  /\ result \in Behavior \cup {Pending, Error}

-----------------------------------------------------------------------------
Subs(e) == {e.subs[i] : i \in 1 .. Len(e.subs)}

\* Mutant of Named: an empty id is indexed too.
NamedOrEmpty(e) == {e.id} \cup Subs(e)

\* The ids that one round of the loop over the techniques indexes.
Named(e) == {e.id} \cup (Subs(e) \ {NoId})

\* Mutant of Indexed: an id that is there already keeps its tactic.
IndexedOnce(e) ==
  [id \in DOMAIN index \cup Named(e) |->
     IF id \in DOMAIN index THEN index[id] ELSE e.tactic]

Indexed(e) ==
  [id \in DOMAIN index \cup Named(e) |-> IF id \in Named(e) THEN e.tactic ELSE index[id]]

\* strings.Count(id, "."), for an id that the regular expression accepts.
Specificity(id) == IF id \in SubTechniques THEN 1 ELSE 0

\* Mutant of Replaces: the last one of the most specific ids wins.
ReplacesEqual(tag) == selected = NoId \/ Specificity(tag) >= Specificity(selected)

Replaces(tag) == selected = NoId \/ Specificity(tag) > Specificity(selected)

-----------------------------------------------------------------------------
\* One technique of behaviors.yml, with the tactic it is listed under.
IndexTechnique(e) ==
  /\ loading
  /\ Len(file) < MaxTechniques
  /\ file' = Append(file, e)
  /\ index' = Indexed(e)
  /\ UNCHANGED <<loading, tags, selected, context, result>>

\* NewMapper returns.
Loaded ==
  /\ loading
  /\ loading' = FALSE
  /\ UNCHANGED <<file, index, tags, selected, context, result>>

\* One tag of an event.
Consider(tag) ==
  /\ ~loading /\ result = Pending
  /\ Len(tags) < MaxTags
  /\ tags' = Append(tags, tag)
  /\ \/ /\ tag \in Ids
        /\ selected' = IF Replaces(tag) THEN tag ELSE selected
        /\ UNCHANGED context
     \/ /\ tag \in SemanticTags \cup NoiseTags
        /\ UNCHANGED <<selected, context>>
     \/ /\ tag \in OtherTags
        /\ context' = Append(context, tag)
        /\ UNCHANGED selected
  /\ UNCHANGED <<file, loading, index, result>>

\* Mutant of Return: an id that is not in the table falls back to any other id of the event.
ReturnAnyKnown ==
  /\ ~loading /\ result = Pending
  /\ LET known == {tags[i] : i \in 1 .. Len(tags)} \cap DOMAIN index IN
     \/ \E id \in known : result' = [status |-> "mapped", id |-> id, tactic |-> index[id]]
     \/ known = {} /\ result' = Error
  /\ UNCHANGED <<file, loading, index, tags, selected, context>>

\* After the last tag: no id, an id that is not in the table, or a behavior.
Return ==
  /\ ~loading /\ result = Pending
  /\ \/ selected \notin DOMAIN index /\ result' = Error
     \/ /\ selected \in DOMAIN index
        /\ result' = [status |-> "mapped", id |-> selected, tactic |-> index[selected]]
  /\ UNCHANGED <<file, loading, index, tags, selected, context>>

\* The next call of Map starts from empty locals.
NextCall ==
  /\ result # Pending
  /\ tags' = << >> /\ selected' = NoId /\ context' = << >> /\ result' = Pending
  /\ UNCHANGED <<file, loading, index>>

Init ==
  /\ file = << >> /\ loading = TRUE /\ index = << >>
  /\ tags = << >> /\ selected = NoId /\ context = << >> /\ result = Pending

Listings == [tactic: Tactics, id: Techniques,
             subs: UNION {[1 .. n -> SubTechniques \cup {NoId}] : n \in 0 .. MaxSubs}]

Next ==
  \/ \E e \in Listings : IndexTechnique(e)
  \/ Loaded
  \/ \E tag \in Tags : Consider(tag)
  \/ Return
  \/ NextCall

Spec == Init /\ [][Next]_vars

-----------------------------------------------------------------------------
(* Properties. *)

\* id is listed in technique number i of the file, and in none after it.
ListedLastAt(id, i) ==
  /\ i \in 1 .. Len(file) /\ id \in Named(file[i])
  /\ \A j \in i + 1 .. Len(file) : id \notin Named(file[j])

\* An id that MITRE lists under several tactics belongs to the one that comes last in the
\* file, whether it is listed there as a technique or as a sub-technique; an id that is
\* listed nowhere is not in the table.
LastTacticWins ==
  \A id \in Ids :
    IF id \in DOMAIN index
    THEN \E i \in 1 .. Len(file) : ListedLastAt(id, i) /\ index[id] = file[i].tactic
    ELSE \A i \in 1 .. Len(file) : id \notin Named(file[i])

\* tags[i] is the first of the most specific ids of the event.
Decides(i) ==
  /\ i \in 1 .. Len(tags) /\ tags[i] \in Ids
  /\ \A j \in 1 .. Len(tags) : tags[j] \in Ids =>
       /\ Specificity(tags[j]) <= Specificity(tags[i])
       /\ j < i => Specificity(tags[j]) < Specificity(tags[i])

\* The choice that Map makes in one pass is that of the first most specific id.
FirstMostSpecific ==
  IF selected = NoId
  THEN \A i \in 1 .. Len(tags) : tags[i] \notin Ids
  ELSE \E i \in 1 .. Len(tags) : Decides(i) /\ selected = tags[i]

\* End to end: an event is mapped to the tactic under which the file lists, for the last
\* time, the first of its most specific ids.  It is rejected when it has no id, and also
\* when that id is not listed, although others of its ids may be.
MappedAsWritten ==
  /\ result.status = "mapped" =>
       \E i \in 1 .. Len(tags), n \in 1 .. Len(file) :
         Decides(i) /\ ListedLastAt(tags[i], n)
         /\ result.id = tags[i] /\ result.tactic = file[n].tactic
  /\ result.status = "error" =>
       \A i \in 1 .. Len(tags), n \in 1 .. Len(file) :
         Decides(i) => tags[i] \notin Named(file[n])
=============================================================================
