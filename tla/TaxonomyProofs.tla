---------------------------- MODULE TaxonomyProofs ----------------------------
(***************************************************************************)
(* Proofs about Taxonomy, for every set of ids and every length of the     *)
(* file and of the tags of an event.                                       *)
(***************************************************************************)
EXTENDS Taxonomy, TLAPS

-----------------------------------------------------------------------------
(* Types *)

\* An entry of the file names ids, and has a tactic.
LEMMA ListingTypes ==
  ASSUME NEW e \in Listing
  PROVE  e.tactic \in Tactics /\ Named(e) \subseteq Ids /\ e.id \in Named(e)
  <1>1. \A i \in 1 .. Len(e.subs) : e.subs[i] \in SubTechniques \cup {NoId}
    BY DEF Listing
  <1> QED
    BY <1>1 DEF Listing, Named, Subs, Ids

\* The entries that the environment may write are entries.
LEMMA ListingsAreListings == Listings \subseteq Listing
  <1> SUFFICES ASSUME NEW e \in Listings PROVE e \in Listing
    OBVIOUS
  <1>1. PICK n \in 0 .. MaxSubs : e.subs \in [1 .. n -> SubTechniques \cup {NoId}]
    BY DEF Listings
  <1>2. n \in Nat
    BY <1>1, TaxonomyAssumption DEF TaxonomyAssumption
  <1>3. e.subs \in Seq(SubTechniques \cup {NoId})
    BY <1>1, <1>2
  <1> QED
    BY <1>3 DEF Listings, Listing

\* A round of the indexing loop leaves a table of ids and tactics.
LEMMA IndexedTypes ==
  ASSUME TypeOK, NEW e \in Listing
  PROVE  Indexed(e) \in UNION {[known -> Tactics] : known \in SUBSET Ids}
  <1> DEFINE known == DOMAIN index \cup Named(e)
  <1>1. PICK before \in SUBSET Ids : index \in [before -> Tactics]
    BY DEF TypeOK
  <1>2. known \in SUBSET Ids
    BY <1>1, ListingTypes
  <1>3. Indexed(e) \in [known -> Tactics]
    BY <1>1, ListingTypes DEF Indexed
  <1> QED
    BY <1>2, <1>3

\* The empty table and the empty event are typed.
LEMMA TypeInit == Init => TypeOK
  <1> SUFFICES ASSUME Init PROVE TypeOK
    OBVIOUS
  <1>1. index \in [{} -> Tactics]
    BY DEF Init
  <1> QED
    BY <1>1 DEF Init, TypeOK

\* One step per action keeps the types.
LEMMA TypeStep == TypeOK /\ [Next]_vars => TypeOK'
  <1> SUFFICES ASSUME TypeOK, [Next]_vars PROVE TypeOK'
    OBVIOUS
  <1>1. ASSUME NEW e \in Listings, IndexTechnique(e) PROVE TypeOK'
    <2>1. e \in Listing
      BY ListingsAreListings
    <2> QED
      BY <1>1, <2>1, IndexedTypes DEF IndexTechnique, TypeOK
  <1>2. CASE Loaded
    BY <1>2 DEF Loaded, TypeOK
  <1>3. ASSUME NEW tag \in Tags, Consider(tag) PROVE TypeOK'
    <2>1. tags' \in Seq(Tags)
      BY <1>3 DEF Consider, TypeOK
    <2>2. selected' \in Ids \cup {NoId}
      <3>1. selected \in Ids \cup {NoId}
        BY DEF TypeOK
      <3>2. selected' = selected \/ (tag \in Ids /\ selected' = tag)
        BY <1>3 DEF Consider
      <3> QED
        BY <3>1, <3>2
    <2>3. context' \in Seq(OtherTags)
      <3>1. context \in Seq(OtherTags)
        BY DEF TypeOK
      <3>2. context' = context \/ (tag \in OtherTags /\ context' = Append(context, tag))
        BY <1>3 DEF Consider
      <3> QED
        BY <3>1, <3>2
    <2> QED
      BY <1>3, <2>1, <2>2, <2>3 DEF Consider, TypeOK
  <1>4. CASE Return
    <2>1. PICK known \in SUBSET Ids : index \in [known -> Tactics]
      BY DEF TypeOK
    <2>2. result' \in Behavior \cup {Error}
      BY <1>4, <2>1 DEF Return, Behavior
    <2> QED
      BY <1>4, <2>2 DEF Return, TypeOK
  <1>5. CASE NextCall
    BY <1>5 DEF NextCall, TypeOK
  <1>6. CASE UNCHANGED vars
    BY <1>6 DEF vars, TypeOK
  <1> QED
    BY <1>1, <1>2, <1>3, <1>4, <1>5, <1>6 DEF Next

\* The variables of the mapper keep their types.
THEOREM TypeCorrect == Spec => []TypeOK
  BY TypeInit, TypeStep, PTL DEF Spec

-----------------------------------------------------------------------------
(* The table *)

\* One more entry decides for the ids it names and changes nothing for the others.
LEMMA IndexStep ==
  ASSUME TypeOK, LastTacticWins, NEW e \in Listing, IndexTechnique(e)
  PROVE  LastTacticWins'
  <1>1. PICK n \in Nat :
          /\ n = Len(file) /\ Len(file') = n + 1 /\ file'[n + 1] = e
          /\ \A i \in 1 .. n : file'[i] = file[i]
    BY DEF IndexTechnique, TypeOK
  <1>2. index' = Indexed(e) /\ DOMAIN index' = DOMAIN index \cup Named(e)
    BY DEF IndexTechnique, Indexed
  <1> SUFFICES ASSUME NEW id \in Ids
               PROVE  IF id \in DOMAIN index'
                      THEN \E i \in 1 .. Len(file') :
                             ListedLastAt(id, i)' /\ index'[id] = file'[i].tactic
                      ELSE \A i \in 1 .. Len(file') : id \notin Named(file'[i])
    BY DEF LastTacticWins
  <1>3. CASE id \in Named(e)
    <2>1. ListedLastAt(id, n + 1)'
      BY <1>1, <1>3 DEF ListedLastAt
    <2>2. index'[id] = file'[n + 1].tactic
      BY <1>1, <1>2, <1>3 DEF Indexed
    <2> QED
      BY <1>1, <1>2, <1>3, <2>1, <2>2
  <1>4. CASE id \notin Named(e) /\ id \in DOMAIN index
    <2>1. PICK i \in 1 .. n : ListedLastAt(id, i) /\ index[id] = file[i].tactic
      BY <1>1, <1>4 DEF LastTacticWins
    <2>2. ListedLastAt(id, i)'
      BY <1>1, <1>4, <2>1 DEF ListedLastAt
    <2>3. index'[id] = index[id]
      BY <1>2, <1>4 DEF Indexed
    <2> QED
      BY <1>1, <1>2, <1>4, <2>1, <2>2, <2>3
  <1>5. CASE id \notin Named(e) /\ id \notin DOMAIN index
    <2>1. \A i \in 1 .. n : id \notin Named(file[i])
      BY <1>1, <1>5 DEF LastTacticWins
    <2> QED
      BY <1>1, <1>2, <1>5, <2>1
  <1> QED
    BY <1>3, <1>4, <1>5

\* Only the indexing loop touches the file and the table.
LEMMA TableIsKept ==
  ASSUME LastTacticWins, UNCHANGED <<file, index>>
  PROVE  LastTacticWins'
  BY DEF LastTacticWins, ListedLastAt

\* Every step keeps LastTacticWins: IndexTechnique extends the table, the others leave it.
LEMMA TableStep == TypeOK /\ LastTacticWins /\ [Next]_vars => LastTacticWins'
  <1> SUFFICES ASSUME TypeOK, LastTacticWins, [Next]_vars PROVE LastTacticWins'
    OBVIOUS
  <1>1. ASSUME NEW e \in Listings, IndexTechnique(e) PROVE LastTacticWins'
    BY <1>1, ListingsAreListings, IndexStep
  <1>2. CASE UNCHANGED <<file, index>>
    BY <1>2, TableIsKept
  <1> QED
    BY <1>1, <1>2 DEF Next, Loaded, Consider, Return, NextCall, vars

\* In a file of any length the last tactic that lists an id, as a technique or as a
\* sub-technique, is the one its events are mapped to.
THEOREM LastTactic == Spec => []LastTacticWins
  <1>1. Init => LastTacticWins
    BY DEF Init, LastTacticWins
  <1> QED
    BY <1>1, TypeCorrect, TableStep, PTL DEF Spec

-----------------------------------------------------------------------------
(* The choice *)

\* Specificity is a number, so that two ids can be compared.
LEMMA SpecificityType == \A id \in Ids : Specificity(id) \in 0 .. 1
  BY DEF Specificity

\* An event has at most one first most specific id.
LEMMA DecidesOnce ==
  ASSUME TypeOK, NEW i, NEW j, Decides(i), Decides(j)
  PROVE  i = j
  <1>1. i \in Nat /\ j \in Nat
    BY DEF Decides
  <1>2. Specificity(tags[i]) \in 0 .. 1 /\ Specificity(tags[j]) \in 0 .. 1
    BY SpecificityType DEF Decides
  <1>3. ~(j < i) /\ ~(i < j)
    BY <1>2 DEF Decides
  <1> QED
    BY <1>1, <1>3

\* A tag that is an id becomes the choice when it is more specific than the choice so far.
LEMMA ChoiceStep ==
  ASSUME TypeOK, FirstMostSpecific, NEW tag \in Tags, Consider(tag)
  PROVE  FirstMostSpecific'
  <1>1. PICK n \in Nat :
          /\ n = Len(tags) /\ Len(tags') = n + 1 /\ tags'[n + 1] = tag
          /\ \A i \in 1 .. n : tags'[i] = tags[i]
    BY DEF Consider, TypeOK
  <1>2. NoId \notin Ids
    BY TaxonomyAssumption DEF TaxonomyAssumption, Tags
  <1>3. CASE tag \notin Ids
    <2>1. selected' = selected
      BY <1>3 DEF Consider
    <2>2. CASE selected = NoId
      <3>1. \A i \in 1 .. n + 1 : tags'[i] \notin Ids
        BY <1>1, <1>3, <2>2 DEF FirstMostSpecific
      <3> QED
        BY <1>1, <2>1, <2>2, <3>1 DEF FirstMostSpecific
    <2>3. CASE selected # NoId
      <3>1. PICK i \in 1 .. n : Decides(i) /\ selected = tags[i]
        BY <1>1, <2>3 DEF FirstMostSpecific
      <3>2. Decides(i)'
        BY <1>1, <1>3, <3>1 DEF Decides
      <3> QED
        BY <1>1, <2>1, <2>3, <3>1, <3>2 DEF FirstMostSpecific
    <2> QED
      BY <2>2, <2>3
  <1>4. CASE tag \in Ids /\ Replaces(tag)
    <2>1. selected' = tag
      BY <1>4, TaxonomyAssumption DEF Consider, TaxonomyAssumption
    <2>2. \A j \in 1 .. n : tags[j] \in Ids => Specificity(tags[j]) < Specificity(tag)
      <3>1. CASE selected = NoId
        BY <1>1, <3>1 DEF FirstMostSpecific
      <3>2. CASE selected # NoId
        <4>1. PICK i \in 1 .. n : Decides(i) /\ selected = tags[i]
          BY <1>1, <3>2 DEF FirstMostSpecific
        <4>2. \A j \in 1 .. n : tags[j] \in Ids => Specificity(tags[j]) <= Specificity(tags[i])
          BY <1>1, <4>1 DEF Decides
        <4>3. Specificity(tags[i]) < Specificity(tag) /\ tags[i] \in Ids
          BY <1>4, <3>2, <4>1 DEF Replaces, Decides
        <4> QED
          BY <1>4, <4>2, <4>3, SpecificityType
      <3> QED
        BY <3>1, <3>2
    <2>3. Decides(n + 1)'
      <3>1. \A j \in 1 .. n + 1 : j < n + 1 => j \in 1 .. n
        BY <1>1
      <3>2. \A j \in 1 .. n + 1 : tags'[j] \in Ids =>
              /\ Specificity(tags'[j]) <= Specificity(tag)
              /\ j < n + 1 => Specificity(tags'[j]) < Specificity(tag)
        BY <1>1, <1>4, <2>2, <3>1, SpecificityType
      <3> QED
        BY <1>1, <1>4, <3>2 DEF Decides
    <2> QED
      BY <1>1, <1>2, <1>4, <2>1, <2>3 DEF FirstMostSpecific
  <1>5. CASE tag \in Ids /\ ~Replaces(tag)
    <2>1. selected' = selected /\ selected # NoId
      BY <1>5, TaxonomyAssumption DEF Consider, Replaces, TaxonomyAssumption
    <2>2. PICK i \in 1 .. n : Decides(i) /\ selected = tags[i]
      BY <1>1, <2>1 DEF FirstMostSpecific
    <2>3. Specificity(tag) <= Specificity(tags[i])
      BY <1>5, <2>2, SpecificityType DEF Replaces, Decides
    <2>4. Decides(i)'
      BY <1>1, <2>2, <2>3 DEF Decides
    <2> QED
      BY <1>1, <2>1, <2>2, <2>4 DEF FirstMostSpecific
  <1> QED
    BY <1>3, <1>4, <1>5

\* Only the tags of the event and the choice matter to FirstMostSpecific.
LEMMA ChoiceIsKept ==
  ASSUME FirstMostSpecific, UNCHANGED <<tags, selected>>
  PROVE  FirstMostSpecific'
  BY DEF FirstMostSpecific, Decides

\* Every step keeps FirstMostSpecific: Consider extends the event, NextCall empties it.
LEMMA MapStep == TypeOK /\ FirstMostSpecific /\ [Next]_vars => FirstMostSpecific'
  <1> SUFFICES ASSUME TypeOK, FirstMostSpecific, [Next]_vars PROVE FirstMostSpecific'
    OBVIOUS
  <1>1. ASSUME NEW tag \in Tags, Consider(tag) PROVE FirstMostSpecific'
    BY <1>1, ChoiceStep
  <1>2. CASE UNCHANGED <<tags, selected>>
    BY <1>2, ChoiceIsKept
  <1>3. CASE NextCall
    BY <1>3 DEF NextCall, FirstMostSpecific
  <1> QED
    BY <1>1, <1>2, <1>3 DEF Next, IndexTechnique, Loaded, Return, vars

\* For any number of tags, the one pass of Map chooses the first of the most specific ids.
THEOREM Choice == Spec => []FirstMostSpecific
  <1>1. Init => FirstMostSpecific
    BY DEF Init, FirstMostSpecific
  <1> QED
    BY <1>1, TypeCorrect, MapStep, PTL DEF Spec

-----------------------------------------------------------------------------
(* The result *)

\* While the file is read, no event is mapped; the result rests on a finished table.
LoadsFirst == loading => result = Pending

\* What MappedAsWritten needs to be inductive.
Mapping ==
  /\ TypeOK /\ LastTacticWins /\ FirstMostSpecific
  /\ LoadsFirst /\ MappedAsWritten

\* Return: the chosen id is the first most specific one, the table has its last tactic.
LEMMA ReturnStep ==
  ASSUME TypeOK, LastTacticWins, FirstMostSpecific, Return
  PROVE  MappedAsWritten'
  <1>0. NoId \notin Ids /\ DOMAIN index \subseteq Ids
    BY TaxonomyAssumption DEF TaxonomyAssumption, Tags, TypeOK
  <1>1. UNCHANGED <<file, index, tags, selected>>
    BY DEF Return
  <1>2. \A i, n : /\ (Decides(i)' <=> Decides(i))
                 /\ (ListedLastAt(tags[i], n)' <=> ListedLastAt(tags[i], n))
    BY <1>1 DEF Decides, ListedLastAt
  <1>3. CASE selected \in DOMAIN index
    <2>1. result' = [status |-> "mapped", id |-> selected, tactic |-> index[selected]]
      BY <1>3 DEF Return
    <2>2. PICK i \in 1 .. Len(tags) : Decides(i) /\ selected = tags[i]
      BY <1>0, <1>3 DEF FirstMostSpecific
    <2>3. PICK n \in 1 .. Len(file) :
            ListedLastAt(selected, n) /\ index[selected] = file[n].tactic
      BY <1>0, <1>3 DEF LastTacticWins
    <2> QED
      BY <1>1, <1>2, <2>1, <2>2, <2>3 DEF MappedAsWritten
  <1>4. CASE selected \notin DOMAIN index
    <2>1. result' = Error
      BY <1>4 DEF Return
    <2>2. ASSUME NEW i \in 1 .. Len(tags), NEW n \in 1 .. Len(file), Decides(i)
          PROVE  tags[i] \notin Named(file[n])
      <3>1. tags[i] \in Ids /\ selected # NoId
        BY <2>2 DEF Decides, FirstMostSpecific
      <3>2. tags[i] = selected
        BY <2>2, <3>1, DecidesOnce DEF FirstMostSpecific
      <3> QED
        BY <1>4, <3>1, <3>2 DEF LastTacticWins
    <2> QED
      BY <1>1, <1>2, <2>1, <2>2 DEF MappedAsWritten, Error
  <1> QED
    BY <1>3, <1>4

\* Only Return produces a result, and by then the table is finished.
LEMMA MappingStep == Mapping /\ [Next]_vars => Mapping'
  <1> SUFFICES ASSUME Mapping, [Next]_vars PROVE Mapping'
    OBVIOUS
  <1> USE DEF Mapping
  <1>1. TypeOK' /\ LastTacticWins' /\ FirstMostSpecific'
    BY TypeStep, TableStep, MapStep
  <1>2. LoadsFirst'
    BY DEF LoadsFirst, Next, IndexTechnique, Loaded, Consider, Return, NextCall, vars
  <1>3. ASSUME result' = Pending PROVE MappedAsWritten'
    BY <1>3 DEF Pending, MappedAsWritten
  <1>4. ASSUME Return PROVE MappedAsWritten'
    BY <1>4, ReturnStep
  <1>5. ASSUME UNCHANGED vars PROVE MappedAsWritten'
    BY <1>5 DEF vars, MappedAsWritten, Decides, ListedLastAt
  <1>6. ~Return /\ ~(UNCHANGED vars) => result' = Pending
    BY DEF Next, IndexTechnique, Loaded, Consider, NextCall, LoadsFirst
  <1> QED
    BY <1>1, <1>2, <1>3, <1>4, <1>5, <1>6

\* From the file and the tags to the tactic, for files and events of any length: what an
\* event is mapped to, and when it is rejected.
THEOREM EndToEnd == Spec => []MappedAsWritten
  <1>1. Init => LoadsFirst /\ MappedAsWritten
    BY DEF Init, LoadsFirst, Pending, MappedAsWritten
  <1>2. Init => TypeOK /\ LastTacticWins /\ FirstMostSpecific
    BY TypeInit DEF Init, LastTacticWins, FirstMostSpecific
  <1>3. Init => Mapping
    BY <1>1, <1>2 DEF Mapping
  <1>4. Mapping => MappedAsWritten
    BY DEF Mapping
  <1> QED
    BY <1>3, <1>4, MappingStep, PTL DEF Spec
=============================================================================
