--------------------------- MODULE EvaluationProofs ---------------------------
(***************************************************************************)
(* Proofs about the risk of a batch (RiskLoop), for every set of velocity  *)
(* scores and batches of every length, and about Evaluation, for any       *)
(* cluster, any container ids and any cache.                               *)
(***************************************************************************)
EXTENDS Evaluation, OperatorProofs

-----------------------------------------------------------------------------
(* The loop of calculateRisk. *)

\* Every kind of signal has a source and a natural score, 90 for a chain.
LEMMA KindTypes ==
  ASSUME NEW s \in Kinds
  PROVE  /\ s.source \in Sources /\ s.score \in Nat /\ Worth(s) \in Nat
         /\ s.source = "fsm" => s.score = 90 /\ Worth(s) = 180
  <1>1. s \in [source: Sources, score: Nat] /\ (s.source = "fsm" => s.score = 90)
    BY RiskLoopAssumption DEF RiskLoopAssumption
  <1>2. s.source \in Sources /\ s.score \in Nat
    BY <1>1
  <1>3. s.score * 2 \in Nat /\ s.score \div 2 \in Nat
    BY <1>2
  <1> QED
    BY <1>1, <1>2, <1>3 DEF Worth

\* What one round of the loop does to its variables.
LEMMA CountEffect ==
  ASSUME NEW a \in Account, NEW s \in Kinds
  PROVE  /\ Count(a, s) \in Account
         /\ Count(a, s).total = a.total + Worth(s)
         /\ Count(a, s).maxSingle >= a.maxSingle /\ Count(a, s).maxSingle >= s.score
         /\ Count(a, s).fsmHits >= a.fsmHits
         /\ s.source = "fsm" => Count(a, s).fsmHits > 0
         /\ Count(a, s).velocityHits >= a.velocityHits
  <1>1. /\ a.total \in Nat /\ a.maxSingle \in Nat /\ a.fsmHits \in Nat
        /\ a.velocityHits \in Nat
    BY DEF Account
  <1>2. Larger(a.maxSingle, s.score) \in Nat
        /\ Larger(a.maxSingle, s.score) >= a.maxSingle
        /\ Larger(a.maxSingle, s.score) >= s.score
    BY <1>1, KindTypes DEF Larger
  <1> QED
    BY <1>1, <1>2, KindTypes DEF Count, Account

\* The initial account is one, and every round yields another.
LEMMA TypeStep == TypeOK /\ [Next]_vars => TypeOK'
  <1> SUFFICES ASSUME TypeOK, [Next]_vars PROVE TypeOK'
    OBVIOUS
  <1>1. CASE UNCHANGED vars
    BY <1>1 DEF vars, TypeOK
  <1>2. ASSUME NEW s \in Kinds, Consider(s)
        PROVE  TypeOK'
    BY <1>2, CountEffect DEF Consider, TypeOK
  <1> QED
    BY <1>1, <1>2 DEF Next

\* The local variables of the loop stay natural numbers.
THEOREM TypeCorrect == Spec => []TypeOK
  <1>1. Init => TypeOK
    BY DEF Init, TypeOK, Empty, Account
  <1> QED
    BY <1>1, TypeStep, PTL DEF Spec

-----------------------------------------------------------------------------
\* What the loop has found out about its batch.
Informed ==
  /\ \A i \in 1 .. Len(batch) : acc.maxSingle >= batch[i].score
  /\ (\E i \in 1 .. Len(batch) : batch[i].source = "fsm") => acc.total >= 180

\* One more signal keeps the account informed of the whole batch.
LEMMA InformedStep == TypeOK /\ Informed /\ [Next]_vars => Informed'
  <1> SUFFICES ASSUME TypeOK, Informed, [Next]_vars PROVE Informed'
    OBVIOUS
  <1>1. CASE UNCHANGED vars
    BY <1>1 DEF vars, Informed
  <1>2. ASSUME NEW s \in Kinds, Consider(s)
        PROVE  Informed'
    <2>1. /\ acc \in Account /\ acc' = Count(acc, s) /\ Len(batch) \in Nat
          /\ acc.total \in Nat /\ acc.maxSingle \in Nat
      BY <1>2 DEF TypeOK, Consider, Account
    <2>2. acc'.maxSingle \in Nat /\ acc'.total = acc.total + Worth(s)
      BY <2>1, CountEffect DEF Account
    <2>3. acc'.maxSingle >= acc.maxSingle /\ acc'.maxSingle >= s.score
      BY <2>1, CountEffect
    <2>4. /\ batch' = Append(batch, s) /\ Len(batch') = Len(batch) + 1
          /\ batch'[Len(batch) + 1] = s
          /\ \A i \in 1 .. Len(batch) : batch'[i] = batch[i] /\ batch[i] \in Kinds
      BY <1>2, <2>1 DEF Consider, TypeOK
    <2>5. Worth(s) \in Nat /\ s.score \in Nat /\ (s.source = "fsm" => Worth(s) = 180)
      BY KindTypes
    <2>6. ASSUME NEW i \in 1 .. Len(batch')
          PROVE  acc'.maxSingle >= batch'[i].score
      <3>1. CASE i = Len(batch) + 1
        BY <3>1, <2>3, <2>4
      <3>2. CASE i # Len(batch) + 1
        <4>1. i \in 1 .. Len(batch) /\ batch'[i] = batch[i]
          BY <3>2, <2>1, <2>4
        <4>2. batch[i].score \in Nat /\ acc.maxSingle >= batch[i].score
          BY <4>1, <2>4, KindTypes DEF Informed
        <4> QED
          BY <4>1, <4>2, <2>1, <2>2, <2>3
      <3> QED
        BY <3>1, <3>2
    <2>7. ASSUME NEW i \in 1 .. Len(batch'), batch'[i].source = "fsm"
          PROVE  acc'.total >= 180
      <3>1. CASE i = Len(batch) + 1
        BY <3>1, <2>7, <2>1, <2>2, <2>4, <2>5
      <3>2. CASE i # Len(batch) + 1
        <4>1. i \in 1 .. Len(batch) /\ batch[i].source = "fsm"
          BY <3>2, <2>7, <2>1, <2>4
        <4> QED
          BY <4>1, <2>1, <2>2, <2>5 DEF Informed
      <3> QED
        BY <3>1, <3>2
    <2> QED
      BY <2>6, <2>7 DEF Informed
  <1> QED
    BY <1>1, <1>2 DEF Next

\* The account is informed of the batch throughout the loop.
LEMMA InformedAlways == Spec => []Informed
  <1>1. Init => Informed
    BY DEF Init, Informed
  <1> QED
    BY <1>1, InformedStep, TypeCorrect, PTL DEF Spec

\* The halving of velocity signals never takes a batch below its strongest signal.
THEOREM StrongestIsALowerBound == Spec => []AtLeastStrongest
  <1>1. TypeOK /\ Informed => AtLeastStrongest
    <2> SUFFICES ASSUME TypeOK, Informed, NEW i \in 1 .. Len(batch), NEW ns \in Namespaces
                 PROVE  Risk(acc, ns) >= batch[i].score
      BY DEF AtLeastStrongest
    <2>1. acc \in Account /\ acc.maxSingle \in Nat /\ batch[i] \in Kinds
      BY DEF TypeOK, Account
    <2>2. batch[i].score \in Nat /\ acc.maxSingle >= batch[i].score
      BY <2>1, KindTypes DEF Informed
    <2> QED
      BY <2>1, <2>2, RiskBounds
  <1> QED
    BY <1>1, TypeCorrect, InformedAlways, PTL

\* Whatever the batch and the namespace, a completed chain is neither suppressed nor less
\* than CRITICAL.
THEOREM ChainsAreCritical == Spec => []ChainIsCritical
  <1>1. TypeOK /\ Informed => ChainIsCritical
    <2> SUFFICES ASSUME TypeOK, Informed, NEW ns \in Namespaces,
                        \E i \in 1 .. Len(batch) : batch[i].source = "fsm"
                 PROVE  determineSeverity(Risk(acc, ns)) = "CRITICAL"
      BY DEF ChainIsCritical
    <2>1. acc \in Account /\ acc.total \in Nat /\ acc.total >= 180
      BY DEF TypeOK, Account, Informed
    <2> QED
      BY <2>1, ChainRisk
  <1> QED
    BY <1>1, TypeCorrect, InformedAlways, PTL

\* Another signal never lowers the risk of a batch.
THEOREM MoreEvidenceMoreRisk == Spec => RiskIsMonotone
  <1>1. TypeOK /\ [Next]_vars => [\A ns \in Namespaces : Risk(acc', ns) >= Risk(acc, ns)]_vars
    <2> SUFFICES ASSUME TypeOK, NEW s \in Kinds, Consider(s), NEW ns \in Namespaces
                 PROVE  Risk(acc', ns) >= Risk(acc, ns)
      BY DEF Next
    <2> DEFINE b == Count(acc, s)
    <2>1. acc \in Account /\ acc' = b
      BY DEF TypeOK, Consider
    <2>2. b \in Account /\ b.total >= acc.total /\ b.maxSingle >= acc.maxSingle
          /\ b.fsmHits >= acc.fsmHits /\ b.velocityHits >= acc.velocityHits
      BY <2>1, CountEffect, KindTypes DEF Account
    <2> HIDE DEF b
    <2>3. /\ acc.total \in Nat /\ acc.maxSingle \in Nat /\ acc.fsmHits \in Nat
          /\ acc.velocityHits \in Nat /\ b.total \in Nat /\ b.maxSingle \in Nat
          /\ b.fsmHits \in Nat /\ b.velocityHits \in Nat
      BY <2>1, <2>2 DEF Account
    <2>4. Boosted(b) >= Boosted(acc) /\ Boosted(b) \in Nat /\ Boosted(acc) \in Nat
      BY <2>2, <2>3 DEF Boosted
    <2> DEFINE m == Larger(Boosted(acc), acc.maxSingle)
               n == Larger(Boosted(b), b.maxSingle)
    <2>5. m \in Nat /\ n \in Nat /\ n >= m
      BY <2>2, <2>3, <2>4 DEF Larger
    <2>6. Risk(acc, ns) = (IF ns \in SensitiveNamespaces THEN (m * 3) \div 2 ELSE m)
          /\ Risk(b, ns) = (IF ns \in SensitiveNamespaces THEN (n * 3) \div 2 ELSE n)
      BY DEF Risk
    <2> HIDE DEF m, n
    <2>7. (n * 3) \div 2 >= (m * 3) \div 2
      BY <2>5
    <2> QED
      BY <2>1, <2>5, <2>6, <2>7
  <1> QED
    BY <1>1, TypeCorrect, PTL DEF Spec, RiskIsMonotone

-----------------------------------------------------------------------------
(* Order. *)

\* Signals of the kinds that occur are what Tally expects.
LEMMA KindsAreScored == Scored(Kinds)
  BY KindTypes DEF Scored

\* The state machine computes Tally.
Tallied == acc = Tally(batch)

\* Every round of the state machine is one of Tally.
LEMMA TalliedStep == TypeOK /\ Tallied /\ [Next]_vars => Tallied'
  <1> SUFFICES ASSUME TypeOK, Tallied, [Next]_vars PROVE Tallied'
    OBVIOUS
  <1>1. CASE UNCHANGED vars
    BY <1>1 DEF vars, Tallied
  <1>2. ASSUME NEW s \in Kinds, Consider(s) PROVE Tallied'
    BY <1>2, KindsAreScored, TallyAppend DEF Consider, TypeOK, Tallied
  <1> QED
    BY <1>1, <1>2 DEF Next

\* At every point of the loop its variables are the tally of the signals so far.
LEMMA TalliedAlways == Spec => []Tallied
  <1>1. Init => Tallied
    BY TallyEmpty DEF Init, Tallied
  <1> QED
    BY <1>1, TalliedStep, TypeCorrect, PTL DEF Spec

\* The tally of one signal.
LEMMA TallyOne ==
  ASSUME NEW x \in Kinds
  PROVE  /\ <<x>> \in Seq(Kinds) /\ Tally(<<x>>) \in Account
         /\ \A a \in Account : Count(a, x) = Together(a, Tally(<<x>>))
  <1>1. << >> \in Seq(Kinds) /\ <<x>> = Append(<< >>, x) /\ <<x>> \in Seq(Kinds)
    OBVIOUS
  <1>2. Tally(<<x>>) = Count(Empty, x)
    <2>1. Tally(Append(<< >>, x)) = Count(Tally(<< >>), x)
      BY <1>1, KindsAreScored, TallyAppend
    <2> QED
      BY <1>1, <2>1, TallyEmpty
  <1>3. Empty \in Account
    BY DEF Empty, Account
  <1>4. /\ Count(Empty, x) \in Account
        /\ \A a \in Account : Count(a, x) = Together(a, Count(Empty, x))
    BY <1>3, KindsAreScored, CountIsTogether
  <1> QED
    BY <1>1, <1>2, <1>4

\* Reversing a sequence that ends with x is putting x before the rest reversed.
LEMMA ReverseAppend ==
  ASSUME NEW S, NEW s \in Seq(S), NEW x \in S
  PROVE  Reverse(s) \in Seq(S) /\ Reverse(Append(s, x)) = <<x>> \o Reverse(s)
  <1> DEFINE n == Len(s)
             t == Append(s, x)
             r == Reverse(s)
             u == <<x>> \o r
  <1>1. /\ t \in Seq(S) /\ Len(t) = n + 1 /\ n \in Nat /\ t[n + 1] = x
        /\ \A i \in 1 .. n : t[i] = s[i]
    BY AppendProperties, LenProperties
  <1>2. r \in Seq(S) /\ Len(r) = n /\ \A i \in 1 .. n : r[i] = s[(n - i) + 1]
    <2>1. \A i \in 1 .. n : (n - i) + 1 \in 1 .. n
      BY <1>1
    <2>2. \A i \in 1 .. n : s[(n - i) + 1] \in S
      BY <2>1, ElementOfSeq
    <2>3. r = [i \in 1 .. n |-> s[(n - i) + 1]]
      BY DEF Reverse
    <2> HIDE DEF n, r
    <2>4. r \in [1 .. n -> S]
      BY <2>2, <2>3
    <2>5. r \in Seq(S) /\ Len(r) = n
      BY <1>1, <2>4, LenProperties, SeqDef
    <2> QED
      BY <2>3, <2>5
  <1>3. /\ u \in Seq(S) /\ Len(u) = n + 1 /\ u[1] = x
        /\ \A i \in 2 .. n + 1 : u[i] = r[i - 1]
    <2>1. <<x>> \in Seq(S) /\ Len(<<x>>) = 1 /\ <<x>>[1] = x
      OBVIOUS
    <2> HIDE DEF n, r
    <2> QED
      BY <1>1, <1>2, <2>1, ConcatProperties
  <1>4. Reverse(t) = [i \in 1 .. n + 1 |-> t[((n + 1) - i) + 1]]
    BY <1>1 DEF Reverse
  <1> HIDE DEF n, t, r, u
  <1>5. \A i \in 1 .. n + 1 : t[((n + 1) - i) + 1] = u[i]
    <2> SUFFICES ASSUME NEW i \in 1 .. n + 1 PROVE t[((n + 1) - i) + 1] = u[i]
      OBVIOUS
    <2>1. CASE i = 1
      <3>1. ((n + 1) - i) + 1 = n + 1
        BY <1>1, <2>1
      <3> QED
        BY <1>1, <1>3, <2>1, <3>1
    <2>2. CASE i # 1
      <3>1. i - 1 \in 1 .. n /\ i \in 2 .. n + 1 /\ ((n + 1) - i) + 1 = (n - (i - 1)) + 1
            /\ (n - (i - 1)) + 1 \in 1 .. n
        BY <1>1, <2>2
      <3>2. u[i] = s[(n - (i - 1)) + 1]
        BY <1>2, <1>3, <3>1
      <3> QED
        BY <1>1, <3>1, <3>2
    <2> QED
      BY <2>1, <2>2
  <1>6. Reverse(t) = u
    <2>1. u = [i \in 1 .. n + 1 |-> u[i]]
      BY <1>1, <1>3, LenProperties
    <2> QED
      BY <1>4, <1>5, <2>1
  <1> QED
    BY <1>2, <1>6 DEF t, r, u

\* A batch read backwards has the same tally.
LEMMA TallyReverse == \A s \in Seq(Kinds) : Tally(Reverse(s)) = Tally(s)
  <1> DEFINE P == {s \in Seq(Kinds) : Tally(Reverse(s)) = Tally(s)}
  <1>1. << >> \in P
    <2>1. Reverse(<< >>) = << >>
      BY DEF Reverse
    <2> QED
      BY <2>1
  <1>2. ASSUME NEW s \in Seq(Kinds), NEW x \in Kinds, s \in P PROVE Append(s, x) \in P
    <2>1. Reverse(s) \in Seq(Kinds) /\ Reverse(Append(s, x)) = <<x>> \o Reverse(s)
      BY ReverseAppend
    <2>2. Tally(<<x>> \o Reverse(s)) = Together(Tally(<<x>>), Tally(Reverse(s)))
      BY <2>1, TallyOne, KindsAreScored, TallyConcat
    <2>3. Tally(s) \in Account /\ Tally(<<x>>) \in Account
      BY KindsAreScored, TallyType, TallyOne
    <2>4. Together(Tally(<<x>>), Tally(s)) = Together(Tally(s), Tally(<<x>>))
      BY <2>3, TogetherLaws
    <2>5. Tally(Append(s, x)) = Count(Tally(s), x)
      BY KindsAreScored, TallyAppend
    <2>6. Count(Tally(s), x) = Together(Tally(s), Tally(<<x>>))
      BY <2>3, TallyOne
    <2>7. Append(s, x) \in Seq(Kinds)
      OBVIOUS
    <2> QED
      BY <1>2, <2>1, <2>2, <2>4, <2>5, <2>6, <2>7
  <1>3. Seq(Kinds) \subseteq P
    <2> HIDE DEF P
    <2> QED
      BY <1>1, <1>2, SequenceInduction
  <1> QED
    BY <1>3

\* A batch is what is before its element i, the element, and what is behind it.
LEMMA Split ==
  ASSUME NEW S, NEW s \in Seq(S), NEW i \in 1 .. Len(s)
  PROVE  /\ SubSeq(s, 1, i - 1) \in Seq(S) /\ SubSeq(s, i + 1, Len(s)) \in Seq(S)
         /\ <<s[i]>> \in Seq(S) /\ s[i] \in S
         /\ s = (SubSeq(s, 1, i - 1) \o <<s[i]>>) \o SubSeq(s, i + 1, Len(s))
  <1> DEFINE n == Len(s)
             p == SubSeq(s, 1, i - 1)
             q == SubSeq(s, i + 1, n)
  <1>1. n \in Nat /\ i \in 1 .. n /\ s[i] \in S /\ <<s[i]>> \in Seq(S)
    BY LenProperties, ElementOfSeq
  <1>2. SubSeq(s, 1, i) = p \o <<s[i]>>
    <2>1. SubSeq(s, 1, i) = Append(SubSeq(s, 1, i - 1), s[i])
      BY <1>1, SubSeqRecursiveSecond
    <2>2. p \in Seq(S)
      BY <1>1, SubSeqProperties
    <2> HIDE DEF p
    <2> QED
      BY <1>1, <2>1, <2>2, AppendIsConcat DEF p
  <1>3. p \in Seq(S) /\ q \in Seq(S)
    BY <1>1, SubSeqProperties
  <1>4. SubSeq(s, 1, n) = SubSeq(s, 1, i) \o SubSeq(s, i + 1, n)
    BY <1>1, ConcatAdjacentSubSeq
  <1>5. SubSeq(s, 1, n) = s
    BY SubSeqFull
  <1> QED
    BY <1>1, <1>2, <1>3, <1>4, <1>5

\* Whatever the order in which the signals of a batch reach the buffer, its risk is the same.
THEOREM OrderDoesNotMatter == Spec => []OrderIsIrrelevant
  <1>1. TypeOK /\ Tallied => OrderIsIrrelevant
    <2> SUFFICES ASSUME TypeOK, Tallied PROVE OrderIsIrrelevant
      OBVIOUS
    <2>1. batch \in Seq(Kinds) /\ acc = Tally(batch)
      BY DEF TypeOK, Tallied
    <2>2. Tally(Reverse(batch)) = acc
      BY <2>1, TallyReverse
    <2>3. ASSUME NEW i \in 1 .. Len(batch)
          PROVE  Tally(RemoveAt(batch, i) \o <<batch[i]>>) = acc
      <3> DEFINE p == SubSeq(batch, 1, i - 1)
                 q == SubSeq(batch, i + 1, Len(batch))
                 x == <<batch[i]>>
      <3>1. p \in Seq(Kinds) /\ q \in Seq(Kinds) /\ x \in Seq(Kinds) /\ batch = (p \o x) \o q
        BY <2>1, Split
      <3>2. RemoveAt(batch, i) = p \o q
        BY DEF RemoveAt
      <3> HIDE DEF p, q, x
      <3>3. p \o x \in Seq(Kinds) /\ p \o q \in Seq(Kinds)
        BY <3>1, ConcatProperties
      <3>4. /\ Tally(p) \in Account /\ Tally(q) \in Account /\ Tally(x) \in Account
        BY <3>1, KindsAreScored, TallyType
      <3>5. /\ Tally((p \o x) \o q) = Together(Together(Tally(p), Tally(x)), Tally(q))
            /\ Tally((p \o q) \o x) = Together(Together(Tally(p), Tally(q)), Tally(x))
        BY <3>1, <3>3, KindsAreScored, TallyConcat
      <3>6. /\ Together(Together(Tally(p), Tally(x)), Tally(q))
                 = Together(Tally(p), Together(Tally(x), Tally(q)))
            /\ Together(Together(Tally(p), Tally(q)), Tally(x))
                 = Together(Tally(p), Together(Tally(q), Tally(x)))
            /\ Together(Tally(x), Tally(q)) = Together(Tally(q), Tally(x))
        BY <3>4, TogetherLaws
      <3> QED
        BY <2>1, <3>1, <3>2, <3>5, <3>6 DEF x
    <2> QED
      BY <2>2, <2>3 DEF OrderIsIrrelevant
  <1> QED
    BY <1>1, TypeCorrect, TalliedAlways, PTL

\* The orders in which n signals can come.
Orders(n) ==
  {p \in [1 .. n -> 1 .. n] : /\ \A i, j \in 1 .. n : p[i] = p[j] => i = j
                              /\ \A j \in 1 .. n : \E i \in 1 .. n : p[i] = j}

\* The signals of s in the order p.
InOrderOf(p, s) == [i \in 1 .. Len(s) |-> s[p[i]]]

\* An order of n + 1 signals without the last one, which comes at place k, is an order of n.
LEMMA ShorterOrder ==
  ASSUME NEW n \in Nat, NEW p \in Orders(n + 1), NEW k \in 1 .. n + 1, p[k] = n + 1
  PROVE  [i \in 1 .. n |-> IF i < k THEN p[i] ELSE p[i + 1]] \in Orders(n)
  <1> DEFINE at(i) == IF i < k THEN i ELSE i + 1
             g == [i \in 1 .. n |-> IF i < k THEN p[i] ELSE p[i + 1]]
  <1>1. \A i \in 1 .. n : at(i) \in 1 .. n + 1 /\ at(i) # k /\ g[i] = p[at(i)]
    OBVIOUS
  <1>2. \A i, j \in 1 .. n : at(i) = at(j) => i = j
    OBVIOUS
  <1>3. ASSUME NEW j \in 1 .. n + 1, j # k PROVE \E i \in 1 .. n : at(i) = j
    <2>1. CASE j < k
      <3>1. j \in 1 .. n /\ at(j) = j
        BY <2>1
      <3> QED
        BY <3>1
    <2>2. CASE j > k
      <3>1. j - 1 \in 1 .. n /\ at(j - 1) = j
        BY <2>2
      <3> QED
        BY <3>1
    <2> QED
      BY <1>3, <2>1, <2>2
  <1>4. /\ \A i \in 1 .. n + 1 : p[i] \in 1 .. n + 1
        /\ \A i, j \in 1 .. n + 1 : p[i] = p[j] => i = j
        /\ \A j \in 1 .. n + 1 : \E i \in 1 .. n + 1 : p[i] = j
    BY DEF Orders
  <1> HIDE DEF at
  <1>5. \A i \in 1 .. n : g[i] \in 1 .. n
    <2> SUFFICES ASSUME NEW i \in 1 .. n PROVE g[i] \in 1 .. n
      OBVIOUS
    <2>1. p[at(i)] \in 1 .. n + 1 /\ p[at(i)] # n + 1
      BY <1>1, <1>4
    <2> QED
      BY <1>1, <2>1
  <1>6. \A i, j \in 1 .. n : g[i] = g[j] => i = j
    BY <1>1, <1>2, <1>4
  <1>7. ASSUME NEW j \in 1 .. n PROVE \E i \in 1 .. n : g[i] = j
    <2>1. PICK m \in 1 .. n + 1 : p[m] = j
      BY <1>4
    <2>2. m # k
      BY <2>1
    <2> QED
      BY <1>1, <1>3, <2>1, <2>2
  <1>8. g \in [1 .. n -> 1 .. n]
    BY <1>5
  <1> HIDE DEF g
  <1> QED
    BY <1>6, <1>7, <1>8 DEF Orders, g

\* A batch without its element k.
LEMMA TallyWithout ==
  ASSUME NEW s \in Seq(Kinds), NEW k \in 1 .. Len(s)
  PROVE  LET rest == SubSeq(s, 1, k - 1) \o SubSeq(s, k + 1, Len(s)) IN
         rest \in Seq(Kinds) /\ Tally(s) = Count(Tally(rest), s[k])
  <1> DEFINE p == SubSeq(s, 1, k - 1)
             q == SubSeq(s, k + 1, Len(s))
             x == <<s[k]>>
  <1>1. /\ p \in Seq(Kinds) /\ q \in Seq(Kinds) /\ x \in Seq(Kinds) /\ s = (p \o x) \o q
        /\ s[k] \in Kinds
    BY Split
  <1>2. \A a \in Account : Count(a, s[k]) = Together(a, Tally(x))
    BY <1>1, TallyOne
  <1> HIDE DEF p, q, x
  <1>3. p \o x \in Seq(Kinds) /\ p \o q \in Seq(Kinds)
    BY <1>1, ConcatProperties
  <1>4. /\ Tally(p) \in Account /\ Tally(q) \in Account /\ Tally(x) \in Account
        /\ Tally(p \o q) \in Account
    BY <1>1, <1>3, KindsAreScored, TallyType
  <1>5. /\ Tally((p \o x) \o q) = Together(Together(Tally(p), Tally(x)), Tally(q))
        /\ Tally(p \o q) = Together(Tally(p), Tally(q))
    BY <1>1, <1>3, KindsAreScored, TallyConcat
  <1>6. /\ Together(Together(Tally(p), Tally(x)), Tally(q))
             = Together(Tally(p), Together(Tally(x), Tally(q)))
        /\ Together(Together(Tally(p), Tally(q)), Tally(x))
             = Together(Tally(p), Together(Tally(q), Tally(x)))
        /\ Together(Tally(x), Tally(q)) = Together(Tally(q), Tally(x))
    BY <1>4, TogetherLaws
  <1>7. Count(Tally(p \o q), s[k]) = Together(Tally(p \o q), Tally(x))
    BY <1>2, <1>4
  <1>8. Tally(s) = Count(Tally(p \o q), s[k])
    BY <1>1, <1>5, <1>6, <1>7
  <1> QED
    BY <1>3, <1>8 DEF p, q

\* A batch without its element k, element by element.
LEMMA Without ==
  ASSUME NEW s \in Seq(Kinds), NEW k \in 1 .. Len(s), NEW n \in Nat, Len(s) = n + 1
  PROVE  SubSeq(s, 1, k - 1) \o SubSeq(s, k + 1, n + 1)
           = [i \in 1 .. n |-> IF i < k THEN s[i] ELSE s[i + 1]]
  <1> DEFINE p == SubSeq(s, 1, k - 1)
             q == SubSeq(s, k + 1, n + 1)
  <1>1. /\ p \in Seq(Kinds) /\ Len(p) = k - 1 /\ \A i \in 1 .. k - 1 : p[i] = s[i]
    BY SubSeqProperties
  <1>2. /\ q \in Seq(Kinds) /\ Len(q) = n + 1 - k
        /\ \A i \in 1 .. n + 1 - k : q[i] = s[k + i]
    BY SubSeqProperties
  <1> HIDE DEF p, q
  <1>3. /\ p \o q \in Seq(Kinds) /\ Len(p \o q) = n
        /\ \A i \in 1 .. n : (p \o q)[i] = IF i <= k - 1 THEN p[i] ELSE q[i - (k - 1)]
    BY <1>1, <1>2, ConcatProperties
  <1>4. ASSUME NEW i \in 1 .. n PROVE (p \o q)[i] = IF i < k THEN s[i] ELSE s[i + 1]
    <2>1. CASE i < k
      BY <2>1, <1>1, <1>3
    <2>2. CASE ~(i < k)
      <3>1. i - (k - 1) \in 1 .. n + 1 - k /\ k + (i - (k - 1)) = i + 1
        BY <2>2
      <3> QED
        BY <2>2, <3>1, <1>2, <1>3
    <2> QED
      BY <2>1, <2>2
  <1>5. p \o q = [i \in 1 .. n |-> (p \o q)[i]]
    BY <1>3, LenProperties
  <1> QED
    BY <1>4, <1>5 DEF p, q

\* A batch in any order has the same tally.
LEMMA TallyInOrderOf ==
  \A s \in Seq(Kinds) : \A p \in Orders(Len(s)) : Tally(InOrderOf(p, s)) = Tally(s)
  <1> DEFINE P == {n \in Nat : \A s \in Seq(Kinds) : Len(s) = n =>
                     \A p \in Orders(n) : Tally(InOrderOf(p, s)) = Tally(s)}
  <1>1. 0 \in P
    <2>1. ASSUME NEW s \in Seq(Kinds), Len(s) = 0, NEW p PROVE InOrderOf(p, s) = s
      <3>1. s = << >>
        BY <2>1, EmptySeq
      <3> QED
        BY <2>1, <3>1 DEF InOrderOf
    <2> QED
      BY <2>1
  <1>2. ASSUME NEW n \in Nat, n \in P PROVE n + 1 \in P
    <2> SUFFICES ASSUME NEW s \in Seq(Kinds), Len(s) = n + 1, NEW p \in Orders(n + 1)
                 PROVE  Tally(InOrderOf(p, s)) = Tally(s)
      OBVIOUS
    <2> DEFINE t == InOrderOf(p, s)
               u == SubSeq(s, 1, n)
    <2>1. t \in Seq(Kinds) /\ Len(t) = n + 1 /\ \A i \in 1 .. n + 1 : t[i] = s[p[i]]
      <3>1. \A i \in 1 .. n + 1 : s[p[i]] \in Kinds
        BY ElementOfSeq DEF Orders
      <3>2. t = [i \in 1 .. n + 1 |-> s[p[i]]]
        BY DEF InOrderOf
      <3> HIDE DEF t
      <3> QED
        BY <3>1, <3>2, IsASeq, LenProperties
    <2>2. PICK k \in 1 .. n + 1 : p[k] = n + 1
      BY DEF Orders
    <2> DEFINE g == [i \in 1 .. n |-> IF i < k THEN p[i] ELSE p[i + 1]]
               rest == SubSeq(t, 1, k - 1) \o SubSeq(t, k + 1, n + 1)
    <2>3. g \in Orders(n) /\ \A i \in 1 .. n : g[i] \in 1 .. n
      <3>1. g \in Orders(n)
        BY <2>2, ShorterOrder
      <3> HIDE DEF g
      <3> QED
        BY <3>1 DEF Orders
    <2>4. u \in Seq(Kinds) /\ Len(u) = n /\ \A i \in 1 .. n : u[i] = s[i]
      <3>1. \A i \in 1 .. n : s[i] \in Kinds
        BY ElementOfSeq
      <3> QED
        BY <3>1, SubSeqProperties
    <2> HIDE DEF t, u
    <2>5. Tally(t) = Count(Tally(rest), t[k])
      BY <2>1, TallyWithout
    <2>6. rest = InOrderOf(g, u)
      <3>1. rest = [i \in 1 .. n |-> IF i < k THEN t[i] ELSE t[i + 1]]
        BY <2>1, Without
      <3>2. \A i \in 1 .. n : (IF i < k THEN t[i] ELSE t[i + 1]) = u[g[i]]
        <4> SUFFICES ASSUME NEW i \in 1 .. n
                     PROVE  (IF i < k THEN t[i] ELSE t[i + 1]) = s[g[i]]
          BY <2>3, <2>4
        <4> QED
          BY <2>1
      <3> HIDE DEF rest, g
      <3> QED
        BY <2>4, <3>1, <3>2 DEF InOrderOf
    <2> HIDE DEF rest, g
    <2>7. Tally(rest) = Tally(u)
      BY <1>2, <2>3, <2>4, <2>6
    <2>8. s = Append(u, s[n + 1]) /\ s[n + 1] \in Kinds
      <3>1. SubSeq(s, 1, n + 1) = SubSeq(s, 1, (n + 1) - 1) \o <<s[n + 1]>>
        BY SubSeqRecursiveSecond
      <3>2. SubSeq(s, 1, n + 1) = s /\ (n + 1) - 1 = n /\ s[n + 1] \in Kinds
        BY SubSeqFull, ElementOfSeq
      <3> QED
        BY <2>4, <3>1, <3>2, AppendIsConcat DEF u
    <2>9. Tally(s) = Count(Tally(u), s[n + 1])
      BY <2>4, <2>8, KindsAreScored, TallyAppend
    <2> QED
      BY <2>1, <2>2, <2>5, <2>7, <2>9 DEF t
  <1>3. Nat \subseteq P
    <2> HIDE DEF P
    <2> QED
      BY <1>1, <1>2, NumberInduction
  <1> QED
    BY <1>3, LenProperties

\* Not only the orders of OrderIsIrrelevant: signals that reach the buffer in any order at all
\* have the same risk in calculateRisk.
AnyOrderIsTheSame ==
  \A p \in Orders(Len(batch)), ns \in Namespaces :
    Risk(Tally(InOrderOf(p, batch)), ns) = Risk(acc, ns)

THEOREM NoOrderMatters == Spec => []AnyOrderIsTheSame
  <1>1. TypeOK /\ Tallied => AnyOrderIsTheSame
    BY TallyInOrderOf DEF TypeOK, Tallied, AnyOrderIsTheSame
  <1> QED
    BY <1>1, TypeCorrect, TalliedAlways, PTL

-----------------------------------------------------------------------------
(* Judge.Evaluate. *)

\* Evaluate runs the loop of calculateRisk and leaves its variables alone before and after:
\* what the theorems above show of the loop holds inside Evaluate.
THEOREM EvaluateRunsTheLoop == EvaluateSpec => Spec
  <1>1. EvaluateInit => Init
    BY DEF EvaluateInit
  <1>2. [EvaluateNext]_evaluateVars => [Next]_vars
    BY DEF EvaluateNext, evaluateVars, List, Visit, NotFound, Calculate, Round, Conclude
  <1> QED
    BY <1>1, <1>2, PTL DEF EvaluateSpec, Spec

\* A pod with the container is ahead of the loop as long as the loop goes on.
Searching ==
  /\ phase \in {"list", "search"} => context = Unknown
  /\ phase = "list" => listed = {}
  /\ phase = "search" => Candidates \subseteq unseen /\ unseen \subseteq listed

\* Matching is what Candidates says of a pod.
LEMMA MatchIsCandidate ==
  ASSUME NEW p \in listed
  PROVE  (\E id \in p.containers : matchContainerID(id, searched)) <=> p \in Candidates
  BY DEF Candidates, matchContainerID

\* Every step of Evaluate keeps what the search has found out.
LEMMA SearchingStep ==
  Searching /\ IncidentNamesOwner /\ [EvaluateNext]_evaluateVars
    => Searching' /\ IncidentNamesOwner'
  <1> SUFFICES ASSUME Searching, IncidentNamesOwner, [EvaluateNext]_evaluateVars
               PROVE  Searching' /\ IncidentNamesOwner'
    OBVIOUS
  <1>1. CASE List
    <2>1. CASE phase' = "search"
      BY <1>1, <2>1 DEF List, Searching, Candidates, IncidentNamesOwner
    <2>2. CASE phase' = "resolved" /\ UNCHANGED <<listed, unseen>>
      <3>1. listed' = {} /\ context' = Unknown
        BY <1>1, <2>2 DEF List, Searching
      <3> QED
        BY <2>2, <3>1 DEF Searching, Candidates, IncidentNamesOwner
    <2> QED
      BY <1>1, <2>1, <2>2 DEF List
  <1>2. ASSUME NEW p \in Pods, Visit(p) PROVE Searching' /\ IncidentNamesOwner'
    <2>1. /\ phase = "search" /\ p \in unseen /\ p \in listed
          /\ unseen' = unseen \ {p} /\ listed' = listed /\ Candidates' = Candidates
      BY <1>2 DEF Visit, Searching, Candidates
    <2>2. CASE p \in Candidates
      <3>1. context' = Context(p) /\ phase' = "resolved"
        BY <1>2, <2>1, <2>2, MatchIsCandidate DEF Visit
      <3> QED
        BY <2>1, <2>2, <3>1 DEF Searching, IncidentNamesOwner
    <2>3. CASE p \notin Candidates
      <3>1. context' = context /\ phase' = phase
        BY <1>2, <2>1, <2>3, MatchIsCandidate DEF Visit
      <3> QED
        BY <2>1, <2>3, <3>1 DEF Searching, IncidentNamesOwner
    <2> QED
      BY <2>2, <2>3
  <1>3. CASE NotFound
    <2>1. Candidates = {} /\ Candidates' = Candidates /\ context' = Unknown
      BY <1>3 DEF NotFound, Searching, Candidates
    <2> QED
      BY <1>3, <2>1 DEF NotFound, Searching, IncidentNamesOwner
  <1>4. CASE Calculate
    BY <1>4 DEF Calculate, Searching, IncidentNamesOwner
  <1>5. CASE Round
    BY <1>5 DEF Round, Searching, IncidentNamesOwner, Candidates
  <1>6. CASE Conclude
    BY <1>6 DEF Conclude, Searching, IncidentNamesOwner
  <1>7. CASE UNCHANGED evaluateVars
    BY <1>7 DEF evaluateVars, Searching, IncidentNamesOwner, Candidates
  <1> QED
    BY <1>1, <1>2, <1>3, <1>4, <1>5, <1>6, <1>7 DEF EvaluateNext

\* The pod of an incident has the container, whatever the cache holds and in whatever order
\* it is searched; there is none when the cache knows no such pod.
THEOREM TheOwnerIsNamed == EvaluateSpec => []IncidentNamesOwner
  <1>1. EvaluateInit => Searching /\ IncidentNamesOwner
    BY DEF EvaluateInit, Searching, IncidentNamesOwner
  <1> QED
    BY <1>1, SearchingStep, PTL DEF EvaluateSpec
=============================================================================
