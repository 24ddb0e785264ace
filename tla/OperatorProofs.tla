---------------------------- MODULE OperatorProofs ----------------------------
(***************************************************************************)
(* Induction and recursion in a form without operator parameters, and what *)
(* they show of the operators on sequences that the modules are built      *)
(* from: Chosen of Selection and Tally of Judge.                           *)
(***************************************************************************)
EXTENDS Judge, Selection, WellFoundedInduction, SequenceTheorems, TLAPS

-----------------------------------------------------------------------------
(* Induction. *)

\* A set of numbers has a least element.
LEMMA LeastNumber ==
  ASSUME NEW T \in SUBSET Nat, T # {}
  PROVE  \E m \in T : \A k \in T : m <= k
  <1> DEFINE R == OpToRel(<, Nat)
  <1>1. IsWellFoundedOn(R, Nat)
    BY NatLessThanWellFounded
  <1>2. PICK x \in T : \A y \in T : ~(<<y, x>> \in R)
    <2> HIDE DEF R
    <2> QED
      BY <1>1, WFMin
  <1>3. \A y \in T : ~(y < x)
    BY <1>2 DEF OpToRel
  <1> QED
    BY <1>3

\* Induction over the numbers, for a set of them.
LEMMA NumberInduction ==
  ASSUME NEW P, 0 \in P, \A n \in Nat : n \in P => n + 1 \in P
  PROVE  Nat \subseteq P
  <1> SUFFICES ASSUME Nat \ P # {} PROVE FALSE
    OBVIOUS
  <1>1. PICK m \in Nat \ P : \A k \in Nat \ P : m <= k
    BY LeastNumber
  <1>2. m # 0 /\ m - 1 \in Nat /\ m - 1 \notin Nat \ P
    BY <1>1
  <1> QED
    BY <1>1, <1>2

\* Induction over the sequences, for a set of them.
LEMMA SequenceInduction ==
  ASSUME NEW S, NEW P, << >> \in P,
         \A s \in Seq(S), x \in S : s \in P => Append(s, x) \in P
  PROVE  Seq(S) \subseteq P
  <1> DEFINE Q == {n \in Nat : \A s \in Seq(S) : Len(s) = n => s \in P}
  <1>1. 0 \in Q
    <2>1. \A s \in Seq(S) : Len(s) = 0 => s = << >>
      BY EmptySeq
    <2> QED
      BY <2>1
  <1>2. ASSUME NEW n \in Nat, n \in Q PROVE n + 1 \in Q
    <2> SUFFICES ASSUME NEW s \in Seq(S), Len(s) = n + 1 PROVE s \in P
      OBVIOUS
    <2>1. s # << >>
      BY EmptySeq
    <2>2. PICK t \in Seq(S), x \in S : s = Append(t, x)
      BY <2>1, SequenceEmptyOrAppend
    <2>3. Len(t) = n
      BY <2>2, AppendProperties
    <2> QED
      BY <1>2, <2>2, <2>3
  <1>3. Nat \subseteq Q
    <2> HIDE DEF Q
    <2> QED
      BY <1>1, <1>2, NumberInduction
  <1> QED
    BY <1>3, LenProperties

\* Appending to the second part of a concatenation.
LEMMA ConcatAppend ==
  ASSUME NEW S, NEW s \in Seq(S), NEW t \in Seq(S), NEW x \in S
  PROVE  /\ s \o t \in Seq(S) /\ Append(t, x) \in Seq(S) /\ <<x>> \in Seq(S)
         /\ s \o Append(t, x) = Append(s \o t, x)
         /\ Append(t, x) = t \o <<x>>
  <1>1. s \o t \in Seq(S) /\ Append(t, x) \in Seq(S) /\ <<x>> \in Seq(S)
    BY ConcatProperties, AppendProperties
  <1>2. Append(t, x) = t \o <<x>> /\ Append(s \o t, x) = (s \o t) \o <<x>>
    BY <1>1, AppendIsConcat
  <1>3. s \o (t \o <<x>>) = (s \o t) \o <<x>>
    BY <1>1, ConcatAssociative
  <1> QED
    BY <1>1, <1>2, <1>3

-----------------------------------------------------------------------------
(* Recursion over the places of a sequence. *)

\* run starts with base and makes n steps.
Runs(run, n, base, step) ==
  /\ run[0] = base
  /\ \A i \in 1 .. n : run[i] = step[<<i, run[i - 1]>>]

\* There is such a run ...
LEMMA RunExists ==
  ASSUME NEW T, NEW base \in T, NEW n \in Nat, NEW step \in [(1 .. n) \X T -> T]
  PROVE  \E run \in [0 .. n -> T] : Runs(run, n, base, step)
  <1> DEFINE Q == {k \in Nat : k <= n => \E run \in [0 .. k -> T] : Runs(run, k, base, step)}
  <1>1. 0 \in Q
    <2> DEFINE run == [i \in 0 .. 0 |-> base]
    <2>1. run \in [0 .. 0 -> T] /\ Runs(run, 0, base, step)
      BY DEF Runs
    <2> QED
      BY <2>1
  <1>2. ASSUME NEW k \in Nat, k \in Q PROVE k + 1 \in Q
    <2> SUFFICES ASSUME k + 1 <= n
                 PROVE  \E run \in [0 .. k + 1 -> T] : Runs(run, k + 1, base, step)
      OBVIOUS
    <2>1. PICK run \in [0 .. k -> T] : Runs(run, k, base, step)
      BY <1>2
    <2> DEFINE next == step[<<k + 1, run[k]>>]
               longer == [i \in 0 .. k + 1 |-> IF i = k + 1 THEN next ELSE run[i]]
    <2>2. next \in T
      <3>1. run[k] \in T /\ k + 1 \in 1 .. n
        BY <2>1
      <3>2. <<k + 1, run[k]>> \in (1 .. n) \X T
        BY <3>1
      <3> QED
        BY <3>2
    <2>3. longer \in [0 .. k + 1 -> T]
      BY <2>1, <2>2
    <2>4. longer[0] = base
      BY <2>1 DEF Runs
    <2>5. ASSUME NEW i \in 1 .. k + 1
          PROVE  longer[i] = step[<<i, longer[i - 1]>>]
      <3>1. CASE i = k + 1
        <4>1. i - 1 = k /\ k \in 0 .. k + 1 /\ k # k + 1 /\ i \in 0 .. k + 1
          BY <3>1
        <4>2. longer[i] = next /\ longer[i - 1] = run[k]
          BY <3>1, <4>1
        <4> QED
          BY <3>1, <4>2
      <3>2. CASE i # k + 1
        <4>1. i \in 1 .. k /\ longer[i] = run[i] /\ longer[i - 1] = run[i - 1]
          BY <3>2
        <4> QED
          BY <2>1, <4>1 DEF Runs
      <3> QED
        BY <3>1, <3>2
    <2>6. Runs(longer, k + 1, base, step)
      BY <2>4, <2>5 DEF Runs
    <2> QED
      BY <2>3, <2>6
  <1>3. Nat \subseteq Q
    <2> HIDE DEF Q
    <2> QED
      BY <1>1, <1>2, NumberInduction
  <1> QED
    BY <1>3

\* ... and runs that make the same steps agree.
SameSteps(f, g, n) ==
  /\ f[0] = g[0]
  /\ \A i \in 1 .. n : f[i - 1] = g[i - 1] => f[i] = g[i]

LEMMA RunIsUnique ==
  ASSUME NEW n \in Nat, NEW f, NEW g, SameSteps(f, g, n)
  PROVE  \A i \in 0 .. n : f[i] = g[i]
  <1> DEFINE Q == {i \in Nat : i <= n => f[i] = g[i]}
  <1>1. 0 \in Q
    BY DEF SameSteps
  <1>2. ASSUME NEW i \in Nat, i \in Q PROVE i + 1 \in Q
    <2> SUFFICES ASSUME i + 1 <= n PROVE f[i + 1] = g[i + 1]
      OBVIOUS
    <2>1. f[(i + 1) - 1] = g[(i + 1) - 1] /\ i + 1 \in 1 .. n
      BY <1>2
    <2> QED
      BY <2>1 DEF SameSteps
  <1>3. Nat \subseteq Q
    <2> HIDE DEF Q
    <2> QED
      BY <1>1, <1>2, NumberInduction
  <1> QED
    BY <1>3

-----------------------------------------------------------------------------
(* Chosen. *)

\* The run behind Chosen.
ChosenRun(run, s, T) ==
  /\ run[0] = << >>
  /\ \A i \in 1 .. Len(s) :
       run[i] = IF s[i] \in T THEN Append(run[i - 1], s[i]) ELSE run[i - 1]

\* Chosen is the end of its run, which goes through sequences of elements of s.
LEMMA ChosenIsRun ==
  ASSUME NEW S, NEW s \in Seq(S), NEW T
  PROVE  \E run \in [0 .. Len(s) -> Seq(S)] :
           ChosenRun(run, s, T) /\ Chosen(s, T) = run[Len(s)]
  <1> DEFINE n == Len(s)
             Take(i, r) == IF s[i] \in T THEN Append(r, s[i]) ELSE r
             step == [p \in (1 .. n) \X Seq(S) |-> Take(p[1], p[2])]
             Body(run) == [i \in 0 .. n |-> IF i = 0 THEN << >> ELSE Take(i, run[i - 1])]
             chosen == CHOOSE run : run = Body(run)
  <1>1. n \in Nat /\ << >> \in Seq(S)
    BY LenProperties
  <1>2. \A i \in 1 .. n, r \in Seq(S) : Take(i, r) \in Seq(S)
    BY ElementOfSeq, AppendProperties
  <1>3. Chosen(s, T) = chosen[n]
    BY DEF Chosen
  <1>4. \A run : ChosenRun(run, s, T)
                   <=> run[0] = << >> /\ \A i \in 1 .. n : run[i] = Take(i, run[i - 1])
    BY DEF ChosenRun
  <1> HIDE DEF Take, n
  <1>5. PICK run \in [0 .. n -> Seq(S)] : Runs(run, n, << >>, step)
    <2>1. step \in [(1 .. n) \X Seq(S) -> Seq(S)]
      BY <1>2
    <2> HIDE DEF step
    <2> QED
      BY <1>1, <2>1, RunExists
  <1>6. run[0] = << >> /\ \A i \in 1 .. n : run[i] = Take(i, run[i - 1])
    <2> SUFFICES ASSUME NEW i \in 1 .. n PROVE run[i] = Take(i, run[i - 1])
      BY <1>5 DEF Runs
    <2>1. i - 1 \in 0 .. n
      BY <1>1
    <2>2. <<i, run[i - 1]>> \in (1 .. n) \X Seq(S)
      BY <1>5, <2>1
    <2>3. run[i] = step[<<i, run[i - 1]>>]
      BY <1>5 DEF Runs
    <2> QED
      BY <2>2, <2>3
  <1>7. run = Body(run)
    <2>1. ASSUME NEW i \in 0 .. n PROVE run[i] = Body(run)[i]
      <3>1. i = 0 \/ i \in 1 .. n
        BY <1>1
      <3> QED
        BY <1>6, <3>1
    <2>2. run = [i \in 0 .. n |-> run[i]] /\ Body(run) = [i \in 0 .. n |-> Body(run)[i]]
      BY <1>5
    <2> QED
      BY <2>1, <2>2
  <1>8. chosen = Body(chosen)
    <2> HIDE DEF Body
    <2> QED
      BY <1>7
  <1>9. chosen[0] = << >> /\ \A i \in 1 .. n : chosen[i] = Take(i, chosen[i - 1])
    <2> HIDE DEF chosen
    <2>1. ASSUME NEW i \in 0 .. n
          PROVE  chosen[i] = IF i = 0 THEN << >> ELSE Take(i, chosen[i - 1])
      BY <1>8
    <2>2. 0 \in 0 .. n /\ \A i \in 1 .. n : i \in 0 .. n /\ i # 0
      BY <1>1
    <2> QED
      BY <2>1, <2>2
  <1>10. \A i \in 0 .. n : chosen[i] = run[i]
    <2> HIDE DEF chosen
    <2>1. \A i \in 1 .. n : chosen[i - 1] = run[i - 1] => chosen[i] = run[i]
      BY <1>6, <1>9
    <2>2. chosen[0] = run[0]
      BY <1>6, <1>9
    <2>3. SameSteps(chosen, run, n)
      BY <2>1, <2>2 DEF SameSteps
    <2> QED
      BY <1>1, <2>3, RunIsUnique
  <1>11. chosen[n] = run[n]
    BY <1>1, <1>10
  <1>12. ChosenRun(run, s, T)
    BY <1>4, <1>6
  <1> HIDE DEF chosen
  <1> QED
    BY <1>3, <1>5, <1>11, <1>12 DEF n

\* The run behind a sequence with one element more goes on where that of the sequence ends.
LEMMA ChosenAppend ==
  ASSUME NEW S, NEW s \in Seq(S), NEW x \in S, NEW T
  PROVE  Chosen(Append(s, x), T) = IF x \in T THEN Append(Chosen(s, T), x) ELSE Chosen(s, T)
  <1> DEFINE n == Len(s)
             t == Append(s, x)
  <1>1. /\ t \in Seq(S) /\ Len(t) = n + 1 /\ n \in Nat /\ t[n + 1] = x
        /\ \A i \in 1 .. n : t[i] = s[i]
    BY AppendProperties, LenProperties
  <1> HIDE DEF n, t
  <1>2. PICK f \in [0 .. n -> Seq(S)] : ChosenRun(f, s, T) /\ Chosen(s, T) = f[n]
    BY ChosenIsRun DEF n
  <1>3. PICK g \in [0 .. Len(t) -> Seq(S)] : ChosenRun(g, t, T) /\ Chosen(t, T) = g[Len(t)]
    BY <1>1, ChosenIsRun
  <1>4. \A i \in 0 .. n : f[i] = g[i]
    <2>1. f[0] = g[0]
      BY <1>2, <1>3 DEF ChosenRun
    <2>2. ASSUME NEW i \in 1 .. n, f[i - 1] = g[i - 1] PROVE f[i] = g[i]
      <3>1. i \in 1 .. Len(t) /\ i \in 1 .. Len(s)
        BY <1>1 DEF n
      <3>2. f[i] = IF s[i] \in T THEN Append(f[i - 1], s[i]) ELSE f[i - 1]
        BY <1>2, <3>1 DEF ChosenRun
      <3>3. g[i] = IF t[i] \in T THEN Append(g[i - 1], t[i]) ELSE g[i - 1]
        BY <1>3, <3>1 DEF ChosenRun
      <3> QED
        BY <1>1, <2>2, <3>2, <3>3
    <2>3. SameSteps(f, g, n) /\ n \in Nat
      BY <1>1, <2>1, <2>2 DEF SameSteps
    <2>4. \A h, k : SameSteps(h, k, n) => \A i \in 0 .. n : h[i] = k[i]
      BY <2>3, RunIsUnique
    <2> QED
      BY <2>3, <2>4
  <1>5. g[n + 1] = IF t[n + 1] \in T THEN Append(g[n], t[n + 1]) ELSE g[n]
    <2>1. n + 1 \in 1 .. Len(t) /\ (n + 1) - 1 = n
      BY <1>1
    <2> QED
      BY <1>3, <2>1 DEF ChosenRun
  <1>6. f[n] = g[n]
    BY <1>1, <1>4
  <1> QED
    BY <1>1, <1>2, <1>3, <1>5, <1>6 DEF t

\* Nothing is chosen from nothing.
LEMMA ChosenEmpty == \A T : Chosen(<< >>, T) = << >>
  <1> SUFFICES ASSUME NEW T PROVE Chosen(<< >>, T) = << >>
    OBVIOUS
  <1>1. << >> \in Seq({}) /\ Len(<< >>) = 0
    BY EmptySeq
  <1>2. PICK run \in [0 .. Len(<< >>) -> Seq({})] :
          ChosenRun(run, << >>, T) /\ Chosen(<< >>, T) = run[Len(<< >>)]
    BY <1>1, ChosenIsRun
  <1> QED
    BY <1>1, <1>2 DEF ChosenRun

\* What is chosen is a sequence of elements of both.
LEMMA ChosenType ==
  ASSUME NEW S, NEW s \in Seq(S), NEW T
  PROVE  Chosen(s, T) \in Seq(S) /\ Chosen(s, T) \in Seq(S \cap T)
  <1> DEFINE P == {t \in Seq(S) : Chosen(t, T) \in Seq(S \cap T)}
  <1>1. << >> \in P
    BY ChosenEmpty, EmptySeq
  <1>2. ASSUME NEW t \in Seq(S), NEW x \in S, t \in P PROVE Append(t, x) \in P
    <2>1. Append(t, x) \in Seq(S)
      BY AppendProperties
    <2>2. Chosen(Append(t, x), T) = IF x \in T THEN Append(Chosen(t, T), x) ELSE Chosen(t, T)
      BY ChosenAppend
    <2>3. x \in T => Append(Chosen(t, T), x) \in Seq(S \cap T)
      BY <1>2, AppendProperties
    <2> QED
      BY <1>2, <2>1, <2>2, <2>3
  <1>3. Seq(S) \subseteq P
    <2> HIDE DEF P
    <2> QED
      BY <1>1, <1>2, SequenceInduction
  <1>4. Seq(S \cap T) \subseteq Seq(S)
    BY SeqMonotonic
  <1> QED
    BY <1>3, <1>4

\* Choosing from a concatenation is choosing from both parts.
LEMMA ChosenConcat ==
  ASSUME NEW S, NEW s \in Seq(S), NEW t \in Seq(S), NEW T
  PROVE  Chosen(s \o t, T) = Chosen(s, T) \o Chosen(t, T)
  <1> DEFINE P == {u \in Seq(S) : Chosen(s \o u, T) = Chosen(s, T) \o Chosen(u, T)}
  <1>0. Chosen(s, T) \in Seq(S)
    BY ChosenType
  <1>1. << >> \in P
    <2>1. s \o << >> = s /\ Chosen(s, T) \o << >> = Chosen(s, T) /\ << >> \in Seq(S)
      BY <1>0, ConcatEmptySeq, EmptySeq
    <2> QED
      BY <2>1, ChosenEmpty
  <1>2. ASSUME NEW u \in Seq(S), NEW x \in S, u \in P PROVE Append(u, x) \in P
    <2>1. /\ Append(u, x) \in Seq(S) /\ s \o u \in Seq(S)
          /\ s \o Append(u, x) = Append(s \o u, x)
      BY ConcatAppend
    <2>2. Chosen(Append(u, x), T) = IF x \in T THEN Append(Chosen(u, T), x) ELSE Chosen(u, T)
      BY ChosenAppend
    <2>3. Chosen(Append(s \o u, x), T)
            = IF x \in T THEN Append(Chosen(s \o u, T), x) ELSE Chosen(s \o u, T)
      BY <2>1, ChosenAppend
    <2>4. Chosen(u, T) \in Seq(S)
      BY ChosenType
    <2>5. Chosen(s, T) \o Append(Chosen(u, T), x) = Append(Chosen(s, T) \o Chosen(u, T), x)
      BY <1>0, <2>4, ConcatAppend
    <2> QED
      BY <1>2, <2>1, <2>2, <2>3, <2>5
  <1>3. Seq(S) \subseteq P
    <2> HIDE DEF P
    <2> QED
      BY <1>1, <1>2, SequenceInduction
  <1> QED
    BY <1>3

\* Sets that agree on the elements of a sequence choose the same.
LEMMA ChosenAgree ==
  ASSUME NEW S, NEW s \in Seq(S), NEW T, NEW U, \A x \in S : x \in T <=> x \in U
  PROVE  Chosen(s, T) = Chosen(s, U)
  <1> DEFINE P == {t \in Seq(S) : Chosen(t, T) = Chosen(t, U)}
  <1>1. << >> \in P
    BY ChosenEmpty, EmptySeq
  <1>2. ASSUME NEW t \in Seq(S), NEW x \in S, t \in P PROVE Append(t, x) \in P
    <2>1. /\ Chosen(Append(t, x), T) = IF x \in T THEN Append(Chosen(t, T), x) ELSE Chosen(t, T)
          /\ Chosen(Append(t, x), U) = IF x \in U THEN Append(Chosen(t, U), x) ELSE Chosen(t, U)
      BY ChosenAppend
    <2>2. Append(t, x) \in Seq(S) /\ Chosen(t, T) = Chosen(t, U)
      BY <1>2, AppendProperties
    <2> QED
      BY <2>1, <2>2
  <1>3. Seq(S) \subseteq P
    <2> HIDE DEF P
    <2> QED
      BY <1>1, <1>2, SequenceInduction
  <1> QED
    BY <1>3

-----------------------------------------------------------------------------
(* Tally. *)

\* What the judge needs of the elements of a batch.
Scored(S) == \A x \in S : x.source \in Sources /\ x.score \in Nat

\* A signal is worth a natural number, and a round of the loop yields an account.
LEMMA CountTypes ==
  ASSUME NEW S, Scored(S), NEW x \in S, NEW a \in Account
  PROVE  Worth(x) \in Nat /\ Count(a, x) \in Account
  <1>1. x.score \in Nat /\ x.score * 2 \in Nat /\ x.score \div 2 \in Nat
    BY DEF Scored
  <1>2. Worth(x) \in Nat
    BY <1>1 DEF Worth
  <1>3. /\ a.total \in Nat /\ a.maxSingle \in Nat /\ a.fsmHits \in Nat
        /\ a.velocityHits \in Nat
    BY DEF Account
  <1>4. Larger(a.maxSingle, x.score) \in Nat
    BY <1>1, <1>3 DEF Larger
  <1> QED
    BY <1>2, <1>3, <1>4 DEF Count, Account

\* The run behind Tally.
TallyRun(run, s) ==
  /\ run[0] = Empty
  /\ \A i \in 1 .. Len(s) : run[i] = Count(run[i - 1], s[i])

\* Tally is the end of its run, which goes through accounts.
LEMMA TallyIsRun ==
  ASSUME NEW S, Scored(S), NEW s \in Seq(S)
  PROVE  \E run \in [0 .. Len(s) -> Account] : TallyRun(run, s) /\ Tally(s) = run[Len(s)]
  <1> DEFINE n == Len(s)
             Take(i, r) == Count(r, s[i])
             step == [p \in (1 .. n) \X Account |-> Take(p[1], p[2])]
             Body(run) == [i \in 0 .. n |-> IF i = 0 THEN Empty ELSE Take(i, run[i - 1])]
             tally == CHOOSE run : run = Body(run)
  <1>1. n \in Nat /\ Empty \in Account
    BY LenProperties DEF Empty, Account
  <1>2. \A i \in 1 .. n, r \in Account : Take(i, r) \in Account
    BY ElementOfSeq, CountTypes
  <1>3. Tally(s) = tally[n]
    BY DEF Tally
  <1>4. \A run : TallyRun(run, s)
                   <=> run[0] = Empty /\ \A i \in 1 .. n : run[i] = Take(i, run[i - 1])
    BY DEF TallyRun
  <1> HIDE DEF Take, n
  <1>5. PICK run \in [0 .. n -> Account] : Runs(run, n, Empty, step)
    <2>1. step \in [(1 .. n) \X Account -> Account]
      BY <1>2
    <2> HIDE DEF step
    <2> QED
      BY <1>1, <2>1, RunExists
  <1>6. run[0] = Empty /\ \A i \in 1 .. n : run[i] = Take(i, run[i - 1])
    <2> SUFFICES ASSUME NEW i \in 1 .. n PROVE run[i] = Take(i, run[i - 1])
      BY <1>5 DEF Runs
    <2>1. i - 1 \in 0 .. n
      BY <1>1
    <2>2. <<i, run[i - 1]>> \in (1 .. n) \X Account
      BY <1>5, <2>1
    <2>3. run[i] = step[<<i, run[i - 1]>>]
      BY <1>5 DEF Runs
    <2> QED
      BY <2>2, <2>3
  <1>7. run = Body(run)
    <2>1. ASSUME NEW i \in 0 .. n PROVE run[i] = Body(run)[i]
      <3>1. i = 0 \/ i \in 1 .. n
        BY <1>1
      <3> QED
        BY <1>6, <3>1
    <2>2. run = [i \in 0 .. n |-> run[i]] /\ Body(run) = [i \in 0 .. n |-> Body(run)[i]]
      BY <1>5
    <2> QED
      BY <2>1, <2>2
  <1>8. tally = Body(tally)
    <2> HIDE DEF Body
    <2> QED
      BY <1>7
  <1>9. tally[0] = Empty /\ \A i \in 1 .. n : tally[i] = Take(i, tally[i - 1])
    <2> HIDE DEF tally
    <2>1. ASSUME NEW i \in 0 .. n
          PROVE  tally[i] = IF i = 0 THEN Empty ELSE Take(i, tally[i - 1])
      BY <1>8
    <2>2. 0 \in 0 .. n /\ \A i \in 1 .. n : i \in 0 .. n /\ i # 0
      BY <1>1
    <2> QED
      BY <2>1, <2>2
  <1>10. \A i \in 0 .. n : tally[i] = run[i]
    <2> HIDE DEF tally
    <2>1. \A i \in 1 .. n : tally[i - 1] = run[i - 1] => tally[i] = run[i]
      BY <1>6, <1>9
    <2>2. SameSteps(tally, run, n)
      BY <1>6, <1>9, <2>1 DEF SameSteps
    <2>3. \A h, k : SameSteps(h, k, n) => \A i \in 0 .. n : h[i] = k[i]
      BY <1>1, RunIsUnique
    <2> QED
      BY <2>2, <2>3
  <1>11. tally[n] = run[n]
    BY <1>1, <1>10
  <1>12. TallyRun(run, s)
    BY <1>4, <1>6
  <1> HIDE DEF tally
  <1> QED
    BY <1>3, <1>5, <1>11, <1>12 DEF n

\* Nothing is worth nothing.
LEMMA TallyEmpty == Tally(<< >>) = Empty
  <1>1. << >> \in Seq({}) /\ Len(<< >>) = 0 /\ Scored({})
    BY EmptySeq DEF Scored
  <1>2. PICK run \in [0 .. Len(<< >>) -> Account] :
          TallyRun(run, << >>) /\ Tally(<< >>) = run[Len(<< >>)]
    BY <1>1, TallyIsRun
  <1> QED
    BY <1>1, <1>2 DEF TallyRun

\* One signal more is one round more.
LEMMA TallyAppend ==
  ASSUME NEW S, Scored(S), NEW s \in Seq(S), NEW x \in S
  PROVE  Tally(Append(s, x)) = Count(Tally(s), x)
  <1> DEFINE n == Len(s)
             t == Append(s, x)
  <1>1. /\ t \in Seq(S) /\ Len(t) = n + 1 /\ n \in Nat /\ t[n + 1] = x
        /\ \A i \in 1 .. n : t[i] = s[i]
    BY AppendProperties, LenProperties
  <1> HIDE DEF n, t
  <1>2. PICK f \in [0 .. n -> Account] : TallyRun(f, s) /\ Tally(s) = f[n]
    BY TallyIsRun DEF n
  <1>3. PICK g \in [0 .. Len(t) -> Account] : TallyRun(g, t) /\ Tally(t) = g[Len(t)]
    BY <1>1, TallyIsRun
  <1>4. \A i \in 0 .. n : f[i] = g[i]
    <2>1. f[0] = g[0]
      BY <1>2, <1>3 DEF TallyRun
    <2>2. ASSUME NEW i \in 1 .. n, f[i - 1] = g[i - 1] PROVE f[i] = g[i]
      <3>1. i \in 1 .. Len(t) /\ i \in 1 .. Len(s)
        BY <1>1 DEF n
      <3>2. f[i] = Count(f[i - 1], s[i]) /\ g[i] = Count(g[i - 1], t[i])
        BY <1>2, <1>3, <3>1 DEF TallyRun
      <3> QED
        BY <1>1, <2>2, <3>2
    <2>3. SameSteps(f, g, n)
      BY <2>1, <2>2 DEF SameSteps
    <2>4. \A h, k : SameSteps(h, k, n) => \A i \in 0 .. n : h[i] = k[i]
      BY <1>1, RunIsUnique
    <2> QED
      BY <2>3, <2>4
  <1>5. g[n + 1] = Count(g[n], t[n + 1])
    <2>1. n + 1 \in 1 .. Len(t) /\ (n + 1) - 1 = n
      BY <1>1
    <2> QED
      BY <1>3, <2>1 DEF TallyRun
  <1>6. f[n] = g[n]
    BY <1>1, <1>4
  <1> QED
    BY <1>1, <1>2, <1>3, <1>5, <1>6 DEF t

\* The account of a batch is one.
LEMMA TallyType ==
  ASSUME NEW S, Scored(S), NEW s \in Seq(S)
  PROVE  Tally(s) \in Account
  <1>1. PICK run \in [0 .. Len(s) -> Account] : TallyRun(run, s) /\ Tally(s) = run[Len(s)]
    BY TallyIsRun
  <1> QED
    BY <1>1, LenProperties

\* What is known of an account once a signal is counted in it.
LEMMA CountFields ==
  ASSUME NEW S, Scored(S), NEW x \in S, NEW a \in Account
  PROVE  /\ Count(a, x).total = a.total + Worth(x)
         /\ Count(a, x).maxSingle = Larger(a.maxSingle, x.score)
         /\ Count(a, x).fsmHits = a.fsmHits + (IF x.source = "fsm" THEN 1 ELSE 0)
         /\ Count(a, x).velocityHits = a.velocityHits + (IF x.source = "velocity" THEN 1 ELSE 0)
         /\ a.total \in Nat /\ a.maxSingle \in Nat /\ a.fsmHits \in Nat /\ a.velocityHits \in Nat
  BY DEF Count, Account

\* A batch with a completed chain is worth twice the score of a chain, wherever the chain is.
LEMMA ChainWorth ==
  ASSUME NEW S, Scored(S), \A x \in S : x.source = "fsm" => x.score = 90,
         NEW s \in Seq(S), \E i \in 1 .. Len(s) : s[i].source = "fsm"
  PROVE  Tally(s).total >= 180
  <1> DEFINE HasOne(t) == \E i \in 1 .. Len(t) : t[i].source = "fsm"
             P == {t \in Seq(S) : HasOne(t) => Tally(t).total >= 180}
  <1>1. << >> \in P
    BY EmptySeq
  <1>2. ASSUME NEW t \in Seq(S), NEW x \in S, t \in P PROVE Append(t, x) \in P
    <2>1. /\ Append(t, x) \in Seq(S) /\ Len(Append(t, x)) = Len(t) + 1 /\ Len(t) \in Nat
          /\ Append(t, x)[Len(t) + 1] = x
          /\ \A i \in 1 .. Len(t) : Append(t, x)[i] = t[i]
      BY AppendProperties, LenProperties
    <2>2. Tally(t) \in Account /\ Tally(t).total \in Nat
      BY TallyType DEF Account
    <2>3. Tally(Append(t, x)).total = Tally(t).total + Worth(x) /\ Worth(x) \in Nat
      BY <2>2, TallyAppend, CountFields, CountTypes
    <2>4. x.source = "fsm" => Worth(x) = 180
      BY DEF Worth
    <2> SUFFICES ASSUME HasOne(Append(t, x)) PROVE Tally(Append(t, x)).total >= 180
      BY <2>1
    <2>5. HasOne(t) \/ x.source = "fsm"
      BY <2>1
    <2> HIDE DEF HasOne
    <2> QED
      BY <1>2, <2>2, <2>3, <2>4, <2>5
  <1>3. Seq(S) \subseteq P
    <2> HIDE DEF P
    <2> QED
      BY <1>1, <1>2, SequenceInduction
  <1> QED
    BY <1>3

\* The account of two batches together.
Together(a, b) ==
  [total        |-> a.total + b.total,
   maxSingle    |-> Larger(a.maxSingle, b.maxSingle),
   fsmHits      |-> a.fsmHits + b.fsmHits,
   velocityHits |-> a.velocityHits + b.velocityHits]

\* Accounts form a commutative monoid.
LEMMA TogetherLaws ==
  ASSUME NEW a \in Account, NEW b \in Account
  PROVE  /\ Together(a, b) \in Account
         /\ Together(a, b) = Together(b, a)
         /\ Together(a, Empty) = a
         /\ \A c \in Account : Together(Together(a, b), c) = Together(a, Together(b, c))
  <1>1. /\ a.total \in Nat /\ a.maxSingle \in Nat /\ a.fsmHits \in Nat /\ a.velocityHits \in Nat
        /\ b.total \in Nat /\ b.maxSingle \in Nat /\ b.fsmHits \in Nat /\ b.velocityHits \in Nat
        /\ a = [total |-> a.total, maxSingle |-> a.maxSingle, fsmHits |-> a.fsmHits,
                velocityHits |-> a.velocityHits]
    BY DEF Account
  <1>2. /\ Larger(a.maxSingle, b.maxSingle) \in Nat
        /\ Larger(a.maxSingle, b.maxSingle) = Larger(b.maxSingle, a.maxSingle)
        /\ Larger(a.maxSingle, 0) = a.maxSingle
    BY <1>1 DEF Larger
  <1>3. Together(a, b) \in Account
    BY <1>1, <1>2 DEF Together, Account
  <1>4. Together(a, b) = Together(b, a)
    <2>1. /\ a.total + b.total = b.total + a.total /\ a.fsmHits + b.fsmHits = b.fsmHits + a.fsmHits
          /\ a.velocityHits + b.velocityHits = b.velocityHits + a.velocityHits
      BY <1>1
    <2> QED
      BY <1>2, <2>1 DEF Together
  <1>5. Together(a, Empty) = a
    BY <1>1, <1>2 DEF Together, Empty
  <1>6. ASSUME NEW c \in Account
        PROVE  Together(Together(a, b), c) = Together(a, Together(b, c))
    <2>1. /\ c.total \in Nat /\ c.maxSingle \in Nat /\ c.fsmHits \in Nat
          /\ c.velocityHits \in Nat
      BY DEF Account
    <2>2. /\ (a.total + b.total) + c.total = a.total + (b.total + c.total)
          /\ (a.fsmHits + b.fsmHits) + c.fsmHits = a.fsmHits + (b.fsmHits + c.fsmHits)
          /\ (a.velocityHits + b.velocityHits) + c.velocityHits
               = a.velocityHits + (b.velocityHits + c.velocityHits)
      BY <1>1, <2>1
    <2>3. Larger(Larger(a.maxSingle, b.maxSingle), c.maxSingle)
            = Larger(a.maxSingle, Larger(b.maxSingle, c.maxSingle))
      BY <1>1, <2>1 DEF Larger
    <2> QED
      BY <2>2, <2>3 DEF Together
  <1> QED
    BY <1>3, <1>4, <1>5, <1>6

\* Counting a signal is adding the account of the signal alone.
LEMMA CountIsTogether ==
  ASSUME NEW S, Scored(S), NEW x \in S, NEW a \in Account
  PROVE  Count(Empty, x) \in Account /\ Count(a, x) = Together(a, Count(Empty, x))
  <1>1. Empty \in Account
    BY DEF Empty, Account
  <1>2. Count(Empty, x) \in Account /\ Worth(x) \in Nat /\ x.score \in Nat
    BY <1>1, CountTypes DEF Scored
  <1>3. /\ Count(Empty, x).total = Worth(x)
        /\ Count(Empty, x).maxSingle = x.score
        /\ Count(Empty, x).fsmHits = (IF x.source = "fsm" THEN 1 ELSE 0)
        /\ Count(Empty, x).velocityHits = (IF x.source = "velocity" THEN 1 ELSE 0)
    BY <1>2 DEF Count, Empty, Larger
  <1> QED
    BY <1>2, <1>3 DEF Count, Together

\* Two batches one after the other are worth what they are worth together.
LEMMA TallyConcat ==
  ASSUME NEW S, Scored(S), NEW s \in Seq(S), NEW t \in Seq(S)
  PROVE  Tally(s \o t) = Together(Tally(s), Tally(t))
  <1> DEFINE P == {u \in Seq(S) : Tally(s \o u) = Together(Tally(s), Tally(u))}
  <1>0. Tally(s) \in Account
    BY TallyType
  <1>1. << >> \in P
    <2>1. s \o << >> = s /\ << >> \in Seq(S)
      BY ConcatEmptySeq, EmptySeq
    <2> QED
      BY <1>0, <2>1, TallyEmpty, TogetherLaws
  <1>2. ASSUME NEW u \in Seq(S), NEW x \in S, u \in P PROVE Append(u, x) \in P
    <2>1. /\ Append(u, x) \in Seq(S) /\ s \o u \in Seq(S)
          /\ s \o Append(u, x) = Append(s \o u, x)
      BY ConcatAppend
    <2>2. /\ Tally(Append(u, x)) = Count(Tally(u), x)
          /\ Tally(Append(s \o u, x)) = Count(Tally(s \o u), x)
      BY <2>1, TallyAppend
    <2>3. Tally(u) \in Account /\ Tally(s \o u) \in Account
      BY <2>1, TallyType
    <2>4. /\ Count(Tally(u), x) = Together(Tally(u), Count(Empty, x))
          /\ Count(Tally(s \o u), x) = Together(Tally(s \o u), Count(Empty, x))
          /\ Count(Empty, x) \in Account
      BY <2>3, CountIsTogether
    <2>5. Together(Together(Tally(s), Tally(u)), Count(Empty, x))
            = Together(Tally(s), Together(Tally(u), Count(Empty, x)))
      BY <1>0, <2>3, <2>4, TogetherLaws
    <2> QED
      BY <1>2, <2>1, <2>2, <2>4, <2>5
  <1>3. Seq(S) \subseteq P
    <2> HIDE DEF P
    <2> QED
      BY <1>1, <1>2, SequenceInduction
  <1> QED
    BY <1>3

-----------------------------------------------------------------------------
(* Risk. *)

\* The risk of an account is a number, at least its boosted total and its strongest signal.
LEMMA RiskBounds ==
  ASSUME NEW a \in Account, NEW ns
  PROVE  /\ Boosted(a) \in Nat /\ Boosted(a) >= a.total
         /\ Risk(a, ns) \in Nat
         /\ Risk(a, ns) >= Boosted(a) /\ Risk(a, ns) >= a.maxSingle
  <1>1. /\ a.total \in Nat /\ a.maxSingle \in Nat /\ a.fsmHits \in Nat
        /\ a.velocityHits \in Nat
    BY DEF Account
  <1>2. Boosted(a) \in Nat /\ Boosted(a) >= a.total
    BY <1>1 DEF Boosted
  <1> DEFINE m == Larger(Boosted(a), a.maxSingle)
  <1>3. m \in Nat /\ m >= Boosted(a) /\ m >= a.maxSingle
    BY <1>1, <1>2 DEF Larger
  <1> HIDE DEF m
  <1>4. (m * 3) \div 2 \in Nat /\ (m * 3) \div 2 >= m
    BY <1>3
  <1>5. Risk(a, ns) = m \/ Risk(a, ns) = (m * 3) \div 2
    BY DEF Risk, m
  <1> QED
    BY <1>1, <1>2, <1>3, <1>4, <1>5

\* Whatever else is in a batch with a completed chain, and whatever the namespace, it is neither
\* noise nor less than CRITICAL.
LEMMA ChainRisk ==
  ASSUME NEW a \in Account, a.total >= 180, NEW ns
  PROVE  ~Suppressed(Risk(a, ns)) /\ determineSeverity(Risk(a, ns)) = "CRITICAL"
  <1>1. a.total \in Nat /\ Boosted(a) \in Nat /\ Risk(a, ns) \in Nat
    BY RiskBounds DEF Account
  <1>2. Risk(a, ns) >= 180
    BY <1>1, RiskBounds
  <1> QED
    BY <1>1, <1>2 DEF Suppressed, determineSeverity
=============================================================================
