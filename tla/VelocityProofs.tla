---------------------------- MODULE VelocityProofs ----------------------------
(***************************************************************************)
(* Proofs about VelocityDetector, for every window, every set of           *)
(* priorities, any number of events and every delay and clock difference   *)
(* that VelocityAssumption allows.                                         *)
(***************************************************************************)
EXTENDS VelocityDetector, OperatorProofs, FiniteSetTheorems, TLAPS

-----------------------------------------------------------------------------
(* The invariant. *)

\* What main can pass is worth this much.
Worths == {ScoreFromPriority(p) : p \in Priorities}

\* TypeOK without the scores, which no guard reads.
Typed ==
  /\ now \in Nat
  /\ zset \in [Containers -> SUBSET Members]
  /\ expires \in [Containers -> Nat]
  /\ log \in [Containers -> Seq(Members)]

\* When Redis ran the last transaction of a container.
Arrived(c) == expires[c] - TTL

\* A set holds logged events, of the weights that there are; none of them is older than the
\* window of an event that arrived as late as it may.
Sound(c) ==
  /\ zset[c] \subseteq Logged(log[c])
  /\ \A e \in zset[c] : e.weight \in Worths /\ e.at > Arrived(c) - MaxDelay - Window

\* Nothing that was logged is further ahead than its arrival allows.
Timely(c) ==
  /\ Arrived(c) <= now
  /\ \A e \in Logged(log[c]) : e.at <= Arrived(c) + MaxAhead

\* A logged event is missing only when the set expired or a logged event is a window newer.
Lacking(c) ==
  \A e \in Logged(log[c]) :
    \/ e \in zset[c]
    \/ expires[c] <= now
    \/ \E f \in Logged(log[c]) : e.at <= f.at - Window

Kept == Typed /\ \A c \in Containers : Sound(c) /\ Timely(c) /\ Lacking(c)

-----------------------------------------------------------------------------
(* Lemmas. *)

\* Every priority has a weight, known or not.
LEMMA WeightTypes == ASSUME NEW p PROVE ScoreFromPriority(p) \in Weights
  BY DEF ScoreFromPriority, Weights

\* What may arrive.
LEMMA ArrivingTypes ==
  ASSUME Typed, NEW e \in Arriving
  PROVE  /\ e \in Members
         /\ e.weight \in Worths
         /\ now - MaxDelay <= e.at /\ e.at <= now + MaxAhead
  <1>1. PICK at \in now - MaxDelay .. now + MaxAhead, p \in Priorities : e = Member(at, p)
    BY DEF Arriving
  <1>2. e.at = at /\ e.weight = ScoreFromPriority(p) /\ e = [at |-> e.at, weight |-> e.weight]
    BY <1>1 DEF Member
  <1>3. e.at \in Int /\ now - MaxDelay <= e.at /\ e.at <= now + MaxAhead
    BY <1>2, VelocityAssumption DEF Typed, VelocityAssumption
  <1>4. e.weight \in Weights /\ e.weight \in Worths
    BY <1>2, WeightTypes DEF Worths
  <1> QED
    BY <1>2, <1>3, <1>4 DEF Members

\* The log of a container grows by the event.
LEMMA LoggedGrows ==
  ASSUME NEW l \in Seq(Members), NEW e \in Members
  PROVE  /\ Append(l, e) \in Seq(Members)
         /\ Logged(Append(l, e)) = Logged(l) \cup {e}
         /\ Last(Append(l, e)) = e
         /\ Append(l, e) # l
  BY DEF Logged, Last

\* The newest event is at least as new as every logged one.
LEMMA NewestBounds ==
  ASSUME NEW l \in Seq(Members), NEW at
  PROVE  Newest(l, at) <=> \A e \in Logged(l) : e.at <= at
  BY DEF Newest, Logged

\* The members of a logged sequence.
LEMMA LoggedTypes == ASSUME NEW l \in Seq(Members) PROVE Logged(l) \subseteq Members
  BY DEF Logged

-----------------------------------------------------------------------------
(* The transaction. *)

\* What the transaction leaves in the set: nothing that the newest event would count is
\* missing.  The set cannot have expired with such an event in it: from one arrival to the
\* expiry two windows pass, and delay and lead take one of them at most.
LEMMA NothingIsMissed ==
  ASSUME Kept, NEW c \in Containers, NEW e \in Arriving, Transaction(c, e),
         NEW g \in Logged(log'[c])
  PROVE  g \in zset'[c] \/ \E f \in Logged(log'[c]) : g.at <= f.at - Window
  <1> USE VelocityAssumption DEF VelocityAssumption
  <1>1. e \in Members /\ now - MaxDelay <= e.at /\ now \in Nat /\ expires[c] \in Nat
    BY ArrivingTypes DEF Kept, Typed
  <1>2. log[c] \in Seq(Members) /\ log'[c] = Append(log[c], e)
    BY DEF Kept, Typed, Transaction
  <1>3. Logged(log'[c]) = Logged(log[c]) \cup {e} /\ Logged(log[c]) \subseteq Members
    BY <1>1, <1>2, LoggedGrows, LoggedTypes
  <1>4. zset'[c] = {x \in zset[c] \cup {e} : x.at > e.at - Window}
    BY DEF Kept, Typed, Transaction, Trimmed
  <1>5. g.at \in Int /\ e.at \in Int
    BY <1>1, <1>3 DEF Members
  <1>6. CASE g \in zset[c] \cup {e}
    <2>1. g.at > e.at - Window => g \in zset'[c]
      BY <1>4, <1>6
    <2> QED
      BY <2>1, <1>3, <1>5
  <1>7. CASE g \in Logged(log[c]) /\ expires[c] <= now
    <2>1. g.at <= expires[c] - 2 * Window + MaxAhead
      BY <1>7 DEF Kept, Timely, Arrived, TTL
    <2>2. g.at <= e.at - Window
      BY <2>1, <1>1, <1>5, <1>7
    <2> QED
      BY <2>2, <1>3
  <1>8. CASE g \in Logged(log[c]) /\ \E f \in Logged(log[c]) : g.at <= f.at - Window
    BY <1>8, <1>3
  <1> QED
    BY <1>3, <1>6, <1>7, <1>8 DEF Kept, Lacking

\* The transaction keeps the invariant of its container.
LEMMA TransactionKeeps ==
  ASSUME Kept, NEW c \in Containers, NEW e \in Arriving, Transaction(c, e), now' = now
  PROVE  Sound(c)' /\ Timely(c)' /\ Lacking(c)'
  <1> USE VelocityAssumption DEF VelocityAssumption
  <1>1. /\ e \in Members /\ e.weight \in Worths /\ now \in Nat
        /\ now - MaxDelay <= e.at /\ e.at <= now + MaxAhead
    BY ArrivingTypes DEF Kept, Typed
  <1>2. log[c] \in Seq(Members) /\ log'[c] = Append(log[c], e)
    BY DEF Kept, Typed, Transaction
  <1>3. Logged(log'[c]) = Logged(log[c]) \cup {e} /\ Logged(log[c]) \subseteq Members
    BY <1>1, <1>2, LoggedGrows, LoggedTypes
  <1>4. zset'[c] = {x \in zset[c] \cup {e} : x.at > e.at - Window}
    BY DEF Kept, Typed, Transaction, Trimmed
  <1>5. expires'[c] = now + TTL /\ expires[c] \in Nat
    BY DEF Kept, Typed, Transaction
  <1>6. Arrived(c)' = now /\ Arrived(c) <= now /\ Arrived(c) \in Int
    BY <1>1, <1>5 DEF Arrived, TTL, Kept, Timely
  <1>7. \A x \in Logged(log'[c]) : x.at \in Int
    BY <1>1, <1>3 DEF Members
  <1>8. zset'[c] \subseteq Logged(log'[c])
    BY <1>3, <1>4 DEF Kept, Sound
  <1>9. Sound(c)'
    <2>1. \A x \in zset'[c] : x.weight \in Worths
      BY <1>1, <1>4 DEF Kept, Sound
    <2>2. \A x \in zset'[c] : x.at > now - MaxDelay - Window
      BY <1>1, <1>3, <1>4, <1>7, <1>8
    <2>3. \A x \in zset'[c] : x.weight \in Worths /\ x.at > Arrived(c)' - MaxDelay - Window
      BY <2>1, <2>2, <1>6
    <2>4. Worths' = Worths
      BY DEF Worths
    <2> QED
      BY <2>3, <2>4, <1>8 DEF Sound
  <1>10. Timely(c)'
    <2>1. \A x \in Logged(log[c]) : x.at <= Arrived(c) + MaxAhead
      BY DEF Kept, Timely
    <2>2. \A x \in Logged(log'[c]) : x.at <= now + MaxAhead
      BY <2>1, <1>1, <1>3, <1>6, <1>7
    <2> QED
      BY <2>2, <1>6, <1>1 DEF Timely
  <1>11. Lacking(c)'
    BY NothingIsMissed DEF Lacking
  <1> QED
    BY <1>9, <1>10, <1>11

\* The other containers are left alone.
LEMMA OthersKeep ==
  ASSUME Kept, NEW d \in Containers,
         zset'[d] = zset[d], expires'[d] = expires[d], log'[d] = log[d], now' = now
  PROVE  Sound(d)' /\ Timely(d)' /\ Lacking(d)'
  <1>1. Arrived(d)' = Arrived(d) /\ Worths' = Worths
    BY DEF Arrived, TTL, Worths
  <1>2. Sound(d)'
    BY <1>1 DEF Kept, Sound
  <1>3. Timely(d)'
    BY <1>1 DEF Kept, Timely
  <1>4. Lacking(d)'
    BY DEF Kept, Lacking
  <1> QED
    BY <1>2, <1>3, <1>4

\* A transaction, whatever becomes of its reply.
LEMMA ArrivalKeeps ==
  ASSUME Kept, NEW c \in Containers, NEW e \in Arriving, Transaction(c, e), now' = now
  PROVE  Kept'
  <1>1. e \in Members
    BY ArrivingTypes DEF Kept
  <1>2. Typed'
    <2>1. zset' \in [Containers -> SUBSET Members]
      BY <1>1 DEF Kept, Typed, Transaction, Trimmed
    <2>2. expires' \in [Containers -> Nat]
      BY VelocityAssumption DEF Kept, Typed, Transaction, TTL, VelocityAssumption
    <2>3. log' \in [Containers -> Seq(Members)]
      BY <1>1 DEF Kept, Typed, Transaction
    <2> QED
      BY <2>1, <2>2, <2>3 DEF Kept, Typed
  <1>3. ASSUME NEW d \in Containers PROVE Sound(d)' /\ Timely(d)' /\ Lacking(d)'
    <2>1. CASE d = c
      BY <2>1, TransactionKeeps
    <2>2. CASE d # c
      <3>1. zset'[d] = zset[d] /\ expires'[d] = expires[d] /\ log'[d] = log[d]
        BY <2>2 DEF Kept, Typed, Transaction
      <3> QED
        BY <3>1, OthersKeep
    <2> QED
      BY <2>1, <2>2
  <1> QED
    BY <1>2, <1>3 DEF Kept

\* A set goes as a whole, when its TTL has run out.
LEMMA TickKeeps == ASSUME Kept, Tick PROVE Kept'
  <1>1. now' = now + 1 /\ now \in Nat /\ expires' = expires /\ log' = log
    BY DEF Kept, Typed, Tick
  <1>2. Typed'
    BY <1>1 DEF Kept, Typed, Tick
  <1>3. ASSUME NEW c \in Containers PROVE Sound(c)' /\ Timely(c)' /\ Lacking(c)'
    <2>1. /\ zset'[c] = IF expires[c] <= now + 1 THEN {} ELSE zset[c]
          /\ Arrived(c)' = Arrived(c) /\ Arrived(c) \in Int /\ expires[c] \in Nat
          /\ Worths' = Worths
      BY <1>1, VelocityAssumption DEF Kept, Typed, Tick, Arrived, TTL, Worths, VelocityAssumption
    <2>2. Sound(c)'
      BY <2>1, <1>1 DEF Kept, Sound
    <2>3. Timely(c)'
      BY <2>1, <1>1 DEF Kept, Timely
    <2>4. Lacking(c)'
      BY <2>1, <1>1 DEF Kept, Lacking
    <2> QED
      BY <2>2, <2>3, <2>4
  <1> QED
    BY <1>2, <1>3 DEF Kept

\* At the start nothing is logged.
LEMMA KeptInit == Init => Kept
  <1> SUFFICES ASSUME Init PROVE Kept
    OBVIOUS
  <1>1. Typed
    BY DEF Init, Typed
  <1>2. ASSUME NEW c \in Containers PROVE zset[c] = {} /\ Logged(log[c]) = {} /\ Arrived(c) <= now
    BY VelocityAssumption DEF Init, Logged, Arrived, TTL, VelocityAssumption
  <1> QED
    BY <1>1, <1>2 DEF Kept, Sound, Timely, Lacking

\* Every step keeps the invariant.
LEMMA KeptNext == Kept /\ [Next]_vars => Kept'
  <1> SUFFICES ASSUME Kept, [Next]_vars PROVE Kept'
    OBVIOUS
  <1>1. CASE \E c \in Containers : \E e \in Arriving : AddAndScore(c, e) \/ AddFails(c, e)
    BY <1>1, ArrivalKeeps DEF AddAndScore, AddFails
  <1>2. CASE Tick
    BY <1>2, TickKeeps
  <1>3. CASE UNCHANGED vars
    <2>1. ASSUME NEW c \in Containers PROVE Sound(c)' /\ Timely(c)' /\ Lacking(c)'
      BY <1>3, OthersKeep DEF vars
    <2>2. Typed'
      BY <1>3 DEF Kept, Typed, vars
    <2> QED
      BY <2>1, <2>2 DEF Kept
  <1> QED
    BY <1>1, <1>2, <1>3 DEF Next

\* The invariant of VelocityDetector: what a set lacks, its window does not need.
THEOREM KeptAlways == Spec => []Kept
  BY KeptInit, KeptNext, PTL DEF Spec

-----------------------------------------------------------------------------
(* The window. *)

\* The window of the newest event survives every transaction.
LEMMA WindowStays ==
  ASSUME Kept, NEW c \in Containers, NEW e \in Arriving, Transaction(c, e),
         NEW f \in Logged(log'[c]), Newest(log'[c], f.at)
  PROVE  InWindow(log'[c], f.at) \subseteq zset'[c]
  <1> USE VelocityAssumption DEF VelocityAssumption
  <1>1. log'[c] \in Seq(Members)
    BY ArrivingTypes DEF Kept, Typed, Transaction
  <1>2. \A x \in Logged(log'[c]) : x.at \in Int /\ x.at <= f.at
    BY <1>1, NewestBounds, LoggedTypes DEF Members
  <1>3. ASSUME NEW g \in Logged(log'[c]), g.at > f.at - Window
        PROVE  ~ \E h \in Logged(log'[c]) : g.at <= h.at - Window
    BY <1>2, <1>3
  <1> QED
    BY <1>3, NothingIsMissed DEF InWindow

\* Which step logs an event.
LEMMA WhoLogs ==
  ASSUME Kept, [Next]_vars, NEW c \in Containers, log'[c] # log[c]
  PROVE  \E e \in Arriving : Transaction(c, e) /\ log'[c] = Append(log[c], e)
  BY DEF Next, vars, Tick, AddAndScore, AddFails, Transaction, Kept, Typed

\* An event that comes late finds, and leaves, the window of the newest one complete: the
\* TTL of two windows covers what delays and clocks can differ by (AddAndScore).
THEOREM WindowsAreComplete == Spec => WindowIsComplete
  <1>1. Kept /\ [Next]_vars =>
          [\A c \in Containers :
             log'[c] # log[c] =>
               \A e \in Logged(log'[c]) : Newest(log'[c], e.at) =>
                 InWindow(log'[c], e.at) \subseteq zset'[c]]_vars
    BY WhoLogs, WindowStays
  <1> QED
    BY <1>1, KeptAlways, PTL DEF Spec, WindowIsComplete

\* The newest event is scored by the window before it, by all of it and by nothing else
\* (ZADD, ZREMRANGEBYSCORE and ZRANGE in one transaction).
THEOREM WindowsAreExact == Spec => WindowIsExact
  <1>1. ASSUME Kept, [Next]_vars, NEW c \in Containers, log'[c] # log[c],
               Newest(log'[c], Last(log'[c]).at)
        PROVE  zset'[c] = InWindow(log'[c], Last(log'[c]).at)
    <2>1. PICK e \in Arriving : Transaction(c, e) /\ log'[c] = Append(log[c], e)
      BY <1>1, WhoLogs
    <2>2. Last(log'[c]) = e /\ Logged(log'[c]) = Logged(log[c]) \cup {e}
      BY <1>1, <2>1, LoggedGrows, ArrivingTypes DEF Kept, Typed
    <2>3. InWindow(log'[c], e.at) \subseteq zset'[c]
      BY <1>1, <2>1, <2>2, WindowStays
    <2>4. zset'[c] = {x \in zset[c] \cup {e} : x.at > e.at - Window}
      BY <1>1, <2>1 DEF Kept, Typed, Transaction, Trimmed
    <2>5. zset'[c] \subseteq InWindow(log'[c], e.at)
      BY <1>1, <2>2, <2>4 DEF Kept, Sound, InWindow
    <2> QED
      BY <2>2, <2>3, <2>5
  <1>2. Kept /\ [Next]_vars =>
          [\A c \in Containers :
             log'[c] # log[c] /\ Newest(log'[c], Last(log'[c]).at) =>
               zset'[c] = InWindow(log'[c], Last(log'[c]).at)]_vars
    BY <1>1
  <1> QED
    BY <1>2, KeptAlways, PTL DEF Spec, WindowIsExact

-----------------------------------------------------------------------------
(* The size of a set. *)

\* There are finitely many weights.
LEMMA WorthsAreFew == IsFiniteSet(Worths)
  <1>1. Worths \in SUBSET Nat /\ \A w \in Worths : w <= 100
    BY WeightTypes DEF Worths, Weights
  <1> QED
    BY <1>1, FS_BoundedSetOfNaturals

\* A set fits into the span of its times and the weights.
LEMMA SmallSet ==
  ASSUME NEW S \in SUBSET Members, NEW low \in Int, NEW high \in Int, low <= high,
         \A e \in S : e.weight \in Worths /\ low < e.at /\ e.at <= high
  PROVE  IsFiniteSet(S) /\ Cardinality(S) <= (high - low) * Cardinality(Worths)
  <1> DEFINE Grid == (low + 1 .. high) \X Worths
             f == [e \in S |-> <<e.at, e.weight>>]
  <1>1. IsFiniteSet(low + 1 .. high) /\ Cardinality(low + 1 .. high) = high - low
    <2>1. low + 1 \in Int /\ (low + 1 > high => high - low = 0)
          /\ high - (low + 1) + 1 = high - low
      OBVIOUS
    <2> QED
      BY <2>1, FS_Interval
  <1>2. IsFiniteSet(Grid) /\ Cardinality(Grid) = (high - low) * Cardinality(Worths)
    BY <1>1, WorthsAreFew, FS_Product
  <1>3. f \in [S -> Grid]
    BY DEF Members
  <1>4. \A a, b \in S : f[a] = f[b] => a = b
    BY DEF Members
  <1>5. f \in Injection(S, Grid)
    BY <1>3, <1>4 DEF Injection, IsInjective
  <1> QED
    BY <1>2, <1>5, FS_Injection

\* What a set can hold at most.
Most == (Window + MaxDelay + MaxAhead) * Cardinality(Worths)

Small == \A c \in Containers : IsFiniteSet(zset[c]) /\ Cardinality(zset[c]) <= Most

LEMMA KeptIsSmall == Kept => Small
  <1> SUFFICES ASSUME Kept, NEW c \in Containers
               PROVE  IsFiniteSet(zset[c]) /\ Cardinality(zset[c]) <= Most
    BY DEF Small
  <1> DEFINE low == Arrived(c) - MaxDelay - Window
             high == Arrived(c) + MaxAhead
  <1>1. low \in Int /\ high \in Int /\ low <= high /\ high - low = Window + MaxDelay + MaxAhead
    BY VelocityAssumption DEF Kept, Typed, Arrived, TTL, VelocityAssumption
  <1>2. zset[c] \in SUBSET Members
    BY DEF Kept, Typed
  <1>3. \A e \in zset[c] : e.weight \in Worths /\ low < e.at /\ e.at <= high
    <2>1. \A e \in zset[c] : e.at \in Int
      BY <1>2 DEF Members
    <2> QED
      BY <1>1, <2>1 DEF Kept, Sound, Timely
  <1> HIDE DEF low, high
  <1> QED
    BY <1>1, <1>2, <1>3, SmallSet DEF Most

\* However many events arrive, a container has at most one member per second and weight of
\* the span that a window and the delays cover (AddAndScore).
THEOREM SetsStaySmall == Spec => []SetIsBounded
  <1>1. Small => SetIsBounded
    BY DEF Small, Most, Worths, SetIsBounded
  <1> QED
    BY <1>1, KeptIsSmall, KeptAlways, PTL

-----------------------------------------------------------------------------
(* The score. *)

\* g gives every part of z its total, as the fold computes it.
Pick(s) == CHOOSE x \in s : TRUE
Totals(g, z) ==
  g = [s \in SUBSET z |-> IF s = {} THEN 0 ELSE Pick(s).weight + g[s \ {Pick(s)}]]

LEMMA TotalScoreIsFold == ASSUME NEW z PROVE TotalScore(z) = (CHOOSE g : Totals(g, z))[z]
  BY DEF TotalScore, MapThenSumSet, MapThenFoldSet, Totals, Pick

\* A set is its chosen element and a smaller set.
LEMMA PickSmaller ==
  ASSUME NEW z, IsFiniteSet(z), NEW s \in SUBSET z, s # {}
  PROVE  /\ Pick(s) \in s /\ s \ {Pick(s)} \in SUBSET z
         /\ IsFiniteSet(s) /\ Cardinality(s) \in Nat /\ Cardinality(s) # 0
         /\ Cardinality(s \ {Pick(s)}) = Cardinality(s) - 1
  <1>1. Pick(s) \in s
    BY DEF Pick
  <1>2. IsFiniteSet(s)
    BY FS_Subset
  <1>3. Cardinality(s) \in Nat /\ Cardinality(s) # 0
    BY <1>2, FS_CardinalityType, FS_EmptySet
  <1>4. Cardinality(s \ {Pick(s)}) = Cardinality(s) - 1
    BY <1>1, <1>2, FS_RemoveElement
  <1> QED
    BY <1>1, <1>2, <1>3, <1>4

\* The equation of the fold has a solution: take one that is right for the sets of up to n
\* elements and compute one step more.
LEMMA TotalsExist ==
  ASSUME NEW z \in SUBSET Members, IsFiniteSet(z)
  PROVE  \E g : Totals(g, z)
  <1> DEFINE Step(g, s) == IF s = {} THEN 0 ELSE Pick(s).weight + g[s \ {Pick(s)}]
             Right(g, n) == \A s \in SUBSET z : Cardinality(s) <= n => g[s] = Step(g, s)
             P == {n \in Nat : \E g : g = [s \in SUBSET z |-> g[s]] /\ Right(g, n)}
  <1>1. 0 \in P
    <2> DEFINE g == [s \in SUBSET z |-> 0]
    <2>1. ASSUME NEW s \in SUBSET z, Cardinality(s) <= 0 PROVE s = {}
      <3>1. s # {} => Cardinality(s) \in Nat /\ Cardinality(s) # 0
        BY PickSmaller
      <3> QED
        BY <2>1, <3>1
    <2>2. g = [s \in SUBSET z |-> g[s]] /\ Right(g, 0)
      BY <2>1
    <2> QED
      BY <2>2
  <1>2. ASSUME NEW n \in Nat, n \in P PROVE n + 1 \in P
    <2>1. PICK g : g = [s \in SUBSET z |-> g[s]] /\ Right(g, n)
      BY <1>2
    <2> DEFINE h == [s \in SUBSET z |-> Step(g, s)]
    <2>2. ASSUME NEW s \in SUBSET z, Cardinality(s) <= n + 1 PROVE h[s] = Step(h, s)
      <3>1. CASE s = {}
        BY <3>1
      <3>2. CASE s # {}
        <4> DEFINE t == s \ {Pick(s)}
        <4>1. t \in SUBSET z /\ Cardinality(t) <= n
          BY <2>2, <3>2, PickSmaller
        <4>2. h[t] = g[t]
          BY <2>1, <4>1
        <4> HIDE DEF t
        <4>3. h[s] = Pick(s).weight + g[t]
          BY <3>2 DEF t
        <4> QED
          BY <3>2, <4>2, <4>3 DEF t
      <3> QED
        BY <3>1, <3>2
    <2>3. h = [s \in SUBSET z |-> h[s]] /\ Right(h, n + 1)
      BY <2>2
    <2> HIDE DEF h, Right
    <2> QED
      BY <2>3
  <1>3. Cardinality(z) \in P
    <2> HIDE DEF P
    <2>1. Nat \subseteq P
      BY <1>1, <1>2, NumberInduction
    <2> QED
      BY <2>1, FS_CardinalityType
  <1>4. PICK g : g = [s \in SUBSET z |-> g[s]] /\ Right(g, Cardinality(z))
    BY <1>3
  <1>5. \A s \in SUBSET z : g[s] = Step(g, s)
    BY <1>4, FS_Subset
  <1>6. g = [s \in SUBSET z |-> Step(g, s)]
    BY <1>4, <1>5
  <1> QED
    BY <1>6 DEF Totals

\* The score is a number, and no member counts for more than the highest weight.
LEMMA TotalScoreBounds ==
  ASSUME NEW z \in SUBSET Members, IsFiniteSet(z)
  PROVE  TotalScore(z) \in Nat /\ TotalScore(z) <= 100 * Cardinality(z)
  <1>1. PICK g : Totals(g, z) /\ TotalScore(z) = g[z]
    BY TotalsExist, TotalScoreIsFold
  <1> DEFINE Fits(s) == g[s] \in Nat /\ g[s] <= 100 * Cardinality(s)
             P == {n \in Nat : \A s \in SUBSET z : Cardinality(s) = n => Fits(s)}
  <1>2. 0 \in P
    <2>1. \A s \in SUBSET z : Cardinality(s) = 0 => s = {}
      BY PickSmaller
    <2>2. g[{}] = 0
      BY <1>1 DEF Totals
    <2> QED
      BY <2>1, <2>2
  <1>3. ASSUME NEW n \in Nat, n \in P PROVE n + 1 \in P
    <2> SUFFICES ASSUME NEW s \in SUBSET z, Cardinality(s) = n + 1 PROVE Fits(s)
      OBVIOUS
    <2> DEFINE t == s \ {Pick(s)}
               w == Pick(s).weight
    <2>1. s # {}
      BY FS_EmptySet
    <2>2. Pick(s) \in z /\ t \in SUBSET z /\ Cardinality(t) = n
      BY <2>1, PickSmaller
    <2>3. w \in Nat /\ w <= 100
      BY <2>2 DEF Members, Weights
    <2>4. g[s] = w + g[t]
      BY <1>1, <2>1 DEF Totals
    <2>5. Fits(t)
      BY <1>3, <2>2
    <2> HIDE DEF t, w
    <2> QED
      BY <2>2, <2>3, <2>4, <2>5
  <1>4. Cardinality(z) \in P
    <2> HIDE DEF P
    <2>1. Nat \subseteq P
      BY <1>2, <1>3, NumberInduction
    <2> QED
      BY <2>1, FS_CardinalityType
  <1> QED
    BY <1>1, <1>4

\* What AddAndScore returned last.
Bounded ==
  /\ result \in [Containers -> [score: Nat, of: Nat]]
  /\ \A c \in Containers : result[c].score <= 100 * Most

LEMMA BoundedStep == Kept /\ Kept' /\ Small' /\ Bounded /\ [Next]_vars => Bounded'
  <1> SUFFICES ASSUME Kept, Kept', Small', Bounded, [Next]_vars PROVE Bounded'
    OBVIOUS
  <1>1. ASSUME NEW c \in Containers, NEW e \in Arriving, AddAndScore(c, e) PROVE Bounded'
    <2> DEFINE z == zset'[c]
               n == Len(log'[c])
    <2>1. z \in SUBSET Members /\ IsFiniteSet(z) /\ Cardinality(z) <= Most /\ n \in Nat
      <3>1. log'[c] \in Seq(Members) /\ zset'[c] \in SUBSET Members
        BY DEF Kept, Typed
      <3>2. IsFiniteSet(zset'[c]) /\ Cardinality(zset'[c]) <= Most
        BY DEF Small, Most, Worths
      <3> QED
        BY <3>1, <3>2
    <2>2. result' = [result EXCEPT ![c] = [score |-> TotalScore(z), of |-> n]]
      BY <1>1 DEF AddAndScore
    <2> HIDE DEF z, n
    <2>3. TotalScore(z) \in Nat /\ TotalScore(z) <= 100 * Most
      <3>1. Cardinality(z) \in Nat /\ Most \in Nat
        BY <2>1, WorthsAreFew, FS_CardinalityType, VelocityAssumption DEF Most, VelocityAssumption
      <3> QED
        BY <2>1, <3>1, TotalScoreBounds
    <2>4. Most' = Most
      BY DEF Most, Worths
    <2> QED
      BY <2>2, <2>3, <2>4, <2>1 DEF Bounded
  <1>2. CASE UNCHANGED result
    BY <1>2 DEF Bounded, Most, Worths
  <1> QED
    BY <1>1, <1>2 DEF Next, AddFails, Tick, vars

\* The score that AddAndScore returned last is a number, and it cannot grow without limit: at
\* most 100 per member of a full window.
THEOREM ScoresAreBounded == Spec => []Bounded
  <1>1. Init => Bounded
    <2>1. Most \in Nat
      BY WorthsAreFew, FS_CardinalityType, VelocityAssumption DEF Most, VelocityAssumption
    <2> QED
      BY <2>1 DEF Init, Bounded
  <1> QED
    BY <1>1, BoundedStep, KeptIsSmall, KeptAlways, PTL DEF Spec

\* The types of VelocityDetector, the score included: the sum over a set is defined because the
\* set of a container is always finite.
THEOREM TypeCorrect == Spec => []TypeOK
  <1>1. Kept /\ Bounded => TypeOK
    BY DEF Kept, Typed, Bounded, TypeOK
  <1> QED
    BY <1>1, KeptAlways, ScoresAreBounded, PTL
=============================================================================
