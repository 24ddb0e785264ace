--------------------------- MODULE VelocityDetector ---------------------------
(***************************************************************************)
(* velocity.Detector: a sorted set per container (velocity:<cid>:<rule>,   *)
(* there is one rule) that holds what the last events were worth.          *)
(* AddAndScore is one MULTI/EXEC: ZADD, ZREMRANGEBYSCORE, ZRANGE, EXPIRE.  *)
(* The scores of the set are the times of the events, taken from Falco;    *)
(* the TTL runs on the clock of Redis.  An event may arrive late, out of   *)
(* order, or from a node whose clock is ahead.                             *)
(***************************************************************************)
EXTENDS Integers, Sequences, FiniteSets, FiniteSetsExt

CONSTANTS
  Containers,  \* container ids
  Priorities,  \* what main passes as the priority: the behavior ids
  Window,      \* rule.Window, in seconds
  MaxDelay,    \* bound: how late an event may arrive
  MaxAhead,    \* bound: how far the clock of a node may be ahead
  MaxTime,     \* bound: the clock stops here
  MaxEvents    \* bound: events per container

\* The window is five minutes: delays and clock differences stay below it.
ASSUME VelocityAssumption ==
  /\ Window \in Nat \ {0}
  /\ MaxDelay \in Nat /\ MaxAhead \in Nat /\ MaxDelay + MaxAhead <= Window
  /\ MaxTime \in Nat /\ MaxEvents \in Nat

VARIABLES
  now,      \* the clock of Redis
  zset,     \* per container: the members of its sorted set
  expires,  \* per container: when its set expires
  log,      \* history: the events that Redis has executed, in order of arrival
  result    \* per container: the last score that was returned, and for which event

vars == <<now, zset, expires, log, result>>

Weights == {5, 15, 35, 60, 100}
Members == [at: Int, weight: Weights]

TypeOK ==
  /\ now \in Nat
  /\ zset \in [Containers -> SUBSET Members]
  /\ expires \in [Containers -> Nat]
  /\ log \in [Containers -> Seq(Members)]
  /\ result \in [Containers -> [score: Nat, of: Nat]]

-----------------------------------------------------------------------------
\* Mutant of ScoreFromPriority: no weight for a priority it does not know.
ScoreWithoutDefault(priority) ==
  CASE priority = "info"     -> 15
    [] priority = "notice"   -> 35
    [] priority = "warning"  -> 60
    [] priority = "critical" -> 100
    [] OTHER                 -> 0

ScoreFromPriority(priority) ==
  CASE priority = "info"     -> 15
    [] priority = "notice"   -> 35
    [] priority = "warning"  -> 60
    [] priority = "critical" -> 100
    [] OTHER                 -> 5

Member(at, priority) == [at |-> at, weight |-> ScoreFromPriority(priority)]

\* Mutant of Trimmed: what is exactly a window old stays.
TrimmedExclusive(z, at) == {e \in z : e.at >= at - Window}

\* Mutant of Trimmed: everything stays.
NotTrimmed(z, at) == z

\* Mutant of Trimmed: the set is cut to the window that ends with the event.
TrimmedAround(z, at) == {e \in z : e.at > at - Window /\ e.at <= at}

\* ZREMRANGEBYSCORE key -inf (at - window), bounds included.
Trimmed(z, at) == {e \in z : e.at > at - Window}

\* Mutant of TTL: the key lives for one window.
OneWindow == Window

TTL == Window * 2

TotalScore(z) == MapThenSumSet(LAMBDA e : e.weight, z)

\* The transaction.  A member that is in the set already is not added again.
Transaction(c, e) ==
  /\ zset' = [zset EXCEPT ![c] = Trimmed(@ \cup {e}, e.at)]
  /\ expires' = [expires EXCEPT ![c] = now + TTL]
  /\ log' = [log EXCEPT ![c] = Append(@, e)]

-----------------------------------------------------------------------------
AddAndScore(c, e) ==
  /\ Len(log[c]) < MaxEvents
  /\ Transaction(c, e)
  /\ result' = [result EXCEPT ![c] = [score |-> TotalScore(zset'[c]), of |-> Len(log'[c])]]
  /\ UNCHANGED now

\* Exec returns an error although Redis ran it; an error before that changes nothing.
AddFails(c, e) ==
  /\ Len(log[c]) < MaxEvents
  /\ Transaction(c, e)
  /\ UNCHANGED <<now, result>>

\* Time passes and Redis drops the sets whose TTL has run out.
Tick ==
  /\ now < MaxTime
  /\ now' = now + 1
  /\ zset' = [c \in Containers |-> IF expires[c] <= now + 1 THEN {} ELSE zset[c]]
  /\ UNCHANGED <<expires, log, result>>

Arriving == {Member(at, p) : at \in now - MaxDelay .. now + MaxAhead, p \in Priorities}

Init ==
  /\ now = 0
  /\ zset = [c \in Containers |-> {}]
  /\ expires = [c \in Containers |-> 0]
  /\ log = [c \in Containers |-> << >>]
  /\ result = [c \in Containers |-> [score |-> 0, of |-> 0]]

Next ==
  \/ \E c \in Containers : \E e \in Arriving : AddAndScore(c, e) \/ AddFails(c, e)
  \/ Tick

Spec == Init /\ [][Next]_vars

-----------------------------------------------------------------------------
(* Properties. *)

Logged(l) == {l[i] : i \in 1 .. Len(l)}
Newest(l, at) == \A i \in 1 .. Len(l) : l[i].at <= at

\* The events of the window that ends at time at.
InWindow(l, at) == {e \in Logged(l) : e.at > at - Window}

Last(l) == l[Len(l)]

\* The event that is the newest so far is scored by exactly the window before it: neither
\* the TTL, nor failed replies, nor events that came late have removed part of it, and
\* nothing older is left.
WindowIsExact ==
  [][\A c \in Containers :
       log'[c] # log[c] /\ Newest(log'[c], Last(log'[c]).at) =>
         zset'[c] = InWindow(log'[c], Last(log'[c]).at)]_vars

\* An event that comes late finds, and leaves, the window of the newest one complete.
WindowIsComplete ==
  [][\A c \in Containers :
       log'[c] # log[c] =>
         \A e \in Logged(log'[c]) : Newest(log'[c], e.at) =>
           InWindow(log'[c], e.at) \subseteq zset'[c]]_vars

\* The set of a container stays small however many events come: at most one member per
\* second and weight that the window and the delays can span.
SetIsBounded ==
  \A c \in Containers :
    Cardinality(zset[c]) <= (Window + MaxDelay + MaxAhead)
                            * Cardinality({ScoreFromPriority(p) : p \in Priorities})

\* "Detects high-frequency alert bursts per container" (README): each event of the window
\* adds to the score of the newest one.
BurstIsScored ==
  \A c \in Containers :
    LET l == log[c] IN
    result[c].of > 0 /\ result[c].of = Len(l) /\ Newest(l, Last(l).at) =>
      result[c].score >= 5 * Cardinality({i \in 1 .. Len(l) : l[i].at > Last(l).at - Window})
=============================================================================
