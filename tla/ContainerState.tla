---------------------------- MODULE ContainerState ----------------------------
(***************************************************************************)
(* UpdateContainerState: what the brain remembers of one container in      *)
(* Redis.  A hash holds its risk score and metadata, two sets hold the     *)
(* executables and command lines that were seen; each of the three keys    *)
(* has a TTL of its own.  An update is up to seven commands that are sent  *)
(* one by one; a key can run out between any two of them, and each can     *)
(* fail before or after Redis has executed it.                             *)
(*                                                                         *)
(* The risk score is the sum of the scores of the updates in counted.  One *)
(* brain updates a container at a time: its event loop makes the calls.    *)
(***************************************************************************)
EXTENDS Naturals, Sequences

CONSTANTS
  TTL,        \* the ttl argument, in ticks
  MaxTime,    \* bound: ticks of the clock
  MaxUpdates, \* bound: updates
  MaxFaults   \* bound: failed commands, repeated commands and crashes

ASSUME ContainerStateAssumption ==
  TTL \in Nat \ {0} /\ MaxTime \in Nat /\ MaxUpdates \in Nat /\ MaxFaults \in Nat

VARIABLES
  now,      \* the clock of Redis
  keys,     \* the keys that exist
  expires,  \* when each of them runs out; NoTTL: never
  counted,  \* the increments in the field risk_score, by the number of their update
  metadata, \* the update the other fields of the hash are from, 0 for none
  at,       \* the command that is sent next
  update,   \* the update under way
  clean,    \* history: none of its commands has failed
  intact,   \* history: the hash has not run out since it began
  last,     \* history: the update that ended last
  recent,   \* history: the updates that went well and began less than TTL ago
  faults    \* faults so far

redis == <<keys, expires, counted, metadata>>
ghost == <<clean, intact, last, recent>>
vars  == <<now, redis, at, update, ghost, faults>>

Sets    == {"procs", "cmdlines"}
Keys    == {"hash"} \cup Sets
NoTTL   == 0
Updates == 0 .. MaxUpdates
Time    == 0 .. MaxTime

\* values: the sets the event has a value for.
Update == [id: Updates, began: Time, values: SUBSET Sets]

TypeOK ==
  /\ now \in Time
  /\ keys \subseteq Keys
  /\ expires \in [Keys -> 0 .. MaxTime + TTL]
  /\ counted \in Seq(Updates) /\ metadata \in Updates
  /\ at \in {"idle", "hincrby", "hset", "sadd_procs", "sadd_cmdlines",
             "expire_hash", "expire_procs", "expire_cmdlines"}
  /\ update \in Update /\ clean \in BOOLEAN /\ intact \in BOOLEAN
  /\ last \in [clean: BOOLEAN, began: Time, ended: Time]
  /\ recent \subseteq [id: Updates, began: Time]
  /\ faults \in 0 .. MaxFaults

-----------------------------------------------------------------------------
Fault == faults < MaxFaults /\ faults' = faults + 1

\* UpdateContainerState returns.
Return(ok) ==
  /\ at' = "idle"
  /\ last' = [clean |-> ok, began |-> update.began, ended |-> now]
  /\ recent' = IF ok /\ intact
               THEN recent \cup {[id |-> update.id, began |-> update.began]} ELSE recent

SAddOf   == [procs |-> "sadd_procs", cmdlines |-> "sadd_cmdlines"]
ExpireOf == [hash |-> "expire_hash", procs |-> "expire_procs", cmdlines |-> "expire_cmdlines"]

After == [sadd_procs |-> "sadd_cmdlines", sadd_cmdlines |-> "expire_hash",
          expire_hash |-> "expire_procs", expire_procs |-> "expire_cmdlines"]

\* An error of SADD and EXPIRE is only logged: the next command follows in any case.
Continue(ok) ==
  /\ clean' = (clean /\ ok)
  /\ IF at \in DOMAIN After THEN at' = After[at] /\ UNCHANGED <<last, recent>>
     ELSE Return(clean')
  /\ IF ok THEN UNCHANGED faults ELSE Fault

\* Mutants of Renewed: only a key without a TTL gets one, like EXPIRE with NX; only the sets
\* this event has added to are renewed; the TTL is added to the time the key has left.
RenewedOnce(k) ==
  IF k \in keys /\ expires[k] = NoTTL THEN [expires EXCEPT ![k] = now + TTL] ELSE expires

RenewedIfUsed(k) ==
  IF k \in keys \cap ({"hash"} \cup update.values) THEN [expires EXCEPT ![k] = now + TTL]
  ELSE expires

RenewedLonger(k) ==
  IF k \in keys THEN [expires EXCEPT ![k] = (IF @ = NoTTL THEN now ELSE @) + TTL] ELSE expires

\* EXPIRE; it does nothing to a key that does not exist.
Renewed(k) == IF k \in keys THEN [expires EXCEPT ![k] = now + TTL] ELSE expires

-----------------------------------------------------------------------------
(* The commands.  executed: Redis has executed it; ok: and the client has its answer. *)

\* The event loop has an event of the container, with values for these sets.
Begin(values) ==
  /\ at = "idle" /\ update.id < MaxUpdates
  /\ at' = "hincrby"
  /\ update' = [id |-> update.id + 1, began |-> now, values |-> values]
  /\ clean' = TRUE /\ intact' = TRUE
  /\ UNCHANGED <<now, redis, last, recent, faults>>

\* HINCRBY risk_score, executed n times: the client repeats a command whose answer got lost,
\* and this one is not idempotent.  When it fails in the end, so does the update.
HIncrBy(n, ok) ==
  /\ at = "hincrby" /\ (ok => n > 0)
  /\ counted' = counted \o [i \in 1 .. n |-> update.id]
  /\ keys' = IF n > 0 THEN keys \cup {"hash"} ELSE keys
  /\ IF ok THEN at' = "hset" /\ UNCHANGED <<last, recent>> ELSE Return(FALSE)
  /\ IF ok /\ n = 1 THEN UNCHANGED faults ELSE Fault
  /\ UNCHANGED <<now, expires, metadata, update, clean, intact>>

\* HSET of the metadata.  When it fails the update ends, before any EXPIRE.
HSet(executed, ok) ==
  /\ at = "hset" /\ (ok => executed)
  /\ metadata' = IF executed THEN update.id ELSE metadata
  /\ keys' = IF executed THEN keys \cup {"hash"} ELSE keys
  /\ IF ok THEN at' = "sadd_procs" /\ UNCHANGED <<last, recent, faults>>
     ELSE Return(FALSE) /\ Fault
  /\ UNCHANGED <<now, expires, counted, update, clean, intact>>

\* SADD to one of the sets, when the event has a value for it.
SAdd(k, executed, ok) ==
  /\ at = SAddOf[k] /\ (ok => executed)
  /\ k \notin update.values => ok
  /\ keys' = IF executed THEN keys \cup ({k} \cap update.values) ELSE keys
  /\ Continue(ok)
  /\ UNCHANGED <<now, expires, counted, metadata, update, intact>>

Expire(k, executed, ok) ==
  /\ at = ExpireOf[k] /\ (ok => executed)
  /\ expires' = IF executed THEN Renewed(k) ELSE expires
  /\ Continue(ok)
  /\ UNCHANGED <<now, keys, counted, metadata, update, intact>>

-----------------------------------------------------------------------------
\* The brain ends in the middle of an update; the next one starts with another event.  That
\* the context is cancelled between two commands has the same effect on Redis.
Crash ==
  /\ at # "idle"
  /\ Return(FALSE)
  /\ Fault
  /\ UNCHANGED <<now, redis, update, clean, intact>>

\* Time passes, and keys run out.
Tick ==
  /\ now < MaxTime
  /\ now' = now + 1
  /\ LET gone == {k \in keys : expires[k] # NoTTL /\ expires[k] <= now'} IN
     /\ keys' = keys \ gone
     /\ expires' = [k \in Keys |-> IF k \in gone THEN NoTTL ELSE expires[k]]
     /\ counted' = IF "hash" \in gone THEN << >> ELSE counted
     /\ metadata' = IF "hash" \in gone THEN 0 ELSE metadata
     /\ intact' = (intact /\ "hash" \notin gone)
  /\ recent' = {u \in recent : u.began + TTL > now'}
  /\ UNCHANGED <<at, update, clean, last, faults>>

Init ==
  /\ now = 0
  /\ keys = {} /\ expires = [k \in Keys |-> NoTTL] /\ counted = << >> /\ metadata = 0
  /\ at = "idle"
  /\ update = [id |-> 0, began |-> 0, values |-> {}] /\ clean = FALSE /\ intact = FALSE
  /\ last = [clean |-> FALSE, began |-> 0, ended |-> 0]
  /\ recent = {} /\ faults = 0

Next ==
  \/ \E values \in SUBSET Sets : Begin(values)
  \/ \E n \in 0 .. 2, ok \in BOOLEAN : HIncrBy(n, ok)
  \/ \E executed, ok \in BOOLEAN : HSet(executed, ok)
  \/ \E k \in Sets, executed, ok \in BOOLEAN : SAdd(k, executed, ok)
  \/ \E k \in Keys, executed, ok \in BOOLEAN : Expire(k, executed, ok)
  \/ Crash
  \/ Tick

Spec == Init /\ [][Next]_vars

-----------------------------------------------------------------------------
(* Properties. *)

\* An update that stops half-way leaves keys that never run out, but not for good: after an
\* update that went well every key of the container has a TTL that this update has set,
\* also the keys its event had no value for.
LeaksAreHealed ==
  at = "idle" /\ last.clean =>
    \A k \in keys : expires[k] \in last.began + TTL .. last.ended + TTL

\* An update that went well stays in the risk score for the whole TTL, with metadata as new
\* as its own, whatever happens to later ones.  The exception is a hash that runs out
\* between its commands: it comes back without the increment.
RecentIsCounted ==
  \A u \in recent :
    /\ \E i \in 1 .. Len(counted) : counted[i] = u.id
    /\ metadata >= u.id
=============================================================================
