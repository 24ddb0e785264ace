------------------------- MODULE ContainerStateProofs -------------------------
(***************************************************************************)
(* Proofs about ContainerState, for every TTL and any number of updates,   *)
(* faults and ticks.                                                       *)
(***************************************************************************)
EXTENDS ContainerState, TLAPS

-----------------------------------------------------------------------------
(* Type correctness. *)

\* What Return leaves behind.
LEMMA ReturnTypes ==
  ASSUME TypeOK, NEW ok \in BOOLEAN, Return(ok)
  PROVE  /\ at' = "idle"
         /\ last' \in [clean: BOOLEAN, began: Time, ended: Time]
         /\ recent' \subseteq [id: Updates, began: Time]
  <1>1. update.began \in Time /\ update.id \in Updates /\ now \in Time
    BY DEF TypeOK, Update
  <1>2. last' \in [clean: BOOLEAN, began: Time, ended: Time]
    BY <1>1 DEF Return
  <1>3. recent' \subseteq [id: Updates, began: Time]
    BY <1>1 DEF Return, TypeOK
  <1> QED
    BY <1>2, <1>3 DEF Return

\* Faults are counted up to their bound.
LEMMA FaultTypes == ASSUME TypeOK, Fault PROVE faults' \in 0 .. MaxFaults
  BY ContainerStateAssumption DEF TypeOK, Fault, ContainerStateAssumption

\* A TTL that is set now is a time within the bound.
LEMMA RenewedTypes == ASSUME TypeOK, NEW k \in Keys PROVE Renewed(k) \in [Keys -> 0 .. MaxTime + TTL]
  BY ContainerStateAssumption DEF TypeOK, Renewed, Time, ContainerStateAssumption

\* SADD and EXPIRE, whatever became of them.
LEMMA ContinueTypes ==
  ASSUME TypeOK, NEW ok \in BOOLEAN, Continue(ok),
         at \in {"sadd_procs", "sadd_cmdlines", "expire_hash", "expire_procs", "expire_cmdlines"}
  PROVE  /\ at' \in {"sadd_cmdlines", "expire_hash", "expire_procs", "expire_cmdlines", "idle"}
         /\ clean' \in BOOLEAN
         /\ last' \in [clean: BOOLEAN, began: Time, ended: Time]
         /\ recent' \subseteq [id: Updates, began: Time]
         /\ faults' \in 0 .. MaxFaults
  <1>1. clean' \in BOOLEAN
    BY DEF Continue
  <1>2. faults' \in 0 .. MaxFaults
    BY FaultTypes DEF Continue, TypeOK
  <1>3. CASE at \in DOMAIN After
    BY <1>1, <1>2, <1>3 DEF Continue, After, TypeOK
  <1>4. CASE at \notin DOMAIN After
    <2>1. Return(clean')
      BY <1>4 DEF Continue
    <2> QED
      BY <1>1, <1>2, <2>1, ReturnTypes
  <1> QED
    BY <1>3, <1>4

\* The empty Redis is of the right type.
LEMMA TypedInit == Init => TypeOK
  <1> SUFFICES ASSUME Init PROVE TypeOK
    OBVIOUS
  <1> USE ContainerStateAssumption DEF ContainerStateAssumption
  <1>1. 0 \in Updates /\ 0 \in Time /\ NoTTL \in 0 .. MaxTime + TTL /\ 0 \in 0 .. MaxFaults
    BY DEF Updates, Time, NoTTL
  <1>2. << >> \in Seq(Updates)
    OBVIOUS
  <1>3. update \in Update
    BY <1>1 DEF Init, Update
  <1>4. expires \in [Keys -> 0 .. MaxTime + TTL]
    BY <1>1 DEF Init
  <1> QED
    BY <1>1, <1>2, <1>3, <1>4 DEF Init, TypeOK

\* Every command and every expiry keeps the types.
LEMMA TypedStep == TypeOK /\ [Next]_vars => TypeOK'
  <1> SUFFICES ASSUME TypeOK, [Next]_vars PROVE TypeOK'
    OBVIOUS
  <1> USE ContainerStateAssumption DEF ContainerStateAssumption
  <1>1. ASSUME NEW values \in SUBSET Sets, Begin(values) PROVE TypeOK'
    <2>1. update.id \in Updates /\ update.id < MaxUpdates /\ now \in Time
      BY <1>1 DEF Begin, TypeOK, Update
    <2>2. update.id + 1 \in Updates
      BY <2>1 DEF Updates
    <2>3. update' \in Update
      BY <1>1, <2>1, <2>2 DEF Begin, Update
    <2> QED
      BY <1>1, <2>3 DEF Begin, TypeOK, redis
  <1>2. ASSUME NEW n \in 0 .. 2, NEW ok \in BOOLEAN, HIncrBy(n, ok) PROVE TypeOK'
    <2>1. update.id \in Updates
      BY DEF TypeOK, Update
    <2>2. [i \in 1 .. n |-> update.id] \in Seq(Updates)
      BY <2>1
    <2>3. counted' \in Seq(Updates)
      BY <1>2, <2>2 DEF HIncrBy, TypeOK
    <2>4. keys' \subseteq Keys
      BY <1>2 DEF HIncrBy, TypeOK, Keys
    <2>5. faults' \in 0 .. MaxFaults
      BY <1>2, FaultTypes DEF HIncrBy, TypeOK
    <2>6. CASE ok
      BY <1>2, <2>3, <2>4, <2>5, <2>6 DEF HIncrBy, TypeOK
    <2>7. CASE ~ok
      BY <1>2, <2>3, <2>4, <2>5, <2>7, ReturnTypes DEF HIncrBy, TypeOK
    <2> QED
      BY <2>6, <2>7
  <1>3. ASSUME NEW executed \in BOOLEAN, NEW ok \in BOOLEAN, HSet(executed, ok) PROVE TypeOK'
    <2>1. metadata' \in Updates
      BY <1>3 DEF HSet, TypeOK, Update
    <2>2. keys' \subseteq Keys
      BY <1>3 DEF HSet, TypeOK, Keys
    <2>3. CASE ok
      BY <1>3, <2>1, <2>2, <2>3 DEF HSet, TypeOK
    <2>4. CASE ~ok
      BY <1>3, <2>1, <2>2, <2>4, ReturnTypes, FaultTypes DEF HSet, TypeOK
    <2> QED
      BY <2>3, <2>4
  <1>4. ASSUME NEW k \in Sets, NEW executed \in BOOLEAN, NEW ok \in BOOLEAN, SAdd(k, executed, ok)
        PROVE  TypeOK'
    <2>1. keys' \subseteq Keys
      BY <1>4 DEF SAdd, TypeOK, Keys
    <2>2. at \in {"sadd_procs", "sadd_cmdlines"} /\ Continue(ok)
      BY <1>4 DEF SAdd, SAddOf, Sets
    <2> QED
      BY <1>4, <2>1, <2>2, ContinueTypes DEF SAdd, TypeOK
  <1>5. ASSUME NEW k \in Keys, NEW executed \in BOOLEAN, NEW ok \in BOOLEAN,
               Expire(k, executed, ok)
        PROVE  TypeOK'
    <2>1. expires' \in [Keys -> 0 .. MaxTime + TTL]
      BY <1>5, RenewedTypes DEF Expire, TypeOK
    <2>2. at \in {"expire_hash", "expire_procs", "expire_cmdlines"} /\ Continue(ok)
      BY <1>5 DEF Expire, ExpireOf, Keys, Sets
    <2> QED
      BY <1>5, <2>1, <2>2, ContinueTypes DEF Expire, TypeOK
  <1>6. CASE Crash
    BY <1>6, ReturnTypes, FaultTypes DEF Crash, TypeOK, redis
  <1>7. CASE Tick
    <2> DEFINE gone == {k \in keys : expires[k] # NoTTL /\ expires[k] <= now'}
    <2>1. now' \in Time
      BY <1>7 DEF Tick, TypeOK, Time
    <2>2. keys' \subseteq Keys
      BY <1>7 DEF Tick, TypeOK
    <2>3. expires' \in [Keys -> 0 .. MaxTime + TTL]
      <3>1. expires' = [k \in Keys |-> IF k \in gone THEN NoTTL ELSE expires[k]]
        BY <1>7 DEF Tick
      <3>2. NoTTL \in 0 .. MaxTime + TTL
        BY DEF NoTTL
      <3> HIDE DEF gone
      <3> QED
        BY <3>1, <3>2 DEF TypeOK
    <2>4. counted' \in Seq(Updates) /\ metadata' \in Updates
      <3>1. << >> \in Seq(Updates) /\ 0 \in Updates
        BY DEF Updates
      <3> HIDE DEF gone
      <3> QED
        BY <1>7, <3>1 DEF Tick, TypeOK
    <2>5. intact' \in BOOLEAN
      BY <1>7 DEF Tick
    <2>6. recent' \subseteq [id: Updates, began: Time]
      BY <1>7 DEF Tick, TypeOK
    <2> QED
      BY <1>7, <2>1, <2>2, <2>3, <2>4, <2>5, <2>6 DEF Tick, TypeOK
  <1>8. CASE UNCHANGED vars
    BY <1>8 DEF vars, redis, ghost, TypeOK
  <1> QED
    BY <1>1, <1>2, <1>3, <1>4, <1>5, <1>6, <1>7, <1>8 DEF Next

\* The variables keep their types, for every TTL and all bounds: no expiry lies further ahead
\* than one TTL after the last tick.
THEOREM TypeCorrect == Spec => []TypeOK
  <1> QED
    BY TypedInit, TypedStep, PTL DEF Spec

-----------------------------------------------------------------------------
(* An update that went well gives every key a TTL. *)

\* The keys whose EXPIRE is behind the update under way.
RenewedSoFar ==
  {k \in Keys : \/ k = "hash" /\ at \in {"expire_procs", "expire_cmdlines"}
                \/ k = "procs" /\ at = "expire_cmdlines"}

Healing ==
  /\ update.began <= now
  /\ clean => \A k \in keys \cap RenewedSoFar : expires[k] \in update.began + TTL .. now + TTL
  /\ LeaksAreHealed

\* Every command keeps what has been renewed so far.
LEMMA HealingStep == TypeOK /\ Healing /\ [Next]_vars => Healing'
  <1> SUFFICES ASSUME TypeOK, Healing, [Next]_vars PROVE Healing'
    OBVIOUS
  <1> USE ContainerStateAssumption DEF ContainerStateAssumption
  <1>0. /\ now \in Nat /\ update.began \in Nat /\ expires \in [Keys -> Nat] /\ keys \subseteq Keys
        /\ TTL \in Nat \ {0} /\ last.began \in Nat /\ last.ended \in Nat
    BY DEF TypeOK, Time, Update
  <1>1. ASSUME NEW values \in SUBSET Sets, Begin(values) PROVE Healing'
    BY <1>0, <1>1 DEF Begin, Healing, LeaksAreHealed, RenewedSoFar, redis
  <1>2. ASSUME NEW n \in 0 .. 2, NEW ok \in BOOLEAN, HIncrBy(n, ok) PROVE Healing'
    BY <1>0, <1>2 DEF HIncrBy, Return, Healing, LeaksAreHealed, RenewedSoFar
  <1>3. ASSUME NEW executed \in BOOLEAN, NEW ok \in BOOLEAN, HSet(executed, ok) PROVE Healing'
    BY <1>0, <1>3 DEF HSet, Return, Healing, LeaksAreHealed, RenewedSoFar
  <1>4. ASSUME NEW k \in Sets, NEW executed \in BOOLEAN, NEW ok \in BOOLEAN, SAdd(k, executed, ok)
        PROVE  Healing'
    <2>1. at' \in {"sadd_cmdlines", "expire_hash"}
      BY <1>4 DEF SAdd, SAddOf, Sets, Continue, After
    <2> QED
      BY <1>0, <1>4, <2>1 DEF SAdd, Continue, Healing, LeaksAreHealed, RenewedSoFar
  <1>5. ASSUME NEW k \in Keys, NEW executed \in BOOLEAN, NEW ok \in BOOLEAN,
               Expire(k, executed, ok)
        PROVE  Healing'
    <2>1. /\ keys' = keys /\ now' = now /\ update' = update
          /\ clean' => clean /\ ok /\ executed
      BY <1>5 DEF Expire, Continue
    <2>2. CASE clean'
      <3>1. expires' = Renewed(k)
        BY <1>5, <2>1, <2>2 DEF Expire
      <3>2. k \in keys => expires'[k] = now + TTL
        BY <1>0, <3>1 DEF Renewed
      <3>3. \A x \in keys : x # k => expires'[x] = expires[x]
        BY <1>0, <3>1 DEF Renewed
      <3>4. \A x \in keys \cap ({k} \cup RenewedSoFar) :
              expires'[x] \in update.began + TTL .. now + TTL
        BY <1>0, <2>1, <2>2, <3>2, <3>3 DEF Healing
      <3>5. CASE k = "cmdlines"
        <4>1. at = "expire_cmdlines"
          BY <1>5, <3>5 DEF Expire, ExpireOf
        <4>2. at' = "idle" /\ last'.began = update.began /\ last'.ended = now
          BY <1>5, <4>1 DEF Expire, Continue, After, Return
        <4>3. keys \subseteq {k} \cup RenewedSoFar
          BY <1>0, <3>5, <4>1 DEF RenewedSoFar, Keys, Sets
        <4> QED
          BY <1>0, <2>1, <3>4, <4>2, <4>3 DEF Healing, LeaksAreHealed, RenewedSoFar
      <3>6. CASE k # "cmdlines"
        <4>1. \/ k = "hash" /\ at = "expire_hash" /\ at' = "expire_procs"
              \/ k = "procs" /\ at = "expire_procs" /\ at' = "expire_cmdlines"
          BY <1>5, <3>6 DEF Expire, ExpireOf, Keys, Sets, Continue, After
        <4>2. RenewedSoFar' \subseteq {k} \cup RenewedSoFar
          BY <4>1 DEF RenewedSoFar
        <4> QED
          BY <1>0, <2>1, <3>4, <4>1, <4>2 DEF Healing, LeaksAreHealed
      <3> QED
        BY <3>5, <3>6
    <2>3. CASE ~clean'
      <3>1. at' = "idle" => ~last'.clean
        BY <1>5, <2>3 DEF Expire, ExpireOf, Keys, Sets, Continue, After, Return
      <3> QED
        BY <1>0, <2>1, <2>3, <3>1 DEF Healing, LeaksAreHealed
    <2> QED
      BY <2>2, <2>3
  <1>6. CASE Crash
    BY <1>0, <1>6 DEF Crash, Return, Healing, LeaksAreHealed, RenewedSoFar, redis
  <1>7. CASE Tick
    <2>1. /\ now' = now + 1 /\ keys' \subseteq keys /\ at' = at /\ update' = update
          /\ clean' = clean /\ last' = last
      BY <1>7 DEF Tick
    <2>2. \A k \in keys' : expires'[k] = expires[k]
      BY <1>0, <1>7 DEF Tick
    <2>3. now' \in Nat
      BY <1>0, <2>1
    <2>4. update.began <= now'
      BY <1>0, <2>1 DEF Healing
    <2>5. clean => \A k \in keys' \cap RenewedSoFar :
                     expires'[k] \in update.began + TTL .. now' + TTL
      BY <1>0, <2>1, <2>2 DEF Healing
    <2>6. LeaksAreHealed'
      BY <1>0, <2>1, <2>2 DEF Healing, LeaksAreHealed
    <2> QED
      BY <2>1, <2>4, <2>5, <2>6 DEF Healing, RenewedSoFar
  <1>8. CASE UNCHANGED vars
    BY <1>8 DEF vars, redis, ghost, Healing, LeaksAreHealed, RenewedSoFar
  <1> QED
    BY <1>1, <1>2, <1>3, <1>4, <1>5, <1>6, <1>7, <1>8 DEF Next

\* After an update without a failure every key of the container runs out, one TTL after its
\* EXPIRE, whatever earlier updates had left behind.
THEOREM UpdatesHeal == Spec => []LeaksAreHealed
  <1>1. Init => Healing
    BY DEF Init, Healing, LeaksAreHealed
  <1>2. Healing => LeaksAreHealed
    BY DEF Healing
  <1> QED
    BY <1>1, <1>2, TypedInit, TypedStep, HealingStep, PTL DEF Spec

-----------------------------------------------------------------------------
(* An update that went well stays in the score. *)

\* id is in the risk score.
Counted(id) == \E i \in 1 .. Len(counted) : counted[i] = id

\* What a recent update has left, and what the update under way has got done so far.
Lasting ==
  /\ \A u \in recent :
       /\ Counted(u.id) /\ metadata >= u.id /\ update.id >= u.id
       /\ u.began <= now
       /\ "hash" \in keys /\ expires["hash"] >= u.began + TTL
  /\ intact /\ at \notin {"idle", "hincrby"} => Counted(update.id)
  /\ intact /\ at \notin {"idle", "hincrby", "hset"} => metadata = update.id /\ "hash" \in keys
  /\ intact /\ clean /\ at \in {"expire_procs", "expire_cmdlines"} =>
       expires["hash"] >= update.began + TTL

\* Every command keeps the increments of the updates that went well.
LEMMA LastingStep == TypeOK /\ Healing /\ Lasting /\ [Next]_vars => Lasting'
  <1> SUFFICES ASSUME TypeOK, Healing, Lasting, [Next]_vars PROVE Lasting'
    OBVIOUS
  <1> USE ContainerStateAssumption DEF ContainerStateAssumption
  <1>0. /\ now \in Nat /\ update.began \in Nat /\ expires \in [Keys -> Nat] /\ keys \subseteq Keys
        /\ TTL \in Nat \ {0} /\ update.id \in Nat /\ metadata \in Nat /\ update.began <= now
        /\ counted \in Seq(Updates) /\ "hash" \in Keys
        /\ \A u \in recent : u.id \in Nat /\ u.began \in Nat
    BY DEF TypeOK, Time, Update, Updates, Healing, Keys
  <1>1. ASSUME NEW values \in SUBSET Sets, Begin(values) PROVE Lasting'
    BY <1>0, <1>1 DEF Begin, Lasting, Counted, redis
  <1>2. ASSUME NEW n \in 0 .. 2, NEW ok \in BOOLEAN, HIncrBy(n, ok) PROVE Lasting'
    <2> DEFINE more == [i \in 1 .. n |-> update.id]
    <2>1. more \in Seq(Updates) /\ Len(more) = n /\ counted' = counted \o more
      BY <1>2 DEF HIncrBy, TypeOK, Update
    <2>2. /\ ok => n > 0 /\ at' = "hset"
          /\ ~ok => at' = "idle"
          /\ recent' = recent /\ expires' = expires /\ metadata' = metadata
          /\ update' = update /\ now' = now /\ keys \subseteq keys'
      BY <1>2 DEF HIncrBy, Return
    <2>3. n > 0 => more[1] = update.id
      OBVIOUS
    <2> HIDE DEF more
    <2>4. Len(counted) \in Nat /\ n \in Nat /\ Len(counted') = Len(counted) + n
      BY <1>0, <2>1
    <2>5. \A id : Counted(id) => Counted(id)'
      <3> SUFFICES ASSUME NEW id, NEW i \in 1 .. Len(counted), counted[i] = id
                   PROVE  Counted(id)'
        BY DEF Counted
      <3>1. i \in 1 .. Len(counted') /\ counted'[i] = id
        BY <1>0, <2>1, <2>4
      <3> QED
        BY <3>1 DEF Counted
    <2>6. n > 0 => Counted(update.id)'
      <3> SUFFICES ASSUME n > 0 PROVE Counted(update.id)'
        OBVIOUS
      <3>1. /\ Len(counted) + 1 \in 1 .. Len(counted')
            /\ counted'[Len(counted) + 1] = update.id
        BY <1>0, <2>1, <2>3, <2>4
      <3> QED
        BY <2>2, <3>1 DEF Counted
    <2> QED
      BY <1>0, <2>5, <2>6, <2>2 DEF Lasting
  <1>3. ASSUME NEW executed \in BOOLEAN, NEW ok \in BOOLEAN, HSet(executed, ok) PROVE Lasting'
    <2>1. recent' = recent
      BY <1>3 DEF HSet, Return
    <2> QED
      BY <1>0, <1>3, <2>1 DEF HSet, Return, Lasting, Counted
  <1>4. ASSUME NEW k \in Sets, NEW executed \in BOOLEAN, NEW ok \in BOOLEAN, SAdd(k, executed, ok)
        PROVE  Lasting'
    <2>1. /\ at \in {"sadd_procs", "sadd_cmdlines"} /\ at' \in {"sadd_cmdlines", "expire_hash"}
          /\ recent' = recent
      BY <1>4 DEF SAdd, SAddOf, Sets, Continue, After
    <2> QED
      BY <1>0, <1>4, <2>1 DEF SAdd, Continue, Lasting, Counted
  <1>5. ASSUME NEW k \in Keys, NEW executed \in BOOLEAN, NEW ok \in BOOLEAN,
               Expire(k, executed, ok)
        PROVE  Lasting'
    <2>1. /\ keys' = keys /\ now' = now /\ update' = update /\ intact' = intact
          /\ counted' = counted /\ metadata' = metadata
          /\ clean' => clean /\ ok /\ executed
          /\ expires' \in {expires, Renewed(k)}
      BY <1>5 DEF Expire, Continue
    <2>2. "hash" \in keys => expires'["hash"] \in {expires["hash"], now + TTL}
      BY <1>0, <2>1 DEF Renewed
    <2>3. \A u \in recent :
            /\ Counted(u.id)' /\ metadata' >= u.id /\ update'.id >= u.id /\ u.began <= now'
            /\ "hash" \in keys' /\ expires'["hash"] >= u.began + TTL
      BY <1>0, <2>1, <2>2 DEF Lasting, Counted
    <2>4. at = ExpireOf[k] /\ at \in {"expire_hash", "expire_procs", "expire_cmdlines"}
      BY <1>5 DEF Expire, ExpireOf, Keys, Sets
    <2>5. intact => Counted(update.id)' /\ metadata' = update.id /\ "hash" \in keys'
      BY <2>1, <2>4 DEF Lasting, Counted
    <2>6. intact /\ clean' => expires'["hash"] >= update.began + TTL
      <3> SUFFICES ASSUME intact, clean' PROVE expires'["hash"] >= update.began + TTL
        OBVIOUS
      <3>1. CASE k = "hash"
        <4>1. expires' = Renewed("hash")
          BY <1>5, <2>1, <3>1 DEF Expire
        <4> QED
          BY <1>0, <2>1, <2>5, <4>1 DEF Renewed
      <3>2. CASE k # "hash"
        <4>1. at \in {"expire_procs", "expire_cmdlines"}
          BY <2>4, <3>2 DEF ExpireOf, Keys, Sets
        <4>2. expires["hash"] >= update.began + TTL
          BY <2>1, <4>1 DEF Lasting
        <4> QED
          BY <1>0, <2>1, <2>2, <2>5, <4>2
      <3> QED
        BY <3>1, <3>2
    <2>7. CASE at # "expire_cmdlines"
      <3>1. recent' = recent /\ at' \in {"expire_procs", "expire_cmdlines"}
        BY <1>5, <2>4, <2>7 DEF Expire, Continue, After
      <3> QED
        BY <2>1, <2>3, <2>5, <2>6, <3>1 DEF Lasting
    <2>8. CASE at = "expire_cmdlines"
      <3>1. Return(clean')
        BY <1>5, <2>8 DEF Expire, Continue, After
      <3>2. at' = "idle"
        BY <3>1 DEF Return
      <3>3. \A u \in recent' :
              u \in recent \/ (clean' /\ intact /\ u.id = update.id /\ u.began = update.began)
        BY <3>1 DEF Return
      <3>4. \A u \in recent' :
              /\ Counted(u.id)' /\ metadata' >= u.id /\ update'.id >= u.id /\ u.began <= now'
              /\ "hash" \in keys' /\ expires'["hash"] >= u.began + TTL
        BY <1>0, <2>1, <2>3, <2>5, <2>6, <3>3
      <3> QED
        BY <3>2, <3>4 DEF Lasting
    <2> QED
      BY <2>7, <2>8
  <1>6. CASE Crash
    <2>1. recent' = recent /\ at' = "idle"
      BY <1>6 DEF Crash, Return
    <2> QED
      BY <1>6, <2>1 DEF Crash, Lasting, Counted, redis
  <1>7. CASE Tick
    <2> DEFINE gone == {k \in keys : expires[k] # NoTTL /\ expires[k] <= now'}
    <2>1. /\ now' = now + 1 /\ keys' = keys \ gone /\ at' = at /\ update' = update
          /\ clean' = clean
          /\ intact' = (intact /\ "hash" \notin gone)
          /\ counted' = IF "hash" \in gone THEN << >> ELSE counted
          /\ metadata' = IF "hash" \in gone THEN 0 ELSE metadata
          /\ recent' = {u \in recent : u.began + TTL > now'}
      BY <1>7 DEF Tick
    <2>2. "hash" \in gone => expires["hash"] <= now'
      OBVIOUS
    <2>3. "hash" \notin gone => expires'["hash"] = expires["hash"]
      BY <1>0, <1>7 DEF Tick
    <2> HIDE DEF gone
    <2>4. CASE "hash" \in gone
      <3>1. recent' = {}
        BY <1>0, <2>1, <2>2, <2>4 DEF Lasting
      <3> QED
        BY <2>1, <2>4, <3>1 DEF Lasting
    <2>5. CASE "hash" \notin gone
      <3>1. counted' = counted /\ metadata' = metadata /\ intact' = intact
            /\ ("hash" \in keys => "hash" \in keys')
        <4>1. intact \in BOOLEAN
          BY DEF TypeOK
        <4>2. intact' = intact
          BY <2>1, <2>5, <4>1
        <4> QED
          BY <2>1, <2>5, <4>2
      <3>2. \A u \in recent' :
              /\ Counted(u.id)' /\ metadata' >= u.id /\ update'.id >= u.id /\ u.began <= now'
              /\ "hash" \in keys' /\ expires'["hash"] >= u.began + TTL
        BY <1>0, <2>1, <2>3, <2>5, <3>1 DEF Lasting, Counted
      <3> QED
        BY <2>1, <2>3, <2>5, <3>1, <3>2 DEF Lasting, Counted
    <2> QED
      BY <2>4, <2>5
  <1>8. CASE UNCHANGED vars
    BY <1>8 DEF vars, redis, ghost, Lasting, Counted
  <1> QED
    BY <1>1, <1>2, <1>3, <1>4, <1>5, <1>6, <1>7, <1>8 DEF Next

\* An update without a failure is part of the risk score for the whole TTL, whatever fails
\* after it, unless the hash ran out between its own commands.
THEOREM UpdatesLast == Spec => []RecentIsCounted
  <1>1. Init => Healing /\ Lasting
    BY DEF Init, Healing, LeaksAreHealed, Lasting
  <1>2. Lasting => RecentIsCounted
    BY DEF Lasting, RecentIsCounted, Counted
  <1> QED
    BY <1>1, <1>2, TypedInit, TypedStep, HealingStep, LastingStep, PTL DEF Spec
=============================================================================
