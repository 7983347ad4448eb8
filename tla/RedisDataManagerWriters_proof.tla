-------------------- MODULE RedisDataManagerWriters_proof --------------------
(***************************************************************************)
(* Clients that only write, any number of them, with any keys, documents   *)
(* and calls: a stored key that nobody lists is about to be listed, and a  *)
(* listed name without content is about to get some.  Neither holds by     *)
(* itself: a client must be right to take a key for stored (Ready).        *)
(***************************************************************************)
EXTENDS RedisDataManagerWriters, RedisDataManager_proof

\* AddConfig has still to visit s of document d, and the names in front of it are listed.
NamesListed(d, n) == \A h \in 1 .. n : d[h].object => d[h].name \in set[d[h].at]
Submitting(j) == \E d \in Document, n \in Nat : Rest(j.todo, d, n) /\ NamesListed(d, n)

\* What a client relies on at its next command.
Ready(j) ==
  /\ j.pc \in {"idle"} \cup UpdatePC \cup ClimbPC \cup AddPC
  /\ j.pc \in UpdatePC => j.value \in Value
  /\ j.pc = "val_hset" => Stored(Parent(j.key))
  /\ j.pc = "climb_sadd" => ~IsRoot(j.at) /\ Stored(j.at)
  /\ j.pc = "climb_keys" => Stored(Parent(j.at))
  /\ IF j.pc \in AddPC THEN Submitting(j) ELSE j.todo = <<>>

JobsReady == \A c \in Client : Ready(job[c])

\* Client c has still to submit what is below k.
Filling(c, k) == InCall(c) /\ \E i \in ToSet(job[c].todo) : i.at = k

WritersInv == SchemaInv /\ JobsReady /\ OnlyClimbersUnlisted /\ OnlySubmittedHollow
-----------------------------------------------------------------------------
(***************************************************************************)
(* Without faults each command is executed and answered, and the store     *)
(* grows: nothing that is stored or listed goes away.                      *)
(***************************************************************************)
Grows == \A k \in Key : set[k] \subseteq set'[k] /\ (Stored(k) => Stored(k)')

LEMMA Answered ==
  ASSUME CountsTyped, NEW r \in Outcome(TRUE)
  PROVE  r.done /\ r.ok
BY WritersAssumption, CommandAssumption DEF CountsTyped, Outcome

LEMMA Fitting ==
  ASSUME SchemaInv, NEW c \in Client, job[c].pc \notin {"rm_srem", "rm_card"}
  PROVE  NextFits(job[c])
BY ConformsFits DEF RefusedOnlyAtRootRecord

LEMMA PutEffect ==
  ASSUME StoreTyped, NEW p \in Key, NEW f \in Name, NEW v \in Value, Hput(p, f, v)
  PROVE  /\ UNCHANGED set /\ hash'[p][f] # Absent /\ Stored(p)' /\ Grows
         /\ \A k \in Key : Stored(k)' => Stored(k) \/ k = p
<1>1. /\ UNCHANGED set /\ hash' = [hash EXCEPT ![p][f] = v] /\ v # Absent
      /\ hash \in [Key -> [Name -> Value \cup {Absent}]]
  BY CommandAssumption DEF Hput, StoreTyped
<1>2. \A k \in Key, g \in Name : hash'[k][g] = IF k = p /\ g = f THEN v ELSE hash[k][g] BY <1>1
<1>3. hash'[p][f] # Absent BY <1>1, <1>2
<1>4. Stored(p)' BY <1>3 DEF Stored, IsHashKey
<1>5. \A k \in Key : Stored(k) => Stored(k)'
  BY <1>1, <1>2 DEF Stored, IsSetKey, IsHashKey
<1>6. \A k \in Key : Stored(k)' => Stored(k) \/ k = p
  BY <1>1, <1>2 DEF Stored, IsSetKey, IsHashKey
<1> QED BY <1>1, <1>3, <1>4, <1>5, <1>6 DEF Grows

LEMMA SaddEffect ==
  ASSUME StoreTyped, NEW p \in Key, NEW n \in Name, Sadd(p, n)
  PROVE  /\ \A k \in Key : set'[k] = IF k = p THEN set[k] \cup {n} ELSE set[k]
         /\ Stored(p)' /\ Grows
         /\ \A k \in Key : Stored(k)' => Stored(k) \/ k = p
<1>1. /\ \A k \in Key : set'[k] = IF k = p THEN set[k] \cup {n} ELSE set[k]
      /\ UNCHANGED hash
  BY DEF Sadd, StoreTyped
<1>2. Stored(p)' BY <1>1 DEF Stored, IsSetKey
<1>3. Grows BY <1>1 DEF Grows, Stored, IsSetKey, IsHashKey
<1>4. \A k \in Key : Stored(k)' => Stored(k) \/ k = p BY <1>1 DEF Stored, IsSetKey, IsHashKey
<1> QED BY <1>1, <1>2, <1>3, <1>4

LEMMA KeepEffect ==
  ASSUME Keep
  PROVE  Grows /\ \A k \in Key : (Unlisted(k)' <=> Unlisted(k)) /\ (Hollow(k)' <=> Hollow(k))
BY DEF Keep, Grows, Unlisted, Hollow, Stored, IsSetKey, IsHashKey
-----------------------------------------------------------------------------
\* What a client relies on stays true while others write.
LEMMA ReadyStays ==
  ASSUME SchemaInv, Grows, NEW c \in Client, Ready(job[c]), job'[c] = job[c]
  PROVE  Ready(job[c])'
<1> DEFINE j == job[c]
<1>1. j \in Job /\ HasArguments(j) BY DEF SchemaInv, TypeInv, JobsGood
<1>2. j.pc = "val_hset" => Parent(j.key) \in Key
  BY <1>1, KeyParts DEF HasArguments, UpdatePC
<1>3. j.pc \in ClimbPC => j.at \in Key /\ Parent(j.at) \in Key
  BY <1>1, KeyParts DEF HasArguments
<1>4. Submitting(j) => Submitting(job[c])'
  <2> SUFFICES ASSUME Submitting(j) PROVE Submitting(job[c])' OBVIOUS
  <2>1. PICK d \in Document, n \in Nat : Rest(j.todo, d, n) /\ NamesListed(d, n)
    BY DEF Submitting
  <2>2. d \in Seq(Item) /\ Len(j.todo) \in Nat BY <1>1, CommandAssumption DEF Job
  <2>3. ASSUME NEW h \in 1 .. n, d[h].object PROVE d[h].name \in set'[d[h].at]
    <3>1. h \in 1 .. Len(d) BY <2>1, <2>2 DEF Rest
    <3>2. d[h] \in Item BY <2>2, <3>1
    <3>3. d[h].at \in Key BY <3>2 DEF Item
    <3> QED BY <2>1, <2>3, <3>3 DEF Grows, NamesListed
  <2>4. Rest(job'[c].todo, d, n) BY <2>1
  <2>5. NamesListed(d, n)' BY <2>3 DEF NamesListed
  <2> HIDE DEF j
  <2> QED BY <2>4, <2>5, Zenon DEF Submitting
<1> QED BY <1>2, <1>3, <1>4 DEF Ready, Grows, ClimbPC

\* A step of client c, in terms of what it leaves unlisted and hollow.
LEMMA ClientStep ==
  ASSUME WritersInv, SchemaInv', NEW c \in Client, NEW j, Go(c, j), Grows, Ready(job[c])',
         \A k \in Key : Unlisted(k)' => (Unlisted(k) /\ ~Climbing(c, k)) \/ Climbing(c, k)',
         \A k \in Key : Hollow(k)' => (Hollow(k) /\ ~Filling(c, k)) \/ Filling(c, k)'
  PROVE  WritersInv'
<1>1. \A b \in Client \ {c} : job'[b] = job[b]
  BY DEF WritersInv, SchemaInv, TypeInv, JobsGood, Go
<1>2. JobsReady' BY <1>1, ReadyStays DEF WritersInv, JobsReady
<1>3. OnlyClimbersUnlisted'
  <2> SUFFICES ASSUME NEW k \in Key, Unlisted(k)', ~Climbing(c, k)'
               PROVE  \E b \in Client : Climbing(b, k)'
    BY DEF OnlyClimbersUnlisted
  <2>1. PICK b \in Client : Climbing(b, k) BY DEF WritersInv, OnlyClimbersUnlisted
  <2>2. b # c BY <2>1
  <2> QED BY <1>1, <2>1, <2>2 DEF Climbing, At
<1>4. OnlySubmittedHollow'
  <2> SUFFICES ASSUME NEW k \in Key, Hollow(k)', ~Filling(c, k)'
               PROVE  \E b \in Client : Filling(b, k)'
    BY DEF OnlySubmittedHollow, Filling
  <2>1. PICK b \in Client : Filling(b, k) BY DEF WritersInv, OnlySubmittedHollow, Filling
  <2>2. b # c BY <2>1
  <2> QED BY <1>1, <2>1, <2>2 DEF Filling, InCall
<1> QED BY <1>2, <1>3, <1>4 DEF WritersInv
-----------------------------------------------------------------------------
LEMMA JobFacts ==
  ASSUME WritersInv, NEW c \in Client
  PROVE  /\ job[c] \in Job /\ HasArguments(job[c]) /\ CallConforms(job[c]) /\ Ready(job[c])
         /\ \A j : Go(c, j) => job'[c] = j
         /\ StoreTyped /\ CountsTyped
BY DEF WritersInv, SchemaInv, TypeInv, JobsGood, JobsConform, JobsReady, Go

LEMMA Rests ==
  ASSUME WritersInv, NEW c \in Client, NEW j, NEW ok, Go(c, Return(j, ok))
  PROVE  Ready(job[c])'
<1>1. job'[c] = Return(j, ok) BY JobFacts
<1>2. job'[c].pc = "idle" /\ job'[c].todo = <<>> BY <1>1 DEF Return, Idle
<1> QED BY <1>2 DEF Ready, AddPC, UpdatePC, ClimbPC

\* A client that neither climbs nor fills a document has nothing to account for.
LEMMA PlainStep ==
  ASSUME WritersInv, SchemaInv', NEW c \in Client, NEW j, Go(c, j), Keep, Ready(job[c])',
         job[c].pc \notin ClimbPC, job[c].todo = <<>> \/ job[c].pc = "idle"
  PROVE  WritersInv'
<1>1. \A k \in Key : ~Climbing(c, k) BY DEF Climbing, At, ClimbPC
<1>2. \A k \in Key : ~Filling(c, k) BY DEF Filling, InCall, ToSet
<1> QED BY <1>1, <1>2, KeepEffect, ClientStep

LEMMA UpdateKeeps ==
  ASSUME WritersInv, SchemaInv', NEW c \in Client, Update(c) PROVE WritersInv'
<1>1. PICK k \in UpdateKey, v \in Value :
        Call(c, [Idle EXCEPT !.pc = "upd_keys", !.op = "update", !.key = k, !.value = v])
  BY Zenon DEF Update
<1>2. job'[c].pc = "upd_keys" /\ job'[c].todo = <<>> /\ job'[c].value = v
  <2>1. job'[c] = [Idle EXCEPT !.pc = "upd_keys", !.op = "update", !.key = k, !.value = v]
    BY <1>1, JobFacts DEF Call
  <2> QED BY <2>1 DEF Idle
<1>3. Ready(job[c])' BY <1>2 DEF Ready, UpdatePC, ClimbPC, AddPC
<1>4. job[c].pc = "idle" BY <1>1 DEF Call, At
<1>5. PICK j : Go(c, j) /\ Keep BY <1>1 DEF Call, Keep
<1>6. job[c].pc \notin ClimbPC BY <1>4 DEF ClimbPC
<1> QED BY <1>3, <1>4, <1>5, <1>6, PlainStep

LEMMA AddConfigKeeps ==
  ASSUME WritersInv, SchemaInv', NEW c \in Client, AddConfig(c) PROVE WritersInv'
<1>1. PICK d \in Document : Call(c, [Idle EXCEPT !.pc = "add_probe", !.op = "add", !.todo = d])
  BY Zenon DEF AddConfig
<1>2. job'[c].pc = "add_probe" /\ job'[c].todo = d BY <1>1, JobFacts DEF Call, Idle
<1>3. Rest(job'[c].todo, d, 0) /\ NamesListed(d, 0)' /\ 0 \in Nat
  <2>1. d \in Seq(Item) /\ Len(d) \in Nat BY CommandAssumption
  <2> QED BY <1>2, <2>1 DEF Rest, NamesListed
<1>4. Submitting(job[c])' BY <1>3, Zenon DEF Submitting
<1>5. Ready(job[c])' BY <1>2, <1>4 DEF Ready, UpdatePC, ClimbPC, AddPC
<1>6. job[c].pc = "idle" BY <1>1 DEF Call, At
<1> QED BY <1>1, <1>5, <1>6, PlainStep DEF Call, Keep, ClimbPC
-----------------------------------------------------------------------------
(***************************************************************************)
(* Update.                                                                 *)
(***************************************************************************)
LEMMA HashValueKeeps ==
  ASSUME WritersInv, SchemaInv', NEW c \in Client, HashValue(c, job[c]), Keep,
         job[c].pc \in {"upd_keys", "upd_hexists"}, Stored(Parent(job[c].key))
  PROVE  WritersInv'
<1> DEFINE j == job[c]
<1>1. j \in Job /\ j.todo = <<>> /\ j.pc \notin ClimbPC /\ j.value \in Value
  BY JobFacts DEF Ready, AddPC, ClimbPC, UpdatePC
<1>2. CASE Go(c, Return(j, FALSE)) BY <1>1, <1>2, Rests, PlainStep
<1>3. CASE Go(c, [j EXCEPT !.pc = "val_hset"])
  <2>1. job'[c] = [j EXCEPT !.pc = "val_hset"] BY <1>3, JobFacts
  <2>2. /\ job'[c].pc = "val_hset" /\ job'[c].key = j.key /\ job'[c].todo = <<>>
        /\ job'[c].value \in Value
    BY <1>1, <2>1 DEF Job
  <2>3. Stored(Parent(job[c].key))' BY <2>2 DEF Keep, Stored, IsSetKey, IsHashKey
  <2>4. Ready(job[c])' BY <2>2, <2>3 DEF Ready, UpdatePC, ClimbPC, AddPC
  <2> QED BY <1>1, <1>3, <2>4, PlainStep
<1> QED BY <1>2, <1>3 DEF HashValue

LEMMA UpdKeysKeeps ==
  ASSUME WritersInv, SchemaInv', NEW c \in Client, NEW r \in Reply, UpdKeys(c, r)
  PROVE  WritersInv'
<1> DEFINE j == job[c]
<1>1. j \in Job /\ j.todo = <<>> /\ j.pc = "upd_keys" /\ j.key \in UpdateKey /\ j.key \in Key
      /\ j.value \in Value
  BY JobFacts DEF Ready, AddPC, UpdKeys, At, CallConforms, HasArguments, UpdatePC
<1>2. Keep BY DEF UpdKeys, Served, Executed
<1>3. CASE Go(c, [j EXCEPT !.pc = "upd_hexists"])
  <2>1. job'[c].pc = "upd_hexists" /\ job'[c].todo = <<>> /\ job'[c].value \in Value
    BY <1>1, <1>3, JobFacts DEF Job
  <2>2. Ready(job[c])' BY <2>1 DEF Ready, UpdatePC, ClimbPC, AddPC
  <2> QED BY <1>1, <1>2, <1>3, <2>2, PlainStep DEF ClimbPC
\* What Update sets is a field: an entry of its key is a root that holds it itself.
<1>4. CASE Stored(j.key) /\ HashValue(c, j)
  <2>1. j.key \in Object \cup Record
    BY <1>1, <1>4 DEF WritersInv, SchemaInv, StoreConforms, Stored
  <2>2. IsRoot(j.key) BY <1>1, <2>1, SchemaAssumption
  <2>3. Go(c, Return(j, FALSE)) BY <1>4, <2>2 DEF HashValue
  <2>4. Ready(job[c])' BY <2>3, Rests
  <2> QED BY <1>1, <1>2, <2>3, <2>4, PlainStep DEF ClimbPC
<1> QED BY <1>3, <1>4 DEF UpdKeys

LEMMA UpdHexistsKeeps ==
  ASSUME WritersInv, SchemaInv', NEW c \in Client, NEW r \in Reply, UpdHexists(c, r)
  PROVE  WritersInv'
<1> DEFINE j == job[c]  p == Parent(j.key)
<1>1. j \in Job /\ j.todo = <<>> /\ j.pc = "upd_hexists" /\ Base(j.key) \in Name
      /\ j.value \in Value
  BY JobFacts, KeyParts DEF Ready, AddPC, UpdHexists, At, HasArguments, UpdatePC
<1>2. Keep BY DEF UpdHexists, Served, Executed
<1>3. CASE hash[p][Base(j.key)] # Absent /\ HashValue(c, j)
  <2>1. Stored(p) BY <1>1, <1>3 DEF Stored, IsHashKey
  <2> QED BY <1>1, <1>2, <1>3, <2>1, HashValueKeeps
<1>4. CASE Go(c, [j EXCEPT !.pc = "add_hset"])
  <2>1. job'[c].pc = "add_hset" /\ job'[c].todo = <<>> /\ job'[c].value \in Value
    BY <1>1, <1>4, JobFacts DEF Job
  <2>2. Ready(job[c])' BY <2>1 DEF Ready, UpdatePC, ClimbPC, AddPC
  <2> QED BY <1>1, <1>2, <1>4, <2>2, PlainStep DEF ClimbPC
<1> QED BY <1>3, <1>4 DEF UpdHexists

\* The record has fields already, so nothing new is stored.
LEMMA ValHsetKeeps ==
  ASSUME WritersInv, SchemaInv', NEW c \in Client, NEW r \in Reply, ValHset(c, r)
  PROVE  WritersInv'
<1> DEFINE j == job[c]  p == Parent(j.key)
<1>1. /\ j \in Job /\ j.todo = <<>> /\ j.pc = "val_hset" /\ Stored(p)
      /\ j.key \in Key /\ j.value \in Value
  BY JobFacts DEF Ready, AddPC, ValHset, At, HasArguments, UpdatePC
<1>2. HashFits(p)
  <2>1. NextFits(j) BY <1>1, Fitting DEF WritersInv
  <2> QED BY <1>1, <2>1 DEF NextFits, AddPC
<1>3. p \in Key /\ Base(j.key) \in Name BY <1>1, KeyParts
<1>4. Hput(p, Base(j.key), j.value)
  BY <1>2, Answered, JobFacts DEF ValHset, Served, Executed, HashFits
<1>5. UNCHANGED set /\ Grows /\ \A k \in Key : Stored(k)' => Stored(k)
  BY <1>1, <1>3, <1>4, PutEffect, JobFacts
<1>6. \A k \in Key : (Unlisted(k)' => Unlisted(k)) /\ (Hollow(k)' => Hollow(k))
  BY <1>5 DEF Unlisted, Hollow, Grows
<1>7. \A k \in Key : ~Climbing(c, k) /\ ~Filling(c, k)
  BY <1>1 DEF Climbing, Filling, At, ToSet
<1>8. Ready(job[c])' BY Rests DEF ValHset
<1> QED BY <1>5, <1>6, <1>7, <1>8, ClientStep DEF ValHset

(***************************************************************************)
(* UpdateParent goes on with the key j.at, the one that may be unlisted    *)
(* now, or ends at a root.                                                 *)
(***************************************************************************)
LEMMA ClimbKeeps ==
  ASSUME WritersInv, SchemaInv', NEW c \in Client, NEW j \in Job, Climb(c, j), Grows,
         j.todo = <<>>, Stored(j.at)',
         \A k \in Key : Unlisted(k)' => (Unlisted(k) /\ ~Climbing(c, k)) \/ k = j.at,
         \A k \in Key : Hollow(k)' => (Hollow(k) /\ ~Filling(c, k))
  PROVE  WritersInv'
<1>1. CASE IsRoot(j.at) /\ Go(c, Return(j, j.ok))
  <2>1. ~Unlisted(j.at)' BY <1>1 DEF Unlisted
  <2> QED BY <1>1, <2>1, Rests, ClientStep
<1>2. CASE ~IsRoot(j.at) /\ Go(c, [j EXCEPT !.pc = "climb_sadd"])
  <2>1. job'[c] = [j EXCEPT !.pc = "climb_sadd"] BY <1>2, JobFacts
  <2>2. job'[c].pc = "climb_sadd" /\ job'[c].at = j.at /\ job'[c].todo = <<>> BY <2>1 DEF Job
  <2>3. Ready(job[c])' BY <1>2, <2>2 DEF Ready, UpdatePC, ClimbPC, AddPC
  <2>4. Climbing(c, j.at)' BY <2>2 DEF Climbing, At
  <2> QED BY <1>2, <2>3, <2>4, ClientStep
<1> QED BY <1>1, <1>2 DEF Climb

LEMMA AddHsetKeeps ==
  ASSUME WritersInv, SchemaInv', NEW c \in Client, NEW r \in Reply, AddHset(c, r)
  PROVE  WritersInv'
<1> DEFINE j == job[c]
<1>0. PICK p : p = Parent(j.key) OBVIOUS
<1> DEFINE n == [j EXCEPT !.at = p, !.ok = r.ok]
<1>1. /\ j \in Job /\ j.todo = <<>> /\ j.pc = "add_hset" /\ j.key \in Key /\ j.value \in Value
  BY JobFacts DEF Ready, AddPC, AddHset, At, HasArguments, UpdatePC
<1>2. HashFits(p)
  <2>1. NextFits(j) BY <1>1, Fitting DEF WritersInv
  <2> QED BY <1>0, <1>1, <2>1 DEF NextFits, AddPC
<1>3. p \in Key /\ Base(j.key) \in Name BY <1>0, <1>1, KeyParts
<1>4. Hput(p, Base(j.key), j.value)
  BY <1>0, <1>2, Answered, JobFacts DEF AddHset, Served, Executed, HashFits
<1>5. UNCHANGED set /\ Grows /\ Stored(p)' /\ \A k \in Key : Stored(k)' => Stored(k) \/ k = p
  BY <1>1, <1>3, <1>4, PutEffect, JobFacts
<1>6. \A k \in Key : (Unlisted(k)' => Unlisted(k) \/ k = p) /\ (Hollow(k)' => Hollow(k))
  BY <1>5 DEF Unlisted, Hollow, Grows
<1>7. \A k \in Key : ~Climbing(c, k) /\ ~Filling(c, k)
  BY <1>1 DEF Climbing, Filling, At, ToSet
<1>8. n \in Job /\ n.at = p /\ n.todo = <<>> BY <1>1, <1>3 DEF Job, Reply
<1>9. Climb(c, n) BY <1>0 DEF AddHset
<1> HIDE DEF n
<1> QED BY <1>5, <1>6, <1>7, <1>8, <1>9, ClimbKeeps

\* SADD lists the key; its parent is stored now, and whoever climbs from it is this client.
LEMMA ClimbSaddKeeps ==
  ASSUME WritersInv, SchemaInv', NEW c \in Client, NEW r \in Reply, ClimbSadd(c, r)
  PROVE  WritersInv'
<1>0. PICK j : j = job[c] OBVIOUS
<1>1. /\ j \in Job /\ j.todo = <<>> /\ j.pc = "climb_sadd" /\ j.at \in Key
      /\ ~IsRoot(j.at) /\ Stored(j.at)
  BY <1>0, JobFacts DEF Ready, AddPC, ClimbSadd, At, HasArguments, ClimbPC
<1>2. PICK p \in Key : p = Parent(j.at) BY <1>1, KeyParts
<1>3. PICK n \in Name : n = Base(j.at) BY <1>1, KeyParts
<1>4. SetFits(p)
  <2>1. NextFits(j) BY <1>0, <1>1, Fitting DEF WritersInv
  <2> QED BY <1>1, <1>2, <2>1 DEF NextFits, AddPC
<1>5. Sadd(p, n)
  BY <1>0, <1>2, <1>3, <1>4, Answered, JobFacts DEF ClimbSadd, Served, Executed, SetFits
<1>6. /\ \A k \in Key : set'[k] = IF k = p THEN set[k] \cup {n} ELSE set[k]
      /\ Stored(p)' /\ Grows
      /\ \A k \in Key : Stored(k)' => Stored(k) \/ k = p
  BY <1>5, SaddEffect, JobFacts
<1>7. job'[c] = [j EXCEPT !.pc = "climb_keys", !.ok = @ /\ r.ok] BY <1>0, JobFacts DEF ClimbSadd
<1>8. job'[c].pc = "climb_keys" /\ job'[c].at = j.at /\ job'[c].todo = <<>>
  BY <1>1, <1>7 DEF Job
<1>9. Ready(job[c])' BY <1>2, <1>6, <1>8 DEF Ready, UpdatePC, ClimbPC, AddPC
<1>10. ASSUME NEW k \in Key, Unlisted(k)'
       PROVE  (Unlisted(k) /\ ~Climbing(c, k)) \/ Climbing(c, k)'
  <2>1. CASE k = p BY <1>2, <1>8, <2>1 DEF Climbing, At
  <2>2. CASE k # p
    <3>1. ~IsRoot(k) /\ Stored(k) /\ Parent(k) \in Key BY <1>6, <1>10, <2>2, KeyParts DEF Unlisted
    <3>2. Base(k) \notin set[Parent(k)] BY <1>6, <1>10, <3>1 DEF Unlisted
    <3>3. k # j.at BY <1>2, <1>3, <1>6, <1>10 DEF Unlisted
    <3> QED BY <1>0, <1>1, <3>1, <3>2, <3>3 DEF Unlisted, Climbing, At
  <2> QED BY <2>1, <2>2
<1>11. ASSUME NEW k \in Key, Hollow(k)' PROVE Hollow(k) /\ ~Filling(c, k)
  <2>1. ~IsRoot(k) /\ Parent(k) \in Key /\ ~Stored(k) BY <1>6, <1>11, KeyParts DEF Hollow, Grows
  <2>2. ASSUME Base(k) \notin set[Parent(k)] PROVE FALSE
    <3>1. Parent(k) = p /\ Base(k) = n BY <1>6, <1>11, <2>1, <2>2 DEF Hollow
    <3>2. k = j.at BY <1>1, <1>2, <1>3, <2>1, <3>1, Rebuilt
    <3> QED BY <1>1, <2>1, <3>2
  <2> QED BY <1>0, <1>1, <2>1, <2>2 DEF Hollow, Filling, ToSet
<1> QED BY <1>0, <1>6, <1>9, <1>10, <1>11, ClientStep DEF ClimbSadd

LEMMA ClimbKeysKeeps ==
  ASSUME WritersInv, SchemaInv', NEW c \in Client, NEW r \in Reply, ClimbKeys(c, r)
  PROVE  WritersInv'
<1>0. PICK j : j = job[c] OBVIOUS
<1>1. /\ j \in Job /\ j.todo = <<>> /\ j.pc = "climb_keys" /\ j.at \in Key
      /\ Stored(Parent(j.at))
  BY <1>0, JobFacts DEF Ready, AddPC, ClimbKeys, At, HasArguments, ClimbPC
<1>2. PICK p \in Key : p = Parent(j.at) BY <1>1, KeyParts
<1>3. Keep /\ r.ok BY Answered, JobFacts DEF ClimbKeys, Served, Executed
<1> DEFINE n == [j EXCEPT !.at = p]
<1>4. Climb(c, n) BY <1>0, <1>1, <1>2, <1>3 DEF ClimbKeys
<1>5. n \in Job /\ n.at = p /\ n.todo = <<>> BY <1>1 DEF Job
<1> HIDE DEF n
<1>6. Stored(p)' BY <1>1, <1>2, <1>3 DEF Keep, Stored, IsSetKey, IsHashKey
<1>7. Grows /\ \A k \in Key : (Unlisted(k)' <=> Unlisted(k)) /\ (Hollow(k)' <=> Hollow(k))
  BY <1>3, KeepEffect
<1>8. \A k \in Key : ~Filling(c, k) /\ (Climbing(c, k) => k = p)
  BY <1>0, <1>1, <1>2 DEF Climbing, Filling, At, ToSet
<1> QED BY <1>4, <1>5, <1>6, <1>7, <1>8, ClimbKeeps
-----------------------------------------------------------------------------
(***************************************************************************)
(* AddConfig.                                                              *)
(***************************************************************************)
\* AddConfig is never at a member whose key is not listed.
LEMMA MemberListed ==
  ASSUME NEW j \in Job, j.todo # <<>>, Submitting(j)
  PROVE  LET k == Head(j.todo).at IN IsRoot(k) \/ Base(k) \in set[Parent(k)]
<1>0. j.todo \in Seq(Item) BY DEF Job
<1>1. PICK d \in Document, n \in Nat : Rest(j.todo, d, n) /\ NamesListed(d, n) BY DEF Submitting
<1>2. /\ n + 1 \in 1 .. Len(d) /\ d[n + 1] = Head(j.todo) /\ Len(d) \in Nat
      /\ \A m \in 1 .. Len(d) : d[m] \in Item
  BY <1>0, <1>1, NextMember
<1>3. IsRoot(d[n + 1].at) \/
        \E h \in 1 .. (n + 1) - 1 : d[h].object /\ Child(d[h].at, d[h].name) = d[n + 1].at
  BY <1>2, DocumentAssumption
<1>4. ASSUME NEW h \in 1 .. (n + 1) - 1, d[h].object, Child(d[h].at, d[h].name) = d[n + 1].at
      PROVE  Base(d[n + 1].at) \in set[Parent(d[n + 1].at)]
  <2>1. h \in 1 .. n /\ h \in 1 .. Len(d) BY <1>2
  <2>2. d[h].at \in Key /\ d[h].name \in Name BY <1>2, <2>1 DEF Item
  <2>3. d[h].name \in set[d[h].at] BY <1>1, <1>4, <2>1 DEF NamesListed
  <2> QED BY <1>4, <2>2, <2>3, ChildParts
<1> QED BY <1>2, <1>3, <1>4

\* AddConfig goes on behind a member whose name, if it has one, is listed.
LEMMA MemberDone ==
  ASSUME WritersInv, NEW c \in Client, NEW j \in Job, j = job[c], j.todo # <<>>, NEW ok,
         Submitting(j), Grows, Go(c, NextItem(j, ok)),
         Head(j.todo).object => Head(j.todo).name \in set'[Head(j.todo).at]
  PROVE  /\ Ready(job[c])'
         /\ \A x \in ToSet(Tail(j.todo)) : Filling(c, x.at)'
         /\ \A k \in Key : Filling(c, k) => Filling(c, k)' \/ k = Head(j.todo).at
<1>0. PICK s \in Seq(Item) : s = Tail(j.todo) BY SeqParts DEF Job
<1>1. PICK d \in Document, n \in Nat : Rest(j.todo, d, n) /\ NamesListed(d, n) BY DEF Submitting
<1>2. /\ d[n + 1] = Head(j.todo) /\ Len(d) \in Nat /\ n + 1 \in 1 .. Len(d)
      /\ Rest(s, d, n + 1) /\ \A m \in 1 .. Len(d) : d[m] \in Item
  <2>1. j.todo \in Seq(Item) BY DEF Job
  <2> QED BY <1>0, <1>1, <2>1, NextMember
<1>3. NamesListed(d, n + 1)'
  <2> SUFFICES ASSUME NEW h \in 1 .. n + 1, d[h].object PROVE d[h].name \in set'[d[h].at]
    BY DEF NamesListed
  <2>1. CASE h = n + 1 BY <1>2, <2>1
  <2>2. CASE h \in 1 .. n
    <3>1. h \in 1 .. Len(d) BY <1>2, <2>2
    <3>2. d[h].at \in Key BY <1>2, <3>1 DEF Item
    <3> QED BY <1>1, <2>2, <3>2 DEF Grows, NamesListed
  <2> QED BY <2>1, <2>2
<1>4. /\ job'[c].todo = s
      /\ job'[c].pc = IF s = <<>> THEN "idle" ELSE "add_probe"
  <2> DEFINE k == [j EXCEPT !.ok = @ /\ (IsRoot(Head(j.todo).at) => ok), !.todo = Tail(@)]
  <2>1. job'[c] = IF k.todo = <<>> THEN Return(k, k.ok) ELSE [k EXCEPT !.pc = "add_probe"]
    <3>1. job'[c] = NextItem(j, ok) BY JobFacts
    <3> QED BY <3>1 DEF NextItem
  <2>2. k.todo = s BY <1>0 DEF Job
  <2>3. [k EXCEPT !.pc = "add_probe"].todo = s /\ [k EXCEPT !.pc = "add_probe"].pc = "add_probe"
    BY <1>0 DEF Job
  <2>4. Return(k, k.ok).todo = <<>> /\ Return(k, k.ok).pc = "idle" BY DEF Return, Idle
  <2> HIDE DEF k
  <2> QED BY <2>1, <2>2, <2>3, <2>4
<1>5. Submitting(job[c])'
  <2>1. Rest(job'[c].todo, d, n + 1) /\ n + 1 \in Nat BY <1>2, <1>4
  <2> QED BY <1>3, <2>1, Zenon DEF Submitting
<1>6. Ready(job[c])' BY <1>4, <1>5 DEF Ready, UpdatePC, ClimbPC, AddPC
<1>7. ASSUME NEW x \in ToSet(s) PROVE Filling(c, x.at)'
  <2>1. s # <<>> BY <1>7 DEF ToSet
  <2> QED BY <1>4, <1>7, <2>1 DEF Filling, InCall
<1>8. \A x \in ToSet(j.todo) : x = Head(j.todo) \/ x \in ToSet(s)
  <2>1. j.todo \in Seq(Item) BY DEF Job
  <2>2. /\ Len(j.todo) \in Nat /\ Len(s) = Len(j.todo) - 1 /\ Head(j.todo) = j.todo[1]
        /\ \A m \in 1 .. Len(s) : s[m] = j.todo[m + 1]
    BY <1>0, <2>1, HeadTailProperties
  <2>3. DOMAIN j.todo = 1 .. Len(j.todo) /\ DOMAIN s = 1 .. Len(s) BY <2>1
  <2>4. ASSUME NEW m \in 1 .. Len(j.todo), m # 1 PROVE j.todo[m] \in ToSet(s)
    <3>1. m - 1 \in 1 .. Len(s) /\ (m - 1) + 1 = m BY <2>2, <2>4
    <3>2. s[m - 1] = j.todo[m] BY <2>2, <3>1
    <3> QED BY <2>3, <3>1, <3>2 DEF ToSet
  <2> QED BY <2>2, <2>3, <2>4 DEF ToSet
<1>9. \A k \in Key : Filling(c, k) => Filling(c, k)' \/ k = Head(j.todo).at
  BY <1>7, <1>8 DEF Filling
<1> QED BY <1>0, <1>6, <1>7, <1>9

LEMMA AddFacts ==
  ASSUME WritersInv, NEW c \in Client, NEW j, j = job[c], j.pc \in AddPC
  PROVE  /\ j \in Job /\ j.todo \in Seq(Item) /\ j.todo # <<>> /\ Submitting(j)
         /\ Head(j.todo) \in Item /\ Fits(Head(j.todo))
         /\ \A k \in Key : ~Climbing(c, k)
<1>1. j \in Job /\ j.todo # <<>> /\ Submitting(j)
  BY JobFacts DEF HasArguments, Ready
<1>2. j.todo \in Seq(Item) /\ Head(j.todo) \in Item BY <1>1, SeqParts DEF Job
<1>3. Fits(Head(j.todo))
  <2>1. NextFits(j) BY Fitting DEF AddPC, WritersInv
  <2> QED BY <2>1 DEF NextFits, AddPC
<1>4. \A k \in Key : ~Climbing(c, k) BY DEF Climbing, At, AddPC
<1> QED BY <1>1, <1>2, <1>3, <1>4

LEMMA AddProbeKeeps ==
  ASSUME WritersInv, SchemaInv', NEW c \in Client, NEW r \in Reply, AddProbe(c, r)
  PROVE  WritersInv'
<1>0. PICK j : j = job[c] OBVIOUS
<1>1. PICK i \in Item : i = Head(j.todo) BY <1>0, AddFacts DEF AddProbe, At, AddPC
<1>2. j.pc = "add_probe" BY <1>0 DEF AddProbe, At
<1>3. /\ j \in Job /\ j.todo \in Seq(Item) /\ j.todo # <<>> /\ Submitting(j)
      /\ Fits(i) /\ \A k \in Key : ~Climbing(c, k)
  BY <1>0, <1>1, <1>2, AddFacts DEF AddPC
<1>4. Keep /\ r.ok
  <2>1. Fits(i) \in BOOLEAN BY DEF Fits, SetFits, HashFits
  <2>2. r \in Outcome(TRUE) BY <1>0, <1>1, <1>3, <2>1 DEF AddProbe, Served, Executed
  <2>3. Keep BY DEF AddProbe, Served, Executed
  <2> QED BY <2>2, <2>3, Answered, JobFacts
<1>5. Grows /\ \A k \in Key : (Unlisted(k)' <=> Unlisted(k)) /\ (Hollow(k)' <=> Hollow(k))
  BY <1>4, KeepEffect
<1>6. CASE Present(i) /\ Go(c, NextItem(j, FALSE))
  <2>1. i.object => i.name \in set'[i.at] BY <1>4, <1>6 DEF Present, Keep
  <2>2. Stored(i.at) BY <1>6 DEF Present, Stored, IsSetKey, IsHashKey, Item
  <2>3. Ready(job[c])' /\ \A k \in Key : Filling(c, k) => Filling(c, k)' \/ k = i.at
    BY <1>0, <1>1, <1>3, <1>5, <1>6, <2>1, MemberDone
  <2>4. \A k \in Key : Hollow(k) => k # i.at BY <2>2 DEF Hollow
  <2> QED BY <1>3, <1>5, <1>6, <2>3, <2>4, ClientStep
<1>7. CASE Go(c, [j EXCEPT !.pc = "add_write"])
  <2>1. job'[c] = [j EXCEPT !.pc = "add_write"] BY <1>7, JobFacts
  <2>2. job'[c].pc = "add_write" /\ job'[c].todo = j.todo BY <1>3, <2>1 DEF Job
  <2>3. Submitting(job[c])' BY <1>3, <1>4, <2>2 DEF Submitting, NamesListed, Keep
  <2>4. Ready(job[c])' BY <2>2, <2>3 DEF Ready, UpdatePC, ClimbPC, AddPC
  <2>5. \A k \in Key : Filling(c, k) => Filling(c, k)' BY <1>0, <2>2 DEF Filling, InCall
  <2> QED BY <1>3, <1>5, <1>7, <2>4, <2>5, ClientStep
<1> QED BY <1>0, <1>1, <1>4, <1>6, <1>7 DEF AddProbe

(***************************************************************************)
(* The member is stored below a key that is listed.  A name that is new    *)
(* has what is below it still to come: in the document it is behind.       *)
(***************************************************************************)
LEMMA NewNameFilled ==
  ASSUME WritersInv, NEW j \in Job, j.todo # <<>>, Submitting(j), NEW i \in Item,
         i = Head(j.todo), i.object, i.name \notin set[i.at]
  PROVE  \E x \in ToSet(Tail(j.todo)) : x.at = Child(i.at, i.name)
<1>0. j.todo \in Seq(Item) BY DEF Job
<1>1. PICK d \in Document, n \in Nat : Rest(j.todo, d, n) /\ NamesListed(d, n) BY DEF Submitting
<1>2. PICK s : s = Tail(j.todo) OBVIOUS
<1>3. /\ n + 1 \in 1 .. Len(d) /\ d[n + 1] = i /\ Len(d) \in Nat
      /\ \A m \in 1 .. Len(d) : d[m] \in Item
      /\ \A m \in 1 .. Len(d) : m \in 1 .. n + 1 \/ d[m] \in ToSet(s)
  BY <1>0, <1>1, <1>2, NextMember
<1>4. PICK m \in 1 .. Len(d) : d[m].at = Child(i.at, i.name)
  <2>1. d \in Seq(Item) BY CommandAssumption
  <2>2. DOMAIN d = 1 .. Len(d) BY <2>1
  <2>3. i \in ToSet(d) BY <1>3, <2>2 DEF ToSet
  <2>4. PICK x \in ToSet(d) : x.at = Child(i.at, i.name) BY <2>3, FilledAssumption
  <2> QED BY <2>2, <2>4 DEF ToSet
<1>5. i.at \in Key /\ i.name \in Name BY DEF Item
<1>6. PICK h \in 1 .. m - 1 : d[h].object /\ Child(d[h].at, d[h].name) = d[m].at
  <2>1. ~IsRoot(d[m].at) BY <1>4, <1>5, ChildParts
  <2> QED BY <2>1, DocumentAssumption
<1>7. h \in 1 .. Len(d) /\ h < m BY <1>3
<1>8. d[h].at = i.at /\ d[h].name = i.name
  <2>1. d[h].at \in Key /\ d[h].name \in Name BY <1>3, <1>7 DEF Item
  <2> QED BY <1>4, <1>5, <1>6, <2>1, ChildParts
<1>9. h \notin 1 .. n BY <1>1, <1>6, <1>8 DEF NamesListed
<1>10. m \notin 1 .. n + 1 BY <1>3, <1>7, <1>9
<1>11. d[m] \in ToSet(s) BY <1>3, <1>10
<1> QED BY <1>2, <1>4, <1>11

LEMMA AddWriteKeeps ==
  ASSUME WritersInv, SchemaInv', NEW c \in Client, NEW r \in Reply, AddWrite(c, r)
  PROVE  WritersInv'
<1>0. PICK j : j = job[c] OBVIOUS
<1>1. PICK i \in Item : i = Head(j.todo) BY <1>0, AddFacts DEF AddWrite, At, AddPC
<1>2. j.pc = "add_write" BY <1>0 DEF AddWrite, At
<1>3. /\ j \in Job /\ j.todo \in Seq(Item) /\ j.todo # <<>> /\ Submitting(j)
      /\ Fits(i) /\ \A k \in Key : ~Climbing(c, k)
  BY <1>0, <1>1, <1>2, AddFacts DEF AddPC
<1>4. PICK p \in Key : p = i.at BY DEF Item
<1>5. PICK n \in Name : n = i.name BY DEF Item
<1>6. Submit(i) /\ Go(c, NextItem(j, i.object /\ r.ok))
  <2>1. Fits(i) \in BOOLEAN BY DEF Fits, SetFits, HashFits
  <2>2. r \in Outcome(TRUE) BY <1>0, <1>1, <1>3, <2>1 DEF AddWrite, Served, Executed
  <2>3. r.done BY <2>2, Answered, JobFacts
  <2> QED BY <1>0, <1>1, <2>3 DEF AddWrite, Served, Executed
<1>7. IsRoot(p) \/ Base(p) \in set[Parent(p)] BY <1>1, <1>3, <1>4, MemberListed
<1>8. /\ Stored(p)' /\ Grows /\ \A k \in Key : Stored(k)' => Stored(k) \/ k = p
      /\ \A k \in Key : set'[k] = IF i.object /\ k = p THEN set[k] \cup {n} ELSE set[k]
  <2>1. CASE i.object
    <3>1. Sadd(p, n) BY <1>4, <1>5, <1>6, <2>1 DEF Submit
    <3> QED BY <2>1, <3>1, SaddEffect, JobFacts
  <2>2. CASE ~i.object
    <3>1. i.value \in Value /\ Hput(p, n, i.value) BY <1>4, <1>5, <1>6, <2>2 DEF Submit, Item
    <3> QED BY <2>2, <3>1, PutEffect, JobFacts
  <2> QED BY <2>1, <2>2
<1>9. /\ Ready(job[c])' /\ \A x \in ToSet(Tail(j.todo)) : Filling(c, x.at)'
      /\ \A k \in Key : Filling(c, k) => Filling(c, k)' \/ k = p
  <2>1. i.object => i.name \in set'[i.at] BY <1>4, <1>5, <1>8
  <2> QED BY <1>0, <1>1, <1>3, <1>4, <1>6, <1>8, <2>1, MemberDone
<1>10. ASSUME NEW k \in Key, Unlisted(k)' PROVE Unlisted(k)
  <2>1. ~IsRoot(k) /\ Parent(k) \in Key BY <1>10, KeyParts DEF Unlisted
  <2>2. Base(k) \notin set[Parent(k)] BY <1>8, <1>10, <2>1 DEF Unlisted
  <2>3. Stored(k) BY <1>7, <1>8, <1>10, <2>1, <2>2 DEF Unlisted
  <2> QED BY <2>1, <2>2, <2>3 DEF Unlisted
<1>11. ASSUME NEW k \in Key, Hollow(k)'
       PROVE  (Hollow(k) /\ ~Filling(c, k)) \/ Filling(c, k)'
  <2>1. ~IsRoot(k) /\ Parent(k) \in Key /\ ~Stored(k) /\ k # p
    BY <1>8, <1>11, KeyParts DEF Hollow, Grows
  <2>2. CASE Base(k) \in set[Parent(k)] BY <1>9, <2>1, <2>2 DEF Hollow
  <2>3. CASE Base(k) \notin set[Parent(k)]
    <3>1. i.object /\ Parent(k) = p /\ Base(k) = n BY <1>8, <1>11, <2>1, <2>3 DEF Hollow
    <3>2. k = Child(p, n) BY <2>1, <3>1, Rebuilt
    <3>3. PICK x \in ToSet(Tail(j.todo)) : x.at = k
      BY <1>1, <1>3, <1>4, <1>5, <2>3, <3>1, <3>2, NewNameFilled
    <3> QED BY <1>9, <3>3
  <2> QED BY <2>2, <2>3
<1> QED BY <1>3, <1>6, <1>8, <1>9, <1>10, <1>11, ClientStep
-----------------------------------------------------------------------------
(***************************************************************************)
(* The document that was there before the clients started is complete.     *)
(***************************************************************************)
LEMMA InitWrites == Init => WritersInv
<1> SUFFICES ASSUME Init PROVE WritersInv OBVIOUS
<1>1. SchemaInv BY InitTypes, InitConforms DEF SchemaInv
<1>2. JobsReady
  <2>1. \A c \in Client : job[c] = Idle BY DEF Init
  <2>2. Idle.pc = "idle" /\ Idle.todo = <<>> BY DEF Idle
  <2> QED BY <2>1, <2>2 DEF JobsReady, Ready, UpdatePC, ClimbPC, AddPC
<1>3. ASSUME NEW k \in Key PROVE ~Unlisted(k)
  <2> SUFFICES ASSUME Stored(k), ~IsRoot(k) PROVE Base(k) \in set[Parent(k)] BY DEF Unlisted
  <2>1. PICK i \in ToSet(Seed) : i.at = k BY SeedStored
  <2>2. Seed \in Seq(Item) /\ Len(Seed) \in Nat /\ DOMAIN Seed = 1 .. Len(Seed)
    BY CommandAssumption
  <2>3. PICK m \in 1 .. Len(Seed) : Seed[m] = i BY <2>2 DEF ToSet
  <2>4. PICK h \in 1 .. m - 1 : Seed[h].object /\ Child(Seed[h].at, Seed[h].name) = k
    BY <2>1, <2>3, DocumentAssumption
  <2>5. h \in 1 .. Len(Seed) BY <2>2
  <2>6. Seed[h] \in ToSet(Seed) /\ Seed[h] \in Item BY <2>2, <2>5 DEF ToSet
  <2>7. Seed[h].at \in Key /\ Seed[h].name \in Name BY <2>6 DEF Item
  <2>8. Parent(k) = Seed[h].at /\ Base(k) = Seed[h].name BY <2>4, <2>7, ChildParts
  <2> QED BY <2>4, <2>6, <2>7, <2>8, SeedStored
<1>4. ASSUME NEW k \in Key PROVE ~Hollow(k)
  <2> SUFFICES ASSUME ~IsRoot(k), Base(k) \in set[Parent(k)] PROVE Stored(k) BY DEF Hollow
  <2>1. Parent(k) \in Key /\ Base(k) \in Name BY KeyParts
  <2>2. PICK i \in ToSet(Seed) : i.object /\ i.at = Parent(k) /\ i.name = Base(k)
    BY <2>1, SeedStored
  <2>3. PICK x \in ToSet(Seed) : x.at = Child(i.at, i.name) BY <2>2, FilledAssumption
  <2>4. x.at = k BY <2>2, <2>3, Rebuilt
  <2> QED BY <2>4, SeedStored
<1> QED BY <1>1, <1>2, <1>3, <1>4 DEF WritersInv, OnlyClimbersUnlisted, OnlySubmittedHollow

\* A client that only writes is at no step of a Delete and makes no other calls.
LEMMA WritersNextKeeps == ASSUME WritersInv, [WritersNext]_vars PROVE WritersInv'
<1>1. [Next]_vars BY DEF WritersNext, WriteStep, Next, Step, Command
<1>2. SchemaInv' BY <1>1, NextConforms DEF WritersInv
<1>3. CASE UNCHANGED vars
  <2>1. Grows /\ \A k \in Key : (Unlisted(k)' <=> Unlisted(k)) /\ (Hollow(k)' <=> Hollow(k))
    BY <1>3, KeepEffect DEF vars, Keep
  <2>2. JobsReady' BY <1>3, <2>1, ReadyStays DEF vars, WritersInv, JobsReady
  <2>3. OnlyClimbersUnlisted' /\ OnlySubmittedHollow'
    BY <1>3, <2>1
    DEF vars, WritersInv, OnlyClimbersUnlisted, OnlySubmittedHollow, Climbing, At, InCall
  <2> QED BY <1>2, <2>2, <2>3 DEF WritersInv
<1>4. ASSUME NEW c \in Client, Update(c) \/ AddConfig(c) PROVE WritersInv'
  BY <1>2, <1>4, UpdateKeeps, AddConfigKeeps
<1>5. ASSUME NEW c \in Client, NEW r \in Reply, Writing(c, r) PROVE WritersInv'
  BY <1>2, <1>5, UpdKeysKeeps, UpdHexistsKeeps, ValHsetKeeps, AddHsetKeeps, ClimbSaddKeeps,
     ClimbKeysKeeps, AddProbeKeeps, AddWriteKeeps DEF Writing
<1> QED BY <1>3, <1>4, <1>5 DEF WritersNext, WriteStep

LEMMA AlwaysWritersInv == WritersSpec => []WritersInv
BY InitWrites, WritersNextKeeps, PTL DEF WritersSpec

(***************************************************************************)
(* However many clients write, a stored key that its parent does not list  *)
(* is one that an UpdateParent is about to list: no client relies on a key *)
(* that nobody is going to list.                                           *)
(***************************************************************************)
THEOREM WritersListAll == WritersSpec => []OnlyClimbersUnlisted
BY AlwaysWritersInv, PTL DEF WritersInv

(***************************************************************************)
(* However many clients write, a listed name with nothing behind it is one *)
(* whose content an AddConfig has still to submit.                         *)
(***************************************************************************)
THEOREM WritersFillAll == WritersSpec => []OnlySubmittedHollow
BY AlwaysWritersInv, PTL DEF WritersInv
=============================================================================
