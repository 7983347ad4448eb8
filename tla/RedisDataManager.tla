-------------------------- MODULE RedisDataManager --------------------------
(***************************************************************************)
(* RedisDataManager: the clients that read and write a configuration held  *)
(* by one Redis server.  A call is a sequence of Redis commands and any    *)
(* number of client processes interleave between two commands, so a step   *)
(* of this module is one command of one client with the local code up to   *)
(* the client's next command.                                              *)
(*                                                                         *)
(* Redis keeps two kinds of entries: an inner key is a set of the names    *)
(* below it, and a key whose values are leaves is a hash from field to     *)
(* value.  Redis drops a set or hash that gets empty, so an empty one is   *)
(* an absent one, and refuses (WRONGTYPE) a command of the other kind.     *)
(***************************************************************************)
EXTENDS ConfigKeys

CONSTANTS
  Client,       \* the processes that hold a RedisDataManager
  Value,        \* the values of fields
  Absent,       \* no value
  UpdateKey,    \* the keys passed to Update
  DeleteKey,    \* the keys passed to Delete
  Document,     \* the documents passed to AddConfig
  Seed,         \* the document loaded before the clients start
  MaxOps,       \* bound: calls of all clients together
  MaxFaults,    \* bound: failed or unanswered commands, and killed clients
  MaxStack      \* bound: nested RemoveKey calls the process stack can hold

(***************************************************************************)
(* A JSON document in the order json_scan visits it: one item per member,  *)
(* at = the prefix, name = the member, object = it has members itself.     *)
(* Strict JSON without a root-level scalar, which rapidjson would assert.  *)
(***************************************************************************)
Item == [at : Key, name : Name, object : BOOLEAN, value : Value]

ASSUME CommandAssumption ==
  /\ Absent \notin Value
  /\ UpdateKey \subseteq Key
  /\ DeleteKey \subseteq Key
  /\ Document \subseteq Seq(Item) \ {<<>>}
  /\ Seed \in Seq(Item)
  /\ MaxOps \in Nat /\ MaxFaults \in Nat /\ MaxStack \in Nat

\* json_scan visits a member before what is below it.
ASSUME DocumentAssumption == \A d \in Document \cup {Seed} : \A i \in 1 .. Len(d) :
  IsRoot(d[i].at) \/ \E h \in 1 .. i - 1 : d[h].object /\ Child(d[h].at, d[h].name) = d[i].at

VARIABLES
  set,        \* Redis: the members of each set
  hash,       \* Redis: the value of each field of each hash
  job,        \* per client: where its current call stands
  updates,    \* per client: the messages its current or last call has stored
  flushing,   \* the clients whose FLUSHALL is sent and not yet executed
  ops,        \* calls made so far
  faults      \* faults so far

vars == <<set, hash, job, updates, flushing, ops, faults>>
-----------------------------------------------------------------------------
(***************************************************************************)
(* The server.                                                             *)
(***************************************************************************)
IsSetKey(k)  == set[k] # {}
IsHashKey(k) == \E f \in Name : hash[k][f] # Absent
Stored(k)    == IsSetKey(k) \/ IsHashKey(k)

\* A stored key that its parent does not list.
Unlisted(k) == Stored(k) /\ ~IsRoot(k) /\ Base(k) \notin set[Parent(k)]

\* Whether a set (hash) command on k is served and not refused.
SetFits(k)  == ~IsHashKey(k)
HashFits(k) == ~IsSetKey(k)

EmptyHash == [f \in Name |-> Absent]

Keep         == UNCHANGED <<set, hash>>
Sadd(k, n)   == set' = [set EXCEPT ![k] = @ \cup {n}] /\ UNCHANGED hash
Srem(k, n)   == set' = [set EXCEPT ![k] = @ \ {n}] /\ UNCHANGED hash
Hput(k, f, v) == hash' = [hash EXCEPT ![k][f] = v] /\ UNCHANGED set
Del(k)       == set' = [set EXCEPT ![k] = {}] /\ hash' = [hash EXCEPT ![k] = EmptyHash]
Flush        == set' = [k \in Key |-> {}] /\ hash' = [k \in Key |-> EmptyHash]

(***************************************************************************)
(* ExecRedisCmd returns c.ok() and leaves the output alone when it is      *)
(* false.  A command that fits is executed and answered; a fault leaves    *)
(* it unexecuted, or executed with the answer lost.                        *)
(***************************************************************************)
Reply == [done : BOOLEAN, ok : BOOLEAN]

Outcome(fits) ==
  {[done |-> fits, ok |-> fits]} \cup
  (IF faults < MaxFaults THEN {[done |-> d, ok |-> FALSE] : d \in {FALSE, fits}} ELSE {})

\* Count a fault, and let the command have its effect if it was executed.
Executed(r, fits, Effect) ==
  /\ r \in Outcome(fits)
  /\ faults' = faults + (IF r.ok = fits THEN 0 ELSE 1)
  /\ IF r.done THEN Effect ELSE Keep

Served(r, fits, Effect) == Executed(r, fits, Effect) /\ UNCHANGED <<flushing, ops>>
-----------------------------------------------------------------------------
(***************************************************************************)
(* The client.  at is the key the current step works on, ok the result so  *)
(* far, kids the keys RemoveChildren still has to delete, stack the        *)
(* RemoveKey calls that wait for a nested one, todo the rest of AddConfig. *)
(***************************************************************************)
Message == [topic : Key \cup {<<n>> : n \in Name}, status : {"a", "u", "d"}]
Frame   == [key : Key, ok : BOOLEAN]

\* The commands of a call, by what they read: its key, the key it is at, a member.
UpdatePC == {"upd_keys", "upd_hexists", "add_hset", "val_hset"}
ClimbPC  == {"climb_sadd", "climb_keys"}
DeletePC == {"del_keys", "del_ishash", "del_hexists", "del_hdel"}
RemovePC == {"rm_type", "rm_scard", "rm_kids", "rm_kid", "rm_srem", "rm_card", "rm_del"}
AddPC    == {"add_probe", "add_write"}
Label == {"idle", "crashed"} \cup UpdatePC \cup ClimbPC \cup DeletePC \cup RemovePC \cup AddPC

NoKey == <<>>

Idle == [pc |-> "idle", op |-> "none", key |-> NoKey, value |-> Absent, at |-> NoKey,
         ok |-> TRUE, kids |-> {}, stack |-> <<>>, todo |-> <<>>]

Store(c, k, s) == updates' = [updates EXCEPT ![c] = @ \cup {[topic |-> k, status |-> s]}]
StoreIf(ok, c, k, s) == IF ok THEN Store(c, k, s) ELSE UNCHANGED updates

\* The call of client c goes on as j, or returns ok to its caller.
Go(c, j)     == job' = [job EXCEPT ![c] = j]
Return(j, ok) == [Idle EXCEPT !.op = j.op, !.key = j.key, !.value = j.value, !.ok = ok]

At(c, pc) == job[c].pc = pc
InCall(c) == job[c].pc \notin {"idle", "crashed"}

(***************************************************************************)
(* A call starts.  FLUSHALL travels on the same connection as the client's *)
(* other commands, so a client with a pending one gets no further.  What   *)
(* earlier calls have stored stays in the store of the process or has left *)
(* it (Communicator): updates is what this call adds.                      *)
(***************************************************************************)
Call(c, j) ==
  /\ At(c, "idle") /\ c \notin flushing /\ ops < MaxOps
  /\ ops' = ops + 1
  /\ Go(c, j)
  /\ updates' = [updates EXCEPT ![c] = {}]
  /\ UNCHANGED <<set, hash, flushing, faults>>

Update(c) == \E k \in UpdateKey, v \in Value :
  Call(c, [Idle EXCEPT !.pc = "upd_keys", !.op = "update", !.key = k, !.value = v])

Delete(c) == \E k \in DeleteKey :
  Call(c, [Idle EXCEPT !.pc = "del_keys", !.op = "delete", !.key = k])

AddConfig(c) == \E d \in Document :
  Call(c, [Idle EXCEPT !.pc = "add_probe", !.op = "add", !.todo = d])

Clear(c) ==
  /\ At(c, "idle") /\ c \notin flushing /\ ops < MaxOps
  /\ ops' = ops + 1
  /\ flushing' = flushing \cup {c}
  /\ updates' = [updates EXCEPT ![c] = {}]
  /\ UNCHANGED <<set, hash, job, faults>>

\* The server comes to the FLUSHALL.  Nobody looks at its outcome.
FlushAll(c) ==
  /\ c \in flushing
  /\ \E r \in Reply : Executed(r, TRUE, Flush)
  /\ flushing' = flushing \ {c}
  /\ UNCHANGED <<job, updates, ops>>
-----------------------------------------------------------------------------
(***************************************************************************)
(* Update.                                                                 *)
(***************************************************************************)
\* UpdateHashValue up to its HSET.
HashValue(c, j) ==
  IF IsRoot(j.key)
  THEN Go(c, Return(j, FALSE)) /\ UNCHANGED updates
  ELSE Go(c, [j EXCEPT !.pc = "val_hset"]) /\ Store(c, j.key, "u")

\* UpdateParent(j.at) up to its SADD.
Climb(c, j) ==
  IF IsRoot(j.at)
  THEN Go(c, Return(j, j.ok)) /\ UNCHANGED updates
  ELSE Go(c, [j EXCEPT !.pc = "climb_sadd"]) /\ Store(c, Parent(j.at), "u")

UpdKeys(c, r) == LET j == job[c] IN
  /\ At(c, "upd_keys") /\ Served(r, TRUE, Keep)
  /\ IF r.ok /\ Stored(j.key)
     THEN HashValue(c, j)
     ELSE Go(c, [j EXCEPT !.pc = "upd_hexists"]) /\ UNCHANGED updates

\* Mutant of UpdHexists: AddToHash stores no message.
UpdHexistsSilent(c, r) == LET j == job[c]  p == Parent(j.key) IN
  /\ At(c, "upd_hexists") /\ Served(r, HashFits(p), Keep)
  /\ IF r.ok /\ hash[p][Base(j.key)] # Absent
     THEN HashValue(c, j)
     ELSE Go(c, [j EXCEPT !.pc = "add_hset"]) /\ UNCHANGED updates

UpdHexists(c, r) == LET j == job[c]  p == Parent(j.key) IN
  /\ At(c, "upd_hexists") /\ Served(r, HashFits(p), Keep)
  /\ IF r.ok /\ hash[p][Base(j.key)] # Absent
     THEN HashValue(c, j)
     ELSE Go(c, [j EXCEPT !.pc = "add_hset"]) /\ Store(c, j.key, "a")

ValHset(c, r) == LET j == job[c]  p == Parent(j.key) IN
  /\ At(c, "val_hset") /\ Served(r, HashFits(p), Hput(p, Base(j.key), j.value))
  /\ Go(c, Return(j, r.ok))
  /\ UNCHANGED updates

AddHset(c, r) == LET j == job[c]  p == Parent(j.key) IN
  /\ At(c, "add_hset") /\ Served(r, HashFits(p), Hput(p, Base(j.key), j.value))
  /\ Climb(c, [j EXCEPT !.at = p, !.ok = r.ok])

\* Mutant of ClimbSadd: the name goes into the key itself and not into its parent.
ClimbSaddMisplaced(c, r) == LET j == job[c]  p == Parent(j.at) IN
  /\ At(c, "climb_sadd") /\ Served(r, SetFits(p), Sadd(j.at, Base(j.at)))
  /\ Go(c, [j EXCEPT !.pc = "climb_keys", !.ok = @ /\ r.ok])
  /\ UNCHANGED updates

\* Mutant of ClimbSadd: the climb ends where the name is listed already.
ClimbSaddSatisfied(c, r) == LET j == job[c]  p == Parent(j.at) IN
  /\ At(c, "climb_sadd") /\ Served(r, SetFits(p), Sadd(p, Base(j.at)))
  /\ Go(c, IF Base(j.at) \in set[p] THEN Return(j, j.ok)
           ELSE [j EXCEPT !.pc = "climb_keys", !.ok = @ /\ r.ok])
  /\ UNCHANGED updates

ClimbSadd(c, r) == LET j == job[c]  p == Parent(j.at) IN
  /\ At(c, "climb_sadd") /\ Served(r, SetFits(p), Sadd(p, Base(j.at)))
  /\ Go(c, [j EXCEPT !.pc = "climb_keys", !.ok = @ /\ r.ok])
  /\ UNCHANGED updates

\* Mutant of ClimbKeys: UpdateParent calls itself with its own key.
ClimbKeysStuck(c, r) == LET j == job[c] IN
  /\ At(c, "climb_keys") /\ Served(r, TRUE, Keep)
  /\ Climb(c, j)

\* Mutant of ClimbKeys: UpdateParent lists one level only.
ClimbKeysOnce(c, r) == LET j == job[c] IN
  /\ At(c, "climb_keys") /\ Served(r, TRUE, Keep)
  /\ Go(c, Return(j, j.ok)) /\ UNCHANGED updates

ClimbKeys(c, r) == LET j == job[c]  p == Parent(j.at) IN
  /\ At(c, "climb_keys") /\ Served(r, TRUE, Keep)
  /\ IF r.ok /\ Stored(p)
     THEN Climb(c, [j EXCEPT !.at = p])
     ELSE Go(c, Return(j, j.ok)) /\ UNCHANGED updates
-----------------------------------------------------------------------------
(***************************************************************************)
(* Delete of a field: RemoveHash.                                          *)
(***************************************************************************)
DelKeys(c, r) == LET j == job[c] IN
  /\ At(c, "del_keys") /\ Served(r, TRUE, Keep)
  /\ IF r.ok /\ Stored(j.key)
     THEN Go(c, [j EXCEPT !.pc = "rm_type", !.at = j.key]) /\ Store(c, j.key, "d")
     ELSE Go(c, [j EXCEPT !.pc = "del_ishash"]) /\ UNCHANGED updates

DelIsHash(c, r) == LET j == job[c] IN
  /\ At(c, "del_ishash") /\ Served(r, TRUE, Keep)
  /\ Go(c, IF r.ok /\ IsHashKey(Parent(j.key))
           THEN [j EXCEPT !.pc = "del_hexists"] ELSE Return(j, FALSE))
  /\ UNCHANGED updates

DelHexists(c, r) == LET j == job[c]  p == Parent(j.key) IN
  /\ At(c, "del_hexists") /\ Served(r, HashFits(p), Keep)
  /\ Go(c, IF r.ok /\ hash[p][Base(j.key)] # Absent
           THEN [j EXCEPT !.pc = "del_hdel"] ELSE Return(j, FALSE))
  /\ UNCHANGED updates

\* The message names the field alone, without the key it is in.
DelHdel(c, r) == LET j == job[c]  p == Parent(j.key) IN
  /\ At(c, "del_hdel") /\ Served(r, HashFits(p), Hput(p, Base(j.key), Absent))
  /\ StoreIf(r.ok, c, <<Base(j.key)>>, "d")
  /\ Go(c, Return(j, r.ok))
-----------------------------------------------------------------------------
(***************************************************************************)
(* Delete of a set or a hash: RemoveKey, with RemoveChildren and           *)
(* RemoveFromParent inside.  j.at is the argument of the innermost call.   *)
(***************************************************************************)
\* An int nelem that a failed SCARD leaves uninitialised compares any way.
Read(r, b) == IF r.ok THEN {b} ELSE BOOLEAN

RmType(c, r) == LET j == job[c] IN
  /\ At(c, "rm_type") /\ Served(r, TRUE, Keep)
  /\ Go(c, [j EXCEPT !.ok = r.ok,
                     !.pc = IF r.ok /\ IsSetKey(j.at) THEN "rm_scard" ELSE "rm_srem"])
  /\ UNCHANGED updates

RmScard(c, r) == LET j == job[c] IN
  /\ At(c, "rm_scard") /\ Served(r, SetFits(j.at), Keep)
  /\ \E some \in Read(r, IsSetKey(j.at)) :
       Go(c, [j EXCEPT !.pc = "rm_kids", !.ok = @ /\ some])
  /\ UNCHANGED updates

\* Mutant of RmKids: the grandchildren stay.
RmKidsShallow(c, r) == LET j == job[c] IN
  /\ At(c, "rm_kids") /\ Served(r, TRUE, Keep)
  /\ LET kids == {k \in Below(j.at) : Stored(k) /\ Parent(k) = j.at} IN
     Go(c, [j EXCEPT !.pc = IF kids = {} THEN "rm_srem" ELSE "rm_kid",
                     !.kids = kids, !.ok = @ /\ kids # {}])
  /\ UNCHANGED updates

\* Mutant of RmKids: the children are those that are listed, not those that are stored.
RmKidsListed(c, r) == LET j == job[c] IN
  /\ At(c, "rm_kids") /\ Served(r, TRUE, Keep)
  /\ LET kids == IF r.ok THEN {k \in Below(j.at) : Stored(k) /\ Base(k) \in set[Parent(k)]} ELSE {} IN
     Go(c, [j EXCEPT !.pc = IF kids = {} THEN "rm_srem" ELSE "rm_kid",
                     !.kids = kids, !.ok = @ /\ kids # {}])
  /\ UNCHANGED updates

RmKids(c, r) == LET j == job[c] IN
  /\ At(c, "rm_kids") /\ Served(r, TRUE, Keep)
  /\ LET kids == IF r.ok THEN {k \in Below(j.at) : Stored(k)} ELSE {} IN
     Go(c, [j EXCEPT !.pc = IF kids = {} THEN "rm_srem" ELSE "rm_kid",
                     !.kids = kids, !.ok = @ /\ kids # {}])
  /\ UNCHANGED updates

\* KEYS lists the children in no particular order.
RmKid(c, r) == LET j == job[c] IN
  /\ At(c, "rm_kid")
  /\ \E k \in j.kids :
       /\ Served(r, TRUE, Del(k))
       /\ StoreIf(r.ok, c, k, "d")
       /\ Go(c, [j EXCEPT !.pc = IF j.kids = {k} THEN "rm_srem" ELSE "rm_kid",
                          !.kids = @ \ {k}])

RmSrem(c, r) == LET j == job[c]  p == Parent(j.at) IN
  /\ At(c, "rm_srem") /\ Served(r, SetFits(p), Srem(p, Base(j.at)))
  /\ StoreIf(r.ok, c, p, "u")
  /\ Go(c, [j EXCEPT !.pc = "rm_card", !.ok = @ /\ r.ok])

\* Mutant of RemoveParent: the nested call is for the same key again.
RemoveParentSame(c, j, p) ==
  IF Len(j.stack) = MaxStack
  THEN Go(c, [Idle EXCEPT !.pc = "crashed"]) /\ UNCHANGED updates
  ELSE /\ Go(c, [j EXCEPT !.pc = "rm_type", !.stack = Append(@, [key |-> j.at, ok |-> j.ok])])
       /\ Store(c, j.at, "d")

\* The nested RemoveKey(p), or the end of the process when the stack is used up.
RemoveParent(c, j, p) ==
  IF Len(j.stack) = MaxStack
  THEN Go(c, [Idle EXCEPT !.pc = "crashed"]) /\ UNCHANGED updates
  ELSE /\ Go(c, [j EXCEPT !.pc = "rm_type", !.at = p,
                          !.stack = Append(@, [key |-> j.at, ok |-> j.ok])])
       /\ Store(c, p, "d")

RmCard(c, r) == LET j == job[c]  p == Parent(j.at) IN
  /\ At(c, "rm_card") /\ Served(r, SetFits(p), Keep)
  /\ \E empty \in Read(r, ~IsSetKey(p)) :
       IF empty THEN RemoveParent(c, j, p)
       ELSE Go(c, [j EXCEPT !.pc = "rm_del"]) /\ UNCHANGED updates

RmDel(c, r) == LET j == job[c] IN
  /\ At(c, "rm_del") /\ Served(r, TRUE, Del(j.at))
  /\ StoreIf(r.ok, c, j.at, "d")
  /\ Go(c, IF j.stack = <<>> THEN Return(j, j.ok /\ r.ok)
           ELSE [j EXCEPT !.at = Last(j.stack).key, !.stack = Front(@),
                          !.ok = Last(j.stack).ok /\ @ /\ r.ok])
-----------------------------------------------------------------------------
(***************************************************************************)
(* AddConfig: json_scan.  The result of a nested json_scan_impl is thrown  *)
(* away, so only the members of the roots count for the result.            *)
(***************************************************************************)
\* Mutant of NextItem: the loop goes on behind the last member.
NextItemBeyond(j, ok) ==
  [j EXCEPT !.pc = "add_probe", !.ok = @ /\ (IsRoot(Head(j.todo).at) => ok), !.todo = Tail(@)]

NextItem(j, ok) ==
  LET k == [j EXCEPT !.ok = @ /\ (IsRoot(Head(j.todo).at) => ok), !.todo = Tail(@)] IN
  IF k.todo = <<>> THEN Return(k, k.ok) ELSE [k EXCEPT !.pc = "add_probe"]

Fits(i)    == IF i.object THEN SetFits(i.at) ELSE HashFits(i.at)
Present(i) == IF i.object THEN i.name \in set[i.at] ELSE hash[i.at][i.name] # Absent
Submit(i)  == IF i.object THEN Sadd(i.at, i.name) ELSE Hput(i.at, i.name, i.value)

\* Mutant of AddProbe: what is there already is submitted again.
AddProbeBlind(c, r) == LET j == job[c] IN
  /\ At(c, "add_probe") /\ Served(r, Fits(Head(j.todo)), Keep)
  /\ Go(c, [j EXCEPT !.pc = "add_write"])
  /\ UNCHANGED updates

AddProbe(c, r) == LET j == job[c]  i == Head(j.todo) IN
  /\ At(c, "add_probe") /\ Served(r, Fits(i), Keep)
  /\ Go(c, IF r.ok /\ Present(i) THEN NextItem(j, FALSE) ELSE [j EXCEPT !.pc = "add_write"])
  /\ UNCHANGED updates

\* Mutant of AddWrite: what is below a new member is not visited.
AddWriteShallow(c, r) == LET j == job[c]  i == Head(j.todo) IN
  /\ At(c, "add_write") /\ Served(r, Fits(i), Submit(i))
  /\ Go(c, NextItem([j EXCEPT !.todo = SelectSeq(@, LAMBDA x : ~IsPrefix(Child(i.at, i.name), x.at))],
                    i.object /\ r.ok))
  /\ UNCHANGED updates

\* A new field counts as a failure (is_ok = false before the HSET).
AddWrite(c, r) == LET j == job[c]  i == Head(j.todo) IN
  /\ At(c, "add_write") /\ Served(r, Fits(i), Submit(i))
  /\ Go(c, NextItem(j, i.object /\ r.ok))
  /\ UNCHANGED updates
-----------------------------------------------------------------------------
\* The client process is killed in the middle of a call and started again.
Kill(c) ==
  /\ InCall(c) /\ faults < MaxFaults
  /\ faults' = faults + 1
  /\ Go(c, Idle)
  /\ updates' = [updates EXCEPT ![c] = {}]
  /\ UNCHANGED <<set, hash, flushing, ops>>

Init ==
  /\ set = [k \in Key |-> {i.name : i \in {x \in ToSet(Seed) : x.object /\ x.at = k}}]
  /\ hash = [k \in Key |-> [f \in Name |->
       LET leaves == Leaves(Seed, k, f) IN
       IF leaves = {} THEN Absent ELSE Seed[Min(leaves)].value]]
  /\ job = [c \in Client |-> Idle]
  /\ updates = [c \in Client |-> {}]
  /\ flushing = {} /\ ops = 0 /\ faults = 0

\* A client thread at work, in a call that stores or in one that deletes.
Writing(c, r) ==
  \/ UpdKeys(c, r) \/ UpdHexists(c, r) \/ ValHset(c, r) \/ AddHset(c, r)
  \/ ClimbSadd(c, r) \/ ClimbKeys(c, r) \/ AddProbe(c, r) \/ AddWrite(c, r)

Removing(c, r) ==
  \/ DelKeys(c, r) \/ DelIsHash(c, r) \/ DelHexists(c, r) \/ DelHdel(c, r)
  \/ RmType(c, r) \/ RmScard(c, r) \/ RmKids(c, r) \/ RmKid(c, r)
  \/ RmSrem(c, r) \/ RmCard(c, r) \/ RmDel(c, r)

Command(c, r) == Writing(c, r) \/ Removing(c, r)

Step(c) == \E r \in Reply : Command(c, r)

Next == \E c \in Client :
  \/ Update(c) \/ Delete(c) \/ AddConfig(c) \/ Clear(c)
  \/ FlushAll(c) \/ Step(c) \/ Kill(c)

Spec == Init /\ [][Next]_vars

\* A thread that can take a step of its call does: it waits for nothing but Redis.
FairSpec == Spec /\ \A c \in Client : WF_vars(Step(c)) /\ WF_vars(FlushAll(c))
-----------------------------------------------------------------------------
Job == [pc : Label, op : {"none", "update", "delete", "add"}, key : Key \cup {NoKey},
        value : Value \cup {Absent}, at : Key \cup {NoKey}, ok : BOOLEAN,
        kids : SUBSET Key, stack : Seq(Frame), todo : Seq(Item)]

\* What the next step of a call reads is there.
HasArguments(j) ==
  /\ j.pc \in UpdatePC \cup DeletePC => j.key \in Key
  /\ j.pc \in ClimbPC \cup RemovePC => j.at \in Key
  /\ j.pc = "rm_kid" => j.kids # {}
  /\ j.pc \in AddPC => j.todo # <<>>

(***************************************************************************)
(* The type of every variable, and that no loop of a call goes on behind   *)
(* its last element and no step reads an argument that was not set.        *)
(***************************************************************************)
TypeOK ==
  /\ set \in [Key -> SUBSET Name]
  /\ hash \in [Key -> [Name -> Value \cup {Absent}]]
  /\ job \in [Client -> Job] /\ \A c \in Client : HasArguments(job[c])
  /\ updates \in [Client -> SUBSET Message]
  /\ flushing \subseteq Client
  /\ ops \in 0 .. MaxOps /\ faults \in 0 .. MaxFaults
=============================================================================
