--------------------- MODULE RedisDataManagerRefinement ---------------------
(***************************************************************************)
(* One client: where Redis answers every command, the calls of a           *)
(* RedisDataManager implement the atomic calls of ConfigStore, and where   *)
(* one failed or the client was killed, later calls repair what they can.  *)
(***************************************************************************)
EXTENDS RedisDataManager

VARIABLE before   \* history: which the current or last call is, and what it found

ASSUME OneClient == \E c \in Client : Client = {c}

Me == CHOOSE c \in Client : TRUE

SoloInit == Init /\ before = [call |-> "none", set |-> set, hash |-> hash, ok |-> TRUE,
                              found |-> FALSE, doc |-> <<>>, faults |-> 0]

\* A call begins where ops grows.
SoloNext ==
  /\ Next
  /\ before' = IF ops' = ops THEN before
               ELSE [call |-> IF flushing' = flushing THEN job'[Me].op ELSE "clear",
                     set |-> set, hash |-> hash, ok |-> job[Me].ok,
                     found |-> job'[Me].key \in Key /\ Stored(job'[Me].key),
                     doc |-> job'[Me].todo, faults |-> faults]

SoloSpec == SoloInit /\ [][SoloNext]_<<vars, before>>
SoloFairSpec == SoloSpec /\ WF_vars(Step(Me)) /\ WF_vars(FlushAll(Me))

\* The last call has returned, and no command of it failed.
Undisturbed(call) == At(Me, "idle") /\ before.call = call /\ faults = before.faults

\* The fields change, for the abstract store, when the call returns.
Store1 == INSTANCE ConfigStore WITH
  conf   <- IF At(Me, "idle") THEN hash ELSE before.hash,
  reply  <- IF At(Me, "idle") THEN job[Me].ok ELSE before.ok,
  intact <- faults = 0

(***************************************************************************)
(* Update, Delete, AddConfig and Clear of RedisDataManager do to the       *)
(* fields what one atomic call of ConfigStore does, and return what it     *)
(* allows, whatever keys and lists of names they pass on the way, as long  *)
(* as every command is answered.                                           *)
(***************************************************************************)
ImplementsConfigStore == Store1!Spec

(***************************************************************************)
(* As long as every command is answered, between calls every stored key is *)
(* listed by its parent, so a Query that walks down from a root finds it:  *)
(* Update and AddConfig complete the chain to the root, RemoveKey cuts     *)
(* below the list entry it removed.                                        *)
(***************************************************************************)
StoredKeysAreListed == At(Me, "idle") /\ faults = 0 => \A k \in Key : ~Unlisted(k)

(***************************************************************************)
(* RemoveKey calls itself for the parents it empties, one per level: only  *)
(* at a root that is no set, its own parent, can it go on for ever.  (A    *)
(* failed SCARD leaves nelem uninitialised, and then it may also elsewhere.) *)
(***************************************************************************)
DeepOnlyAtEmptyRoot == LET j == job[Me] IN
  faults = before.faults /\ j.op = "delete" /\ Len(j.stack) >= Len(j.key)
    => IsRoot(j.at) /\ ~IsSetKey(j.at)

\* The current or last call has stored a message for the subscribers of k.
Told(k, s) == [topic |-> k, status |-> s] \in updates[Me]

\* What was stored at k when the current or last call began.
WasStored(k) == before.set[k] # {} \/ \E f \in Name : before.hash[k][f] # Absent

(***************************************************************************)
(* What a call that gets its answers has done to the keys, each of which   *)
(* subscribers may listen on by its exact name, it has stored messages     *)
(* for: of an Update the field it has set, as added or as updated, and     *)
(* each key whose list has grown; of a Delete of a whole key each key that *)
(* is gone, up to the emptied parents, and each key whose list has shrunk. *)
(* (Delete of a single field, and AddConfig, announce no key, and Delete   *)
(* of a record does not name its fields.)                                  *)
(***************************************************************************)
UpdatesAreNotified == LET k == job[Me].key IN
  /\ Undisturbed("update") /\ (job[Me].ok \/ hash # before.hash) =>
       Told(k, IF before.hash[Parent(k)][Base(k)] = Absent THEN "a" ELSE "u")
  /\ Undisturbed("delete") /\ before.found => \A a \in Key :
       WasStored(a) /\ ~Stored(a) => Told(a, "d")
  /\ Undisturbed("update") \/ (Undisturbed("delete") /\ before.found) => \A a \in Key :
       Stored(a) /\ set[a] # before.set[a] => Told(a, "u")

(***************************************************************************)
(* Nothing repairs what a failed or killed call leaves behind but a later  *)
(* call.  A Delete of a stored key that gets all its answers removes all   *)
(* that is at or below the key, and the name above it, also what a call of *)
(* before left in parts: fields without a listed record, a name without a  *)
(* key, a key whose children are gone.                                     *)
(***************************************************************************)
DeleteIsComplete == LET d == job[Me].key IN
  Undisturbed("delete") /\ before.found =>
    /\ \A k \in Key : IsPrefix(d, k) => ~Stored(k)
    /\ ~IsRoot(d) => Base(d) \notin set[Parent(d)]

\* k and the keys above it are listed.
ListedFrom(k) == \A a \in Key : ~IsRoot(a) /\ IsPrefix(a, k) => Base(a) \in set[Parent(a)]

(***************************************************************************)
(* An Update of a new field and an AddConfig that get all their answers    *)
(* leave what they store reachable from the root, also where an earlier    *)
(* call broke off on its way up or down: neither takes a level that it     *)
(* finds in place for a sign that the levels above or below it are.        *)
(***************************************************************************)
AddedIsReachable == LET k == job[Me].key IN
  /\ Undisturbed("update") /\ before.hash[Parent(k)][Base(k)] = Absent => ListedFrom(Parent(k))
  /\ Undisturbed("add") => \A i \in ToSet(before.doc) : Present(i)

(***************************************************************************)
(* "Delete: delete a key and updates its parent" (README), after which     *)
(* every name a key lists still answers a Query (data_manager_test.cc).    *)
(***************************************************************************)
ListedKeysExist == At(Me, "idle") => \A k \in Key : \A n \in set[k] : Stored(Child(k, n))

(***************************************************************************)
(* "if parents gets empty, delete" (RemoveFromParent): the nested calls    *)
(* that do so fit the stack of the process.                                *)
(***************************************************************************)
StackNeverOverflows == ~At(Me, "crashed")

(***************************************************************************)
(* "If the configuration (or any subitem) exists, reports an error and do  *)
(* not submit" (README): an AddConfig of a document of which a field is    *)
(* there already leaves all fields as they are.                            *)
(***************************************************************************)
ExistingIsNotSubmitted == Undisturbed("add") =>
  \/ \A i \in ToSet(before.doc) : i.object \/ before.hash[i.at][i.name] = Absent
  \/ ~job[Me].ok /\ hash = before.hash

(***************************************************************************)
(* Every call returns, or overflows the stack: the climb to the root, the  *)
(* loops over children and items and the nested RemoveKey calls all end.   *)
(***************************************************************************)
CallsEnd == InCall(Me) ~> ~InCall(Me)
=============================================================================
