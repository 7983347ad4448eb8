----------------------- MODULE RedisDataManagerSchema -----------------------
(***************************************************************************)
(* Clients that agree on a schema: each key is an inner key or a record of *)
(* fields, the same in every document and call, and Update sets fields of  *)
(* records.  A root may be either; below a record there are only fields.   *)
(***************************************************************************)
EXTENDS RedisDataManager

CONSTANTS
  Object,   \* the keys that hold keys: sets in Redis
  Record    \* the keys that hold fields: hashes in Redis

ItemConforms(i) ==
  IF i.object THEN i.at \in Object /\ Child(i.at, i.name) \in Object \cup Record
              ELSE i.at \in Record

\* Update of a root sets the field of that name in the root itself.
ASSUME SchemaAssumption ==
  /\ Object \cup Record \subseteq Key
  /\ Object \cap Record = {}
  /\ \A k \in Object \cup Record : IsRoot(k) \/ Parent(k) \in Object
  /\ \A k \in UpdateKey : Parent(k) \in Record
  /\ \A d \in Document \cup {Seed} : \A i \in 1 .. Len(d) : ItemConforms(d[i])

\* Redis serves the next command of the call j, and does not refuse it (WRONGTYPE).
NextFits(j) ==
  CASE j.pc \in {"upd_hexists", "add_hset", "val_hset", "del_hexists", "del_hdel"} ->
         HashFits(Parent(j.key))
    [] j.pc \in {"climb_sadd", "rm_srem", "rm_card"} -> SetFits(Parent(j.at))
    [] j.pc = "rm_scard" -> SetFits(j.at)
    [] j.pc \in AddPC -> Fits(Head(j.todo))
    [] OTHER -> TRUE

(***************************************************************************)
(* A refused SCARD leaves nelem uninitialised (line 136), a refused SADD   *)
(* or HSET loses data.  Whatever the calls of the others did since the     *)
(* last command and whatever failed before, Redis refuses a command in one *)
(* place only: Delete of a root that holds fields takes the root for its   *)
(* own parent, and asks for it as for a set.                               *)
(***************************************************************************)
RefusedOnlyAtRootRecord == \A c \in Client : LET j == job[c] IN
  ~NextFits(j) => j.pc \in {"rm_srem", "rm_card"} /\ IsRoot(j.at) /\ IsHashKey(j.at)
=============================================================================
