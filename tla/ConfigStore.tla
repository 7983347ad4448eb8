---------------------------- MODULE ConfigStore ----------------------------
(***************************************************************************)
(* What RedisDataManager keeps of what a DataManager is for, seen by its   *)
(* only client: a configuration is a value for each field of each record,  *)
(* and every call changes it in one step, until a command fails.           *)
(***************************************************************************)
EXTENDS ConfigKeys

CONSTANTS Value, Absent, UpdateKey, DeleteKey, Document, Seed

VARIABLES
  conf,    \* the value of each field of each record, or Absent
  reply,   \* what the last call returned
  intact   \* no command has failed and no client was killed so far

Nothing == [k \in Key |-> [f \in Name |-> Absent]]

\* The fields the leaves of a document set, over what is there already.
Merge(old, d) == [k \in Key |-> [f \in Name |->
  IF old[k][f] # Absent \/ Leaves(d, k, f) = {} THEN old[k][f]
  ELSE d[Min(Leaves(d, k, f))].value]]

\* Whether field f of record k is p or lies below it.
Within(p, k, f) == IsPrefix(p, Child(k, f))

\* A root that holds fields itself, and not keys.
RootRecord(p) == IsRoot(p) /\ \E f \in Name : conf[p][f] # Absent

Init == conf = Merge(Nothing, Seed) /\ reply = TRUE /\ intact = TRUE

\* Update sets a field; of a root it sets the first field, and refuses any further one.
Update == \E p \in UpdateKey, v \in Value :
  /\ conf' = IF RootRecord(p) THEN conf ELSE [conf EXCEPT ![Parent(p)][Base(p)] = v]
  /\ reply' = ~RootRecord(p)

\* Delete succeeds when there was something to delete, but not at a root that holds fields.
Delete == \E p \in DeleteKey :
  /\ conf' = [k \in Key |-> [f \in Name |-> IF Within(p, k, f) THEN Absent ELSE conf[k][f]]]
  /\ reply' \in BOOLEAN
  /\ (\E k \in Key, f \in Name : Within(p, k, f) /\ conf[k][f] # Absent) => reply' = ~RootRecord(p)

(***************************************************************************)
(* AddConfig overwrites nothing, adds what is new, and true means that no  *)
(* field of the document was there.  README:13-15 asks for more (nothing   *)
(* is to be added when something is there), which the code does not do.    *)
(***************************************************************************)
AddConfig == \E d \in Document :
  /\ conf' = Merge(conf, d)
  /\ reply' \in BOOLEAN
  /\ reply' => \A k \in Key, f \in Name : conf[k][f] = Absent \/ Leaves(d, k, f) = {}

Clear == conf' = Nothing /\ UNCHANGED reply

Call == Update \/ Delete \/ AddConfig \/ Clear

\* A failed command breaks the promise for good.
Next == (intact /\ intact' /\ Call) \/ ~intact'
Spec == Init /\ [][Next]_<<conf, reply, intact>>
=============================================================================
