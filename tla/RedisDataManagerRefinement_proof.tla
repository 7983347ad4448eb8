------------------- MODULE RedisDataManagerRefinement_proof -------------------
(***************************************************************************)
(* One client, any keys, documents and calls, and a schema.  What the call *)
(* in progress found and what it has done at each of its commands          *)
(* (CallStands), as long as that call has got its answers, whatever failed *)
(* in the calls before it: what a Delete has removed and what an Update or *)
(* an AddConfig has made reachable when it returns follow from it, and,    *)
(* with what it has told so far (Telling), that Notify gets its messages.  *)
(* Then, where nothing has failed at all, what a call has listed and done  *)
(* to the fields (CallClean): all stored keys are listed, and the calls    *)
(* implement those of ConfigStore.                                         *)
(***************************************************************************)
EXTENDS RedisDataManagerRefinement, RedisDataManager_proof

\* The current or last call got the answers of all its commands so far.
Calm == faults = before.faults

History == [call : {"none", "update", "delete", "add", "clear"},
            set : [Key -> SUBSET Name], hash : [Key -> [Name -> Value \cup {Absent}]], ok : BOOLEAN,
            found : BOOLEAN, doc : Seq(Item), faults : 0 .. MaxFaults]

\* What the call found is typed, and its fields are in records.
BeforeTyped ==
  /\ before \in History /\ before.faults <= faults
  /\ \A k \in Key, f \in Name : before.hash[k][f] # Absent => k \in Record

\* before describes the call in progress; a FLUSHALL is pending only behind a Clear.
Bookkeeping == LET j == job[Me] IN
  /\ j.pc # "idle" => flushing = {}
  /\ flushing # {} => before.call = "clear"
  /\ InCall(Me) => before.call = j.op
  /\ j.pc \notin RemovePC => j.stack = <<>>
  /\ j.op = "delete" => j.key \in DeleteKey

SoloBase == SchemaInv /\ BeforeTyped /\ Bookkeeping
-----------------------------------------------------------------------------
\* What the call found at a field, and at or below a key.
Was(k)      == before.hash[Parent(k)][Base(k)]
HadBelow(d) == \E k \in Key, f \in Name : IsPrefix(d, k) /\ before.hash[k][f] # Absent

\* Update in front of its HSET, and on its way to the root.
Changing(j) ==
  /\ j.op = "update" /\ j.key \in UpdateKey /\ j.value \in Value
  /\ hash = before.hash
  /\ j.pc = "val_hset" => Was(j.key) # Absent
  /\ j.pc = "add_hset" => Was(j.key) = Absent

Changed(j) == \A k \in Key, f \in Name : hash[k][f] =
  IF k = Parent(j.key) /\ f = Base(j.key) THEN j.value ELSE before.hash[k][f]

ListedBelow(a, k) == \A b \in Key :
  IsStrictPrefix(a, b) /\ IsPrefix(b, k) => Base(b) \in set[Parent(b)]

Climbing(j) ==
  /\ j.op = "update" /\ j.key \in UpdateKey /\ j.value \in Value /\ j.ok
  /\ Changed(j)
  /\ IsPrefix(j.at, Parent(j.key)) /\ ~IsRoot(j.at)
  /\ ListedBelow(j.at, Parent(j.key))
  /\ j.pc = "climb_keys" => Base(j.at) \in set[Parent(j.at)]

\* Delete of what may be a field.
Deleting(j) ==
  /\ j.op = "delete" /\ hash = before.hash /\ (before.found <=> Stored(j.key))
  /\ j.pc # "del_keys" => ~before.found
  /\ j.pc = "del_hdel" => Was(j.key) # Absent

\* The nested calls of RemoveKey, the outermost for d, climb level by level.
Nested(d, i, k) == IsPrefix(k, d) /\ (IsRoot(k) \/ Len(k) + i = Len(d))

\* A root that holds fields: as its own parent Redis refuses it SREM and SCARD.
Refused(k) == IsRoot(k) /\ k \in Record

\* Where a nested RemoveKey is: at an emptied parent, or again at such a root.
Reentered(d, k) == IF Refused(d) THEN k = d ELSE k \in Object /\ ~IsSetKey(k)

StackStands(j) ==
  /\ Nested(j.key, Len(j.stack), j.at)
  /\ IF j.stack = <<>> THEN j.at = j.key ELSE Reentered(j.key, j.at)
  /\ \A i \in 1 .. Len(j.stack) :
       /\ Nested(j.key, i - 1, j.stack[i].key)
       /\ IF i = 1 THEN j.stack[i].key = j.key ELSE Reentered(j.key, j.stack[i].key)
       /\ HadBelow(j.key) /\ ~Refused(j.key) => j.stack[i].ok

\* RemoveKey has deleted the children, and has taken the name off the parent's list.
Swept(j) == j.stack # <<>> \/ j.pc \in {"rm_srem", "rm_card", "rm_del"}
Cut(j)   == j.stack # <<>> \/ j.pc \in {"rm_card", "rm_del"}

\* Of the fields only those at or below the key are gone.
Reduced(j) == \A k \in Key, f \in Name :
  hash[k][f] = before.hash[k][f] \/ (IsPrefix(j.key, k) /\ hash[k][f] = Absent)

Removal(j) ==
  /\ j.op = "delete" /\ j.key \in InSchema /\ before.found
  /\ StackStands(j)
  /\ Reduced(j)
  /\ j.pc # "rm_type" /\ HadBelow(j.key) /\ ~Refused(j.key) => j.ok
  /\ Refused(j.key) => /\ j.pc \in {"rm_type", "rm_srem", "rm_card"} => IsHashKey(j.key)
                       /\ j.pc \in {"rm_card", "rm_del"} => ~j.ok
  /\ ~Swept(j) /\ j.pc # "rm_kid" => hash = before.hash /\ Stored(j.key)
  /\ j.pc \in {"rm_scard", "rm_kids", "rm_kid"} => j.stack = <<>> /\ j.key \in Object
  /\ j.pc \in {"rm_scard", "rm_kids"} => IsSetKey(j.key)
  /\ j.pc = "rm_kid" => j.kids \subseteq Below(j.key) /\ \A k \in Below(j.key) : Stored(k) => k \in j.kids
  /\ Swept(j) => \A k \in Below(j.key) : ~Stored(k)
  /\ Cut(j) /\ ~IsRoot(j.key) => Base(j.key) \notin set[Parent(j.key)]

\* The first n members of document d are there, and what was not there is from them.
Submitted(d, n) ==
  /\ \A h \in 1 .. n : Present(d[h])
  /\ \A k \in Key, f \in Name :
      hash[k][f] = before.hash[k][f] \/
        /\ before.hash[k][f] = Absent
        /\ \E h \in 1 .. n : /\ h \in Leaves(d, k, f) /\ hash[k][f] = d[h].value
                             /\ \A g \in 1 .. h - 1 : g \notin Leaves(d, k, f)

Adding(j) ==
  /\ j.op = "add" /\ before.doc \in Document
  /\ \E n \in Nat : Rest(j.todo, before.doc, n) /\ Submitted(before.doc, n)
  /\ j.pc = "add_write" => ~Present(Head(j.todo))

\* What a call that has returned leaves.
Returned(j) ==
  /\ before.call = "delete" /\ before.found =>
       /\ \A k \in Key : IsPrefix(j.key, k) => ~Stored(k)
       /\ ~IsRoot(j.key) => Base(j.key) \notin set[Parent(j.key)]
  /\ before.call = "update" /\ Was(j.key) = Absent => ListedFrom(Parent(j.key))
  /\ before.call = "add" => \A i \in ToSet(before.doc) : Present(i)

CallStands(j) ==
  /\ j.pc = "idle" => Returned(j)
  /\ j.pc \in UpdatePC => Changing(j)
  /\ j.pc \in ClimbPC => Climbing(j)
  /\ j.pc \in DeletePC => Deleting(j)
  /\ j.pc \in RemovePC => Removal(j)
  /\ j.pc \in AddPC => Adding(j)

SoloInv == SoloBase /\ (Calm => \A j \in {job[Me]} : CallStands(j))
-----------------------------------------------------------------------------
(***************************************************************************)
(* Keys in order: what lies below what.                                    *)
(***************************************************************************)
LEMMA PrefixForm ==
  ASSUME NEW a \in Seq(Name), NEW b \in Seq(Name)
  PROVE  IsPrefix(a, b) <=> Len(a) <= Len(b) /\ \A i \in 1 .. Len(a) : a[i] = b[i]
<1> DEFINE n == Len(a)
<1>1. n \in Nat /\ Len(b) \in Nat /\ (\A i \in 1 .. n : a[i] \in Name)
      /\ (\A i \in 1 .. Len(b) : b[i] \in Name)
  OBVIOUS
<1> HIDE DEF n
<1>2. /\ SubSeq(a, 1, n) \in Seq(Name) /\ Len(SubSeq(a, 1, n)) = n
      /\ \A i \in 1 .. n : SubSeq(a, 1, n)[i] = a[i]
  BY <1>1, SubSeqProperties
<1>3. ASSUME n <= Len(b)
      PROVE  /\ SubSeq(b, 1, n) \in Seq(Name) /\ Len(SubSeq(b, 1, n)) = n
             /\ \A i \in 1 .. n : SubSeq(b, 1, n)[i] = b[i]
  <2>1. \A i \in 1 .. n : b[i] \in Name BY <1>1, <1>3
  <2> QED BY <1>1, <2>1, SubSeqProperties
<1>4. ASSUME n <= Len(b), \A i \in 1 .. n : a[i] = b[i] PROVE SubSeq(a, 1, n) = SubSeq(b, 1, n)
  <2>1. \A i \in 1 .. n : SubSeq(a, 1, n)[i] = SubSeq(b, 1, n)[i] BY <1>2, <1>3, <1>4
  <2> QED BY <1>2, <1>3, <1>4, <2>1, SeqEqual
<1>5. ASSUME n <= Len(b), SubSeq(a, 1, n) = SubSeq(b, 1, n) PROVE \A i \in 1 .. n : a[i] = b[i]
  BY <1>2, <1>3, <1>5
<1> QED BY <1>4, <1>5 DEF IsPrefix, n

\* A key without its last name.
LEMMA ParentForm ==
  ASSUME NEW x \in Key
  PROVE  /\ x \in Seq(Name) /\ Parent(x) \in Seq(Name) /\ Len(x) \in Nat \ {0}
         /\ IsRoot(x) => Parent(x) = x
         /\ ~IsRoot(x) => /\ Len(Parent(x)) = Len(x) - 1 /\ Len(x) > 1
                          /\ \A i \in 1 .. Len(x) - 1 : Parent(x)[i] = x[i]
<1>1. x \in Seq(Name) /\ Len(x) \in Nat \ {0} BY KeyAssumption, EmptySeq, LenProperties
<1>2. Parent(x) \in Seq(Name) BY KeyParts, KeyAssumption
<1>3. ASSUME ~IsRoot(x)
      PROVE  /\ Len(Parent(x)) = Len(x) - 1 /\ Len(x) > 1
             /\ \A i \in 1 .. Len(x) - 1 : Parent(x)[i] = x[i]
  <2>1. PICK n \in Nat : n = Len(x) - 1 BY <1>1
  <2>2. n # 0 /\ Len(x) = n + 1 BY <1>1, <1>3, <2>1 DEF IsRoot
  <2>3. Parent(x) = SubSeq(x, 1, n) BY <1>3, <2>1 DEF Parent, Front
  <2>4. \A i \in 1 .. n : x[i] \in Name BY <1>1, <2>2
  <2>5. Len(SubSeq(x, 1, n)) = n /\ \A i \in 1 .. n : SubSeq(x, 1, n)[i] = x[i]
    BY <2>2, <2>4, SubSeqProperties
  <2> QED BY <2>1, <2>2, <2>3, <2>5
<1> QED BY <1>1, <1>2, <1>3 DEF Parent

LEMMA KeyOrder ==
  ASSUME NEW a \in Key, NEW b \in Key, NEW x \in Key
  PROVE  /\ IsPrefix(a, a)
         /\ IsPrefix(a, b) /\ IsPrefix(b, x) => IsPrefix(a, x)
         /\ IsPrefix(a, b) /\ IsPrefix(b, a) => a = b
         /\ IsPrefix(a, x) /\ IsPrefix(b, x) => IsPrefix(a, b) \/ IsPrefix(b, a)
<1>1. /\ a \in Seq(Name) /\ b \in Seq(Name) /\ x \in Seq(Name)
      /\ Len(a) \in Nat /\ Len(b) \in Nat /\ Len(x) \in Nat
  BY ParentForm
<1>2. IsPrefix(a, a) BY <1>1, PrefixForm
<1>3. ASSUME IsPrefix(a, b), IsPrefix(b, x) PROVE IsPrefix(a, x) BY <1>1, <1>3, PrefixForm
<1>4. ASSUME IsPrefix(a, b), IsPrefix(b, a) PROVE a = b
  <2>1. Len(a) = Len(b) /\ \A i \in 1 .. Len(a) : a[i] = b[i] BY <1>1, <1>4, PrefixForm
  <2> QED BY <1>1, <2>1, SeqEqual
<1>5. ASSUME IsPrefix(a, x), IsPrefix(b, x) PROVE IsPrefix(a, b) \/ IsPrefix(b, a)
  <2>1. (\A i \in 1 .. Len(a) : a[i] = x[i]) /\ (\A i \in 1 .. Len(b) : b[i] = x[i])
    BY <1>1, <1>5, PrefixForm
  <2>2. CASE Len(a) <= Len(b)
    <3>1. \A i \in 1 .. Len(a) : a[i] = b[i] BY <1>1, <2>1, <2>2
    <3> QED BY <1>1, <2>2, <3>1, PrefixForm
  <2>3. CASE Len(b) <= Len(a)
    <3>1. \A i \in 1 .. Len(b) : b[i] = a[i] BY <1>1, <2>1, <2>3
    <3> QED BY <1>1, <2>3, <3>1, PrefixForm
  <2> QED BY <1>1, <2>2, <2>3
<1> QED BY <1>2, <1>3, <1>4, <1>5

LEMMA ParentOrder ==
  ASSUME NEW a \in Key, NEW x \in Key
  PROVE  /\ IsPrefix(Parent(x), x)
         /\ IsStrictPrefix(a, x) <=> ~IsRoot(x) /\ IsPrefix(a, Parent(x))
         /\ IsStrictPrefix(a, x) => Len(a) < Len(x)
         /\ IsRoot(x) /\ IsPrefix(a, x) => a = x
<1>1. /\ a \in Seq(Name) /\ x \in Seq(Name) /\ Parent(x) \in Seq(Name)
      /\ Len(a) \in Nat \ {0} /\ Len(x) \in Nat \ {0}
  BY ParentForm
<1>2. IsPrefix(Parent(x), x)
  <2>1. CASE IsRoot(x)
    <3>1. Parent(x) = x BY <2>1, ParentForm
    <3> QED BY <3>1, KeyOrder
  <2>2. CASE ~IsRoot(x)
    <3>1. Len(Parent(x)) <= Len(x) /\ \A i \in 1 .. Len(Parent(x)) : Parent(x)[i] = x[i]
      BY <1>1, <2>2, ParentForm
    <3> QED BY <1>1, <3>1, PrefixForm
  <2> QED BY <2>1, <2>2
<1>3. ASSUME IsStrictPrefix(a, x) PROVE Len(a) < Len(x)
  <2>1. Len(a) <= Len(x) /\ (\A i \in 1 .. Len(a) : a[i] = x[i]) /\ a # x
    BY <1>1, <1>3, PrefixForm DEF IsStrictPrefix
  <2>2. Len(a) # Len(x) BY <1>1, <2>1, SeqEqual
  <2> QED BY <1>1, <2>1, <2>2
<1>4. ASSUME IsRoot(x), IsPrefix(a, x) PROVE a = x
  <2>1. ~(Len(a) < Len(x)) BY <1>1, <1>4 DEF IsRoot
  <2> QED BY <1>3, <1>4, <2>1 DEF IsStrictPrefix
<1>5. ASSUME IsStrictPrefix(a, x) PROVE ~IsRoot(x) /\ IsPrefix(a, Parent(x))
  <2>1. ~IsRoot(x) BY <1>4, <1>5 DEF IsStrictPrefix
  <2>2. \A i \in 1 .. Len(a) : a[i] = x[i] BY <1>1, <1>5, PrefixForm DEF IsStrictPrefix
  <2>3. Len(Parent(x)) = Len(x) - 1 /\ \A i \in 1 .. Len(x) - 1 : Parent(x)[i] = x[i]
    BY <2>1, ParentForm
  <2>4. Len(a) <= Len(Parent(x)) /\ \A i \in 1 .. Len(a) : a[i] = Parent(x)[i]
    BY <1>1, <1>3, <1>5, <2>2, <2>3
  <2> QED BY <1>1, <2>1, <2>4, PrefixForm
<1>6. ASSUME ~IsRoot(x), IsPrefix(a, Parent(x)) PROVE IsStrictPrefix(a, x)
  <2>1. IsPrefix(a, x) BY <1>2, <1>6, KeyParts, KeyOrder
  <2>2. Len(a) <= Len(x) - 1 BY <1>1, <1>6, ParentForm, PrefixForm
  <2>3. a # x BY <1>1, <2>2
  <2> QED BY <2>1, <2>3 DEF IsStrictPrefix
<1> QED BY <1>2, <1>3, <1>4, <1>5, <1>6

\* What is at or above field or member f of k.
LEMMA ChildOrder ==
  ASSUME NEW a \in Key, NEW k \in Key, NEW f \in Name
  PROVE  IsPrefix(a, Child(k, f)) <=> IsPrefix(a, k) \/ a = Child(k, f)
<1> DEFINE c == Append(k, f)
           n == Len(k)
<1>1. a \in Seq(Name) /\ k \in Seq(Name) /\ Len(a) \in Nat /\ n \in Nat BY ParentForm
<1>2. c \in Seq(Name) /\ Len(c) = n + 1 /\ \A i \in 1 .. n : c[i] = k[i]
  BY <1>1, AppendProperties
<1> HIDE DEF c, n
<1>3. ASSUME IsPrefix(a, c), a # c PROVE IsPrefix(a, k)
  <2>1. Len(a) <= n + 1 /\ \A i \in 1 .. Len(a) : a[i] = c[i] BY <1>1, <1>2, <1>3, PrefixForm
  <2>2. Len(a) # n + 1 BY <1>1, <1>2, <1>3, <2>1, SeqEqual
  <2>3. Len(a) <= n /\ \A i \in 1 .. Len(a) : a[i] = k[i] BY <1>1, <1>2, <2>1, <2>2
  <2> QED BY <1>1, <2>3, PrefixForm DEF n
<1>4. ASSUME IsPrefix(a, k) PROVE IsPrefix(a, c)
  <2>1. Len(a) <= n /\ \A i \in 1 .. Len(a) : a[i] = k[i] BY <1>1, <1>4, PrefixForm DEF n
  <2>2. Len(a) <= n + 1 /\ \A i \in 1 .. Len(a) : a[i] = c[i] BY <1>1, <1>2, <2>1
  <2> QED BY <1>1, <1>2, <2>2, PrefixForm
<1>5. IsPrefix(c, c) BY <1>2, <1>1, PrefixForm
<1> QED BY <1>3, <1>4, <1>5 DEF Child, c
\* Nothing of the schema lies below a record.
LEMMA BelowRecord ==
  ASSUME NEW k \in Record, NEW x \in InSchema PROVE ~IsStrictPrefix(k, x)
<1> SUFFICES ASSUME IsStrictPrefix(k, x) PROVE FALSE OBVIOUS
<1> DEFINE T == {Len(y) : y \in {z \in InSchema : IsStrictPrefix(k, z)}}
<1>1. \A y \in InSchema : y \in Key /\ Len(y) \in Nat BY SchemaKeys, ParentForm
<1>2. PICK y \in InSchema : IsStrictPrefix(k, y) /\ \A n \in T : Len(y) <= n
  <2>1. T \subseteq Nat /\ T # {} BY <1>1
  <2> HIDE DEF T
  <2>2. PICK m \in T : \A n \in T : m <= n BY <2>1, LeastNumber
  <2> QED BY <2>2 DEF T
<1>3. k \in Key /\ ~IsRoot(y) /\ IsPrefix(k, Parent(y)) BY <1>1, <1>2, SchemaKeys, ParentOrder
<1>4. Parent(y) \in Object /\ Parent(y) \in InSchema BY <1>3, SchemaKeys
<1>5. k # Parent(y) BY <1>4, SchemaAssumption
<1>6. Len(Parent(y)) \in T BY <1>3, <1>4, <1>5 DEF IsStrictPrefix
<1>7. Len(Parent(y)) < Len(y)
  <2>1. Len(Parent(y)) = Len(y) - 1 BY <1>1, <1>3, ParentForm
  <2> QED BY <1>1, <2>1
<1> QED BY <1>1, <1>2, <1>3, <1>6, <1>7

\* Where every key is listed, a key with something below it is stored itself.
LEMMA Chain ==
  ASSUME \A k \in Key : ~Unlisted(k), NEW a \in Key, NEW x \in Below(a), Stored(x)
  PROVE  IsSetKey(a)
<1> DEFINE T == {Len(y) : y \in {z \in Below(a) : Stored(z)}}
<1>1. \A y \in Key : Len(y) \in Nat BY ParentForm
<1>2. PICK y \in Below(a) : Stored(y) /\ \A n \in T : Len(y) <= n
  <2>1. T \subseteq Nat /\ T # {} BY <1>1 DEF Below
  <2> HIDE DEF T
  <2>2. PICK m \in T : \A n \in T : m <= n BY <2>1, LeastNumber
  <2> QED BY <2>2 DEF T
<1>3. y \in Key /\ IsStrictPrefix(a, y) BY DEF Below
<1>4. ~IsRoot(y) /\ IsPrefix(a, Parent(y)) /\ Parent(y) \in Key BY <1>3, ParentOrder, KeyParts
<1>5. Base(y) \in set[Parent(y)] BY <1>2, <1>3, <1>4 DEF Unlisted
<1>6. CASE Parent(y) = a BY <1>5, <1>6 DEF IsSetKey
<1>7. CASE Parent(y) # a
  <2>1. Parent(y) \in Below(a) BY <1>4, <1>7 DEF Below, IsStrictPrefix
  <2>2. Stored(Parent(y)) BY <1>5 DEF Stored, IsSetKey
  <2>3. Len(Parent(y)) \in T BY <2>1, <2>2
  <2>4. Len(Parent(y)) = Len(y) - 1 BY <1>3, <1>4, ParentForm
  <2> QED BY <1>1, <1>2, <1>3, <2>3, <2>4
<1> QED BY <1>6, <1>7
-----------------------------------------------------------------------------
(***************************************************************************)
(* The only client, and its history.                                       *)
(***************************************************************************)
LEMMA OnlyMe == Me \in Client /\ \A c \in Client : c = Me
BY OneClient DEF Me

LEMMA SoloFacts ==
  ASSUME SoloBase
  PROVE  /\ job[Me] \in Job /\ HasArguments(job[Me]) /\ CallConforms(job[Me])
         /\ RefusedOnlyAtRootRecord
         /\ StoreTyped /\ StoreConforms /\ CountsTyped /\ TypeInv /\ BeforeTyped
         /\ \A j : Go(Me, j) => job'[Me] = j
BY OnlyMe, ConformsFits
   DEF SoloBase, SchemaInv, TypeInv, JobsGood, JobsConform, Go

\* A served command that is not executed or not answered is a fault of this call.
LEMMA AnsweredOne ==
  ASSUME CountsTyped, BeforeTyped, NEW r \in Outcome(TRUE), UNCHANGED before, Calm',
         faults' = faults + (IF r.ok = TRUE THEN 0 ELSE 1)
  PROVE  r.ok /\ r.done /\ Calm
<1>1. faults \in Nat /\ before.faults \in Nat /\ before.faults <= faults
  BY CommandAssumption DEF CountsTyped, BeforeTyped, History
<1>2. CASE r = [done |-> TRUE, ok |-> TRUE] BY <1>1, <1>2 DEF Calm
<1>3. CASE \E d \in BOOLEAN : r = [done |-> d, ok |-> FALSE]
  <2>1. r.ok = FALSE BY <1>3
  <2>2. faults' = faults + 1 BY <2>1
  <2> QED BY <1>1, <2>2 DEF Calm
<1> QED BY <1>2, <1>3 DEF Outcome

\* A refused command is none.
LEMMA RefusedOne ==
  ASSUME CountsTyped, NEW r \in Outcome(FALSE), UNCHANGED before, Calm',
         faults' = faults + (IF r.ok = FALSE THEN 0 ELSE 1)
  PROVE  ~r.ok /\ ~r.done /\ Calm
<1>1. faults \in Nat BY CommandAssumption DEF CountsTyped
<1>2. r = [done |-> FALSE, ok |-> FALSE] BY DEF Outcome
<1>3. r.ok = FALSE /\ r.done = FALSE BY <1>2
<1>4. faults' = faults + 0 BY <1>3
<1> QED BY <1>1, <1>3, <1>4 DEF Calm

LEMMA CommandAnswered ==
  ASSUME SoloBase, NEW r \in Reply, Command(Me, r), UNCHANGED before, Calm',
         NEW j, j = job[Me]
  PROVE  /\ Calm
         /\ j.pc \notin {"rm_srem", "rm_card"} \/ SetFits(Parent(j.at)) => r.ok /\ r.done
         /\ j.pc \in {"rm_srem", "rm_card"} /\ ~SetFits(Parent(j.at)) => ~r.ok /\ ~r.done
<1>1. CountsTyped /\ BeforeTyped BY SoloFacts
<1>2. j.pc \notin {"rm_srem", "rm_card"} => NextFits(j)
  BY OnlyMe, SoloFacts DEF RefusedOnlyAtRootRecord
<1>3. ASSUME NEW fits, fits = TRUE, r \in Outcome(fits),
             faults' = faults + (IF r.ok = fits THEN 0 ELSE 1)
      PROVE  r.ok /\ r.done /\ Calm
  BY <1>1, <1>3, AnsweredOne
<1>4. ASSUME NEW fits, fits = FALSE, r \in Outcome(fits),
             faults' = faults + (IF r.ok = fits THEN 0 ELSE 1)
      PROVE  ~r.ok /\ ~r.done /\ Calm
  BY <1>1, <1>4, RefusedOne
<1>5. CASE \/ UpdKeys(Me, r) \/ ClimbKeys(Me, r) \/ DelKeys(Me, r) \/ DelIsHash(Me, r)
           \/ RmType(Me, r) \/ RmKids(Me, r) \/ RmKid(Me, r) \/ RmDel(Me, r)
  <2>1. r.ok /\ r.done /\ Calm
    BY <1>3, <1>5 DEF UpdKeys, ClimbKeys, DelKeys, DelIsHash, RmType, RmKids, RmKid, RmDel,
                      Served, Executed
  <2>2. j.pc \notin {"rm_srem", "rm_card"}
    BY <1>5 DEF UpdKeys, ClimbKeys, DelKeys, DelIsHash, RmType, RmKids, RmKid, RmDel, At
  <2> QED BY <2>1, <2>2
<1>6. CASE UpdHexists(Me, r) \/ ValHset(Me, r) \/ AddHset(Me, r) \/ DelHexists(Me, r) \/ DelHdel(Me, r)
  <2>1. j.pc \in {"upd_hexists", "val_hset", "add_hset", "del_hexists", "del_hdel"}
    BY <1>6 DEF UpdHexists, ValHset, AddHset, DelHexists, DelHdel, At
  <2>2. NextFits(j) BY <1>2, <2>1
  <2>3. HashFits(Parent(j.key)) BY <2>1, <2>2 DEF NextFits, AddPC
  <2>4. HashFits(Parent(j.key)) = TRUE BY <2>3 DEF HashFits
  <2>5. r.ok /\ r.done /\ Calm
    BY <1>3, <1>6, <2>4 DEF UpdHexists, ValHset, AddHset, DelHexists, DelHdel, Served, Executed
  <2> QED BY <2>1, <2>5
<1>7. SetFits(Parent(j.at)) \in BOOLEAN BY DEF SetFits
<1>8. CASE ClimbSadd(Me, r)
  <2>1. j.pc = "climb_sadd" BY <1>8 DEF ClimbSadd, At
  <2>2. NextFits(j) BY <1>2, <2>1
  <2>3. SetFits(Parent(j.at)) BY <2>1, <2>2 DEF NextFits, AddPC
  <2>4. SetFits(Parent(j.at)) = TRUE BY <1>7, <2>3
  <2>5. r.ok /\ r.done /\ Calm BY <1>3, <1>8, <2>4 DEF ClimbSadd, Served, Executed
  <2> QED BY <2>1, <2>5
<1>9. CASE RmSrem(Me, r) \/ RmCard(Me, r)
  <2>1. j.pc \in {"rm_srem", "rm_card"} BY <1>9 DEF RmSrem, RmCard, At
  <2>2. CASE SetFits(Parent(j.at))
    <3>1. SetFits(Parent(j.at)) = TRUE BY <1>7, <2>2
    <3>2. r.ok /\ r.done /\ Calm BY <1>3, <1>9, <3>1 DEF RmSrem, RmCard, Served, Executed
    <3> QED BY <2>2, <3>2
  <2>3. CASE ~SetFits(Parent(j.at))
    <3>1. SetFits(Parent(j.at)) = FALSE BY <1>7, <2>3
    <3>2. ~r.ok /\ ~r.done /\ Calm BY <1>4, <1>9, <3>1 DEF RmSrem, RmCard, Served, Executed
    <3> QED BY <2>1, <2>3, <3>2
  <2> QED BY <2>2, <2>3
<1>10. CASE RmScard(Me, r)
  <2>1. j.pc = "rm_scard" BY <1>10 DEF RmScard, At
  <2>2. NextFits(j) BY <1>2, <2>1
  <2>3. SetFits(j.at) BY <2>1, <2>2 DEF NextFits, AddPC
  <2>4. SetFits(j.at) = TRUE BY <2>3 DEF SetFits
  <2>5. r.ok /\ r.done /\ Calm BY <1>3, <1>10, <2>4 DEF RmScard, Served, Executed
  <2> QED BY <2>1, <2>5
<1>11. CASE AddProbe(Me, r) \/ AddWrite(Me, r)
  <2>1. j.pc \in AddPC BY <1>11 DEF AddProbe, AddWrite, At, AddPC
  <2>2. NextFits(j) BY <1>2, <2>1 DEF AddPC
  <2>3. Fits(Head(j.todo)) BY <2>1, <2>2 DEF NextFits, AddPC
  <2>4. Fits(Head(j.todo)) = TRUE BY <2>3 DEF Fits, SetFits, HashFits
  <2>5. r.ok /\ r.done /\ Calm BY <1>3, <1>11, <2>4 DEF AddProbe, AddWrite, Served, Executed
  <2> QED BY <2>1, <2>5 DEF AddPC
<1> QED BY <1>5, <1>6, <1>8, <1>10, <1>11, <1>9 DEF Command, Writing, Removing
-----------------------------------------------------------------------------
(***************************************************************************)
(* The frame of each step.                                                 *)
(***************************************************************************)
Same(j, k) == k.op = j.op /\ k.key = j.key /\ k.value = j.value

LEMMA Returns ==
  ASSUME NEW j, NEW ok
  PROVE  LET k == Return(j, ok) IN
         k.pc = "idle" /\ Same(j, k) /\ k.ok = ok /\ k.stack = <<>>
BY DEF Return, Idle, Same

\* A call begins: before is what it is and what it finds.
LEMMA CallBegins ==
  ASSUME SoloBase, SoloNext, NEW k, Call(Me, k)
  PROVE  /\ job[Me].pc = "idle" /\ job'[Me] = k /\ flushing = {}
         /\ UNCHANGED <<set, hash, flushing, faults>> /\ updates' = [updates EXCEPT ![Me] = {}]
         /\ before' = [call |-> k.op, set |-> set, hash |-> hash, ok |-> job[Me].ok,
                       found |-> k.key \in Key /\ Stored(k.key), doc |-> k.todo, faults |-> faults]
<1>1. ops \in Nat /\ ops' = ops + 1 BY SoloFacts, CommandAssumption DEF CountsTyped, Call
<1>2. job'[Me] = k BY SoloFacts DEF Call
<1>3. flushing = {}
  <2>1. flushing \subseteq {Me} /\ Me \notin flushing BY OnlyMe, SoloFacts DEF CountsTyped, Call
  <2> QED BY <2>1
<1>4. flushing' = flushing BY DEF Call
<1>5. before' = [call |-> k.op, set |-> set, hash |-> hash, ok |-> job[Me].ok,
                 found |-> k.key \in Key /\ Stored(k.key), doc |-> k.todo, faults |-> faults]
  BY <1>1, <1>2, <1>4 DEF SoloNext
<1> QED BY <1>2, <1>3, <1>5 DEF Call, At

\* What a command leaves as it was.
LEMMA CommandFrame ==
  ASSUME SoloBase, SoloNext, NEW r \in Reply, Command(Me, r)
  PROVE  /\ UNCHANGED <<before, ops, flushing>>
         /\ InCall(Me) /\ flushing = {}
<1>1. UNCHANGED <<ops, flushing>>
  BY DEF Command, Writing, Removing, Served,
         UpdKeys, UpdHexists, ValHset, AddHset, ClimbSadd, ClimbKeys, AddProbe, AddWrite,
         DelKeys, DelIsHash, DelHexists, DelHdel,
         RmType, RmScard, RmKids, RmKid, RmSrem, RmCard, RmDel
<1>2. InCall(Me)
  BY DEF InCall, At, Command, Writing, Removing,
         UpdKeys, UpdHexists, ValHset, AddHset, ClimbSadd, ClimbKeys, AddProbe, AddWrite,
         DelKeys, DelIsHash, DelHexists, DelHdel,
         RmType, RmScard, RmKids, RmKid, RmSrem, RmCard, RmDel
<1>3. flushing = {} BY <1>2 DEF SoloBase, Bookkeeping, InCall
<1> QED BY <1>1, <1>2, <1>3 DEF SoloNext

\* A command goes on with its call, returns, or ends the process.
LEMMA CommandGoesOn ==
  ASSUME SoloBase, NEW r \in Reply, Command(Me, r), NEW j, j = job[Me], NEW k, k = job'[Me]
  PROVE  \/ k.pc = "crashed" /\ k.op = "none" /\ k.stack = <<>>
         \/ Same(j, k) /\ (k.pc \notin RemovePC => k.stack = <<>>)
<1>1. j \in Job /\ \A s : Go(Me, s) => k = s BY SoloFacts
<1>2. j.pc \notin RemovePC => j.stack = <<>> BY DEF SoloBase, Bookkeeping
<1>3. \A s, ok : k = Return(s, ok) => Same(s, k) /\ k.stack = <<>> BY Returns
<1>4. \A s, t : Same(j, s) /\ Same(s, t) => Same(j, t) BY DEF Same
<1>5. ASSUME NEW pc, k = [j EXCEPT !.pc = pc] PROVE Same(j, k) /\ k.stack = j.stack /\ k.pc = pc
  BY <1>1, <1>5 DEF Same, Job
<1>6. CASE UpdKeys(Me, r) \/ UpdHexists(Me, r)
  <2>1. j.stack = <<>> BY <1>2, <1>6 DEF UpdKeys, UpdHexists, At, RemovePC
  <2>2. \/ k = Return(j, FALSE)
        \/ k = [j EXCEPT !.pc = "val_hset"]
        \/ k = [j EXCEPT !.pc = "upd_hexists"]
        \/ k = [j EXCEPT !.pc = "add_hset"]
    BY <1>1, <1>6 DEF UpdKeys, UpdHexists, HashValue
  <2> QED BY <1>3, <1>5, <2>1, <2>2
<1>7. CASE ValHset(Me, r)
  <2>1. k = Return(j, r.ok) BY <1>1, <1>7 DEF ValHset
  <2> QED BY <1>3, <2>1
<1>8. CASE AddHset(Me, r) \/ ClimbKeys(Me, r)
  <2>1. j.stack = <<>> BY <1>2, <1>8 DEF AddHset, ClimbKeys, At, RemovePC
  <2>2. ASSUME NEW s, Climb(Me, s), Same(j, s), s.stack = <<>>, s \in Job PROVE Same(j, k) /\ k.stack = <<>>
    <3>1. CASE k = Return(s, s.ok) BY <1>3, <1>4, <2>2, <3>1
    <3>2. CASE k = [s EXCEPT !.pc = "climb_sadd"] BY <2>2, <3>2 DEF Same, Job
    <3> QED BY <1>1, <2>2, <3>1, <3>2 DEF Climb
  <2>3. CASE AddHset(Me, r)
    <3>1. PICK s : s = [j EXCEPT !.at = Parent(j.key), !.ok = r.ok] OBVIOUS
    <3>2. j.key \in Key BY <2>3, SoloFacts DEF AddHset, At, HasArguments, UpdatePC
    <3>3. s \in Job BY <1>1, <3>1, <3>2, KeyParts DEF Job, Reply
    <3>4. Climb(Me, s) BY <2>3, <3>1 DEF AddHset
    <3>5. Same(j, s) /\ s.stack = <<>> BY <1>1, <2>1, <3>1 DEF Same, Job
    <3> QED BY <2>1, <2>2, <3>3, <3>4, <3>5
  <2>4. CASE ClimbKeys(Me, r)
    <3>1. PICK s : s = [j EXCEPT !.at = Parent(j.at)] OBVIOUS
    <3>2. j.at \in Key BY <2>4, SoloFacts DEF ClimbKeys, At, HasArguments, ClimbPC
    <3>3. s \in Job BY <1>1, <3>1, <3>2, KeyParts DEF Job
    <3>4. Climb(Me, s) \/ k = Return(j, j.ok) BY <1>1, <2>4, <3>1 DEF ClimbKeys
    <3>5. Same(j, s) /\ s.stack = <<>> BY <1>1, <2>1, <3>1 DEF Same, Job
    <3> QED BY <1>3, <2>2, <3>3, <3>4, <3>5
  <2> QED BY <1>8, <2>3, <2>4
<1>9. CASE ClimbSadd(Me, r)
  <2>1. j.stack = <<>> BY <1>2, <1>9 DEF ClimbSadd, At, RemovePC
  <2>2. k = [j EXCEPT !.pc = "climb_keys", !.ok = @ /\ r.ok] BY <1>1, <1>9 DEF ClimbSadd
  <2> QED BY <1>1, <2>1, <2>2 DEF Same, Job
<1>10. CASE DelKeys(Me, r)
  <2>1. j.stack = <<>> BY <1>2, <1>10 DEF DelKeys, At, RemovePC
  <2>2. \/ k = [j EXCEPT !.pc = "rm_type", !.at = j.key]
        \/ k = [j EXCEPT !.pc = "del_ishash"]
    BY <1>1, <1>10 DEF DelKeys
  <2> QED BY <1>1, <2>1, <2>2 DEF Same, Job
<1>11. CASE RmType(Me, r)
  <2>1. PICK pc : k = [j EXCEPT !.ok = r.ok, !.pc = pc] /\ pc \in RemovePC
    BY <1>1, <1>11 DEF RmType, RemovePC
  <2> QED BY <1>1, <2>1 DEF Same, Job
<1>12. CASE RmScard(Me, r)
  <2>1. PICK some : k = [j EXCEPT !.pc = "rm_kids", !.ok = @ /\ some] BY <1>1, <1>12 DEF RmScard
  <2> QED BY <1>1, <2>1 DEF Same, Job, RemovePC
<1>13. CASE RmKids(Me, r)
  <2>1. PICK pc, kids : /\ k = [j EXCEPT !.pc = pc, !.kids = kids, !.ok = @ /\ kids # {}]
                        /\ pc \in RemovePC
    BY <1>1, <1>13 DEF RmKids, RemovePC
  <2> QED BY <1>1, <2>1 DEF Same, Job
<1>14. CASE RmKid(Me, r)
  <2>1. PICK pc, kid : k = [j EXCEPT !.pc = pc, !.kids = @ \ {kid}] /\ pc \in RemovePC
    BY <1>1, <1>14 DEF RmKid, RemovePC
  <2> QED BY <1>1, <2>1 DEF Same, Job
<1>15. CASE RmSrem(Me, r)
  <2>1. k = [j EXCEPT !.pc = "rm_card", !.ok = @ /\ r.ok] BY <1>1, <1>15 DEF RmSrem
  <2> QED BY <1>1, <2>1 DEF Same, Job, RemovePC
<1>16. CASE DelIsHash(Me, r) \/ DelHexists(Me, r) \/ DelHdel(Me, r)
  <2>1. j.stack = <<>> BY <1>2, <1>16 DEF DelIsHash, DelHexists, DelHdel, At, RemovePC
  <2>2. \/ k = Return(j, FALSE) \/ k = Return(j, r.ok)
        \/ k = [j EXCEPT !.pc = "del_hexists"]
        \/ k = [j EXCEPT !.pc = "del_hdel"]
    BY <1>1, <1>16 DEF DelIsHash, DelHexists, DelHdel
  <2> QED BY <1>3, <1>5, <2>1, <2>2
<1>17. CASE RmCard(Me, r)
  <2>1. CASE Go(Me, [Idle EXCEPT !.pc = "crashed"]) BY <1>1, <2>1 DEF Idle
  <2>2. CASE Go(Me, [j EXCEPT !.pc = "rm_type", !.at = Parent(j.at),
                              !.stack = Append(@, [key |-> j.at, ok |-> j.ok])])
    <3>1. PICK p, s : k = [j EXCEPT !.pc = "rm_type", !.at = p, !.stack = s] BY <1>1, <2>2
    <3> QED BY <1>1, <3>1 DEF Same, Job, RemovePC
  <2>3. CASE Go(Me, [j EXCEPT !.pc = "rm_del"]) BY <1>1, <2>3 DEF Same, Job, RemovePC
  <2> QED BY <1>17, <2>1, <2>2, <2>3 DEF RmCard, RemoveParent
<1>18. CASE RmDel(Me, r)
  <2>1. CASE j.stack = <<>> BY <1>1, <1>3, <1>18, <2>1 DEF RmDel
  <2>2. CASE j.stack # <<>>
    <3>1. k = [j EXCEPT !.at = Last(j.stack).key, !.stack = Front(@),
                        !.ok = Last(j.stack).ok /\ @ /\ r.ok]
      BY <1>1, <1>18, <2>2 DEF RmDel
    <3>2. j.pc = "rm_del" BY <1>18 DEF RmDel, At
    <3> QED BY <1>1, <3>1, <3>2 DEF Same, Job, RemovePC
  <2> QED BY <2>1, <2>2
<1>19. CASE AddProbe(Me, r) \/ AddWrite(Me, r)
  <2>1. j.stack = <<>> BY <1>2, <1>19 DEF AddProbe, AddWrite, At, RemovePC
  <2>2. ASSUME NEW ok, k = NextItem(j, ok) PROVE Same(j, k) /\ k.stack = <<>>
    <3>1. PICK s : s = [j EXCEPT !.ok = @ /\ (IsRoot(Head(j.todo).at) => ok), !.todo = Tail(@)] OBVIOUS
    <3>2. Same(j, s) /\ s.stack = <<>> BY <1>1, <2>1, <3>1 DEF Same, Job
    <3>3. CASE k = Return(s, s.ok) BY <1>3, <1>4, <3>2, <3>3
    <3>4. CASE k = [s EXCEPT !.pc = "add_probe"] BY <1>1, <2>1, <3>1, <3>4 DEF Same, Job
    <3> QED BY <2>2, <3>1, <3>3, <3>4 DEF NextItem
  <2>3. \/ k = NextItem(j, FALSE) \/ k = NextItem(j, Head(j.todo).object /\ r.ok)
        \/ k = [j EXCEPT !.pc = "add_write"]
    BY <1>1, <1>19 DEF AddProbe, AddWrite
  <2> QED BY <1>5, <2>1, <2>2, <2>3
<1> QED BY <1>6, <1>7, <1>8, <1>9, <1>10, <1>11, <1>12, <1>13, <1>14, <1>15, <1>16, <1>17, <1>18, <1>19
    DEF Command, Writing, Removing

\* The steps of the only client.
LEMMA SoloSteps ==
  ASSUME SoloNext
  PROVE  \/ Update(Me) \/ Delete(Me) \/ AddConfig(Me) \/ Clear(Me) \/ FlushAll(Me) \/ Kill(Me)
         \/ \E r \in Reply : Command(Me, r)
BY OnlyMe DEF SoloNext, Next, Step

\* The history of a call that begins is well typed.
LEMMA HistoryBegins ==
  ASSUME SoloBase, NEW op \in {"update", "delete", "add", "clear"}, NEW found \in BOOLEAN,
         NEW doc \in Seq(Item), faults' = faults,
         before' = [call |-> op, set |-> set, hash |-> hash, ok |-> job[Me].ok,
                    found |-> found, doc |-> doc, faults |-> faults]
  PROVE  BeforeTyped'
<1>1. job[Me].ok \in BOOLEAN BY SoloFacts DEF Job
<1>2. set \in [Key -> SUBSET Name] /\ hash \in [Key -> [Name -> Value \cup {Absent}]]
  BY SoloFacts DEF StoreTyped
<1>3. faults \in 0 .. MaxFaults /\ faults \in Nat BY SoloFacts, CommandAssumption DEF CountsTyped
<1>4. before' \in History BY <1>1, <1>2, <1>3 DEF History
<1>5. before'.faults = faults /\ before'.hash = hash BY DEF History
<1>6. StoreConforms BY DEF SoloBase, SchemaInv
<1>7. \A k \in Key, f \in Name : hash[k][f] # Absent => k \in Record
  BY <1>6 DEF StoreConforms, IsHashKey
<1> QED BY <1>3, <1>4, <1>5, <1>7 DEF BeforeTyped

LEMMA BeginsBase ==
  ASSUME SoloBase, SoloNext, NEW k \in Job, Call(Me, k), k.pc # "idle",
         k.op \in {"update", "delete", "add"}, k.stack = <<>>,
         k.op = "delete" => k.key \in DeleteKey
  PROVE  BeforeTyped' /\ Bookkeeping'
<1>1. /\ job'[Me] = k /\ flushing = {} /\ UNCHANGED <<flushing, faults>>
      /\ before' = [call |-> k.op, set |-> set, hash |-> hash, ok |-> job[Me].ok,
                    found |-> k.key \in Key /\ Stored(k.key), doc |-> k.todo, faults |-> faults]
  BY CallBegins
<1>2. (k.key \in Key /\ Stored(k.key)) \in BOOLEAN BY DEF Stored
<1>3. k.todo \in Seq(Item) BY DEF Job
<1>4. BeforeTyped' BY <1>1, <1>2, <1>3, HistoryBegins
<1>5. before'.call = k.op BY <1>1
<1> QED BY <1>1, <1>4, <1>5 DEF Bookkeeping

LEMMA ClearBase ==
  ASSUME SoloBase, SoloNext, Clear(Me)
  PROVE  /\ BeforeTyped' /\ Bookkeeping'
         /\ before'.call = "clear" /\ job'[Me].pc = "idle" /\ UNCHANGED <<set, hash, job, faults>>
<1>1. ops \in Nat /\ ops' = ops + 1 BY SoloFacts, CommandAssumption DEF CountsTyped, Clear
<1>2. flushing' # flushing /\ Me \in flushing' BY DEF Clear
<1>3. UNCHANGED <<set, hash, job, faults>> /\ job[Me].pc = "idle" BY DEF Clear, At
<1>4. before' = [call |-> "clear", set |-> set, hash |-> hash, ok |-> job[Me].ok,
                 found |-> job[Me].key \in Key /\ Stored(job[Me].key),
                 doc |-> job[Me].todo, faults |-> faults]
  BY <1>1, <1>2, <1>3 DEF SoloNext
<1>5. (job[Me].key \in Key /\ Stored(job[Me].key)) \in BOOLEAN BY DEF Stored
<1>6. job[Me].todo \in Seq(Item) BY SoloFacts DEF Job
<1>7. BeforeTyped' BY <1>3, <1>4, <1>5, <1>6, HistoryBegins
<1>8. before'.call = "clear" BY <1>4
<1>9. Bookkeeping' BY <1>3, <1>8 DEF Bookkeeping, SoloBase, InCall
<1> QED BY <1>3, <1>7, <1>8, <1>9

LEMMA RestBase ==
  ASSUME SoloBase, SoloNext
  PROVE  /\ FlushAll(Me) => /\ BeforeTyped' /\ Bookkeeping' /\ UNCHANGED <<before, job, updates>>
                            /\ job[Me].pc = "idle" /\ before.call = "clear"
         /\ Kill(Me) => /\ BeforeTyped' /\ Bookkeeping' /\ UNCHANGED <<set, hash, before>>
                        /\ faults' # before.faults
                        /\ job'[Me] = Idle /\ InCall(Me)
<1>1. /\ faults \in Nat /\ before.faults \in Nat /\ before.faults <= faults
      /\ BeforeTyped /\ Bookkeeping
  BY SoloFacts, CommandAssumption DEF CountsTyped, BeforeTyped, History, SoloBase
<1>2. ASSUME FlushAll(Me)
      PROVE  /\ BeforeTyped' /\ Bookkeeping' /\ UNCHANGED <<before, job, updates>>
             /\ job[Me].pc = "idle" /\ before.call = "clear"
  <2>1. UNCHANGED <<before, job, updates>> BY <1>2 DEF SoloNext, FlushAll
  <2>2. job[Me].pc = "idle" /\ before.call = "clear" BY <1>1, <1>2 DEF Bookkeeping, FlushAll
  <2>3. faults' \in {faults, faults + 1}
    <3>1. PICK r : faults' = faults + (IF r.ok = TRUE THEN 0 ELSE 1) BY <1>2 DEF FlushAll, Executed
    <3>2. CASE r.ok = TRUE BY <1>1, <3>1, <3>2
    <3>3. CASE r.ok # TRUE BY <3>1, <3>3
    <3> QED BY <3>2, <3>3
  <2>4. BeforeTyped' BY <1>1, <2>1, <2>3 DEF BeforeTyped
  <2>5. Bookkeeping' BY <1>1, <2>1, <2>2 DEF Bookkeeping, InCall
  <2> QED BY <2>1, <2>2, <2>4, <2>5
<1>3. ASSUME Kill(Me)
      PROVE  /\ BeforeTyped' /\ Bookkeeping' /\ UNCHANGED <<set, hash, before>>
             /\ faults' # before.faults
             /\ job'[Me] = Idle /\ InCall(Me)
  <2>1. UNCHANGED <<before, set, hash, flushing>> BY <1>3 DEF SoloNext, Kill
  <2>2. job'[Me] = Idle /\ InCall(Me) BY <1>3, SoloFacts DEF Kill
  <2>3. flushing = {} BY <1>1, <2>2 DEF Bookkeeping, InCall
  <2>4. faults' = faults + 1 BY <1>3 DEF Kill
  <2>5. BeforeTyped' BY <1>1, <2>1, <2>4 DEF BeforeTyped
  <2>6. Bookkeeping' BY <2>1, <2>2, <2>3 DEF Bookkeeping, InCall, Idle
  <2> QED BY <1>1, <2>1, <2>2, <2>4, <2>5, <2>6
<1> QED BY <1>2, <1>3

LEMMA CommandBase ==
  ASSUME SoloBase, SoloNext, NEW r \in Reply, Command(Me, r)
  PROVE  BeforeTyped' /\ Bookkeeping'
<1>1. UNCHANGED <<before, ops, flushing>> /\ InCall(Me) /\ flushing = {} BY CommandFrame
<1>2. PICK k : k = job'[Me] OBVIOUS
<1>3. PICK j : j = job[Me] OBVIOUS
<1>4. \/ k.pc = "crashed" /\ k.op = "none" /\ k.stack = <<>>
      \/ Same(j, k) /\ (k.pc \notin RemovePC => k.stack = <<>>)
  BY <1>2, <1>3, CommandGoesOn
<1>5. faults \in Nat /\ before.faults \in Nat /\ BeforeTyped
  BY SoloFacts, CommandAssumption DEF CountsTyped, BeforeTyped, History
<1>6. faults' \in Nat /\ faults <= faults'
  <2>1. PICK fits : faults' = faults + (IF r.ok = fits THEN 0 ELSE 1)
    BY DEF Command, Writing, Removing, Served, Executed,
           UpdKeys, UpdHexists, ValHset, AddHset, ClimbSadd, ClimbKeys, AddProbe, AddWrite,
           DelKeys, DelIsHash, DelHexists, DelHdel,
           RmType, RmScard, RmKids, RmKid, RmSrem, RmCard, RmDel
  <2>2. CASE r.ok = fits BY <1>5, <2>1, <2>2
  <2>3. CASE r.ok # fits BY <1>5, <2>1, <2>3
  <2> QED BY <2>2, <2>3
<1>7. BeforeTyped' BY <1>1, <1>5, <1>6 DEF BeforeTyped
<1>8. /\ before.call = j.op /\ (j.op = "delete" => j.key \in DeleteKey)
  BY <1>1, <1>3 DEF SoloBase, Bookkeeping
<1>9. Bookkeeping'
  BY <1>1, <1>2, <1>4, <1>8 DEF Bookkeeping, InCall, Same
<1> QED BY <1>7, <1>9

LEMMA BaseNext == ASSUME SoloBase, SoloNext PROVE SoloBase'
<1>1. SchemaInv' BY NextConforms DEF SoloBase, SoloNext
<1>2. CASE Update(Me)
  <2>1. PICK key \in UpdateKey, v \in Value :
          Call(Me, [Idle EXCEPT !.pc = "upd_keys", !.op = "update", !.key = key, !.value = v])
    BY <1>2 DEF Update
  <2>2. PICK k : k = [Idle EXCEPT !.pc = "upd_keys", !.op = "update", !.key = key, !.value = v] OBVIOUS
  <2>3. k \in Job BY <2>2, CommandAssumption, IdleTypes DEF Job, Label, UpdatePC, DeletePC, AddPC
  <2>4. k.pc = "upd_keys" /\ k.op = "update" /\ k.stack = <<>> BY <2>2 DEF Idle
  <2> QED BY <1>1, <2>1, <2>2, <2>3, <2>4, BeginsBase DEF SoloBase
<1>3. CASE Delete(Me)
  <2>1. PICK key \in DeleteKey :
          Call(Me, [Idle EXCEPT !.pc = "del_keys", !.op = "delete", !.key = key])
    BY <1>3 DEF Delete
  <2>2. PICK k : k = [Idle EXCEPT !.pc = "del_keys", !.op = "delete", !.key = key] OBVIOUS
  <2>3. k \in Job BY <2>2, CommandAssumption, IdleTypes DEF Job, Label, UpdatePC, DeletePC, AddPC
  <2>4. k.pc = "del_keys" /\ k.op = "delete" /\ k.stack = <<>> /\ k.key = key BY <2>2 DEF Idle
  <2> QED BY <1>1, <2>1, <2>2, <2>3, <2>4, BeginsBase DEF SoloBase
<1>4. CASE AddConfig(Me)
  <2>1. PICK d \in Document :
          Call(Me, [Idle EXCEPT !.pc = "add_probe", !.op = "add", !.todo = d])
    BY <1>4 DEF AddConfig
  <2>2. PICK k : k = [Idle EXCEPT !.pc = "add_probe", !.op = "add", !.todo = d] OBVIOUS
  <2>3. k \in Job
    <3>1. d \in Seq(Item) BY CommandAssumption
    <3> QED BY <2>2, <3>1, IdleTypes DEF Job, Label, UpdatePC, DeletePC, AddPC
  <2>4. k.pc = "add_probe" /\ k.op = "add" /\ k.stack = <<>> BY <2>2 DEF Idle
  <2> QED BY <1>1, <2>1, <2>2, <2>3, <2>4, BeginsBase DEF SoloBase
<1>5. CASE Clear(Me) BY <1>1, <1>5, ClearBase DEF SoloBase
<1>6. CASE FlushAll(Me) \/ Kill(Me) BY <1>1, <1>6, RestBase DEF SoloBase
<1>7. CASE \E r \in Reply : Command(Me, r) BY <1>1, <1>7, CommandBase DEF SoloBase
<1> QED BY <1>2, <1>3, <1>4, <1>5, <1>6, <1>7, SoloSteps

LEMMA InitSolo == SoloInit => SoloInv
<1> SUFFICES ASSUME SoloInit PROVE SoloInv OBVIOUS
<1>1. SchemaInv BY InitTypes, InitConforms DEF SoloInit, SchemaInv
<1>2. /\ set \in [Key -> SUBSET Name] /\ hash \in [Key -> [Name -> Value \cup {Absent}]]
      /\ faults = 0 /\ job[Me] = Idle /\ flushing = {}
  BY <1>1, OnlyMe DEF SchemaInv, TypeInv, StoreTyped, SoloInit, Init
<1>3. BeforeTyped
  <2>1. 0 \in 0 .. MaxFaults /\ <<>> \in Seq(Item) BY CommandAssumption, EmptySeq
  <2>2. \A k \in Key, f \in Name : hash[k][f] # Absent => k \in Record
    BY <1>1 DEF SchemaInv, StoreConforms, IsHashKey
  <2> QED BY <1>2, <2>1, <2>2 DEF BeforeTyped, History, SoloInit
<1>4. Idle.pc = "idle" /\ Idle.stack = <<>> /\ Idle.op = "none" BY DEF Idle
<1>5. Bookkeeping BY <1>2, <1>4 DEF Bookkeeping, InCall
<1>6. before.call = "none" BY DEF SoloInit
<1>7. CallStands(Idle)
  BY <1>4, <1>6 DEF CallStands, Returned, UpdatePC, ClimbPC, DeletePC, RemovePC, AddPC
<1> QED BY <1>1, <1>2, <1>3, <1>5, <1>7 DEF SoloInv, SoloBase
-----------------------------------------------------------------------------
(***************************************************************************)
(* What an answered command leaves of its call, one lemma per command.     *)
(***************************************************************************)
LEMMA CallAnswered ==
  ASSUME SoloInv, NEW r \in Reply, Command(Me, r), UNCHANGED before, Calm',
         NEW j, j = job[Me], NEW k, k = job'[Me]
  PROVE  /\ CallStands(j) /\ InCall(Me) /\ before.call = j.op
         /\ j \in Job /\ HasArguments(j) /\ CallConforms(j)
         /\ StoreTyped /\ StoreConforms /\ before \in History
         /\ \A s : Go(Me, s) => k = s
<1>1. SoloBase BY DEF SoloInv
<1>2. Calm BY <1>1, CommandAnswered
<1>3. InCall(Me)
  BY DEF InCall, At, Command, Writing, Removing,
         UpdKeys, UpdHexists, ValHset, AddHset, ClimbSadd, ClimbKeys, AddProbe, AddWrite,
         DelKeys, DelIsHash, DelHexists, DelHdel,
         RmType, RmScard, RmKids, RmKid, RmSrem, RmCard, RmDel
<1>4. before.call = j.op BY <1>1, <1>3 DEF SoloBase, Bookkeeping
<1>5. CallStands(j) BY <1>2 DEF SoloInv
<1> QED BY <1>1, <1>2, <1>3, <1>4, <1>5, SoloFacts DEF BeforeTyped

LEMMA Answered ==
  ASSUME SoloInv, NEW r \in Reply, Command(Me, r), UNCHANGED before, Calm',
         NEW j, j = job[Me], NEW k, k = job'[Me], j.pc \notin {"rm_srem", "rm_card"}
  PROVE  /\ r.ok /\ r.done /\ CallStands(j) /\ InCall(Me) /\ before.call = j.op
         /\ j \in Job /\ HasArguments(j) /\ CallConforms(j)
         /\ StoreTyped /\ StoreConforms /\ before \in History
         /\ \A s : Go(Me, s) => k = s
<1>1. SoloBase BY DEF SoloInv
<1>2. r.ok /\ r.done BY <1>1, CommandAnswered
<1> QED BY <1>2, CallAnswered

\* Updates are of fields, and fields are in records, of which one at a root is its own parent.
LEMMA FieldFacts ==
  ASSUME StoreConforms, NEW x \in UpdateKey
  PROVE  /\ x \in Key /\ Parent(x) \in Record /\ Parent(x) \in Key /\ Base(x) \in Name
         /\ Stored(x) => IsRoot(x)
<1>1. x \in Key /\ Parent(x) \in Record /\ Parent(x) \in Key /\ Base(x) \in Name
  BY CommandAssumption, SchemaKeys, KeyParts
<1>2. ASSUME Stored(x), ~IsRoot(x) PROVE FALSE
  <2>1. x \in InSchema BY <1>1, <1>2 DEF Stored, StoreConforms, InSchema
  <2>2. Parent(x) \in Object BY <1>2, <2>1, SchemaKeys
  <2> QED BY <1>1, <2>2, SchemaAssumption
<1> QED BY <1>1, <1>2

\* There is nothing above a root to be listed.
LEMMA RootListed ==
  ASSUME NEW x \in Key, IsRoot(x), NEW a \in Key, ~IsRoot(a) PROVE ~IsPrefix(a, x)
BY ParentOrder

LEMMA UpdKeysStands ==
  ASSUME SoloInv, NEW r \in Reply, UpdKeys(Me, r), UNCHANGED before, Calm',
         NEW j, j = job[Me], NEW k, k = job'[Me]
  PROVE  CallStands(k)'
<1>1. Command(Me, r) /\ j.pc \notin {"rm_srem", "rm_card"} BY DEF Command, Writing, UpdKeys, At
<1>2. /\ r.ok /\ r.done /\ CallStands(j) /\ j \in Job /\ StoreConforms
      /\ \A s : Go(Me, s) => k = s
  BY <1>1, Answered
<1>3. j.pc = "upd_keys" /\ Changing(j) BY <1>2 DEF UpdKeys, At, CallStands, UpdatePC
<1>4. UNCHANGED hash BY <1>2 DEF UpdKeys, Served, Executed, Keep
<1>5. CASE Stored(j.key)
  <2>1. IsRoot(j.key) /\ j.key \in Key BY <1>2, <1>3, <1>5, FieldFacts DEF Changing
  <2>2. k = Return(j, FALSE) BY <1>2, <1>5, <2>1 DEF UpdKeys, HashValue
  <2>3. k.pc = "idle" /\ Same(j, k) BY <2>2 DEF Return, Idle, Same
  <2>4. ListedFrom(Parent(k.key))'
    <3>1. Parent(k.key) = j.key BY <2>1, <2>3 DEF Parent, Same
    <3> QED BY <2>1, <3>1, RootListed DEF ListedFrom
  <2>5. before'.call = "update" BY <1>1, <1>3, Answered DEF Changing
  <2>6. Returned(k)' BY <2>4, <2>5 DEF Returned
  <2> QED BY <2>3, <2>6 DEF CallStands, UpdatePC, ClimbPC, DeletePC, RemovePC, AddPC
<1>6. CASE ~Stored(j.key)
  <2>1. k = [j EXCEPT !.pc = "upd_hexists"] BY <1>2, <1>6 DEF UpdKeys
  <2>2. k.pc = "upd_hexists" /\ Same(j, k) BY <1>2, <2>1 DEF Job, Same
  <2>3. Changing(k)' BY <1>3, <1>4, <2>2 DEF Changing, Same
  <2> QED BY <2>2, <2>3 DEF CallStands, ClimbPC, DeletePC, RemovePC, AddPC
<1> QED BY <1>5, <1>6

LEMMA UpdHexistsStands ==
  ASSUME SoloInv, NEW r \in Reply, UpdHexists(Me, r), UNCHANGED before, Calm',
         NEW j, j = job[Me], NEW k, k = job'[Me]
  PROVE  CallStands(k)'
<1>1. Command(Me, r) /\ j.pc \notin {"rm_srem", "rm_card"} BY DEF Command, Writing, UpdHexists, At
<1>2. /\ r.ok /\ r.done /\ CallStands(j) /\ j \in Job /\ StoreConforms
      /\ \A s : Go(Me, s) => k = s
  BY <1>1, Answered
<1>3. j.pc = "upd_hexists" /\ Changing(j) BY <1>2 DEF UpdHexists, At, CallStands, UpdatePC
<1>4. UNCHANGED hash BY <1>2 DEF UpdHexists, Served, Executed, Keep
<1>5. \/ k = Return(j, FALSE) /\ Was(j.key) # Absent
      \/ k = [j EXCEPT !.pc = "val_hset"] /\ Was(j.key) # Absent
      \/ k = [j EXCEPT !.pc = "add_hset"] /\ Was(j.key) = Absent
  BY <1>2, <1>3 DEF UpdHexists, HashValue, Changing, Was
<1>6. CASE k = Return(j, FALSE) /\ Was(j.key) # Absent
  <2>1. k.pc = "idle" /\ Same(j, k) BY <1>6 DEF Return, Idle, Same
  <2>2. before'.call = "update" /\ Was(k.key)' # Absent
    BY <1>1, <1>3, <1>6, <2>1, Answered DEF Changing, Was, Same
  <2>3. Returned(k)' BY <2>2 DEF Returned
  <2> QED BY <2>1, <2>3 DEF CallStands, UpdatePC, ClimbPC, DeletePC, RemovePC, AddPC
<1>7. CASE k = [j EXCEPT !.pc = "val_hset"] /\ Was(j.key) # Absent
  <2>1. Same(j, k) /\ k.pc = "val_hset" BY <1>2, <1>7 DEF Job, Same
  <2>2. Changing(k)' BY <1>3, <1>4, <1>7, <2>1 DEF Changing, Same, Was
  <2> QED BY <2>1, <2>2 DEF CallStands, ClimbPC, DeletePC, RemovePC, AddPC
<1>8. CASE k = [j EXCEPT !.pc = "add_hset"] /\ Was(j.key) = Absent
  <2>1. Same(j, k) /\ k.pc = "add_hset" BY <1>2, <1>8 DEF Job, Same
  <2>2. Changing(k)' BY <1>3, <1>4, <1>8, <2>1 DEF Changing, Same, Was
  <2> QED BY <2>1, <2>2 DEF CallStands, ClimbPC, DeletePC, RemovePC, AddPC
<1> QED BY <1>5, <1>6, <1>7, <1>8

LEMMA ValHsetStands ==
  ASSUME SoloInv, NEW r \in Reply, ValHset(Me, r), UNCHANGED before, Calm',
         NEW j, j = job[Me], NEW k, k = job'[Me]
  PROVE  CallStands(k)'
<1>1. Command(Me, r) /\ j.pc \notin {"rm_srem", "rm_card"} BY DEF Command, Writing, ValHset, At
<1>2. /\ r.ok /\ r.done /\ CallStands(j) /\ j \in Job /\ before.call = j.op
      /\ \A s : Go(Me, s) => k = s
  BY <1>1, Answered
<1>3. j.pc = "val_hset" /\ Changing(j) BY <1>2 DEF ValHset, At, CallStands, UpdatePC
<1>4. k = Return(j, r.ok) BY <1>2 DEF ValHset
<1>5. k.pc = "idle" /\ Same(j, k) BY <1>4, Returns
<1>6. Returned(k)' BY <1>2, <1>3, <1>5 DEF Returned, Same, Changing, Was
<1> QED BY <1>5, <1>6 DEF CallStands, UpdatePC, ClimbPC, DeletePC, RemovePC, AddPC

LEMMA AddHsetStands ==
  ASSUME SoloInv, NEW r \in Reply, AddHset(Me, r), UNCHANGED before, Calm',
         NEW j, j = job[Me], NEW k, k = job'[Me]
  PROVE  CallStands(k)'
<1> DEFINE p == Parent(j.key)
<1>1. Command(Me, r) /\ j.pc \notin {"rm_srem", "rm_card"} BY DEF Command, Writing, AddHset, At
<1>2. /\ r.ok /\ r.done /\ CallStands(j) /\ j \in Job /\ StoreConforms /\ StoreTyped
      /\ \A s : Go(Me, s) => k = s
  BY <1>1, Answered
<1>3. j.pc = "add_hset" /\ Changing(j) BY <1>2 DEF AddHset, At, CallStands, UpdatePC
<1>4. j.key \in Key /\ p \in Key /\ Base(j.key) \in Name BY <1>2, <1>3, FieldFacts DEF Changing
<1>5. PICK s : s = [j EXCEPT !.at = p, !.ok = r.ok] OBVIOUS
<1>6. Same(j, s) /\ s.at = p /\ s.ok /\ s \in Job BY <1>2, <1>4, <1>5 DEF Job, Same, Reply
<1>7. hash' = [hash EXCEPT ![p][Base(j.key)] = j.value] BY <1>2 DEF AddHset, Served, Executed, Hput
<1>8. CASE IsRoot(p)
  <2>1. k = Return(s, s.ok) BY <1>2, <1>5, <1>6, <1>8 DEF AddHset, Climb
  <2>2. k.pc = "idle" /\ Same(s, k) BY <2>1, Returns
  <2>3. Parent(k.key) = p BY <1>6, <2>2 DEF Same
  <2>4. ListedFrom(Parent(k.key))' BY <1>4, <1>8, <2>3, RootListed DEF ListedFrom
  <2>5. before'.call = "update" BY <1>1, <1>3, Answered DEF Changing
  <2>6. Returned(k)' BY <2>4, <2>5 DEF Returned
  <2> QED BY <2>2, <2>6 DEF CallStands, UpdatePC, ClimbPC, DeletePC, RemovePC, AddPC
<1>9. CASE ~IsRoot(p)
  <2>1. k = [s EXCEPT !.pc = "climb_sadd"] BY <1>2, <1>5, <1>6, <1>9 DEF AddHset, Climb
  <2>2. Same(j, k) /\ k.at = p /\ k.ok /\ k.pc = "climb_sadd" BY <1>6, <2>1 DEF Job, Same
  <2>3. Changed(k)' BY <1>2, <1>3, <1>4, <1>7, <2>2 DEF Changed, Changing, Same, StoreTyped
  <2>4. ListedBelow(k.at, Parent(k.key))'
    <3>1. \A b \in Key : ~(IsStrictPrefix(p, b) /\ IsPrefix(b, p))
      BY <1>4, KeyOrder DEF IsStrictPrefix
    <3> QED BY <2>2, <3>1 DEF ListedBelow, Same
  <2>5. IsPrefix(p, p) BY <1>4, KeyOrder
  <2>6. Climbing(k)' BY <1>3, <1>4, <1>9, <2>2, <2>3, <2>4, <2>5 DEF Climbing, Changing, Same
  <2> QED BY <2>2, <2>6 DEF CallStands, UpdatePC, DeletePC, RemovePC, AddPC, ClimbPC
<1> QED BY <1>8, <1>9

LEMMA ClimbSaddStands ==
  ASSUME SoloInv, NEW r \in Reply, ClimbSadd(Me, r), UNCHANGED before, Calm',
         NEW j, j = job[Me], NEW k, k = job'[Me]
  PROVE  CallStands(k)'
<1> DEFINE p == Parent(j.at)
<1>1. Command(Me, r) /\ j.pc \notin {"rm_srem", "rm_card"} BY DEF Command, Writing, ClimbSadd, At
<1>2. /\ r.ok /\ r.done /\ CallStands(j) /\ j \in Job /\ HasArguments(j) /\ StoreTyped
      /\ \A s : Go(Me, s) => k = s
  BY <1>1, Answered
<1>3. j.pc = "climb_sadd" /\ Climbing(j) BY <1>2 DEF ClimbSadd, At, CallStands, ClimbPC
<1>4. p \in Key /\ Base(j.at) \in Name BY <1>2, <1>3, KeyParts DEF HasArguments, ClimbPC
<1>5. k = [j EXCEPT !.pc = "climb_keys", !.ok = @ /\ r.ok] BY <1>2 DEF ClimbSadd
<1>6. Same(j, k) /\ k.at = j.at /\ k.ok /\ k.pc = "climb_keys"
  BY <1>2, <1>3, <1>5 DEF Job, Same, Climbing
<1>7. set' = [set EXCEPT ![p] = @ \cup {Base(j.at)}] /\ UNCHANGED hash
  BY <1>2 DEF ClimbSadd, Served, Executed, Sadd
<1>8. /\ \A x \in Key : set[x] \subseteq set'[x]
      /\ Base(j.at) \in set'[p]
  BY <1>2, <1>4, <1>7 DEF StoreTyped
<1>9. ListedBelow(k.at, Parent(k.key))' BY <1>3, <1>6, <1>8, KeyParts DEF Climbing, ListedBelow, Same
<1>10. Changed(k)' BY <1>3, <1>6, <1>7 DEF Climbing, Changed, Same
<1>11. Climbing(k)' BY <1>3, <1>6, <1>8, <1>9, <1>10 DEF Climbing, Same
<1> QED BY <1>6, <1>11 DEF CallStands, UpdatePC, DeletePC, RemovePC, AddPC, ClimbPC

LEMMA ClimbKeysStands ==
  ASSUME SoloInv, NEW r \in Reply, ClimbKeys(Me, r), UNCHANGED before, Calm',
         NEW j, j = job[Me], NEW k, k = job'[Me]
  PROVE  CallStands(k)'
<1> DEFINE p == Parent(j.at)
           q == Parent(j.key)
<1>1. Command(Me, r) /\ j.pc \notin {"rm_srem", "rm_card"} BY DEF Command, Writing, ClimbKeys, At
<1>2. /\ r.ok /\ r.done /\ CallStands(j) /\ j \in Job /\ HasArguments(j) /\ StoreConforms
      /\ before.call = j.op /\ \A s : Go(Me, s) => k = s
  BY <1>1, Answered
<1>3. j.pc = "climb_keys" /\ Climbing(j) BY <1>2 DEF ClimbKeys, At, CallStands, ClimbPC
<1>4. j.at \in Key /\ p \in Key /\ q \in Key
  BY <1>2, <1>3, KeyParts, FieldFacts DEF HasArguments, ClimbPC, Climbing
<1>5. /\ IsPrefix(j.at, q) /\ ~IsRoot(j.at) /\ ListedBelow(j.at, q) /\ Base(j.at) \in set[p]
  BY <1>3 DEF Climbing
<1>6. Stored(p) BY <1>5 DEF Stored, IsSetKey
<1>7. PICK s : s = [j EXCEPT !.at = p] OBVIOUS
<1>8. s \in Job /\ Same(j, s) /\ s.at = p /\ s.ok = j.ok BY <1>2, <1>4, <1>7 DEF Job, Same
<1>9. IF IsRoot(p) THEN k = Return(s, s.ok) ELSE k = [s EXCEPT !.pc = "climb_sadd"]
  BY <1>2, <1>6, <1>7, <1>8 DEF ClimbKeys, Climb
<1>10. UNCHANGED <<set, hash>> BY <1>2 DEF ClimbKeys, Served, Executed, Keep
\* From p on down everything is listed.
<1>11. ListedBelow(p, q)
  <2>1. ASSUME NEW b \in Key, IsStrictPrefix(p, b), IsPrefix(b, q) PROVE Base(b) \in set[Parent(b)]
    <3>1. IsPrefix(b, j.at) \/ IsPrefix(j.at, b) BY <1>4, <1>5, <2>1, KeyOrder
    <3>2. b = j.at \/ IsStrictPrefix(b, j.at) \/ IsStrictPrefix(j.at, b)
      BY <3>1 DEF IsStrictPrefix
    <3>3. ~IsStrictPrefix(b, j.at)
      <4>1. SUFFICES ASSUME IsStrictPrefix(b, j.at) PROVE FALSE OBVIOUS
      <4>2. IsPrefix(b, p) BY <1>4, <4>1, ParentOrder
      <4> QED BY <1>4, <2>1, <4>2, KeyOrder DEF IsStrictPrefix
    <3> QED BY <1>5, <2>1, <3>2, <3>3 DEF ListedBelow
  <2> QED BY <2>1 DEF ListedBelow
<1>12. CASE IsRoot(p)
  <2>1. k.pc = "idle" /\ Same(s, k) BY <1>9, <1>12, Returns
  <2>2. Same(j, k) BY <1>8, <2>1 DEF Same
  <2>3. ASSUME NEW a \in Key, ~IsRoot(a), IsPrefix(a, q) PROVE Base(a) \in set[Parent(a)]
    <3>1. IsPrefix(p, q) BY <1>4, <1>5, ParentOrder, KeyOrder
    <3>2. IsPrefix(a, p) \/ IsPrefix(p, a) BY <1>4, <2>3, <3>1, KeyOrder
    <3>3. IsPrefix(a, p) => a = p BY <1>4, <1>12, ParentOrder
    <3>4. IsStrictPrefix(p, a) BY <1>12, <2>3, <3>2, <3>3 DEF IsStrictPrefix
    <3> QED BY <1>11, <2>3, <3>4 DEF ListedBelow
  <2>4. ListedFrom(Parent(k.key))' BY <1>10, <2>2, <2>3 DEF ListedFrom, Same
  <2>5. before'.call = "update" BY <1>2, <1>3 DEF Climbing
  <2>6. Returned(k)' BY <2>4, <2>5 DEF Returned
  <2> QED BY <2>1, <2>6 DEF CallStands, UpdatePC, ClimbPC, DeletePC, RemovePC, AddPC
<1>13. CASE ~IsRoot(p)
  <2>1. k = [s EXCEPT !.pc = "climb_sadd"] BY <1>9, <1>13
  <2>2. Same(j, k) /\ k.at = p /\ k.ok = j.ok /\ k.pc = "climb_sadd" BY <1>8, <2>1 DEF Job, Same
  <2>3. IsPrefix(p, q) BY <1>4, <1>5, ParentOrder, KeyOrder
  <2>4. ListedBelow(k.at, Parent(k.key))' BY <1>10, <1>11, <2>2 DEF ListedBelow, Same
  <2>5. Changed(k)' BY <1>3, <1>10, <2>2 DEF Climbing, Changed, Same
  <2>6. Climbing(k)' BY <1>3, <1>13, <2>2, <2>3, <2>4, <2>5 DEF Climbing, Same
  <2> QED BY <2>2, <2>6 DEF CallStands, UpdatePC, DeletePC, RemovePC, AddPC, ClimbPC
<1> QED BY <1>12, <1>13

LEMMA DelKeysStands ==
  ASSUME SoloInv, NEW r \in Reply, DelKeys(Me, r), UNCHANGED before, Calm',
         NEW j, j = job[Me], NEW k, k = job'[Me]
  PROVE  CallStands(k)'
<1>1. Command(Me, r) /\ j.pc \notin {"rm_srem", "rm_card"} BY DEF Command, Removing, DelKeys, At
<1>2. /\ r.ok /\ r.done /\ CallStands(j) /\ j \in Job /\ HasArguments(j) /\ StoreConforms
      /\ \A s : Go(Me, s) => k = s
  BY <1>1, Answered
<1>3. j.pc = "del_keys" /\ Deleting(j) BY <1>2 DEF DelKeys, At, CallStands, DeletePC
<1>4. j.key \in Key BY <1>2, <1>3 DEF HasArguments, DeletePC
<1>5. UNCHANGED <<set, hash>> BY <1>2 DEF DelKeys, Served, Executed, Keep
<1>6. CASE Stored(j.key)
  <2>1. k = [j EXCEPT !.pc = "rm_type", !.at = j.key] BY <1>2, <1>6 DEF DelKeys
  <2>2. Same(j, k) /\ k.pc = "rm_type" /\ k.at = j.key /\ k.stack = j.stack BY <1>2, <2>1 DEF Job, Same
  <2>3. k.stack = <<>> BY <1>3, <2>2 DEF SoloInv, SoloBase, Bookkeeping, RemovePC
  <2>4. j.key \in InSchema BY <1>2, <1>4, <1>6 DEF StoreConforms, Stored, InSchema
  <2>5. StackStands(k)'
    <3>1. IsPrefix(j.key, j.key) /\ Len(j.key) \in Nat BY <1>4, KeyOrder, ParentForm
    <3> QED BY <2>2, <2>3, <3>1 DEF StackStands, Nested, Same
  <2>6. Reduced(k)' BY <1>3, <1>5 DEF Reduced, Deleting
  <2>7. hash' = before'.hash /\ Stored(k.key)'
    BY <1>3, <1>5, <1>6, <2>2 DEF Deleting, Same, Stored, IsSetKey, IsHashKey
  <2>8. Refused(k.key) => IsHashKey(k.key)'
    <3>1. Refused(j.key) => IsHashKey(j.key)
      BY <1>2, <1>4, <1>6, SchemaAssumption DEF Refused, Stored, StoreConforms
    <3> QED BY <1>5, <2>2, <3>1 DEF Same, IsHashKey
  <2>9. Removal(k)'
    BY <1>3, <1>6, <2>2, <2>3, <2>4, <2>5, <2>6, <2>7, <2>8 DEF Removal, Deleting, Same, Swept, Cut
  <2> QED BY <2>2, <2>9 DEF CallStands, UpdatePC, ClimbPC, DeletePC, AddPC, RemovePC
<1>7. CASE ~Stored(j.key)
  <2>1. k = [j EXCEPT !.pc = "del_ishash"] BY <1>2, <1>7 DEF DelKeys
  <2>2. Same(j, k) /\ k.pc = "del_ishash" BY <1>2, <2>1 DEF Job, Same
  <2>3. Deleting(k)' BY <1>3, <1>5, <1>7, <2>2 DEF Deleting, Same, Stored, IsSetKey, IsHashKey
  <2> QED BY <2>2, <2>3 DEF CallStands, UpdatePC, ClimbPC, RemovePC, AddPC, DeletePC
<1> QED BY <1>6, <1>7

LEMMA DelFieldStands ==
  ASSUME SoloInv, NEW r \in Reply, DelIsHash(Me, r) \/ DelHexists(Me, r) \/ DelHdel(Me, r),
         UNCHANGED before, Calm', NEW j, j = job[Me], NEW k, k = job'[Me]
  PROVE  CallStands(k)'
<1>1. Command(Me, r) /\ j.pc \notin {"rm_srem", "rm_card"} BY DEF Command, Removing, DelIsHash, DelHexists, DelHdel, At
<1>2. /\ r.ok /\ r.done /\ CallStands(j) /\ j \in Job /\ \A s : Go(Me, s) => k = s
  BY <1>1, Answered
<1>3. j.pc \in DeletePC /\ j.pc # "del_keys" BY DEF DelIsHash, DelHexists, DelHdel, At, DeletePC
<1>4. Deleting(j) /\ ~before.found BY <1>2, <1>3 DEF CallStands, Deleting
<1>5. CASE \E ok : k = Return(j, ok)
  <2>1. k.pc = "idle" BY <1>5, Returns
  <2>2. Returned(k)'
    <3>1. before'.call = "delete" /\ ~before'.found
      BY <1>1, <1>4, Answered DEF Deleting
    <3> QED BY <3>1 DEF Returned
  <2> QED BY <2>1, <2>2 DEF CallStands, UpdatePC, ClimbPC, DeletePC, RemovePC, AddPC
<1>6. CASE DelIsHash(Me, r) /\ k = [j EXCEPT !.pc = "del_hexists"]
  <2>1. Same(j, k) /\ k.pc = "del_hexists" BY <1>2, <1>6 DEF Job, Same
  <2>2. UNCHANGED <<set, hash>> BY <1>2, <1>6 DEF DelIsHash, Served, Executed, Keep
  <2>3. Deleting(k)' BY <1>4, <2>1, <2>2 DEF Deleting, Same, Stored, IsSetKey, IsHashKey
  <2> QED BY <2>1, <2>3 DEF CallStands, UpdatePC, ClimbPC, RemovePC, AddPC, DeletePC
<1>7. CASE /\ DelHexists(Me, r) /\ k = [j EXCEPT !.pc = "del_hdel"]
           /\ hash[Parent(j.key)][Base(j.key)] # Absent
  <2>1. Same(j, k) /\ k.pc = "del_hdel" BY <1>2, <1>7 DEF Job, Same
  <2>2. UNCHANGED <<set, hash>> BY <1>2, <1>7 DEF DelHexists, Served, Executed, Keep
  <2>3. Deleting(k)' BY <1>4, <1>7, <2>1, <2>2 DEF Deleting, Same, Stored, IsSetKey, IsHashKey, Was
  <2> QED BY <2>1, <2>3 DEF CallStands, UpdatePC, ClimbPC, RemovePC, AddPC, DeletePC
<1>8. CASE DelIsHash(Me, r)
  <2>1. k = Return(j, FALSE) \/ k = [j EXCEPT !.pc = "del_hexists"] BY <1>2, <1>8 DEF DelIsHash
  <2> QED BY <1>5, <1>6, <1>8, <2>1
<1>9. CASE DelHexists(Me, r)
  <2>1. \/ k = Return(j, FALSE)
        \/ k = [j EXCEPT !.pc = "del_hdel"] /\ hash[Parent(j.key)][Base(j.key)] # Absent
    BY <1>2, <1>9 DEF DelHexists
  <2> QED BY <1>5, <1>7, <1>9, <2>1
<1>10. CASE DelHdel(Me, r)
  <2>1. k = Return(j, r.ok) BY <1>2, <1>10 DEF DelHdel
  <2> QED BY <1>5, <2>1
<1> QED BY <1>8, <1>9, <1>10

\* The frame of a RemoveKey call: less in the server, the same calls waiting.
LEMMA LessStands ==
  ASSUME NEW j, NEW k, StackStands(j), Same(j, k), k.at = j.at, k.stack = j.stack, j.at \in Key,
         \A x \in Key : set'[x] \subseteq set[x], UNCHANGED before,
         \A i \in 1 .. Len(j.stack) : j.stack[i].key \in Key
  PROVE  StackStands(k)'
<1>1. \A x \in Key : Reentered(j.key, x) => Reentered(j.key, x)' BY DEF Reentered, IsSetKey
<1>2. HadBelow(j.key)' => HadBelow(j.key) BY DEF HadBelow
<1> QED BY <1>1, <1>2 DEF StackStands, Same, Nested

LEMMA RemovalFacts ==
  ASSUME NEW j \in Job, Removal(j), CallConforms(j), j.pc \in RemovePC
  PROVE  /\ j.at \in InSchema /\ j.at \in Key /\ j.key \in Key /\ j.key \in InSchema
         /\ j.stack \in Seq(Frame) /\ Len(j.stack) \in Nat
         /\ \A i \in 1 .. Len(j.stack) : j.stack[i].key \in Key
         /\ j.stack = <<>> => j.at = j.key
<1>1. j.at \in InSchema /\ \A i \in 1 .. Len(j.stack) : j.stack[i].key \in InSchema
  BY DEF CallConforms, StackConforms
<1> QED BY <1>1, SchemaKeys DEF Removal, StackStands, Job

\* A RemoveKey waits for a nested one only where there is no set.
LEMMA ReenteredEmpty ==
  ASSUME StoreConforms, NEW d, NEW x, Reentered(d, x) PROVE ~IsSetKey(x)
BY SchemaKeys, SchemaAssumption DEF Reentered, Refused, StoreConforms

\* Nothing is stored below a record.
LEMMA RecordEnds ==
  ASSUME StoreConforms, NEW d \in Record PROVE \A x \in Below(d) : ~Stored(x)
<1> SUFFICES ASSUME NEW x \in Below(d), Stored(x) PROVE FALSE OBVIOUS
<1>1. x \in InSchema /\ IsStrictPrefix(d, x) BY DEF Below, Stored, StoreConforms, InSchema
<1> QED BY <1>1, BelowRecord

LEMMA RmTypeStands ==
  ASSUME SoloInv, NEW r \in Reply, RmType(Me, r), UNCHANGED before, Calm',
         NEW j, j = job[Me], NEW k, k = job'[Me]
  PROVE  CallStands(k)'
<1>1. Command(Me, r) /\ j.pc \notin {"rm_srem", "rm_card"} BY DEF Command, Removing, RmType, At
<1>2. /\ r.ok /\ r.done /\ CallStands(j) /\ j \in Job /\ CallConforms(j) /\ StoreConforms
      /\ \A s : Go(Me, s) => k = s
  BY <1>1, Answered
<1>3. j.pc = "rm_type" /\ Removal(j) BY <1>2 DEF RmType, At, CallStands, RemovePC
<1>4. /\ j.at \in Key /\ j.key \in InSchema /\ j.key \in Key /\ (j.stack = <<>> => j.at = j.key)
      /\ \A i \in 1 .. Len(j.stack) : j.stack[i].key \in Key
  BY <1>2, <1>3, RemovalFacts DEF RemovePC
<1>5. k = [j EXCEPT !.ok = r.ok, !.pc = IF IsSetKey(j.at) THEN "rm_scard" ELSE "rm_srem"]
  BY <1>2 DEF RmType
<1>6. /\ Same(j, k) /\ k.at = j.at /\ k.stack = j.stack /\ k.ok
      /\ k.pc = IF IsSetKey(j.at) THEN "rm_scard" ELSE "rm_srem"
  BY <1>2, <1>5 DEF Job, Same
<1>7. UNCHANGED <<set, hash>> BY <1>2 DEF RmType, Served, Executed, Keep
<1>8. StackStands(k)' BY <1>3, <1>4, <1>6, <1>7, LessStands DEF Removal
<1>9. Reduced(k)' BY <1>3, <1>6, <1>7 DEF Removal, Reduced, Same
<1>10. /\ \A x \in Key : Stored(x)' <=> Stored(x)
       /\ Refused(k.key) => IsHashKey(k.key)'
  BY <1>3, <1>6, <1>7 DEF Stored, IsSetKey, IsHashKey, Removal, Same
<1>11. CASE j.stack = <<>>
  <2>1. hash = before.hash /\ Stored(j.key) /\ j.at = j.key BY <1>3, <1>4, <1>11 DEF Removal, Swept
  <2>2. ~IsSetKey(j.key) => \A x \in Below(j.key) : ~Stored(x)
    <3>1. ~IsSetKey(j.key) => j.key \in Record BY <1>2, <1>4, <2>1 DEF Stored, StoreConforms
    <3> QED BY <1>2, <3>1, RecordEnds
  <2>3. Removal(k)'
    <3>1. CASE IsSetKey(j.key)
      <4>1. k.pc = "rm_scard" /\ k.key \in Object
        BY <1>2, <1>4, <1>6, <2>1, <3>1 DEF StoreConforms, Same
      <4>2. hash' = before'.hash /\ Stored(k.key)' BY <1>4, <1>6, <1>7, <1>10, <2>1 DEF Same
      <4>3. IsSetKey(k.key)' BY <1>6, <1>7, <3>1 DEF IsSetKey, Same
      <4> QED BY <1>3, <1>6, <1>8, <1>9, <1>11, <4>1, <4>2, <4>3 DEF Removal, Same, Swept, Cut
    <3>2. CASE ~IsSetKey(j.key)
      <4>1. k.pc = "rm_srem" BY <1>6, <2>1, <3>2
      <4>2. \A x \in Below(k.key) : ~Stored(x)' BY <1>6, <1>10, <2>2, <3>2 DEF Same, Below
      <4> QED BY <1>3, <1>6, <1>8, <1>9, <1>10, <1>11, <4>1, <4>2 DEF Removal, Same, Swept, Cut
    <3> QED BY <3>1, <3>2
  <2> QED BY <1>6, <2>3 DEF CallStands, UpdatePC, ClimbPC, DeletePC, AddPC, RemovePC
<1>12. CASE j.stack # <<>>
  <2>1. k.pc = "rm_srem" BY <1>2, <1>3, <1>6, <1>12, ReenteredEmpty DEF Removal, StackStands
  <2>2. \A x \in Below(k.key) : ~Stored(x)' BY <1>3, <1>6, <1>10, <1>12 DEF Removal, Swept, Same, Below
  <2>3. ~IsRoot(k.key) => Base(k.key) \notin set'[Parent(k.key)]
    BY <1>3, <1>6, <1>7, <1>12 DEF Removal, Cut, Same
  <2>4. Removal(k)' BY <1>3, <1>6, <1>8, <1>9, <1>10, <1>12, <2>1, <2>2, <2>3 DEF Removal, Same, Swept, Cut
  <2> QED BY <2>1, <2>4 DEF CallStands, UpdatePC, ClimbPC, DeletePC, AddPC, RemovePC
<1> QED BY <1>11, <1>12

LEMMA RmScardStands ==
  ASSUME SoloInv, NEW r \in Reply, RmScard(Me, r), UNCHANGED before, Calm',
         NEW j, j = job[Me], NEW k, k = job'[Me]
  PROVE  CallStands(k)'
<1>1. Command(Me, r) /\ j.pc \notin {"rm_srem", "rm_card"} BY DEF Command, Removing, RmScard, At
<1>2. /\ r.ok /\ r.done /\ CallStands(j) /\ j \in Job /\ CallConforms(j)
      /\ \A s : Go(Me, s) => k = s
  BY <1>1, Answered
<1>3. j.pc = "rm_scard" /\ Removal(j) BY <1>2 DEF RmScard, At, CallStands, RemovePC
<1>4. /\ j.at \in Key /\ j.key \in InSchema /\ j.key \in Key /\ j.stack = <<>> /\ j.at = j.key
      /\ \A i \in 1 .. Len(j.stack) : j.stack[i].key \in Key
      /\ IsSetKey(j.key) /\ hash = before.hash /\ Stored(j.key) /\ j.key \in Object
  BY <1>2, <1>3, RemovalFacts DEF RemovePC, Removal, Swept
<1>5. PICK some \in Read(r, IsSetKey(j.at)) : k = [j EXCEPT !.pc = "rm_kids", !.ok = @ /\ some]
  BY <1>2 DEF RmScard
<1>6. some BY <1>2, <1>4, <1>5 DEF Read
<1>7. Same(j, k) /\ k.at = j.at /\ k.stack = j.stack /\ k.pc = "rm_kids" /\ (j.ok => k.ok)
  BY <1>2, <1>5, <1>6 DEF Job, Same
<1>8. UNCHANGED <<set, hash>> BY <1>2 DEF RmScard, Served, Executed, Keep
<1>9. StackStands(k)' BY <1>3, <1>4, <1>7, <1>8, LessStands DEF Removal
<1>10. Reduced(k)' BY <1>3, <1>7, <1>8 DEF Removal, Reduced, Same
<1>11. hash' = before'.hash /\ Stored(k.key)' /\ IsSetKey(k.key)'
  BY <1>4, <1>7, <1>8 DEF Stored, IsSetKey, IsHashKey, Same
<1>12. HadBelow(k.key)' /\ ~Refused(k.key) => k.ok BY <1>3, <1>7 DEF Removal, HadBelow, Same
<1>13. Removal(k)' BY <1>3, <1>4, <1>7, <1>9, <1>10, <1>11, <1>12 DEF Removal, Same, Swept, Cut
<1> QED BY <1>7, <1>13 DEF CallStands, UpdatePC, ClimbPC, DeletePC, AddPC, RemovePC

LEMMA RmKidsStands ==
  ASSUME SoloInv, NEW r \in Reply, RmKids(Me, r), UNCHANGED before, Calm',
         NEW j, j = job[Me], NEW k, k = job'[Me]
  PROVE  CallStands(k)'
<1>1. Command(Me, r) /\ j.pc \notin {"rm_srem", "rm_card"} BY DEF Command, Removing, RmKids, At
<1>2. /\ r.ok /\ r.done /\ CallStands(j) /\ j \in Job /\ CallConforms(j) /\ StoreConforms
      /\ \A s : Go(Me, s) => k = s
  BY <1>1, Answered
<1>3. j.pc = "rm_kids" /\ Removal(j) BY <1>2 DEF RmKids, At, CallStands, RemovePC
<1>4. /\ j.at \in Key /\ j.key \in InSchema /\ j.key \in Key /\ j.stack = <<>> /\ j.at = j.key
      /\ \A i \in 1 .. Len(j.stack) : j.stack[i].key \in Key
      /\ IsSetKey(j.key) /\ hash = before.hash /\ j.key \in Object /\ ~Refused(j.key)
  BY <1>2, <1>3, RemovalFacts, SchemaAssumption DEF RemovePC, Removal, Swept, Refused
<1>5. PICK kids : kids = {x \in Below(j.key) : Stored(x)} OBVIOUS
<1>6. k = [j EXCEPT !.pc = IF kids = {} THEN "rm_srem" ELSE "rm_kid",
                    !.kids = kids, !.ok = @ /\ kids # {}]
  BY <1>2, <1>4, <1>5 DEF RmKids
<1>7. /\ Same(j, k) /\ k.at = j.at /\ k.stack = j.stack /\ k.kids = kids
      /\ k.pc = (IF kids = {} THEN "rm_srem" ELSE "rm_kid")
      /\ j.ok /\ kids # {} => k.ok
  <2>1. PICK pc : pc = IF kids = {} THEN "rm_srem" ELSE "rm_kid" OBVIOUS
  <2>2. PICK ok : ok = (j.ok /\ kids # {}) OBVIOUS
  <2>3. k = [j EXCEPT !.pc = pc, !.kids = kids, !.ok = ok] BY <1>6, <2>1, <2>2
  <2>4. Same(j, k) /\ k.at = j.at /\ k.stack = j.stack /\ k.kids = kids /\ k.pc = pc /\ k.ok = ok
    BY <1>2, <2>3 DEF Job, Same
  <2> QED BY <2>1, <2>2, <2>4
<1>8. UNCHANGED <<set, hash>> BY <1>2 DEF RmKids, Served, Executed, Keep
<1>9. StackStands(k)' BY <1>3, <1>4, <1>7, <1>8, LessStands DEF Removal
<1>10. Reduced(k)' BY <1>3, <1>7, <1>8 DEF Removal, Reduced, Same
<1>11. \A x \in Key : Stored(x)' <=> Stored(x) BY <1>8 DEF Stored, IsSetKey, IsHashKey
\* A set with fields somewhere below it has children.
<1>12. HadBelow(j.key) => kids # {}
  <2>1. SUFFICES ASSUME NEW x \in Key, NEW f \in Name, IsPrefix(j.key, x), before.hash[x][f] # Absent
                 PROVE  kids # {}
    BY DEF HadBelow
  <2>2. IsHashKey(x) BY <1>4, <2>1 DEF IsHashKey
  <2>3. x # j.key BY <1>2, <1>4, <2>1, <2>2, SchemaAssumption DEF StoreConforms
  <2> QED BY <1>5, <2>1, <2>2, <2>3 DEF Below, IsStrictPrefix, Stored
<1>13. HadBelow(k.key)' => k.ok
  BY <1>3, <1>4, <1>7, <1>12 DEF Removal, HadBelow, Same
<1>14. CASE kids = {}
  <2>1. k.pc = "rm_srem" BY <1>7, <1>14
  <2>2. \A x \in Below(k.key) : ~Stored(x)' BY <1>5, <1>7, <1>11, <1>14 DEF Same, Below
  <2>3. Removal(k)' BY <1>3, <1>4, <1>7, <1>9, <1>10, <1>13, <2>1, <2>2 DEF Removal, Same, Swept, Cut
  <2> QED BY <2>1, <2>3 DEF CallStands, UpdatePC, ClimbPC, DeletePC, AddPC, RemovePC
<1>15. CASE kids # {}
  <2>1. k.pc = "rm_kid" BY <1>7, <1>15
  <2>2. k.kids \subseteq Below(k.key) /\ \A x \in Below(k.key) : Stored(x)' => x \in k.kids
    BY <1>5, <1>7, <1>11 DEF Same, Below
  <2>3. Removal(k)' BY <1>3, <1>4, <1>7, <1>9, <1>10, <1>13, <2>1, <2>2 DEF Removal, Same, Swept, Cut
  <2> QED BY <2>1, <2>3 DEF CallStands, UpdatePC, ClimbPC, DeletePC, AddPC, RemovePC
<1> QED BY <1>14, <1>15

LEMMA RmKidStands ==
  ASSUME SoloInv, NEW r \in Reply, RmKid(Me, r), UNCHANGED before, Calm',
         NEW j, j = job[Me], NEW k, k = job'[Me]
  PROVE  CallStands(k)'
<1>1. Command(Me, r) /\ j.pc \notin {"rm_srem", "rm_card"} BY DEF Command, Removing, RmKid, At
<1>2. /\ r.ok /\ r.done /\ CallStands(j) /\ j \in Job /\ CallConforms(j) /\ StoreTyped
      /\ \A s : Go(Me, s) => k = s
  BY <1>1, Answered
<1>3. j.pc = "rm_kid" /\ Removal(j) BY <1>2 DEF RmKid, At, CallStands, RemovePC
<1>4. /\ j.at \in Key /\ j.key \in InSchema /\ j.key \in Key /\ j.stack = <<>> /\ j.at = j.key
      /\ \A i \in 1 .. Len(j.stack) : j.stack[i].key \in Key
      /\ j.kids \subseteq Below(j.key) /\ \A x \in Below(j.key) : Stored(x) => x \in j.kids
      /\ j.key \in Object /\ ~Refused(j.key)
  BY <1>2, <1>3, RemovalFacts, SchemaAssumption DEF RemovePC, Removal, Refused
<1>5. PICK kid \in j.kids :
        /\ Served(r, TRUE, Del(kid))
        /\ k = [j EXCEPT !.pc = IF j.kids = {kid} THEN "rm_srem" ELSE "rm_kid", !.kids = @ \ {kid}]
  BY <1>2 DEF RmKid
<1>6. /\ Same(j, k) /\ k.at = j.at /\ k.stack = j.stack /\ k.kids = j.kids \ {kid} /\ k.ok = j.ok
      /\ k.pc = (IF j.kids = {kid} THEN "rm_srem" ELSE "rm_kid")
  <2>1. PICK pc : pc = IF j.kids = {kid} THEN "rm_srem" ELSE "rm_kid" OBVIOUS
  <2>2. PICK left : left = j.kids \ {kid} OBVIOUS
  <2>3. k = [j EXCEPT !.pc = pc, !.kids = left] BY <1>5, <2>1, <2>2
  <2>4. Same(j, k) /\ k.at = j.at /\ k.stack = j.stack /\ k.kids = left /\ k.ok = j.ok /\ k.pc = pc
    BY <1>2, <2>3 DEF Job, Same
  <2> QED BY <2>1, <2>2, <2>4
<1>7. set' = [set EXCEPT ![kid] = {}] /\ hash' = [hash EXCEPT ![kid] = EmptyHash]
  BY <1>2, <1>5 DEF Served, Executed, Del
<1>8. kid \in Key /\ IsPrefix(j.key, kid) BY <1>4, <1>5 DEF Below, IsStrictPrefix
<1>9. \A x \in Key : /\ set'[x] \subseteq set[x]
                     /\ x # kid => set'[x] = set[x] /\ hash'[x] = hash[x]
                     /\ x = kid => set'[x] = {} /\ \A f \in Name : hash'[x][f] = Absent
  BY <1>2, <1>7, <1>8 DEF StoreTyped, EmptyHash
<1>10. StackStands(k)' BY <1>3, <1>4, <1>6, <1>9, LessStands DEF Removal
<1>11. Reduced(k)' BY <1>3, <1>6, <1>8, <1>9 DEF Removal, Reduced, Same
<1>12. \A x \in Below(j.key) : Stored(x)' => x \in k.kids
  BY <1>4, <1>6, <1>9 DEF Below, Stored, IsSetKey, IsHashKey
<1>13. HadBelow(k.key)' => k.ok BY <1>3, <1>4, <1>6 DEF Removal, HadBelow, Same
<1>14. CASE j.kids = {kid}
  <2>1. k.pc = "rm_srem" /\ k.kids = {} BY <1>6, <1>14
  <2>2. \A x \in Below(k.key) : ~Stored(x)' BY <1>6, <1>12, <2>1 DEF Same, Below
  <2>3. Removal(k)' BY <1>3, <1>4, <1>6, <1>10, <1>11, <1>13, <2>1, <2>2 DEF Removal, Same, Swept, Cut
  <2> QED BY <2>1, <2>3 DEF CallStands, UpdatePC, ClimbPC, DeletePC, AddPC, RemovePC
<1>15. CASE j.kids # {kid}
  <2>1. k.pc = "rm_kid" BY <1>6, <1>15
  <2>2. k.kids \subseteq Below(k.key) /\ \A x \in Below(k.key) : Stored(x)' => x \in k.kids
    BY <1>4, <1>6, <1>12 DEF Same, Below
  <2>3. Removal(k)' BY <1>3, <1>4, <1>6, <1>10, <1>11, <1>13, <2>1, <2>2 DEF Removal, Same, Swept, Cut
  <2> QED BY <2>1, <2>3 DEF CallStands, UpdatePC, ClimbPC, DeletePC, AddPC, RemovePC
<1> QED BY <1>14, <1>15

\* Of the commands of a RemoveKey, those that SREM and SCARD the parent are refused
\* when the parent is the key itself and a record.
LEMMA ParentCommands ==
  ASSUME SoloInv, NEW r \in Reply, RmSrem(Me, r) \/ RmCard(Me, r), UNCHANGED before, Calm',
         NEW j, j = job[Me], NEW k, k = job'[Me]
  PROVE  /\ CallStands(j) /\ j \in Job /\ CallConforms(j) /\ StoreTyped /\ StoreConforms
         /\ \A s : Go(Me, s) => k = s
         /\ j.pc \in {"rm_srem", "rm_card"} /\ Removal(j)
         /\ Refused(j.key) => j.at = j.key /\ Parent(j.at) = j.at /\ ~r.ok /\ ~r.done
         /\ ~Refused(j.key) => r.ok /\ r.done
<1>1. Command(Me, r) /\ j.pc \in {"rm_srem", "rm_card"}
  BY DEF Command, Removing, RmSrem, RmCard, At
<1>2. /\ CallStands(j) /\ j \in Job /\ CallConforms(j) /\ StoreTyped /\ StoreConforms
      /\ \A s : Go(Me, s) => k = s
  BY <1>1, CallAnswered
<1>3. Removal(j) BY <1>1, <1>2 DEF CallStands, RemovePC
<1>4. j.at \in InSchema /\ j.key \in InSchema /\ (j.stack = <<>> => j.at = j.key)
      /\ (j.stack # <<>> => Reentered(j.key, j.at))
  BY <1>1, <1>2, <1>3, RemovalFacts DEF RemovePC, Removal, StackStands
<1>5. /\ SetFits(Parent(j.at)) => r.ok /\ r.done
      /\ ~SetFits(Parent(j.at)) => ~r.ok /\ ~r.done
  <2>1. SoloBase BY DEF SoloInv
  <2> QED BY <1>1, <2>1, CommandAnswered
<1>6. ASSUME Refused(j.key) PROVE j.at = j.key /\ Parent(j.at) = j.at /\ ~SetFits(Parent(j.at))
  <2>1. j.at = j.key BY <1>4, <1>6 DEF Reentered
  <2>2. Parent(j.at) = j.at BY <1>6, <2>1 DEF Refused, Parent
  <2>3. IsHashKey(j.key) BY <1>1, <1>3, <1>6 DEF Removal
  <2> QED BY <2>1, <2>2, <2>3 DEF SetFits
<1>7. ASSUME ~Refused(j.key) PROVE SetFits(Parent(j.at))
  <2>1. Parent(j.at) \in Object
    <3>1. CASE IsRoot(j.at)
      <4>1. j.at \in Object BY <1>4, <1>7, <3>1 DEF Reentered, Refused, InSchema
      <4> QED BY <3>1, <4>1 DEF Parent
    <3>2. CASE ~IsRoot(j.at) BY <1>4, <3>2, SchemaKeys
    <3> QED BY <3>1, <3>2
  <2> QED BY <1>2, <2>1, KindsFit
<1> QED BY <1>1, <1>2, <1>3, <1>5, <1>6, <1>7

LEMMA RmSremStands ==
  ASSUME SoloInv, NEW r \in Reply, RmSrem(Me, r), UNCHANGED before, Calm',
         NEW j, j = job[Me], NEW k, k = job'[Me]
  PROVE  CallStands(k)'
<1> DEFINE p == Parent(j.at)
<1>1. /\ CallStands(j) /\ j \in Job /\ CallConforms(j) /\ StoreTyped
      /\ \A s : Go(Me, s) => k = s
  BY ParentCommands
<1>2. /\ Refused(j.key) => j.at = j.key /\ ~r.ok /\ ~r.done
      /\ ~Refused(j.key) => r.ok /\ r.done
  BY ParentCommands
<1>3. j.pc = "rm_srem" /\ Removal(j) BY <1>1 DEF RmSrem, At, CallStands, RemovePC
<1>4. /\ j.at \in Key /\ j.key \in InSchema /\ j.key \in Key /\ (j.stack = <<>> => j.at = j.key)
      /\ \A i \in 1 .. Len(j.stack) : j.stack[i].key \in Key
      /\ \A x \in Below(j.key) : ~Stored(x)
  BY <1>1, <1>3, RemovalFacts DEF RemovePC, Removal, Swept
<1>5. p \in Key /\ Parent(j.key) \in Key BY <1>4, KeyParts
<1>6. k = [j EXCEPT !.pc = "rm_card", !.ok = @ /\ r.ok] BY <1>1 DEF RmSrem
<1>7. /\ Same(j, k) /\ k.at = j.at /\ k.stack = j.stack /\ k.pc = "rm_card"
      /\ (j.ok /\ r.ok => k.ok) /\ (~r.ok => ~k.ok)
  BY <1>1, <1>6 DEF Job, Same
<1>8. /\ UNCHANGED hash
      /\ r.done => set' = [set EXCEPT ![p] = @ \ {Base(j.at)}]
      /\ ~r.done => UNCHANGED set
  BY DEF RmSrem, Served, Executed, Srem, Keep
<1>9. (\A x \in Key : set'[x] \subseteq set[x]) /\ (r.done => Base(j.at) \notin set'[p])
  <2>1. CASE r.done BY <1>1, <1>5, <1>8, <2>1 DEF StoreTyped
  <2>2. CASE ~r.done BY <1>8, <2>2
  <2> QED BY <2>1, <2>2
<1>10. StackStands(k)' BY <1>3, <1>4, <1>7, <1>9, LessStands DEF Removal
<1>11. Reduced(k)' BY <1>3, <1>7, <1>8 DEF Removal, Reduced, Same
<1>12. \A x \in Below(k.key) : ~Stored(x)'
  BY <1>4, <1>7, <1>8, <1>9 DEF Below, Stored, IsSetKey, IsHashKey, Same
<1>13. ~IsRoot(k.key) => Base(k.key) \notin set'[Parent(k.key)]
  <2>1. CASE j.stack = <<>> BY <1>2, <1>4, <1>7, <1>9, <2>1 DEF Same, Refused
  <2>2. CASE j.stack # <<>> BY <1>3, <1>5, <1>7, <1>9, <2>2 DEF Removal, Cut, Same
  <2> QED BY <2>1, <2>2
<1>14. /\ HadBelow(k.key)' /\ ~Refused(k.key) => k.ok
       /\ Refused(k.key) => ~k.ok /\ IsHashKey(k.key)'
  BY <1>2, <1>3, <1>7, <1>8 DEF Removal, HadBelow, Same, IsHashKey
<1>15. Removal(k)' BY <1>3, <1>7, <1>10, <1>11, <1>12, <1>13, <1>14 DEF Removal, Same, Swept, Cut
<1> QED BY <1>7, <1>15 DEF CallStands, UpdatePC, ClimbPC, DeletePC, AddPC, RemovePC

LEMMA RmCardStands ==
  ASSUME SoloInv, NEW r \in Reply, RmCard(Me, r), UNCHANGED before, Calm',
         NEW j, j = job[Me], NEW k, k = job'[Me]
  PROVE  CallStands(k)'
<1> DEFINE p == Parent(j.at)
<1>1. CallStands(j) /\ j \in Job /\ CallConforms(j) /\ StoreConforms /\ \A s : Go(Me, s) => k = s
  BY ParentCommands
<1>2. /\ Refused(j.key) => j.at = j.key /\ p = j.at /\ ~r.ok
      /\ ~Refused(j.key) => r.ok
  BY ParentCommands
<1>3. j.pc = "rm_card" /\ Removal(j) BY <1>1 DEF RmCard, At, CallStands, RemovePC
<1>4. /\ j.at \in InSchema /\ j.at \in Key /\ j.key \in InSchema /\ j.key \in Key
      /\ (j.stack = <<>> => j.at = j.key) /\ j.stack \in Seq(Frame) /\ Len(j.stack) \in Nat
      /\ \A i \in 1 .. Len(j.stack) : j.stack[i].key \in Key
  BY <1>1, <1>3, RemovalFacts DEF RemovePC
<1>5. /\ \A x \in Below(j.key) : ~Stored(x)
      /\ ~IsRoot(j.key) => Base(j.key) \notin set[Parent(j.key)]
  BY <1>3 DEF Removal, Swept, Cut
<1>6. UNCHANGED <<set, hash>> BY DEF RmCard, Served, Executed, Keep
<1>7. \/ k = [Idle EXCEPT !.pc = "crashed"]
      \/ Reentered(j.key, p) /\ k = [j EXCEPT !.pc = "rm_type", !.at = p,
                                             !.stack = Append(@, [key |-> j.at, ok |-> j.ok])]
      \/ k = [j EXCEPT !.pc = "rm_del"]
  <2>1. PICK empty \in Read(r, ~IsSetKey(p)) :
          IF empty THEN RemoveParent(Me, j, p) ELSE Go(Me, [j EXCEPT !.pc = "rm_del"])
    BY DEF RmCard
  <2>2. empty => Reentered(j.key, p)
    <3>1. CASE Refused(j.key) BY <1>2, <3>1 DEF Reentered
    <3>2. CASE ~Refused(j.key)
      <4>1. empty => ~IsSetKey(p) BY <1>2, <2>1, <3>2 DEF Read, IsSetKey
      <4>2. p \in Object
        <5>1. CASE IsRoot(j.at)
          <6>1. j.stack # <<>> => Reentered(j.key, j.at) BY <1>3 DEF Removal, StackStands
          <6>2. j.at \in Object BY <1>4, <3>2, <5>1, <6>1 DEF Reentered, Refused, InSchema
          <6> QED BY <5>1, <6>2 DEF Parent
        <5>2. CASE ~IsRoot(j.at) BY <1>4, <5>2, SchemaKeys
        <5> QED BY <5>1, <5>2
      <4> QED BY <3>2, <4>1, <4>2 DEF Reentered
    <3> QED BY <3>1, <3>2
  <2> QED BY <1>1, <2>1, <2>2 DEF RemoveParent
<1>8. /\ \A x \in Below(j.key) : ~Stored(x)'
      /\ Refused(j.key) => ~j.ok /\ IsHashKey(j.key)'
  BY <1>3, <1>5, <1>6 DEF Stored, IsSetKey, IsHashKey, Removal
<1>9. CASE k = [Idle EXCEPT !.pc = "crashed"]
  <2>1. k.pc = "crashed" BY <1>9 DEF Idle
  <2> QED BY <2>1 DEF CallStands, UpdatePC, ClimbPC, DeletePC, AddPC, RemovePC
<1>10. CASE k = [j EXCEPT !.pc = "rm_del"]
  <2>1. Same(j, k) /\ k.at = j.at /\ k.stack = j.stack /\ k.pc = "rm_del" /\ k.ok = j.ok
    BY <1>1, <1>10 DEF Job, Same
  <2>2. StackStands(k)' BY <1>3, <1>4, <1>6, <2>1, LessStands DEF Removal
  <2>3. Reduced(k)' BY <1>3, <1>6, <2>1 DEF Removal, Reduced, Same
  <2>4. \A x \in Below(k.key) : ~Stored(x)' BY <1>8, <2>1 DEF Same
  <2>5. /\ HadBelow(k.key)' /\ ~Refused(k.key) => k.ok
        /\ Refused(k.key) => ~k.ok
    BY <1>3, <1>8, <2>1 DEF Removal, HadBelow, Same
  <2>6. ~IsRoot(k.key) => Base(k.key) \notin set'[Parent(k.key)] BY <1>5, <1>6, <2>1 DEF Same
  <2>7. Removal(k)' BY <1>3, <2>1, <2>2, <2>3, <2>4, <2>5, <2>6 DEF Removal, Same, Swept, Cut
  <2> QED BY <2>1, <2>7 DEF CallStands, UpdatePC, ClimbPC, DeletePC, AddPC, RemovePC
<1>11. CASE /\ Reentered(j.key, p)
            /\ k = [j EXCEPT !.pc = "rm_type", !.at = p,
                             !.stack = Append(@, [key |-> j.at, ok |-> j.ok])]
  <2>1. PICK n : n = Len(j.stack) OBVIOUS
  <2>2. PICK frame : frame = [key |-> j.at, ok |-> j.ok] OBVIOUS
  <2>3. Same(j, k) /\ k.at = p /\ k.pc = "rm_type" /\ k.stack = Append(j.stack, frame)
    BY <1>1, <1>11, <2>2 DEF Job, Same
  <2>4. /\ n \in Nat /\ Len(k.stack) = n + 1 /\ k.stack[n + 1] = frame /\ k.stack # <<>>
        /\ \A i \in 1 .. n : k.stack[i] = j.stack[i]
    <3>1. frame \in Frame BY <1>1, <1>4, <2>2 DEF Frame, Job
    <3>2. Append(j.stack, frame) \in Seq(Frame) BY <1>4, <3>1, AppendProperties
    <3> QED BY <1>4, <2>1, <2>3, <3>1, <3>2, AppendProperties
  <2>5. StackStands(j) BY <1>3 DEF Removal
  <2>6. Nested(j.key, n + 1, p)
    <3>1. IsPrefix(j.at, j.key) /\ (IsRoot(j.at) \/ Len(j.at) + n = Len(j.key))
      BY <2>1, <2>5 DEF StackStands, Nested
    <3>2. p \in Key /\ IsPrefix(p, j.at) BY <1>4, KeyParts, ParentOrder
    <3>3. IsPrefix(p, j.key) BY <1>4, <3>1, <3>2, KeyOrder
    <3>4. CASE IsRoot(j.at)
      <4>1. p = j.at BY <3>4 DEF Parent
      <4> QED BY <3>3, <3>4, <4>1 DEF Nested
    <3>5. CASE ~IsRoot(j.at)
      <4>1. Len(p) = Len(j.at) - 1 /\ Len(j.at) \in Nat /\ Len(j.key) \in Nat BY <1>4, <3>5, ParentForm
      <4>2. Len(j.at) + n = Len(j.key) /\ n \in Nat BY <1>4, <2>1, <3>1, <3>5
      <4>3. PICK l, m, o : l = Len(p) /\ m = Len(j.at) /\ o = Len(j.key) OBVIOUS
      <4>4. l = m - 1 /\ m + n = o /\ m \in Nat /\ n \in Nat /\ o \in Nat BY <4>1, <4>2, <4>3
      <4>5. l + (n + 1) = o BY ONLY <4>4
      <4>6. Len(p) + (n + 1) = Len(j.key) BY <4>3, <4>5
      <4> QED BY <3>3, <4>6 DEF Nested
    <3> QED BY <3>4, <3>5
  <2>8. Reentered(j.key, p)' BY <1>6, <1>11 DEF Reentered, IsSetKey
  <2>9. \A x \in Key : Reentered(j.key, x) => Reentered(j.key, x)' BY <1>6 DEF Reentered, IsSetKey
  <2>10. \A i \in 1 .. n :
       /\ Nested(j.key, i - 1, k.stack[i].key)
       /\ IF i = 1 THEN k.stack[i].key = j.key ELSE Reentered(j.key, k.stack[i].key)'
       /\ HadBelow(j.key) /\ ~Refused(j.key) => k.stack[i].ok
    <3> SUFFICES ASSUME NEW i \in 1 .. n
                 PROVE  /\ Nested(j.key, i - 1, k.stack[i].key)
                        /\ IF i = 1 THEN k.stack[i].key = j.key ELSE Reentered(j.key, k.stack[i].key)'
                        /\ HadBelow(j.key) /\ ~Refused(j.key) => k.stack[i].ok
      OBVIOUS
    <3>1. /\ Nested(j.key, i - 1, j.stack[i].key)
          /\ IF i = 1 THEN j.stack[i].key = j.key ELSE Reentered(j.key, j.stack[i].key)
          /\ HadBelow(j.key) /\ ~Refused(j.key) => j.stack[i].ok
      BY <2>1, <2>5 DEF StackStands
    <3>2. k.stack[i] = j.stack[i] BY <2>4
    <3>3. j.stack[i].key \in Key
      <4>1. j.stack[i] \in Frame BY <1>4, <2>1
      <4> QED BY <4>1 DEF Frame
    <3>4. Reentered(j.key, j.stack[i].key) => Reentered(j.key, j.stack[i].key)' BY <2>9, <3>3
    <3>5. (IF i = 1 THEN j.stack[i].key = j.key ELSE Reentered(j.key, j.stack[i].key)') BY <3>1, <3>4
    <3> QED BY <3>1, <3>2, <3>5 DEF Reentered, IsSetKey
  <2>11. /\ Nested(j.key, n, k.stack[n + 1].key)
         /\ IF n = 0 THEN k.stack[n + 1].key = j.key ELSE Reentered(j.key, k.stack[n + 1].key)'
         /\ HadBelow(j.key) /\ ~Refused(j.key) => k.stack[n + 1].ok
    <3>1. k.stack[n + 1].key = j.at /\ k.stack[n + 1].ok = j.ok BY <2>2, <2>4
    <3>2. n = 0 => j.at = j.key BY <1>4, <2>1, EmptySeq
    <3>3. n # 0 => Reentered(j.key, j.at)'
      <4>1. n # 0 => j.stack # <<>> BY <2>1
      <4> QED BY <1>4, <2>5, <2>9, <4>1 DEF StackStands
    <3>4. HadBelow(j.key) /\ ~Refused(j.key) => j.ok BY <1>3 DEF Removal
    <3>5. Nested(j.key, n, j.at) BY <2>1, <2>5 DEF StackStands
    <3> QED BY <3>1, <3>2, <3>3, <3>4, <3>5
  <2>12. StackStands(k)'
    <3>1. \A i \in 1 .. Len(k.stack) :
            /\ Nested(j.key, i - 1, k.stack[i].key)
            /\ IF i = 1 THEN k.stack[i].key = j.key ELSE Reentered(j.key, k.stack[i].key)'
            /\ HadBelow(j.key) /\ ~Refused(j.key) => k.stack[i].ok
      <4>1. \A i \in 1 .. Len(k.stack) : i \in 1 .. n \/ i = n + 1 BY <2>4
      <4>2. ASSUME NEW i \in 1 .. Len(k.stack)
            PROVE  /\ Nested(j.key, i - 1, k.stack[i].key)
                   /\ IF i = 1 THEN k.stack[i].key = j.key ELSE Reentered(j.key, k.stack[i].key)'
                   /\ HadBelow(j.key) /\ ~Refused(j.key) => k.stack[i].ok
        <5>1. CASE i \in 1 .. n BY <2>10, <5>1
        <5>2. CASE i = n + 1
          <6>1. i - 1 = n /\ (n = 0 <=> i = 1) BY <1>4, <2>1, <5>2
          <6> QED BY <2>11, <5>2, <6>1 DEF Reentered, IsSetKey
        <5> QED BY <4>1, <5>1, <5>2
      <4> QED BY <4>2
    <3>2. HadBelow(j.key)' <=> HadBelow(j.key) BY DEF HadBelow
    <3>3. Nested(j.key, Len(k.stack), k.at) BY <2>3, <2>4, <2>6
    <3>4. k.key = j.key BY <2>3 DEF Same
    <3>5. k.stack # <<>> /\ Reentered(k.key, k.at)' BY <2>3, <2>4, <2>8, <3>4 DEF Reentered, IsSetKey
    <3>6. \A i \in 1 .. Len(k.stack) :
            /\ Nested(k.key, i - 1, k.stack[i].key)'
            /\ IF i = 1 THEN k.stack[i].key = k.key ELSE Reentered(k.key, k.stack[i].key)'
            /\ HadBelow(k.key)' /\ ~Refused(k.key) => k.stack[i].ok
      BY <3>1, <3>2, <3>4 DEF Nested, HadBelow, Reentered, IsSetKey
    <3>7. Nested(k.key, Len(k.stack), k.at)' BY <3>3, <3>4 DEF Nested
    <3> QED BY <3>5, <3>6, <3>7 DEF StackStands
  <2>13. Reduced(k)' BY <1>3, <1>6, <2>3 DEF Removal, Reduced, Same
  <2>14. \A x \in Below(k.key) : ~Stored(x)' BY <1>8, <2>3 DEF Same
  <2>15. ~IsRoot(k.key) => Base(k.key) \notin set'[Parent(k.key)] BY <1>5, <1>6, <2>3 DEF Same
  <2>16. Removal(k)' BY <1>3, <1>8, <2>3, <2>4, <2>12, <2>13, <2>14, <2>15 DEF Removal, Same, Swept, Cut
  <2> QED BY <2>3, <2>16 DEF CallStands, UpdatePC, ClimbPC, DeletePC, AddPC, RemovePC
<1> QED BY <1>7, <1>9, <1>10, <1>11

LEMMA RmDelStands ==
  ASSUME SoloInv, NEW r \in Reply, RmDel(Me, r), UNCHANGED before, Calm',
         NEW j, j = job[Me], NEW k, k = job'[Me]
  PROVE  CallStands(k)'
<1>1. Command(Me, r) /\ j.pc \notin {"rm_srem", "rm_card"} BY DEF Command, Removing, RmDel, At
<1>2. /\ r.ok /\ r.done /\ CallStands(j) /\ j \in Job /\ CallConforms(j)
      /\ StoreTyped /\ StoreConforms /\ before.call = j.op
      /\ \A s : Go(Me, s) => k = s
  BY <1>1, Answered
<1>3. j.pc = "rm_del" /\ Removal(j) BY <1>2 DEF RmDel, At, CallStands, RemovePC
<1>4. /\ j.at \in Key /\ j.key \in InSchema /\ j.key \in Key
      /\ (j.stack = <<>> => j.at = j.key) /\ j.stack \in Seq(Frame) /\ Len(j.stack) \in Nat
      /\ \A i \in 1 .. Len(j.stack) : j.stack[i].key \in Key
  BY <1>2, <1>3, RemovalFacts DEF RemovePC
<1>5. /\ \A x \in Below(j.key) : ~Stored(x)
      /\ ~IsRoot(j.key) => Base(j.key) \notin set[Parent(j.key)]
  BY <1>3 DEF Removal, Swept, Cut
<1>6. set' = [set EXCEPT ![j.at] = {}] /\ hash' = [hash EXCEPT ![j.at] = EmptyHash]
  BY <1>2 DEF RmDel, Served, Executed, Del
<1>7. \A x \in Key : /\ set'[x] \subseteq set[x]
                     /\ x # j.at => set'[x] = set[x] /\ hash'[x] = hash[x]
                     /\ x = j.at => set'[x] = {} /\ \A f \in Name : hash'[x][f] = Absent
  BY <1>2, <1>4, <1>6 DEF StoreTyped, EmptyHash
<1>8. \A x \in Key : Stored(x)' => Stored(x) /\ x # j.at BY <1>7 DEF Stored, IsSetKey, IsHashKey
<1>9. CASE j.stack = <<>>
  <2>1. k = Return(j, j.ok /\ r.ok) BY <1>2, <1>9 DEF RmDel
  <2>2. k.pc = "idle" /\ Same(j, k) BY <2>1, Returns
  <2>3. \A x \in Key : IsPrefix(j.key, x) => ~Stored(x)'
    BY <1>4, <1>5, <1>8, <1>9 DEF Below, IsStrictPrefix
  <2>4. ~IsRoot(j.key) => Base(j.key) \notin set'[Parent(j.key)]
    <3>1. Parent(j.key) \in Key BY <1>4, KeyParts
    <3> QED BY <1>5, <1>7, <3>1
  <2>5. before'.call = "delete" BY <1>2, <1>3 DEF Removal
  <2>6. Returned(k)' BY <2>2, <2>3, <2>4, <2>5 DEF Returned, Same
  <2> QED BY <2>2, <2>6 DEF CallStands, UpdatePC, ClimbPC, DeletePC, RemovePC, AddPC
<1>10. CASE j.stack # <<>>
  <2>1. PICK n : n = Len(j.stack) - 1 OBVIOUS
  <2>2. PICK top : top = j.stack[n + 1] OBVIOUS
  <2>3. n \in Nat /\ Len(j.stack) = n + 1 BY <1>4, <1>10, <2>1, EmptySeq
  <2>4. PICK u : u = Front(j.stack) OBVIOUS
  <2>5. /\ top = Last(j.stack) /\ Len(u) = n
        /\ \A i \in 1 .. n : u[i] = j.stack[i]
    <3>1. top = Last(j.stack) BY <2>2, <2>3 DEF Last
    <3>2. u = SubSeq(j.stack, 1, n) BY <2>3, <2>4 DEF Front
    <3>3. \A i \in 1 .. n : j.stack[i] \in Frame BY <1>4, <2>3
    <3>4. Len(u) = n /\ \A i \in 1 .. n : u[i] = j.stack[i] BY <2>3, <3>2, <3>3, SubSeqProperties
    <3> QED BY <3>1, <3>4
  <2>6. PICK ok : ok = (top.ok /\ j.ok /\ r.ok) OBVIOUS
  <2>7. k = [j EXCEPT !.at = top.key, !.stack = u, !.ok = ok]
    BY <1>2, <1>10, <2>4, <2>5, <2>6 DEF RmDel
  <2>8. Same(j, k) /\ k.at = top.key /\ k.stack = u /\ k.ok = ok /\ k.pc = "rm_del"
    BY <1>2, <1>3, <2>7 DEF Job, Same
\* What a nested call deletes is empty already, but for a record at a root.
  <2>9. \A x \in Key, f \in Name :
          hash'[x][f] = hash[x][f] \/ (x = j.key /\ hash'[x][f] = Absent)
    <3>1. Reentered(j.key, j.at) BY <1>3, <1>10 DEF Removal, StackStands
    <3>2. CASE j.at = j.key BY <1>7, <3>2
    <3>3. CASE j.at # j.key
      <4>1. j.at \in Object BY <3>1, <3>3 DEF Reentered
      <4>2. \A f \in Name : hash[j.at][f] = Absent
        BY <1>2, <1>4, <4>1, SchemaAssumption DEF StoreConforms, IsHashKey
      <4> QED BY <1>7, <4>2
    <3> QED BY <3>2, <3>3
  <2>10. StackStands(j) BY <1>3 DEF Removal
  <2>11. \A x \in Key : Reentered(j.key, x) => Reentered(j.key, x)' BY <1>7 DEF Reentered, IsSetKey
  <2>12. /\ Nested(j.key, n, top.key)
         /\ IF n = 0 THEN top.key = j.key ELSE Reentered(j.key, top.key)
         /\ HadBelow(j.key) /\ ~Refused(j.key) => top.ok
         /\ top.key \in Key
    <3>1. PICK i \in 1 .. Len(j.stack) : i = n + 1 BY <2>3
    <3>2. i - 1 = n /\ (n = 0 <=> i = 1) /\ top = j.stack[i] BY <2>2, <2>3, <3>1
    <3>3. Nested(j.key, i - 1, j.stack[i].key) BY <2>10, <3>1 DEF StackStands
    <3>4. IF i = 1 THEN j.stack[i].key = j.key ELSE Reentered(j.key, j.stack[i].key) BY <2>10, <3>1 DEF StackStands
    <3>5. HadBelow(j.key) /\ ~Refused(j.key) => j.stack[i].ok BY <2>10, <3>1 DEF StackStands
    <3> QED BY <1>4, <3>1, <3>2, <3>3, <3>4, <3>5
  <2>13. StackStands(k)'
    <3>1. IF u = <<>> THEN top.key = j.key ELSE Reentered(j.key, top.key)'
      <4>1. u = <<>> <=> n = 0
        <5>1. u \in Seq(Frame) BY <1>4, <1>10, <2>4, SeqParts
        <5> QED BY <2>5, <5>1, EmptySeq
      <4> QED BY <2>11, <2>12, <4>1
    <3>2. \A i \in 1 .. n :
            /\ Nested(j.key, i - 1, u[i].key)
            /\ IF i = 1 THEN u[i].key = j.key ELSE Reentered(j.key, u[i].key)'
            /\ HadBelow(j.key) /\ ~Refused(j.key) => u[i].ok
      <4>1. \A i \in 1 .. n : i \in 1 .. Len(j.stack) /\ u[i] = j.stack[i] BY <2>3, <2>5
      <4> QED BY <1>4, <2>10, <2>11, <4>1 DEF StackStands
    <3>3. HadBelow(j.key)' <=> HadBelow(j.key) BY DEF HadBelow
    <3>4. k.key = j.key BY <2>8 DEF Same
    <3>5. Nested(j.key, Len(k.stack), k.at) BY <2>5, <2>8, <2>12
    <3>6. Len(k.stack) = n BY <2>5, <2>8
    <3> QED BY <2>8, <3>1, <3>2, <3>3, <3>4, <3>5, <3>6 DEF StackStands, Nested, Reentered, IsSetKey
  <2>14. /\ HadBelow(k.key)' /\ ~Refused(k.key) => k.ok
         /\ Refused(k.key) => ~k.ok
    <3>1. /\ HadBelow(j.key) /\ ~Refused(j.key) => j.ok
          /\ Refused(j.key) => ~j.ok
      BY <1>3 DEF Removal
    <3> QED BY <1>2, <2>6, <2>8, <2>12, <3>1 DEF HadBelow, Same
  <2>15. Reduced(k)'
    <3>1. IsPrefix(j.key, j.key) BY <1>4, KeyOrder
    <3> QED BY <1>3, <2>8, <2>9, <3>1 DEF Removal, Reduced, Same
  <2>16. \A x \in Below(k.key) : ~Stored(x)' BY <1>5, <1>8, <2>8 DEF Same, Below
  <2>17. ~IsRoot(k.key) => Base(k.key) \notin set'[Parent(k.key)]
    <3>1. Parent(j.key) \in Key BY <1>4, KeyParts
    <3> QED BY <1>5, <1>7, <2>8, <3>1 DEF Same
  <2>18. Removal(k)' BY <1>3, <2>8, <2>13, <2>14, <2>15, <2>16, <2>17 DEF Removal, Same, Swept, Cut
  <2> QED BY <2>8, <2>18 DEF CallStands, UpdatePC, ClimbPC, DeletePC, AddPC, RemovePC
<1> QED BY <1>9, <1>10

\* json_scan goes on with the next member, or ends.
LEMMA NextItemFacts ==
  ASSUME NEW j \in Job, j.todo # <<>>, NEW ok, NEW k, k = NextItem(j, ok)
  PROVE  /\ Same(j, k)
         /\ IF Tail(j.todo) = <<>> THEN k.pc = "idle" ELSE k.pc = "add_probe" /\ k.todo = Tail(j.todo)
<1>1. PICK s : s = [j EXCEPT !.ok = @ /\ (IsRoot(Head(j.todo).at) => ok), !.todo = Tail(@)] OBVIOUS
<1>2. PICK res : res = (j.ok /\ (IsRoot(Head(j.todo).at) => ok)) OBVIOUS
<1>3. PICK rest : rest = Tail(j.todo) OBVIOUS
<1>4. s = [j EXCEPT !.ok = res, !.todo = rest] BY <1>1, <1>2, <1>3
<1>5. Same(j, s) /\ s.todo = rest BY <1>4 DEF Job, Same
<1>6. IF s.todo = <<>> THEN k = Return(s, s.ok) ELSE k = [s EXCEPT !.pc = "add_probe"]
  BY <1>1 DEF NextItem
<1>7. CASE rest = <<>> BY <1>3, <1>5, <1>6, <1>7, Returns DEF Same
<1>8. CASE rest # <<>>
  <2>1. k = [s EXCEPT !.pc = "add_probe"] BY <1>5, <1>6, <1>8
  <2>2. k.pc = "add_probe" /\ k.todo = rest /\ Same(j, k) BY <1>4, <2>1 DEF Job, Same
  <2> QED BY <1>3, <1>8, <2>2
<1> QED BY <1>7, <1>8

\* Another member of the document is there.
LEMMA AddGoesOn ==
  ASSUME NEW j \in Job, j.todo # <<>>, j.op = "add", NEW d \in Document, NEW n \in Nat,
         Rest(j.todo, d, n), Submitted(d, n + 1)', before'.doc = d, before'.call = "add",
         NEW ok, NEW k, k = NextItem(j, ok)
  PROVE  CallStands(k)'
<1>1. j.todo \in Seq(Item) BY DEF Job
<1>2. /\ n + 1 \in 1 .. Len(d) /\ d[n + 1] = Head(j.todo) /\ Len(d) \in Nat
      /\ Rest(Tail(j.todo), d, n + 1) /\ d \in Seq(Item)
  BY <1>1, NextMember, CommandAssumption
<1>3. /\ Same(j, k)
      /\ IF Tail(j.todo) = <<>> THEN k.pc = "idle" ELSE k.pc = "add_probe" /\ k.todo = Tail(j.todo)
  BY NextItemFacts
<1>4. CASE Tail(j.todo) = <<>>
  <2>1. Len(d) = n + 1
    <3>1. PICK u : u = Tail(j.todo) OBVIOUS
    <3>2. Len(d) = n + 1 + Len(u) BY <1>2, <3>1 DEF Rest
    <3>3. u = <<>> BY <1>4, <3>1
    <3> QED BY ONLY <3>2, <3>3
  <2>2. \A i \in ToSet(d) : Present(i)'
    <3>1. \A i \in ToSet(d) : \E h \in 1 .. n + 1 : i = d[h] BY <1>2, <2>1 DEF ToSet
    <3>2. \A h \in 1 .. n + 1 : Present(d[h])' BY DEF Submitted
    <3> QED BY <3>1, <3>2 DEF Present
  <2>3. Returned(k)' BY <2>2 DEF Returned
  <2>4. k.pc = "idle" BY <1>3, <1>4
  <2> QED BY <2>3, <2>4 DEF CallStands, UpdatePC, ClimbPC, DeletePC, RemovePC, AddPC
<1>5. CASE Tail(j.todo) # <<>>
  <2>1. k.pc = "add_probe" /\ k.todo = Tail(j.todo) /\ k.op = "add" BY <1>3, <1>5 DEF Same
  <2>2. n + 1 \in Nat /\ Rest(k.todo, d, n + 1) BY <1>2, <2>1
  <2>3. Adding(k)' BY <2>1, <2>2 DEF Adding
  <2> QED BY <2>1, <2>3 DEF CallStands, UpdatePC, ClimbPC, DeletePC, RemovePC, AddPC
<1> QED BY <1>4, <1>5

\* A member that is there, or is put there, is one more of the submitted ones.
LEMMA ProbeSubmits ==
  ASSUME NEW d, NEW n \in Nat, Submitted(d, n), Present(d[n + 1]), UNCHANGED <<set, hash>>,
         UNCHANGED before
  PROVE  Submitted(d, n + 1)'
<1>1. \A h \in 1 .. n + 1 : h \in 1 .. n \/ h = n + 1 OBVIOUS
<1>2. \A h \in 1 .. n + 1 : Present(d[h]) BY <1>1 DEF Submitted
<1>3. 1 .. n \subseteq 1 .. n + 1 OBVIOUS
<1>4. Submitted(d, n + 1) BY <1>2, <1>3 DEF Submitted
<1> QED BY <1>4 DEF Submitted, Present

LEMMA WriteSubmits ==
  ASSUME StoreTyped, NEW d \in Document, NEW n \in Nat, n + 1 \in 1 .. Len(d), Submitted(d, n),
         NEW i, i = d[n + 1], ~Present(i), Submit(i), UNCHANGED before
  PROVE  Submitted(d, n + 1)'
<1>1. i \in Item /\ \A h \in 1 .. n : d[h] \in Item
  <2>1. Len(d) \in Nat /\ \A m \in 1 .. Len(d) : d[m] \in Item BY CommandAssumption
  <2> QED BY <2>1
<1>2. i.at \in Key /\ i.name \in Name /\ i.value \in Value BY <1>1 DEF Item
<1>3. \A h \in 1 .. n + 1 : h \in 1 .. n \/ h = n + 1 OBVIOUS
<1>4. \A h \in 1 .. n : Present(d[h]) BY DEF Submitted
<1>5. CASE i.object
  <2>1. set' = [set EXCEPT ![i.at] = @ \cup {i.name}] /\ UNCHANGED hash
    BY <1>5 DEF Submit, Sadd
  <2>2. i.name \in set'[i.at] /\ \A x \in Key : set[x] \subseteq set'[x]
    BY <1>2, <2>1 DEF StoreTyped
  <2>3. \A h \in 1 .. n : Present(d[h])'
    <3>1. ASSUME NEW h \in 1 .. n PROVE Present(d[h])'
      <4>1. d[h].at \in Key BY <1>1 DEF Item
      <4>2. Present(d[h]) BY <1>4
      <4> QED BY <2>1, <2>2, <4>1, <4>2 DEF Present
    <3> QED BY <3>1
  <2>4. Present(d[n + 1])' BY <1>1, <1>5, <2>2 DEF Present
  <2>5. \A h \in 1 .. n + 1 : Present(d[h])' BY <1>3, <2>3, <2>4 DEF Present
  <2>6. 1 .. n \subseteq 1 .. n + 1 OBVIOUS
  <2> QED BY <2>1, <2>5, <2>6 DEF Submitted
<1>6. CASE ~i.object
  <2>1. hash' = [hash EXCEPT ![i.at][i.name] = i.value] /\ UNCHANGED set
    BY <1>6 DEF Submit, Hput
  <2>2. hash[i.at][i.name] = Absent BY <1>6 DEF Present
  <2>3. \A x \in Key, f \in Name : hash'[x][f] = IF x = i.at /\ f = i.name THEN i.value ELSE hash[x][f]
    BY <1>2, <2>1 DEF StoreTyped
  <2>4. i.value # Absent BY <1>2, CommandAssumption
  <2>5. \A h \in 1 .. n : Present(d[h])'
    <3>1. ASSUME NEW h \in 1 .. n PROVE Present(d[h])'
      <4>1. d[h].at \in Key /\ d[h].name \in Name BY <1>1 DEF Item
      <4>2. Present(d[h]) BY <1>4
      <4>3. hash'[d[h].at][d[h].name] = Absent => hash[d[h].at][d[h].name] = Absent
        BY <2>3, <2>4, <4>1
      <4> QED BY <2>1, <4>2, <4>3 DEF Present
    <3> QED BY <3>1
  <2>6. Present(d[n + 1])' BY <1>1, <1>2, <1>6, <2>3, <2>4 DEF Present
  <2>7. \A h \in 1 .. n + 1 : Present(d[h])' BY <1>3, <2>5, <2>6 DEF Present
\* It is the first member for that field: an earlier one would have been there.
  <2>8. \A g \in 1 .. n : g \notin Leaves(d, i.at, i.name)
    <3>1. SUFFICES ASSUME NEW g \in 1 .. n, g \in Leaves(d, i.at, i.name) PROVE FALSE OBVIOUS
    <3>2. ~d[g].object /\ d[g].at = i.at /\ d[g].name = i.name BY <3>1 DEF Leaves
    <3> QED BY <1>4, <2>2, <3>1, <3>2 DEF Present
  <2>9. n + 1 \in Leaves(d, i.at, i.name) BY <1>1, <1>6 DEF Leaves
  <2>10. ASSUME NEW x \in Key, NEW f \in Name
         PROVE  \/ hash'[x][f] = before.hash[x][f]
                \/ /\ before.hash[x][f] = Absent
                   /\ \E h \in 1 .. n + 1 : /\ h \in Leaves(d, x, f) /\ hash'[x][f] = d[h].value
                                            /\ \A g \in 1 .. h - 1 : g \notin Leaves(d, x, f)
    <3>1. \/ hash[x][f] = before.hash[x][f]
          \/ /\ before.hash[x][f] = Absent
             /\ \E h \in 1 .. n : /\ h \in Leaves(d, x, f) /\ hash[x][f] = d[h].value
                                  /\ \A g \in 1 .. h - 1 : g \notin Leaves(d, x, f)
      BY DEF Submitted
    <3>2. CASE x = i.at /\ f = i.name
      <4>1. \A h \in 1 .. n : ~(h \in Leaves(d, x, f)) BY <2>8, <3>2
      <4>2. before.hash[x][f] = Absent BY <2>2, <3>1, <3>2, <4>1
      <4>3. hash'[x][f] = d[n + 1].value BY <1>1, <2>3, <3>2
      <4>4. n + 1 \in 1 .. n + 1 /\ (\A g \in 1 .. (n + 1) - 1 : g \in 1 .. n) OBVIOUS
      <4> QED BY <2>8, <2>9, <3>2, <4>2, <4>3, <4>4
    <3>3. CASE ~(x = i.at /\ f = i.name)
      <4>1. hash'[x][f] = hash[x][f] BY <2>3, <3>3
      <4>2. 1 .. n \subseteq 1 .. n + 1 OBVIOUS
      <4> QED BY <3>1, <4>1, <4>2
    <3> QED BY <3>2, <3>3
  <2> QED BY <2>7, <2>10 DEF Submitted
<1> QED BY <1>5, <1>6

LEMMA AddProbeStands ==
  ASSUME SoloInv, NEW r \in Reply, AddProbe(Me, r), UNCHANGED before, Calm',
         NEW j, j = job[Me], NEW k, k = job'[Me]
  PROVE  CallStands(k)'
<1>1. Command(Me, r) /\ j.pc \notin {"rm_srem", "rm_card"} BY DEF Command, Writing, AddProbe, At
<1>2. /\ r.ok /\ r.done /\ CallStands(j) /\ j \in Job /\ HasArguments(j) /\ before.call = j.op
      /\ \A s : Go(Me, s) => k = s
  BY <1>1, Answered
<1>3. j.pc = "add_probe" /\ Adding(j) /\ j.todo # <<>>
  BY <1>2 DEF AddProbe, At, CallStands, AddPC, HasArguments
<1>4. PICK d \in Document, n \in Nat : d = before.doc /\ Rest(j.todo, d, n) /\ Submitted(d, n)
  BY <1>3 DEF Adding
<1>5. UNCHANGED <<set, hash>> BY <1>2 DEF AddProbe, Served, Executed, Keep
<1>6. CASE Present(Head(j.todo))
  <2>1. k = NextItem(j, FALSE) BY <1>2, <1>6 DEF AddProbe
  <2>2. d[n + 1] = Head(j.todo) BY <1>2, <1>3, <1>4, NextMember DEF Job
  <2>3. Submitted(d, n + 1)' BY <1>4, <1>5, <1>6, <2>2, ProbeSubmits
  <2>4. before'.doc = d /\ before'.call = "add" /\ j.op = "add" BY <1>2, <1>3, <1>4 DEF Adding
  <2> QED BY <1>2, <1>3, <1>4, <2>1, <2>3, <2>4, AddGoesOn
<1>7. CASE ~Present(Head(j.todo))
  <2>1. k = [j EXCEPT !.pc = "add_write"] BY <1>2, <1>7 DEF AddProbe
  <2>2. Same(j, k) /\ k.pc = "add_write" /\ k.todo = j.todo BY <1>2, <2>1 DEF Job, Same
  <2>3. Submitted(d, n)' BY <1>4, <1>5 DEF Submitted, Present
  <2>4. ~Present(Head(k.todo))' BY <1>5, <1>7, <2>2 DEF Present
  <2>5. Adding(k)' BY <1>3, <1>4, <2>2, <2>3, <2>4 DEF Adding, Same
  <2> QED BY <2>2, <2>5 DEF CallStands, UpdatePC, ClimbPC, DeletePC, RemovePC, AddPC
<1> QED BY <1>6, <1>7

LEMMA AddWriteStands ==
  ASSUME SoloInv, NEW r \in Reply, AddWrite(Me, r), UNCHANGED before, Calm',
         NEW j, j = job[Me], NEW k, k = job'[Me]
  PROVE  CallStands(k)'
<1>1. Command(Me, r) /\ j.pc \notin {"rm_srem", "rm_card"} BY DEF Command, Writing, AddWrite, At
<1>2. /\ r.ok /\ r.done /\ CallStands(j) /\ j \in Job /\ HasArguments(j) /\ before.call = j.op
      /\ StoreTyped /\ \A s : Go(Me, s) => k = s
  BY <1>1, Answered
<1>3. j.pc = "add_write" /\ Adding(j) /\ j.todo # <<>> /\ j.todo \in Seq(Item)
  BY <1>2 DEF AddWrite, At, CallStands, AddPC, HasArguments, Job
<1>4. PICK d \in Document, n \in Nat : d = before.doc /\ Rest(j.todo, d, n) /\ Submitted(d, n)
  BY <1>3 DEF Adding
<1>5. PICK i : i = Head(j.todo) OBVIOUS
<1>6. ~Present(i) /\ Submit(i) /\ k = NextItem(j, i.object /\ r.ok)
  BY <1>2, <1>3, <1>5 DEF AddWrite, Served, Executed, Adding
<1>7. d[n + 1] = i /\ n + 1 \in 1 .. Len(d) BY <1>3, <1>4, <1>5, NextMember
<1>8. Submitted(d, n + 1)' BY <1>2, <1>4, <1>6, <1>7, WriteSubmits
<1>9. before'.doc = d /\ before'.call = "add" /\ j.op = "add" BY <1>2, <1>3, <1>4 DEF Adding
<1> QED BY <1>2, <1>3, <1>4, <1>6, <1>8, <1>9, AddGoesOn

LEMMA CommandStands ==
  ASSUME SoloInv, NEW r \in Reply, Command(Me, r), UNCHANGED before, Calm'
  PROVE  \A j \in {job'[Me]} : CallStands(j)'
<1> SUFFICES ASSUME NEW k, k = job'[Me] PROVE CallStands(k)' OBVIOUS
<1>1. PICK j : j = job[Me] OBVIOUS
<1>2. CASE UpdKeys(Me, r) BY <1>1, <1>2, UpdKeysStands
<1>3. CASE UpdHexists(Me, r) BY <1>1, <1>3, UpdHexistsStands
<1>4. CASE ValHset(Me, r) BY <1>1, <1>4, ValHsetStands
<1>5. CASE AddHset(Me, r) BY <1>1, <1>5, AddHsetStands
<1>6. CASE ClimbSadd(Me, r) BY <1>1, <1>6, ClimbSaddStands
<1>7. CASE ClimbKeys(Me, r) BY <1>1, <1>7, ClimbKeysStands
<1>8. CASE AddProbe(Me, r) BY <1>1, <1>8, AddProbeStands
<1>9. CASE AddWrite(Me, r) BY <1>1, <1>9, AddWriteStands
<1>10. CASE DelKeys(Me, r) BY <1>1, <1>10, DelKeysStands
<1>11. CASE DelIsHash(Me, r) \/ DelHexists(Me, r) \/ DelHdel(Me, r) BY <1>1, <1>11, DelFieldStands
<1>12. CASE RmType(Me, r) BY <1>1, <1>12, RmTypeStands
<1>13. CASE RmScard(Me, r) BY <1>1, <1>13, RmScardStands
<1>14. CASE RmKids(Me, r) BY <1>1, <1>14, RmKidsStands
<1>15. CASE RmKid(Me, r) BY <1>1, <1>15, RmKidStands
<1>16. CASE RmSrem(Me, r) BY <1>1, <1>16, RmSremStands
<1>17. CASE RmCard(Me, r) BY <1>1, <1>17, RmCardStands
<1>18. CASE RmDel(Me, r) BY <1>1, <1>18, RmDelStands
<1> QED BY <1>2, <1>3, <1>4, <1>5, <1>6, <1>7, <1>8, <1>9, <1>10, <1>11, <1>12, <1>13, <1>14,
           <1>15, <1>16, <1>17, <1>18 DEF Command, Writing, Removing

\* What the call that begins has to find.
LEMMA BeginsStands ==
  ASSUME SoloBase, SoloNext, Update(Me) \/ Delete(Me) \/ AddConfig(Me)
  PROVE  \A j \in {job'[Me]} : CallStands(j)'
<1> SUFFICES ASSUME NEW k, k = job'[Me] PROVE CallStands(k)' OBVIOUS
<1>1. CASE Update(Me)
  <2>1. PICK key \in UpdateKey, v \in Value :
          Call(Me, [Idle EXCEPT !.pc = "upd_keys", !.op = "update", !.key = key, !.value = v])
    BY <1>1 DEF Update
  <2>2. PICK s : s = [Idle EXCEPT !.pc = "upd_keys", !.op = "update", !.key = key, !.value = v] OBVIOUS
  <2>3. k = s /\ hash' = hash /\ before'.hash = hash
    <3>1. Call(Me, s) BY <2>1, <2>2
    <3>2. /\ job'[Me] = s /\ UNCHANGED hash
          /\ before' = [call |-> s.op, set |-> set, hash |-> hash, ok |-> job[Me].ok,
                        found |-> s.key \in Key /\ Stored(s.key), doc |-> s.todo, faults |-> faults]
      BY <3>1, CallBegins
    <3> QED BY <3>2
  <2>4. k.pc = "upd_keys" /\ k.op = "update" /\ k.key = key /\ k.value = v BY <2>2, <2>3 DEF Idle
  <2>5. Changing(k)' BY <2>3, <2>4 DEF Changing
  <2> QED BY <2>4, <2>5 DEF CallStands, UpdatePC, ClimbPC, DeletePC, RemovePC, AddPC
<1>2. CASE Delete(Me)
  <2>1. PICK key \in DeleteKey :
          Call(Me, [Idle EXCEPT !.pc = "del_keys", !.op = "delete", !.key = key])
    BY <1>2 DEF Delete
  <2>2. PICK s : s = [Idle EXCEPT !.pc = "del_keys", !.op = "delete", !.key = key] OBVIOUS
  <2>3. /\ k = s /\ hash' = hash /\ set' = set /\ before'.hash = hash
        /\ before'.found = (s.key \in Key /\ Stored(s.key))
    <3>1. Call(Me, s) BY <2>1, <2>2
    <3>2. /\ job'[Me] = s /\ UNCHANGED <<set, hash>>
          /\ before' = [call |-> s.op, set |-> set, hash |-> hash, ok |-> job[Me].ok,
                        found |-> s.key \in Key /\ Stored(s.key), doc |-> s.todo, faults |-> faults]
      BY <3>1, CallBegins
    <3> QED BY <3>2
  <2>4. k.pc = "del_keys" /\ k.op = "delete" /\ k.key = key BY <2>2, <2>3 DEF Idle
  <2>5. key \in Key BY CommandAssumption
  <2>6. before'.found <=> Stored(k.key)'
    BY <2>3, <2>4, <2>5 DEF Stored, IsSetKey, IsHashKey
  <2>7. Deleting(k)' BY <2>3, <2>4, <2>6 DEF Deleting
  <2> QED BY <2>4, <2>7 DEF CallStands, UpdatePC, ClimbPC, DeletePC, RemovePC, AddPC
<1>3. CASE AddConfig(Me)
  <2>1. PICK d \in Document :
          Call(Me, [Idle EXCEPT !.pc = "add_probe", !.op = "add", !.todo = d])
    BY <1>3 DEF AddConfig
  <2>2. PICK s : s = [Idle EXCEPT !.pc = "add_probe", !.op = "add", !.todo = d] OBVIOUS
  <2>3. k = s /\ hash' = hash /\ before'.hash = hash /\ before'.doc = s.todo
    <3>1. Call(Me, s) BY <2>1, <2>2
    <3>2. /\ job'[Me] = s /\ UNCHANGED hash
          /\ before' = [call |-> s.op, set |-> set, hash |-> hash, ok |-> job[Me].ok,
                        found |-> s.key \in Key /\ Stored(s.key), doc |-> s.todo, faults |-> faults]
      BY <3>1, CallBegins
    <3> QED BY <3>2
  <2>4. k.pc = "add_probe" /\ k.op = "add" /\ k.todo = d BY <2>2, <2>3 DEF Idle
  <2>5. Rest(k.todo, d, 0)
    <3>1. Len(d) \in Nat BY CommandAssumption
    <3>2. Len(d) = 0 + Len(d) /\ \A i \in 1 .. Len(d) : 0 + i = i BY <3>1
    <3> QED BY <2>4, <3>2 DEF Rest
  <2>6. Submitted(d, 0)' BY <2>3 DEF Submitted
  <2>7. 0 \in Nat OBVIOUS
  <2>8. before'.doc = d BY <2>2, <2>3, <2>4
  <2>9. Adding(k)' BY <2>4, <2>5, <2>6, <2>7, <2>8 DEF Adding
  <2> QED BY <2>4, <2>9 DEF CallStands, UpdatePC, ClimbPC, DeletePC, RemovePC, AddPC
<1> QED BY <1>1, <1>2, <1>3

\* Clear and its FLUSHALL leave a client that has not called since.
LEMMA IdleStands ==
  ASSUME SoloBase, SoloNext, Clear(Me) \/ FlushAll(Me)
  PROVE  \A j \in {job'[Me]} : CallStands(j)'
<1> SUFFICES ASSUME NEW k, k = job'[Me] PROVE CallStands(k)' OBVIOUS
<1>1. k.pc = "idle" /\ before'.call = "clear" BY ClearBase, RestBase
<1>2. Returned(k)' BY <1>1 DEF Returned
<1> QED BY <1>1, <1>2 DEF CallStands, UpdatePC, ClimbPC, DeletePC, RemovePC, AddPC

LEMMA SoloInvNext == SoloInv /\ [SoloNext]_<<vars, before>> => SoloInv'
<1> SUFFICES ASSUME SoloInv, [SoloNext]_<<vars, before>> PROVE SoloInv' OBVIOUS
<1>1. SoloBase BY DEF SoloInv
<1>2. CASE UNCHANGED <<vars, before>>
  <2>1. UNCHANGED <<set, hash, job, updates, flushing, ops, faults, before>> BY <1>2 DEF vars
  <2>2. SchemaInv' BY <1>1, <2>1, NextConforms DEF SoloBase, vars
  <2>3. BeforeTyped' BY <1>1, <2>1 DEF SoloBase, BeforeTyped
  <2>4. Bookkeeping' BY <1>1, <2>1 DEF SoloBase, Bookkeeping, InCall
  <2>5. ASSUME Calm', NEW k, k = job'[Me] PROVE CallStands(k)'
    <3>1. Calm BY <2>1, <2>5 DEF Calm
    <3>2. CallStands(k) BY <2>1, <2>5, <3>1 DEF SoloInv
    <3>3. /\ Returned(k) => Returned(k)'
          /\ Changing(k) => Changing(k)'
          /\ Climbing(k) => Climbing(k)'
          /\ Deleting(k) => Deleting(k)'
          /\ Adding(k) => Adding(k)'
      <4>1. /\ \A x : (Stored(x)' <=> Stored(x)) /\ (Present(x)' <=> Present(x))
            /\ \A x : ListedFrom(x)' <=> ListedFrom(x)
            /\ \A x, y : ListedBelow(x, y)' <=> ListedBelow(x, y)
            /\ Changed(k)' <=> Changed(k)
            /\ Was(k.key)' = Was(k.key)
        BY <2>1 DEF Stored, IsSetKey, IsHashKey, Present, ListedFrom, ListedBelow, Changed, Was
      <4>2. Returned(k) => Returned(k)' BY <2>1, <4>1 DEF Returned
      <4>3. Changing(k) => Changing(k)' BY <2>1, <4>1 DEF Changing
      <4>4. Climbing(k) => Climbing(k)' BY <2>1, <4>1 DEF Climbing
      <4>5. Deleting(k) => Deleting(k)' BY <2>1, <4>1 DEF Deleting
      <4>6. \A d, n : Submitted(d, n) => Submitted(d, n)' BY <2>1, <4>1 DEF Submitted
      <4>7. Adding(k) => Adding(k)' BY <2>1, <4>1, <4>6 DEF Adding, Present
      <4> QED BY <4>2, <4>3, <4>4, <4>5, <4>7
    <3>4. Removal(k) => Removal(k)'
      <4>1. HadBelow(k.key)' <=> HadBelow(k.key) BY <2>1 DEF HadBelow
      <4>2. \A x : /\ (Stored(x)' <=> Stored(x)) /\ (IsSetKey(x)' <=> IsSetKey(x))
                   /\ (IsHashKey(x)' <=> IsHashKey(x))
                   /\ \A d : Reentered(d, x)' <=> Reentered(d, x)
        BY <2>1 DEF Reentered, Stored, IsSetKey, IsHashKey
      <4>3. StackStands(k) => StackStands(k)' BY <4>1, <4>2 DEF StackStands
      <4>4. Reduced(k) => Reduced(k)' BY <2>1 DEF Reduced
      <4> QED BY <2>1, <4>1, <4>2, <4>3, <4>4 DEF Removal
    <3> QED BY <3>2, <3>3, <3>4 DEF CallStands
  <2> QED BY <2>2, <2>3, <2>4, <2>5 DEF SoloInv, SoloBase
<1>3. CASE SoloNext
  <2>1. SoloBase' BY <1>1, <1>3, BaseNext
  <2>2. CASE Update(Me) \/ Delete(Me) \/ AddConfig(Me)
    BY <1>1, <1>3, <2>1, <2>2, BeginsStands DEF SoloInv
  <2>3. CASE Clear(Me) \/ FlushAll(Me) BY <1>1, <1>3, <2>1, <2>3, IdleStands DEF SoloInv
  <2>4. CASE Kill(Me) BY <1>1, <1>3, <2>1, <2>4, RestBase DEF SoloInv, Calm
  <2>5. ASSUME NEW r \in Reply, Command(Me, r) PROVE SoloInv'
    <3>1. UNCHANGED before BY <1>1, <1>3, <2>5, CommandFrame
    <3> QED BY <2>1, <2>5, <3>1, CommandStands DEF SoloInv
  <2> QED BY <1>3, <2>2, <2>3, <2>4, <2>5, SoloSteps
<1> QED BY <1>2, <1>3
-----------------------------------------------------------------------------
LEMMA SoloInvariant == SoloSpec => []SoloInv
<1>1. SoloInit => SoloInv BY InitSolo
<1>2. SoloInv /\ [SoloNext]_<<vars, before>> => SoloInv' BY SoloInvNext
<1> QED BY <1>1, <1>2, PTL DEF SoloSpec

\* A Delete of a stored key that gets all its answers removes all at and below the
\* key and the name above it (Delete, RemoveKey, RemoveChildren, RemoveFromParent),
\* whatever the calls before it left broken: any keys, documents, faults and calls.
THEOREM DeletesWhole == SoloSpec => []DeleteIsComplete
<1>1. SoloInv => DeleteIsComplete
  <2> SUFFICES ASSUME SoloInv, Undisturbed("delete"), before.found
               PROVE  /\ \A k \in Key : IsPrefix(job[Me].key, k) => ~Stored(k)
                      /\ ~IsRoot(job[Me].key) => Base(job[Me].key) \notin set[Parent(job[Me].key)]
    BY DEF DeleteIsComplete
  <2>1. CallStands(job[Me]) BY DEF SoloInv, Undisturbed, Calm
  <2> QED BY <2>1 DEF CallStands, Returned, Undisturbed, At
<1> QED BY <1>1, SoloInvariant, PTL

\* An Update of a new field and an AddConfig that get all their answers leave what
\* they store listed up to the root (AddHashValue with UpdateParent, AddCon), also
\* where a call before broke off between two levels.
THEOREM AddsReachable == SoloSpec => []AddedIsReachable
<1>1. SoloInv => AddedIsReachable
  <2> SUFFICES ASSUME SoloInv
               PROVE  LET k == job[Me].key IN
                      /\ Undisturbed("update") /\ before.hash[Parent(k)][Base(k)] = Absent
                           => ListedFrom(Parent(k))
                      /\ Undisturbed("add") => \A i \in ToSet(before.doc) : Present(i)
    BY DEF AddedIsReachable
  <2>1. \A call : Undisturbed(call) => CallStands(job[Me]) BY DEF SoloInv, Undisturbed, Calm
  <2> QED BY <2>1 DEF CallStands, Returned, Undisturbed, At, Was
<1> QED BY <1>1, SoloInvariant, PTL

\* In a Delete that got its answers so far RemoveKey calls itself once per level of
\* the key, and more often only at a root that is no set (RemoveFromParent).
THEOREM NestingBounded == SoloSpec => []DeepOnlyAtEmptyRoot
<1>1. SoloInv => DeepOnlyAtEmptyRoot
  <2> SUFFICES ASSUME SoloInv, Calm, NEW j, j = job[Me], j.op = "delete", Len(j.stack) >= Len(j.key)
               PROVE  IsRoot(j.at) /\ ~IsSetKey(j.at)
    BY DEF DeepOnlyAtEmptyRoot, Calm
  <2>1. SoloBase /\ CallStands(j) BY DEF SoloInv
  <2>2. j.key \in Key BY <2>1, CommandAssumption DEF SoloBase, Bookkeeping
  <2>3. Len(j.key) \in Nat \ {0} BY <2>2, ParentForm
  <2>4. j.stack # <<>>
    <3>1. ASSUME NEW s, s = <<>> PROVE Len(s) = 0 BY <3>1
    <3> QED BY <2>3, <3>1
  <2>5. j.pc \in RemovePC BY <2>1, <2>4 DEF SoloBase, Bookkeeping
  <2>6. Removal(j) BY <2>1, <2>5 DEF CallStands
  <2>7. j \in Job /\ CallConforms(j) BY <2>1, SoloFacts
  <2>8. j.at \in Key /\ Len(j.stack) \in Nat BY <2>5, <2>6, <2>7, RemovalFacts
  <2>9. ~IsSetKey(j.at) /\ (IsRoot(j.at) \/ Len(j.at) + Len(j.stack) = Len(j.key))
    <3>1. StoreConforms BY <2>1, SoloFacts
    <3>2. Reentered(j.key, j.at) /\ (IsRoot(j.at) \/ Len(j.at) + Len(j.stack) = Len(j.key))
      BY <2>4, <2>6 DEF Removal, StackStands, Nested
    <3> QED BY <3>1, <3>2, ReenteredEmpty
  <2>10. Len(j.at) \in Nat \ {0} BY <2>8, ParentForm
  <2>11. Len(j.at) + Len(j.stack) # Len(j.key)
    <3>1. PICK l, m, n : l = Len(j.at) /\ m = Len(j.stack) /\ n = Len(j.key) OBVIOUS
    <3>2. l \in Nat \ {0} /\ m \in Nat /\ n \in Nat /\ m >= n BY <2>3, <2>8, <2>10, <3>1
    <3>3. l + m # n BY ONLY <3>2
    <3> QED BY <3>1, <3>3
  <2> QED BY <2>9, <2>11
<1> QED BY <1>1, SoloInvariant, PTL
-----------------------------------------------------------------------------
(***************************************************************************)
(* Where every command since the beginning was answered: what a call has   *)
(* not listed yet or not any more, and what one that returns has done to   *)
(* the fields.                                                             *)
(***************************************************************************)
MayBeUnlisted(j, k) ==
  \/ j.pc = "climb_sadd" /\ k = j.at
  \/ j.pc = "climb_keys" /\ k = Parent(j.at)
  \/ j.pc = "rm_kid" /\ k \in j.kids
  \/ j.pc \in RemovePC /\ Cut(j) /\ k = j.key

\* A root that held fields itself.
WasRootRecord(p) == IsRoot(p) /\ \E f \in Name : before.hash[p][f] # Absent

\* As long as AddConfig is to return true, no member of a root was or had fields before.
FirstHere(j, d, n) == j.ok => \A h \in 1 .. n :
  IsRoot(d[h].at) => d[h].object /\ ~HadBelow(Child(d[h].at, d[h].name))

Erased(j) == \A k \in Key, f \in Name :
  hash[k][f] = IF Store1!Within(j.key, k, f) THEN Absent ELSE before.hash[k][f]

HadWithin(d) == \E k \in Key, f \in Name : Store1!Within(d, k, f) /\ before.hash[k][f] # Absent

Merged(old, d) == \A k \in Key, f \in Name : hash[k][f] =
  IF old[k][f] # Absent \/ Leaves(d, k, f) = {} THEN old[k][f] ELSE d[Min(Leaves(d, k, f))].value

\* A call that has returned did what one of ConfigStore does.
Fulfilled(j) ==
  /\ before.call = "update" =>
       /\ j.key \in UpdateKey /\ j.value \in Value
       /\ WasRootRecord(j.key) => ~j.ok /\ hash = before.hash
       /\ ~WasRootRecord(j.key) => j.ok /\ Changed(j)
  /\ before.call = "delete" =>
       /\ j.key \in DeleteKey
       /\ Erased(j)
       /\ HadWithin(j.key) => (j.ok <=> ~WasRootRecord(j.key))
  /\ before.call = "add" =>
       /\ before.doc \in Document
       /\ Merged(before.hash, before.doc)
       /\ j.ok => \A k \in Key, f \in Name :
                    before.hash[k][f] = Absent \/ Leaves(before.doc, k, f) = {}

CallClean(j) ==
  /\ j.pc # "crashed" => \A k \in Key : Unlisted(k) => MayBeUnlisted(j, k)
  /\ j.pc \in {"upd_hexists", "add_hset", "val_hset"} \cup ClimbPC => ~WasRootRecord(j.key)
  /\ j.pc \in AddPC => \A n \in Nat : Rest(j.todo, before.doc, n) => FirstHere(j, before.doc, n)
  /\ j.pc = "idle" => Fulfilled(j)

CleanInv == SoloInv /\ (faults = 0 => \A j \in {job[Me]} : CallClean(j))
-----------------------------------------------------------------------------
LEMMA NothingFailed ==
  ASSUME SoloBase, faults = 0 PROVE Calm
<1>1. faults \in Nat /\ before.faults \in Nat /\ before.faults <= faults
  BY SoloFacts, CommandAssumption DEF CountsTyped, BeforeTyped, History
<1> QED BY <1>1 DEF Calm

\* before is what it was.
LEMMA WasBefore == ASSUME UNCHANGED before, NEW p PROVE WasRootRecord(p)' <=> WasRootRecord(p)
BY DEF WasRootRecord

LEMMA SamePlace ==
  ASSUME NEW x \in Key, NEW y \in Key, ~IsRoot(x), ~IsRoot(y), Parent(x) = Parent(y), Base(x) = Base(y)
  PROVE  x = y
BY Rebuilt

\* A command that changes nothing, of a call that has listed all it stored.
LEMMA StillListed ==
  ASSUME NEW j, CallClean(j), j.pc \in UpdatePC \cup DeletePC \cup AddPC, Keep
  PROVE  /\ \A x \in Key : ~Unlisted(x)
         /\ \A x \in Key : ~Unlisted(x)'
         /\ UNCHANGED <<set, hash>>
<1>1. j.pc # "crashed" /\ j.pc \notin ClimbPC \cup RemovePC
  BY DEF UpdatePC, DeletePC, AddPC, ClimbPC, RemovePC
<1>2. \A x \in Key : ~Unlisted(x) BY <1>1 DEF CallClean, MayBeUnlisted, ClimbPC, RemovePC
<1> QED BY <1>2 DEF Keep, Unlisted, Stored, IsSetKey, IsHashKey
-----------------------------------------------------------------------------
LEMMA UpdKeysClean ==
  ASSUME SoloInv, NEW r \in Reply, UpdKeys(Me, r), UNCHANGED before, Calm',
         NEW j, j = job[Me], NEW k, k = job'[Me], CallClean(j)
  PROVE  CallClean(k)'
<1>1. Command(Me, r) /\ j.pc \notin {"rm_srem", "rm_card"} BY DEF Command, Writing, UpdKeys, At
<1>2. /\ r.ok /\ r.done /\ CallStands(j) /\ j \in Job /\ StoreConforms
      /\ \A s : Go(Me, s) => k = s
  BY <1>1, Answered
<1>3. j.pc = "upd_keys" /\ Changing(j) BY <1>2 DEF UpdKeys, At, CallStands, UpdatePC
<1>4. \A x \in Key : ~Unlisted(x)' BY <1>2, <1>3, StillListed DEF UpdKeys, Served, Executed, UpdatePC
<1>5. /\ j.key \in UpdateKey /\ j.key \in Key /\ Parent(j.key) \in Record
      /\ (Stored(j.key) => IsRoot(j.key)) /\ hash = before.hash
  BY <1>2, <1>3, FieldFacts DEF Changing
\* A root that is stored and that fields are set in holds fields: the call is refused.
<1>6. CASE Stored(j.key)
  <2>1. IsRoot(j.key) /\ Parent(j.key) = j.key BY <1>5, <1>6 DEF Parent
  <2>2. k = Return(j, FALSE) BY <1>2, <1>6, <2>1 DEF UpdKeys, HashValue
  <2>3. k.pc = "idle" /\ ~k.ok /\ k.key = j.key /\ k.value = j.value BY <2>2 DEF Return, Idle
  <2>4. WasRootRecord(j.key)
    <3>1. j.key \in Record BY <1>5, <2>1
    <3>2. IsHashKey(j.key) BY <1>2, <1>5, <1>6, <3>1, SchemaAssumption DEF StoreConforms, Stored
    <3> QED BY <1>5, <2>1, <3>2 DEF WasRootRecord, IsHashKey
  <2>5. hash' = before'.hash BY <1>2, <1>5 DEF UpdKeys, Served, Executed, Keep
  <2>6. before'.call = "update" BY <1>1, <1>3, Answered DEF Changing
  <2>7. Fulfilled(k)' BY <1>3, <1>5, <2>3, <2>4, <2>5, <2>6, WasBefore DEF Fulfilled, Changing
  <2> QED BY <1>4, <2>3, <2>7 DEF CallClean, ClimbPC, AddPC
<1>7. CASE ~Stored(j.key)
  <2>1. k = [j EXCEPT !.pc = "upd_hexists"] BY <1>2, <1>7 DEF UpdKeys
  <2>2. k.pc = "upd_hexists" /\ k.key = j.key BY <1>2, <2>1 DEF Job
  <2>3. ~WasRootRecord(j.key) BY <1>5, <1>7 DEF WasRootRecord, Stored, IsHashKey
  <2> QED BY <1>4, <2>2, <2>3, WasBefore DEF CallClean, AddPC
<1> QED BY <1>6, <1>7

LEMMA UpdHexistsClean ==
  ASSUME SoloInv, NEW r \in Reply, UpdHexists(Me, r), UNCHANGED before, Calm',
         NEW j, j = job[Me], NEW k, k = job'[Me], CallClean(j)
  PROVE  CallClean(k)'
<1>1. Command(Me, r) /\ j.pc \notin {"rm_srem", "rm_card"} BY DEF Command, Writing, UpdHexists, At
<1>2. /\ r.ok /\ r.done /\ CallStands(j) /\ j \in Job /\ StoreConforms
      /\ \A s : Go(Me, s) => k = s
  BY <1>1, Answered
<1>3. j.pc = "upd_hexists" /\ Changing(j) BY <1>2 DEF UpdHexists, At, CallStands, UpdatePC
<1>4. \A x \in Key : ~Unlisted(x)' BY <1>2, <1>3, StillListed DEF UpdHexists, Served, Executed, UpdatePC
<1>5. /\ ~WasRootRecord(j.key) /\ hash = before.hash
      /\ j.key \in Key /\ Base(j.key) \in Name
  BY <1>2, <1>3, FieldFacts DEF Changing, CallClean
<1>6. ~(hash[Parent(j.key)][Base(j.key)] # Absent /\ IsRoot(j.key))
  BY <1>5 DEF WasRootRecord, Parent
<1>7. PICK pc : k = [j EXCEPT !.pc = pc] /\ pc \in {"val_hset", "add_hset"}
  BY <1>2, <1>6 DEF UpdHexists, HashValue
<1>8. k.pc \in {"val_hset", "add_hset"} /\ k.key = j.key BY <1>2, <1>7 DEF Job
<1> QED BY <1>4, <1>5, <1>8, WasBefore DEF CallClean, AddPC

LEMMA ValHsetClean ==
  ASSUME SoloInv, NEW r \in Reply, ValHset(Me, r), UNCHANGED before, Calm',
         NEW j, j = job[Me], NEW k, k = job'[Me], CallClean(j)
  PROVE  CallClean(k)'
<1> DEFINE p == Parent(j.key)
<1>1. Command(Me, r) /\ j.pc \notin {"rm_srem", "rm_card"} BY DEF Command, Writing, ValHset, At
<1>2. /\ r.ok /\ r.done /\ CallStands(j) /\ j \in Job /\ StoreConforms /\ StoreTyped
      /\ before.call = j.op /\ \A s : Go(Me, s) => k = s
  BY <1>1, Answered
<1>3. j.pc = "val_hset" /\ Changing(j) BY <1>2 DEF ValHset, At, CallStands, UpdatePC
<1>4. p \in Key /\ Base(j.key) \in Name /\ j.value # Absent
  BY <1>2, <1>3, FieldFacts, CommandAssumption DEF Changing
<1>5. k = Return(j, r.ok) BY <1>2 DEF ValHset
<1>6. k.pc = "idle" /\ Same(j, k) /\ k.ok
  <2>1. k.pc = "idle" /\ Same(j, k) /\ k.ok = r.ok BY <1>5, Returns
  <2> QED BY <1>2, <2>1
<1>7. hash' = [hash EXCEPT ![p][Base(j.key)] = j.value] /\ UNCHANGED set
  BY <1>2 DEF ValHset, Served, Executed, Hput
<1>8. \A x \in Key, f \in Name : hash'[x][f] = IF x = p /\ f = Base(j.key) THEN j.value ELSE hash[x][f]
  BY <1>2, <1>4, <1>7 DEF StoreTyped
<1>9. Changed(k)' BY <1>3, <1>6, <1>8 DEF Changing, Changed, Same
<1>10. IsHashKey(p) BY <1>3, <1>4 DEF Changing, Was, IsHashKey
<1>11. \A x \in Key : ~Unlisted(x) BY <1>3 DEF CallClean, MayBeUnlisted, RemovePC
<1>12. \A x \in Key : Stored(x)' => Stored(x)
  BY <1>7, <1>8, <1>10 DEF Stored, IsSetKey, IsHashKey
<1>13. \A x \in Key : ~Unlisted(x)' BY <1>7, <1>11, <1>12 DEF Unlisted
<1>14. ~WasRootRecord(k.key)' BY <1>3, <1>6, WasBefore DEF CallClean, Same
<1>15. Fulfilled(k)' BY <1>2, <1>3, <1>6, <1>9, <1>14 DEF Fulfilled, Changing, Same
<1> QED BY <1>6, <1>13, <1>15 DEF CallClean, ClimbPC, RemovePC, AddPC

LEMMA AddHsetClean ==
  ASSUME SoloInv, NEW r \in Reply, AddHset(Me, r), UNCHANGED before, Calm',
         NEW j, j = job[Me], NEW k, k = job'[Me], CallClean(j)
  PROVE  CallClean(k)'
<1> DEFINE p == Parent(j.key)
<1>1. Command(Me, r) /\ j.pc \notin {"rm_srem", "rm_card"} BY DEF Command, Writing, AddHset, At
<1>2. /\ r.ok /\ r.done /\ CallStands(j) /\ j \in Job /\ StoreConforms /\ StoreTyped
      /\ before.call = j.op /\ \A s : Go(Me, s) => k = s
  BY <1>1, Answered
<1>3. j.pc = "add_hset" /\ Changing(j) BY <1>2 DEF AddHset, At, CallStands, UpdatePC
<1>4. p \in Key /\ Base(j.key) \in Name BY <1>2, <1>3, FieldFacts DEF Changing
<1>5. PICK s : s = [j EXCEPT !.at = p, !.ok = r.ok] OBVIOUS
<1>6. s \in Job /\ Same(j, s) /\ s.at = p /\ s.ok BY <1>2, <1>4, <1>5 DEF Job, Same, Reply
<1>7. hash' = [hash EXCEPT ![p][Base(j.key)] = j.value] /\ UNCHANGED set
  BY <1>2 DEF AddHset, Served, Executed, Hput
<1>8. \A x \in Key : x # p => hash'[x] = hash[x] BY <1>2, <1>4, <1>7 DEF StoreTyped
<1>9. \A x \in Key : ~Unlisted(x) BY <1>3 DEF CallClean, MayBeUnlisted, RemovePC
<1>10. \A x \in Key : Unlisted(x)' => x = p /\ ~IsRoot(p)
  BY <1>7, <1>8, <1>9 DEF Unlisted, Stored, IsSetKey, IsHashKey
<1>11. ~WasRootRecord(j.key) BY <1>3 DEF CallClean
<1>12. CASE IsRoot(p)
  <2>1. k = Return(s, s.ok) BY <1>2, <1>5, <1>6, <1>12 DEF AddHset, Climb
  <2>2. k.pc = "idle" /\ Same(s, k) /\ k.ok = s.ok BY <2>1, Returns
  <2>3. Same(j, k) /\ k.ok BY <1>6, <2>2 DEF Same
  <2>4. Changed(k)'
    <3>1. \A x \in Key, f \in Name :
            hash'[x][f] = IF x = p /\ f = Base(j.key) THEN j.value ELSE hash[x][f]
      BY <1>2, <1>4, <1>7 DEF StoreTyped
    <3> QED BY <1>3, <2>3, <3>1 DEF Changed, Changing, Same
  <2>5. ~WasRootRecord(k.key)' BY <1>11, <2>3, WasBefore DEF Same
  <2>6. Fulfilled(k)' BY <1>2, <1>3, <2>3, <2>4, <2>5 DEF Fulfilled, Changing, Same
  <2> QED BY <1>10, <1>12, <2>2, <2>6 DEF CallClean, ClimbPC, AddPC
<1>13. CASE ~IsRoot(p)
  <2>1. k = [s EXCEPT !.pc = "climb_sadd"] BY <1>2, <1>5, <1>6, <1>13 DEF AddHset, Climb
  <2>2. Same(j, k) /\ k.pc = "climb_sadd" /\ k.at = p BY <1>6, <2>1 DEF Job, Same
  <2> QED BY <1>10, <1>11, <2>2, WasBefore DEF CallClean, MayBeUnlisted, AddPC, Same
<1> QED BY <1>12, <1>13

LEMMA ClimbSaddClean ==
  ASSUME SoloInv, NEW r \in Reply, ClimbSadd(Me, r), UNCHANGED before, Calm',
         NEW j, j = job[Me], NEW k, k = job'[Me], CallClean(j)
  PROVE  CallClean(k)'
<1> DEFINE p == Parent(j.at)
<1>1. Command(Me, r) /\ j.pc \notin {"rm_srem", "rm_card"} BY DEF Command, Writing, ClimbSadd, At
<1>2. /\ r.ok /\ r.done /\ CallStands(j) /\ j \in Job /\ HasArguments(j) /\ StoreTyped
      /\ \A s : Go(Me, s) => k = s
  BY <1>1, Answered
<1>3. j.pc = "climb_sadd" /\ Climbing(j) BY <1>2 DEF ClimbSadd, At, CallStands, ClimbPC
<1>4. p \in Key /\ Base(j.at) \in Name BY <1>2, <1>3, KeyParts DEF HasArguments, ClimbPC
<1>5. k = [j EXCEPT !.pc = "climb_keys", !.ok = @ /\ r.ok] BY <1>2 DEF ClimbSadd
<1>6. Same(j, k) /\ k.at = j.at /\ k.pc = "climb_keys" BY <1>2, <1>5 DEF Job, Same
<1>7. set' = [set EXCEPT ![p] = @ \cup {Base(j.at)}] /\ UNCHANGED hash
  BY <1>2 DEF ClimbSadd, Served, Executed, Sadd
<1>8. \A x \in Key : /\ set[x] \subseteq set'[x]
                     /\ x = p => Base(j.at) \in set'[x]
                     /\ x # p => set'[x] = set[x]
  BY <1>2, <1>4, <1>7 DEF StoreTyped
<1>9. \A x \in Key : Unlisted(x) => x = j.at BY <1>3 DEF CallClean, MayBeUnlisted, RemovePC
<1>10. \A x \in Key : Unlisted(x)' => x = p
  <2>1. SUFFICES ASSUME NEW x \in Key, Unlisted(x)', x # p PROVE FALSE OBVIOUS
  <2>2. Parent(x) \in Key BY KeyParts
  <2>3. Unlisted(x) BY <1>7, <1>8, <2>1, <2>2 DEF Unlisted, Stored, IsSetKey, IsHashKey
  <2> QED BY <1>8, <1>9, <2>1, <2>2, <2>3 DEF Unlisted
<1>11. ~WasRootRecord(k.key)' BY <1>3, <1>6, WasBefore DEF CallClean, ClimbPC, Same
<1> QED BY <1>6, <1>10, <1>11 DEF CallClean, MayBeUnlisted, AddPC

LEMMA ClimbKeysClean ==
  ASSUME SoloInv, NEW r \in Reply, ClimbKeys(Me, r), UNCHANGED before, Calm',
         NEW j, j = job[Me], NEW k, k = job'[Me], CallClean(j)
  PROVE  CallClean(k)'
<1> DEFINE p == Parent(j.at)
<1>1. Command(Me, r) /\ j.pc \notin {"rm_srem", "rm_card"} BY DEF Command, Writing, ClimbKeys, At
<1>2. /\ r.ok /\ r.done /\ CallStands(j) /\ j \in Job /\ HasArguments(j)
      /\ before.call = j.op /\ \A s : Go(Me, s) => k = s
  BY <1>1, Answered
<1>3. j.pc = "climb_keys" /\ Climbing(j) BY <1>2 DEF ClimbKeys, At, CallStands, ClimbPC
<1>4. p \in Key BY <1>2, <1>3, KeyParts DEF HasArguments, ClimbPC
<1>5. Stored(p) BY <1>3 DEF Climbing, Stored, IsSetKey
<1>6. PICK s : s = [j EXCEPT !.at = p] OBVIOUS
<1>7. s \in Job /\ Same(j, s) /\ s.at = p /\ s.ok = j.ok BY <1>2, <1>4, <1>6 DEF Job, Same
<1>8. IF IsRoot(p) THEN k = Return(s, s.ok) ELSE k = [s EXCEPT !.pc = "climb_sadd"]
  BY <1>2, <1>5, <1>6, <1>7 DEF ClimbKeys, Climb
<1>9. UNCHANGED <<set, hash>> BY <1>2 DEF ClimbKeys, Served, Executed, Keep
<1>10. \A x \in Key : Unlisted(x) => x = p BY <1>3 DEF CallClean, MayBeUnlisted, RemovePC
<1>11. \A x \in Key : Unlisted(x)' => x = p /\ ~IsRoot(p)
  BY <1>9, <1>10 DEF Unlisted, Stored, IsSetKey, IsHashKey
<1>12. ~WasRootRecord(j.key) BY <1>3 DEF CallClean, ClimbPC
<1>13. CASE IsRoot(p)
  <2>1. k.pc = "idle" /\ Same(s, k) /\ k.ok = s.ok BY <1>8, <1>13, Returns
  <2>2. Same(j, k) /\ k.ok BY <1>3, <1>7, <2>1 DEF Same, Climbing
  <2>3. ~WasRootRecord(k.key)' BY <1>12, <2>2, WasBefore DEF Same
  <2>4. Changed(k)' BY <1>3, <1>9, <2>2 DEF Climbing, Changed, Same
  <2>5. Fulfilled(k)' BY <1>2, <1>3, <2>2, <2>3, <2>4 DEF Fulfilled, Climbing, Same
  <2> QED BY <1>11, <1>13, <2>1, <2>5 DEF CallClean, ClimbPC, RemovePC, AddPC
<1>14. CASE ~IsRoot(p)
  <2>1. k = [s EXCEPT !.pc = "climb_sadd"] BY <1>8, <1>14
  <2>2. Same(j, k) /\ k.at = p /\ k.pc = "climb_sadd" BY <1>7, <2>1 DEF Job, Same
  <2>3. ~WasRootRecord(k.key)' BY <1>12, <2>2, WasBefore DEF Same
  <2> QED BY <1>11, <2>2, <2>3 DEF CallClean, MayBeUnlisted, AddPC
<1> QED BY <1>13, <1>14

LEMMA DelKeysClean ==
  ASSUME SoloInv, NEW r \in Reply, DelKeys(Me, r), UNCHANGED before, Calm',
         NEW j, j = job[Me], NEW k, k = job'[Me], CallClean(j)
  PROVE  CallClean(k)'
<1>1. Command(Me, r) /\ j.pc \notin {"rm_srem", "rm_card"} BY DEF Command, Removing, DelKeys, At
<1>2. r.ok /\ r.done /\ j \in Job /\ HasArguments(j) /\ \A s : Go(Me, s) => k = s BY <1>1, Answered
<1>3. j.pc = "del_keys" BY DEF DelKeys, At
<1>4. \A x \in Key : ~Unlisted(x)' BY <1>2, <1>3, StillListed DEF DelKeys, Served, Executed, DeletePC
<1>5. j.key \in Key BY <1>2, <1>3 DEF HasArguments, DeletePC
<1>6. CASE Stored(j.key)
  <2>1. k = [j EXCEPT !.pc = "rm_type", !.at = j.key] BY <1>2, <1>6 DEF DelKeys
  <2>2. k.pc = "rm_type" BY <1>2, <2>1 DEF Job
  <2> QED BY <1>4, <2>2 DEF CallClean, ClimbPC, AddPC
<1>7. CASE ~Stored(j.key)
  <2>1. k = [j EXCEPT !.pc = "del_ishash"] BY <1>2, <1>7 DEF DelKeys
  <2>2. k.pc = "del_ishash" BY <1>2, <2>1 DEF Job
  <2> QED BY <1>4, <2>2 DEF CallClean, ClimbPC, RemovePC, AddPC
<1> QED BY <1>6, <1>7

LEMMA WithinIs == \A d, x, f : Store1!Within(d, x, f) <=> IsPrefix(d, Child(x, f))
BY DEF Store1!Within, Store1!IsPrefix, IsPrefix, Store1!Child, Child

\* Where a key is not stored there is at most the field it names.
LEMMA NothingThere ==
  ASSUME \A y \in Key : ~Unlisted(y), NEW d \in Key, ~Stored(d),
         NEW x \in Key, NEW f \in Name, hash[x][f] # Absent
  PROVE  /\ ~IsPrefix(d, x)
         /\ Store1!Within(d, x, f) => ~IsRoot(d) /\ Parent(d) = x /\ Base(d) = f
<1>1. Stored(x) BY DEF Stored, IsHashKey
<1>2. ~IsPrefix(d, x)
  <2>1. SUFFICES ASSUME IsPrefix(d, x) PROVE FALSE OBVIOUS
  <2>2. x \in Below(d) BY <1>1, <2>1 DEF Below, IsStrictPrefix
  <2>3. IsSetKey(d) BY <1>1, <2>2, Chain
  <2> QED BY <2>3 DEF Stored
<1>3. Store1!Within(d, x, f) => d = Child(x, f) BY <1>2, ChildOrder, WithinIs
<1> QED BY <1>2, <1>3, ChildParts

LEMMA DelFieldClean ==
  ASSUME SoloInv, NEW r \in Reply, DelIsHash(Me, r) \/ DelHexists(Me, r) \/ DelHdel(Me, r),
         UNCHANGED before, Calm', NEW j, j = job[Me], NEW k, k = job'[Me], CallClean(j)
  PROVE  CallClean(k)'
<1> DEFINE p == Parent(j.key)
<1>1. Command(Me, r) /\ j.pc \notin {"rm_srem", "rm_card"} BY DEF Command, Removing, DelIsHash, DelHexists, DelHdel, At
<1>2. /\ r.ok /\ r.done /\ CallStands(j) /\ j \in Job /\ HasArguments(j) /\ StoreTyped
      /\ before.call = j.op /\ \A s : Go(Me, s) => k = s
  BY <1>1, Answered
<1>3. j.pc \in {"del_ishash", "del_hexists", "del_hdel"} BY DEF DelIsHash, DelHexists, DelHdel, At
<1>4. Deleting(j) /\ j.key \in Key BY <1>2, <1>3 DEF CallStands, HasArguments, DeletePC
<1>5. p \in Key /\ Base(j.key) \in Name BY <1>4, KeyParts
<1>6. hash = before.hash /\ ~Stored(j.key) /\ before.call = "delete" BY <1>2, <1>3, <1>4 DEF Deleting
<1>7. j.key \in DeleteKey BY <1>2, <1>6 DEF SoloInv, SoloBase, Bookkeeping
<1>8. \A x \in Key : ~Unlisted(x) BY <1>3 DEF CallClean, MayBeUnlisted, RemovePC
<1>10. ASSUME NEW x \in Key, NEW f \in Name, Store1!Within(j.key, x, f), hash[x][f] # Absent
       PROVE  ~IsRoot(j.key) /\ x = p /\ f = Base(j.key)
  BY <1>4, <1>6, <1>8, <1>10, NothingThere
\* A call that found no field ends with a failure.
<1>11. ASSUME UNCHANGED <<set, hash>>, k = Return(j, FALSE),
              IsRoot(j.key) \/ hash[p][Base(j.key)] = Absent
       PROVE  CallClean(k)'
  <2>1. k.pc = "idle" /\ Same(j, k)
    <3>1. k = Return(j, FALSE) BY <1>11
    <3>2. PICK no : no = FALSE OBVIOUS
    <3>3. k = Return(j, no) BY <3>1, <3>2
    <3> QED BY <3>3, Returns
  <2>2. \A x \in Key : ~Unlisted(x)' BY <1>8, <1>11 DEF Unlisted, Stored, IsSetKey, IsHashKey
  <2>3. \A x \in Key, f \in Name : Store1!Within(j.key, x, f) => hash[x][f] = Absent BY <1>10, <1>11
  <2>4. Erased(k)' BY <1>6, <1>11, <2>1, <2>3 DEF Erased, Same
  <2>5. ~HadWithin(k.key)' BY <1>6, <2>1, <2>3 DEF HadWithin, Same
  <2>6. Fulfilled(k)' BY <1>6, <1>7, <2>1, <2>4, <2>5 DEF Fulfilled, Same
  <2> QED BY <2>1, <2>2, <2>6 DEF CallClean, ClimbPC, RemovePC, AddPC
<1>12. CASE DelIsHash(Me, r)
  <2>1. UNCHANGED <<set, hash>> BY <1>2, <1>12 DEF DelIsHash, Served, Executed, Keep
  <2>2. CASE IsHashKey(p)
    <3>1. k = [j EXCEPT !.pc = "del_hexists"] BY <1>2, <1>12, <2>2 DEF DelIsHash
    <3>2. k.pc = "del_hexists" BY <1>2, <3>1 DEF Job
    <3>3. \A x \in Key : ~Unlisted(x)' BY <1>8, <2>1 DEF Unlisted, Stored, IsSetKey, IsHashKey
    <3> QED BY <3>2, <3>3 DEF CallClean, ClimbPC, RemovePC, AddPC
  <2>3. CASE ~IsHashKey(p)
    <3>1. k = Return(j, FALSE) BY <1>2, <1>12, <2>3 DEF DelIsHash
    <3>2. hash[p][Base(j.key)] = Absent BY <1>5, <2>3 DEF IsHashKey
    <3> QED BY <1>11, <2>1, <3>1, <3>2
  <2> QED BY <2>2, <2>3
<1>13. CASE DelHexists(Me, r)
  <2>1. UNCHANGED <<set, hash>> BY <1>2, <1>13 DEF DelHexists, Served, Executed, Keep
  <2>2. CASE hash[p][Base(j.key)] # Absent
    <3>1. k = [j EXCEPT !.pc = "del_hdel"] BY <1>2, <1>13, <2>2 DEF DelHexists
    <3>2. k.pc = "del_hdel" BY <1>2, <3>1 DEF Job
    <3>3. \A x \in Key : ~Unlisted(x)' BY <1>8, <2>1 DEF Unlisted, Stored, IsSetKey, IsHashKey
    <3> QED BY <3>2, <3>3 DEF CallClean, ClimbPC, RemovePC, AddPC
  <2>3. CASE hash[p][Base(j.key)] = Absent
    <3>1. k = Return(j, FALSE) BY <1>2, <1>13, <2>3 DEF DelHexists
    <3> QED BY <1>11, <2>1, <2>3, <3>1
  <2> QED BY <2>2, <2>3
<1>14. CASE DelHdel(Me, r)
  <2>1. k = Return(j, r.ok) BY <1>2, <1>14 DEF DelHdel
  <2>2. k.pc = "idle" /\ Same(j, k) /\ k.ok
    <3>1. k.pc = "idle" /\ Same(j, k) /\ k.ok = r.ok BY <2>1, Returns
    <3> QED BY <1>2, <3>1
  <2>3. hash' = [hash EXCEPT ![p][Base(j.key)] = Absent] /\ UNCHANGED set
    BY <1>2, <1>14 DEF DelHdel, Served, Executed, Hput
  <2>4. \A x \in Key, f \in Name : hash'[x][f] = IF x = p /\ f = Base(j.key) THEN Absent ELSE hash[x][f]
    BY <1>2, <1>5, <2>3 DEF StoreTyped
  <2>5. \A x \in Key : Stored(x)' => Stored(x) BY <2>3, <2>4 DEF Stored, IsSetKey, IsHashKey
  <2>6. \A x \in Key : ~Unlisted(x)' BY <1>8, <2>3, <2>5 DEF Unlisted
  <2>7. ~IsRoot(j.key)
    <3>1. SUFFICES ASSUME IsRoot(j.key) PROVE FALSE OBVIOUS
    <3>2. p = j.key BY <3>1 DEF Parent
    <3>3. j.pc = "del_hdel" BY <1>14 DEF DelHdel, At
    <3>4. hash[p][Base(j.key)] # Absent BY <1>4, <1>6, <3>3 DEF Deleting, Was
    <3> QED BY <1>5, <1>6, <3>2, <3>4 DEF Stored, IsHashKey
  <2>8. Store1!Within(j.key, p, Base(j.key))
    <3>1. j.key = Child(p, Base(j.key)) BY <1>4, <2>7, Rebuilt
    <3> QED BY <1>4, <1>5, <3>1, ChildOrder, WithinIs
  <2>9. Erased(k)' BY <1>6, <1>10, <2>2, <2>4, <2>8 DEF Erased, Same
  <2>10. ~WasRootRecord(k.key)' BY <2>2, <2>7 DEF WasRootRecord, Same
  <2>11. Fulfilled(k)' BY <1>6, <1>7, <2>2, <2>9, <2>10 DEF Fulfilled, Same
  <2> QED BY <2>2, <2>6, <2>11 DEF CallClean, ClimbPC, RemovePC, AddPC
<1> QED BY <1>12, <1>13, <1>14

LEMMA RemovalGoesOn ==
  ASSUME NEW k, k.pc \in RemovePC, \A x \in Key : Unlisted(x)' => MayBeUnlisted(k, x)
  PROVE  CallClean(k)'
BY DEF CallClean, RemovePC, AddPC, ClimbPC

LEMMA RmTypeClean ==
  ASSUME SoloInv, NEW r \in Reply, RmType(Me, r), UNCHANGED before, Calm',
         NEW j, j = job[Me], NEW k, k = job'[Me], CallClean(j)
  PROVE  CallClean(k)'
<1>1. Command(Me, r) /\ j.pc \notin {"rm_srem", "rm_card"} BY DEF Command, Removing, RmType, At
<1>2. r.ok /\ r.done /\ j \in Job /\ \A s : Go(Me, s) => k = s BY <1>1, Answered
<1>3. j.pc = "rm_type" BY DEF RmType, At
<1>4. PICK pc : k = [j EXCEPT !.ok = r.ok, !.pc = pc] /\ pc \in {"rm_scard", "rm_srem"}
  <2>1. k = [j EXCEPT !.ok = r.ok, !.pc = IF IsSetKey(j.at) THEN "rm_scard" ELSE "rm_srem"]
    BY <1>2 DEF RmType
  <2> QED BY <2>1
<1>5. Same(j, k) /\ k.stack = j.stack /\ k.pc = pc BY <1>2, <1>4 DEF Job, Same
<1>6. \A x \in Key : Unlisted(x)' => Unlisted(x)
  BY <1>2 DEF RmType, Served, Executed, Keep, Unlisted, Stored, IsSetKey, IsHashKey
<1>7. \A x \in Key : Unlisted(x) => j.stack # <<>> /\ x = j.key
  BY <1>3 DEF CallClean, MayBeUnlisted, Cut
<1>8. k.pc \in RemovePC /\ j.pc \in RemovePC BY <1>3, <1>4, <1>5 DEF RemovePC
<1>9. \A x \in Key : Unlisted(x)' => MayBeUnlisted(k, x)
  BY <1>5, <1>6, <1>7, <1>8 DEF MayBeUnlisted, Cut, Same
<1> QED BY <1>5, <1>8, <1>9, RemovalGoesOn

\* SCARD and KEYS of a key whose name is still listed.
LEMMA RmReadClean ==
  ASSUME SoloInv, NEW r \in Reply, RmScard(Me, r) \/ RmKids(Me, r), UNCHANGED before, Calm',
         NEW j, j = job[Me], NEW k, k = job'[Me], CallClean(j)
  PROVE  CallClean(k)'
<1>1. Command(Me, r) /\ j.pc \notin {"rm_srem", "rm_card"} BY DEF Command, Removing, RmScard, RmKids, At
<1>2. r.ok /\ r.done /\ CallStands(j) /\ j \in Job /\ \A s : Go(Me, s) => k = s BY <1>1, Answered
<1>3. j.pc \in {"rm_scard", "rm_kids"}
  <2>1. RmScard(Me, r) => j.pc = "rm_scard" BY DEF RmScard, At
  <2>2. RmKids(Me, r) => j.pc = "rm_kids" BY DEF RmKids, At
  <2> QED BY <2>1, <2>2
<1>4. j.stack = <<>> BY <1>2, <1>3 DEF CallStands, RemovePC, Removal
<1>5. Same(j, k) /\ k.pc \in RemovePC
  <2>1. CASE RmScard(Me, r)
    <3>1. PICK some \in Read(r, IsSetKey(j.at)) : k = [j EXCEPT !.pc = "rm_kids", !.ok = @ /\ some]
      BY <1>2, <2>1 DEF RmScard
    <3> QED BY <1>2, <3>1 DEF Same, Job, RemovePC
  <2>2. CASE RmKids(Me, r)
    <3>1. PICK kids : kids = {x \in Below(j.at) : Stored(x)} OBVIOUS
    <3>2. PICK pc : pc = IF kids = {} THEN "rm_srem" ELSE "rm_kid" OBVIOUS
    <3>3. PICK ok : ok = (j.ok /\ kids # {}) OBVIOUS
    <3>4. k = [j EXCEPT !.pc = pc, !.kids = kids, !.ok = ok]
      BY <1>2, <2>2, <3>1, <3>2, <3>3 DEF RmKids
    <3>5. Same(j, k) /\ k.pc = pc BY <1>2, <3>4 DEF Same, Job
    <3> QED BY <3>2, <3>5 DEF RemovePC
  <2> QED BY <2>1, <2>2
<1>6. UNCHANGED <<set, hash>>
  <2>1. CASE RmScard(Me, r) BY <1>2, <2>1 DEF RmScard, Served, Executed, Keep
  <2>2. CASE RmKids(Me, r) BY <1>2, <2>2 DEF RmKids, Served, Executed, Keep
  <2> QED BY <2>1, <2>2
<1>7. \A x \in Key : ~Unlisted(x) BY <1>3, <1>4 DEF CallClean, MayBeUnlisted, Cut
<1>8. \A x \in Key : ~Unlisted(x)' BY <1>6, <1>7 DEF Unlisted, Stored, IsSetKey, IsHashKey
<1>9. j.pc \in RemovePC BY <1>3 DEF RemovePC
<1> QED BY <1>5, <1>8, <1>9, RemovalGoesOn

\* Deleting a child leaves the children of the child without a listing.
LEMMA RmKidClean ==
  ASSUME SoloInv, NEW r \in Reply, RmKid(Me, r), UNCHANGED before, Calm',
         NEW j, j = job[Me], NEW k, k = job'[Me], CallClean(j)
  PROVE  CallClean(k)'
<1>1. Command(Me, r) /\ j.pc \notin {"rm_srem", "rm_card"} BY DEF Command, Removing, RmKid, At
<1>2. /\ r.ok /\ r.done /\ CallStands(j) /\ j \in Job /\ CallConforms(j) /\ StoreTyped
      /\ \A s : Go(Me, s) => k = s
  BY <1>1, Answered
<1>3. j.pc = "rm_kid" /\ Removal(j) BY <1>2 DEF RmKid, At, CallStands, RemovePC
<1>4. /\ j.key \in Key /\ j.stack = <<>>
      /\ j.kids \subseteq Below(j.key) /\ \A x \in Below(j.key) : Stored(x) => x \in j.kids
  BY <1>2, <1>3, RemovalFacts DEF RemovePC, Removal
<1>5. PICK kid \in j.kids :
        /\ Served(r, TRUE, Del(kid))
        /\ k = [j EXCEPT !.pc = IF j.kids = {kid} THEN "rm_srem" ELSE "rm_kid", !.kids = @ \ {kid}]
  BY <1>2 DEF RmKid
<1>6. /\ Same(j, k) /\ k.kids = j.kids \ {kid}
      /\ k.pc = (IF j.kids = {kid} THEN "rm_srem" ELSE "rm_kid")
  <2>1. PICK pc : pc = IF j.kids = {kid} THEN "rm_srem" ELSE "rm_kid" OBVIOUS
  <2>2. PICK left : left = j.kids \ {kid} OBVIOUS
  <2>3. k = [j EXCEPT !.pc = pc, !.kids = left] BY <1>5, <2>1, <2>2
  <2>4. Same(j, k) /\ k.kids = left /\ k.pc = pc BY <1>2, <2>3 DEF Job, Same
  <2> QED BY <2>1, <2>2, <2>4
<1>7. set' = [set EXCEPT ![kid] = {}] /\ hash' = [hash EXCEPT ![kid] = EmptyHash]
  BY <1>2, <1>5 DEF Served, Executed, Del
<1>8. kid \in Key /\ IsPrefix(j.key, kid) BY <1>4, <1>5 DEF Below, IsStrictPrefix
<1>9. \A x \in Key : /\ x # kid => set'[x] = set[x] /\ hash'[x] = hash[x]
                     /\ x = kid => set'[x] = {} /\ \A f \in Name : hash'[x][f] = Absent
  BY <1>2, <1>7, <1>8 DEF StoreTyped, EmptyHash
<1>10. ASSUME NEW x \in Key, Unlisted(x)' PROVE x \in k.kids
  <2>1. x # kid /\ Stored(x) BY <1>9, <1>10 DEF Unlisted, Stored, IsSetKey, IsHashKey
  <2>2. ~IsRoot(x) /\ Base(x) \notin set'[Parent(x)] /\ Parent(x) \in Key
    BY <1>10, KeyParts DEF Unlisted
  <2>3. CASE Parent(x) = kid
    <3>1. IsStrictPrefix(j.key, x) BY <1>4, <1>8, <2>2, <2>3, ParentOrder
    <3> QED BY <1>4, <1>6, <2>1, <3>1 DEF Below
  <2>4. CASE Parent(x) # kid
    <3>1. Unlisted(x) BY <1>9, <2>1, <2>2, <2>4 DEF Unlisted
    <3>2. MayBeUnlisted(j, x) BY <1>3, <3>1 DEF CallClean
    <3>3. x \in j.kids BY <1>3, <1>4, <3>2 DEF MayBeUnlisted, Cut
    <3> QED BY <1>6, <2>1, <3>3
  <2> QED BY <2>3, <2>4
<1>11. \A x \in Key : Unlisted(x)' => MayBeUnlisted(k, x) BY <1>6, <1>10 DEF MayBeUnlisted
<1>12. j.pc \in RemovePC /\ k.pc \in RemovePC BY <1>3, <1>6 DEF RemovePC
<1> QED BY <1>6, <1>11, <1>12, RemovalGoesOn

\* The name that SREM takes away is that of the key, or of a parent that is gone.
LEMMA RmSremClean ==
  ASSUME SoloInv, NEW r \in Reply, RmSrem(Me, r), UNCHANGED before, Calm',
         NEW j, j = job[Me], NEW k, k = job'[Me], CallClean(j)
  PROVE  CallClean(k)'
<1> DEFINE p == Parent(j.at)
<1>1. /\ CallStands(j) /\ j \in Job /\ CallConforms(j) /\ StoreTyped /\ StoreConforms
      /\ \A s : Go(Me, s) => k = s
  BY ParentCommands
<1>2. Refused(j.key) => ~r.done BY ParentCommands
<1>3. j.pc = "rm_srem" /\ Removal(j) BY <1>1 DEF RmSrem, At, CallStands, RemovePC
<1>4. /\ j.at \in Key /\ j.key \in Key /\ (j.stack = <<>> => j.at = j.key)
      /\ \A x \in Below(j.key) : ~Stored(x)
  BY <1>1, <1>3, RemovalFacts DEF RemovePC, Removal, Swept
<1>5. p \in Key BY <1>4, KeyParts
<1>6. k = [j EXCEPT !.pc = "rm_card", !.ok = @ /\ r.ok] BY <1>1 DEF RmSrem
<1>7. Same(j, k) /\ k.pc = "rm_card" BY <1>1, <1>6 DEF Job, Same
<1>8. /\ UNCHANGED hash
      /\ r.done => set' = [set EXCEPT ![p] = @ \ {Base(j.at)}]
      /\ ~r.done => UNCHANGED set
  BY DEF RmSrem, Served, Executed, Srem, Keep
<1>9. r.done => \A x \in Key : set'[x] = IF x = p THEN set[x] \ {Base(j.at)} ELSE set[x]
  BY <1>1, <1>5, <1>8 DEF StoreTyped
<1>10. j.stack # <<>> /\ r.done => set[j.at] = {} /\ ~Stored(j.at)
  <2>1. SUFFICES ASSUME j.stack # <<>>, r.done PROVE set[j.at] = {} /\ ~Stored(j.at) OBVIOUS
  <2>2. j.at \in Object /\ ~IsSetKey(j.at) BY <1>2, <1>3, <2>1 DEF Removal, StackStands, Reentered
  <2> QED BY <1>1, <1>4, <2>2, SchemaAssumption DEF StoreConforms, Stored, IsSetKey, IsHashKey
<1>11. ASSUME NEW x \in Key, Unlisted(x)' PROVE x = j.key
  <2>1. CASE ~r.done
    <3>1. Unlisted(x) BY <1>8, <1>11, <2>1 DEF Unlisted, Stored, IsSetKey, IsHashKey
    <3> QED BY <1>3, <3>1 DEF CallClean, MayBeUnlisted
  <2>2. CASE r.done
    <3>1. Stored(x) /\ ~IsRoot(x) /\ Base(x) \notin set'[Parent(x)] /\ Parent(x) \in Key
      BY <1>8, <1>9, <1>11, <2>2, KeyParts DEF Unlisted, Stored, IsSetKey, IsHashKey
    <3>2. CASE Unlisted(x) BY <1>3, <3>2 DEF CallClean, MayBeUnlisted
    <3>3. CASE ~Unlisted(x)
      <4>1. Base(x) \in set[Parent(x)] BY <3>1, <3>3 DEF Unlisted
      <4>2. Parent(x) = p /\ Base(x) = Base(j.at) BY <1>9, <2>2, <3>1, <4>1
      <4>3. CASE IsRoot(j.at)
        <5>1. p = j.at BY <4>3 DEF Parent
        <5>2. j.stack = <<>> BY <1>10, <2>2, <4>1, <4>2, <5>1
        <5>3. IsStrictPrefix(j.key, x) BY <1>4, <3>1, <4>2, <5>1, <5>2, ParentOrder, KeyOrder
        <5> QED BY <1>4, <3>1, <5>3 DEF Below
      <4>4. CASE ~IsRoot(j.at)
        <5>1. x = j.at BY <1>4, <3>1, <4>2, <4>4, SamePlace
        <5> QED BY <1>4, <1>10, <2>2, <3>1, <5>1
      <4> QED BY <4>3, <4>4
    <3> QED BY <3>2, <3>3
  <2> QED BY <2>1, <2>2
<1>12. j.pc \in RemovePC /\ k.pc \in RemovePC BY <1>3, <1>7 DEF RemovePC
<1>13. \A x \in Key : Unlisted(x)' => MayBeUnlisted(k, x)
  BY <1>7, <1>11, <1>12 DEF MayBeUnlisted, Cut, Same
<1> QED BY <1>7, <1>12, <1>13, RemovalGoesOn

LEMMA RmCardClean ==
  ASSUME SoloInv, NEW r \in Reply, RmCard(Me, r), UNCHANGED before, Calm',
         NEW j, j = job[Me], NEW k, k = job'[Me], CallClean(j)
  PROVE  CallClean(k)'
<1>1. /\ j \in Job /\ CallConforms(j) /\ Removal(j) /\ \A s : Go(Me, s) => k = s
  BY ParentCommands
<1>2. j.pc = "rm_card" BY DEF RmCard, At
<1>3. j.at \in Key BY <1>1, <1>2, RemovalFacts DEF RemovePC
<1>4. \A x \in Key : Unlisted(x)' => x = j.key
  <2>1. UNCHANGED <<set, hash>> BY DEF RmCard, Served, Executed, Keep
  <2> QED BY <1>2, <2>1 DEF CallClean, MayBeUnlisted, Unlisted, Stored, IsSetKey, IsHashKey
<1>5. CASE k = [Idle EXCEPT !.pc = "crashed"]
  <2>1. k.pc = "crashed" BY <1>5, IdleTypes
  <2> QED BY <2>1 DEF CallClean, ClimbPC, RemovePC, AddPC
<1>6. CASE k = [j EXCEPT !.pc = "rm_del"]
  <2>1. Same(j, k) /\ k.pc = "rm_del" BY <1>1, <1>6 DEF Job, Same
  <2>2. j.pc \in RemovePC /\ k.pc \in RemovePC BY <1>2, <2>1 DEF RemovePC
  <2>3. \A x \in Key : Unlisted(x)' => MayBeUnlisted(k, x)
    BY <1>4, <2>1, <2>2 DEF MayBeUnlisted, Cut, Same
  <2> QED BY <2>2, <2>3, RemovalGoesOn
<1>7. CASE k = [j EXCEPT !.pc = "rm_type", !.at = Parent(j.at),
                         !.stack = Append(@, [key |-> j.at, ok |-> j.ok])]
  <2>1. PICK frame : frame = [key |-> j.at, ok |-> j.ok] OBVIOUS
  <2>2. PICK p : p = Parent(j.at) OBVIOUS
  <2>3. Same(j, k) /\ k.pc = "rm_type" /\ k.stack = Append(j.stack, frame)
    BY <1>1, <1>7, <2>1, <2>2 DEF Job, Same
  <2>4. k.stack # <<>>
    <3>1. frame \in Frame /\ j.stack \in Seq(Frame) BY <1>1, <1>3, <2>1 DEF Frame, Job
    <3> QED BY <2>3, <3>1, AppendProperties
  <2>5. j.pc \in RemovePC /\ k.pc \in RemovePC BY <1>2, <2>3 DEF RemovePC
  <2>6. \A x \in Key : Unlisted(x)' => MayBeUnlisted(k, x)
    BY <1>4, <2>3, <2>4, <2>5 DEF MayBeUnlisted, Cut, Same
  <2> QED BY <2>5, <2>6, RemovalGoesOn
<1> QED BY <1>1, <1>5, <1>6, <1>7 DEF RmCard, RemoveParent

LEMMA RmDelClean ==
  ASSUME SoloInv, NEW r \in Reply, RmDel(Me, r), UNCHANGED before, Calm',
         NEW j, j = job[Me], NEW k, k = job'[Me], CallClean(j)
  PROVE  CallClean(k)'
<1>1. Command(Me, r) /\ j.pc \notin {"rm_srem", "rm_card"} BY DEF Command, Removing, RmDel, At
<1>2. /\ r.ok /\ r.done /\ CallStands(j) /\ j \in Job /\ CallConforms(j)
      /\ StoreTyped /\ StoreConforms /\ before.call = j.op
      /\ \A s : Go(Me, s) => k = s
  BY <1>1, Answered
<1>3. j.pc = "rm_del" /\ Removal(j) BY <1>2 DEF RmDel, At, CallStands, RemovePC
<1>4. /\ j.at \in Key /\ j.key \in InSchema /\ j.key \in Key /\ (j.stack = <<>> => j.at = j.key)
      /\ \A x \in Below(j.key) : ~Stored(x)
  BY <1>2, <1>3, RemovalFacts DEF RemovePC, Removal, Swept
<1>5. set' = [set EXCEPT ![j.at] = {}] /\ hash' = [hash EXCEPT ![j.at] = EmptyHash]
  BY <1>2 DEF RmDel, Served, Executed, Del
<1>6. \A x \in Key : /\ x # j.at => set'[x] = set[x] /\ hash'[x] = hash[x]
                     /\ x = j.at => set'[x] = {} /\ \A f \in Name : hash'[x][f] = Absent
  BY <1>2, <1>4, <1>5 DEF StoreTyped, EmptyHash
<1>7. \A x \in Key : Stored(x)' => Stored(x) /\ x # j.at BY <1>6 DEF Stored, IsSetKey, IsHashKey
<1>8. \A x \in Key : Unlisted(x) => x = j.key BY <1>3 DEF CallClean, MayBeUnlisted, RemovePC
<1>9. SoloBase BY DEF SoloInv
<1>10. CASE j.stack = <<>>
  <2>1. PICK ok : ok = (j.ok /\ r.ok) OBVIOUS
  <2>2. k = Return(j, ok) BY <1>2, <1>10, <2>1 DEF RmDel
  <2>3. k.pc = "idle" /\ Same(j, k) /\ k.ok = ok BY <2>2, Returns
  <2>4. ASSUME NEW x \in Key, Unlisted(x)' PROVE FALSE
    <3>1. Stored(x) /\ x # j.key BY <1>4, <1>7, <1>10, <2>4 DEF Unlisted
    <3>2. ~IsRoot(x) /\ Base(x) \notin set'[Parent(x)] /\ Parent(x) \in Key
      BY <2>4, KeyParts DEF Unlisted
    <3>3. CASE Parent(x) = j.key
      <4>1. IsStrictPrefix(j.key, x) BY <1>4, <3>2, <3>3, ParentOrder, KeyOrder
      <4> QED BY <1>4, <3>1, <4>1 DEF Below
    <3>4. CASE Parent(x) # j.key
      <4>1. Unlisted(x) BY <1>4, <1>6, <1>10, <3>1, <3>2, <3>4 DEF Unlisted
      <4> QED BY <1>8, <3>1, <4>1
    <3> QED BY <3>3, <3>4
\* The key of a field that is deleted as a whole is one of a list of keys.
  <2>5. ASSUME NEW x \in Key, NEW f \in Name, Store1!Within(j.key, x, f), ~IsPrefix(j.key, x)
        PROVE  hash[x][f] = Absent /\ before.hash[x][f] = Absent
    <3>1. j.key = Child(x, f) BY <1>4, <2>5, ChildOrder, WithinIs
    <3>2. x = Parent(j.key) /\ ~IsRoot(j.key) BY <1>4, <2>5, <3>1, ChildParts
    <3>3. x \in Object BY <1>4, <3>2, SchemaKeys
    <3>4. hash[x][f] = Absent BY <1>2, <2>5, <3>3, SchemaAssumption DEF StoreConforms, IsHashKey
    <3> QED BY <1>3, <2>5, <3>4 DEF Removal, Reduced
  <2>6. ASSUME NEW x \in Key, NEW f \in Name
        PROVE  hash'[x][f] = IF Store1!Within(j.key, x, f) THEN Absent ELSE before.hash[x][f]
    <3>1. CASE IsPrefix(j.key, x)
      <4>1. Store1!Within(j.key, x, f) BY <1>4, <3>1, ChildOrder, WithinIs
      <4>2. x # j.key => hash[x][f] = Absent
        BY <1>4, <3>1 DEF Below, IsStrictPrefix, Stored, IsHashKey
      <4> QED BY <1>4, <1>6, <1>10, <4>1, <4>2
    <3>2. CASE ~IsPrefix(j.key, x)
      <4>1. x # j.key BY <1>4, <3>2, KeyOrder
      <4>2. hash'[x][f] = hash[x][f] BY <1>4, <1>6, <1>10, <4>1
      <4>3. hash[x][f] = before.hash[x][f] BY <1>3, <3>2 DEF Removal, Reduced
      <4> QED BY <2>5, <3>2, <4>2, <4>3
    <3> QED BY <3>1, <3>2
  <2>7. Erased(k)' BY <2>3, <2>6 DEF Erased, Same
\* A root that is a record is refused, and has nothing below it.
  <2>8. ASSUME HadWithin(j.key) PROVE ok <=> ~WasRootRecord(j.key)
    <3>1. PICK x \in Key, f \in Name : Store1!Within(j.key, x, f) /\ before.hash[x][f] # Absent
      BY <2>8 DEF HadWithin
    <3>2. IsPrefix(j.key, x) BY <2>5, <3>1
    <3>3. x \in Record /\ \A y \in Key, g \in Name : before.hash[y][g] # Absent => y \in Record
      BY <1>9, <3>1 DEF SoloBase, BeforeTyped
    <3>4. CASE Refused(j.key)
      <4>1. ~ok BY <1>3, <2>1, <3>4 DEF Removal
      <4>2. x = j.key
        <5>1. x \in InSchema /\ j.key \in Record BY <3>3, <3>4 DEF Refused, InSchema
        <5> QED BY <3>2, <5>1, BelowRecord DEF IsStrictPrefix
      <4>3. WasRootRecord(j.key) BY <3>1, <3>4, <4>2 DEF Refused, WasRootRecord
      <4> QED BY <4>1, <4>3
    <3>5. CASE ~Refused(j.key)
      <4>1. j.ok BY <1>3, <3>1, <3>2, <3>5 DEF Removal, HadBelow
      <4>2. ok BY <1>2, <2>1, <4>1
      <4>3. ~WasRootRecord(j.key) BY <1>4, <3>3, <3>5 DEF Refused, WasRootRecord
      <4> QED BY <4>2, <4>3
    <3> QED BY <3>4, <3>5
  <2>9. HadWithin(k.key)' => (k.ok <=> ~WasRootRecord(k.key)')
    <3>1. HadWithin(k.key)' => HadWithin(j.key) BY <2>3 DEF HadWithin, Same
    <3>2. WasRootRecord(k.key)' <=> WasRootRecord(j.key) BY <2>3, WasBefore DEF Same
    <3> QED BY <2>3, <2>8, <3>1, <3>2
  <2>10. before'.call = "delete" /\ k.key \in DeleteKey
    BY <1>2, <1>3, <1>9, <2>3 DEF Removal, SoloBase, Bookkeeping, Same
  <2>11. Fulfilled(k)' BY <2>7, <2>9, <2>10 DEF Fulfilled
  <2> QED BY <2>3, <2>4, <2>11 DEF CallClean, ClimbPC, RemovePC, AddPC
\* The parents that a nested call deletes are empty already.
<1>11. CASE j.stack # <<>>
  <2>1. PICK at : at = Last(j.stack).key OBVIOUS
  <2>2. PICK u : u = Front(j.stack) OBVIOUS
  <2>3. PICK ok : ok = (Last(j.stack).ok /\ j.ok /\ r.ok) OBVIOUS
  <2>4. k = [j EXCEPT !.at = at, !.stack = u, !.ok = ok]
    BY <1>2, <1>11, <2>1, <2>2, <2>3 DEF RmDel
  <2>5. Same(j, k) /\ k.pc = "rm_del" BY <1>2, <1>3, <2>4 DEF Job, Same
  <2>6. set[j.at] = {}
    <3>1. ~IsSetKey(j.at) BY <1>2, <1>3, <1>11, ReenteredEmpty DEF Removal, StackStands
    <3> QED BY <3>1 DEF IsSetKey
  <2>7. \A x \in Key : set'[x] = set[x] BY <1>6, <2>6
  <2>8. \A x \in Key : Unlisted(x)' => x = j.key
    BY <1>7, <1>8, <2>7, KeyParts DEF Unlisted
  <2>9. j.pc \in RemovePC /\ k.pc \in RemovePC BY <1>3, <2>5 DEF RemovePC
  <2>10. \A x \in Key : Unlisted(x)' => MayBeUnlisted(k, x)
    BY <2>5, <2>8, <2>9 DEF MayBeUnlisted, Cut, Same
  <2> QED BY <2>9, <2>10, RemovalGoesOn
<1> QED BY <1>10, <1>11
-----------------------------------------------------------------------------
(***************************************************************************)
(* Documents: a member lies below a member of a root, and AddConfig        *)
(* returns what the visited members of the roots say.                      *)
(***************************************************************************)
LEMMA DocumentItems ==
  ASSUME NEW d \in Document
  PROVE  /\ d \in Seq(Item) /\ Len(d) \in Nat
         /\ \A i \in 1 .. Len(d) :
              /\ d[i] \in Item /\ d[i].at \in Key /\ d[i].name \in Name
              /\ d[i].object => d[i].at \in Object /\ Child(d[i].at, d[i].name) \in Key
              /\ ~d[i].object => d[i].at \in Record
<1>1. d \in Seq(Item) /\ Len(d) \in Nat BY CommandAssumption
<1>2. ASSUME NEW i \in 1 .. Len(d)
      PROVE  /\ d[i] \in Item /\ d[i].at \in Key /\ d[i].name \in Name
             /\ d[i].object => d[i].at \in Object /\ Child(d[i].at, d[i].name) \in Key
             /\ ~d[i].object => d[i].at \in Record
  <2>1. d[i] \in Item BY <1>1
  <2>2. ItemConforms(d[i]) BY SchemaAssumption
  <2> QED BY <2>1, <2>2, SchemaAssumption DEF Item, ItemConforms
<1> QED BY <1>1, <1>2

UnderRoot(d, x) == \E h \in 1 .. Len(d) :
  d[h].object /\ IsRoot(d[h].at) /\ IsPrefix(Child(d[h].at, d[h].name), x)

LEMMA DocumentRoots ==
  ASSUME NEW d \in Document, NEW l \in 1 .. Len(d), ~IsRoot(d[l].at)
  PROVE  UnderRoot(d, d[l].at)
<1> SUFFICES ASSUME ~UnderRoot(d, d[l].at) PROVE FALSE OBVIOUS
<1> DEFINE T == {i \in 1 .. Len(d) : ~IsRoot(d[i].at) /\ ~UnderRoot(d, d[i].at)}
<1>1. Len(d) \in Nat BY DocumentItems
<1>2. PICK m \in T : \A i \in T : m <= i
  <2>1. T \subseteq Nat /\ T # {} BY <1>1
  <2> HIDE DEF T
  <2> QED BY <2>1, LeastNumber
<1>3. m \in 1 .. Len(d) /\ ~IsRoot(d[m].at) /\ ~UnderRoot(d, d[m].at) OBVIOUS
<1>4. PICK h \in 1 .. m - 1 : d[h].object /\ Child(d[h].at, d[h].name) = d[m].at
  BY <1>3, DocumentAssumption
<1>5. h \in 1 .. Len(d) /\ h < m BY <1>1, <1>3, <1>4
<1>6. d[h].at \in Key /\ d[h].name \in Name /\ d[m].at \in Key BY <1>3, <1>5, DocumentItems
<1>7. CASE IsRoot(d[h].at)
  <2>1. IsPrefix(Child(d[h].at, d[h].name), d[m].at) BY <1>4, <1>6, KeyOrder
  <2> QED BY <1>3, <1>4, <1>5, <1>7, <2>1 DEF UnderRoot
<1>8. CASE ~IsRoot(d[h].at)
  <2>1. h \notin T BY <1>1, <1>2, <1>5
  <2>2. UnderRoot(d, d[h].at) BY <1>5, <1>8, <2>1
  <2>3. PICK g \in 1 .. Len(d) :
          d[g].object /\ IsRoot(d[g].at) /\ IsPrefix(Child(d[g].at, d[g].name), d[h].at)
    BY <2>2 DEF UnderRoot
  <2>4. Child(d[g].at, d[g].name) \in Key BY <2>3, DocumentItems
  <2>5. IsPrefix(d[h].at, d[m].at) BY <1>4, <1>6, ChildOrder, KeyOrder
  <2>6. IsPrefix(Child(d[g].at, d[g].name), d[m].at) BY <1>6, <2>3, <2>4, <2>5, KeyOrder
  <2> QED BY <1>3, <2>3, <2>6 DEF UnderRoot
<1> QED BY <1>7, <1>8

LEMMA RestUnique ==
  ASSUME NEW s \in Seq(Item), NEW d, NEW m \in Nat, NEW n \in Nat, Rest(s, d, m), Rest(s, d, n)
  PROVE  m = n
<1>1. PICK l \in Nat : l = Len(s) OBVIOUS
<1>2. m + l = n + l BY <1>1 DEF Rest
<1> QED BY ONLY <1>1, <1>2, m \in Nat, n \in Nat

LEMMA NextItemOk ==
  ASSUME NEW j \in Job, NEW ok, NEW k, k = NextItem(j, ok), k.ok
  PROVE  j.ok /\ (IsRoot(Head(j.todo).at) => ok)
<1>1. PICK res : res = (j.ok /\ (IsRoot(Head(j.todo).at) => ok)) OBVIOUS
<1>2. PICK rest : rest = Tail(j.todo) OBVIOUS
<1>3. PICK s : s = [j EXCEPT !.ok = res, !.todo = rest] OBVIOUS
<1>4. s.ok = res /\ s.todo = rest BY <1>3 DEF Job
<1>5. IF s.todo = <<>> THEN k = Return(s, s.ok) ELSE k = [s EXCEPT !.pc = "add_probe"]
  BY <1>1, <1>2, <1>3 DEF NextItem
<1>6. ASSUME k = Return(s, s.ok) PROVE k.ok = s.ok
  <2>1. PICK o : o = s.ok OBVIOUS
  <2>2. k = Return(s, o) BY <1>6, <2>1
  <2>3. k.ok = o BY <2>2 DEF Return, Idle
  <2> QED BY <2>1, <2>3
<1>7. k = [s EXCEPT !.pc = "add_probe"] => k.ok = s.ok BY <1>3 DEF Job
<1>8. k.ok = res BY <1>4, <1>5, <1>6, <1>7
<1> QED BY <1>1, <1>8

\* When all members have been visited, the document is merged.
LEMMA AllMerged ==
  ASSUME NEW d \in Document, NEW n, n = Len(d), Submitted(d, n)', UNCHANGED before
  PROVE  Merged(before.hash, d)'
<1>1. n \in Nat /\ d \in Seq(Item) BY DocumentItems
<1> SUFFICES ASSUME NEW k \in Key, NEW f \in Name
             PROVE  hash'[k][f] = IF before.hash[k][f] # Absent \/ Leaves(d, k, f) = {}
                                 THEN before.hash[k][f] ELSE d[Min(Leaves(d, k, f))].value
  BY DEF Merged
<1>2. \/ hash'[k][f] = before.hash[k][f]
      \/ /\ before.hash[k][f] = Absent
         /\ \E h \in 1 .. n : /\ h \in Leaves(d, k, f) /\ hash'[k][f] = d[h].value
                              /\ \A g \in 1 .. h - 1 : g \notin Leaves(d, k, f)
  BY DEF Submitted
<1>3. CASE before.hash[k][f] # Absent \/ Leaves(d, k, f) = {} BY <1>2, <1>3
<1>4. CASE before.hash[k][f] = Absent /\ Leaves(d, k, f) # {}
  <2>1. PICK m : m = Min(Leaves(d, k, f)) OBVIOUS
  <2>2. m \in Leaves(d, k, f) /\ \A h \in Leaves(d, k, f) : m <= h BY <1>1, <1>4, <2>1, FirstLeaf
  <2>3. m \in 1 .. n /\ ~d[m].object /\ d[m].at = k /\ d[m].name = f BY <2>2 DEF Leaves
  <2>4. hash'[k][f] # Absent BY <2>3 DEF Submitted, Present
  <2>5. PICK h \in 1 .. n : /\ h \in Leaves(d, k, f) /\ hash'[k][f] = d[h].value
                            /\ \A g \in 1 .. h - 1 : g \notin Leaves(d, k, f)
    BY <1>2, <1>4, <2>4
  <2>6. m <= h /\ ~(m \in 1 .. h - 1) BY <2>2, <2>5
  <2>7. m = h BY <1>1, <2>3, <2>5, <2>6
  <2> QED BY <1>4, <2>1, <2>5, <2>7
<1> QED BY <1>3, <1>4

\* What was there before would be a root's own or below a root member that was there before.
LEMMA AllNew ==
  ASSUME NEW d \in Document, NEW n, n = Len(d), NEW j, j.ok, FirstHere(j, d, n),
         NEW k \in Key, NEW f \in Name, before.hash[k][f] # Absent
  PROVE  Leaves(d, k, f) = {}
<1> SUFFICES ASSUME NEW l, l \in Leaves(d, k, f) PROVE FALSE OBVIOUS
<1>1. l \in 1 .. Len(d) /\ ~d[l].object /\ d[l].at = k BY DEF Leaves
<1>2. k \in Record BY <1>1, DocumentItems
<1>3. ~IsRoot(k) BY <1>1 DEF FirstHere
<1>4. PICK h \in 1 .. Len(d) :
        d[h].object /\ IsRoot(d[h].at) /\ IsPrefix(Child(d[h].at, d[h].name), k)
  BY <1>1, <1>3, DocumentRoots DEF UnderRoot
<1>5. ~HadBelow(Child(d[h].at, d[h].name)) BY <1>4 DEF FirstHere
<1> QED BY <1>4, <1>5 DEF HadBelow

LEMMA AddGoesOnClean ==
  ASSUME NEW j \in Job, j.todo # <<>>, NEW d \in Document, NEW n \in Nat,
         Rest(j.todo, d, n), Submitted(d, n + 1)', UNCHANGED before,
         before.doc = d, before.call = "add",
         NEW ok, NEW k, k = NextItem(j, ok), FirstHere(j, d, n),
         NEW i, i = Head(j.todo),
         j.ok /\ ok /\ IsRoot(i.at) => i.object /\ ~HadBelow(Child(i.at, i.name)),
         \A x \in Key : ~Unlisted(x)'
  PROVE  CallClean(k)'
<1>1. j.todo \in Seq(Item) BY DEF Job
<1>2. /\ n + 1 \in 1 .. Len(d) /\ d[n + 1] = i /\ Len(d) \in Nat
      /\ Rest(Tail(j.todo), d, n + 1)
  BY <1>1, NextMember
<1>3. /\ Same(j, k)
      /\ IF Tail(j.todo) = <<>> THEN k.pc = "idle" ELSE k.pc = "add_probe" /\ k.todo = Tail(j.todo)
  BY NextItemFacts
<1>4. FirstHere(k, d, n + 1)
  <2>1. SUFFICES ASSUME k.ok, NEW h \in 1 .. n + 1, IsRoot(d[h].at)
                 PROVE  d[h].object /\ ~HadBelow(Child(d[h].at, d[h].name))
    BY DEF FirstHere
  <2>2. j.ok /\ (IsRoot(i.at) => ok) BY <2>1, NextItemOk
  <2>3. h \in 1 .. n \/ h = n + 1 OBVIOUS
  <2>4. CASE h \in 1 .. n BY <2>1, <2>2, <2>4 DEF FirstHere
  <2>5. CASE h = n + 1 BY <1>2, <2>1, <2>2, <2>5
  <2> QED BY <2>3, <2>4, <2>5
<1>5. FirstHere(k, d, n + 1)' BY <1>4 DEF FirstHere, HadBelow
<1>6. CASE Tail(j.todo) = <<>>
  <2>1. Len(d) = n + 1
    <3>1. PICK u : u = Tail(j.todo) OBVIOUS
    <3>2. Len(d) = n + 1 + Len(u) BY <1>2, <3>1 DEF Rest
    <3>3. u = <<>> BY <1>6, <3>1
    <3> QED BY ONLY <3>2, <3>3
  <2>2. PICK m : m = n + 1 OBVIOUS
  <2>3. Merged(before.hash, d)'
    <3>1. Submitted(d, m)' BY <2>2 DEF Submitted, Present
    <3> QED BY <2>1, <2>2, <3>1, AllMerged
  <2>4. k.ok => \A x \in Key, f \in Name : before.hash[x][f] = Absent \/ Leaves(d, x, f) = {}
    <3>1. FirstHere(k, d, m) BY <1>4, <2>2
    <3> QED BY <2>1, <2>2, <3>1, AllNew
  <2>5. Fulfilled(k)' BY <2>3, <2>4 DEF Fulfilled, Merged
  <2>6. k.pc = "idle" BY <1>3, <1>6
  <2> QED BY <2>5, <2>6 DEF CallClean, ClimbPC, RemovePC, AddPC
<1>7. CASE Tail(j.todo) # <<>>
  <2>1. k.pc = "add_probe" /\ k.todo = Tail(j.todo) /\ Tail(j.todo) \in Seq(Item)
    BY <1>1, <1>3, <1>7
  <2>2. ASSUME NEW m \in Nat, Rest(k.todo, d, m) PROVE FirstHere(k, d, m)'
    <3>1. PICK u : u = Tail(j.todo) OBVIOUS
    <3>2. u \in Seq(Item) /\ Rest(u, d, m) /\ Rest(u, d, n + 1) /\ n + 1 \in Nat
      BY <1>2, <2>1, <2>2, <3>1
    <3>3. m = n + 1 BY <3>2, RestUnique
    <3> QED BY <1>5, <3>3 DEF FirstHere, HadBelow
  <2> QED BY <2>1, <2>2 DEF CallClean, ClimbPC, RemovePC
<1> QED BY <1>6, <1>7

\* The key a member is put into is listed: its own member was visited before.
LEMMA MemberListed ==
  ASSUME NEW d \in Document, NEW n \in Nat, n + 1 \in 1 .. Len(d), Submitted(d, n),
         NEW i, i = d[n + 1], ~IsRoot(i.at)
  PROVE  Base(i.at) \in set[Parent(i.at)]
<1>1. PICK h \in 1 .. (n + 1) - 1 : d[h].object /\ Child(d[h].at, d[h].name) = i.at
  BY DocumentAssumption
<1>2. h \in 1 .. n /\ h \in 1 .. Len(d) BY DocumentItems
<1>3. d[h].at \in Key /\ d[h].name \in Name BY <1>2, DocumentItems
<1>4. Parent(i.at) = d[h].at /\ Base(i.at) = d[h].name BY <1>1, <1>3, ChildParts
<1>5. Present(d[h]) BY <1>2 DEF Submitted
<1> QED BY <1>1, <1>4, <1>5 DEF Present

\* Where a member is not listed there was nothing below it.
LEMMA MemberNew ==
  ASSUME NEW d, NEW n \in Nat, Submitted(d, n), \A x \in Key : ~Unlisted(x),
         NEW i, i.at \in Key, i.name \in Name, i.object, ~Present(i), Child(i.at, i.name) \in Key
  PROVE  ~HadBelow(Child(i.at, i.name))
<1> SUFFICES ASSUME HadBelow(Child(i.at, i.name)) PROVE FALSE OBVIOUS
<1>1. PICK c : c = Child(i.at, i.name) OBVIOUS
<1>2. PICK k \in Key, f \in Name : IsPrefix(c, k) /\ before.hash[k][f] # Absent
  BY <1>1 DEF HadBelow
<1>3. hash[k][f] # Absent BY <1>2 DEF Submitted
<1>4. Stored(k) BY <1>3 DEF Stored, IsHashKey
<1>5. Stored(c)
  <2>1. CASE k = c BY <1>4, <2>1
  <2>2. CASE k # c
    <3>1. k \in Below(c) BY <1>2, <2>2 DEF Below, IsStrictPrefix
    <3> QED BY <1>1, <1>4, <3>1, Chain DEF Stored
  <2> QED BY <2>1, <2>2
<1>6. ~IsRoot(c) /\ Parent(c) = i.at /\ Base(c) = i.name BY <1>1, ChildParts
<1>7. i.name \in set[i.at] BY <1>1, <1>5, <1>6 DEF Unlisted
<1> QED BY <1>7 DEF Present

LEMMA AddProbeClean ==
  ASSUME SoloInv, NEW r \in Reply, AddProbe(Me, r), UNCHANGED before, Calm',
         NEW j, j = job[Me], NEW k, k = job'[Me], CallClean(j)
  PROVE  CallClean(k)'
<1>1. Command(Me, r) /\ j.pc \notin {"rm_srem", "rm_card"} BY DEF Command, Writing, AddProbe, At
<1>2. /\ r.ok /\ r.done /\ CallStands(j) /\ j \in Job /\ HasArguments(j) /\ before.call = j.op
      /\ \A s : Go(Me, s) => k = s
  BY <1>1, Answered
<1>3. j.pc = "add_probe" /\ Adding(j) /\ j.todo # <<>>
  BY <1>2 DEF AddProbe, At, CallStands, AddPC, HasArguments
<1>4. PICK d \in Document, n \in Nat : d = before.doc /\ Rest(j.todo, d, n) /\ Submitted(d, n)
  BY <1>3 DEF Adding
<1>5. (\A x \in Key : ~Unlisted(x)') /\ UNCHANGED <<set, hash>>
  BY <1>2, <1>3, StillListed DEF AddProbe, Served, Executed, AddPC
<1>6. FirstHere(j, d, n) BY <1>3, <1>4 DEF CallClean, AddPC
<1>7. PICK i : i = Head(j.todo) OBVIOUS
<1>8. CASE Present(i)
  <2>1. k = NextItem(j, FALSE) BY <1>2, <1>7, <1>8 DEF AddProbe
  <2>2. d[n + 1] = i BY <1>2, <1>3, <1>4, <1>7, NextMember DEF Job
  <2>3. Submitted(d, n + 1)' BY <1>4, <1>5, <1>8, <2>2, ProbeSubmits
  <2>4. before.call = "add" BY <1>2, <1>3 DEF Adding
  <2> QED BY <1>2, <1>3, <1>4, <1>5, <1>6, <1>7, <2>1, <2>3, <2>4, AddGoesOnClean
<1>9. CASE ~Present(i)
  <2>1. k = [j EXCEPT !.pc = "add_write"] BY <1>2, <1>7, <1>9 DEF AddProbe
  <2>2. k.pc = "add_write" /\ k.todo = j.todo /\ k.ok = j.ok BY <1>2, <2>1 DEF Job
  <2>3. ASSUME NEW m \in Nat, Rest(k.todo, d, m) PROVE FirstHere(k, d, m)'
    <3>1. FirstHere(j, d, m) BY <1>3, <1>4, <2>2, <2>3 DEF CallClean, AddPC
    <3> QED BY <2>2, <3>1 DEF FirstHere, HadBelow
  <2>4. before'.doc = d BY <1>4
  <2> QED BY <1>5, <2>2, <2>3, <2>4 DEF CallClean, ClimbPC, RemovePC
<1> QED BY <1>8, <1>9

LEMMA AddWriteClean ==
  ASSUME SoloInv, NEW r \in Reply, AddWrite(Me, r), UNCHANGED before, Calm',
         NEW j, j = job[Me], NEW k, k = job'[Me], CallClean(j)
  PROVE  CallClean(k)'
<1>1. Command(Me, r) /\ j.pc \notin {"rm_srem", "rm_card"} BY DEF Command, Writing, AddWrite, At
<1>2. /\ r.ok /\ r.done /\ CallStands(j) /\ j \in Job /\ HasArguments(j) /\ before.call = j.op
      /\ StoreTyped /\ \A s : Go(Me, s) => k = s
  BY <1>1, Answered
<1>3. j.pc = "add_write" /\ Adding(j) /\ j.todo # <<>> /\ j.todo \in Seq(Item)
  BY <1>2 DEF AddWrite, At, CallStands, AddPC, HasArguments, Job
<1>4. PICK d \in Document, n \in Nat : d = before.doc /\ Rest(j.todo, d, n) /\ Submitted(d, n)
  BY <1>3 DEF Adding
<1>5. PICK i : i = Head(j.todo) OBVIOUS
<1>6. ~Present(i) /\ Submit(i) /\ k = NextItem(j, i.object /\ r.ok)
  BY <1>2, <1>3, <1>5 DEF AddWrite, Served, Executed, Adding
<1>7. d[n + 1] = i /\ n + 1 \in 1 .. Len(d) BY <1>3, <1>4, <1>5, NextMember
<1>8. Submitted(d, n + 1)' BY <1>2, <1>4, <1>6, <1>7, WriteSubmits
<1>9. FirstHere(j, d, n) BY <1>3, <1>4 DEF CallClean, AddPC
<1>10. \A x \in Key : ~Unlisted(x) BY <1>3 DEF CallClean, MayBeUnlisted, ClimbPC, RemovePC
<1>11. /\ i.at \in Key /\ i.name \in Name /\ i.value \in Value
       /\ i.object => Child(i.at, i.name) \in Key
  BY <1>7, DocumentItems DEF Item
<1>12. i.object => ~HadBelow(Child(i.at, i.name)) BY <1>4, <1>6, <1>10, <1>11, MemberNew
<1>13. ~IsRoot(i.at) => Base(i.at) \in set[Parent(i.at)] BY <1>4, <1>7, MemberListed
<1>14. ASSUME NEW x \in Key PROVE set[x] \subseteq set'[x] /\ (Stored(x)' => Stored(x) \/ x = i.at)
  <2>1. CASE i.object
    BY <1>2, <1>6, <1>11, <2>1 DEF StoreTyped, Submit, Sadd, Stored, IsSetKey, IsHashKey
  <2>2. CASE ~i.object
    BY <1>2, <1>6, <1>11, <2>2 DEF StoreTyped, Submit, Hput, Stored, IsSetKey, IsHashKey
  <2> QED BY <2>1, <2>2
<1>15. ASSUME NEW x \in Key, Unlisted(x)' PROVE FALSE
  <2>1. Stored(x)' /\ ~IsRoot(x) /\ Base(x) \notin set'[Parent(x)] /\ Parent(x) \in Key
    BY <1>15, KeyParts DEF Unlisted
  <2>2. Base(x) \notin set[Parent(x)] BY <1>14, <2>1
  <2> QED BY <1>10, <1>13, <1>14, <2>1, <2>2 DEF Unlisted
<1>16. before.call = "add" BY <1>2, <1>3 DEF Adding
<1>17. PICK ok : ok = (i.object /\ r.ok) OBVIOUS
<1>18. k = NextItem(j, ok) /\ (ok => i.object) BY <1>6, <1>17
<1> QED BY <1>2, <1>3, <1>4, <1>5, <1>8, <1>9, <1>12, <1>15, <1>16, <1>18, AddGoesOnClean
-----------------------------------------------------------------------------
LEMMA CommandClean ==
  ASSUME SoloInv, NEW r \in Reply, Command(Me, r), UNCHANGED before, Calm',
         \A j \in {job[Me]} : CallClean(j)
  PROVE  \A j \in {job'[Me]} : CallClean(j)'
<1> SUFFICES ASSUME NEW k, k = job'[Me] PROVE CallClean(k)' OBVIOUS
<1>1. PICK j : j = job[Me] /\ CallClean(j) OBVIOUS
<1>2. CASE UpdKeys(Me, r) BY <1>1, <1>2, UpdKeysClean
<1>3. CASE UpdHexists(Me, r) BY <1>1, <1>3, UpdHexistsClean
<1>4. CASE ValHset(Me, r) BY <1>1, <1>4, ValHsetClean
<1>5. CASE AddHset(Me, r) BY <1>1, <1>5, AddHsetClean
<1>6. CASE ClimbSadd(Me, r) BY <1>1, <1>6, ClimbSaddClean
<1>7. CASE ClimbKeys(Me, r) BY <1>1, <1>7, ClimbKeysClean
<1>8. CASE AddProbe(Me, r) BY <1>1, <1>8, AddProbeClean
<1>9. CASE AddWrite(Me, r) BY <1>1, <1>9, AddWriteClean
<1>10. CASE DelKeys(Me, r) BY <1>1, <1>10, DelKeysClean
<1>11. CASE DelIsHash(Me, r) \/ DelHexists(Me, r) \/ DelHdel(Me, r) BY <1>1, <1>11, DelFieldClean
<1>12. CASE RmType(Me, r) BY <1>1, <1>12, RmTypeClean
<1>13. CASE RmScard(Me, r) \/ RmKids(Me, r) BY <1>1, <1>13, RmReadClean
<1>14. CASE RmKid(Me, r) BY <1>1, <1>14, RmKidClean
<1>15. CASE RmSrem(Me, r) BY <1>1, <1>15, RmSremClean
<1>16. CASE RmCard(Me, r) BY <1>1, <1>16, RmCardClean
<1>17. CASE RmDel(Me, r) BY <1>1, <1>17, RmDelClean
<1> QED BY <1>2, <1>3, <1>4, <1>5, <1>6, <1>7, <1>8, <1>9, <1>10, <1>11, <1>12, <1>13, <1>14,
           <1>15, <1>16, <1>17 DEF Command, Writing, Removing

LEMMA CallStarts ==
  ASSUME Update(Me) \/ Delete(Me) \/ AddConfig(Me)
  PROVE  \E s : /\ Call(Me, s)
                /\ s.pc \in {"upd_keys", "del_keys", "add_probe"}
                /\ s.pc = "add_probe" => s.todo \in Document
<1>1. CASE Update(Me)
  <2>1. PICK key \in UpdateKey, v \in Value :
          Call(Me, [Idle EXCEPT !.pc = "upd_keys", !.op = "update", !.key = key, !.value = v])
    BY <1>1 DEF Update
  <2>2. PICK s : s = [Idle EXCEPT !.pc = "upd_keys", !.op = "update", !.key = key, !.value = v] OBVIOUS
  <2>3. s.pc = "upd_keys" BY <2>2 DEF Idle
  <2> QED BY <2>1, <2>2, <2>3
<1>2. CASE Delete(Me)
  <2>1. PICK key \in DeleteKey : Call(Me, [Idle EXCEPT !.pc = "del_keys", !.op = "delete", !.key = key])
    BY <1>2 DEF Delete
  <2>2. PICK s : s = [Idle EXCEPT !.pc = "del_keys", !.op = "delete", !.key = key] OBVIOUS
  <2>3. s.pc = "del_keys" BY <2>2 DEF Idle
  <2> QED BY <2>1, <2>2, <2>3
<1>3. CASE AddConfig(Me)
  <2>1. PICK d \in Document : Call(Me, [Idle EXCEPT !.pc = "add_probe", !.op = "add", !.todo = d])
    BY <1>3 DEF AddConfig
  <2>2. PICK s : s = [Idle EXCEPT !.pc = "add_probe", !.op = "add", !.todo = d] OBVIOUS
  <2>3. s.pc = "add_probe" /\ s.todo = d BY <2>2 DEF Idle
  <2> QED BY <2>1, <2>2, <2>3
<1> QED BY <1>1, <1>2, <1>3

\* A call begins where all keys are listed.
LEMMA BeginsClean ==
  ASSUME SoloBase, SoloNext, \A j \in {job[Me]} : CallClean(j),
         Update(Me) \/ Delete(Me) \/ AddConfig(Me)
  PROVE  \A j \in {job'[Me]} : CallClean(j)'
<1> SUFFICES ASSUME NEW k, k = job'[Me] PROVE CallClean(k)' OBVIOUS
<1>1. PICK s : /\ Call(Me, s)
               /\ s.pc \in {"upd_keys", "del_keys", "add_probe"}
               /\ s.pc = "add_probe" => s.todo \in Document
  BY CallStarts
<1>2. /\ job[Me].pc = "idle" /\ k = s /\ UNCHANGED <<set, hash>>
      /\ before' = [call |-> s.op, set |-> set, hash |-> hash, ok |-> job[Me].ok,
                    found |-> s.key \in Key /\ Stored(s.key), doc |-> s.todo, faults |-> faults]
  BY <1>1, CallBegins
<1>3. \A x \in Key : ~Unlisted(x) BY <1>2 DEF CallClean, MayBeUnlisted, RemovePC
<1>4. \A x \in Key : ~Unlisted(x)' BY <1>2, <1>3 DEF Unlisted, Stored, IsSetKey, IsHashKey
<1>5. before'.doc = s.todo BY <1>2
<1>6. ASSUME s.pc = "add_probe", NEW m \in Nat, Rest(s.todo, s.todo, m) PROVE FirstHere(s, s.todo, m)'
  <2>1. PICK l : l = Len(s.todo) OBVIOUS
  <2>2. l \in Nat /\ l = m + l BY <1>1, <1>6, <2>1, CommandAssumption DEF Rest
  <2>3. m = 0 BY ONLY <2>2, m \in Nat
  <2> QED BY <2>3 DEF FirstHere
<1>7. k.pc \in AddPC => \A m \in Nat : Rest(k.todo, before.doc, m)' => FirstHere(k, before.doc, m)'
  <2>1. ASSUME k.pc \in AddPC, NEW m \in Nat, Rest(s.todo, s.todo, m) PROVE FirstHere(s, s.todo, m)'
    BY <1>1, <1>2, <1>6, <2>1 DEF AddPC
  <2> QED BY <1>2, <1>5, <2>1 DEF Rest, FirstHere
<1> QED BY <1>1, <1>2, <1>4, <1>7 DEF CallClean, ClimbPC, RemovePC, Rest, FirstHere

LEMMA IdleClean ==
  ASSUME SoloBase, SoloNext, \A j \in {job[Me]} : CallClean(j), Clear(Me) \/ FlushAll(Me)
  PROVE  \A j \in {job'[Me]} : CallClean(j)'
<1> SUFFICES ASSUME NEW k, k = job'[Me] PROVE CallClean(k)' OBVIOUS
<1>1. k.pc = "idle" /\ before'.call = "clear" /\ job[Me].pc = "idle"
  BY ClearBase, RestBase DEF Clear, At
<1>2. Fulfilled(k)' BY <1>1 DEF Fulfilled
<1>3. \A x \in Key : ~Unlisted(x) BY <1>1 DEF CallClean, MayBeUnlisted, RemovePC
<1>4. \A x \in Key : ~Unlisted(x)'
  <2>1. CASE UNCHANGED <<set, hash>> BY <1>3, <2>1 DEF Unlisted, Stored, IsSetKey, IsHashKey
  <2>2. CASE Flush BY <2>2 DEF Flush, EmptyHash, Unlisted, Stored, IsSetKey, IsHashKey
  <2>3. UNCHANGED <<set, hash>> \/ Flush
    <3>1. Clear(Me) => UNCHANGED <<set, hash>> BY DEF Clear
    <3>2. FlushAll(Me) => UNCHANGED <<set, hash>> \/ Flush BY DEF FlushAll, Executed, Keep
    <3> QED BY <3>1, <3>2
  <2> QED BY <2>1, <2>2, <2>3
<1> QED BY <1>1, <1>2, <1>4 DEF CallClean, ClimbPC, RemovePC, AddPC

\* The document that is there before the client starts is listed from its roots.
LEMMA InitClean == SoloInit => CleanInv
<1> SUFFICES ASSUME SoloInit PROVE CleanInv OBVIOUS
<1>1. SoloInv BY InitSolo
<1>2. Init /\ job[Me] = Idle /\ before.call = "none" BY OnlyMe DEF SoloInit, Init
<1>3. ASSUME NEW x \in Key, Unlisted(x) PROVE FALSE
  <2>1. Stored(x) /\ ~IsRoot(x) /\ Base(x) \notin set[Parent(x)] BY <1>3 DEF Unlisted
  <2>2. PICK i \in ToSet(Seed) : i.at = x BY <1>2, <2>1, SeedStored
  <2>3. Seed \in Seq(Item) /\ DOMAIN Seed = 1 .. Len(Seed) BY CommandAssumption
  <2>4. PICK m \in 1 .. Len(Seed) : Seed[m] = i BY <2>3 DEF ToSet
  <2>5. PICK h \in 1 .. m - 1 : Seed[h].object /\ Child(Seed[h].at, Seed[h].name) = x
    BY <2>1, <2>2, <2>4, DocumentAssumption
  <2>6. h \in 1 .. Len(Seed)
    <3>1. PICK l : l = Len(Seed) OBVIOUS
    <3>2. l \in Nat BY <2>3, <3>1
    <3> QED BY <2>4, <2>5, <3>1, <3>2
  <2>7. Seed[h] \in Item /\ Seed[h] \in ToSet(Seed) BY <2>3, <2>6 DEF ToSet
  <2>8. Seed[h].at \in Key /\ Seed[h].name \in Name BY <2>7 DEF Item
  <2>9. Seed[h].name \in set[Seed[h].at] BY <1>2, <2>5, <2>7, <2>8, SeedStored
  <2>10. Parent(x) = Seed[h].at /\ Base(x) = Seed[h].name BY <2>5, <2>8, ChildParts
  <2> QED BY <2>1, <2>9, <2>10
<1>4. Idle.pc = "idle" BY DEF Idle
<1>5. CallClean(Idle) BY <1>2, <1>3, <1>4 DEF CallClean, Fulfilled, ClimbPC, RemovePC, AddPC
<1> QED BY <1>1, <1>2, <1>5 DEF CleanInv

LEMMA CleanNext == CleanInv /\ [SoloNext]_<<vars, before>> => CleanInv'
<1> SUFFICES ASSUME CleanInv, [SoloNext]_<<vars, before>> PROVE CleanInv' OBVIOUS
<1>1. SoloInv /\ SoloInv' /\ SoloBase /\ SoloBase' BY SoloInvNext DEF CleanInv, SoloInv
<1> SUFFICES ASSUME faults' = 0 PROVE \A j \in {job'[Me]} : CallClean(j)' BY <1>1 DEF CleanInv
<1>2. Calm'
  <2>1. faults' \in Nat /\ before'.faults \in Nat /\ before'.faults <= faults'
    BY <1>1, CommandAssumption DEF SoloBase, SchemaInv, TypeInv, CountsTyped, BeforeTyped, History
  <2> QED BY <2>1 DEF Calm
<1>3. faults \in Nat BY <1>1, SoloFacts, CommandAssumption DEF CountsTyped
<1>4. CASE UNCHANGED <<vars, before>>
  <2>1. UNCHANGED <<set, hash, job, faults, before>> BY <1>4 DEF vars
  <2>2. SUFFICES ASSUME NEW k, k = job'[Me] PROVE CallClean(k)' OBVIOUS
  <2>3. CallClean(k) BY <2>1, <2>2 DEF CleanInv
  <2>4. /\ \A x : Unlisted(x)' <=> Unlisted(x)
        /\ WasRootRecord(k.key)' <=> WasRootRecord(k.key)
        /\ \A n : Rest(k.todo, before.doc, n) /\ FirstHere(k, before.doc, n)
                   => FirstHere(k, before.doc, n)'
        /\ \A n : Rest(k.todo, before.doc, n)' <=> Rest(k.todo, before.doc, n)
    BY <2>1 DEF Unlisted, Stored, IsSetKey, IsHashKey, WasRootRecord, FirstHere, HadBelow, Rest
  <2>5. Fulfilled(k) => Fulfilled(k)'
    <3>1. /\ Changed(k)' <=> Changed(k)
          /\ Erased(k)' <=> Erased(k)
          /\ HadWithin(k.key)' <=> HadWithin(k.key)
          /\ Merged(before.hash, before.doc)' <=> Merged(before.hash, before.doc)
      BY <2>1 DEF Changed, Erased, HadWithin, Merged
    <3> QED BY <2>1, <2>4, <3>1 DEF Fulfilled
  <2> QED BY <2>3, <2>4, <2>5 DEF CallClean
<1>5. CASE SoloNext
  <2>1. CASE Update(Me) \/ Delete(Me) \/ AddConfig(Me)
    <3>1. faults' = faults BY <2>1 DEF Update, Delete, AddConfig, Call
    <3> QED BY <1>1, <1>5, <2>1, <3>1, BeginsClean DEF CleanInv
  <2>2. CASE Clear(Me) \/ FlushAll(Me)
    <3>1. faults = 0
      <4>1. CASE Clear(Me) BY <4>1 DEF Clear
      <4>2. CASE FlushAll(Me)
        <5>1. PICK r : faults' = faults + (IF r.ok = TRUE THEN 0 ELSE 1) BY <4>2 DEF FlushAll, Executed
        <5>2. CASE r.ok = TRUE BY <1>3, <5>1, <5>2
        <5>3. CASE r.ok # TRUE BY <1>3, <5>1, <5>3
        <5> QED BY <5>2, <5>3
      <4> QED BY <2>2, <4>1, <4>2
    <3> QED BY <1>1, <1>5, <2>2, <3>1, IdleClean DEF CleanInv
  <2>3. CASE Kill(Me)
    <3>1. faults' = faults + 1 BY <2>3 DEF Kill
    <3> QED BY <1>3, <3>1
  <2>4. ASSUME NEW r \in Reply, Command(Me, r) PROVE \A j \in {job'[Me]} : CallClean(j)'
    <3>1. UNCHANGED before BY <1>1, <1>5, <2>4, CommandFrame
    <3>2. Calm BY <1>1, <1>2, <2>4, <3>1, CommandAnswered
    <3>3. faults = 0
      <4>1. before.faults = before'.faults BY <3>1
      <4> QED BY <1>2, <3>2, <4>1 DEF Calm
    <3> QED BY <1>1, <1>2, <2>4, <3>1, <3>3, CommandClean DEF CleanInv
  <2> QED BY <1>5, <2>1, <2>2, <2>3, <2>4, SoloSteps
<1> QED BY <1>4, <1>5

LEMMA CleanInvariant == SoloSpec => []CleanInv
<1> QED BY InitClean, CleanNext, PTL DEF SoloSpec
-----------------------------------------------------------------------------
\* As long as every command was answered and the client not killed, every stored key is
\* listed by its parent when a call has returned: Update and AddConfig complete the chain
\* to the root, Delete cuts below the list entry it removed, of any keys and documents.
THEOREM KeysListed == SoloSpec => []StoredKeysAreListed
<1>1. CleanInv => StoredKeysAreListed
  <2> SUFFICES ASSUME CleanInv, faults = 0, job[Me].pc = "idle", NEW x \in Key PROVE ~Unlisted(x)
    BY DEF StoredKeysAreListed, At
  <2>1. CallClean(job[Me]) BY DEF CleanInv
  <2> QED BY <2>1 DEF CallClean, MayBeUnlisted, RemovePC
<1> QED BY <1>1, CleanInvariant, PTL
-----------------------------------------------------------------------------
(***************************************************************************)
(* ConfigStore: a call that returns does to the fields, as the abstract    *)
(* store sees them, what one of its calls does.                            *)
(***************************************************************************)
Fields == [Key -> [Name -> Value \cup {Absent}]]

LEMMA StoreOperators ==
  /\ \A p : Store1!Parent(p) = Parent(p) /\ Store1!Base(p) = Base(p)
  /\ \A d, k, f : Store1!Leaves(d, k, f) = Leaves(d, k, f)
  /\ \A S : Store1!Min(S) = Min(S)
  /\ Store1!Nothing = [k \in Key |-> EmptyHash]
  /\ ~At(Me, "idle") => \A p : Store1!RootRecord(p) <=> WasRootRecord(p)
<1>1. \A p : Store1!Parent(p) = Parent(p)
  BY DEF Store1!Parent, Parent, Store1!IsRoot, IsRoot, Store1!Front, Front
<1>2. \A p : Store1!Base(p) = Base(p) BY DEF Store1!Base, Base, Store1!Last, Last
<1>3. \A d, k, f : Store1!Leaves(d, k, f) = Leaves(d, k, f) BY DEF Store1!Leaves, Leaves
<1>4. \A S : Store1!Min(S) = Min(S) BY DEF Store1!Min, Min
<1>5. Store1!Nothing = [k \in Key |-> EmptyHash] BY DEF Store1!Nothing, EmptyHash
<1>6. ~At(Me, "idle") => \A p : Store1!RootRecord(p) <=> WasRootRecord(p)
  BY DEF Store1!RootRecord, WasRootRecord, Store1!IsRoot, IsRoot
<1> QED BY <1>1, <1>2, <1>3, <1>4, <1>5, <1>6

LEMMA SameFields ==
  ASSUME NEW g \in Fields, NEW h \in Fields, \A k \in Key, f \in Name : g[k][f] = h[k][f]
  PROVE  g = h
<1>1. ASSUME NEW k \in Key PROVE g[k] = h[k]
  <2>1. g[k] \in [Name -> Value \cup {Absent}] /\ h[k] \in [Name -> Value \cup {Absent}] BY DEF Fields
  <2> QED BY <2>1
<1> QED BY <1>1 DEF Fields

LEMMA UpdateReturns ==
  ASSUME ~At(Me, "idle"), At(Me, "idle")', before.call = "update", before.hash \in Fields, hash' \in Fields,
         UNCHANGED before, NEW k \in Job, k = job'[Me], Fulfilled(k)'
  PROVE  Store1!Update
<1>1. /\ k.key \in UpdateKey /\ k.value \in Value
      /\ WasRootRecord(k.key)' => ~k.ok /\ hash' = before'.hash
      /\ ~WasRootRecord(k.key)' => k.ok /\ Changed(k)'
  BY DEF Fulfilled
<1>2. Store1!RootRecord(k.key) <=> WasRootRecord(k.key)' BY StoreOperators, WasBefore
<1>3. Parent(k.key) \in Key /\ Base(k.key) \in Name BY <1>1, CommandAssumption, KeyParts
<1>4. CASE Store1!RootRecord(k.key)
  <2>1. hash' = before.hash /\ job'[Me].ok = FALSE BY <1>1, <1>2, <1>4 DEF Job
  <2> QED BY <1>1, <1>4, <2>1 DEF Store1!Update
<1>5. CASE ~Store1!RootRecord(k.key)
  <2>1. PICK p \in Key, b \in Name, v \in Value : p = Parent(k.key) /\ b = Base(k.key) /\ v = k.value
    BY <1>1, <1>3
  <2>2. PICK g : g = before.hash OBVIOUS
  <2>3. PICK h : h = [g EXCEPT ![p][b] = v] OBVIOUS
  <2>4. g \in Fields BY <2>2
  <2>5. h \in Fields BY <2>1, <2>3, <2>4 DEF Fields
  <2>6. \A x \in Key, f \in Name : h[x][f] = IF x = p /\ f = b THEN v ELSE g[x][f]
    BY <2>1, <2>3, <2>4 DEF Fields
  <2>7. \A x \in Key, f \in Name : hash'[x][f] = IF x = p /\ f = b THEN v ELSE g[x][f]
    BY <1>1, <1>2, <1>5, <2>1, <2>2 DEF Changed
  <2>8. hash' = h BY <2>5, <2>6, <2>7, SameFields
  <2>9. hash' = [before.hash EXCEPT ![Store1!Parent(k.key)][Store1!Base(k.key)] = k.value]
    BY <2>1, <2>2, <2>3, <2>8, StoreOperators
  <2>10. job'[Me].ok = TRUE BY <1>1, <1>2, <1>5 DEF Job
  <2> QED BY <1>1, <1>5, <2>9, <2>10 DEF Store1!Update
<1> QED BY <1>4, <1>5

LEMMA DeleteReturns ==
  ASSUME ~At(Me, "idle"), At(Me, "idle")', before.call = "delete", before.hash \in Fields, hash' \in Fields,
         UNCHANGED before, NEW k \in Job, k = job'[Me], Fulfilled(k)'
  PROVE  Store1!Delete
<1>1. /\ k.key \in DeleteKey /\ Erased(k)'
      /\ HadWithin(k.key)' => (k.ok <=> ~WasRootRecord(k.key)')
  BY DEF Fulfilled
<1>2. PICK g : g = before.hash OBVIOUS
<1>3. PICK h : h = [x \in Key |-> [f \in Name |-> IF Store1!Within(k.key, x, f) THEN Absent ELSE g[x][f]]]
  OBVIOUS
<1>4. g \in Fields BY <1>2
<1>5. h \in Fields BY <1>3, <1>4 DEF Fields
<1>6. \A x \in Key, f \in Name : h[x][f] = IF Store1!Within(k.key, x, f) THEN Absent ELSE g[x][f]
  BY <1>3
<1>7. \A x \in Key, f \in Name : hash'[x][f] = IF Store1!Within(k.key, x, f) THEN Absent ELSE g[x][f]
  BY <1>1, <1>2 DEF Erased
<1>8. hash' = h BY <1>5, <1>6, <1>7, SameFields
<1>9. hash' = [x \in Key |-> [f \in Name |-> IF Store1!Within(k.key, x, f) THEN Absent ELSE before.hash[x][f]]]
  BY <1>2, <1>3, <1>8
<1>10. job'[Me].ok \in BOOLEAN /\ Store1!RootRecord(k.key) \in BOOLEAN BY DEF Job, Store1!RootRecord
<1>11. (\E x \in Key, f \in Name : Store1!Within(k.key, x, f) /\ before.hash[x][f] # Absent)
         => job'[Me].ok = ~Store1!RootRecord(k.key)
  <2>1. Store1!RootRecord(k.key) <=> WasRootRecord(k.key)' BY StoreOperators, WasBefore
  <2>2. (\E x \in Key, f \in Name : Store1!Within(k.key, x, f) /\ before.hash[x][f] # Absent)
          => HadWithin(k.key)'
    BY DEF HadWithin
  <2> QED BY <1>1, <1>10, <2>1, <2>2
<1> QED BY <1>1, <1>9, <1>10, <1>11 DEF Store1!Delete

MergedInto(h, g, d) == \A x \in Key, f \in Name : h[x][f] =
  IF g[x][f] # Absent \/ Leaves(d, x, f) = {} THEN g[x][f] ELSE d[Min(Leaves(d, x, f))].value

LEMMA MergeIs ==
  ASSUME NEW g \in Fields, NEW h \in Fields, NEW d, MergedInto(h, g, d)
  PROVE  h = Store1!Merge(g, d)
<1>1. PICK m : m = [x \in Key |-> [f \in Name |->
        IF g[x][f] # Absent \/ Leaves(d, x, f) = {} THEN g[x][f] ELSE d[Min(Leaves(d, x, f))].value]]
  OBVIOUS
<1>2. \A x \in Key, f \in Name : m[x][f] = h[x][f] BY <1>1 DEF MergedInto
<1>3. m = Store1!Merge(g, d) BY <1>1, StoreOperators DEF Store1!Merge
<1>4. ASSUME NEW x \in Key PROVE m[x] = h[x]
  <2>1. h[x] \in [Name -> Value \cup {Absent}] BY DEF Fields
  <2>2. DOMAIN m[x] = Name /\ m[x] = [f \in Name |-> m[x][f]] BY <1>1
  <2> QED BY <1>2, <2>1, <2>2
<1>5. m = h BY <1>1, <1>4 DEF Fields
<1> QED BY <1>3, <1>5

LEMMA AddReturns ==
  ASSUME ~At(Me, "idle"), At(Me, "idle")', before.call = "add", before.hash \in Fields, hash' \in Fields,
         UNCHANGED before, NEW k \in Job, k = job'[Me], Fulfilled(k)'
  PROVE  Store1!AddConfig
<1>1. PICK d \in Document : d = before.doc BY DEF Fulfilled
<1>2. Merged(before.hash, d)' BY <1>1 DEF Fulfilled, Merged
<1>3. PICK g : g = before.hash OBVIOUS
<1>4. PICK h : h = hash' OBVIOUS
<1>5. h = Store1!Merge(g, d)
  <2>1. MergedInto(h, g, d) BY <1>2, <1>3, <1>4 DEF Merged, MergedInto
  <2>2. g \in Fields /\ h \in Fields BY <1>3, <1>4
  <2> QED BY <2>1, <2>2, MergeIs
<1>6. k.ok => \A x \in Key, f \in Name : g[x][f] = Absent \/ Leaves(d, x, f) = {}
  BY <1>1, <1>3 DEF Fulfilled
<1>7. job'[Me].ok => \A x \in Key, f \in Name : before.hash[x][f] = Absent \/ Store1!Leaves(d, x, f) = {}
  BY <1>3, <1>6, StoreOperators
<1>8. hash' = Store1!Merge(before.hash, d) BY <1>3, <1>4, <1>5
<1>9. job'[Me].ok \in BOOLEAN BY DEF Job
<1> QED BY <1>1, <1>7, <1>8, <1>9 DEF Store1!AddConfig

LEMMA StoreInitial == SoloInit => Store1!Init
<1> SUFFICES ASSUME SoloInit PROVE Store1!Init OBVIOUS
<1>1. Init /\ job[Me] = Idle BY OnlyMe DEF SoloInit, Init
<1>2. Idle.pc = "idle" /\ Idle.ok = TRUE BY DEF Idle
<1>3. At(Me, "idle") /\ job[Me].ok = TRUE /\ faults = 0 BY <1>1, <1>2 DEF At, Init
<1>4. PICK g : g = [x \in Key |-> EmptyHash] OBVIOUS
<1>5. g \in Fields /\ \A x \in Key, f \in Name : g[x][f] = Absent BY <1>4 DEF Fields, EmptyHash
<1>6. hash \in Fields BY <1>1, InitTypes DEF TypeInv, StoreTyped, Fields
<1>7. MergedInto(hash, g, Seed) BY <1>1, <1>5, SeedValue DEF MergedInto
<1>8. hash = Store1!Merge(g, Seed) BY <1>5, <1>6, <1>7, MergeIs
<1>9. hash = Store1!Merge(Store1!Nothing, Seed) BY <1>4, <1>8, StoreOperators
<1> QED BY <1>3, <1>9 DEF Store1!Init

StoreView == <<IF At(Me, "idle") THEN hash ELSE before.hash,
               IF At(Me, "idle") THEN job[Me].ok ELSE before.ok,
               faults = 0>>

\* What the abstract store sees of a call that goes on, or of the end of the process.
LEMMA GoingOn ==
  ASSUME ~At(Me, "idle"), ~At(Me, "idle")', UNCHANGED <<before, faults>>
  PROVE  UNCHANGED StoreView
BY DEF StoreView

\* What has failed stays counted.
LEMMA FaultsStay ==
  ASSUME CleanInv, [SoloNext]_<<vars, before>>, faults # 0 PROVE faults' # 0
<1>1. SoloBase /\ faults \in Nat BY SoloFacts, CommandAssumption DEF CleanInv, SoloInv, CountsTyped
<1>2. faults' \in {faults, faults + 1}
  <2>1. CASE UNCHANGED <<vars, before>> BY <2>1 DEF vars
  <2>2. CASE SoloNext
    <3>1. CASE Update(Me) \/ Delete(Me) \/ AddConfig(Me) \/ Clear(Me) \/ Kill(Me)
      BY <3>1 DEF Update, Delete, AddConfig, Call, Clear, Kill
    <3>2. ASSUME NEW r, NEW fits, faults' = faults + (IF r.ok = fits THEN 0 ELSE 1)
          PROVE  faults' \in {faults, faults + 1}
      BY <1>1, <3>2
    <3>3. CASE FlushAll(Me) BY <3>2, <3>3 DEF FlushAll, Executed
    <3>4. ASSUME NEW r \in Reply, Command(Me, r) PROVE faults' \in {faults, faults + 1}
      BY <3>2, <3>4
      DEF Command, Writing, Removing, Served, Executed,
          UpdKeys, UpdHexists, ValHset, AddHset, ClimbSadd, ClimbKeys, AddProbe, AddWrite,
          DelKeys, DelIsHash, DelHexists, DelHdel,
          RmType, RmScard, RmKids, RmKid, RmSrem, RmCard, RmDel
    <3> QED BY <2>2, <3>1, <3>3, <3>4, SoloSteps
  <2> QED BY <2>1, <2>2
<1> QED BY <1>1, <1>2

LEMMA StoreStep ==
  ASSUME CleanInv, faults = 0, CleanInv', faults' = 0, [SoloNext]_<<vars, before>>
  PROVE  Store1!Call \/ UNCHANGED StoreView
<1>1. SoloInv /\ SoloInv' /\ SoloBase /\ SoloBase' BY DEF CleanInv, SoloInv
<1>2. CASE UNCHANGED <<vars, before>> BY <1>2 DEF vars, StoreView, At
<1>3. CASE SoloNext
  <2>1. CASE Update(Me) \/ Delete(Me) \/ AddConfig(Me)
    <3>1. PICK s : Call(Me, s) /\ s.pc # "idle" BY <2>1, CallStarts
    <3>2. /\ job[Me].pc = "idle" /\ job'[Me] = s
          /\ before' = [call |-> s.op, set |-> set, hash |-> hash, ok |-> job[Me].ok,
                        found |-> s.key \in Key /\ Stored(s.key), doc |-> s.todo, faults |-> faults]
      BY <1>1, <1>3, <3>1, CallBegins
    <3>3. before'.hash = hash /\ before'.ok = job[Me].ok BY <3>2
    <3>4. At(Me, "idle") /\ ~At(Me, "idle")' BY <3>1, <3>2 DEF At
    <3> QED BY <3>3, <3>4 DEF StoreView
  <2>2. CASE Clear(Me)
    <3>1. job[Me].pc = "idle" /\ UNCHANGED <<hash, job>> BY <2>2 DEF Clear, At
    <3> QED BY <3>1 DEF StoreView, At
  <2>3. CASE FlushAll(Me)
    <3>1. UNCHANGED job /\ job[Me].pc = "idle" BY <1>1, <1>3, <2>3, RestBase
    <3>2. At(Me, "idle") /\ At(Me, "idle")' BY <3>1 DEF At
    <3>3. PICK r \in Reply : Executed(r, TRUE, Flush) BY <2>3 DEF FlushAll
    <3>4. r.ok
      <4>1. faults' = faults + (IF r.ok = TRUE THEN 0 ELSE 1) BY <3>3 DEF Executed
      <4>2. CASE r.ok = TRUE BY <4>2
      <4>3. CASE r.ok # TRUE
        <5>1. faults' = faults + 1 BY <4>1, <4>3
        <5> QED BY <5>1
      <4> QED BY <4>2, <4>3
    <3>5. r.done
      <4>1. r \in Outcome(TRUE) BY <3>3 DEF Executed
      <4>2. r = [done |-> TRUE, ok |-> TRUE] \/ \E d \in BOOLEAN : r = [done |-> d, ok |-> FALSE]
        BY <4>1 DEF Outcome
      <4>3. \A d \in BOOLEAN : r = [done |-> d, ok |-> FALSE] => ~r.ok OBVIOUS
      <4> QED BY <3>4, <4>2, <4>3
    <3>6. hash' = [k \in Key |-> EmptyHash] BY <3>3, <3>5 DEF Executed, Flush
    <3>7. hash' = Store1!Nothing BY <3>6, StoreOperators
    <3>8. Store1!Clear BY <3>1, <3>2, <3>7 DEF Store1!Clear
    <3> QED BY <3>8 DEF Store1!Call
  <2>4. CASE Kill(Me)
    <3>1. faults' = faults + 1 BY <2>4 DEF Kill
    <3> QED BY <3>1
  <2>5. ASSUME NEW r \in Reply, Command(Me, r) PROVE Store1!Call \/ UNCHANGED StoreView
    <3>1. UNCHANGED before /\ InCall(Me) BY <1>1, <1>3, <2>5, CommandFrame
    <3>2. ~At(Me, "idle") BY <3>1 DEF InCall, At
    <3>3. CASE ~At(Me, "idle")' BY <3>1, <3>2, <3>3, GoingOn
    <3>4. CASE At(Me, "idle")'
      <4>1. PICK k : k = job'[Me] OBVIOUS
      <4>2. k \in Job /\ k.pc = "idle"
        BY <1>1, <3>4, <4>1, OnlyMe DEF SoloBase, SchemaInv, TypeInv, JobsGood, At
      <4>3. Fulfilled(k)' BY <4>1, <4>2 DEF CleanInv, CallClean
      <4>4. before.hash \in Fields /\ hash' \in Fields
        BY <1>1, SoloFacts DEF SoloBase, SchemaInv, TypeInv, StoreTyped, BeforeTyped, History, Fields
      <4>5. before.call \in {"update", "delete", "add"}
        <5>1. PICK j : j = job[Me] OBVIOUS
        <5>2. j.pc \notin {"idle", "crashed"} /\ before.call = j.op /\ j.pc \in Label
          BY <1>1, <3>1, <5>1, SoloFacts DEF InCall, SoloBase, Bookkeeping, Job
        <5>3. CallStands(j) BY <1>1, <5>1, NothingFailed DEF SoloInv
        <5>4. j.pc \in UpdatePC \cup ClimbPC \cup DeletePC \cup RemovePC \cup AddPC
          BY <5>2 DEF Label, UpdatePC, ClimbPC, DeletePC, RemovePC, AddPC
        <5> QED BY <5>2, <5>3, <5>4 DEF CallStands, Changing, Climbing, Deleting, Removal, Adding
      <4>6. CASE before.call = "update"
        BY <3>1, <3>2, <3>4, <4>1, <4>2, <4>3, <4>4, <4>6, UpdateReturns DEF Store1!Call
      <4>7. CASE before.call = "delete"
        BY <3>1, <3>2, <3>4, <4>1, <4>2, <4>3, <4>4, <4>7, DeleteReturns DEF Store1!Call
      <4>8. CASE before.call = "add"
        BY <3>1, <3>2, <3>4, <4>1, <4>2, <4>3, <4>4, <4>8, AddReturns DEF Store1!Call
      <4> QED BY <4>5, <4>6, <4>7, <4>8
    <3> QED BY <3>3, <3>4
  <2> QED BY <1>3, <2>1, <2>2, <2>3, <2>4, <2>5, SoloSteps
<1> QED BY <1>2, <1>3

\* The calls of a RedisDataManager implement the atomic calls of ConfigStore, until a
\* command fails or the client is killed: Update, Delete and AddConfig of any keys and
\* documents do to the fields, and return, what one step of the abstract store does when
\* they return, and FLUSHALL empties it.
THEOREM StoreImplemented == SoloSpec => ImplementsConfigStore
<1>1. SoloInit => Store1!Init BY StoreInitial
<1>2. CleanInv /\ CleanInv' /\ [SoloNext]_<<vars, before>>
        => [Store1!Next]_<<IF At(Me, "idle") THEN hash ELSE before.hash,
                           IF At(Me, "idle") THEN job[Me].ok ELSE before.ok,
                           faults = 0>>
  <2> SUFFICES ASSUME CleanInv, CleanInv', [SoloNext]_<<vars, before>>
               PROVE  Store1!Next \/ UNCHANGED StoreView
    BY DEF StoreView
  <2>1. CASE faults = 0 /\ faults' = 0
    <3>1. Store1!Call \/ UNCHANGED StoreView BY <2>1, StoreStep
    <3> QED BY <2>1, <3>1 DEF Store1!Next
  <2>2. CASE faults' # 0 BY <2>2 DEF Store1!Next
  <2>3. CASE faults # 0 /\ faults' = 0 BY <2>3, FaultsStay
  <2> QED BY <2>1, <2>2, <2>3
<1> QED BY <1>1, <1>2, CleanInvariant, PTL DEF SoloSpec, ImplementsConfigStore, Store1!Spec
-----------------------------------------------------------------------------
(***************************************************************************)
(* What a call has told so far, as long as it has got its answers: all it  *)
(* has done, but for the parent that SREM has emptied, which SCARD shows.  *)
(***************************************************************************)
\* The keys whose list has changed, and those that are gone, all but the keys of E.
GrownTold   == \A a \in Key : Stored(a) /\ set[a] # before.set[a] => Told(a, "u")
GoneTold(E) == \A a \in Key \ E : WasStored(a) /\ ~Stored(a) => Told(a, "d")

\* What a call that has returned has told.
Notified(j) ==
  /\ before.call = "update" /\ (j.ok \/ hash # before.hash) =>
       Told(j.key, IF Was(j.key) = Absent THEN "a" ELSE "u")
  /\ before.call = "delete" /\ before.found => GoneTold({})
  /\ before.call = "update" \/ (before.call = "delete" /\ before.found) => GrownTold

Telling(j) ==
  /\ j.pc = "idle" => Notified(j)
  /\ j.pc \in UpdatePC \cup DeletePC => set = before.set
  /\ j.pc = "add_hset" => Told(j.key, "a")
  /\ j.pc = "val_hset" => Told(j.key, "u")
  /\ j.pc \in ClimbPC => Told(j.key, "a") /\ Was(j.key) = Absent /\ GrownTold
  /\ j.pc = "climb_sadd" => Told(Parent(j.at), "u")
  /\ j.pc \in RemovePC => GrownTold /\ GoneTold(IF j.pc = "rm_card" THEN {Parent(j.at)} ELSE {})

TellInv == SoloInv /\ (Calm => \A j \in {job[Me]} : Telling(j))
-----------------------------------------------------------------------------
\* Messages are only added.
LEMMA TellsMore ==
  ASSUME SoloBase, NEW x, NEW s
  PROVE  /\ Store(Me, x, s) => updates[Me] \subseteq updates'[Me] /\ Told(x, s)'
         /\ \A ok : StoreIf(ok, Me, x, s) => updates[Me] \subseteq updates'[Me]
<1>1. Me \in Client /\ updates \in [Client -> SUBSET Message] BY OnlyMe, SoloFacts DEF TypeInv, UpdatesTyped
<1>2. ASSUME Store(Me, x, s) PROVE updates[Me] \subseteq updates'[Me] /\ Told(x, s)'
  <2>1. PICK m : m = [topic |-> x, status |-> s] OBVIOUS
  <2>2. updates'[Me] = updates[Me] \cup {m} BY <1>1, <1>2, <2>1 DEF Store
  <2> QED BY <2>1, <2>2 DEF Told
<1> QED BY <1>2 DEF StoreIf

LEMMA CommandTells ==
  ASSUME SoloBase, NEW r \in Reply, Command(Me, r)
  PROVE  \A x, s : Told(x, s) => Told(x, s)'
<1> SUFFICES updates[Me] \subseteq updates'[Me] BY DEF Told
<1>1. \A x, s : /\ Store(Me, x, s) => updates[Me] \subseteq updates'[Me]
                /\ \A ok : StoreIf(ok, Me, x, s) => updates[Me] \subseteq updates'[Me]
  BY TellsMore
<1>2. CASE Writing(Me, r)
  BY <1>1, <1>2 DEF Writing, UpdKeys, UpdHexists, ValHset, AddHset, ClimbSadd, ClimbKeys, AddProbe,
                    AddWrite, HashValue, Climb
<1>3. CASE Removing(Me, r)
  <2>1. CASE RmKid(Me, r) BY <1>1, <2>1 DEF RmKid
  <2>2. CASE RmCard(Me, r) BY <1>1, <2>2 DEF RmCard, RemoveParent
  <2>3. CASE DelKeys(Me, r)
    <3>1. UNCHANGED updates \/ \E x, s : Store(Me, x, s) BY <2>3 DEF DelKeys
    <3> QED BY <1>1, <3>1
  <2>4. CASE DelHdel(Me, r) \/ RmSrem(Me, r) \/ RmDel(Me, r) BY <1>1, <2>4 DEF DelHdel, RmSrem, RmDel
  <2>5. CASE \/ DelIsHash(Me, r) \/ DelHexists(Me, r)
             \/ RmType(Me, r) \/ RmScard(Me, r) \/ RmKids(Me, r)
    <3>1. DelIsHash(Me, r) \/ DelHexists(Me, r) => UNCHANGED updates BY DEF DelIsHash, DelHexists
    <3>2. RmType(Me, r) => UNCHANGED updates BY DEF RmType
    <3>3. RmScard(Me, r) => UNCHANGED updates BY DEF RmScard
    <3>4. RmKids(Me, r) => UNCHANGED updates BY DEF RmKids
    <3> QED BY <2>5, <3>1, <3>2, <3>3, <3>4
  <2> QED BY <1>3, <2>1, <2>2, <2>3, <2>4, <2>5 DEF Removing
<1> QED BY <1>2, <1>3 DEF Command

\* Where the store is what the call found there is nothing to tell.
LEMMA NothingToTell ==
  ASSUME set' = before'.set PROVE GrownTold'
BY DEF GrownTold

\* A command that changes nothing leaves told what was told.
LEMMA ReadTells ==
  ASSUME SoloBase, NEW r \in Reply, Command(Me, r), UNCHANGED <<set, hash, before>>, NEW E
  PROVE  (GrownTold => GrownTold') /\ (GoneTold(E) => GoneTold(E)')
<1>1. \A x, s : Told(x, s) => Told(x, s)' BY CommandTells
<1>2. \A a \in Key : Stored(a)' <=> Stored(a) BY DEF Stored, IsSetKey, IsHashKey
<1>3. \A a \in Key : WasStored(a)' <=> WasStored(a) BY DEF WasStored
<1> QED BY <1>1, <1>2, <1>3 DEF GrownTold, GoneTold
-----------------------------------------------------------------------------
LEMMA UpdKeysTells ==
  ASSUME SoloInv, NEW r \in Reply, UpdKeys(Me, r), UNCHANGED before, Calm',
         NEW j, j = job[Me], NEW k, k = job'[Me], Telling(j)
  PROVE  Telling(k)'
<1>1. Command(Me, r) /\ j.pc \notin {"rm_srem", "rm_card"} BY DEF Command, Writing, UpdKeys, At
<1>2. /\ r.ok /\ r.done /\ CallStands(j) /\ j \in Job /\ StoreConforms /\ before.call = j.op
      /\ \A s : Go(Me, s) => k = s
  BY <1>1, Answered
<1>3. j.pc = "upd_keys" /\ Changing(j) BY <1>2 DEF UpdKeys, At, CallStands, UpdatePC
<1>4. set' = before'.set /\ hash' = before'.hash
  BY <1>2, <1>3 DEF UpdKeys, Served, Executed, Keep, Telling, UpdatePC, Changing
<1>5. CASE Stored(j.key)
  <2>1. IsRoot(j.key) BY <1>2, <1>3, <1>5, FieldFacts DEF Changing
  <2>2. k = Return(j, FALSE) BY <1>2, <1>5, <2>1 DEF UpdKeys, HashValue
  <2>3. k.pc = "idle" /\ ~k.ok BY <2>2 DEF Return, Idle
  <2>4. before'.call = "update" BY <1>2, <1>3 DEF Changing
  <2>5. Notified(k)' BY <1>4, <2>3, <2>4, NothingToTell DEF Notified
  <2> QED BY <2>3, <2>5 DEF Telling, UpdatePC, DeletePC, ClimbPC, RemovePC
<1>6. CASE ~Stored(j.key)
  <2>1. k = [j EXCEPT !.pc = "upd_hexists"] BY <1>2, <1>6 DEF UpdKeys
  <2>2. k.pc = "upd_hexists" BY <1>2, <2>1 DEF Job
  <2> QED BY <1>4, <2>2 DEF Telling, DeletePC, ClimbPC, RemovePC
<1> QED BY <1>5, <1>6

LEMMA UpdHexistsTells ==
  ASSUME SoloInv, NEW r \in Reply, UpdHexists(Me, r), UNCHANGED before, Calm',
         NEW j, j = job[Me], NEW k, k = job'[Me], Telling(j)
  PROVE  Telling(k)'
<1>1. Command(Me, r) /\ j.pc \notin {"rm_srem", "rm_card"} BY DEF Command, Writing, UpdHexists, At
<1>2. /\ r.ok /\ r.done /\ CallStands(j) /\ j \in Job /\ before.call = j.op /\ SoloBase
      /\ \A s : Go(Me, s) => k = s
  BY <1>1, Answered DEF SoloInv
<1>3. j.pc = "upd_hexists" /\ Changing(j) BY <1>2 DEF UpdHexists, At, CallStands, UpdatePC
<1>4. set' = before'.set /\ hash' = before'.hash
  BY <1>2, <1>3 DEF UpdHexists, Served, Executed, Keep, Telling, UpdatePC, Changing
<1>5. \/ k = Return(j, FALSE)
      \/ k = [j EXCEPT !.pc = "val_hset"] /\ Store(Me, j.key, "u")
      \/ k = [j EXCEPT !.pc = "add_hset"] /\ Store(Me, j.key, "a")
  BY <1>2 DEF UpdHexists, HashValue
<1>6. CASE k = Return(j, FALSE)
  <2>1. k.pc = "idle" /\ ~k.ok BY <1>6 DEF Return, Idle
  <2>2. before'.call = "update" BY <1>2, <1>3 DEF Changing
  <2>3. Notified(k)' BY <1>4, <2>1, <2>2, NothingToTell DEF Notified
  <2> QED BY <2>1, <2>3 DEF Telling, UpdatePC, DeletePC, ClimbPC, RemovePC
<1>7. CASE k = [j EXCEPT !.pc = "val_hset"] /\ Store(Me, j.key, "u")
  <2>1. k.pc = "val_hset" /\ k.key = j.key BY <1>2, <1>7 DEF Job
  <2>2. Told(k.key, "u")' BY <1>2, <1>7, <2>1, TellsMore
  <2> QED BY <1>4, <2>1, <2>2 DEF Telling, DeletePC, ClimbPC, RemovePC
<1>8. CASE k = [j EXCEPT !.pc = "add_hset"] /\ Store(Me, j.key, "a")
  <2>1. k.pc = "add_hset" /\ k.key = j.key BY <1>2, <1>8 DEF Job
  <2>2. Told(k.key, "a")' BY <1>2, <1>8, <2>1, TellsMore
  <2> QED BY <1>4, <2>1, <2>2 DEF Telling, DeletePC, ClimbPC, RemovePC
<1> QED BY <1>5, <1>6, <1>7, <1>8

LEMMA ValHsetTells ==
  ASSUME SoloInv, NEW r \in Reply, ValHset(Me, r), UNCHANGED before, Calm',
         NEW j, j = job[Me], NEW k, k = job'[Me], Telling(j)
  PROVE  Telling(k)'
<1>1. Command(Me, r) /\ j.pc \notin {"rm_srem", "rm_card"} BY DEF Command, Writing, ValHset, At
<1>2. /\ r.ok /\ r.done /\ CallStands(j) /\ before.call = j.op /\ SoloBase
      /\ \A s : Go(Me, s) => k = s
  BY <1>1, Answered DEF SoloInv
<1>3. j.pc = "val_hset" /\ Changing(j) BY <1>2 DEF ValHset, At, CallStands, UpdatePC
<1>4. set' = before'.set BY <1>2, <1>3 DEF ValHset, Served, Executed, Hput, Telling, UpdatePC
<1>5. k = Return(j, r.ok) BY <1>2 DEF ValHset
<1>6. k.pc = "idle" /\ Same(j, k) BY <1>5, Returns
<1>7. Told(k.key, "u")' BY <1>1, <1>2, <1>3, <1>6, CommandTells DEF Telling, Same
<1>8. Was(k.key)' # Absent BY <1>3, <1>6 DEF Changing, Was, Same
<1>9. before'.call = "update" BY <1>2, <1>3 DEF Changing
<1>10. Notified(k)' BY <1>4, <1>7, <1>8, <1>9, NothingToTell DEF Notified
<1> QED BY <1>6, <1>10 DEF Telling, UpdatePC, DeletePC, ClimbPC, RemovePC

\* The climb goes on at s.at, with the parent told, or returns.
LEMMA ClimbTells ==
  ASSUME SoloBase, NEW s \in Job, Climb(Me, s), NEW k, k = job'[Me], \A t : Go(Me, t) => k = t,
         UNCHANGED before, before.call = "update",
         Told(s.key, "a")', Was(s.key) = Absent, GrownTold'
  PROVE  Telling(k)'
<1>1. CASE IsRoot(s.at)
  <2>1. k = Return(s, s.ok) BY <1>1 DEF Climb
  <2>2. k.pc = "idle" /\ Same(s, k) BY <2>1, Returns
  <2>3. Told(k.key, "a")' /\ Was(k.key)' = Absent BY <2>2 DEF Same, Was
  <2>4. Notified(k)' BY <2>3 DEF Notified
  <2> QED BY <2>2, <2>4 DEF Telling, UpdatePC, DeletePC, ClimbPC, RemovePC
<1>2. CASE ~IsRoot(s.at)
  <2>1. k = [s EXCEPT !.pc = "climb_sadd"] /\ Store(Me, Parent(s.at), "u") BY <1>2 DEF Climb
  <2>2. k.pc = "climb_sadd" /\ k.key = s.key /\ k.at = s.at BY <2>1 DEF Job
  <2>3. Told(Parent(k.at), "u")' BY <2>1, <2>2, TellsMore
  <2>4. Told(k.key, "a")' /\ Was(k.key)' = Absent BY <2>2 DEF Was
  <2> QED BY <2>2, <2>3, <2>4 DEF Telling, UpdatePC, DeletePC, RemovePC
<1> QED BY <1>1, <1>2

LEMMA AddHsetTells ==
  ASSUME SoloInv, NEW r \in Reply, AddHset(Me, r), UNCHANGED before, Calm',
         NEW j, j = job[Me], NEW k, k = job'[Me], Telling(j)
  PROVE  Telling(k)'
<1>1. Command(Me, r) /\ j.pc \notin {"rm_srem", "rm_card"} BY DEF Command, Writing, AddHset, At
<1>2. /\ r.ok /\ r.done /\ CallStands(j) /\ before.call = j.op /\ SoloBase /\ j \in Job
      /\ HasArguments(j) /\ \A s : Go(Me, s) => k = s
  BY <1>1, Answered DEF SoloInv
<1>3. j.pc = "add_hset" /\ Changing(j) BY <1>2 DEF AddHset, At, CallStands, UpdatePC
<1>4. PICK s : s = [j EXCEPT !.at = Parent(j.key), !.ok = r.ok] OBVIOUS
<1>5. s \in Job /\ s.key = j.key
  <2>1. Parent(j.key) \in Key BY <1>2, <1>3, KeyParts DEF HasArguments, UpdatePC
  <2> QED BY <1>2, <1>4, <2>1 DEF Job, Reply
<1>6. Climb(Me, s) BY <1>4 DEF AddHset
<1>7. set' = before'.set BY <1>2, <1>3 DEF AddHset, Served, Executed, Hput, Telling, UpdatePC
<1>8. Told(s.key, "a")' BY <1>1, <1>2, <1>3, <1>5, CommandTells DEF Telling
<1>9. Was(s.key) = Absent /\ before.call = "update" BY <1>2, <1>3, <1>5 DEF Changing
<1> QED BY <1>2, <1>5, <1>6, <1>7, <1>8, <1>9, NothingToTell, ClimbTells

LEMMA ClimbSaddTells ==
  ASSUME SoloInv, NEW r \in Reply, ClimbSadd(Me, r), UNCHANGED before, Calm',
         NEW j, j = job[Me], NEW k, k = job'[Me], Telling(j)
  PROVE  Telling(k)'
<1> DEFINE p == Parent(j.at)
<1>1. Command(Me, r) /\ j.pc \notin {"rm_srem", "rm_card"} BY DEF Command, Writing, ClimbSadd, At
<1>2. /\ r.ok /\ r.done /\ SoloBase /\ j \in Job /\ HasArguments(j) /\ StoreTyped
      /\ \A s : Go(Me, s) => k = s
  BY <1>1, Answered DEF SoloInv
<1>3. j.pc = "climb_sadd" BY DEF ClimbSadd, At
<1>4. k = [j EXCEPT !.pc = "climb_keys", !.ok = @ /\ r.ok] BY <1>2 DEF ClimbSadd
<1>5. k.pc = "climb_keys" /\ k.key = j.key BY <1>2, <1>4 DEF Job
<1>6. \A x, s : Told(x, s) => Told(x, s)' BY <1>1, <1>2, CommandTells
<1>7. Told(j.key, "a") /\ Was(j.key) = Absent /\ GrownTold /\ Told(p, "u")
  BY <1>3 DEF Telling, ClimbPC
<1>8. p \in Key BY <1>2, <1>3, KeyParts DEF HasArguments, ClimbPC
<1>9. set' = [set EXCEPT ![p] = @ \cup {Base(j.at)}] /\ UNCHANGED hash
  BY <1>2 DEF ClimbSadd, Served, Executed, Sadd
<1>10. \A a \in Key : a # p => set'[a] = set[a] BY <1>2, <1>8, <1>9 DEF StoreTyped
<1>11. GrownTold'
  <2>1. ASSUME NEW a \in Key, Stored(a)', set'[a] # before'.set[a] PROVE Told(a, "u")'
    <3>1. a # p => Stored(a) /\ set[a] # before.set[a] BY <1>9, <1>10, <2>1 DEF Stored, IsSetKey, IsHashKey
    <3> QED BY <1>6, <1>7, <3>1 DEF GrownTold
  <2> QED BY <2>1 DEF GrownTold
<1>12. Told(k.key, "a")' /\ Was(k.key)' = Absent BY <1>5, <1>6, <1>7 DEF Was
<1> QED BY <1>5, <1>11, <1>12 DEF Telling, UpdatePC, DeletePC, RemovePC

LEMMA ClimbKeysTells ==
  ASSUME SoloInv, NEW r \in Reply, ClimbKeys(Me, r), UNCHANGED before, Calm',
         NEW j, j = job[Me], NEW k, k = job'[Me], Telling(j)
  PROVE  Telling(k)'
<1>1. Command(Me, r) /\ j.pc \notin {"rm_srem", "rm_card"} BY DEF Command, Writing, ClimbKeys, At
<1>2. /\ r.ok /\ r.done /\ SoloBase /\ j \in Job /\ HasArguments(j) /\ CallStands(j)
      /\ before.call = j.op /\ \A s : Go(Me, s) => k = s
  BY <1>1, Answered DEF SoloInv
<1>3. j.pc = "climb_keys" BY DEF ClimbKeys, At
<1>4. Told(j.key, "a")' /\ Was(j.key) = Absent /\ GrownTold
  BY <1>1, <1>2, <1>3, CommandTells DEF Telling, ClimbPC
<1>5. UNCHANGED <<set, hash>> BY <1>2 DEF ClimbKeys, Served, Executed, Keep
<1>6. GrownTold' BY <1>1, <1>2, <1>4, <1>5, ReadTells
<1>7. before.call = "update" BY <1>2, <1>3 DEF CallStands, ClimbPC, Climbing
<1>8. CASE k = Return(j, j.ok)
  <2>1. k.pc = "idle" /\ Same(j, k) BY <1>8, Returns
  <2>2. Told(k.key, "a")' /\ Was(k.key)' = Absent BY <1>4, <2>1 DEF Same, Was
  <2>3. Notified(k)' BY <1>6, <1>7, <2>2 DEF Notified
  <2> QED BY <2>1, <2>3 DEF Telling, UpdatePC, DeletePC, ClimbPC, RemovePC
<1>9. CASE Climb(Me, [j EXCEPT !.at = Parent(j.at)])
  <2>1. PICK s : s = [j EXCEPT !.at = Parent(j.at)] OBVIOUS
  <2>2. Parent(j.at) \in Key BY <1>2, <1>3, KeyParts DEF HasArguments, ClimbPC
  <2>3. s \in Job /\ s.key = j.key BY <1>2, <2>1, <2>2 DEF Job
  <2>4. Climb(Me, s) BY <1>9, <2>1
  <2> QED BY <1>2, <1>4, <1>6, <1>7, <2>3, <2>4, ClimbTells
<1> QED BY <1>2, <1>8, <1>9 DEF ClimbKeys

-----------------------------------------------------------------------------
\* What DEL of a key changes: told that it is gone, the rest stays told.
LEMMA GoneTells ==
  ASSUME SoloBase, NEW r \in Reply, Command(Me, r), UNCHANGED before, NEW x \in Key,
         \A y \in Key : y # x => set'[y] = set[y] /\ hash'[y] = hash[y],
         ~Stored(x)', Told(x, "d")', GrownTold, GoneTold({})
  PROVE  GrownTold' /\ GoneTold({})'
<1>1. \A y, s : Told(y, s) => Told(y, s)' BY CommandTells
<1>2. \A y \in Key : y # x => (Stored(y)' <=> Stored(y)) BY DEF Stored, IsSetKey, IsHashKey
<1>3. GrownTold'
  <2>1. ASSUME NEW a \in Key, Stored(a)', set'[a] # before'.set[a] PROVE Told(a, "u")'
    <3>1. Stored(a) /\ set[a] # before.set[a] BY <1>2, <2>1
    <3> QED BY <1>1, <3>1 DEF GrownTold
  <2> QED BY <2>1 DEF GrownTold
<1>4. GoneTold({})'
  <2>1. ASSUME NEW a \in Key, WasStored(a)', ~Stored(a)' PROVE Told(a, "d")'
    <3>1. CASE a = x BY <3>1
    <3>2. CASE a # x
      <4>1. WasStored(a) /\ ~Stored(a) BY <1>2, <2>1, <3>2 DEF WasStored
      <4> QED BY <1>1, <4>1 DEF GoneTold
    <3> QED BY <3>1, <3>2
  <2> QED BY <2>1 DEF GoneTold
<1> QED BY <1>3, <1>4

LEMMA DelKeysTells ==
  ASSUME SoloInv, NEW r \in Reply, DelKeys(Me, r), UNCHANGED before, Calm',
         NEW j, j = job[Me], NEW k, k = job'[Me], Telling(j)
  PROVE  Telling(k)'
<1>1. Command(Me, r) /\ j.pc \notin {"rm_srem", "rm_card"} BY DEF Command, Removing, DelKeys, At
<1>2. /\ r.ok /\ r.done /\ CallStands(j) /\ j \in Job /\ \A s : Go(Me, s) => k = s
  BY <1>1, Answered
<1>3. j.pc = "del_keys" /\ Deleting(j) BY <1>2 DEF DelKeys, At, CallStands, DeletePC
<1>4. set' = before'.set /\ hash' = before'.hash
  BY <1>2, <1>3 DEF DelKeys, Served, Executed, Keep, Telling, DeletePC, Deleting
<1>5. k.pc = "rm_type" \/ k.pc = "del_ishash" BY <1>2 DEF DelKeys, Job
<1>6. GoneTold({})' BY <1>4 DEF GoneTold, WasStored, Stored, IsSetKey, IsHashKey
<1> QED BY <1>4, <1>5, <1>6, NothingToTell DEF Telling, UpdatePC, ClimbPC

LEMMA DelFieldTells ==
  ASSUME SoloInv, NEW r \in Reply, DelIsHash(Me, r) \/ DelHexists(Me, r) \/ DelHdel(Me, r),
         UNCHANGED before, Calm', NEW j, j = job[Me], NEW k, k = job'[Me], Telling(j)
  PROVE  Telling(k)'
<1>1. Command(Me, r) /\ j.pc \notin {"rm_srem", "rm_card"}
  BY DEF Command, Removing, DelIsHash, DelHexists, DelHdel, At
<1>2. /\ r.ok /\ r.done /\ CallStands(j) /\ j \in Job /\ before.call = j.op
      /\ \A s : Go(Me, s) => k = s
  BY <1>1, Answered
<1>3. j.pc \in DeletePC /\ j.pc # "del_keys" BY DEF DelIsHash, DelHexists, DelHdel, At, DeletePC
<1>4. Deleting(j) /\ ~before.found BY <1>2, <1>3 DEF CallStands, Deleting
<1>5. CASE \E ok : k = Return(j, ok)
  <2>1. PICK ok : k = Return(j, ok) BY <1>5
  <2>2. k.pc = "idle" BY <2>1 DEF Return, Idle
  <2>3. before'.call = "delete" /\ ~before'.found BY <1>2, <1>4 DEF Deleting
  <2>4. Notified(k)' BY <2>3 DEF Notified
  <2> QED BY <2>2, <2>4 DEF Telling, UpdatePC, DeletePC, ClimbPC, RemovePC
<1>6. CASE /\ DelIsHash(Me, r) \/ DelHexists(Me, r)
           /\ k = [j EXCEPT !.pc = "del_hexists"] \/ k = [j EXCEPT !.pc = "del_hdel"]
  <2>1. k.pc \in {"del_hexists", "del_hdel"} BY <1>2, <1>6 DEF Job
  <2>2. UNCHANGED set BY <1>6 DEF DelIsHash, DelHexists, Served, Executed, Keep
  <2>3. set' = before'.set BY <1>3, <2>2 DEF Telling
  <2> QED BY <2>1, <2>3 DEF Telling, ClimbPC, RemovePC
<1>7. \/ \E ok : k = Return(j, ok)
      \/ /\ DelIsHash(Me, r) \/ DelHexists(Me, r)
         /\ k = [j EXCEPT !.pc = "del_hexists"] \/ k = [j EXCEPT !.pc = "del_hdel"]
  <2>1. CASE DelIsHash(Me, r)
    BY <1>2, <2>1 DEF DelIsHash
  <2>2. CASE DelHexists(Me, r)
    BY <1>2, <2>2 DEF DelHexists
  <2>3. CASE DelHdel(Me, r)
    BY <1>2, <2>3 DEF DelHdel
  <2> QED BY <2>1, <2>2, <2>3
<1> QED BY <1>5, <1>6, <1>7

\* RemoveKey asks for the kind, the size and the children.
LEMMA RmReadTells ==
  ASSUME SoloInv, NEW r \in Reply, RmType(Me, r) \/ RmScard(Me, r) \/ RmKids(Me, r),
         UNCHANGED before, Calm', NEW j, j = job[Me], NEW k, k = job'[Me], Telling(j)
  PROVE  Telling(k)'
<1>1. Command(Me, r) /\ j.pc \notin {"rm_srem", "rm_card"}
  BY DEF Command, Removing, RmType, RmScard, RmKids, At
<1>2. j \in Job /\ SoloBase /\ \A s : Go(Me, s) => k = s BY <1>1, Answered DEF SoloInv
<1>3. j.pc \in RemovePC /\ j.pc # "rm_card" BY DEF RmType, RmScard, RmKids, At, RemovePC
<1>4. UNCHANGED <<set, hash>> BY DEF RmType, RmScard, RmKids, Served, Executed, Keep
<1>5. GrownTold /\ GoneTold({}) BY <1>3 DEF Telling
<1>6. GrownTold' /\ GoneTold({})' BY <1>1, <1>2, <1>4, <1>5, ReadTells
<1>7. k.pc \in {"rm_scard", "rm_srem", "rm_kids", "rm_kid"}
  <2>1. RmType(Me, r) => k.pc \in {"rm_scard", "rm_srem"} BY <1>2 DEF RmType, Job
  <2>2. RmScard(Me, r) => k.pc = "rm_kids" BY <1>2 DEF RmScard, Job
  <2>3. ASSUME RmKids(Me, r) PROVE k.pc \in {"rm_srem", "rm_kid"}
    <3>1. PICK kids : kids = IF r.ok THEN {x \in Below(j.at) : Stored(x)} ELSE {} OBVIOUS
    <3>2. PICK some : some = (j.ok /\ kids # {}) OBVIOUS
    <3>3. k = [j EXCEPT !.pc = IF kids = {} THEN "rm_srem" ELSE "rm_kid", !.kids = kids, !.ok = some]
      BY <1>2, <2>3, <3>1, <3>2 DEF RmKids
    <3> QED BY <1>2, <3>3 DEF Job
  <2> QED BY <2>1, <2>2, <2>3
<1> QED BY <1>6, <1>7 DEF Telling, UpdatePC, DeletePC, ClimbPC

LEMMA RmKidTells ==
  ASSUME SoloInv, NEW r \in Reply, RmKid(Me, r), UNCHANGED before, Calm',
         NEW j, j = job[Me], NEW k, k = job'[Me], Telling(j)
  PROVE  Telling(k)'
<1>1. Command(Me, r) /\ j.pc \notin {"rm_srem", "rm_card"} BY DEF Command, Removing, RmKid, At
<1>2. /\ r.ok /\ r.done /\ j \in Job /\ SoloBase /\ StoreTyped /\ \A s : Go(Me, s) => k = s
  BY <1>1, Answered DEF SoloInv
<1>3. j.pc = "rm_kid" BY DEF RmKid, At
<1>4. PICK kid \in j.kids : /\ Served(r, TRUE, Del(kid))
                            /\ StoreIf(r.ok, Me, kid, "d")
                            /\ Go(Me, [j EXCEPT !.pc = IF j.kids = {kid} THEN "rm_srem" ELSE "rm_kid",
                                                !.kids = @ \ {kid}])
  BY DEF RmKid
<1>5. kid \in Key BY <1>2 DEF Job
<1>6. set' = [set EXCEPT ![kid] = {}] /\ hash' = [hash EXCEPT ![kid] = EmptyHash]
  BY <1>2, <1>4 DEF Served, Executed, Del
<1>7. \A y \in Key : y # kid => set'[y] = set[y] /\ hash'[y] = hash[y]
  BY <1>2, <1>5, <1>6 DEF StoreTyped
<1>8. ~Stored(kid)' BY <1>2, <1>5, <1>6 DEF StoreTyped, Stored, IsSetKey, IsHashKey, EmptyHash
<1>9. Told(kid, "d")' BY <1>2, <1>4, TellsMore DEF StoreIf
<1>10. GrownTold /\ GoneTold({}) BY <1>3 DEF Telling, RemovePC
<1>11. GrownTold' /\ GoneTold({})' BY <1>1, <1>2, <1>5, <1>7, <1>8, <1>9, <1>10, GoneTells
<1>12. k.pc \in {"rm_srem", "rm_kid"} BY <1>2, <1>4 DEF Job
<1> QED BY <1>11, <1>12 DEF Telling, UpdatePC, DeletePC, ClimbPC

LEMMA RmSremTells ==
  ASSUME SoloInv, NEW r \in Reply, RmSrem(Me, r), UNCHANGED before, Calm',
         NEW j, j = job[Me], NEW k, k = job'[Me], Telling(j)
  PROVE  Telling(k)'
<1> DEFINE p == Parent(j.at)
<1>1. Command(Me, r) /\ SoloBase BY DEF Command, Removing, SoloInv
<1>2. /\ j \in Job /\ CallConforms(j) /\ StoreTyped /\ Removal(j)
      /\ r.done => r.ok
      /\ \A s : Go(Me, s) => k = s
  BY ParentCommands
<1>3. j.pc = "rm_srem" BY DEF RmSrem, At
<1>4. j.at \in Key /\ p \in Key BY <1>2, <1>3, RemovalFacts, KeyParts DEF RemovePC
<1>5. k = [j EXCEPT !.pc = "rm_card", !.ok = @ /\ r.ok] BY <1>2 DEF RmSrem
<1>6. k.pc = "rm_card" /\ k.at = j.at BY <1>2, <1>5 DEF Job
<1>7. /\ UNCHANGED hash
      /\ r.done => set' = [set EXCEPT ![p] = @ \ {Base(j.at)}]
      /\ ~r.done => UNCHANGED set
  BY DEF RmSrem, Served, Executed, Srem, Keep
<1>8. GrownTold /\ GoneTold({}) BY <1>3 DEF Telling, RemovePC
<1>9. \A y, s : Told(y, s) => Told(y, s)' BY <1>1, CommandTells
<1>10. r.done => Told(p, "u")' BY <1>1, <1>2, TellsMore DEF RmSrem, StoreIf
<1>11. \A y \in Key : y # p => set'[y] = set[y] BY <1>2, <1>4, <1>7 DEF StoreTyped
<1>12. GrownTold'
  <2>1. ASSUME NEW a \in Key, Stored(a)', set'[a] # before'.set[a] PROVE Told(a, "u")'
    <3>1. CASE a = p /\ r.done BY <1>10, <3>1
    <3>2. CASE a # p \/ ~r.done
      <4>1. Stored(a) /\ set[a] # before.set[a]
        BY <1>7, <1>11, <2>1, <3>2 DEF Stored, IsSetKey, IsHashKey
      <4> QED BY <1>8, <1>9, <4>1 DEF GrownTold
    <3> QED BY <3>1, <3>2
  <2> QED BY <2>1 DEF GrownTold
<1>13. GoneTold({Parent(k.at)})'
  <2>1. ASSUME NEW a \in Key, a # p, WasStored(a)', ~Stored(a)' PROVE Told(a, "d")'
    <3>1. WasStored(a) /\ ~Stored(a)
      BY <1>7, <1>11, <2>1 DEF WasStored, Stored, IsSetKey, IsHashKey
    <3> QED BY <1>8, <1>9, <3>1 DEF GoneTold
  <2> QED BY <1>6, <2>1 DEF GoneTold
<1> QED BY <1>6, <1>12, <1>13 DEF Telling, UpdatePC, DeletePC, ClimbPC

LEMMA RmCardTells ==
  ASSUME SoloInv, NEW r \in Reply, RmCard(Me, r), UNCHANGED before, Calm',
         NEW j, j = job[Me], NEW k, k = job'[Me], Telling(j)
  PROVE  Telling(k)'
<1> DEFINE p == Parent(j.at)
<1>1. Command(Me, r) /\ SoloBase BY DEF Command, Removing, SoloInv
<1>2. /\ j \in Job /\ CallConforms(j) /\ StoreTyped /\ Removal(j)
      /\ \A s : Go(Me, s) => k = s
  BY ParentCommands
<1>3. /\ Refused(j.key) => j.at = j.key /\ p = j.at
      /\ ~Refused(j.key) => r.ok
  BY ParentCommands
<1>4. j.pc = "rm_card" BY DEF RmCard, At
<1>5. j.at \in Key /\ p \in Key /\ j.key \in Key BY <1>2, <1>4, RemovalFacts, KeyParts DEF RemovePC
<1>6. UNCHANGED <<set, hash>> BY DEF RmCard, Served, Executed, Keep
<1>7. GrownTold /\ GoneTold({p}) BY <1>4 DEF Telling, RemovePC
<1>8. GrownTold' /\ GoneTold({p})' BY <1>1, <1>6, <1>7, ReadTells
<1>9. PICK empty \in Read(r, ~IsSetKey(p)) :
        IF empty THEN RemoveParent(Me, j, p) ELSE Go(Me, [j EXCEPT !.pc = "rm_del"])
  BY DEF RmCard
<1>10. CASE empty
  <2>1. \/ k = [Idle EXCEPT !.pc = "crashed"]
        \/ /\ k = [j EXCEPT !.pc = "rm_type", !.at = p,
                             !.stack = Append(@, [key |-> j.at, ok |-> j.ok])]
           /\ Store(Me, p, "d")
    BY <1>2, <1>9, <1>10 DEF RemoveParent
  <2>2. CASE k = [Idle EXCEPT !.pc = "crashed"]
    <3>1. k.pc = "crashed" BY <2>2 DEF Idle
    <3> QED BY <3>1 DEF Telling, UpdatePC, DeletePC, ClimbPC, RemovePC
  <2>3. CASE /\ k = [j EXCEPT !.pc = "rm_type", !.at = p,
                              !.stack = Append(@, [key |-> j.at, ok |-> j.ok])]
             /\ Store(Me, p, "d")
    <3>1. k.pc = "rm_type" BY <1>2, <2>3 DEF Job
    <3>2. Told(p, "d")' BY <1>1, <2>3, TellsMore
    <3>3. GoneTold({})'
      <4>1. ASSUME NEW a \in Key, WasStored(a)', ~Stored(a)' PROVE Told(a, "d")'
        BY <1>8, <3>2, <4>1 DEF GoneTold
      <4> QED BY <4>1 DEF GoneTold
    <3> QED BY <1>8, <3>1, <3>3 DEF Telling, UpdatePC, DeletePC, ClimbPC
  <2> QED BY <2>1, <2>2, <2>3
<1>11. CASE ~empty
  <2>1. k = [j EXCEPT !.pc = "rm_del"] BY <1>2, <1>9, <1>11
  <2>2. k.pc = "rm_del" BY <1>2, <2>1 DEF Job
  <2>3. Stored(p)
    <3>1. CASE Refused(j.key)
      <4>1. IsHashKey(j.key) BY <1>2, <1>4, <3>1 DEF Removal
      <4> QED BY <1>3, <3>1, <4>1 DEF Stored
    <3>2. CASE ~Refused(j.key)
      <4>1. empty = ~IsSetKey(p) BY <1>3, <1>9, <3>2 DEF Read
      <4> QED BY <1>11, <4>1 DEF Stored
    <3> QED BY <3>1, <3>2
  <2>4. Stored(p)' BY <1>6, <2>3 DEF Stored, IsSetKey, IsHashKey
  <2>5. GoneTold({})' BY <1>8, <2>4 DEF GoneTold
  <2> QED BY <1>8, <2>2, <2>5 DEF Telling, UpdatePC, DeletePC, ClimbPC
<1> QED BY <1>10, <1>11

LEMMA RmDelTells ==
  ASSUME SoloInv, NEW r \in Reply, RmDel(Me, r), UNCHANGED before, Calm',
         NEW j, j = job[Me], NEW k, k = job'[Me], Telling(j)
  PROVE  Telling(k)'
<1>1. Command(Me, r) /\ j.pc \notin {"rm_srem", "rm_card"} BY DEF Command, Removing, RmDel, At
<1>2. /\ r.ok /\ r.done /\ j \in Job /\ SoloBase /\ StoreTyped /\ CallConforms(j)
      /\ CallStands(j) /\ before.call = j.op /\ \A s : Go(Me, s) => k = s
  BY <1>1, Answered DEF SoloInv
<1>3. j.pc = "rm_del" /\ Removal(j) BY <1>2 DEF RmDel, At, CallStands, RemovePC
<1>4. j.at \in Key BY <1>2, <1>3, RemovalFacts DEF RemovePC
<1>5. set' = [set EXCEPT ![j.at] = {}] /\ hash' = [hash EXCEPT ![j.at] = EmptyHash]
  BY <1>2 DEF RmDel, Served, Executed, Del
<1>6. \A y \in Key : y # j.at => set'[y] = set[y] /\ hash'[y] = hash[y]
  BY <1>2, <1>4, <1>5 DEF StoreTyped
<1>7. ~Stored(j.at)' BY <1>2, <1>4, <1>5 DEF StoreTyped, Stored, IsSetKey, IsHashKey, EmptyHash
<1>8. Told(j.at, "d")' BY <1>2, TellsMore DEF RmDel, StoreIf
<1>9. GrownTold /\ GoneTold({}) BY <1>3 DEF Telling, RemovePC
<1>10. GrownTold' /\ GoneTold({})' BY <1>1, <1>2, <1>4, <1>6, <1>7, <1>8, <1>9, GoneTells
<1>11. CASE j.stack = <<>>
  <2>1. k = Return(j, j.ok /\ r.ok) BY <1>2, <1>11 DEF RmDel
  <2>2. k.pc = "idle" BY <2>1, Returns
  <2>3. before'.call = "delete" BY <1>2, <1>3 DEF Removal
  <2>4. Notified(k)' BY <1>10, <2>3 DEF Notified
  <2> QED BY <2>2, <2>4 DEF Telling, UpdatePC, DeletePC, ClimbPC, RemovePC
<1>12. CASE j.stack # <<>>
  <2>1. k = [j EXCEPT !.at = Last(j.stack).key, !.stack = Front(@), !.ok = Last(j.stack).ok /\ @ /\ r.ok]
    BY <1>2, <1>12 DEF RmDel
  <2>2. k.pc = "rm_del" BY <1>2, <1>3, <2>1 DEF Job
  <2> QED BY <1>10, <2>2 DEF Telling, UpdatePC, DeletePC, ClimbPC
<1> QED BY <1>11, <1>12

LEMMA AddTells ==
  ASSUME SoloInv, NEW r \in Reply, AddProbe(Me, r) \/ AddWrite(Me, r), UNCHANGED before, Calm',
         NEW j, j = job[Me], NEW k, k = job'[Me]
  PROVE  Telling(k)'
<1>1. Command(Me, r) /\ j.pc \notin {"rm_srem", "rm_card"}
  BY DEF Command, Writing, AddProbe, AddWrite, At
<1>2. /\ CallStands(j) /\ before.call = j.op /\ j \in Job /\ HasArguments(j)
      /\ \A s : Go(Me, s) => k = s
  BY <1>1, Answered
<1>3. j.pc \in AddPC /\ Adding(j) /\ j.todo # <<>>
  BY <1>2 DEF AddProbe, AddWrite, At, CallStands, AddPC, HasArguments
<1>4. before'.call = "add" BY <1>2, <1>3 DEF Adding
<1>5. Notified(k)' BY <1>4 DEF Notified
<1>6. k = [j EXCEPT !.pc = "add_write"] \/ \E ok : k = NextItem(j, ok)
  <2>1. CASE AddProbe(Me, r) BY <1>2, <2>1 DEF AddProbe
  <2>2. CASE AddWrite(Me, r) BY <1>2, <2>2 DEF AddWrite
  <2> QED BY <2>1, <2>2
<1>7. k.pc \in {"idle", "add_probe", "add_write"}
  <2>1. CASE k = [j EXCEPT !.pc = "add_write"] BY <1>2, <2>1 DEF Job
  <2>2. CASE \E ok : k = NextItem(j, ok)
    <3>1. PICK ok : k = NextItem(j, ok) BY <2>2
    <3> QED BY <1>2, <1>3, <3>1, NextItemFacts
  <2> QED BY <1>6, <2>1, <2>2
<1> QED BY <1>5, <1>7 DEF Telling, UpdatePC, DeletePC, ClimbPC, RemovePC

LEMMA CommandTelling ==
  ASSUME SoloInv, NEW r \in Reply, Command(Me, r), UNCHANGED before, Calm',
         \A j \in {job[Me]} : Telling(j)
  PROVE  \A j \in {job'[Me]} : Telling(j)'
<1> SUFFICES ASSUME NEW k, k = job'[Me] PROVE Telling(k)' OBVIOUS
<1>1. PICK j : j = job[Me] /\ Telling(j) OBVIOUS
<1>2. CASE UpdKeys(Me, r) BY <1>1, <1>2, UpdKeysTells
<1>3. CASE UpdHexists(Me, r) BY <1>1, <1>3, UpdHexistsTells
<1>4. CASE ValHset(Me, r) BY <1>1, <1>4, ValHsetTells
<1>5. CASE AddHset(Me, r) BY <1>1, <1>5, AddHsetTells
<1>6. CASE ClimbSadd(Me, r) BY <1>1, <1>6, ClimbSaddTells
<1>7. CASE ClimbKeys(Me, r) BY <1>1, <1>7, ClimbKeysTells
<1>8. CASE AddProbe(Me, r) \/ AddWrite(Me, r) BY <1>1, <1>8, AddTells
<1>9. CASE DelKeys(Me, r) BY <1>1, <1>9, DelKeysTells
<1>10. CASE DelIsHash(Me, r) \/ DelHexists(Me, r) \/ DelHdel(Me, r) BY <1>1, <1>10, DelFieldTells
<1>11. CASE RmType(Me, r) \/ RmScard(Me, r) \/ RmKids(Me, r) BY <1>1, <1>11, RmReadTells
<1>12. CASE RmKid(Me, r) BY <1>1, <1>12, RmKidTells
<1>13. CASE RmSrem(Me, r) BY <1>1, <1>13, RmSremTells
<1>14. CASE RmCard(Me, r) BY <1>1, <1>14, RmCardTells
<1>15. CASE RmDel(Me, r) BY <1>1, <1>15, RmDelTells
<1> QED BY <1>2, <1>3, <1>4, <1>5, <1>6, <1>7, <1>8, <1>9, <1>10, <1>11, <1>12, <1>13, <1>14,
           <1>15 DEF Command, Writing, Removing

\* A call begins with nothing changed and nothing to tell.
LEMMA BeginsTelling ==
  ASSUME SoloBase, SoloNext, Update(Me) \/ Delete(Me) \/ AddConfig(Me)
  PROVE  \A j \in {job'[Me]} : Telling(j)'
<1>1. PICK s : Call(Me, s) /\ s.pc \in {"upd_keys", "del_keys", "add_probe"} BY CallStarts
<1>2. /\ job'[Me] = s /\ UNCHANGED set
      /\ before' = [call |-> s.op, set |-> set, hash |-> hash, ok |-> job[Me].ok,
                    found |-> s.key \in Key /\ Stored(s.key), doc |-> s.todo, faults |-> faults]
  BY <1>1, CallBegins
<1>3. set' = before'.set BY <1>2
<1> QED BY <1>1, <1>2, <1>3 DEF Telling, ClimbPC, RemovePC

LEMMA IdleTelling ==
  ASSUME SoloBase, SoloNext, Clear(Me) \/ FlushAll(Me)
  PROVE  \A j \in {job'[Me]} : Telling(j)'
<1> SUFFICES ASSUME NEW k, k = job'[Me] PROVE Telling(k)' OBVIOUS
<1>1. k.pc = "idle" /\ before'.call = "clear" BY ClearBase, RestBase
<1>2. Notified(k)' BY <1>1 DEF Notified
<1> QED BY <1>1, <1>2 DEF Telling, UpdatePC, DeletePC, ClimbPC, RemovePC

LEMMA TellNext == TellInv /\ [SoloNext]_<<vars, before>> => TellInv'
<1> SUFFICES ASSUME TellInv, [SoloNext]_<<vars, before>> PROVE TellInv' OBVIOUS
<1>1. SoloInv /\ SoloInv' /\ SoloBase BY SoloInvNext DEF TellInv, SoloInv
<1> SUFFICES ASSUME Calm' PROVE \A j \in {job'[Me]} : Telling(j)' BY <1>1 DEF TellInv
<1>2. CASE UNCHANGED <<vars, before>>
  <2>1. UNCHANGED <<set, hash, job, updates, faults, before>> BY <1>2 DEF vars
  <2>2. SUFFICES ASSUME NEW k, k = job'[Me] PROVE Telling(k)' OBVIOUS
  <2>3. Telling(k) BY <2>1, <2>2 DEF TellInv, Calm
  <2>4. /\ \A x, s : Told(x, s)' <=> Told(x, s)
        /\ \A x : /\ (Stored(x)' <=> Stored(x)) /\ (WasStored(x)' <=> WasStored(x))
                  /\ Was(x)' = Was(x)
    BY <2>1 DEF Told, Stored, IsSetKey, IsHashKey, WasStored, Was
  <2>5. (GrownTold => GrownTold') /\ \A e : GoneTold(e) => GoneTold(e)'
    BY <2>1, <2>4 DEF GrownTold, GoneTold
  <2>6. Notified(k) => Notified(k)' BY <2>1, <2>4, <2>5 DEF Notified
  <2> QED BY <2>1, <2>3, <2>4, <2>5, <2>6 DEF Telling
<1>3. CASE SoloNext
  <2>1. CASE Update(Me) \/ Delete(Me) \/ AddConfig(Me) BY <1>1, <1>3, <2>1, BeginsTelling
  <2>2. CASE Clear(Me) \/ FlushAll(Me) BY <1>1, <1>3, <2>2, IdleTelling
  <2>3. CASE Kill(Me) BY <1>1, <1>3, <2>3, RestBase DEF Calm
  <2>4. ASSUME NEW r \in Reply, Command(Me, r) PROVE \A j \in {job'[Me]} : Telling(j)'
    <3>1. UNCHANGED before BY <1>1, <1>3, <2>4, CommandFrame
    <3>2. Calm BY <1>1, <2>4, <3>1, CommandAnswered
    <3> QED BY <1>1, <2>4, <3>1, <3>2, CommandTelling DEF TellInv
  <2> QED BY <1>3, <2>1, <2>2, <2>3, <2>4, SoloSteps
<1> QED BY <1>2, <1>3

LEMMA InitTelling == SoloInit => TellInv
<1> SUFFICES ASSUME SoloInit PROVE TellInv OBVIOUS
<1>1. job[Me] = Idle /\ before.call = "none" BY OnlyMe DEF SoloInit, Init
<1>2. Idle.pc = "idle" BY DEF Idle
<1>3. Telling(Idle)
  BY <1>1, <1>2 DEF Telling, Notified, UpdatePC, DeletePC, ClimbPC, RemovePC
<1> QED BY <1>1, <1>3, InitSolo DEF TellInv

\* An Update, and a Delete of a stored key, that get all their answers have stored a
\* message for the subscribers of each key they changed, under that very key: the field
\* added or updated, the lists grown or shrunk, the keys gone (AddToHash,
\* UpdateHashValue, UpdateParent, RemoveKey with RemoveChildren and RemoveFromParent), of
\* any keys and documents, and whatever the calls before it left broken.
THEOREM ChangesNotified == SoloSpec => []UpdatesAreNotified
<1>1. TellInv => UpdatesAreNotified
  <2> SUFFICES ASSUME TellInv PROVE UpdatesAreNotified OBVIOUS
  <2>1. ASSUME At(Me, "idle"), faults = before.faults PROVE Notified(job[Me])
    BY <2>1 DEF TellInv, Calm, Telling, At
  <2> QED BY <2>1 DEF UpdatesAreNotified, Undisturbed, Notified, GrownTold, GoneTold, Was
<1>2. SoloSpec => []TellInv BY InitTelling, TellNext, PTL DEF SoloSpec
<1> QED BY <1>1, <1>2, PTL
=============================================================================
