----------------------- MODULE RedisDataManager_proof -----------------------
(***************************************************************************)
(* RedisDataManager for any clients, keys, documents, bounds and schema.   *)
(*                                                                         *)
(* TypeCorrect, first part: it needs no schema, and holds together with    *)
(* what a step reads: the key, the place, the children or the rest of the  *)
(* document of its call.                                                   *)
(*                                                                         *)
(* CommandsFit, second part: that the next command fits is not inductive.  *)
(* It needs every entry to be of the kind the schema gives its key, and    *)
(* that needs every call, down to the RemoveKey calls waiting on the       *)
(* stack, to be about keys of the schema, and a climb to end at the root.  *)
(***************************************************************************)
EXTENDS RedisDataManagerSchema, SequenceTheorems, WellFoundedInduction, TLAPS

GoodJob(j) == j \in Job /\ HasArguments(j)

\* The inductive invariant, in parts.
StoreTyped   == set \in [Key -> SUBSET Name] /\ hash \in [Key -> [Name -> Value \cup {Absent}]]
JobsGood     == job \in [Client -> Job] /\ \A c \in Client : HasArguments(job[c])
UpdatesTyped == updates \in [Client -> SUBSET Message]
CountsTyped  == flushing \subseteq Client /\ ops \in 0 .. MaxOps /\ faults \in 0 .. MaxFaults

TypeInv == StoreTyped /\ JobsGood /\ UpdatesTyped /\ CountsTyped
-----------------------------------------------------------------------------
(***************************************************************************)
(* Keys and sequences.                                                     *)
(***************************************************************************)
LEMMA KeyParts == ASSUME NEW k \in Key PROVE Parent(k) \in Key /\ Base(k) \in Name
<1>1. k \in Seq(Name) /\ k # <<>> BY KeyAssumption
<1>2. Len(k) \in 1 .. Len(k) BY <1>1
<1> QED BY <1>1, <1>2, KeyAssumption DEF Base, Last

LEMMA SeqParts ==
  ASSUME NEW T, NEW s \in Seq(T), s # <<>>
  PROVE  /\ Head(s) \in T /\ Tail(s) \in Seq(T)
         /\ Last(s) \in T /\ Front(s) \in Seq(T)
<1>1. Len(s) \in 1 .. Len(s) BY DEF Last
<1> QED BY <1>1 DEF Last, Front

LEMMA LeastNumber ==
  ASSUME NEW T, T \subseteq Nat, T # {}
  PROVE  \E x \in T : \A y \in T : x <= y
<1>1. PICK x \in T : \A y \in T : ~ (<<y, x>> \in OpToRel(<, Nat))
  BY NatLessThanWellFounded, WFMin, Zenon
<1>2. ASSUME NEW y \in T PROVE x <= y
  <2>1. x \in Nat /\ y \in Nat OBVIOUS
  <2>2. <<y, x>> \in Nat \X Nat BY <2>1
  <2>3. ~(y < x) BY <1>1, <2>2 DEF OpToRel
  <2> QED BY <2>1, <2>3
<1> QED BY <1>2

LEMMA ChildParts ==
  ASSUME NEW k \in Key, NEW n \in Name
  PROVE  ~IsRoot(Child(k, n)) /\ Parent(Child(k, n)) = k /\ Base(Child(k, n)) = n
<1> DEFINE s == Append(k, n)
<1>1. k \in Seq(Name) /\ Len(k) \in Nat /\ Len(k) # 0 BY KeyAssumption, EmptySeq, LenProperties
<1>2. /\ s \in Seq(Name) /\ Len(s) = Len(k) + 1 /\ s[Len(k) + 1] = n
      /\ \A i \in 1 .. Len(k) : s[i] = k[i]
  BY <1>1, AppendProperties
<1>3. Front(s) = SubSeq(s, 1, Len(k)) /\ Last(s) = n /\ Len(s) # 1 BY <1>1, <1>2 DEF Front, Last
<1> HIDE DEF s
<1>4. \A i \in 1 .. Len(k) : s[i] \in Name BY <1>1, <1>2
<1>5. /\ SubSeq(s, 1, Len(k)) \in Seq(Name) /\ Len(SubSeq(s, 1, Len(k))) = Len(k)
      /\ \A i \in 1 .. Len(k) : SubSeq(s, 1, Len(k))[i] = s[i]
  BY <1>1, <1>4, SubSeqProperties
<1>6. SubSeq(s, 1, Len(k)) = k BY <1>1, <1>2, <1>5, SeqEqual
<1> QED BY <1>3, <1>6 DEF IsRoot, Parent, Base, Child, s

LEMMA Rebuilt ==
  ASSUME NEW k \in Key, ~IsRoot(k)
  PROVE  k = Child(Parent(k), Base(k))
<1> DEFINE n == Len(k) - 1
<1>1. k \in Seq(Name) /\ n \in Nat /\ n # 0 /\ Len(k) = n + 1
  BY KeyAssumption, EmptySeq, LenProperties DEF IsRoot
<1> HIDE DEF n
<1>2. Parent(k) = SubSeq(k, 1, n) /\ Base(k) = k[n + 1] /\ k[n + 1] \in Name
  BY <1>1 DEF IsRoot, Parent, Base, Front, Last, n
<1>3. /\ SubSeq(k, 1, n) \in Seq(Name) /\ Len(SubSeq(k, 1, n)) = n
      /\ \A i \in 1 .. n : SubSeq(k, 1, n)[i] = k[i]
  BY <1>1, SubSeqProperties
<1> DEFINE p == SubSeq(k, 1, n)
<1>4. /\ Append(p, k[n + 1]) \in Seq(Name) /\ Len(Append(p, k[n + 1])) = n + 1
      /\ Append(p, k[n + 1])[n + 1] = k[n + 1]
      /\ \A i \in 1 .. n : Append(p, k[n + 1])[i] = p[i]
  BY <1>2, <1>3, AppendProperties
<1>5. \A i \in 1 .. n + 1 : Append(p, k[n + 1])[i] = k[i] BY <1>1, <1>3, <1>4
<1> QED BY <1>1, <1>2, <1>4, <1>5, SeqEqual DEF Child
-----------------------------------------------------------------------------
(***************************************************************************)
(* Documents.                                                              *)
(***************************************************************************)
\* AddConfig has still to visit s of document d.
Rest(s, d, n)    == Len(d) = n + Len(s) /\ \A i \in 1 .. Len(s) : s[i] = d[n + i]

\* The next member of a document, and what is behind it.
LEMMA NextMember ==
  ASSUME NEW s \in Seq(Item), s # <<>>, NEW d \in Document, NEW n \in Nat, Rest(s, d, n)
  PROVE  /\ n + 1 \in 1 .. Len(d) /\ d[n + 1] = Head(s) /\ Len(d) \in Nat
         /\ Rest(Tail(s), d, n + 1)
         /\ \A m \in 1 .. Len(d) : d[m] \in Item
         /\ \A m \in 1 .. Len(d) : m \in 1 .. n + 1 \/ d[m] \in ToSet(Tail(s))
<1>1. d \in Seq(Item) /\ Len(d) \in Nat BY CommandAssumption
<1>2. PICK u : u = Tail(s) OBVIOUS
<1>3. PICK l : l = Len(s) OBVIOUS
<1>4. /\ l \in Nat /\ l # 0 /\ Head(s) = s[1] /\ u \in Seq(Item) /\ Len(u) = l - 1
      /\ \A m \in 1 .. l - 1 : u[m] = s[m + 1]
  BY <1>2, <1>3, HeadTailProperties, LenProperties, EmptySeq
<1>5. Len(d) = n + l /\ \A m \in 1 .. l : s[m] = d[n + m] BY <1>3 DEF Rest
<1>6. n + 1 \in 1 .. Len(d) /\ d[n + 1] = Head(s) BY <1>4, <1>5
<1>7. Rest(u, d, n + 1)
  <2>1. ASSUME NEW m \in 1 .. l - 1 PROVE u[m] = d[n + 1 + m]
    <3>1. m + 1 \in 1 .. l /\ n + (m + 1) = n + 1 + m BY <1>4
    <3> QED BY <1>4, <1>5, <3>1
  <2>2. Len(d) = n + 1 + Len(u) BY <1>4, <1>5
  <2> QED BY <1>4, <2>1, <2>2 DEF Rest
<1>8. ASSUME NEW m \in 1 .. Len(d), m \notin 1 .. n + 1 PROVE d[m] \in ToSet(u)
  <2>1. PICK i \in Int : i = m - (n + 1) OBVIOUS
  <2>2. i \in 1 .. l - 1 /\ n + 1 + i = m BY <1>1, <1>4, <1>5, <1>8, <2>1
  <2>3. u[i] = d[m] BY <1>4, <1>7, <2>2 DEF Rest
  <2>4. i \in DOMAIN u
    <3>1. Len(u) = l - 1 /\ DOMAIN u = 1 .. Len(u) BY <1>4
    <3> QED BY <2>2, <3>1
  <2> QED BY <2>3, <2>4 DEF ToSet
<1>9. \A m \in 1 .. Len(d) : d[m] \in Item BY <1>1
<1> QED BY <1>1, <1>2, <1>6, <1>7, <1>8, <1>9

LEMMA FirstLeaf ==
  ASSUME NEW d \in Seq(Item), NEW k, NEW f, NEW g \in Leaves(d, k, f)
  PROVE  /\ Min(Leaves(d, k, f)) \in Leaves(d, k, f)
         /\ \A h \in Leaves(d, k, f) : Min(Leaves(d, k, f)) <= h
<1>1. Leaves(d, k, f) \subseteq Nat /\ Leaves(d, k, f) # {} BY DEF Leaves
<1>2. PICK x \in Leaves(d, k, f) : \A y \in Leaves(d, k, f) : x <= y BY <1>1, LeastNumber
<1> QED BY <1>2 DEF Min

LEMMA SeedValue ==
  ASSUME Init, NEW k \in Key, NEW f \in Name
  PROVE  /\ Leaves(Seed, k, f) = {} => hash[k][f] = Absent
         /\ Leaves(Seed, k, f) # {} => /\ hash[k][f] \in Value
                                      /\ hash[k][f] = Seed[Min(Leaves(Seed, k, f))].value
<1> DEFINE first == Min(Leaves(Seed, k, f))
<1>1. hash[k][f] = IF Leaves(Seed, k, f) = {} THEN Absent ELSE Seed[first].value BY DEF Init
<1>2. ASSUME Leaves(Seed, k, f) # {} PROVE Seed[first].value \in Value
  <2>1. first \in Leaves(Seed, k, f) BY <1>2, FirstLeaf, CommandAssumption
  <2>2. first \in 1 .. Len(Seed) BY <2>1 DEF Leaves
  <2>3. Seed[first] \in Item BY <2>2, CommandAssumption
  <2> QED BY <2>3 DEF Item
<1> QED BY <1>1, <1>2

\* What the document that was there before the clients started has stored.
LEMMA SeedStored ==
  ASSUME Init
  PROVE  /\ \A i \in ToSet(Seed) : Stored(i.at)
         /\ \A k \in Key : Stored(k) => \E i \in ToSet(Seed) : i.at = k
         /\ \A k \in Key, n \in Name : n \in set[k] <=>
              \E i \in ToSet(Seed) : i.object /\ i.at = k /\ i.name = n
         /\ ToSet(Seed) \subseteq Item
<1>1. ToSet(Seed) \subseteq Item BY CommandAssumption DEF ToSet
<1>2. \A k \in Key, n \in Name : n \in set[k] <=>
        \E i \in ToSet(Seed) : i.object /\ i.at = k /\ i.name = n
  BY DEF Init
<1>3. DOMAIN Seed = 1 .. Len(Seed) BY CommandAssumption
<1>4. ASSUME NEW i \in ToSet(Seed) PROVE Stored(i.at)
  <2>1. i.at \in Key /\ i.name \in Name BY <1>1 DEF Item
  <2>2. CASE i.object BY <1>2, <2>1, <2>2 DEF Stored, IsSetKey
  <2>3. CASE ~i.object
    <3>1. PICK m \in 1 .. Len(Seed) : Seed[m] = i BY <1>3 DEF ToSet
    <3>2. m \in Leaves(Seed, i.at, i.name) BY <2>3, <3>1 DEF Leaves
    <3>3. hash[i.at][i.name] \in Value BY <2>1, <3>2, SeedValue
    <3> QED BY <2>1, <3>3, CommandAssumption DEF Stored, IsHashKey
  <2> QED BY <2>2, <2>3
<1>5. ASSUME NEW k \in Key, Stored(k) PROVE \E i \in ToSet(Seed) : i.at = k
  <2>1. CASE IsSetKey(k)
    <3>1. set[k] = {i.name : i \in {x \in ToSet(Seed) : x.object /\ x.at = k}} BY DEF Init
    <3> QED BY <2>1, <3>1 DEF IsSetKey
  <2>2. CASE IsHashKey(k)
    <3>1. PICK f \in Name : hash[k][f] # Absent BY <2>2 DEF IsHashKey
    <3>2. PICK m : m \in Leaves(Seed, k, f) BY <3>1, SeedValue
    <3>3. m \in DOMAIN Seed /\ Seed[m].at = k BY <1>3, <3>2 DEF Leaves
    <3> QED BY <3>3 DEF ToSet
  <2> QED BY <1>5, <2>1, <2>2 DEF Stored
<1> QED BY <1>1, <1>2, <1>4, <1>5
-----------------------------------------------------------------------------
(***************************************************************************)
(* The server and the frame of a step.                                     *)
(***************************************************************************)
LEMMA EffectTypes ==
  ASSUME StoreTyped, NEW k \in Key, NEW n \in Name, NEW v \in Value \cup {Absent}
  PROVE  /\ Keep => StoreTyped'
         /\ Sadd(k, n) => StoreTyped'
         /\ Srem(k, n) => StoreTyped'
         /\ Hput(k, n, v) => StoreTyped'
         /\ Del(k) => StoreTyped'
         /\ Flush => StoreTyped'
<1>1. Keep => StoreTyped' BY DEF StoreTyped, Keep
<1>2. Sadd(k, n) => StoreTyped' BY DEF StoreTyped, Sadd
<1>3. Srem(k, n) => StoreTyped' BY DEF StoreTyped, Srem
<1>4. Hput(k, n, v) => StoreTyped' BY DEF StoreTyped, Hput
<1>5. Del(k) => StoreTyped' BY DEF StoreTyped, Del, EmptyHash
<1>6. Flush => StoreTyped' BY DEF StoreTyped, Flush, EmptyHash
<1> QED BY <1>1, <1>2, <1>3, <1>4, <1>5, <1>6

\* A served command keeps the counts within their bounds; an answer means it was executed.
LEMMA OutcomeFacts ==
  ASSUME faults \in 0 .. MaxFaults, NEW fits \in BOOLEAN, NEW r \in Outcome(fits),
         faults' = faults + (IF r.ok = fits THEN 0 ELSE 1)
  PROVE  /\ faults' \in 0 .. MaxFaults
         /\ r.done \in BOOLEAN /\ r.ok \in BOOLEAN
         /\ r.done => fits
         /\ r.ok => r.done
<1>1. CASE r = [done |-> fits, ok |-> fits] BY <1>1
<1>2. CASE faults < MaxFaults /\ r \in {[done |-> d, ok |-> FALSE] : d \in {FALSE, fits}}
  <2>1. PICK d \in {FALSE, fits} : r = [done |-> d, ok |-> FALSE] BY <1>2
  <2>2. r.done = d /\ r.ok = FALSE BY <2>1
  <2>3. faults' \in {faults, faults + 1} OBVIOUS
  <2>4. faults' \in 0 .. MaxFaults BY <1>2, <2>3, CommandAssumption
  <2> QED BY <2>2, <2>4
<1> QED BY <1>1, <1>2 DEF Outcome

LEMMA GoTypes ==
  ASSUME JobsGood, NEW c \in Client, NEW j, GoodJob(j), Go(c, j)
  PROVE  JobsGood'
BY DEF JobsGood, GoodJob, Go

LEMMA StoreTypes ==
  ASSUME UpdatesTyped, NEW c \in Client, NEW k \in Key \cup {<<n>> : n \in Name},
         NEW s \in {"a", "u", "d"}
  PROVE  /\ Store(c, k, s) => UpdatesTyped'
         /\ (UNCHANGED updates) => UpdatesTyped'
         /\ \A ok : StoreIf(ok, c, k, s) => UpdatesTyped'
BY DEF UpdatesTyped, Store, StoreIf, Message

LEMMA CountsStay ==
  ASSUME CountsTyped, NEW fits \in BOOLEAN, NEW r \in Outcome(fits),
         faults' = faults + (IF r.ok = fits THEN 0 ELSE 1),
         UNCHANGED <<flushing, ops>>
  PROVE  CountsTyped'
BY OutcomeFacts DEF CountsTyped
-----------------------------------------------------------------------------
(***************************************************************************)
(* The records the steps build.                                            *)
(***************************************************************************)
LEMMA IdleTypes ==
  /\ Idle \in Job
  /\ [Idle EXCEPT !.pc = "crashed"] \in Job
  /\ Idle.pc = "idle" /\ [Idle EXCEPT !.pc = "crashed"].pc = "crashed"
<1>1. <<>> \in Seq(Frame) /\ <<>> \in Seq(Item) BY EmptySeq
<1>2. "idle" \in Label /\ "crashed" \in Label BY DEF Label
<1>3. NoKey \in Key \cup {NoKey} /\ Absent \in Value \cup {Absent} /\ {} \in SUBSET Key OBVIOUS
<1> QED BY <1>1, <1>2, <1>3 DEF Idle, Job

LEMMA RestingGood ==
  ASSUME NEW j \in Job, j.pc \in {"idle", "crashed"} PROVE GoodJob(j)
BY DEF GoodJob, HasArguments, UpdatePC, DeletePC, ClimbPC, RemovePC, AddPC

LEMMA ReturnGood == ASSUME NEW j \in Job, NEW ok \in BOOLEAN PROVE GoodJob(Return(j, ok))
<1>1. Return(j, ok) \in Job BY IdleTypes DEF Return, Job
<1>2. Return(j, ok).pc = "idle" BY IdleTypes DEF Return, Job
<1> QED BY <1>1, <1>2, RestingGood

\* A call goes on at another step, with the arguments it has.
LEMMA MoveGood ==
  ASSUME NEW j \in Job, NEW pc \in Label,
         pc \in UpdatePC \cup DeletePC => j.key \in Key,
         pc \in ClimbPC \cup RemovePC => j.at \in Key,
         pc \in AddPC => j.todo # <<>>, pc = "rm_kid" => j.kids # {}
  PROVE  GoodJob([j EXCEPT !.pc = pc])
BY DEF GoodJob, HasArguments, Job

\* The same with a new result so far, for the steps of a climb and of RemoveKey.
LEMMA MoveOkGood ==
  ASSUME NEW j \in Job, NEW pc \in (ClimbPC \cup RemovePC) \ {"rm_kid"}, j.at \in Key,
         NEW ok \in BOOLEAN
  PROVE  GoodJob([j EXCEPT !.pc = pc, !.ok = ok])
<1>1. pc \in Label /\ pc \notin UpdatePC \cup DeletePC \cup AddPC
  BY DEF Label, UpdatePC, DeletePC, ClimbPC, RemovePC, AddPC
<1>2. [j EXCEPT !.pc = pc, !.ok = ok] \in Job BY <1>1 DEF Job
<1>3. HasArguments([j EXCEPT !.pc = pc, !.ok = ok]) BY <1>1 DEF HasArguments, Job
<1> QED BY <1>2, <1>3 DEF GoodJob

\* RemoveChildren goes on with the children that are left.
LEMMA ChildrenGood ==
  ASSUME NEW j \in Job, j.at \in Key, NEW pc \in {"rm_srem", "rm_kid"},
         NEW kids \in SUBSET Key, NEW ok \in BOOLEAN, pc = "rm_kid" => kids # {}
  PROVE  /\ GoodJob([j EXCEPT !.pc = pc, !.kids = kids, !.ok = ok])
         /\ GoodJob([j EXCEPT !.pc = pc, !.kids = kids])
<1>1. pc \in Label /\ pc \notin UpdatePC \cup DeletePC \cup AddPC
  BY DEF Label, RemovePC, UpdatePC, DeletePC, AddPC
<1>2. [j EXCEPT !.pc = pc, !.kids = kids, !.ok = ok] \in Job BY <1>1 DEF Job
<1>3. [j EXCEPT !.pc = pc, !.kids = kids] \in Job BY <1>1 DEF Job
<1>4. HasArguments([j EXCEPT !.pc = pc, !.kids = kids, !.ok = ok])
  BY <1>1 DEF HasArguments, Job
<1>5. HasArguments([j EXCEPT !.pc = pc, !.kids = kids]) BY <1>1 DEF HasArguments, Job
<1> QED BY <1>2, <1>3, <1>4, <1>5 DEF GoodJob

LEMMA NextItemGood ==
  ASSUME NEW j \in Job, j.todo # <<>>, NEW ok \in BOOLEAN
  PROVE  GoodJob(NextItem(j, ok))
<1> DEFINE k == [j EXCEPT !.ok = @ /\ (IsRoot(Head(j.todo).at) => ok), !.todo = Tail(@)]
<1>1. Tail(j.todo) \in Seq(Item) BY SeqParts DEF Job
<1>2. k \in Job BY <1>1 DEF Job
<1>3. NextItem(j, ok) = IF k.todo = <<>> THEN Return(k, k.ok) ELSE [k EXCEPT !.pc = "add_probe"]
  BY DEF NextItem
<1> HIDE DEF k
<1>4. CASE k.todo = <<>> BY <1>2, <1>3, <1>4, ReturnGood DEF Job
<1>5. CASE k.todo # <<>>
  <2>1. "add_probe" \in Label /\ "add_probe" \notin UpdatePC \cup DeletePC \cup ClimbPC \cup RemovePC
    BY DEF Label, UpdatePC, DeletePC, ClimbPC, RemovePC, AddPC
  <2> QED BY <1>2, <1>3, <1>5, <2>1, MoveGood
<1> QED BY <1>4, <1>5

LEMMA HashValueTypes ==
  ASSUME TypeInv, NEW c \in Client, NEW j \in Job, j.key \in Key, HashValue(c, j)
  PROVE  JobsGood' /\ UpdatesTyped'
<1>1. GoodJob(Return(j, FALSE)) BY ReturnGood
<1>2. GoodJob([j EXCEPT !.pc = "val_hset"])
  BY MoveGood DEF Label, UpdatePC, DeletePC, ClimbPC, RemovePC, AddPC
<1> QED BY <1>1, <1>2, GoTypes, StoreTypes DEF HashValue, TypeInv

LEMMA ClimbTypes ==
  ASSUME TypeInv, NEW c \in Client, NEW j \in Job, j.at \in Key, Climb(c, j)
  PROVE  JobsGood' /\ UpdatesTyped'
<1>1. GoodJob(Return(j, j.ok)) BY ReturnGood DEF Job
<1>2. GoodJob([j EXCEPT !.pc = "climb_sadd"])
  BY MoveGood DEF Label, UpdatePC, DeletePC, ClimbPC, RemovePC, AddPC
<1>3. Parent(j.at) \in Key BY KeyParts
<1> QED BY <1>1, <1>2, <1>3, GoTypes, StoreTypes DEF Climb, TypeInv

LEMMA RemoveParentTypes ==
  ASSUME TypeInv, NEW c \in Client, NEW j \in Job, j.at \in Key, NEW p \in Key,
         RemoveParent(c, j, p)
  PROVE  JobsGood' /\ UpdatesTyped'
<1>1. GoodJob([Idle EXCEPT !.pc = "crashed"]) BY IdleTypes, RestingGood
<1> DEFINE k == [j EXCEPT !.pc = "rm_type", !.at = p,
                          !.stack = Append(@, [key |-> j.at, ok |-> j.ok])]
<1>2. [key |-> j.at, ok |-> j.ok] \in Frame BY DEF Frame, Job
<1>3. Append(j.stack, [key |-> j.at, ok |-> j.ok]) \in Seq(Frame) BY <1>2 DEF Job
<1>4. k \in Job BY <1>3 DEF Job, Label, RemovePC
<1>5. HasArguments(k)
  BY <1>4 DEF HasArguments, Job, UpdatePC, DeletePC, ClimbPC, RemovePC, AddPC
<1> QED BY <1>1, <1>4, <1>5, GoTypes, StoreTypes DEF RemoveParent, TypeInv, GoodJob
-----------------------------------------------------------------------------
(***************************************************************************)
(* Each command keeps the invariant.                                       *)
(***************************************************************************)
LEMMA UpdKeysTypes == ASSUME TypeInv, NEW c \in Client, NEW r \in Reply, UpdKeys(c, r) PROVE TypeInv'
<1> DEFINE j == job[c]
<1>1. j \in Job /\ HasArguments(j) /\ r.ok \in BOOLEAN BY DEF TypeInv, JobsGood, Reply
<1>2. j.key \in Key /\ Parent(j.key) \in Key /\ Base(j.key) \in Name
  BY <1>1, KeyParts DEF HasArguments, UpdKeys, At, UpdatePC, DeletePC
<1>3. CountsTyped' BY CountsStay DEF TypeInv, UpdKeys, Served, Executed
<1>4. StoreTyped' BY <1>1, <1>2, EffectTypes DEF TypeInv, UpdKeys, Served, Executed
<1>5. GoodJob([j EXCEPT !.pc = "upd_hexists"]) BY <1>1, <1>2, MoveGood DEF Label, UpdatePC, DeletePC, ClimbPC, RemovePC, AddPC
<1>6. JobsGood' /\ UpdatesTyped'
  BY <1>1, <1>2, <1>5, GoTypes, StoreTypes, HashValueTypes DEF TypeInv, UpdKeys
<1> QED BY <1>3, <1>4, <1>6 DEF TypeInv

LEMMA UpdHexistsTypes == ASSUME TypeInv, NEW c \in Client, NEW r \in Reply, UpdHexists(c, r) PROVE TypeInv'
<1> DEFINE j == job[c]
<1>1. j \in Job /\ HasArguments(j) /\ r.ok \in BOOLEAN BY DEF TypeInv, JobsGood, Reply
<1>2. j.key \in Key /\ Parent(j.key) \in Key /\ Base(j.key) \in Name
  BY <1>1, KeyParts DEF HasArguments, UpdHexists, At, UpdatePC, DeletePC
<1>3. CountsTyped' BY CountsStay DEF TypeInv, UpdHexists, Served, Executed, HashFits, IsSetKey
<1>4. StoreTyped' BY <1>1, <1>2, EffectTypes DEF TypeInv, UpdHexists, Served, Executed
<1>5. GoodJob([j EXCEPT !.pc = "add_hset"]) BY <1>1, <1>2, MoveGood DEF Label, UpdatePC, DeletePC, ClimbPC, RemovePC, AddPC
<1>6. JobsGood' /\ UpdatesTyped'
  BY <1>1, <1>2, <1>5, GoTypes, StoreTypes, HashValueTypes DEF TypeInv, UpdHexists
<1> QED BY <1>3, <1>4, <1>6 DEF TypeInv

LEMMA ValHsetTypes == ASSUME TypeInv, NEW c \in Client, NEW r \in Reply, ValHset(c, r) PROVE TypeInv'
<1> DEFINE j == job[c]
<1>1. j \in Job /\ HasArguments(j) /\ r.ok \in BOOLEAN /\ j.value \in Value \cup {Absent}
  BY DEF TypeInv, JobsGood, Reply, Job
<1>2. j.key \in Key /\ Parent(j.key) \in Key /\ Base(j.key) \in Name
  BY <1>1, KeyParts DEF HasArguments, ValHset, At, UpdatePC, DeletePC
<1>3. CountsTyped' BY CountsStay DEF TypeInv, ValHset, Served, Executed, HashFits, IsSetKey
<1>4. StoreTyped' BY <1>1, <1>2, EffectTypes DEF TypeInv, ValHset, Served, Executed
<1>5. GoodJob(Return(j, r.ok)) BY <1>1, ReturnGood
<1>6. JobsGood' /\ UpdatesTyped'
  BY <1>1, <1>2, <1>5, GoTypes, StoreTypes DEF TypeInv, ValHset
<1> QED BY <1>3, <1>4, <1>6 DEF TypeInv

LEMMA AddHsetTypes == ASSUME TypeInv, NEW c \in Client, NEW r \in Reply, AddHset(c, r) PROVE TypeInv'
<1> DEFINE j == job[c]
<1>1. j \in Job /\ HasArguments(j) /\ r.ok \in BOOLEAN /\ j.value \in Value \cup {Absent}
  BY DEF TypeInv, JobsGood, Reply, Job
<1>2. j.key \in Key /\ Parent(j.key) \in Key /\ Base(j.key) \in Name
  BY <1>1, KeyParts DEF HasArguments, AddHset, At, UpdatePC, DeletePC
<1>3. CountsTyped' BY CountsStay DEF TypeInv, AddHset, Served, Executed, HashFits, IsSetKey
<1>4. StoreTyped' BY <1>1, <1>2, EffectTypes DEF TypeInv, AddHset, Served, Executed
<1>5. [j EXCEPT !.at = Parent(j.key), !.ok = r.ok] \in Job BY <1>1, <1>2 DEF Job
<1>6. [j EXCEPT !.at = Parent(j.key), !.ok = r.ok].at \in Key BY <1>1, <1>2 DEF Job
<1>7. JobsGood' /\ UpdatesTyped'
  BY <1>1, <1>2, <1>5, <1>6, ClimbTypes DEF TypeInv, AddHset
<1> QED BY <1>3, <1>4, <1>7 DEF TypeInv

LEMMA ClimbSaddTypes == ASSUME TypeInv, NEW c \in Client, NEW r \in Reply, ClimbSadd(c, r) PROVE TypeInv'
<1> DEFINE j == job[c]
<1>1. j \in Job /\ HasArguments(j) /\ r.ok \in BOOLEAN BY DEF TypeInv, JobsGood, Reply
<1>2. j.at \in Key /\ Parent(j.at) \in Key /\ Base(j.at) \in Name
  BY <1>1, KeyParts DEF HasArguments, ClimbSadd, At, ClimbPC, RemovePC
<1>3. CountsTyped' BY CountsStay DEF TypeInv, ClimbSadd, Served, Executed, SetFits, IsHashKey
<1>4. StoreTyped' BY <1>1, <1>2, EffectTypes DEF TypeInv, ClimbSadd, Served, Executed
<1>5. GoodJob([j EXCEPT !.pc = "climb_keys", !.ok = @ /\ r.ok])
  <2> DEFINE ok == j.ok /\ r.ok
  <2>1. ok \in BOOLEAN /\ "climb_keys" \in (ClimbPC \cup RemovePC) \ {"rm_kid"} BY <1>1 DEF Job, ClimbPC, RemovePC
  <2> HIDE DEF ok
  <2>2. GoodJob([j EXCEPT !.pc = "climb_keys", !.ok = ok]) BY <1>1, <1>2, <2>1, MoveOkGood
  <2> QED BY <2>2 DEF ok
<1>6. JobsGood' /\ UpdatesTyped'
  BY <1>1, <1>2, <1>5, GoTypes, StoreTypes DEF TypeInv, ClimbSadd
<1> QED BY <1>3, <1>4, <1>6 DEF TypeInv

LEMMA ClimbKeysTypes == ASSUME TypeInv, NEW c \in Client, NEW r \in Reply, ClimbKeys(c, r) PROVE TypeInv'
<1> DEFINE j == job[c]
<1>1. j \in Job /\ HasArguments(j) /\ r.ok \in BOOLEAN BY DEF TypeInv, JobsGood, Reply
<1>2. j.at \in Key /\ Parent(j.at) \in Key /\ Base(j.at) \in Name
  BY <1>1, KeyParts DEF HasArguments, ClimbKeys, At, ClimbPC, RemovePC
<1>3. CountsTyped' BY CountsStay DEF TypeInv, ClimbKeys, Served, Executed
<1>4. StoreTyped' BY <1>1, <1>2, EffectTypes DEF TypeInv, ClimbKeys, Served, Executed
<1>5. [j EXCEPT !.at = Parent(j.at)] \in Job BY <1>1, <1>2 DEF Job
<1>6. [j EXCEPT !.at = Parent(j.at)].at \in Key BY <1>1, <1>2 DEF Job
<1>7. GoodJob(Return(j, j.ok)) BY <1>1, ReturnGood DEF Job
<1>8. JobsGood' /\ UpdatesTyped'
  BY <1>1, <1>2, <1>5, <1>6, <1>7, GoTypes, StoreTypes, ClimbTypes DEF TypeInv, ClimbKeys
<1> QED BY <1>3, <1>4, <1>8 DEF TypeInv

LEMMA DelKeysTypes == ASSUME TypeInv, NEW c \in Client, NEW r \in Reply, DelKeys(c, r) PROVE TypeInv'
<1> DEFINE j == job[c]
<1>1. j \in Job /\ HasArguments(j) /\ r.ok \in BOOLEAN BY DEF TypeInv, JobsGood, Reply
<1>2. j.key \in Key /\ Parent(j.key) \in Key /\ Base(j.key) \in Name
  BY <1>1, KeyParts DEF HasArguments, DelKeys, At, UpdatePC, DeletePC
<1>3. CountsTyped' BY CountsStay DEF TypeInv, DelKeys, Served, Executed
<1>4. StoreTyped' BY <1>1, <1>2, EffectTypes DEF TypeInv, DelKeys, Served, Executed
<1>5. GoodJob([j EXCEPT !.pc = "rm_type", !.at = j.key])
  BY <1>1, <1>2 DEF GoodJob, HasArguments, Job, Label, UpdatePC, DeletePC, ClimbPC, RemovePC, AddPC
<1>6. GoodJob([j EXCEPT !.pc = "del_ishash"]) BY <1>1, <1>2, MoveGood DEF Label, UpdatePC, DeletePC, ClimbPC, RemovePC, AddPC
<1>7. JobsGood' /\ UpdatesTyped'
  BY <1>1, <1>2, <1>5, <1>6, GoTypes, StoreTypes DEF TypeInv, DelKeys
<1> QED BY <1>3, <1>4, <1>7 DEF TypeInv

LEMMA DelIsHashTypes == ASSUME TypeInv, NEW c \in Client, NEW r \in Reply, DelIsHash(c, r) PROVE TypeInv'
<1> DEFINE j == job[c]
<1>1. j \in Job /\ HasArguments(j) /\ r.ok \in BOOLEAN BY DEF TypeInv, JobsGood, Reply
<1>2. j.key \in Key /\ Parent(j.key) \in Key /\ Base(j.key) \in Name
  BY <1>1, KeyParts DEF HasArguments, DelIsHash, At, UpdatePC, DeletePC
<1>3. CountsTyped' BY CountsStay DEF TypeInv, DelIsHash, Served, Executed
<1>4. StoreTyped' BY <1>1, <1>2, EffectTypes DEF TypeInv, DelIsHash, Served, Executed
<1>5. GoodJob([j EXCEPT !.pc = "del_hexists"]) BY <1>1, <1>2, MoveGood DEF Label, UpdatePC, DeletePC, ClimbPC, RemovePC, AddPC
<1>6. GoodJob(Return(j, FALSE)) BY <1>1, ReturnGood
<1>7. JobsGood' /\ UpdatesTyped'
  BY <1>1, <1>2, <1>5, <1>6, GoTypes, StoreTypes DEF TypeInv, DelIsHash
<1> QED BY <1>3, <1>4, <1>7 DEF TypeInv

LEMMA DelHexistsTypes == ASSUME TypeInv, NEW c \in Client, NEW r \in Reply, DelHexists(c, r) PROVE TypeInv'
<1> DEFINE j == job[c]
<1>1. j \in Job /\ HasArguments(j) /\ r.ok \in BOOLEAN BY DEF TypeInv, JobsGood, Reply
<1>2. j.key \in Key /\ Parent(j.key) \in Key /\ Base(j.key) \in Name
  BY <1>1, KeyParts DEF HasArguments, DelHexists, At, UpdatePC, DeletePC
<1>3. CountsTyped' BY CountsStay DEF TypeInv, DelHexists, Served, Executed, HashFits, IsSetKey
<1>4. StoreTyped' BY <1>1, <1>2, EffectTypes DEF TypeInv, DelHexists, Served, Executed
<1>5. GoodJob([j EXCEPT !.pc = "del_hdel"]) BY <1>1, <1>2, MoveGood DEF Label, UpdatePC, DeletePC, ClimbPC, RemovePC, AddPC
<1>6. GoodJob(Return(j, FALSE)) BY <1>1, ReturnGood
<1>7. JobsGood' /\ UpdatesTyped'
  BY <1>1, <1>2, <1>5, <1>6, GoTypes, StoreTypes DEF TypeInv, DelHexists
<1> QED BY <1>3, <1>4, <1>7 DEF TypeInv

LEMMA DelHdelTypes == ASSUME TypeInv, NEW c \in Client, NEW r \in Reply, DelHdel(c, r) PROVE TypeInv'
<1> DEFINE j == job[c]
<1>1. j \in Job /\ HasArguments(j) /\ r.ok \in BOOLEAN BY DEF TypeInv, JobsGood, Reply
<1>2. j.key \in Key /\ Parent(j.key) \in Key /\ Base(j.key) \in Name
  BY <1>1, KeyParts DEF HasArguments, DelHdel, At, UpdatePC, DeletePC
<1>3. CountsTyped' BY CountsStay DEF TypeInv, DelHdel, Served, Executed, HashFits, IsSetKey
<1>4. StoreTyped' BY <1>1, <1>2, EffectTypes DEF TypeInv, DelHdel, Served, Executed
<1>5. GoodJob(Return(j, r.ok)) BY <1>1, ReturnGood
<1>6. JobsGood' /\ UpdatesTyped'
  BY <1>1, <1>2, <1>5, GoTypes, StoreTypes DEF TypeInv, DelHdel
<1> QED BY <1>3, <1>4, <1>6 DEF TypeInv

LEMMA RmTypeTypes == ASSUME TypeInv, NEW c \in Client, NEW r \in Reply, RmType(c, r) PROVE TypeInv'
<1> DEFINE j == job[c]
<1>1. j \in Job /\ HasArguments(j) /\ r.ok \in BOOLEAN BY DEF TypeInv, JobsGood, Reply
<1>2. j.at \in Key /\ Parent(j.at) \in Key /\ Base(j.at) \in Name
  BY <1>1, KeyParts DEF HasArguments, RmType, At, ClimbPC, RemovePC
<1>3. CountsTyped' BY CountsStay DEF TypeInv, RmType, Served, Executed
<1>4. StoreTyped' BY <1>1, <1>2, EffectTypes DEF TypeInv, RmType, Served, Executed
<1>5. \A pc \in {"rm_scard", "rm_srem"} : GoodJob([j EXCEPT !.ok = r.ok, !.pc = pc])
  BY <1>1, <1>2 DEF GoodJob, HasArguments, Job, Label, UpdatePC, DeletePC, ClimbPC, RemovePC, AddPC
<1>6. JobsGood' /\ UpdatesTyped'
  BY <1>1, <1>2, <1>5, GoTypes, StoreTypes DEF TypeInv, RmType
<1> QED BY <1>3, <1>4, <1>6 DEF TypeInv

LEMMA RmScardTypes == ASSUME TypeInv, NEW c \in Client, NEW r \in Reply, RmScard(c, r) PROVE TypeInv'
<1> DEFINE j == job[c]
<1>1. j \in Job /\ HasArguments(j) /\ r.ok \in BOOLEAN BY DEF TypeInv, JobsGood, Reply
<1>2. j.at \in Key /\ Parent(j.at) \in Key /\ Base(j.at) \in Name
  BY <1>1, KeyParts DEF HasArguments, RmScard, At, ClimbPC, RemovePC
<1>3. CountsTyped' BY CountsStay DEF TypeInv, RmScard, Served, Executed, SetFits, IsHashKey
<1>4. StoreTyped' BY <1>1, <1>2, EffectTypes DEF TypeInv, RmScard, Served, Executed
<1>5. ASSUME NEW some \in BOOLEAN PROVE GoodJob([j EXCEPT !.pc = "rm_kids", !.ok = @ /\ some])
  <2> DEFINE ok == j.ok /\ some
  <2>1. ok \in BOOLEAN /\ "rm_kids" \in (ClimbPC \cup RemovePC) \ {"rm_kid"} BY <1>1 DEF Job, ClimbPC, RemovePC
  <2> HIDE DEF ok
  <2>2. GoodJob([j EXCEPT !.pc = "rm_kids", !.ok = ok]) BY <1>1, <1>2, <2>1, MoveOkGood
  <2> QED BY <2>2 DEF ok
<1>6. Read(r, IsSetKey(j.at)) \subseteq BOOLEAN BY DEF Read, IsSetKey
<1>7. JobsGood' /\ UpdatesTyped'
  BY <1>1, <1>2, <1>5, <1>6, GoTypes, StoreTypes DEF TypeInv, RmScard
<1> QED BY <1>3, <1>4, <1>7 DEF TypeInv

LEMMA RmKidsTypes == ASSUME TypeInv, NEW c \in Client, NEW r \in Reply, RmKids(c, r) PROVE TypeInv'
<1> DEFINE j == job[c]
<1> DEFINE kids == IF r.ok THEN {k \in Below(j.at) : Stored(k)} ELSE {}
<1>1. j \in Job /\ HasArguments(j) /\ r.ok \in BOOLEAN BY DEF TypeInv, JobsGood, Reply
<1>2. j.at \in Key /\ Parent(j.at) \in Key /\ Base(j.at) \in Name
  BY <1>1, KeyParts DEF HasArguments, RmKids, At, ClimbPC, RemovePC
<1>3. CountsTyped' BY CountsStay DEF TypeInv, RmKids, Served, Executed
<1>4. StoreTyped' BY <1>1, <1>2, EffectTypes DEF TypeInv, RmKids, Served, Executed
<1>5. kids \subseteq Key BY DEF Below
<1>6. Go(c, [j EXCEPT !.pc = IF kids = {} THEN "rm_srem" ELSE "rm_kid",
                      !.kids = kids, !.ok = @ /\ kids # {}])
  BY DEF RmKids
<1> HIDE DEF kids
<1> DEFINE pc == IF kids = {} THEN "rm_srem" ELSE "rm_kid"
<1> DEFINE ok == j.ok /\ kids # {}
<1>7. GoodJob([j EXCEPT !.pc = pc, !.kids = kids, !.ok = ok])
  <2>1. pc \in {"rm_srem", "rm_kid"} /\ ok \in BOOLEAN /\ (pc = "rm_kid" => kids # {})
    BY <1>1 DEF Job
  <2> HIDE DEF pc, ok
  <2> QED BY <1>1, <1>2, <1>5, <2>1, ChildrenGood
<1>8. JobsGood' BY <1>6, <1>7, GoTypes DEF TypeInv
<1>9. UpdatesTyped' BY DEF TypeInv, UpdatesTyped, RmKids
<1> QED BY <1>3, <1>4, <1>8, <1>9 DEF TypeInv

LEMMA RmKidTypes == ASSUME TypeInv, NEW c \in Client, NEW r \in Reply, RmKid(c, r) PROVE TypeInv'
<1> DEFINE j == job[c]
<1>1. j \in Job /\ HasArguments(j) /\ r.ok \in BOOLEAN BY DEF TypeInv, JobsGood, Reply
<1>2. j.at \in Key BY <1>1 DEF HasArguments, RmKid, At, ClimbPC, RemovePC
<1>3. PICK k \in j.kids :
        /\ Served(r, TRUE, Del(k))
        /\ StoreIf(r.ok, c, k, "d")
        /\ Go(c, [j EXCEPT !.pc = IF j.kids = {k} THEN "rm_srem" ELSE "rm_kid", !.kids = @ \ {k}])
  BY DEF RmKid
<1>4. k \in Key /\ Base(k) \in Name BY <1>1, KeyParts DEF Job
<1>5. CountsTyped' BY <1>3, CountsStay DEF TypeInv, Served, Executed
<1>6. StoreTyped' BY <1>3, <1>4, EffectTypes DEF TypeInv, Served, Executed
<1> DEFINE pc == IF j.kids = {k} THEN "rm_srem" ELSE "rm_kid"
<1> DEFINE kids == j.kids \ {k}
<1>7. GoodJob([j EXCEPT !.pc = pc, !.kids = kids])
  <2>1. /\ pc \in {"rm_srem", "rm_kid"} /\ kids \in SUBSET Key /\ j.ok \in BOOLEAN
        /\ pc = "rm_kid" => kids # {}
    BY <1>1 DEF Job
  <2> HIDE DEF pc, kids
  <2> QED BY <1>1, <1>2, <2>1, ChildrenGood
<1>8. JobsGood' /\ UpdatesTyped' BY <1>3, <1>4, <1>7, GoTypes, StoreTypes DEF TypeInv
<1> QED BY <1>5, <1>6, <1>8 DEF TypeInv

LEMMA RmSremTypes == ASSUME TypeInv, NEW c \in Client, NEW r \in Reply, RmSrem(c, r) PROVE TypeInv'
<1> DEFINE j == job[c]
<1>1. j \in Job /\ HasArguments(j) /\ r.ok \in BOOLEAN BY DEF TypeInv, JobsGood, Reply
<1>2. j.at \in Key /\ Parent(j.at) \in Key /\ Base(j.at) \in Name
  BY <1>1, KeyParts DEF HasArguments, RmSrem, At, ClimbPC, RemovePC
<1>3. CountsTyped' BY CountsStay DEF TypeInv, RmSrem, Served, Executed, SetFits, IsHashKey
<1>4. StoreTyped' BY <1>1, <1>2, EffectTypes DEF TypeInv, RmSrem, Served, Executed
<1>5. GoodJob([j EXCEPT !.pc = "rm_card", !.ok = @ /\ r.ok])
  <2> DEFINE ok == j.ok /\ r.ok
  <2>1. ok \in BOOLEAN /\ "rm_card" \in (ClimbPC \cup RemovePC) \ {"rm_kid"} BY <1>1 DEF Job, ClimbPC, RemovePC
  <2> HIDE DEF ok
  <2>2. GoodJob([j EXCEPT !.pc = "rm_card", !.ok = ok]) BY <1>1, <1>2, <2>1, MoveOkGood
  <2> QED BY <2>2 DEF ok
<1>6. JobsGood' /\ UpdatesTyped'
  BY <1>1, <1>2, <1>5, GoTypes, StoreTypes DEF TypeInv, RmSrem
<1> QED BY <1>3, <1>4, <1>6 DEF TypeInv

LEMMA RmCardTypes == ASSUME TypeInv, NEW c \in Client, NEW r \in Reply, RmCard(c, r) PROVE TypeInv'
<1> DEFINE j == job[c]
<1>1. j \in Job /\ HasArguments(j) /\ r.ok \in BOOLEAN BY DEF TypeInv, JobsGood, Reply
<1>2. j.at \in Key /\ Parent(j.at) \in Key /\ Base(j.at) \in Name
  BY <1>1, KeyParts DEF HasArguments, RmCard, At, ClimbPC, RemovePC
<1>3. CountsTyped' BY CountsStay DEF TypeInv, RmCard, Served, Executed, SetFits, IsHashKey
<1>4. StoreTyped' BY <1>1, <1>2, EffectTypes DEF TypeInv, RmCard, Served, Executed
<1>5. Read(r, ~IsSetKey(Parent(j.at))) \subseteq BOOLEAN BY DEF Read, IsSetKey
<1>6. GoodJob([j EXCEPT !.pc = "rm_del"]) BY <1>1, <1>2, MoveGood DEF Label, UpdatePC, DeletePC, ClimbPC, RemovePC, AddPC
<1>7. JobsGood' /\ UpdatesTyped'
  BY <1>1, <1>2, <1>5, <1>6, GoTypes, StoreTypes, RemoveParentTypes DEF TypeInv, RmCard
<1> QED BY <1>3, <1>4, <1>7 DEF TypeInv

LEMMA RmDelTypes == ASSUME TypeInv, NEW c \in Client, NEW r \in Reply, RmDel(c, r) PROVE TypeInv'
<1> DEFINE j == job[c]
<1>1. j \in Job /\ HasArguments(j) /\ r.ok \in BOOLEAN BY DEF TypeInv, JobsGood, Reply
<1>2. j.at \in Key /\ Parent(j.at) \in Key /\ Base(j.at) \in Name
  BY <1>1, KeyParts DEF HasArguments, RmDel, At, ClimbPC, RemovePC
<1>3. CountsTyped' BY CountsStay DEF TypeInv, RmDel, Served, Executed
<1>4. StoreTyped' BY <1>1, <1>2, EffectTypes DEF TypeInv, RmDel, Served, Executed
<1>5. GoodJob(Return(j, j.ok /\ r.ok)) BY <1>1, ReturnGood DEF Job
<1>6. ASSUME j.stack # <<>> PROVE JobsGood'
  <2> DEFINE top == Last(j.stack)
  <2>1. top \in Frame /\ Front(j.stack) \in Seq(Frame) BY <1>1, <1>6, SeqParts DEF Job
  <2>2. top.key \in Key /\ top.ok \in BOOLEAN BY <2>1 DEF Frame
  <2>3. Go(c, [j EXCEPT !.at = top.key, !.stack = Front(@), !.ok = top.ok /\ @ /\ r.ok])
    BY <1>6 DEF RmDel
  <2>4. j.pc = "rm_del" BY DEF RmDel, At
  <2> HIDE DEF top
  <2>5. GoodJob([j EXCEPT !.at = top.key, !.stack = Front(@), !.ok = top.ok /\ @ /\ r.ok])
    BY <1>1, <2>1, <2>2, <2>4
    DEF GoodJob, HasArguments, Job, UpdatePC, DeletePC, ClimbPC, RemovePC, AddPC
  <2> QED BY <2>3, <2>5, GoTypes DEF TypeInv
<1>7. JobsGood' /\ UpdatesTyped'
  BY <1>1, <1>2, <1>5, <1>6, GoTypes, StoreTypes DEF TypeInv, RmDel
<1> QED BY <1>3, <1>4, <1>7 DEF TypeInv

LEMMA AddProbeTypes == ASSUME TypeInv, NEW c \in Client, NEW r \in Reply, AddProbe(c, r) PROVE TypeInv'
<1> DEFINE j == job[c]
<1> DEFINE i == Head(j.todo)
<1>1. j \in Job /\ HasArguments(j) /\ r.ok \in BOOLEAN BY DEF TypeInv, JobsGood, Reply
<1>2. j.todo # <<>> BY <1>1 DEF HasArguments, AddProbe, At, AddPC
<1>3. i \in Item BY <1>1, <1>2, SeqParts DEF Job
<1>4. i.at \in Key /\ i.name \in Name /\ i.value \in Value /\ i.object \in BOOLEAN BY <1>3 DEF Item
<1> HIDE DEF i
<1>5. Fits(i) \in BOOLEAN BY <1>4 DEF Fits, SetFits, HashFits, IsHashKey, IsSetKey
<1>6. Served(r, Fits(i), Keep) BY DEF AddProbe, i
<1>7. CountsTyped' BY <1>5, <1>6, CountsStay DEF TypeInv, Served, Executed
<1>8. StoreTyped' BY <1>4, <1>6, EffectTypes DEF TypeInv, Served, Executed
<1>9. GoodJob(NextItem(j, FALSE)) /\ GoodJob([j EXCEPT !.pc = "add_write"])
  BY <1>1, <1>2, NextItemGood, MoveGood DEF Label, UpdatePC, DeletePC, ClimbPC, RemovePC, AddPC
<1>10. Go(c, NextItem(j, FALSE)) \/ Go(c, [j EXCEPT !.pc = "add_write"]) BY DEF AddProbe, i
<1>11. JobsGood' BY <1>9, <1>10, GoTypes DEF TypeInv
<1>12. UpdatesTyped' BY DEF TypeInv, UpdatesTyped, AddProbe
<1> QED BY <1>7, <1>8, <1>11, <1>12 DEF TypeInv

LEMMA AddWriteTypes == ASSUME TypeInv, NEW c \in Client, NEW r \in Reply, AddWrite(c, r) PROVE TypeInv'
<1> DEFINE j == job[c]
<1> DEFINE i == Head(j.todo)
<1>1. j \in Job /\ HasArguments(j) /\ r.ok \in BOOLEAN BY DEF TypeInv, JobsGood, Reply
<1>2. j.todo # <<>> BY <1>1 DEF HasArguments, AddWrite, At, AddPC
<1>3. i \in Item BY <1>1, <1>2, SeqParts DEF Job
<1>4. i.at \in Key /\ i.name \in Name /\ i.value \in Value /\ i.object \in BOOLEAN BY <1>3 DEF Item
<1> HIDE DEF i
<1>5. Fits(i) \in BOOLEAN BY <1>4 DEF Fits, SetFits, HashFits, IsHashKey, IsSetKey
<1>6. Served(r, Fits(i), Submit(i)) BY DEF AddWrite, i
<1>7. CountsTyped' BY <1>5, <1>6, CountsStay DEF TypeInv, Served, Executed
<1>8. StoreTyped' BY <1>4, <1>6, EffectTypes DEF TypeInv, Served, Executed, Submit
<1>9. GoodJob(NextItem(j, i.object /\ r.ok)) BY <1>1, <1>2, <1>4, NextItemGood
<1>10. Go(c, NextItem(j, i.object /\ r.ok)) BY DEF AddWrite, i
<1>11. JobsGood' BY <1>9, <1>10, GoTypes DEF TypeInv
<1>12. UpdatesTyped' BY DEF TypeInv, UpdatesTyped, AddWrite
<1> QED BY <1>7, <1>8, <1>11, <1>12 DEF TypeInv
-----------------------------------------------------------------------------
(***************************************************************************)
(* Calls, the pending FLUSHALL, and a killed client.                       *)
(***************************************************************************)
LEMMA CallTypes ==
  ASSUME TypeInv, NEW c \in Client, NEW j, GoodJob(j), Call(c, j)
  PROVE  TypeInv'
<1>1. StoreTyped' /\ UpdatesTyped' BY DEF TypeInv, Call, StoreTyped, UpdatesTyped
<1>2. JobsGood' BY GoTypes DEF TypeInv, Call
<1>3. CountsTyped' BY CommandAssumption DEF TypeInv, Call, CountsTyped
<1> QED BY <1>1, <1>2, <1>3 DEF TypeInv

LEMMA UpdateTypes == ASSUME TypeInv, NEW c \in Client, Update(c) PROVE TypeInv'
<1>1. PICK k \in UpdateKey, v \in Value :
        Call(c, [Idle EXCEPT !.pc = "upd_keys", !.op = "update", !.key = k, !.value = v])
  BY DEF Update
<1> DEFINE j == [Idle EXCEPT !.pc = "upd_keys", !.op = "update", !.key = k, !.value = v]
<1>2. k \in Key BY CommandAssumption
<1>3. GoodJob(j)
  BY <1>2, IdleTypes DEF GoodJob, HasArguments, Job, Label, UpdatePC, DeletePC, ClimbPC, RemovePC, AddPC
<1> QED BY <1>1, <1>3, CallTypes

LEMMA DeleteTypes == ASSUME TypeInv, NEW c \in Client, Delete(c) PROVE TypeInv'
<1>1. PICK k \in DeleteKey : Call(c, [Idle EXCEPT !.pc = "del_keys", !.op = "delete", !.key = k])
  BY DEF Delete
<1> DEFINE j == [Idle EXCEPT !.pc = "del_keys", !.op = "delete", !.key = k]
<1>2. k \in Key BY CommandAssumption
<1>3. GoodJob(j)
  BY <1>2, IdleTypes DEF GoodJob, HasArguments, Job, Label, UpdatePC, DeletePC, ClimbPC, RemovePC, AddPC
<1> QED BY <1>1, <1>3, CallTypes

LEMMA AddConfigTypes == ASSUME TypeInv, NEW c \in Client, AddConfig(c) PROVE TypeInv'
<1>1. PICK d \in Document : Call(c, [Idle EXCEPT !.pc = "add_probe", !.op = "add", !.todo = d])
  BY DEF AddConfig
<1> DEFINE j == [Idle EXCEPT !.pc = "add_probe", !.op = "add", !.todo = d]
<1>2. d \in Seq(Item) /\ d # <<>> BY CommandAssumption
<1>3. GoodJob(j)
  BY <1>2, IdleTypes DEF GoodJob, HasArguments, Job, Label, UpdatePC, DeletePC, ClimbPC, RemovePC, AddPC
<1> QED BY <1>1, <1>3, CallTypes

LEMMA ClearTypes == ASSUME TypeInv, NEW c \in Client, Clear(c) PROVE TypeInv'
BY CommandAssumption DEF Clear, TypeInv, StoreTyped, JobsGood, UpdatesTyped, CountsTyped

LEMMA FlushAllTypes == ASSUME TypeInv, NEW c \in Client, FlushAll(c) PROVE TypeInv'
<1>1. PICK r \in Reply : Executed(r, TRUE, Flush) BY DEF FlushAll
<1>2. StoreTyped'
  <2>1. CASE r.done BY <1>1, <2>1 DEF Executed, Flush, EmptyHash, StoreTyped
  <2>2. CASE ~r.done BY <1>1, <2>2 DEF Executed, Keep, StoreTyped, TypeInv
  <2> QED BY <2>1, <2>2
<1>3. faults' \in 0 .. MaxFaults BY <1>1, OutcomeFacts DEF Executed, TypeInv, CountsTyped
<1>4. JobsGood' /\ UpdatesTyped' BY DEF FlushAll, TypeInv, JobsGood, UpdatesTyped
<1> QED BY <1>2, <1>3, <1>4 DEF FlushAll, TypeInv, CountsTyped

LEMMA KillTypes == ASSUME TypeInv, NEW c \in Client, Kill(c) PROVE TypeInv'
<1>1. JobsGood' BY IdleTypes, RestingGood, GoTypes DEF TypeInv, Kill
<1>2. faults' \in 0 .. MaxFaults BY CommandAssumption DEF TypeInv, Kill, CountsTyped
<1> QED BY <1>1, <1>2 DEF TypeInv, Kill, StoreTyped, UpdatesTyped, CountsTyped
-----------------------------------------------------------------------------
LEMMA InitTypes == Init => TypeInv
<1> SUFFICES ASSUME Init PROVE TypeInv OBVIOUS
<1>1. \A x \in ToSet(Seed) : x \in Item BY CommandAssumption DEF ToSet
<1>2. set \in [Key -> SUBSET Name] BY <1>1 DEF Init, Item
<1>3. \A k \in Key, f \in Name : hash[k][f] \in Value \cup {Absent} BY SeedValue
<1>4. hash \in [Key -> [Name -> Value \cup {Absent}]]
  <2> DEFINE F(k, f) == IF Leaves(Seed, k, f) = {} THEN Absent
                        ELSE Seed[Min(Leaves(Seed, k, f))].value
  <2>1. hash = [k \in Key |-> [f \in Name |-> F(k, f)]] BY DEF Init
  <2> HIDE DEF F
  <2>2. \A k \in Key, f \in Name : hash[k][f] = F(k, f) BY <2>1
  <2> QED BY <1>3, <2>1, <2>2
<1>5. JobsGood BY IdleTypes, RestingGood DEF Init, JobsGood, GoodJob
<1>6. UpdatesTyped /\ CountsTyped BY CommandAssumption DEF Init, UpdatesTyped, CountsTyped
<1> QED BY <1>2, <1>4, <1>5, <1>6 DEF TypeInv, StoreTyped

LEMMA NextTypes == TypeInv /\ [Next]_vars => TypeInv'
<1> SUFFICES ASSUME TypeInv, [Next]_vars PROVE TypeInv' OBVIOUS
<1>1. CASE UNCHANGED vars
  BY <1>1 DEF vars, TypeInv, StoreTyped, JobsGood, UpdatesTyped, CountsTyped
<1>2. ASSUME NEW c \in Client, Update(c) \/ Delete(c) \/ AddConfig(c) \/ Clear(c) PROVE TypeInv'
  BY <1>2, UpdateTypes, DeleteTypes, AddConfigTypes, ClearTypes
<1>3. ASSUME NEW c \in Client, FlushAll(c) \/ Kill(c) PROVE TypeInv'
  BY <1>3, FlushAllTypes, KillTypes
<1>4. ASSUME NEW c \in Client, NEW r \in Reply, Command(c, r) PROVE TypeInv'
  BY <1>4, UpdKeysTypes, UpdHexistsTypes, ValHsetTypes, AddHsetTypes, ClimbSaddTypes,
     ClimbKeysTypes, DelKeysTypes, DelIsHashTypes, DelHexistsTypes, DelHdelTypes,
     RmTypeTypes, RmScardTypes, RmKidsTypes, RmKidTypes, RmSremTypes, RmCardTypes, RmDelTypes,
     AddProbeTypes, AddWriteTypes DEF Command, Writing, Removing
<1> QED BY <1>1, <1>2, <1>3, <1>4 DEF Next, Step

\* Every variable of every client and of the server keeps its type, and the
\* calls and faults their bounds, whatever commands interleave, fail or are lost.
THEOREM TypeCorrect == Spec => []TypeOK
<1>1. Init => TypeInv BY InitTypes
<1>2. TypeInv /\ [Next]_vars => TypeInv' BY NextTypes
<1>3. TypeInv => TypeOK BY DEF TypeInv, StoreTyped, JobsGood, UpdatesTyped, CountsTyped, TypeOK
<1> QED BY <1>1, <1>2, <1>3, PTL DEF Spec
-----------------------------------------------------------------------------
(***************************************************************************)
(* Clients that agree on a schema.                                         *)
(***************************************************************************)
InSchema == Object \cup Record

StackConforms(s) == \A i \in 1 .. Len(s) : s[i].key \in InSchema
TodoConforms(s)  == \A i \in 1 .. Len(s) : ItemConforms(s[i])

CallConforms(j) ==
  /\ j.pc \in UpdatePC => j.key \in UpdateKey
  /\ j.pc \in {"del_hexists", "del_hdel"} => Parent(j.key) \in Record
  /\ j.pc \in ClimbPC \cup RemovePC => j.at \in InSchema
  /\ j.pc \in ClimbPC => ~IsRoot(j.at)
  /\ j.pc = "rm_scard" => j.at \in Object
  /\ StackConforms(j.stack)
  /\ TodoConforms(j.todo)

\* The inductive invariant, in parts.
StoreConforms == \A k \in Key : (IsSetKey(k) => k \in Object) /\ (IsHashKey(k) => k \in Record)
JobsConform   == \A c \in Client : CallConforms(job[c])

SchemaInv == TypeInv /\ StoreConforms /\ JobsConform
-----------------------------------------------------------------------------
LEMMA SchemaKeys ==
  /\ InSchema \subseteq Key /\ Object \subseteq Key /\ Record \subseteq Key
  /\ \A k \in InSchema : Parent(k) \in InSchema /\ (IsRoot(k) \/ Parent(k) \in Object)
  /\ \A k \in UpdateKey : Parent(k) \in Record /\ Parent(k) \in InSchema
BY SchemaAssumption DEF InSchema, Parent

\* An entry of the other kind cannot be at a key of the schema.
LEMMA KindsFit ==
  ASSUME StoreConforms
  PROVE  /\ \A k \in Object : SetFits(k)
         /\ \A k \in Record : HashFits(k)
BY SchemaAssumption DEF StoreConforms, SetFits, HashFits

LEMMA EmptyConforms == StackConforms(<<>>) /\ TodoConforms(<<>>)
BY DEF StackConforms, TodoConforms

LEMMA PushConforms ==
  ASSUME NEW s \in Seq(Frame), StackConforms(s), NEW f \in Frame, f.key \in InSchema
  PROVE  StackConforms(Append(s, f))
BY DEF StackConforms

LEMMA PopConforms ==
  ASSUME NEW s \in Seq(Frame), StackConforms(s), s # <<>>
  PROVE  StackConforms(Front(s)) /\ Last(s).key \in InSchema
<1> DEFINE n == Len(s) - 1
<1>1. n \in Nat /\ Len(s) = n + 1 OBVIOUS
<1> HIDE DEF n
<1>2. \A i \in 1 .. n : s[i] \in Frame BY <1>1
<1>3. Front(s) = SubSeq(s, 1, n) BY <1>1 DEF Front, n
<1>4. /\ Len(Front(s)) = (IF 1 <= n THEN n - 1 + 1 ELSE 0)
      /\ \A i \in 1 .. n - 1 + 1 : Front(s)[i] = s[1 + i - 1]
  BY <1>1, <1>2, <1>3, SubSeqProperties
<1>5. Len(Front(s)) = n
  <2>1. CASE n = 0 BY <1>4, <2>1
  <2>2. CASE 1 <= n BY <1>1, <1>4, <2>2
  <2> QED BY <1>1, <2>1, <2>2
<1>6. \A i \in 1 .. n : Front(s)[i] = s[i] BY <1>1, <1>4
<1> QED BY <1>1, <1>5, <1>6 DEF StackConforms, Last

LEMMA ItemsConform ==
  ASSUME NEW s \in Seq(Item), TodoConforms(s), s # <<>>
  PROVE  ItemConforms(Head(s)) /\ TodoConforms(Tail(s))
<1>1. 1 \in 1 .. Len(s) /\ Head(s) = s[1] OBVIOUS
<1>2. \A i \in 1 .. Len(Tail(s)) : i + 1 \in 1 .. Len(s) /\ Tail(s)[i] = s[i + 1] OBVIOUS
<1> QED BY <1>1, <1>2 DEF TodoConforms
-----------------------------------------------------------------------------
(***************************************************************************)
(* What a command does to the store, and a step to the call.               *)
(***************************************************************************)
LEMMA EffectConforms ==
  ASSUME StoreTyped, StoreConforms, NEW k \in Key, NEW n \in Name, NEW v \in Value \cup {Absent}
  PROVE  /\ Keep => StoreConforms'
         /\ Sadd(k, n) /\ k \in Object => StoreConforms'
         /\ Srem(k, n) => StoreConforms'
         /\ Hput(k, n, v) /\ k \in Record => StoreConforms'
         /\ Del(k) => StoreConforms'
         /\ Flush => StoreConforms'
<1>1. Keep => StoreConforms' BY DEF StoreTyped, StoreConforms, IsSetKey, IsHashKey, Keep
<1>2. Sadd(k, n) /\ k \in Object => StoreConforms' BY DEF StoreTyped, StoreConforms, IsSetKey, IsHashKey, Sadd
<1>3. Srem(k, n) => StoreConforms' BY DEF StoreTyped, StoreConforms, IsSetKey, IsHashKey, Srem
<1>4. Hput(k, n, v) /\ k \in Record => StoreConforms' BY DEF StoreTyped, StoreConforms, IsSetKey, IsHashKey, Hput
<1>5. Del(k) => StoreConforms' BY DEF StoreTyped, StoreConforms, IsSetKey, IsHashKey, Del, EmptyHash
<1>6. Flush => StoreConforms' BY DEF StoreTyped, StoreConforms, IsSetKey, IsHashKey, Flush, EmptyHash
<1> QED BY <1>1, <1>2, <1>3, <1>4, <1>5, <1>6

LEMMA GoConforms ==
  ASSUME TypeInv, JobsConform, NEW c \in Client, NEW j, CallConforms(j), Go(c, j)
  PROVE  JobsConform'
BY DEF TypeInv, JobsGood, JobsConform, Go

LEMMA RestingConforms ==
  /\ CallConforms(Idle) /\ CallConforms([Idle EXCEPT !.pc = "crashed"])
  /\ \A j \in Job, ok \in BOOLEAN : CallConforms(Return(j, ok))
<1>1. Idle.stack = <<>> /\ Idle.todo = <<>> BY DEF Idle
<1>2. [Idle EXCEPT !.pc = "crashed"].stack = <<>> /\ [Idle EXCEPT !.pc = "crashed"].todo = <<>>
  BY DEF Idle
<1>3. ASSUME NEW j \in Job, NEW ok \in BOOLEAN
      PROVE  Return(j, ok).pc = "idle" /\ Return(j, ok).stack = <<>> /\ Return(j, ok).todo = <<>>
  BY DEF Return, Idle
<1> QED BY <1>1, <1>2, <1>3, IdleTypes, EmptyConforms
        DEF CallConforms, UpdatePC, ClimbPC, RemovePC

LEMMA HashValueConforms ==
  ASSUME SchemaInv, NEW c \in Client, NEW j \in Job, CallConforms(j), j.key \in UpdateKey,
         HashValue(c, j)
  PROVE  JobsConform'
<1>1. CallConforms([j EXCEPT !.pc = "val_hset"])
  BY DEF CallConforms, Job, UpdatePC, ClimbPC, RemovePC
<1> QED BY <1>1, RestingConforms, GoConforms DEF HashValue, SchemaInv

LEMMA ClimbConforms ==
  ASSUME SchemaInv, NEW c \in Client, NEW j \in Job, j.at \in InSchema,
         StackConforms(j.stack), TodoConforms(j.todo), Climb(c, j)
  PROVE  JobsConform'
<1>1. ~IsRoot(j.at) => CallConforms([j EXCEPT !.pc = "climb_sadd"])
  BY DEF CallConforms, Job, UpdatePC, ClimbPC, RemovePC
<1>2. CallConforms(Return(j, j.ok)) BY RestingConforms DEF Job
<1> QED BY <1>1, <1>2, GoConforms DEF Climb, SchemaInv

LEMMA RemoveParentConforms ==
  ASSUME SchemaInv, NEW c \in Client, NEW j \in Job, CallConforms(j), j.at \in InSchema,
         NEW p \in InSchema, RemoveParent(c, j, p)
  PROVE  JobsConform'
<1> DEFINE frame == [key |-> j.at, ok |-> j.ok]
<1>1. frame \in Frame /\ frame.key \in InSchema BY SchemaKeys DEF Frame, Job
<1>2. j.stack \in Seq(Frame) /\ StackConforms(j.stack) BY DEF Job, CallConforms
<1>3. RemoveParent(c, j, p) <=>
        IF Len(j.stack) = MaxStack
        THEN Go(c, [Idle EXCEPT !.pc = "crashed"]) /\ UNCHANGED updates
        ELSE Go(c, [j EXCEPT !.pc = "rm_type", !.at = p, !.stack = Append(@, frame)])
             /\ Store(c, p, "d")
  BY DEF RemoveParent
<1> HIDE DEF frame
<1>4. StackConforms(Append(j.stack, frame)) BY <1>1, <1>2, PushConforms
<1>5. CallConforms([j EXCEPT !.pc = "rm_type", !.at = p, !.stack = Append(@, frame)])
  BY <1>4 DEF CallConforms, Job, UpdatePC, ClimbPC, RemovePC
<1> QED BY <1>3, <1>5, RestingConforms, GoConforms DEF SchemaInv
-----------------------------------------------------------------------------
(***************************************************************************)
(* Each command keeps the invariant.                                       *)
(***************************************************************************)
LEMMA UpdKeysConforms ==
  ASSUME SchemaInv, NEW c \in Client, NEW r \in Reply, UpdKeys(c, r)
  PROVE  StoreConforms' /\ JobsConform'
<1> DEFINE j == job[c]
<1>1. j \in Job /\ HasArguments(j) /\ CallConforms(j) /\ r.ok \in BOOLEAN
  BY DEF SchemaInv, TypeInv, JobsGood, JobsConform, Reply
<1>2. j.key \in UpdateKey /\ Parent(j.key) \in Record /\ Parent(j.key) \in Key /\ Base(j.key) \in Name
        /\ j.value \in Value \cup {Absent}
  BY <1>1, SchemaKeys, KeyParts, CommandAssumption DEF CallConforms, UpdKeys, At, UpdatePC, Job
<1>3. CallConforms([j EXCEPT !.pc = "upd_hexists"])
  BY <1>1, <1>2 DEF CallConforms, Job, UpdatePC, ClimbPC, RemovePC
<1>4. StoreConforms'
  BY <1>1, <1>2, EffectConforms, SchemaKeys DEF SchemaInv, TypeInv, UpdKeys, Served, Executed
<1>5. JobsConform' BY <1>1, <1>2, <1>3, HashValueConforms, GoConforms DEF SchemaInv, UpdKeys
<1> QED BY <1>4, <1>5

LEMMA UpdHexistsConforms ==
  ASSUME SchemaInv, NEW c \in Client, NEW r \in Reply, UpdHexists(c, r)
  PROVE  StoreConforms' /\ JobsConform'
<1> DEFINE j == job[c]
<1>1. j \in Job /\ HasArguments(j) /\ CallConforms(j) /\ r.ok \in BOOLEAN
  BY DEF SchemaInv, TypeInv, JobsGood, JobsConform, Reply
<1>2. j.key \in UpdateKey /\ Parent(j.key) \in Record /\ Parent(j.key) \in Key /\ Base(j.key) \in Name
        /\ j.value \in Value \cup {Absent}
  BY <1>1, SchemaKeys, KeyParts, CommandAssumption DEF CallConforms, UpdHexists, At, UpdatePC, Job
<1>3. CallConforms([j EXCEPT !.pc = "add_hset"])
  BY <1>1, <1>2 DEF CallConforms, Job, UpdatePC, ClimbPC, RemovePC
<1>4. StoreConforms'
  BY <1>1, <1>2, EffectConforms, SchemaKeys DEF SchemaInv, TypeInv, UpdHexists, Served, Executed
<1>5. JobsConform' BY <1>1, <1>2, <1>3, HashValueConforms, GoConforms DEF SchemaInv, UpdHexists
<1> QED BY <1>4, <1>5

LEMMA ValHsetConforms ==
  ASSUME SchemaInv, NEW c \in Client, NEW r \in Reply, ValHset(c, r)
  PROVE  StoreConforms' /\ JobsConform'
<1> DEFINE j == job[c]
<1>1. j \in Job /\ HasArguments(j) /\ CallConforms(j) /\ r.ok \in BOOLEAN
  BY DEF SchemaInv, TypeInv, JobsGood, JobsConform, Reply
<1>2. j.key \in UpdateKey /\ Parent(j.key) \in Record /\ Parent(j.key) \in Key /\ Base(j.key) \in Name
        /\ j.value \in Value \cup {Absent}
  BY <1>1, SchemaKeys, KeyParts, CommandAssumption DEF CallConforms, ValHset, At, UpdatePC, Job
<1>3. CallConforms(Return(j, r.ok)) BY <1>1, RestingConforms DEF Job
<1>4. StoreConforms'
  BY <1>1, <1>2, EffectConforms, SchemaKeys DEF SchemaInv, TypeInv, ValHset, Served, Executed
<1>5. JobsConform' BY <1>1, <1>2, <1>3, GoConforms DEF SchemaInv, ValHset
<1> QED BY <1>4, <1>5

LEMMA AddHsetConforms ==
  ASSUME SchemaInv, NEW c \in Client, NEW r \in Reply, AddHset(c, r)
  PROVE  StoreConforms' /\ JobsConform'
<1> DEFINE j == job[c]
<1>1. j \in Job /\ HasArguments(j) /\ CallConforms(j) /\ r.ok \in BOOLEAN
  BY DEF SchemaInv, TypeInv, JobsGood, JobsConform, Reply
<1>2. j.key \in UpdateKey /\ Parent(j.key) \in Record /\ Parent(j.key) \in Key /\ Base(j.key) \in Name
        /\ j.value \in Value \cup {Absent}
  BY <1>1, SchemaKeys, KeyParts, CommandAssumption DEF CallConforms, AddHset, At, UpdatePC, Job
<1>3. [j EXCEPT !.at = Parent(j.key), !.ok = r.ok] \in Job BY <1>1, <1>2 DEF Job
<1>4. [j EXCEPT !.at = Parent(j.key), !.ok = r.ok].at \in InSchema BY <1>1, <1>2 DEF Job, InSchema
<1>5. /\ StackConforms([j EXCEPT !.at = Parent(j.key), !.ok = r.ok].stack)
      /\ TodoConforms([j EXCEPT !.at = Parent(j.key), !.ok = r.ok].todo)
  BY <1>1 DEF CallConforms, Job
<1>6. StoreConforms'
  BY <1>1, <1>2, EffectConforms, SchemaKeys DEF SchemaInv, TypeInv, AddHset, Served, Executed
<1>7. JobsConform' BY <1>1, <1>2, <1>3, <1>4, <1>5, ClimbConforms DEF SchemaInv, AddHset
<1> QED BY <1>6, <1>7

LEMMA ClimbSaddConforms ==
  ASSUME SchemaInv, NEW c \in Client, NEW r \in Reply, ClimbSadd(c, r)
  PROVE  StoreConforms' /\ JobsConform'
<1> DEFINE j == job[c]
<1>1. j \in Job /\ HasArguments(j) /\ CallConforms(j) /\ r.ok \in BOOLEAN
  BY DEF SchemaInv, TypeInv, JobsGood, JobsConform, Reply
<1>2. /\ j.at \in InSchema /\ j.at \in Key /\ ~IsRoot(j.at)
      /\ Parent(j.at) \in Object /\ Base(j.at) \in Name
  BY <1>1, SchemaKeys, KeyParts DEF CallConforms, ClimbSadd, At, ClimbPC, RemovePC
<1>3. CallConforms([j EXCEPT !.pc = "climb_keys", !.ok = @ /\ r.ok])
  BY <1>1, <1>2 DEF CallConforms, Job, UpdatePC, ClimbPC, RemovePC
<1>4. StoreConforms'
  BY <1>1, <1>2, EffectConforms, SchemaKeys DEF SchemaInv, TypeInv, ClimbSadd, Served, Executed
<1>5. JobsConform' BY <1>1, <1>2, <1>3, GoConforms DEF SchemaInv, ClimbSadd
<1> QED BY <1>4, <1>5

LEMMA ClimbKeysConforms ==
  ASSUME SchemaInv, NEW c \in Client, NEW r \in Reply, ClimbKeys(c, r)
  PROVE  StoreConforms' /\ JobsConform'
<1> DEFINE j == job[c]
<1>1. j \in Job /\ HasArguments(j) /\ CallConforms(j) /\ r.ok \in BOOLEAN
  BY DEF SchemaInv, TypeInv, JobsGood, JobsConform, Reply
<1>2. /\ j.at \in InSchema /\ j.at \in Key /\ ~IsRoot(j.at)
      /\ Parent(j.at) \in Object /\ Base(j.at) \in Name
  BY <1>1, SchemaKeys, KeyParts DEF CallConforms, ClimbKeys, At, ClimbPC, RemovePC
<1>3. Parent(j.at) \in InSchema /\ Parent(j.at) \in Key BY <1>2, SchemaKeys DEF InSchema
<1>4. [j EXCEPT !.at = Parent(j.at)] \in Job BY <1>1, <1>3 DEF Job
<1>5. [j EXCEPT !.at = Parent(j.at)].at \in InSchema BY <1>1, <1>3 DEF Job
<1>6. /\ StackConforms([j EXCEPT !.at = Parent(j.at)].stack)
      /\ TodoConforms([j EXCEPT !.at = Parent(j.at)].todo)
  BY <1>1 DEF CallConforms, Job
<1>7. CallConforms(Return(j, j.ok)) BY <1>1, RestingConforms DEF Job
<1>8. StoreConforms'
  BY <1>1, <1>2, EffectConforms, SchemaKeys DEF SchemaInv, TypeInv, ClimbKeys, Served, Executed
<1>9. JobsConform' BY <1>1, <1>2, <1>3, <1>4, <1>5, <1>6, <1>7, ClimbConforms, GoConforms DEF SchemaInv, ClimbKeys
<1> QED BY <1>8, <1>9

LEMMA DelKeysConforms ==
  ASSUME SchemaInv, NEW c \in Client, NEW r \in Reply, DelKeys(c, r)
  PROVE  StoreConforms' /\ JobsConform'
<1> DEFINE j == job[c]
<1>1. j \in Job /\ HasArguments(j) /\ CallConforms(j) /\ r.ok \in BOOLEAN
  BY DEF SchemaInv, TypeInv, JobsGood, JobsConform, Reply
<1>2. j.key \in Key /\ Parent(j.key) \in Key /\ Base(j.key) \in Name
  BY <1>1, KeyParts DEF HasArguments, DelKeys, At, UpdatePC, DeletePC
<1>3. Stored(j.key) => j.key \in InSchema BY <1>2 DEF Stored, SchemaInv, StoreConforms, InSchema
<1>4. j.key \in InSchema => CallConforms([j EXCEPT !.pc = "rm_type", !.at = j.key])
  BY <1>1, <1>2 DEF CallConforms, Job, UpdatePC, ClimbPC, RemovePC
<1>5. CallConforms([j EXCEPT !.pc = "del_ishash"])
  BY <1>1, <1>2 DEF CallConforms, Job, UpdatePC, ClimbPC, RemovePC
<1>6. StoreConforms'
  BY <1>1, <1>2, EffectConforms, SchemaKeys DEF SchemaInv, TypeInv, DelKeys, Served, Executed
<1>7. JobsConform' BY <1>1, <1>2, <1>3, <1>4, <1>5, GoConforms DEF SchemaInv, DelKeys
<1> QED BY <1>6, <1>7

LEMMA DelIsHashConforms ==
  ASSUME SchemaInv, NEW c \in Client, NEW r \in Reply, DelIsHash(c, r)
  PROVE  StoreConforms' /\ JobsConform'
<1> DEFINE j == job[c]
<1>1. j \in Job /\ HasArguments(j) /\ CallConforms(j) /\ r.ok \in BOOLEAN
  BY DEF SchemaInv, TypeInv, JobsGood, JobsConform, Reply
<1>2. j.key \in Key /\ Parent(j.key) \in Key /\ Base(j.key) \in Name
  BY <1>1, KeyParts DEF HasArguments, DelIsHash, At, UpdatePC, DeletePC
<1>3. IsHashKey(Parent(j.key)) => Parent(j.key) \in Record BY <1>2 DEF SchemaInv, StoreConforms
<1>4. Parent(j.key) \in Record => CallConforms([j EXCEPT !.pc = "del_hexists"])
  BY <1>1, <1>2 DEF CallConforms, Job, UpdatePC, ClimbPC, RemovePC
<1>5. CallConforms(Return(j, FALSE)) BY <1>1, RestingConforms DEF Job
<1>6. StoreConforms'
  BY <1>1, <1>2, EffectConforms, SchemaKeys DEF SchemaInv, TypeInv, DelIsHash, Served, Executed
<1>7. JobsConform' BY <1>1, <1>2, <1>3, <1>4, <1>5, GoConforms DEF SchemaInv, DelIsHash
<1> QED BY <1>6, <1>7

LEMMA DelHexistsConforms ==
  ASSUME SchemaInv, NEW c \in Client, NEW r \in Reply, DelHexists(c, r)
  PROVE  StoreConforms' /\ JobsConform'
<1> DEFINE j == job[c]
<1>1. j \in Job /\ HasArguments(j) /\ CallConforms(j) /\ r.ok \in BOOLEAN
  BY DEF SchemaInv, TypeInv, JobsGood, JobsConform, Reply
<1>2. j.key \in Key /\ Parent(j.key) \in Key /\ Base(j.key) \in Name /\ Parent(j.key) \in Record
  BY <1>1, KeyParts DEF HasArguments, CallConforms, DelHexists, At, UpdatePC, DeletePC
<1>3. CallConforms([j EXCEPT !.pc = "del_hdel"])
  BY <1>1, <1>2 DEF CallConforms, Job, UpdatePC, ClimbPC, RemovePC
<1>4. CallConforms(Return(j, FALSE)) BY <1>1, RestingConforms DEF Job
<1>5. StoreConforms'
  BY <1>1, <1>2, EffectConforms, SchemaKeys DEF SchemaInv, TypeInv, DelHexists, Served, Executed
<1>6. JobsConform' BY <1>1, <1>2, <1>3, <1>4, GoConforms DEF SchemaInv, DelHexists
<1> QED BY <1>5, <1>6

LEMMA DelHdelConforms ==
  ASSUME SchemaInv, NEW c \in Client, NEW r \in Reply, DelHdel(c, r)
  PROVE  StoreConforms' /\ JobsConform'
<1> DEFINE j == job[c]
<1>1. j \in Job /\ HasArguments(j) /\ CallConforms(j) /\ r.ok \in BOOLEAN
  BY DEF SchemaInv, TypeInv, JobsGood, JobsConform, Reply
<1>2. j.key \in Key /\ Parent(j.key) \in Key /\ Base(j.key) \in Name /\ Parent(j.key) \in Record
  BY <1>1, KeyParts DEF HasArguments, CallConforms, DelHdel, At, UpdatePC, DeletePC
<1>3. CallConforms(Return(j, r.ok)) BY <1>1, RestingConforms DEF Job
<1>4. StoreConforms'
  BY <1>1, <1>2, EffectConforms, SchemaKeys DEF SchemaInv, TypeInv, DelHdel, Served, Executed
<1>5. JobsConform' BY <1>1, <1>2, <1>3, GoConforms DEF SchemaInv, DelHdel
<1> QED BY <1>4, <1>5

LEMMA RmTypeConforms ==
  ASSUME SchemaInv, NEW c \in Client, NEW r \in Reply, RmType(c, r)
  PROVE  StoreConforms' /\ JobsConform'
<1> DEFINE j == job[c]
<1>1. j \in Job /\ HasArguments(j) /\ CallConforms(j) /\ r.ok \in BOOLEAN
  BY DEF SchemaInv, TypeInv, JobsGood, JobsConform, Reply
<1>2. /\ j.at \in InSchema /\ j.at \in Key /\ Parent(j.at) \in InSchema /\ Parent(j.at) \in Key
      /\ Base(j.at) \in Name
  BY <1>1, SchemaKeys, KeyParts DEF CallConforms, RmType, At, ClimbPC, RemovePC
<1>3. IsSetKey(j.at) => j.at \in Object BY <1>2 DEF SchemaInv, StoreConforms
<1>4. \A pc \in {"rm_scard", "rm_srem"} : (pc = "rm_scard" => j.at \in Object) =>
        CallConforms([j EXCEPT !.ok = r.ok, !.pc = pc])
  BY <1>1, <1>2 DEF CallConforms, Job, UpdatePC, ClimbPC, RemovePC
<1>5. StoreConforms'
  BY <1>1, <1>2, EffectConforms, SchemaKeys DEF SchemaInv, TypeInv, RmType, Served, Executed
<1>6. JobsConform' BY <1>1, <1>2, <1>3, <1>4, GoConforms DEF SchemaInv, RmType
<1> QED BY <1>5, <1>6

LEMMA RmScardConforms ==
  ASSUME SchemaInv, NEW c \in Client, NEW r \in Reply, RmScard(c, r)
  PROVE  StoreConforms' /\ JobsConform'
<1> DEFINE j == job[c]
<1>1. j \in Job /\ HasArguments(j) /\ CallConforms(j) /\ r.ok \in BOOLEAN
  BY DEF SchemaInv, TypeInv, JobsGood, JobsConform, Reply
<1>2. /\ j.at \in InSchema /\ j.at \in Key /\ Parent(j.at) \in InSchema /\ Parent(j.at) \in Key
      /\ Base(j.at) \in Name
  BY <1>1, SchemaKeys, KeyParts DEF CallConforms, RmScard, At, ClimbPC, RemovePC
<1>3. ASSUME NEW some PROVE CallConforms([j EXCEPT !.pc = "rm_kids", !.ok = @ /\ some])
  BY <1>1, <1>2 DEF CallConforms, Job, UpdatePC, ClimbPC, RemovePC
<1>4. StoreConforms'
  BY <1>1, <1>2, EffectConforms, SchemaKeys DEF SchemaInv, TypeInv, RmScard, Served, Executed
<1>5. JobsConform' BY <1>1, <1>2, <1>3, GoConforms DEF SchemaInv, RmScard
<1> QED BY <1>4, <1>5

LEMMA RmKidsConforms ==
  ASSUME SchemaInv, NEW c \in Client, NEW r \in Reply, RmKids(c, r)
  PROVE  StoreConforms' /\ JobsConform'
<1> DEFINE j == job[c]
<1>1. j \in Job /\ HasArguments(j) /\ CallConforms(j) /\ r.ok \in BOOLEAN
  BY DEF SchemaInv, TypeInv, JobsGood, JobsConform, Reply
<1>2. /\ j.at \in InSchema /\ j.at \in Key /\ Parent(j.at) \in InSchema /\ Parent(j.at) \in Key
      /\ Base(j.at) \in Name
  BY <1>1, SchemaKeys, KeyParts DEF CallConforms, RmKids, At, ClimbPC, RemovePC
<1>3. ASSUME NEW pc \in {"rm_srem", "rm_kid"}, NEW kids, NEW ok
      PROVE  CallConforms([j EXCEPT !.pc = pc, !.kids = kids, !.ok = ok])
  BY <1>1, <1>2 DEF CallConforms, Job, UpdatePC, ClimbPC, RemovePC
<1>4. StoreConforms'
  BY <1>1, <1>2, EffectConforms, SchemaKeys DEF SchemaInv, TypeInv, RmKids, Served, Executed
<1>5. JobsConform' BY <1>1, <1>2, <1>3, GoConforms DEF SchemaInv, RmKids
<1> QED BY <1>4, <1>5

LEMMA RmKidConforms ==
  ASSUME SchemaInv, NEW c \in Client, NEW r \in Reply, RmKid(c, r)
  PROVE  StoreConforms' /\ JobsConform'
<1> DEFINE j == job[c]
<1>1. j \in Job /\ CallConforms(j) BY DEF SchemaInv, TypeInv, JobsGood, JobsConform
<1>2. j.at \in InSchema BY <1>1 DEF CallConforms, RmKid, At, ClimbPC, RemovePC
<1>3. PICK k \in j.kids :
        /\ Served(r, TRUE, Del(k))
        /\ Go(c, [j EXCEPT !.pc = IF j.kids = {k} THEN "rm_srem" ELSE "rm_kid", !.kids = @ \ {k}])
  BY DEF RmKid
<1>4. k \in Key /\ Base(k) \in Name BY <1>1, KeyParts DEF Job
<1>5. StoreConforms' BY <1>3, <1>4, EffectConforms DEF SchemaInv, TypeInv, Served, Executed
<1>6. CallConforms([j EXCEPT !.pc = IF j.kids = {k} THEN "rm_srem" ELSE "rm_kid", !.kids = @ \ {k}])
  BY <1>1, <1>2 DEF CallConforms, Job, UpdatePC, ClimbPC, RemovePC
<1>7. JobsConform' BY <1>3, <1>6, GoConforms DEF SchemaInv
<1> QED BY <1>5, <1>7

LEMMA RmSremConforms ==
  ASSUME SchemaInv, NEW c \in Client, NEW r \in Reply, RmSrem(c, r)
  PROVE  StoreConforms' /\ JobsConform'
<1> DEFINE j == job[c]
<1>1. j \in Job /\ HasArguments(j) /\ CallConforms(j) /\ r.ok \in BOOLEAN
  BY DEF SchemaInv, TypeInv, JobsGood, JobsConform, Reply
<1>2. /\ j.at \in InSchema /\ j.at \in Key /\ Parent(j.at) \in InSchema /\ Parent(j.at) \in Key
      /\ Base(j.at) \in Name
  BY <1>1, SchemaKeys, KeyParts DEF CallConforms, RmSrem, At, ClimbPC, RemovePC
<1>3. CallConforms([j EXCEPT !.pc = "rm_card", !.ok = @ /\ r.ok])
  BY <1>1, <1>2 DEF CallConforms, Job, UpdatePC, ClimbPC, RemovePC
<1>4. StoreConforms'
  BY <1>1, <1>2, EffectConforms, SchemaKeys DEF SchemaInv, TypeInv, RmSrem, Served, Executed
<1>5. JobsConform' BY <1>1, <1>2, <1>3, GoConforms DEF SchemaInv, RmSrem
<1> QED BY <1>4, <1>5

LEMMA RmCardConforms ==
  ASSUME SchemaInv, NEW c \in Client, NEW r \in Reply, RmCard(c, r)
  PROVE  StoreConforms' /\ JobsConform'
<1> DEFINE j == job[c]
<1>1. j \in Job /\ HasArguments(j) /\ CallConforms(j) /\ r.ok \in BOOLEAN
  BY DEF SchemaInv, TypeInv, JobsGood, JobsConform, Reply
<1>2. /\ j.at \in InSchema /\ j.at \in Key /\ Parent(j.at) \in InSchema /\ Parent(j.at) \in Key
      /\ Base(j.at) \in Name
  BY <1>1, SchemaKeys, KeyParts DEF CallConforms, RmCard, At, ClimbPC, RemovePC
<1>4. CallConforms([j EXCEPT !.pc = "rm_del"])
  BY <1>1, <1>2 DEF CallConforms, Job, UpdatePC, ClimbPC, RemovePC
<1>5. StoreConforms'
  BY <1>1, <1>2, EffectConforms, SchemaKeys DEF SchemaInv, TypeInv, RmCard, Served, Executed
<1>6. JobsConform' BY <1>1, <1>2, <1>4, RemoveParentConforms, GoConforms DEF SchemaInv, RmCard
<1> QED BY <1>5, <1>6

LEMMA RmDelConforms ==
  ASSUME SchemaInv, NEW c \in Client, NEW r \in Reply, RmDel(c, r)
  PROVE  StoreConforms' /\ JobsConform'
<1> DEFINE j == job[c]
<1>1. j \in Job /\ HasArguments(j) /\ CallConforms(j) /\ r.ok \in BOOLEAN
  BY DEF SchemaInv, TypeInv, JobsGood, JobsConform, Reply
<1>2. /\ j.at \in InSchema /\ j.at \in Key /\ Parent(j.at) \in InSchema /\ Parent(j.at) \in Key
      /\ Base(j.at) \in Name
  BY <1>1, SchemaKeys, KeyParts DEF CallConforms, RmDel, At, ClimbPC, RemovePC
<1>3. CallConforms(Return(j, j.ok /\ r.ok)) BY <1>1, RestingConforms DEF Job
<1>4. ASSUME j.stack # <<>> PROVE JobsConform'
  <2> DEFINE top == Last(j.stack)
  <2>1. StackConforms(Front(j.stack)) /\ top.key \in InSchema
    BY <1>1, <1>4, PopConforms DEF Job, CallConforms
  <2>2. Go(c, [j EXCEPT !.at = top.key, !.stack = Front(@), !.ok = top.ok /\ @ /\ r.ok])
    BY <1>4 DEF RmDel
  <2>3. j.pc = "rm_del" BY DEF RmDel, At
  <2> HIDE DEF top
  <2>4. CallConforms([j EXCEPT !.at = top.key, !.stack = Front(@), !.ok = top.ok /\ @ /\ r.ok])
    BY <1>1, <2>1, <2>3 DEF CallConforms, Job, UpdatePC, ClimbPC, RemovePC
  <2> QED BY <2>2, <2>4, GoConforms DEF SchemaInv
<1>5. StoreConforms'
  BY <1>1, <1>2, EffectConforms, SchemaKeys DEF SchemaInv, TypeInv, RmDel, Served, Executed
<1>6. JobsConform' BY <1>1, <1>2, <1>3, <1>4, GoConforms DEF SchemaInv, RmDel
<1> QED BY <1>5, <1>6

LEMMA NextItemConforms ==
  ASSUME NEW j \in Job, CallConforms(j), j.todo # <<>>, NEW ok \in BOOLEAN
  PROVE  CallConforms(NextItem(j, ok))
<1> DEFINE k == [j EXCEPT !.ok = @ /\ (IsRoot(Head(j.todo).at) => ok), !.todo = Tail(@)]
<1>1. Tail(j.todo) \in Seq(Item) /\ TodoConforms(Tail(j.todo))
  BY SeqParts, ItemsConform DEF Job, CallConforms
<1>2. k \in Job /\ StackConforms(k.stack) /\ TodoConforms(k.todo) BY <1>1 DEF Job, CallConforms
<1>3. NextItem(j, ok) = IF k.todo = <<>> THEN Return(k, k.ok) ELSE [k EXCEPT !.pc = "add_probe"]
  BY DEF NextItem
<1> HIDE DEF k
<1>4. CallConforms(Return(k, k.ok)) BY <1>2, RestingConforms DEF Job
<1>5. CallConforms([k EXCEPT !.pc = "add_probe"])
  BY <1>2 DEF CallConforms, Job, UpdatePC, ClimbPC, RemovePC
<1> QED BY <1>3, <1>4, <1>5

LEMMA AddProbeConforms ==
  ASSUME SchemaInv, NEW c \in Client, NEW r \in Reply, AddProbe(c, r)
  PROVE  StoreConforms' /\ JobsConform'
<1> DEFINE j == job[c]
<1> DEFINE i == Head(j.todo)
<1>1. j \in Job /\ HasArguments(j) /\ CallConforms(j) /\ r.ok \in BOOLEAN
  BY DEF SchemaInv, TypeInv, JobsGood, JobsConform, Reply
<1>2. j.todo \in Seq(Item) /\ j.todo # <<>> /\ TodoConforms(j.todo) /\ j.pc \in AddPC
  BY <1>1 DEF HasArguments, Job, CallConforms, AddProbe, At, AddPC
<1>3. i \in Item /\ ItemConforms(i) BY <1>2, SeqParts, ItemsConform
<1>4. Served(r, Fits(i), Keep) /\ (Go(c, NextItem(j, FALSE)) \/ Go(c, [j EXCEPT !.pc = "add_write"]))
  BY DEF AddProbe
<1> HIDE DEF i
<1>5. StoreConforms'
  BY <1>3, <1>4, EffectConforms, CommandAssumption, SchemaKeys
  DEF SchemaInv, TypeInv, Served, Executed, Item, ItemConforms
<1>6. CallConforms(NextItem(j, FALSE)) /\ CallConforms([j EXCEPT !.pc = "add_write"])
  BY <1>1, <1>2, NextItemConforms DEF CallConforms, Job, UpdatePC, ClimbPC, RemovePC
<1>7. JobsConform' BY <1>4, <1>6, GoConforms DEF SchemaInv
<1> QED BY <1>5, <1>7

LEMMA AddWriteConforms ==
  ASSUME SchemaInv, NEW c \in Client, NEW r \in Reply, AddWrite(c, r)
  PROVE  StoreConforms' /\ JobsConform'
<1> DEFINE j == job[c]
<1> DEFINE i == Head(j.todo)
<1>1. j \in Job /\ HasArguments(j) /\ CallConforms(j) /\ r.ok \in BOOLEAN
  BY DEF SchemaInv, TypeInv, JobsGood, JobsConform, Reply
<1>2. j.todo \in Seq(Item) /\ j.todo # <<>> /\ TodoConforms(j.todo) /\ j.pc \in AddPC
  BY <1>1 DEF HasArguments, Job, CallConforms, AddWrite, At, AddPC
<1>3. i \in Item /\ ItemConforms(i) BY <1>2, SeqParts, ItemsConform
<1>4. Served(r, Fits(i), Submit(i)) /\ Go(c, NextItem(j, i.object /\ r.ok))
  BY DEF AddWrite
<1> HIDE DEF i
<1>5. StoreConforms'
  BY <1>3, <1>4, EffectConforms, CommandAssumption, SchemaKeys
  DEF SchemaInv, TypeInv, Served, Executed, Item, ItemConforms, Submit
<1>6. CallConforms(NextItem(j, i.object /\ r.ok)) BY <1>1, <1>2, <1>3, NextItemConforms DEF Item
<1>7. JobsConform' BY <1>4, <1>6, GoConforms DEF SchemaInv
<1> QED BY <1>5, <1>7
-----------------------------------------------------------------------------
(***************************************************************************)
(* Calls, the pending FLUSHALL, and a killed client.                       *)
(***************************************************************************)
LEMMA CallConformsOnStart ==
  ASSUME SchemaInv, NEW c \in Client, NEW j, CallConforms(j), Call(c, j)
  PROVE  StoreConforms' /\ JobsConform'
<1>1. JobsConform' BY GoConforms DEF SchemaInv, Call
<1>2. StoreConforms' BY DEF SchemaInv, Call, StoreConforms, IsSetKey, IsHashKey
<1> QED BY <1>1, <1>2

LEMMA UpdateConforms ==
  ASSUME SchemaInv, NEW c \in Client, Update(c) PROVE StoreConforms' /\ JobsConform'
<1>1. PICK k \in UpdateKey, v \in Value :
        Call(c, [Idle EXCEPT !.pc = "upd_keys", !.op = "update", !.key = k, !.value = v])
  BY DEF Update
<1>2. CallConforms([Idle EXCEPT !.pc = "upd_keys", !.op = "update", !.key = k, !.value = v])
  BY EmptyConforms DEF Idle, CallConforms, UpdatePC, ClimbPC, RemovePC
<1> QED BY <1>1, <1>2, CallConformsOnStart

LEMMA DeleteConforms ==
  ASSUME SchemaInv, NEW c \in Client, Delete(c) PROVE StoreConforms' /\ JobsConform'
<1>1. PICK k \in DeleteKey : Call(c, [Idle EXCEPT !.pc = "del_keys", !.op = "delete", !.key = k])
  BY DEF Delete
<1>2. CallConforms([Idle EXCEPT !.pc = "del_keys", !.op = "delete", !.key = k])
  BY EmptyConforms DEF Idle, CallConforms, UpdatePC, ClimbPC, RemovePC
<1> QED BY <1>1, <1>2, CallConformsOnStart

LEMMA AddConfigConforms ==
  ASSUME SchemaInv, NEW c \in Client, AddConfig(c) PROVE StoreConforms' /\ JobsConform'
<1>1. PICK d \in Document : Call(c, [Idle EXCEPT !.pc = "add_probe", !.op = "add", !.todo = d])
  BY DEF AddConfig
<1>2. TodoConforms(d) BY SchemaAssumption DEF TodoConforms
<1>3. CallConforms([Idle EXCEPT !.pc = "add_probe", !.op = "add", !.todo = d])
  BY <1>2, EmptyConforms DEF Idle, CallConforms, UpdatePC, ClimbPC, RemovePC
<1> QED BY <1>1, <1>3, CallConformsOnStart

LEMMA FlushAllConforms ==
  ASSUME SchemaInv, NEW c \in Client, FlushAll(c) PROVE StoreConforms' /\ JobsConform'
<1>1. PICK r \in Reply : Executed(r, TRUE, Flush) BY DEF FlushAll
<1>2. Flush => StoreConforms'
  BY DEF Flush, EmptyHash, StoreConforms, IsSetKey, IsHashKey
<1>3. Keep => StoreConforms' BY DEF SchemaInv, Keep, StoreConforms, IsSetKey, IsHashKey
<1>4. JobsConform' BY DEF FlushAll, SchemaInv, JobsConform
<1> QED BY <1>1, <1>2, <1>3, <1>4 DEF Executed

LEMMA RestConforms ==
  ASSUME SchemaInv, NEW c \in Client, Clear(c) \/ Kill(c) PROVE StoreConforms' /\ JobsConform'
<1>1. StoreConforms' BY DEF Clear, Kill, SchemaInv, StoreConforms, IsSetKey, IsHashKey
<1>2. JobsConform' BY RestingConforms, GoConforms DEF Clear, Kill, SchemaInv, JobsConform
<1> QED BY <1>1, <1>2

LEMMA InitConforms == Init => StoreConforms /\ JobsConform
<1> SUFFICES ASSUME Init PROVE StoreConforms /\ JobsConform OBVIOUS
<1>1. \A x \in ToSet(Seed) : ItemConforms(x) BY SchemaAssumption, CommandAssumption DEF ToSet
<1>2. ASSUME NEW k \in Key, IsSetKey(k) PROVE k \in Object
  BY <1>1, <1>2 DEF IsSetKey, Init, ItemConforms
<1>3. ASSUME NEW k \in Key, IsHashKey(k) PROVE k \in Record
  <2>1. PICK f \in Name : hash[k][f] # Absent BY <1>3 DEF IsHashKey
  <2>2. PICK m : m \in Leaves(Seed, k, f) BY <2>1, SeedValue
  <2>3. m \in 1 .. Len(Seed) /\ ~Seed[m].object /\ Seed[m].at = k BY <2>2 DEF Leaves
  <2>4. ItemConforms(Seed[m]) BY <2>3, SchemaAssumption
  <2> QED BY <2>3, <2>4 DEF ItemConforms
<1>4. JobsConform BY RestingConforms DEF Init, JobsConform
<1> QED BY <1>2, <1>3, <1>4 DEF StoreConforms

LEMMA NextConforms == SchemaInv /\ [Next]_vars => SchemaInv'
<1> SUFFICES ASSUME SchemaInv, [Next]_vars PROVE SchemaInv' OBVIOUS
<1>1. CASE UNCHANGED vars
  BY <1>1, NextTypes DEF vars, SchemaInv, StoreConforms, JobsConform, IsSetKey, IsHashKey
<1>2. ASSUME NEW c \in Client, Update(c) \/ Delete(c) \/ AddConfig(c) \/ Clear(c) \/ Kill(c)
      PROVE  StoreConforms' /\ JobsConform'
  BY <1>2, UpdateConforms, DeleteConforms, AddConfigConforms, RestConforms
<1>3. ASSUME NEW c \in Client, FlushAll(c) PROVE StoreConforms' /\ JobsConform'
  BY <1>3, FlushAllConforms
<1>4. ASSUME NEW c \in Client, NEW r \in Reply, Command(c, r) PROVE StoreConforms' /\ JobsConform'
  BY <1>4, UpdKeysConforms, UpdHexistsConforms, ValHsetConforms, AddHsetConforms,
     ClimbSaddConforms, ClimbKeysConforms, DelKeysConforms, DelIsHashConforms,
     DelHexistsConforms, DelHdelConforms, RmTypeConforms, RmScardConforms, RmKidsConforms,
     RmKidConforms, RmSremConforms, RmCardConforms, RmDelConforms, AddProbeConforms,
     AddWriteConforms DEF Command, Writing, Removing
<1>5. TypeInv' BY NextTypes DEF SchemaInv
<1> QED BY <1>1, <1>2, <1>3, <1>4, <1>5 DEF Next, Step, SchemaInv

(***************************************************************************)
(* A call that conforms asks for a set where the schema has one, but for   *)
(* RemoveKey of a root, which is its own parent and may be a record.       *)
(***************************************************************************)
LEMMA ConformsFits == SchemaInv => RefusedOnlyAtRootRecord
<1> SUFFICES ASSUME SchemaInv, NEW c \in Client, ~NextFits(job[c])
             PROVE  /\ job[c].pc \in {"rm_srem", "rm_card"}
                    /\ IsRoot(job[c].at) /\ IsHashKey(job[c].at)
  BY DEF RefusedOnlyAtRootRecord
<1> DEFINE j == job[c]
<1>1. j \in Job /\ HasArguments(j) /\ CallConforms(j)
  BY DEF SchemaInv, TypeInv, JobsGood, JobsConform
<1>2. \A k \in Object : SetFits(k) BY KindsFit DEF SchemaInv
<1>3. \A k \in Record : HashFits(k) BY KindsFit DEF SchemaInv
<1>4. ASSUME j.pc \in {"upd_hexists", "add_hset", "val_hset", "del_hexists", "del_hdel"}
      PROVE  HashFits(Parent(j.key))
  BY <1>1, <1>3, <1>4, SchemaKeys DEF CallConforms, UpdatePC
<1>5. ASSUME j.pc = "climb_sadd" PROVE SetFits(Parent(j.at))
  BY <1>1, <1>2, <1>5, SchemaKeys DEF CallConforms, ClimbPC, RemovePC
<1>6. ASSUME j.pc = "rm_scard" PROVE SetFits(j.at) BY <1>1, <1>2, <1>6 DEF CallConforms
<1>7. ASSUME j.pc \in {"add_probe", "add_write"} PROVE Fits(Head(j.todo))
  <2>1. ItemConforms(Head(j.todo))
    BY <1>1, <1>7, ItemsConform DEF HasArguments, AddPC, CallConforms, Job
  <2> QED BY <2>1, <1>2, <1>3 DEF ItemConforms, Fits
<1>8. j.pc \in {"rm_srem", "rm_card"} /\ ~SetFits(Parent(j.at))
  BY <1>4, <1>5, <1>6, <1>7 DEF NextFits, AddPC
<1>9. IsRoot(j.at)
  <2>1. j.at \in InSchema BY <1>1, <1>8 DEF CallConforms, RemovePC
  <2> QED BY <1>2, <1>8, <2>1, SchemaKeys
<1>10. IsHashKey(j.at) BY <1>8, <1>9 DEF Parent, SetFits
<1> QED BY <1>8, <1>9, <1>10

\* Whatever the clients do at the same time and whatever fails, Redis refuses no
\* command but the SREM and SCARD by which RemoveKey asks a root that holds fields
\* for its members, as its own parent.
THEOREM CommandsFit == Spec => []RefusedOnlyAtRootRecord
<1>1. Init => SchemaInv BY InitTypes, InitConforms DEF SchemaInv
<1>2. SchemaInv /\ [Next]_vars => SchemaInv' BY NextConforms
<1>3. SchemaInv => RefusedOnlyAtRootRecord BY ConformsFits
<1> QED BY <1>1, <1>2, <1>3, PTL DEF Spec
=============================================================================
