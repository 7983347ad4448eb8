-------------------- MODULE RedisDataManagerReader_proof --------------------
(***************************************************************************)
(* AnswersWereTrue for any clients, keys, documents, schema and bounds.    *)
(* It needs the schema: what ReturnValue has learned from one command may  *)
(* be untrue at the next, except the kind of entry a key can hold, and     *)
(* every branch it takes is right for every content of that kind.          *)
(***************************************************************************)
EXTENDS RedisDataManagerReader, RedisDataManager_proof

AskingPC == {"keys", "parent", "hget", "type", "smembers", "hkeys"}

Answer == [names : SUBSET Name, value : Value \cup {Absent}]

ReaderState ==
  [pc : AskingPC \cup {"idle", "dump", "answer"}, calls : Nat, key : Key \cup {NoKey},
   todo : SUBSET Key, answer : Answer, seen : SUBSET Answer, lost : BOOLEAN]

\* The inductive invariant, in parts.
ReaderTyped ==
  /\ reader \in ReaderState
  /\ reader.pc \in AskingPC \/ reader.seen # {} => reader.key \in Key

\* The history goes on as long as ReturnValue(key) asks.
Watching == reader.pc \in AskingPC => Contents(reader.key) \subseteq reader.seen

\* What a branch that ReturnValue took says of the key, whatever happened since.
Branched ==
  /\ reader.pc \in {"parent", "hget"} /\ reader.key \in InSchema =>
       Empty \in reader.seen \/ reader.lost
  /\ reader.pc = "hget" => Parent(reader.key) \in Record
  /\ reader.pc = "type" => reader.key \in InSchema
  /\ reader.pc = "smembers" => reader.key \in Object
  /\ reader.pc = "hkeys" => reader.key \in Record

ReaderInv == SchemaInv /\ ReaderTyped /\ Watching /\ Branched /\ AnswersWereTrue
-----------------------------------------------------------------------------
(***************************************************************************)
(* What a key can hold.                                                    *)
(***************************************************************************)
LEMMA AnswerTypes ==
  /\ Empty \in Answer /\ Listing({}) = Empty
  /\ \A names \in SUBSET Name : Listing(names) \in Answer
BY DEF Empty, Listing, Answer

LEMMA ContentTypes ==
  ASSUME StoreTyped, NEW k \in Key
  PROVE  /\ Content(k) \in Answer /\ ValueOf(k) \in Answer /\ Fields(k) \subseteq Name
         /\ Contents(k) \subseteq Answer
<1>1. set[k] \subseteq Name /\ Fields(k) \subseteq Name BY DEF StoreTyped, Fields
<1>2. Listing(set[k] \cup Fields(k)) \in Answer BY <1>1, AnswerTypes
<1>3. hash[Parent(k)][Base(k)] \in Value \cup {Absent} BY KeyParts DEF StoreTyped
<1>4. ValueOf(k) \in Answer BY <1>3, AnswerTypes DEF ValueOf, Answer
<1> QED BY <1>1, <1>2, <1>4 DEF Content, Contents

\* A field of a key that holds no fields has no value.
LEMMA NoValue ==
  ASSUME StoreTyped, NEW k \in Key, ~IsHashKey(Parent(k))
  PROVE  ValueOf(k) = Empty
<1>1. hash[Parent(k)][Base(k)] = Absent BY KeyParts DEF IsHashKey
<1> QED BY <1>1 DEF ValueOf, Empty

LEMMA SchemaContent ==
  ASSUME StoreTyped, StoreConforms, NEW k \in Key
  PROVE  /\ Stored(k) => k \in InSchema
         /\ k \in InSchema /\ ~Stored(k) => Content(k) = Empty
         /\ k \in Object => Content(k) = Listing(set[k])
         /\ k \in Record => Content(k) = Listing(Fields(k))
         /\ Parent(k) \in Record =>
              ValueOf(k) \in Contents(k) \/ (k \in InSchema /\ ValueOf(k) = Empty)
<1>1. ASSUME k \in InSchema, ~Stored(k) PROVE Content(k) = Empty
  <2>1. ~IsHashKey(Parent(k))
    <3>1. CASE IsRoot(k) BY <1>1, <3>1 DEF Stored, Parent
    <3>2. CASE ~IsRoot(k)
      <4>1. Parent(k) \in Object /\ Parent(k) \in Key BY <1>1, <3>2, SchemaKeys, KeyParts
      <4> QED BY <4>1, KindsFit DEF SetFits
    <3> QED BY <3>1, <3>2
  <2> QED BY <1>1, <2>1, NoValue DEF Content
<1>2. ASSUME k \in Object PROVE Content(k) = Listing(set[k])
  <2>1. ~IsHashKey(k) BY <1>2, KindsFit DEF SetFits
  <2>2. Fields(k) = {} BY <2>1 DEF Fields, IsHashKey
  <2>3. CASE IsSetKey(k) BY <2>2, <2>3 DEF Content, Stored
  <2>4. CASE ~IsSetKey(k)
    BY <1>1, <1>2, <2>1, <2>4, AnswerTypes DEF Stored, IsSetKey, InSchema
  <2> QED BY <2>3, <2>4
<1>3. ASSUME k \in Record PROVE Content(k) = Listing(Fields(k))
  <2>1. ~IsSetKey(k) BY <1>3, KindsFit DEF HashFits
  <2>2. CASE IsHashKey(k) BY <2>1, <2>2 DEF Content, Stored, IsSetKey
  <2>3. CASE ~IsHashKey(k)
    <3>1. Fields(k) = {} BY <2>3 DEF Fields, IsHashKey
    <3> QED BY <1>1, <1>3, <2>1, <2>3, <3>1, AnswerTypes DEF Stored, InSchema
  <2> QED BY <2>2, <2>3
<1>4. Stored(k) => k \in InSchema BY DEF Stored, StoreConforms, InSchema
<1>5. ASSUME Parent(k) \in Record
      PROVE  ValueOf(k) \in Contents(k) \/ (k \in InSchema /\ ValueOf(k) = Empty)
  <2>1. CASE k \notin InSchema BY <1>4, <2>1 DEF Content, Contents
  <2>2. CASE k \in InSchema
    <3>1. IsRoot(k) BY <1>5, <2>2, SchemaKeys, SchemaAssumption
    <3> QED BY <2>2, <3>1 DEF Contents
  <2> QED BY <2>1, <2>2
<1> QED BY <1>1, <1>2, <1>3, <1>4, <1>5
-----------------------------------------------------------------------------
(***************************************************************************)
(* The steps of the clients, seen by the reader.                           *)
(***************************************************************************)
LEMMA ClientsKeep == ASSUME ReaderInv, Next, Watch PROVE ReaderInv'
<1>1. SchemaInv' BY NextConforms DEF ReaderInv
<1>2. PICK k : k = reader.key /\
        reader' = [reader EXCEPT !.seen = IF @ = {} THEN {} ELSE @ \cup Contents(k)']
  BY DEF Watch
<1>3. PICK new : new = Contents(k)' OBVIOUS
<1>4. reader \in ReaderState BY DEF ReaderInv, ReaderTyped
<1>5. reader' = [reader EXCEPT !.seen = IF reader.seen = {} THEN {} ELSE reader.seen \cup new]
  BY <1>2, <1>3, <1>4 DEF ReaderState
<1>6. /\ reader'.pc = reader.pc /\ reader'.key = k /\ reader'.lost = reader.lost
      /\ reader'.answer = reader.answer /\ reader'.calls = reader.calls
      /\ reader'.todo = reader.todo /\ reader.seen \subseteq reader'.seen
      /\ reader'.seen = IF reader.seen = {} THEN {} ELSE reader.seen \cup new
  BY <1>2, <1>4, <1>5 DEF ReaderState
<1>7. ReaderTyped'
  <2>1. ASSUME reader.seen # {} PROVE new \subseteq Answer
    <3>1. k \in Key BY <1>2, <2>1 DEF ReaderInv, ReaderTyped
    <3>2. StoreTyped' BY <1>1 DEF SchemaInv, TypeInv
    <3>3. set'[k] \subseteq Name /\ Fields(k)' \subseteq Name BY <3>1, <3>2 DEF StoreTyped, Fields
    <3>4. hash'[Parent(k)][Base(k)] \in Value \cup {Absent} BY <3>1, <3>2, KeyParts DEF StoreTyped
    <3>5. ValueOf(k)' \in Answer BY <3>4, AnswerTypes DEF ValueOf, Answer
    <3>6. Listing(set'[k] \cup Fields(k)') \in Answer BY <3>3, AnswerTypes
    <3>7. Content(k)' \in Answer BY <3>5, <3>6 DEF Content, Listing
    <3> QED BY <1>3, <3>5, <3>7 DEF Contents
  <2>2. reader' \in ReaderState BY <1>4, <1>5, <2>1 DEF ReaderState
  <2> QED BY <1>2, <1>6, <2>2 DEF ReaderInv, ReaderTyped
<1>8. Watching'
  <2>1. ASSUME reader'.pc \in AskingPC PROVE new \subseteq reader'.seen
    <3>1. Contents(k) \subseteq reader.seen BY <1>2, <1>6, <2>1 DEF ReaderInv, Watching
    <3>2. reader.seen # {} BY <3>1 DEF Contents
    <3> QED BY <1>6, <3>2
  <2>2. Contents(reader.key)' = new
    <3>1. reader'.key = k BY <1>6
    <3> QED BY <1>3, <3>1
            DEF Contents, Content, Stored, IsSetKey, IsHashKey, Listing, Fields, ValueOf
  <2> QED BY <2>1, <2>2 DEF Watching
<1>9. Branched' BY <1>2, <1>6 DEF ReaderInv, Branched
<1>10. AnswersWereTrue' BY <1>6 DEF ReaderInv, AnswersWereTrue, ReaderAt
<1> QED BY <1>1, <1>7, <1>8, <1>9, <1>10 DEF ReaderInv
-----------------------------------------------------------------------------
(***************************************************************************)
(* The reader's own steps.                                                 *)
(***************************************************************************)
LEMMA ReadsKeep ==
  ASSUME SchemaInv, NEW r \in Reply, NEW fits \in BOOLEAN,
         Served(r, fits, Keep), UNCHANGED <<job, updates>>
  PROVE  SchemaInv' /\ UNCHANGED <<set, hash>> /\ r.ok \in BOOLEAN /\ (r.ok => fits)
<1>1. r \in Outcome(fits) /\ faults' = faults + (IF r.ok = fits THEN 0 ELSE 1)
      /\ UNCHANGED <<set, hash>> /\ UNCHANGED <<flushing, ops>>
  BY DEF Served, Executed, Keep
<1>2. CountsTyped' BY <1>1, CountsStay DEF SchemaInv, TypeInv
<1>3. TypeInv' BY <1>1, <1>2 DEF SchemaInv, TypeInv, StoreTyped, JobsGood, UpdatesTyped
<1>4. StoreConforms' BY <1>1 DEF SchemaInv, StoreConforms, IsSetKey, IsHashKey
<1>5. JobsConform' BY DEF SchemaInv, JobsConform
<1>6. r.ok \in BOOLEAN /\ (r.ok => fits) BY <1>1, OutcomeFacts DEF SchemaInv, TypeInv, CountsTyped
<1> QED BY <1>1, <1>3, <1>4, <1>5, <1>6 DEF SchemaInv

\* The reader may be given what it has where nothing else changes.
LEMMA UnwatchedKeep == ASSUME SchemaInv, UNCHANGED vars PROVE SchemaInv' /\ UNCHANGED <<set, hash>>
BY NextConforms DEF vars

\* ReturnValue(k) begins.
LEMMA LookKeeps ==
  ASSUME StoreTyped, SchemaInv', UNCHANGED <<set, hash>>,
         NEW s \in ReaderState, NEW k \in Key, reader' = Look(s, k)
  PROVE  ReaderInv'
<1>1. PICK new : new = Contents(k) OBVIOUS
<1>2. new \subseteq Answer BY <1>1, ContentTypes
<1>3. reader' = [s EXCEPT !.pc = "keys", !.key = k, !.answer = Empty,
                          !.seen = new, !.lost = FALSE]
  BY <1>1 DEF Look
<1>4. reader'.pc = "keys" /\ reader'.key = k /\ reader'.seen = new BY <1>3 DEF ReaderState
<1>5. reader' \in ReaderState
  <2>1. "keys" \in AskingPC \cup {"idle", "dump", "answer"} BY DEF AskingPC
  <2>2. new \in SUBSET Answer BY <1>2
  <2> QED BY <2>1, <2>2, <1>3, AnswerTypes DEF ReaderState
<1>6. ReaderTyped' BY <1>4, <1>5 DEF ReaderTyped
<1>7. Watching'
  BY <1>1, <1>4
  DEF Watching, Contents, Content, Stored, IsSetKey, IsHashKey, Listing, Fields, ValueOf
<1>8. Branched' /\ AnswersWereTrue' BY <1>4 DEF Branched, AnswersWereTrue, ReaderAt
<1> QED BY <1>6, <1>7, <1>8 DEF ReaderInv

LEMMA RestState == ASSUME NEW n \in Nat PROVE
  [pc |-> "idle", calls |-> n, key |-> NoKey, todo |-> {}, answer |-> Empty,
   seen |-> {}, lost |-> FALSE] \in ReaderState
BY AnswerTypes DEF ReaderState

\* The reader is at rest again.
LEMMA RestKeeps ==
  ASSUME SchemaInv', NEW n \in Nat, reader' = [Resting EXCEPT !.calls = n]
  PROVE  ReaderInv'
<1>1. reader' = [pc |-> "idle", calls |-> n, key |-> NoKey, todo |-> {}, answer |-> Empty,
                 seen |-> {}, lost |-> FALSE]
  BY DEF Resting
<1>2. reader' \in ReaderState BY <1>1, RestState
<1>3. ReaderTyped' /\ Watching' BY <1>1, <1>2 DEF ReaderTyped, Watching, AskingPC
<1>4. Branched' /\ AnswersWereTrue' BY <1>1 DEF Branched, AnswersWereTrue, ReaderAt
<1> QED BY <1>3, <1>4 DEF ReaderInv

LEMMA QueryKeeps == ASSUME ReaderInv, Query PROVE ReaderInv'
<1>1. PICK k \in QueryKey : reader' = Look([reader EXCEPT !.calls = @ + 1], k) BY DEF Query
<1>2. k \in Key BY ReaderAssumption
<1>3. [reader EXCEPT !.calls = @ + 1] \in ReaderState BY DEF ReaderInv, ReaderTyped, ReaderState
<1>4. SchemaInv' /\ UNCHANGED <<set, hash>> BY UnwatchedKeep DEF Query, ReaderInv
<1> QED BY <1>1, <1>2, <1>3, <1>4, LookKeeps DEF ReaderInv, SchemaInv, TypeInv

LEMMA DumpKeeps == ASSUME ReaderInv, Dump PROVE ReaderInv'
<1>1. reader \in ReaderState BY DEF ReaderInv, ReaderTyped
<1>2. reader' = [reader EXCEPT !.pc = "dump", !.calls = @ + 1] BY DEF Dump
<1>3. SchemaInv' BY UnwatchedKeep DEF Dump, ReaderInv
<1>4. reader'.pc = "dump" /\ reader'.seen = reader.seen /\ reader'.key = reader.key
  BY <1>1, <1>2 DEF ReaderState
<1>5. reader' \in ReaderState
  <2>1. "dump" \in AskingPC \cup {"idle", "dump", "answer"} /\ reader.calls + 1 \in Nat
    BY <1>1 DEF ReaderState
  <2> QED BY <2>1, <1>1, <1>2 DEF ReaderState
<1>6. ReaderTyped' /\ Watching' BY <1>4, <1>5 DEF ReaderInv, ReaderTyped, Watching, AskingPC
<1>7. Branched' /\ AnswersWereTrue' BY <1>4 DEF Branched, AnswersWereTrue, ReaderAt
<1> QED BY <1>3, <1>6, <1>7 DEF ReaderInv

LEMMA DumpKeysKeeps == ASSUME ReaderInv, NEW r \in Reply, DumpKeys(r) PROVE ReaderInv'
<1> DEFINE found == IF r.ok THEN {k \in Key : Stored(k)} ELSE {}
           rest  == [Resting EXCEPT !.calls = reader.calls]
<1>1. SchemaInv' /\ UNCHANGED <<set, hash>> BY ReadsKeep DEF DumpKeys, ReaderInv
<1>2. reader.calls \in Nat BY DEF ReaderInv, ReaderTyped, ReaderState
<1>3. found \subseteq Key OBVIOUS
<1>4. rest \in ReaderState BY <1>2, AnswerTypes DEF Resting, ReaderState
<1>5. IF found = {} THEN reader' = rest
      ELSE \E k \in found : reader' = Look([rest EXCEPT !.todo = found \ {k}], k)
  BY DEF DumpKeys
<1> HIDE DEF found
<1>6. CASE found = {} BY <1>1, <1>2, <1>5, <1>6, RestKeeps
<1>7. CASE found # {}
  <2> HIDE DEF rest
  <2>1. PICK k \in found : reader' = Look([rest EXCEPT !.todo = found \ {k}], k) BY <1>5, <1>7
  <2>2. [rest EXCEPT !.todo = found \ {k}] \in ReaderState BY <1>3, <1>4 DEF ReaderState
  <2> QED BY <1>1, <1>3, <2>1, <2>2, LookKeeps DEF ReaderInv, SchemaInv, TypeInv
<1> QED BY <1>6, <1>7

LEMMA AnsweredKeeps == ASSUME ReaderInv, Answered PROVE ReaderInv'
<1>1. SchemaInv' /\ UNCHANGED <<set, hash>> BY UnwatchedKeep DEF Answered, ReaderInv
<1>2. reader \in ReaderState /\ reader.calls \in Nat BY DEF ReaderInv, ReaderTyped, ReaderState
<1>3. CASE reader.todo = {} BY <1>1, <1>2, <1>3, RestKeeps DEF Answered
<1>4. CASE reader.todo # {}
  <2>1. PICK k \in reader.todo : reader' = Look([reader EXCEPT !.todo = @ \ {k}], k)
    BY <1>4 DEF Answered
  <2>2. k \in Key BY <1>2 DEF ReaderState
  <2>3. [reader EXCEPT !.todo = @ \ {k}] \in ReaderState BY <1>2 DEF ReaderState
  <2> QED BY <1>1, <2>1, <2>2, <2>3, LookKeeps DEF ReaderInv, SchemaInv, TypeInv
<1> QED BY <1>3, <1>4
-----------------------------------------------------------------------------
(***************************************************************************)
(* A command of ReturnValue: it goes on to ask, or it returns an answer.   *)
(***************************************************************************)
LEMMA AskFacts ==
  ASSUME ReaderInv, NEW pc \in AskingPC, NEW r \in Reply, NEW fits \in BOOLEAN, NEW s,
         Ask(pc, r, fits, s)
  PROVE  /\ SchemaInv' /\ UNCHANGED <<set, hash>> /\ r.ok \in BOOLEAN /\ (r.ok => fits)
         /\ reader \in ReaderState /\ reader.pc = pc /\ reader.key \in Key
         /\ Content(reader.key) \in reader.seen /\ Contents(reader.key) \subseteq reader.seen
         /\ reader' = [s EXCEPT !.lost = @ \/ r.ok # fits]
<1>1. Served(r, fits, Keep) /\ UNCHANGED <<job, updates>> /\ reader.pc = pc BY DEF Ask, ReaderAt
<1>2. SchemaInv' /\ UNCHANGED <<set, hash>> /\ r.ok \in BOOLEAN /\ (r.ok => fits)
  BY <1>1, ReadsKeep DEF ReaderInv
<1>3. Contents(reader.key) \subseteq reader.seen /\ Content(reader.key) \in reader.seen
  BY <1>1 DEF ReaderInv, Watching, Contents
<1> QED BY <1>1, <1>2, <1>3 DEF ReaderInv, ReaderTyped, Ask

LEMMA GotoKeeps ==
  ASSUME ReaderInv, NEW pc \in AskingPC, NEW to \in AskingPC, NEW r \in Reply,
         NEW fits \in BOOLEAN, Ask(pc, r, fits, Goto(to)),
         to \in {"parent", "hget"} /\ reader.key \in InSchema =>
           Empty \in reader.seen \/ reader.lost \/ r.ok # fits,
         to = "hget" => Parent(reader.key) \in Record,
         to = "type" => reader.key \in InSchema,
         to = "smembers" => reader.key \in Object,
         to = "hkeys" => reader.key \in Record
  PROVE  ReaderInv'
<1>1. /\ SchemaInv' /\ UNCHANGED <<set, hash>> /\ r.ok \in BOOLEAN
      /\ reader \in ReaderState /\ reader.key \in Key
      /\ Contents(reader.key) \subseteq reader.seen
      /\ reader' = [Goto(to) EXCEPT !.lost = @ \/ r.ok # fits]
  BY AskFacts
<1>2. /\ reader' \in ReaderState /\ reader'.pc = to /\ reader'.key = reader.key
      /\ reader'.seen = reader.seen /\ (reader.lost \/ r.ok # fits => reader'.lost)
  BY <1>1 DEF Goto, ReaderState
<1>3. ReaderTyped' BY <1>1, <1>2 DEF ReaderTyped
<1>4. Watching'
  BY <1>1, <1>2
  DEF Watching, Contents, Content, Stored, IsSetKey, IsHashKey, Listing, Fields, ValueOf
<1>5. Branched' BY <1>2 DEF Branched
<1>6. AnswersWereTrue' BY <1>2 DEF AnswersWereTrue, ReaderAt, AskingPC
<1> QED BY <1>1, <1>3, <1>4, <1>5, <1>6 DEF ReaderInv

LEMMA ReturnsKeep ==
  ASSUME ReaderInv, NEW pc \in AskingPC, NEW r \in Reply, NEW fits \in BOOLEAN,
         NEW a \in Answer, Ask(pc, r, fits, Returns(a)),
         a \in reader.seen \/ (a = Empty /\ (reader.lost \/ r.ok # fits))
  PROVE  ReaderInv'
<1>1. /\ SchemaInv' /\ UNCHANGED <<set, hash>> /\ r.ok \in BOOLEAN
      /\ reader \in ReaderState /\ reader.key \in Key
      /\ reader' = [Returns(a) EXCEPT !.lost = @ \/ r.ok # fits]
  BY AskFacts
<1>2. /\ reader' \in ReaderState /\ reader'.pc = "answer" /\ reader'.key = reader.key
      /\ reader'.seen = reader.seen /\ reader'.answer = a
      /\ (reader.lost \/ r.ok # fits => reader'.lost)
  BY <1>1 DEF Returns, ReaderState
<1>3. ReaderTyped' BY <1>1, <1>2 DEF ReaderTyped
<1>4. Watching' /\ Branched' BY <1>2 DEF Watching, Branched, AskingPC
<1>5. AnswersWereTrue' BY <1>2 DEF AnswersWereTrue, ReaderAt
<1> QED BY <1>1, <1>3, <1>4, <1>5 DEF ReaderInv

LEMMA ReadKeysKeeps == ASSUME ReaderInv, NEW r \in Reply, ReadKeys(r) PROVE ReaderInv'
<1> DEFINE to == IF r.ok /\ Stored(reader.key) THEN "type" ELSE "parent"
<1>1. Ask("keys", r, TRUE, Goto(to)) BY DEF ReadKeys
<1>2. "keys" \in AskingPC /\ to \in AskingPC BY DEF AskingPC
<1>3. reader.key \in Key /\ Content(reader.key) \in reader.seen BY <1>1, <1>2, AskFacts
<1>4. StoreTyped /\ StoreConforms BY DEF ReaderInv, SchemaInv, TypeInv
<1>5. to = "type" => reader.key \in InSchema BY <1>3, <1>4, SchemaContent
<1>6. ASSUME to = "parent", reader.key \in InSchema PROVE Empty \in reader.seen \/ r.ok # TRUE
  <2>1. CASE ~Stored(reader.key)
    <3>1. Content(reader.key) = Empty BY <1>3, <1>4, <1>6, <2>1, SchemaContent
    <3> QED BY <1>3, <3>1
  <2>2. CASE ~r.ok BY <2>2
  <2> QED BY <1>6, <2>1, <2>2
<1>7. to \notin {"hget", "smembers", "hkeys"} OBVIOUS
<1> HIDE DEF to
<1> QED BY <1>1, <1>2, <1>5, <1>6, <1>7, GotoKeeps

LEMMA ReadParentKeeps == ASSUME ReaderInv, NEW r \in Reply, ReadParent(r) PROVE ReaderInv'
<1>1. "parent" \in AskingPC /\ "hget" \in AskingPC BY DEF AskingPC
<1>2. StoreTyped /\ StoreConforms BY DEF ReaderInv, SchemaInv, TypeInv
<1>3. CASE r.ok /\ IsHashKey(Parent(reader.key))
  <2>1. Ask("parent", r, TRUE, Goto("hget")) BY <1>3 DEF ReadParent
  <2>2. reader.key \in Key BY <1>1, <2>1, AskFacts
  <2>3. Parent(reader.key) \in Record BY <1>2, <1>3, <2>2, KeyParts DEF StoreConforms
  <2>4. reader.key \in InSchema => Empty \in reader.seen \/ reader.lost
    BY <1>1, <2>1, AskFacts DEF ReaderInv, Branched
  <2> QED BY <1>1, <2>1, <2>3, <2>4, GotoKeeps
<1>4. CASE ~(r.ok /\ IsHashKey(Parent(reader.key)))
  <2>1. Ask("parent", r, TRUE, Returns(Empty)) BY <1>4 DEF ReadParent
  <2>2. reader.key \in Key /\ Content(reader.key) \in reader.seen /\ reader.pc = "parent"
    BY <1>1, <2>1, AskFacts
  <2>3. Empty \in reader.seen \/ reader.lost \/ r.ok # TRUE
    <3>1. CASE ~r.ok BY <3>1
    <3>2. CASE reader.key \in InSchema BY <2>2, <3>2 DEF ReaderInv, Branched
    <3>3. CASE r.ok /\ reader.key \notin InSchema
      <4>1. Content(reader.key) = ValueOf(reader.key)
        BY <1>2, <2>2, <3>3, SchemaContent DEF Content
      <4>2. ValueOf(reader.key) = Empty BY <1>2, <1>4, <2>2, <3>3, NoValue
      <4> QED BY <2>2, <4>1, <4>2
    <3> QED BY <3>1, <3>2, <3>3
  <2> QED BY <1>1, <2>1, <2>3, AnswerTypes, ReturnsKeep
<1> QED BY <1>3, <1>4

LEMMA ReadFieldKeeps == ASSUME ReaderInv, NEW r \in Reply, ReadField(r) PROVE ReaderInv'
<1> DEFINE a == IF r.ok THEN ValueOf(reader.key) ELSE Empty
           fits == HashFits(Parent(reader.key))
<1>1. "hget" \in AskingPC BY DEF AskingPC
<1>2. StoreTyped /\ StoreConforms BY DEF ReaderInv, SchemaInv, TypeInv
<1>3. Ask("hget", r, fits, Returns(a)) BY DEF ReadField
<1>4. fits \in BOOLEAN BY DEF HashFits, IsSetKey
<1>5. reader.pc = "hget" /\ reader.key \in Key /\ Contents(reader.key) \subseteq reader.seen
  BY <1>1, <1>3, <1>4, AskFacts
<1>6. Parent(reader.key) \in Record BY <1>5 DEF ReaderInv, Branched
<1>7. fits BY <1>2, <1>6, KindsFit
<1>8. ValueOf(reader.key) \in reader.seen \/ (ValueOf(reader.key) = Empty /\ reader.lost)
  <2>1. reader.key \in InSchema => Empty \in reader.seen \/ reader.lost
    BY <1>5 DEF ReaderInv, Branched
  <2> QED BY <1>2, <1>5, <1>6, <2>1, SchemaContent
<1>9. a \in Answer BY <1>2, <1>5, ContentTypes, AnswerTypes
<1>10. a \in reader.seen \/ (a = Empty /\ (reader.lost \/ r.ok # fits)) BY <1>7, <1>8
<1> HIDE DEF a, fits
<1> QED BY <1>1, <1>3, <1>4, <1>9, <1>10, ReturnsKeep

LEMMA ReadTypeKeeps == ASSUME ReaderInv, NEW r \in Reply, ReadType(r) PROVE ReaderInv'
<1>1. "type" \in AskingPC /\ "smembers" \in AskingPC /\ "hkeys" \in AskingPC BY DEF AskingPC
<1>2. StoreTyped /\ StoreConforms BY DEF ReaderInv, SchemaInv, TypeInv
<1>3. CASE r.ok /\ IsSetKey(reader.key)
  <2>1. Ask("type", r, TRUE, Goto("smembers")) BY <1>3 DEF ReadType
  <2>2. reader.key \in Key BY <1>1, <2>1, AskFacts
  <2>3. reader.key \in Object BY <1>2, <1>3, <2>2 DEF StoreConforms
  <2> QED BY <1>1, <2>1, <2>3, GotoKeeps
<1>4. CASE r.ok /\ ~IsSetKey(reader.key) /\ IsHashKey(reader.key)
  <2>1. Ask("type", r, TRUE, Goto("hkeys")) BY <1>4 DEF ReadType
  <2>2. reader.key \in Key BY <1>1, <2>1, AskFacts
  <2>3. reader.key \in Record BY <1>2, <1>4, <2>2 DEF StoreConforms
  <2> QED BY <1>1, <2>1, <2>3, GotoKeeps
<1>5. CASE ~(r.ok /\ IsSetKey(reader.key)) /\ ~(r.ok /\ IsHashKey(reader.key))
  <2>1. Ask("type", r, TRUE, Returns(Empty)) BY <1>5 DEF ReadType
  <2>2. reader.key \in Key /\ Content(reader.key) \in reader.seen /\ reader.pc = "type"
    BY <1>1, <2>1, AskFacts
  <2>3. Empty \in reader.seen \/ r.ok # TRUE
    <3>1. CASE ~r.ok BY <3>1
    <3>2. CASE r.ok
      <4>1. reader.key \in InSchema BY <2>2 DEF ReaderInv, Branched
      <4>2. Content(reader.key) = Empty
        BY <1>2, <1>5, <2>2, <3>2, <4>1, SchemaContent DEF Stored
      <4> QED BY <2>2, <4>2
    <3> QED BY <3>1, <3>2
  <2> QED BY <1>1, <2>1, <2>3, AnswerTypes, ReturnsKeep
<1> QED BY <1>3, <1>4, <1>5

LEMMA ReadMembersKeeps == ASSUME ReaderInv, NEW r \in Reply, ReadMembers(r) PROVE ReaderInv'
<1> DEFINE a == IF r.ok THEN Listing(set[reader.key]) ELSE Empty
           fits == SetFits(reader.key)
<1>1. "smembers" \in AskingPC BY DEF AskingPC
<1>2. StoreTyped /\ StoreConforms BY DEF ReaderInv, SchemaInv, TypeInv
<1>3. Ask("smembers", r, fits, Returns(a)) BY DEF ReadMembers
<1>4. fits \in BOOLEAN BY DEF SetFits, IsHashKey
<1>5. reader.pc = "smembers" /\ reader.key \in Key /\ Content(reader.key) \in reader.seen
  BY <1>1, <1>3, <1>4, AskFacts
<1>6. reader.key \in Object BY <1>5 DEF ReaderInv, Branched
<1>7. fits BY <1>2, <1>6, KindsFit
<1>8. Listing(set[reader.key]) \in reader.seen BY <1>2, <1>5, <1>6, SchemaContent
<1>9. a \in Answer BY <1>2, <1>5, AnswerTypes DEF StoreTyped
<1>10. a \in reader.seen \/ (a = Empty /\ r.ok # fits) BY <1>7, <1>8
<1> HIDE DEF a, fits
<1> QED BY <1>1, <1>3, <1>4, <1>9, <1>10, ReturnsKeep

LEMMA ReadFieldsKeeps == ASSUME ReaderInv, NEW r \in Reply, ReadFields(r) PROVE ReaderInv'
<1> DEFINE a == IF r.ok THEN Listing(Fields(reader.key)) ELSE Empty
           fits == HashFits(reader.key)
<1>1. "hkeys" \in AskingPC BY DEF AskingPC
<1>2. StoreTyped /\ StoreConforms BY DEF ReaderInv, SchemaInv, TypeInv
<1>3. Ask("hkeys", r, fits, Returns(a)) BY DEF ReadFields
<1>4. fits \in BOOLEAN BY DEF HashFits, IsSetKey
<1>5. reader.pc = "hkeys" /\ reader.key \in Key /\ Content(reader.key) \in reader.seen
  BY <1>1, <1>3, <1>4, AskFacts
<1>6. reader.key \in Record BY <1>5 DEF ReaderInv, Branched
<1>7. fits BY <1>2, <1>6, KindsFit
<1>8. Listing(Fields(reader.key)) \in reader.seen BY <1>2, <1>5, <1>6, SchemaContent
<1>9. a \in Answer BY <1>2, <1>5, ContentTypes, AnswerTypes
<1>10. a \in reader.seen \/ (a = Empty /\ r.ok # fits) BY <1>7, <1>8
<1> HIDE DEF a, fits
<1> QED BY <1>1, <1>3, <1>4, <1>9, <1>10, ReturnsKeep
-----------------------------------------------------------------------------
LEMMA ReaderNextKeeps == ReaderInv /\ [ReaderNext]_<<vars, reader>> => ReaderInv'
<1> SUFFICES ASSUME ReaderInv, [ReaderNext]_<<vars, reader>> PROVE ReaderInv' OBVIOUS
<1>1. CASE Next /\ Watch BY <1>1, ClientsKeep
<1>2. CASE Query \/ Dump \/ Answered BY <1>2, QueryKeeps, DumpKeeps, AnsweredKeeps
<1>3. ASSUME NEW r \in Reply, ReadStep(r) PROVE ReaderInv'
  BY <1>3, DumpKeysKeeps, ReadKeysKeeps, ReadParentKeeps, ReadFieldKeeps, ReadTypeKeeps,
     ReadMembersKeeps, ReadFieldsKeeps DEF ReadStep
<1>4. CASE UNCHANGED <<vars, reader>>
  <2>1. UNCHANGED vars /\ UNCHANGED reader BY <1>4
  <2>2. SchemaInv' /\ UNCHANGED <<set, hash>> BY <2>1, UnwatchedKeep DEF ReaderInv
  <2>3. Watching' BY <2>1, <2>2
        DEF ReaderInv, Watching, Contents, Content, Stored, IsSetKey, IsHashKey, Listing, Fields,
            ValueOf
  <2>4. ReaderTyped' /\ Branched' /\ AnswersWereTrue'
    BY <2>1 DEF ReaderInv, ReaderTyped, Branched, AnswersWereTrue, ReaderAt
  <2> QED BY <2>2, <2>3, <2>4 DEF ReaderInv
<1> QED BY <1>1, <1>2, <1>3, <1>4 DEF ReaderNext

LEMMA ReaderInitHolds == ReaderInit => ReaderInv
<1> SUFFICES ASSUME ReaderInit PROVE ReaderInv OBVIOUS
<1>1. SchemaInv BY InitTypes, InitConforms DEF ReaderInit, SchemaInv
<1>2. reader = [pc |-> "idle", calls |-> 0, key |-> NoKey, todo |-> {}, answer |-> Empty,
                seen |-> {}, lost |-> FALSE]
  BY DEF ReaderInit, Resting
<1>3. ReaderTyped /\ Watching BY <1>2, AnswerTypes DEF ReaderTyped, ReaderState, Watching, AskingPC
<1>4. Branched /\ AnswersWereTrue BY <1>2 DEF Branched, AnswersWereTrue, ReaderAt
<1> QED BY <1>1, <1>3, <1>4 DEF ReaderInv

\* Query and Dump return, for each key, what the key held at one moment while
\* ReturnValue looked, or nothing where a command of it failed: whatever any
\* number of clients store, delete and create again between its commands.
THEOREM AnswersTrue == ReaderSpec => []AnswersWereTrue
<1>1. ReaderInit => ReaderInv BY ReaderInitHolds
<1>2. ReaderInv /\ [ReaderNext]_<<vars, reader>> => ReaderInv' BY ReaderNextKeeps
<1>3. ReaderInv => AnswersWereTrue BY DEF ReaderInv
<1> QED BY <1>1, <1>2, <1>3, PTL DEF ReaderSpec

\* A process that reads at the same time makes Redis refuse no client's command that it
\* would not refuse anyway.
THEOREM ReaderDisturbsNobody == ReaderSpec => [](TypeOK /\ RefusedOnlyAtRootRecord)
<1>1. ReaderInit => ReaderInv BY ReaderInitHolds
<1>2. ReaderInv /\ [ReaderNext]_<<vars, reader>> => ReaderInv' BY ReaderNextKeeps
<1>3. ReaderInv => TypeOK /\ RefusedOnlyAtRootRecord
  BY ConformsFits DEF ReaderInv, SchemaInv, TypeInv, StoreTyped, JobsGood, UpdatesTyped, CountsTyped, TypeOK
<1> QED BY <1>1, <1>2, <1>3, PTL DEF ReaderSpec
=============================================================================
