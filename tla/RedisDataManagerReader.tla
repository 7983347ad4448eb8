----------------------- MODULE RedisDataManagerReader -----------------------
(***************************************************************************)
(* A process that only reads, by Query and Dump, while the clients work.   *)
(* ReturnValue asks whether the key exists, of which type it or its parent *)
(* is, and only then for the content: three commands that the clients'     *)
(* commands may come between.                                              *)
(***************************************************************************)
EXTENDS RedisDataManagerSchema

CONSTANTS
  QueryKey,   \* the keys passed to Query
  MaxReads    \* bound: calls of the reader

ASSUME ReaderAssumption == QueryKey \subseteq Key /\ MaxReads \in Nat

(***************************************************************************)
(* Where the reader stands: todo the keys Dump has still to print, answer  *)
(* what ReturnValue(key) returned.  History: seen is what key held at any  *)
(* moment of that ReturnValue, lost whether a command of it failed.        *)
(***************************************************************************)
VARIABLE reader

(***************************************************************************)
(* The vector a read returns: names of members or of fields, or the value  *)
(* of a field.  Content(k) is what one atomic read of k would return.      *)
(***************************************************************************)
Empty == [names |-> {}, value |-> Absent]

Fields(k)      == {f \in Name : hash[k][f] # Absent}
Listing(names) == [Empty EXCEPT !.names = names]
ValueOf(k)     == [Empty EXCEPT !.value = hash[Parent(k)][Base(k)]]
Content(k)     == IF Stored(k) THEN Listing(set[k] \cup Fields(k)) ELSE ValueOf(k)

\* A root names itself and the field of its own name in it (which an Update of it sets).
Contents(k) == {Content(k)} \cup
  {a \in {ValueOf(k)} : IsRoot(k) /\ a # Empty}

Resting == [pc |-> "idle", calls |-> 0, key |-> NoKey, todo |-> {}, answer |-> Empty,
            seen |-> {}, lost |-> FALSE]

ReaderAt(pc) == reader.pc = pc

\* ReturnValue(k) begins.
Look(s, k) == [s EXCEPT !.pc = "keys", !.key = k, !.answer = Empty,
                        !.seen = Contents(k), !.lost = FALSE]

\* The reader's command at pc is served with r, and the reader goes on as s.
Ask(pc, r, fits, s) ==
  /\ ReaderAt(pc) /\ Served(r, fits, Keep)
  /\ reader' = [s EXCEPT !.lost = @ \/ r.ok # fits]
  /\ UNCHANGED <<job, updates>>

Goto(pc)   == [reader EXCEPT !.pc = pc]
Returns(a) == [reader EXCEPT !.pc = "answer", !.answer = a]
-----------------------------------------------------------------------------
Query ==
  /\ ReaderAt("idle") /\ reader.calls < MaxReads
  /\ \E k \in QueryKey : reader' = Look([reader EXCEPT !.calls = @ + 1], k)
  /\ UNCHANGED vars

\* Query("*") is Dump: KEYS *, then ReturnValue of each key in any order.
Dump ==
  /\ ReaderAt("idle") /\ reader.calls < MaxReads
  /\ reader' = [reader EXCEPT !.pc = "dump", !.calls = @ + 1]
  /\ UNCHANGED vars

DumpKeys(r) ==
  /\ ReaderAt("dump") /\ Served(r, TRUE, Keep)
  /\ LET found == IF r.ok THEN {k \in Key : Stored(k)} ELSE {}
         rest  == [Resting EXCEPT !.calls = reader.calls] IN
     IF found = {} THEN reader' = rest
     ELSE \E k \in found : reader' = Look([rest EXCEPT !.todo = found \ {k}], k)
  /\ UNCHANGED <<job, updates>>

\* Mutant of ReadKeys: what does not exist as a key is not looked for as a field.
ReadKeysOnly(r) == Ask("keys", r, TRUE, Goto("type"))

ReadKeys(r) ==
  Ask("keys", r, TRUE, Goto(IF r.ok /\ Stored(reader.key) THEN "type" ELSE "parent"))

ReadParent(r) ==
  Ask("parent", r, TRUE,
      IF r.ok /\ IsHashKey(Parent(reader.key)) THEN Goto("hget") ELSE Returns(Empty))

\* A field that is gone answers nil, which is not ok.
ReadField(r) ==
  Ask("hget", r, HashFits(Parent(reader.key)),
      Returns(IF r.ok THEN ValueOf(reader.key) ELSE Empty))

ReadType(r) ==
  Ask("type", r, TRUE,
      IF r.ok /\ IsSetKey(reader.key) THEN Goto("smembers")
      ELSE IF r.ok /\ IsHashKey(reader.key) THEN Goto("hkeys") ELSE Returns(Empty))

ReadMembers(r) ==
  Ask("smembers", r, SetFits(reader.key),
      Returns(IF r.ok THEN Listing(set[reader.key]) ELSE Empty))

ReadFields(r) ==
  Ask("hkeys", r, HashFits(reader.key),
      Returns(IF r.ok THEN Listing(Fields(reader.key)) ELSE Empty))

\* The answer is printed, and Dump goes on to its next key.
Answered ==
  /\ ReaderAt("answer")
  /\ IF reader.todo = {} THEN reader' = [Resting EXCEPT !.calls = reader.calls]
     ELSE \E k \in reader.todo : reader' = Look([reader EXCEPT !.todo = @ \ {k}], k)
  /\ UNCHANGED vars

ReadStep(r) == DumpKeys(r) \/ ReadKeys(r) \/ ReadParent(r) \/ ReadField(r)
               \/ ReadType(r) \/ ReadMembers(r) \/ ReadFields(r)

\* While a client works, the reader's key may show something else.
Watch == \E k \in {reader.key} :
  reader' = [reader EXCEPT !.seen = IF @ = {} THEN {} ELSE @ \cup Contents(k)']

ReaderInit == Init /\ reader = Resting
ReaderNext ==
  \/ Next /\ Watch
  \/ Query \/ Dump \/ (\E r \in Reply : ReadStep(r)) \/ Answered

ReaderSpec == ReaderInit /\ [][ReaderNext]_<<vars, reader>>
-----------------------------------------------------------------------------
(***************************************************************************)
(* What ReturnValue returns is what the key held at one moment of the      *)
(* call, although it is put together from three commands and the key may   *)
(* be set, emptied, deleted and created again between them: no answer      *)
(* mixes two states, takes a field for a key, or gives the names of one    *)
(* kind for the other.  A failed command makes it empty, never wrong.  A   *)
(* root is its own parent, so that its answer may also be the value of the *)
(* field of its own name.                                                  *)
(***************************************************************************)
AnswersWereTrue == ReaderAt("answer") =>
  reader.answer \in reader.seen \cup (IF reader.lost THEN {Empty} ELSE {})
=============================================================================
