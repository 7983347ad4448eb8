---------------------------- MODULE MessageStore ----------------------------
(***************************************************************************)
(* The multimap in which a communicator keeps the messages for its next    *)
(* Notify: by topic and, within a topic, in the order of insertion.        *)
(***************************************************************************)
EXTENDS Naturals, Sequences, SequencesExt, FiniteSetsExt

CONSTANTS
  MaxTopic,      \* topics are 1 .. MaxTopic, in the order of their strings
  MaxMessages    \* bound: messages stored in a run

ASSUME StoreAssumption == MaxTopic \in Nat /\ MaxMessages \in Nat

\* id numbers the insertions.
Message == [topic : 1 .. MaxTopic, id : 1 .. MaxMessages]
Precedes(m, n) == m.topic < n.topic \/ (m.topic = n.topic /\ m.id < n.id)
First(S) == CHOOSE m \in S : \A n \in S \ {m} : Precedes(m, n)

\* A range-for over S at its first message, and the messages it has still to come to.
End == [topic |-> 0, id |-> 0]
FirstOf(S) == IF S = {} THEN End ELSE First(S)
After(S, m) == {n \in S : Precedes(m, n)}
=============================================================================
