------------------------- MODULE MessageStore_proof -------------------------
(***************************************************************************)
(* The multimap of stored messages: a set of messages has a first one, and *)
(* a loop that goes from the first to the first after it leaves none out.  *)
(***************************************************************************)
EXTENDS MessageStore, WellFoundedInduction, TLAPS

LEMMA LeastNumber ==
  ASSUME NEW T, T \subseteq Nat, T # {}
  PROVE  \E x \in T : \A y \in T : x <= y
<1>1. PICK x \in T : \A y \in T : ~ (<<y, x>> \in OpToRel(<, Nat))
  BY NatLessThanWellFounded, WFMin, Zenon
<1>2. ASSUME NEW y \in T PROVE x <= y
  <2>1. x \in Nat /\ y \in Nat OBVIOUS
  <2>2. <<y, x>> \in Nat \X Nat BY <2>1
  <2>3. ~(y < x) BY <1>1, <2>2 DEF OpToRel
  <2> QED BY <2>1, <2>3
<1> QED BY <1>2

\* Precedes is a strict total order.
LEMMA Order ==
  ASSUME NEW m \in Message, NEW n \in Message
  PROVE  /\ m = n \/ Precedes(m, n) \/ Precedes(n, m)
         /\ ~(Precedes(m, n) /\ Precedes(n, m))
         /\ ~Precedes(m, m)
         /\ \A p \in Message : Precedes(m, n) /\ Precedes(n, p) => Precedes(m, p)
<1>1. /\ m.topic \in Nat /\ m.id \in Nat /\ n.topic \in Nat /\ n.id \in Nat
      /\ \A p \in Message : p.topic \in Nat /\ p.id \in Nat
  BY StoreAssumption DEF Message
<1>2. m.topic = n.topic /\ m.id = n.id => m = n BY DEF Message
<1> QED BY <1>1, <1>2 DEF Precedes

\* A set of messages has a first one: of those of the least topic, the one stored first.
LEMMA FirstExists ==
  ASSUME NEW S, S \subseteq Message, S # {}
  PROVE  First(S) \in S /\ \A n \in S \ {First(S)} : Precedes(First(S), n)
<1> DEFINE T == {m.topic : m \in S}
<1>1. \A m \in S : m.topic \in Nat /\ m.id \in Nat BY StoreAssumption DEF Message
<1>2. T \subseteq Nat /\ T # {} BY <1>1
<1> HIDE DEF T
<1>3. PICK t \in T : \A u \in T : t <= u BY <1>2, LeastNumber
<1> DEFINE I == {m.id : m \in {x \in S : x.topic = t}}
<1>4. I \subseteq Nat /\ I # {} BY <1>1, <1>3 DEF T
<1> HIDE DEF I
<1>5. PICK i \in I : \A j \in I : i <= j BY <1>4, LeastNumber
<1>6. PICK m \in S : m.topic = t /\ m.id = i BY <1>5 DEF I
<1>7. ASSUME NEW n \in S, n # m PROVE Precedes(m, n)
  <2>1. m \in Message /\ n \in Message OBVIOUS
  <2>2. m.topic <= n.topic BY <1>3, <1>6 DEF T
  <2>3. n.topic = m.topic => m.id <= n.id BY <1>5, <1>6 DEF I
  <2>4. n.topic = m.topic => m.id # n.id BY <2>1, <1>7 DEF Message
  <2> QED BY <1>1, <2>2, <2>3, <2>4 DEF Precedes
<1>8. \E x \in S : \A n \in S \ {x} : Precedes(x, n) BY <1>7
<1> QED BY <1>8 DEF First

\* Where a loop that stands at m goes next, and what it has then still before it.
LEMMA NextMessage ==
  ASSUME NEW S, S \subseteq Message, NEW m
  PROVE  LET it == FirstOf(After(S, m)) IN
         /\ it = End <=> After(S, m) = {}
         /\ it # End => /\ it \in S /\ Precedes(m, it)
                        /\ \A n \in S : Precedes(m, n) => n = it \/ Precedes(it, n)
<1> DEFINE A == After(S, m)
<1>1. A \subseteq S BY DEF After
<1>2. End \notin Message BY StoreAssumption DEF End, Message
<1>3. CASE A = {} BY <1>3 DEF FirstOf
<1>4. CASE A # {}
  <2>1. First(A) \in A /\ \A n \in A \ {First(A)} : Precedes(First(A), n)
    BY <1>1, <1>4, FirstExists
  <2>2. FirstOf(A) = First(A) BY <1>4 DEF FirstOf
  <2> QED BY <1>1, <1>2, <1>4, <2>1, <2>2 DEF After
<1> QED BY <1>3, <1>4

LEMMA FirstMessage ==
  ASSUME NEW S, S \subseteq Message
  PROVE  /\ FirstOf(S) = End <=> S = {}
         /\ S # {} => /\ FirstOf(S) \in S
                      /\ \A n \in S : n = FirstOf(S) \/ Precedes(FirstOf(S), n)
<1>1. End \notin Message BY StoreAssumption DEF End, Message
<1>2. CASE S = {} BY <1>2 DEF FirstOf
<1>3. CASE S # {} BY <1>1, <1>3, FirstExists DEF FirstOf
<1> QED BY <1>2, <1>3
=============================================================================
