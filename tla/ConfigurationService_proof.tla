--------------------- MODULE ConfigurationService_proof ---------------------
(***************************************************************************)
(* First the message store and its threads (Communicator), for any number  *)
(* of topics and messages and any limit; then, with the data manager, the  *)
(* listener of a ConfigurationManager, for any number of fields, calls,    *)
(* messages and failures.                                                  *)
(***************************************************************************)
EXTENDS ConfigurationService, MessageStore_proof, FiniteSetTheorems, SequenceTheorems

PC == {"idle", "insert", "size", "join", "gone", "loop", "sleep", "exit",
       "begin", "send", "next", "clear"}
State == [pc : PC, call : {"none", "insert", "publish", "notify"}, topic : 0 .. MaxTopic,
          it : Message \cup {End}, ok : BOOLEAN, due : SUBSET Message]

(***************************************************************************)
(* What keeps the types: a thread that is about to insert has a topic and  *)
(* a number left, and one that publishes has a message.                    *)
(***************************************************************************)
HasMessage(t) ==
  /\ At(t, "insert") => th[t].topic \in 1 .. MaxTopic /\ count < MaxMessages
  /\ th[t].pc \in {"send", "next"} => th[t].it \in Message

\* Numbers are given out in order, and a thread is at its own steps only.
Numbered ==
  /\ \A m \in updates : m.id <= count
  /\ \A i \in DOMAIN sent : sent[i].id <= count

MainPC == {"idle", "insert", "size", "join", "gone", "begin", "send", "next", "clear"}
AutoPC == {"loop", "sleep", "exit", "begin", "send", "next", "clear"}

TypeInv ==
  /\ TypeOK
  /\ \A t \in Thread : HasMessage(t)
  /\ th["main"].pc \in MainPC /\ th["auto"].pc \in AutoPC
  /\ IsFiniteSet(updates) /\ Numbered
-----------------------------------------------------------------------------
LEMMA IdleState == Idle \in State
BY StoreAssumption DEF Idle, State, PC

LEMMA StateTyped == TypeOK => th \in [Thread -> State]
BY DEF TypeOK, State, PC

LEMMA EndIsNoMessage == End \notin Message
BY StoreAssumption DEF End, Message

LEMMA InitTyped == Init => TypeInv
<1> SUFFICES ASSUME Init PROVE TypeInv OBVIOUS
<1> USE IdleState DEF Init
<1>1. /\ th \in [Thread -> State] /\ {"main", "auto"} = Thread
      /\ th["main"].pc = "idle" /\ th["auto"].pc = "loop"
  BY DEF State, PC, Thread
<1>2. TypeOK
  <2>1. sent \in Seq(Message) BY EmptySeq
  <2>2. count \in 0 .. MaxMessages /\ faults \in 0 .. MaxFaults
    BY StoreAssumption, CommunicatorAssumption
  <2> HIDE DEF Init
  <2>3. updates \subseteq Message /\ keep \in BOOLEAN /\ torn \in BOOLEAN /\ clashed \in BOOLEAN
    BY DEF Init
  <2>4. \A t \in Thread : th[t].pc \notin {"send", "next"} BY <1>1
  <2> QED BY <1>1, <2>1, <2>2, <2>3, <2>4 DEF TypeOK, State, PC
<1>3. \A t \in Thread : HasMessage(t)
  <2> HIDE DEF Init
  <2> QED BY <1>1 DEF HasMessage, At
<1>4. Numbered BY DEF Numbered
<1>5. IsFiniteSet(updates) BY FS_EmptySet
<1> HIDE DEF Init
<1> QED BY <1>1, <1>2, <1>3, <1>4, <1>5 DEF TypeInv, MainPC, AutoPC

(***************************************************************************)
(* A step that changes neither updates nor count: TypeInv is kept if the   *)
(* new state of the thread is a good one and sent grew by a message.       *)
(***************************************************************************)
GoodState(t, s) ==
  /\ s \in State
  /\ s.pc = "insert" => s.topic \in 1 .. MaxTopic /\ count < MaxMessages
  /\ s.pc \in {"send", "next"} => s.it \in Message
  /\ s.pc \in IF t = "main" THEN MainPC ELSE AutoPC

LEMMA KeepsTypes ==
  ASSUME TypeInv, NEW t \in Thread, NEW s, Go(t, s), GoodState(t, s),
         UNCHANGED <<updates, count>>,
         sent' = sent \/ \E m \in updates : sent' = Append(sent, m),
         keep' \in BOOLEAN, torn' \in BOOLEAN, clashed' \in BOOLEAN, faults' \in 0 .. MaxFaults
  PROVE  TypeInv'
<1>1. th \in [Thread -> State] BY StateTyped DEF TypeInv
<1>2. th' \in [Thread -> State] /\ th' = [th EXCEPT ![t] = s] BY <1>1 DEF Go, GoodState
<1>3. sent' \in Seq(Message) /\ \A i \in DOMAIN sent' : sent'[i].id <= count
  <2>1. sent \in Seq(Message) /\ \A m \in updates : m \in Message BY DEF TypeInv, TypeOK
  <2>2. CASE sent' = sent BY <2>1, <2>2 DEF TypeInv, Numbered
  <2>3. CASE \E m \in updates : sent' = Append(sent, m)
    <3>1. PICK m \in updates : sent' = Append(sent, m) BY <2>3
    <3>2. /\ sent' \in Seq(Message) /\ Len(sent') = Len(sent) + 1 /\ sent'[Len(sent) + 1] = m
          /\ \A i \in 1 .. Len(sent) : sent'[i] = sent[i]
      BY <2>1, <3>1, AppendProperties
    <3>3. m.id <= count /\ \A i \in 1 .. Len(sent) : sent[i].id <= count
      BY <2>1 DEF TypeInv, Numbered
    <3> QED BY <2>1, <3>2, <3>3
  <2> QED BY <2>2, <2>3
<1>5. \A u \in Thread : HasMessage(u)'
  BY <1>1, <1>2 DEF TypeInv, HasMessage, At, GoodState
<1>8. (\A u \in Thread : th[u].pc \in {"send", "next"} => th[u].it # End)'
  BY <1>5, EndIsNoMessage DEF HasMessage
<1>4. TypeOK' BY <1>2, <1>3, <1>8 DEF TypeInv, TypeOK, State, PC
<1>6. th'["main"].pc \in MainPC /\ th'["auto"].pc \in AutoPC
  BY <1>1, <1>2 DEF TypeInv, GoodState, Thread
<1>7. IsFiniteSet(updates)' /\ Numbered' BY <1>3 DEF TypeInv, Numbered
<1> QED BY <1>4, <1>5, <1>6, <1>7 DEF TypeInv

LEMMA NextTyped == ASSUME TypeInv, [Next]_vars PROVE TypeInv'
<1> USE IdleState, StoreAssumption, CommunicatorAssumption
<1>0. /\ th \in [Thread -> State] /\ {"main", "auto"} = Thread /\ Idle.pc = "idle"
      /\ updates \subseteq Message /\ count \in Nat /\ faults \in 0 .. MaxFaults
      /\ keep \in BOOLEAN /\ torn \in BOOLEAN /\ clashed \in BOOLEAN
  BY StateTyped DEF TypeInv, TypeOK, Thread, Idle
<1>1. CASE UNCHANGED vars
  BY <1>1 DEF TypeInv, TypeOK, vars, HasMessage, At, Numbered
<1>2. CASE Insert
  <2>1. PICK call \in {"insert", "publish"}, topic \in 1 .. MaxTopic : InsertAs(call, topic)
    BY <1>2 DEF Insert
  <2> DEFINE s == [Idle EXCEPT !.pc = "insert", !.call = call, !.topic = topic]
  <2>2. Go("main", s) /\ count < MaxMessages BY <2>1 DEF InsertAs
  <2>3. s \in State /\ s.pc = "insert" /\ s.topic = topic
    <3>1. topic \in 0 .. MaxTopic OBVIOUS
    <3> QED BY <3>1 DEF State, PC
  <2>4. GoodState("main", s) BY <2>2, <2>3 DEF GoodState, MainPC
  <2> HIDE DEF s
  <2> QED BY <1>0, <1>2, <2>2, <2>4, KeepsTypes DEF Insert, Stays
<1>3. CASE ForceNotify
  <2> DEFINE s == [[Idle EXCEPT !.call = "notify"] EXCEPT !.pc = "begin"]
  <2>1. Go("main", s) /\ clashed' \in BOOLEAN BY <1>0, <1>3 DEF ForceNotify, Enter
  <2>2. GoodState("main", s) BY DEF GoodState, State, PC, MainPC
  <2> HIDE DEF s
  <2> QED BY <1>0, <1>3, <2>1, <2>2, KeepsTypes DEF ForceNotify, Stays
<1>4. CASE Destroy
  <2> DEFINE s == [Idle EXCEPT !.pc = "join"]
  <2>1. Go("main", s) /\ GoodState("main", s)
    BY <1>4 DEF Destroy, GoodState, State, PC, MainPC
  <2> HIDE DEF s
  <2> QED BY <1>0, <1>4, <2>1, KeepsTypes DEF Destroy
<1>5. CASE Inserted
  <2> DEFINE m == [topic |-> th["main"].topic, id |-> count']
             s == [th["main"] EXCEPT !.pc = IF th["main"].call = "publish" THEN "size" ELSE "idle"]
  <2>1. /\ count' = count + 1 /\ count < MaxMessages /\ m \in Message
        /\ updates' = updates \cup {m} /\ th' = [th EXCEPT !["main"] = s]
    BY <1>0, <1>5 DEF Inserted, TypeInv, HasMessage, At, Go, Message
  <2>2. s \in State /\ s.pc \in {"size", "idle"} BY <1>0 DEF State, PC
  <2>4. th' \in [Thread -> State] /\ th'["main"] = s /\ th'["auto"] = th["auto"]
    BY <1>0, <2>1, <2>2
  <2>5. \A t \in Thread : HasMessage(t)'
    BY <1>0, <2>2, <2>4 DEF TypeInv, HasMessage, At, AutoPC
  <2>3. TypeOK'
    <3>1. th' \in [Thread -> State] BY <1>0, <2>1, <2>2
    <3>2. updates' \subseteq Message BY <1>0, <2>1
    <3>3. count' \in 0 .. MaxMessages BY <1>0, <2>1
    <3>4. UNCHANGED <<sent, keep, torn, clashed, faults>> BY <1>5 DEF Inserted, Stays
    <3>5. (\A t \in Thread : th[t].pc \in {"send", "next"} => th[t].it # End)'
      BY <2>5, EndIsNoMessage DEF HasMessage
    <3> QED BY <3>1, <3>2, <3>3, <3>4, <3>5 DEF TypeInv, TypeOK, State, PC
  <2>6. IsFiniteSet(updates') BY <2>1, FS_AddElement DEF TypeInv
  <2>7. Numbered'
    <3>1. \A n \in updates' : n.id <= count'
      BY <1>0, <2>1 DEF TypeInv, Numbered, Message
    <3>2. \A i \in DOMAIN sent : sent[i].id <= count'
      <4> SUFFICES ASSUME NEW i \in DOMAIN sent PROVE sent[i].id <= count' OBVIOUS
      <4>1. sent[i] \in Message BY DEF TypeInv, TypeOK
      <4> QED BY <4>1, <1>0, <2>1 DEF TypeInv, Numbered, Message
    <3> QED BY <3>1, <3>2, <1>5 DEF Inserted, Numbered
  <2> QED BY <2>2, <2>3, <2>4, <2>5, <2>6, <2>7 DEF TypeInv, MainPC
<1>6. CASE Size
  <2> DEFINE s(pc) == [th["main"] EXCEPT !.pc = pc]
  <2>1. (Go("main", s("begin")) \/ Go("main", s("idle"))) /\ clashed' \in BOOLEAN
    BY <1>0, <1>6 DEF Size, Enter
  <2>2. GoodState("main", s("begin")) /\ GoodState("main", s("idle"))
    BY <1>0 DEF GoodState, State, PC, MainPC
  <2> HIDE DEF s
  <2> QED BY <1>0, <1>6, <2>1, <2>2, KeepsTypes DEF Size, Stays
<1>7. CASE Join
  <2> DEFINE s == [Idle EXCEPT !.pc = "gone"]
  <2>1. Go("main", s) /\ GoodState("main", s) BY <1>7 DEF Join, GoodState, State, PC, MainPC
  <2> HIDE DEF s
  <2> QED BY <1>0, <1>7, <2>1, KeepsTypes DEF Join, Stays
<1>8. CASE Loop
  <2> DEFINE s == [Idle EXCEPT !.pc = IF keep THEN "sleep" ELSE "exit"]
  <2>1. Go("auto", s) /\ GoodState("auto", s) BY <1>8 DEF Loop, GoodState, State, PC, AutoPC
  <2> HIDE DEF s
  <2> QED BY <1>0, <1>8, <2>1, KeepsTypes DEF Loop, Stays
<1>9. CASE Wake
  <2> DEFINE s == [Idle EXCEPT !.pc = "begin"]
  <2>1. Go("auto", s) /\ clashed' \in BOOLEAN BY <1>0, <1>9 DEF Wake, Enter
  <2>2. GoodState("auto", s) BY DEF GoodState, State, PC, AutoPC
  <2> HIDE DEF s
  <2> QED BY <1>0, <1>9, <2>1, <2>2, KeepsTypes DEF Wake, Stays
<1>10. ASSUME NEW t \in Thread, Begin(t) PROVE TypeInv'
  <2> DEFINE s == [th[t] EXCEPT !.it = FirstOf(updates), !.ok = TRUE, !.due = updates,
                                !.pc = IF updates = {} THEN "clear" ELSE "send"]
  <2>1. FirstOf(updates) \in Message \cup {End} /\ (updates # {} => FirstOf(updates) \in Message)
    BY <1>0, FirstMessage DEF FirstOf
  <2>2. GoodState(t, s) BY <1>0, <2>1 DEF GoodState, State, PC, MainPC, AutoPC
  <2>3. Go(t, s) BY <1>10 DEF Begin
  <2> HIDE DEF s
  <2> QED BY <1>0, <1>10, <2>2, <2>3, KeepsTypes DEF Begin, Stays
<1>11. ASSUME NEW t \in Thread, Send(t) PROVE TypeInv'
  <2>1. PICK ok \in IF faults < MaxFaults THEN BOOLEAN ELSE {TRUE} :
          /\ sent' = IF ok THEN Append(sent, th[t].it) ELSE sent
          /\ faults' = faults + (IF ok THEN 0 ELSE 1)
          /\ Go(t, [th[t] EXCEPT !.ok = @ /\ ok, !.pc = IF keep THEN "next" ELSE "clear"])
    BY <1>11 DEF Send
  <2> DEFINE s == [th[t] EXCEPT !.ok = @ /\ ok, !.pc = IF keep THEN "next" ELSE "clear"]
  <2>2. ok \in BOOLEAN /\ faults' \in 0 .. MaxFaults
    <3>1. ok \in BOOLEAN /\ (faults < MaxFaults \/ ok = TRUE) BY <2>1
    <3>2. faults' = faults \/ (faults < MaxFaults /\ faults' = faults + 1) BY <1>0, <2>1, <3>1
    <3> QED BY <1>0, <3>1, <3>2
  <2>6. th[t].it \in Message BY <1>0, <1>11 DEF Send, TypeInv, HasMessage, At
  <2>3. GoodState(t, s) BY <1>0, <2>2, <2>6 DEF GoodState, State, PC, MainPC, AutoPC
  <2>4. Go(t, s) BY <2>1
  <2>5. sent' = sent \/ \E m \in updates : sent' = Append(sent, m) BY <1>11, <2>1 DEF Send
  <2> HIDE DEF s
  <2> QED BY <1>0, <1>11, <2>2, <2>3, <2>4, <2>5, KeepsTypes DEF Send, Stays
<1>12. ASSUME NEW t \in Thread, Advance(t) PROVE TypeInv'
  <2> DEFINE it == FirstOf(After(updates, th[t].it))
             s == [th[t] EXCEPT !.it = it, !.pc = IF it = End THEN "clear" ELSE "send"]
  <2>1. it = End \/ it \in updates BY <1>0, NextMessage
  <2> HIDE DEF it
  <2>2. GoodState(t, s) BY <1>0, <2>1 DEF GoodState, State, PC, MainPC, AutoPC
  <2>3. Go(t, s) BY <1>12 DEF Advance, it
  <2> HIDE DEF s
  <2> QED BY <1>0, <1>12, <2>2, <2>3, KeepsTypes DEF Advance, Stays
<1>13. ASSUME NEW t \in Thread, Empty(t) PROVE TypeInv'
  <2>1. Done(t) \in State /\ Done(t).pc = IF t = "main" THEN "idle" ELSE "loop"
    BY <1>0 DEF Done, State, PC
  <2>2. th' = [th EXCEPT ![t] = Done(t)] /\ th' \in [Thread -> State]
    BY <1>0, <1>13, <2>1 DEF Empty, Go
  <2>4. \A u \in Thread : HasMessage(u)'
    BY <1>0, <1>13, <2>1, <2>2 DEF Empty, TypeInv, HasMessage, At
  <2>8. (\A u \in Thread : th[u].pc \in {"send", "next"} => th[u].it # End)'
    BY <2>4, EndIsNoMessage DEF HasMessage
  <2>3. TypeOK' BY <1>0, <1>13, <2>2, <2>8 DEF Empty, Stays, TypeInv, TypeOK, State, PC
  <2>5. th'["main"].pc \in MainPC /\ th'["auto"].pc \in AutoPC
    BY <1>0, <2>1, <2>2 DEF TypeInv, MainPC, AutoPC
  <2>6. IsFiniteSet(updates') BY <1>13, FS_EmptySet DEF Empty
  <2>7. Numbered' BY <1>13 DEF Empty, TypeInv, Numbered
  <2> QED BY <2>3, <2>4, <2>5, <2>6, <2>7 DEF TypeInv
<1>14. ASSUME NEW t \in Thread, Dangle(t) PROVE TypeInv'
  BY <1>14 DEF Dangle, TypeInv, TypeOK, HasMessage, At, Numbered
<1>15. CASE Overlap
  BY <1>15 DEF Overlap, TypeInv, TypeOK, HasMessage, At, Numbered
<1> QED
  BY <1>0, <1>1, <1>2, <1>3, <1>4, <1>5, <1>6, <1>7, <1>8, <1>9, <1>10, <1>11, <1>12, <1>13,
     <1>14, <1>15 DEF Next, MainStep, AutoStep, NotifyStep

(***************************************************************************)
(* Every variable of the communicator keeps its type and its bound,        *)
(* whatever the threads do to updates: Notify publishes stored messages.   *)
(***************************************************************************)
THEOREM TypeCorrect == Spec => []TypeOK
<1>1. TypeInv => TypeOK BY DEF TypeInv
<1> QED BY <1>1, InitTyped, NextTyped, PTL DEF Spec
-----------------------------------------------------------------------------
(***************************************************************************)
(* Order and completeness.  While no two Notify calls overlap, a message   *)
(* that no loop has passed is newer than all of its topic that were sent;  *)
(* and of the messages that were there when a loop began, each is either   *)
(* sent or still before it, as long as every PUBLISH was answered.         *)
(***************************************************************************)
Sending(t) == th[t].pc \in {"send", "next", "clear"}

Left(t, m) == \/ At(t, "send") /\ (m = th[t].it \/ Precedes(th[t].it, m))
              \/ At(t, "next") /\ Precedes(th[t].it, m)

Unsent(m) == \A i \in DOMAIN sent : sent[i].topic = m.topic => sent[i].id < m.id

Alone   == ~(Notifying("main") /\ Notifying("auto"))
InOrder == \A i, j \in DOMAIN sent :
  i < j /\ sent[i].topic = sent[j].topic => sent[i].id < sent[j].id
Newer   == \A m \in updates : (\A t \in Thread : Sending(t) => Left(t, m)) => Unsent(m)

OrderInv == ~clashed => Alone /\ InOrder /\ Newer
DueInv   == ~clashed /\ keep => \A t \in Thread : Sending(t) =>
  /\ th[t].due \subseteq updates
  /\ th[t].ok => \A m \in th[t].due : m \in ToSet(sent) \/ Left(t, m)

SentInv == TypeInv /\ OrderInv /\ DueInv

\* A step that neither begins nor is in a loop, and leaves updates alone or inserts into it.
LEMMA Quiet ==
  ASSUME SentInv, NEW t \in Thread, NEW s \in State, Go(t, s), UNCHANGED sent,
         ~Sending(t), s.pc \notin {"send", "next", "clear"},
         updates \subseteq updates',
         \A m \in updates' \ updates : Unsent(m),
         keep' => keep,
         ~clashed' => ~clashed /\ (s.pc = "begin" => \A u \in Thread \ {t} : ~Notifying(u))
  PROVE  OrderInv' /\ DueInv'
<1>1. th \in [Thread -> State] BY StateTyped DEF SentInv, TypeInv
<1>2. th'[t] = s /\ \A u \in Thread \ {t} : th'[u] = th[u] BY <1>1 DEF Go
<1>3. Sending(t)' = FALSE BY <1>2 DEF Sending
<1>4. \A u \in Thread \ {t} : /\ Sending(u)' = Sending(u) /\ Notifying(u)' = Notifying(u)
                               /\ \A m : Left(u, m)' = Left(u, m)
  BY <1>2 DEF Sending, Notifying, Left, At
<1>5. ASSUME ~clashed' PROVE Alone'
  <2>1. Notifying(t)' => s.pc = "begin" BY <1>2 DEF Notifying
  <2> QED BY <1>4, <1>5, <2>1 DEF Alone, Thread
<1>6. ASSUME ~clashed' PROVE InOrder' BY <1>6 DEF SentInv, OrderInv, InOrder
<1>7. ASSUME ~clashed' PROVE Newer'
  <2> SUFFICES ASSUME NEW m \in updates', \A u \in Thread : Sending(u)' => Left(u, m)'
               PROVE  Unsent(m)
    BY DEF Newer, Unsent
  <2>1. \A u \in Thread : Sending(u) => Left(u, m) BY <1>4
  <2> QED BY <1>7, <2>1 DEF SentInv, OrderInv, Newer
<1>8. DueInv'
  <2> SUFFICES ASSUME ~clashed', keep', NEW u \in Thread, Sending(u)'
               PROVE  /\ th'[u].due \subseteq updates'
                      /\ th'[u].ok => \A m \in th'[u].due : m \in ToSet(sent) \/ Left(u, m)'
    BY DEF DueInv
  <2>1. u # t BY <1>3
  <2> QED BY <1>2, <1>4, <2>1 DEF SentInv, DueInv
<1> QED BY <1>5, <1>6, <1>7, <1>8 DEF OrderInv

\* A step inside Notify, while no other call overlaps.
LEMMA OthersRest ==
  ASSUME SentInv, ~clashed, NEW t \in Thread, Notifying(t), NEW s \in State, Go(t, s)
  PROVE  /\ th'[t] = s
         /\ \A u \in Thread \ {t} : /\ ~Sending(u) /\ ~Sending(u)'
                                     /\ ~Notifying(u) /\ ~Notifying(u)'
<1>1. th \in [Thread -> State] BY StateTyped DEF SentInv, TypeInv
<1>2. th'[t] = s /\ \A u \in Thread \ {t} : th'[u] = th[u] BY <1>1 DEF Go
<1>3. \A u \in Thread \ {t} : ~Notifying(u) BY DEF SentInv, OrderInv, Alone, Thread
<1> QED BY <1>2, <1>3 DEF Sending, Notifying

LEMMA BeginSent == ASSUME SentInv, NEW t \in Thread, Begin(t) PROVE OrderInv' /\ DueInv'
<1> DEFINE s == [th[t] EXCEPT !.it = FirstOf(updates), !.ok = TRUE, !.due = updates,
                              !.pc = IF updates = {} THEN "clear" ELSE "send"]
<1>1. th \in [Thread -> State] /\ updates \subseteq Message
  BY StateTyped DEF SentInv, TypeInv, TypeOK
<1>2. updates # {} => /\ FirstOf(updates) \in updates
                      /\ \A n \in updates : n = FirstOf(updates) \/ Precedes(FirstOf(updates), n)
  BY <1>1, FirstMessage
<1>3. FirstOf(updates) \in Message \cup {End} BY <1>1, <1>2 DEF FirstOf
<1>4. /\ s \in State /\ s.due = updates /\ s.it = FirstOf(updates)
      /\ s.pc = IF updates = {} THEN "clear" ELSE "send"
  BY <1>1, <1>3 DEF State, PC
<1>5. Go(t, s) /\ UNCHANGED <<updates, sent, keep, clashed>> /\ th[t].pc = "begin"
  BY DEF Begin, Stays, At
<1> HIDE DEF s
<1> SUFFICES ASSUME ~clashed PROVE OrderInv' /\ DueInv' BY <1>5 DEF OrderInv, DueInv
<1>6. /\ th'[t] = s /\ Notifying(t)
      /\ \A u \in Thread \ {t} : ~Sending(u) /\ ~Sending(u)' /\ ~Notifying(u)'
  BY <1>4, <1>5, OthersRest DEF Notifying
<1>7. OrderInv'
  <2>1. Alone' BY <1>6 DEF Alone, Thread
  <2>2. InOrder' BY <1>5 DEF SentInv, OrderInv, InOrder
  <2>3. \A u \in Thread : ~Sending(u) BY <1>5, <1>6 DEF Sending
  <2>4. Newer' BY <1>5, <2>3 DEF SentInv, OrderInv, Newer, Unsent
  <2> QED BY <2>1, <2>2, <2>4 DEF OrderInv
<1>8. \A m \in updates : Left(t, m)' BY <1>2, <1>4, <1>6 DEF Left, At
<1>9. DueInv' BY <1>4, <1>5, <1>6, <1>8 DEF DueInv
<1> QED BY <1>7, <1>9

LEMMA SendSent == ASSUME SentInv, NEW t \in Thread, Send(t) PROVE OrderInv' /\ DueInv'
<1>1. PICK ok \in BOOLEAN :
        /\ sent' = IF ok THEN Append(sent, th[t].it) ELSE sent
        /\ Go(t, [th[t] EXCEPT !.ok = @ /\ ok, !.pc = IF keep THEN "next" ELSE "clear"])
  BY DEF Send
<1> DEFINE s == [th[t] EXCEPT !.ok = @ /\ ok, !.pc = IF keep THEN "next" ELSE "clear"]
           it == th[t].it
<1>2. /\ th \in [Thread -> State] /\ updates \subseteq Message /\ sent \in Seq(Message)
      /\ keep \in BOOLEAN
  BY StateTyped DEF SentInv, TypeInv, TypeOK
<1>3. /\ s \in State /\ s.due = th[t].due /\ s.it = it /\ s.ok = (th[t].ok /\ ok)
      /\ s.pc = IF keep THEN "next" ELSE "clear"
  <2>1. PICK pc \in PC : pc = IF keep THEN "next" ELSE "clear" BY DEF PC
  <2>2. s = [th[t] EXCEPT !.ok = @ /\ ok, !.pc = pc] /\ th[t] \in State BY <1>2, <2>1
  <2> QED BY <2>1, <2>2 DEF State
<1>4. /\ Go(t, s) /\ UNCHANGED <<updates, keep, clashed>>
      /\ th[t].pc = "send" /\ it \in updates /\ it \in Message
  BY <1>1, <1>2 DEF Send, Stays, At
<1> HIDE DEF s
<1> SUFFICES ASSUME ~clashed PROVE OrderInv' /\ DueInv' BY <1>4 DEF OrderInv, DueInv
<1>5. /\ th'[t] = s /\ Sending(t)
      /\ \A u \in Thread \ {t} : ~Sending(u) /\ ~Sending(u)' /\ ~Notifying(u)'
  BY <1>3, <1>4, OthersRest DEF Notifying, Sending
<1>6. Unsent(it)
  <2>1. \A u \in Thread : Sending(u) => Left(u, it) BY <1>4, <1>5 DEF Left, At
  <2> QED BY <1>4, <2>1 DEF SentInv, OrderInv, Newer
<1>7. ok => /\ Len(sent') = Len(sent) + 1 /\ sent'[Len(sent) + 1] = it /\ sent' \in Seq(Message)
            /\ \A i \in 1 .. Len(sent) : sent'[i] = sent[i]
  BY <1>1, <1>2, <1>4, AppendProperties
<1>8. Len(sent) \in Nat /\ DOMAIN sent = 1 .. Len(sent) /\ (ok => DOMAIN sent' = 1 .. Len(sent) + 1)
  BY <1>2, <1>7
<1>9. \A m \in Message : Precedes(it, m) /\ Unsent(m) => Unsent(m)'
  <2> SUFFICES ASSUME NEW m \in Message, Precedes(it, m), Unsent(m) PROVE Unsent(m)' OBVIOUS
  <2>1. m.topic = it.topic => it.id < m.id
    <3>1. m.topic \in Nat /\ it.topic \in Nat BY <1>4, StoreAssumption DEF Message
    <3> QED BY <3>1 DEF Precedes
  <2> QED BY <1>1, <1>7, <1>8, <2>1 DEF Unsent
<1>10. OrderInv'
  <2>1. Alone' BY <1>5 DEF Alone, Thread
  <2>2. InOrder'
    <3>1. InOrder BY DEF SentInv, OrderInv
    <3>2. CASE ~ok BY <1>1, <3>1, <3>2 DEF InOrder
    <3>3. CASE ok
      <4> SUFFICES ASSUME NEW i \in DOMAIN sent', NEW j \in DOMAIN sent', i < j,
                          sent'[i].topic = sent'[j].topic
                   PROVE  sent'[i].id < sent'[j].id
        BY DEF InOrder
      <4>1. i \in 1 .. Len(sent) BY <1>8, <3>3
      <4>2. CASE j \in 1 .. Len(sent) BY <1>7, <1>8, <3>1, <3>3, <4>1, <4>2 DEF InOrder
      <4>3. CASE j = Len(sent) + 1 BY <1>6, <1>7, <1>8, <3>3, <4>1, <4>3 DEF Unsent
      <4> QED BY <1>8, <3>3, <4>2, <4>3
    <3> QED BY <3>2, <3>3
  <2>3. Newer'
    <3> SUFFICES ASSUME NEW m \in updates, \A u \in Thread : Sending(u)' => Left(u, m)'
                 PROVE  Unsent(m)'
      BY <1>4 DEF Newer
    <3>1. Sending(t)' BY <1>3, <1>5 DEF Sending
    <3>2. Precedes(it, m) BY <3>1, <1>3, <1>5 DEF Left, At
    <3>3. \A u \in Thread : Sending(u) => Left(u, m) BY <1>4, <1>5, <3>2 DEF Left, At
    <3>4. Unsent(m) BY <3>3 DEF SentInv, OrderInv, Newer
    <3> QED BY <1>2, <1>9, <3>2, <3>4
  <2> QED BY <2>1, <2>2, <2>3 DEF OrderInv
<1>11. DueInv'
  <2> SUFFICES ASSUME keep
               PROVE  /\ th'[t].due \subseteq updates
                      /\ th'[t].ok => \A m \in th'[t].due : m \in ToSet(sent') \/ Left(t, m)'
    BY <1>4, <1>5 DEF DueInv
  <2>1. /\ th[t].due \subseteq updates
        /\ th[t].ok => \A m \in th[t].due : m \in ToSet(sent) \/ Left(t, m)
    BY <1>5 DEF SentInv, DueInv
  <2>2. ASSUME th'[t].ok, NEW m \in th'[t].due PROVE m \in ToSet(sent') \/ Left(t, m)'
    <3>1. ok /\ th[t].ok /\ m \in th[t].due
      <4>1. s.ok /\ m \in s.due BY <1>5, <2>2
      <4> QED BY <1>3, <4>1
    <3>2. \A n : n = it \/ n \in ToSet(sent) => n \in ToSet(sent')
      BY <1>7, <1>8, <3>1 DEF ToSet
    <3>3. m \in ToSet(sent) \/ m = it \/ Precedes(it, m) BY <1>4, <2>1, <3>1 DEF Left, At
    <3>4. Precedes(it, m) => Left(t, m)' BY <1>3, <1>5 DEF Left, At
    <3> QED BY <3>2, <3>3, <3>4
  <2> QED BY <1>3, <1>5, <2>1, <2>2
<1> QED BY <1>10, <1>11

LEMMA AdvanceSent == ASSUME SentInv, NEW t \in Thread, Advance(t) PROVE OrderInv' /\ DueInv'
<1> DEFINE it == FirstOf(After(updates, th[t].it))
           s  == [th[t] EXCEPT !.it = it, !.pc = IF it = End THEN "clear" ELSE "send"]
<1>1. th \in [Thread -> State] /\ updates \subseteq Message
  BY StateTyped DEF SentInv, TypeInv, TypeOK
<1>2. /\ it = End <=> After(updates, th[t].it) = {}
      /\ it # End => /\ it \in updates /\ Precedes(th[t].it, it)
                     /\ \A n \in updates : Precedes(th[t].it, n) => n = it \/ Precedes(it, n)
  BY <1>1, NextMessage
<1>3. Go(t, s) BY DEF Advance
<1>4. UNCHANGED <<updates, sent, keep, clashed>> /\ th[t].pc = "next" /\ th[t].it \in updates
  BY DEF Advance, Stays, At
<1>5. it = End => \A n \in updates : ~Precedes(th[t].it, n) BY <1>2 DEF After
<1> HIDE DEF it
<1>6. /\ s \in State /\ s.due = th[t].due /\ s.it = it /\ s.ok = th[t].ok
      /\ s.pc = IF it = End THEN "clear" ELSE "send"
  BY <1>1, <1>2 DEF State, PC
<1> HIDE DEF s
<1> SUFFICES ASSUME ~clashed PROVE OrderInv' /\ DueInv' BY <1>4 DEF OrderInv, DueInv
<1>7. /\ th'[t] = s /\ Sending(t)
      /\ \A u \in Thread \ {t} : ~Sending(u) /\ ~Sending(u)' /\ ~Notifying(u)'
  BY <1>3, <1>4, <1>6, OthersRest DEF Notifying, Sending
\* What was left of updates is left, and nothing else.
<1>8. \A m \in updates : Left(t, m)' <=> Left(t, m)
  <2> SUFFICES ASSUME NEW m \in updates PROVE Left(t, m)' <=> Precedes(th[t].it, m)
    BY <1>4 DEF Left, At
  <2>1. CASE it = End BY <1>5, <1>6, <1>7, <2>1 DEF Left, At
  <2>2. CASE it # End
    <3>1. Left(t, m)' <=> m = it \/ Precedes(it, m) BY <1>6, <1>7, <2>2 DEF Left, At
    <3>2. m = it \/ Precedes(it, m) => Precedes(th[t].it, m) BY <1>1, <1>2, <1>4, <2>2, Order
    <3> QED BY <1>2, <2>2, <3>1, <3>2
  <2> QED BY <2>1, <2>2
<1>9. Sending(t)' BY <1>6, <1>7 DEF Sending
<1>10. OrderInv'
  <2>1. Alone' BY <1>7 DEF Alone, Thread
  <2>2. InOrder' BY <1>4 DEF SentInv, OrderInv, InOrder
  <2>3. Newer'
    <3> SUFFICES ASSUME NEW m \in updates, \A u \in Thread : Sending(u)' => Left(u, m)'
                 PROVE  Unsent(m)
      BY <1>4 DEF Newer, Unsent
    <3>1. \A u \in Thread : Sending(u) => Left(u, m) BY <1>7, <1>8, <1>9
    <3> QED BY <3>1 DEF SentInv, OrderInv, Newer
  <2> QED BY <2>1, <2>2, <2>3 DEF OrderInv
<1>11. DueInv' BY <1>4, <1>6, <1>7, <1>8 DEF SentInv, DueInv
<1> QED BY <1>10, <1>11

LEMMA EmptySent == ASSUME SentInv, NEW t \in Thread, Empty(t) PROVE OrderInv' /\ DueInv'
<1>1. th \in [Thread -> State] BY StateTyped DEF SentInv, TypeInv
<1>2. Done(t) \in State /\ Done(t).pc \in {"idle", "loop"} BY <1>1 DEF Done, State, PC
<1>3. /\ Go(t, Done(t)) /\ th[t].pc = "clear" /\ updates' = {}
      /\ UNCHANGED <<sent, keep, clashed>>
  BY DEF Empty, Stays, At
<1> SUFFICES ASSUME ~clashed PROVE OrderInv' /\ DueInv' BY <1>3 DEF OrderInv, DueInv
<1>4. /\ th'[t] = Done(t) /\ \A u \in Thread \ {t} : ~Sending(u)' /\ ~Notifying(u)'
  BY <1>2, <1>3, OthersRest DEF Notifying
<1>5. Alone' BY <1>4 DEF Alone, Thread
<1>6. InOrder' /\ Newer' BY <1>3 DEF SentInv, OrderInv, InOrder, Newer
<1>7. \A u \in Thread : ~Sending(u)' BY <1>2, <1>4 DEF Sending
<1> QED BY <1>5, <1>6, <1>7 DEF OrderInv, DueInv

LEMMA InitSent == Init => SentInv
<1> SUFFICES ASSUME Init PROVE SentInv OBVIOUS
<1>1. TypeInv BY InitTyped
<1>2. th["main"].pc \notin {"begin", "send", "next", "clear"} /\ ~Sending("main") /\ ~Sending("auto")
  BY <1>1, IdleState DEF Init, Sending, Thread, State
<1>3. OrderInv BY <1>2 DEF Init, OrderInv, Alone, Notifying, InOrder, Newer
<1>4. DueInv BY <1>2 DEF DueInv, Thread
<1> QED BY <1>1, <1>3, <1>4 DEF SentInv

LEMMA NextSent == ASSUME SentInv, [Next]_vars PROVE SentInv'
<1>0. /\ TypeInv /\ th \in [Thread -> State] /\ Thread = {"main", "auto"}
      /\ Idle \in State /\ Idle.pc = "idle" /\ clashed \in BOOLEAN
  BY StateTyped, IdleState DEF SentInv, TypeInv, TypeOK, Thread, Idle
<1>1. TypeInv' BY <1>0, NextTyped
<1>2. ASSUME UNCHANGED vars PROVE OrderInv' /\ DueInv'
  BY <1>2 DEF vars, SentInv, OrderInv, DueInv, Alone, Notifying, InOrder, Newer, Unsent, Sending, Left, At
<1>3. ASSUME Insert PROVE OrderInv' /\ DueInv'
  <2>1. PICK call \in {"insert", "publish"}, topic \in 1 .. MaxTopic : InsertAs(call, topic)
    BY <1>3 DEF Insert
  <2> DEFINE s == [Idle EXCEPT !.pc = "insert", !.call = call, !.topic = topic]
  <2>2. s \in State /\ s.pc = "insert"
    <3>1. topic \in 0 .. MaxTopic BY StoreAssumption
    <3> QED BY <1>0, <3>1 DEF State, PC
  <2>3. Go("main", s) /\ ~Sending("main") BY <2>1 DEF InsertAs, At, Sending
  <2> HIDE DEF s
  <2> QED BY <1>0, <1>3, <2>2, <2>3, Quiet DEF Insert, Stays
<1>4. ASSUME ForceNotify PROVE OrderInv' /\ DueInv'
  <2> DEFINE s == [[Idle EXCEPT !.call = "notify"] EXCEPT !.pc = "begin"]
  <2>1. s \in State /\ s.pc = "begin" BY <1>0 DEF State, PC
  <2>2. Go("main", s) /\ ~Sending("main") BY <1>4 DEF ForceNotify, Enter, At, Sending
  <2>3. ~clashed' => ~clashed /\ \A u \in Thread \ {"main"} : ~Notifying(u)
    BY <1>4 DEF ForceNotify, Enter
  <2> HIDE DEF s
  <2> QED BY <1>0, <1>4, <2>1, <2>2, <2>3, Quiet DEF ForceNotify, Stays
<1>5. ASSUME Destroy PROVE OrderInv' /\ DueInv'
  <2> DEFINE s == [Idle EXCEPT !.pc = "join"]
  <2>1. s \in State /\ s.pc = "join" BY <1>0 DEF State, PC
  <2>2. Go("main", s) /\ ~Sending("main") BY <1>5 DEF Destroy, At, Sending
  <2> HIDE DEF s
  <2> QED BY <1>0, <1>5, <2>1, <2>2, Quiet DEF Destroy
<1>6. ASSUME Inserted PROVE OrderInv' /\ DueInv'
  <2> DEFINE m == [topic |-> th["main"].topic, id |-> count']
             s == [th["main"] EXCEPT !.pc = IF th["main"].call = "publish" THEN "size" ELSE "idle"]
  <2>1. s \in State /\ s.pc \in {"size", "idle"} BY <1>0 DEF State, PC
  <2>2. Go("main", s) /\ ~Sending("main") /\ count' = count + 1 /\ updates' = updates \cup {m}
    BY <1>6 DEF Inserted, At, Sending
  <2>3. Unsent(m)
    <3> SUFFICES ASSUME NEW i \in DOMAIN sent PROVE sent[i].id < count' BY DEF Unsent
    <3>1. sent[i] \in Message /\ sent[i].id <= count /\ count \in Nat
      BY <1>0, StoreAssumption DEF TypeInv, TypeOK, Numbered
    <3>2. sent[i].id \in Nat BY <3>1, StoreAssumption DEF Message
    <3> QED BY <2>2, <3>1, <3>2
  <2> HIDE DEF s, m
  <2> QED BY <1>0, <1>6, <2>1, <2>2, <2>3, Quiet DEF Inserted, Stays
<1>7. ASSUME Size PROVE OrderInv' /\ DueInv'
  <2> DEFINE s(pc) == [th["main"] EXCEPT !.pc = pc]
  <2>1. /\ s("begin") \in State /\ s("begin").pc = "begin"
        /\ s("idle") \in State /\ s("idle").pc = "idle"
    BY <1>0 DEF State, PC
  <2>2. ~Sending("main") BY <1>7 DEF Size, At, Sending
  <2>3. \/ Go("main", s("idle")) /\ clashed' = clashed
        \/ /\ Go("main", s("begin"))
           /\ ~clashed' => ~clashed /\ \A u \in Thread \ {"main"} : ~Notifying(u)
    BY <1>7 DEF Size, Enter
  <2> HIDE DEF s
  <2>4. UNCHANGED <<updates, sent, keep>> BY <1>7 DEF Size, Stays
  <2>5. CASE Go("main", s("idle")) /\ clashed' = clashed
    BY <1>0, <2>1, <2>2, <2>4, <2>5, Quiet
  <2>6. CASE /\ Go("main", s("begin"))
             /\ ~clashed' => ~clashed /\ \A u \in Thread \ {"main"} : ~Notifying(u)
    BY <1>0, <2>1, <2>2, <2>4, <2>6, Quiet
  <2> QED BY <2>3, <2>5, <2>6
<1>8. ASSUME Join PROVE OrderInv' /\ DueInv'
  <2> DEFINE s == [Idle EXCEPT !.pc = "gone"]
  <2>1. s \in State /\ s.pc = "gone" BY <1>0 DEF State, PC
  <2>2. Go("main", s) /\ ~Sending("main") BY <1>8 DEF Join, At, Sending
  <2> HIDE DEF s
  <2> QED BY <1>0, <1>8, <2>1, <2>2, Quiet DEF Join, Stays
<1>9. ASSUME Loop PROVE OrderInv' /\ DueInv'
  <2> DEFINE s == [Idle EXCEPT !.pc = IF keep THEN "sleep" ELSE "exit"]
  <2>1. s \in State /\ s.pc \in {"sleep", "exit"} BY <1>0 DEF State, PC
  <2>2. Go("auto", s) /\ ~Sending("auto") BY <1>9 DEF Loop, At, Sending
  <2> HIDE DEF s
  <2> QED BY <1>0, <1>9, <2>1, <2>2, Quiet DEF Loop, Stays
<1>10. ASSUME Wake PROVE OrderInv' /\ DueInv'
  <2> DEFINE s == [Idle EXCEPT !.pc = "begin"]
  <2>1. s \in State /\ s.pc = "begin" BY <1>0 DEF State, PC
  <2>2. Go("auto", s) /\ ~Sending("auto") BY <1>10 DEF Wake, Enter, At, Sending
  <2>3. ~clashed' => ~clashed /\ \A u \in Thread \ {"auto"} : ~Notifying(u)
    BY <1>10 DEF Wake, Enter
  <2> HIDE DEF s
  <2> QED BY <1>0, <1>10, <2>1, <2>2, <2>3, Quiet DEF Wake, Stays
<1>11. ASSUME NEW t \in Thread, NotifyStep(t) PROVE OrderInv' /\ DueInv'
  <2>1. CASE Dangle(t)
    BY <2>1 DEF Dangle, SentInv, OrderInv, DueInv, Alone, Notifying, InOrder, Newer, Unsent, Sending, Left, At
  <2> QED BY <1>11, <2>1, BeginSent, SendSent, AdvanceSent, EmptySent DEF NotifyStep
<1>12. ASSUME Overlap PROVE OrderInv' /\ DueInv'
  BY <1>12 DEF Overlap, SentInv, OrderInv, DueInv, Alone, Notifying, InOrder, Newer, Unsent, Sending, Left, At
<1> QED
  BY <1>0, <1>1, <1>2, <1>3, <1>4, <1>5, <1>6, <1>7, <1>8, <1>9, <1>10, <1>11, <1>12
  DEF Next, MainStep, AutoStep, SentInv

LEMMA AlwaysSentInv == Spec => []SentInv
BY InitSent, NextSent, PTL DEF Spec

(***************************************************************************)
(* Without overlapping Notify calls the messages of a topic are published  *)
(* in the order they were stored and none twice, wherever the other thread *)
(* inserts relative to the running loop, for any number of them.           *)
(***************************************************************************)
THEOREM OrderKept == Spec => []OnceAndInOrder
<1>1. SentInv => OnceAndInOrder BY DEF SentInv, OrderInv, InOrder, OnceAndInOrder
<1> QED BY <1>1, AlwaysSentInv, PTL

(***************************************************************************)
(* A Notify that is about to clear the store and return true has published *)
(* all that was stored when it began: the insertions of the other thread   *)
(* never make the loop jump over one of them.                              *)
(***************************************************************************)
THEOREM TrueNotifyIsComplete == Spec => []TrueMeansSent
<1>1. SentInv => TrueMeansSent
  <2> SUFFICES ASSUME SentInv, NEW t \in Thread, At(t, "clear"), th[t].ok, keep, ~clashed
               PROVE  th[t].due \subseteq ToSet(sent)
    BY DEF TrueMeansSent
  <2>1. Sending(t) /\ \A m : ~Left(t, m) BY DEF Sending, Left, At
  <2> QED BY <2>1 DEF SentInv, DueInv
<1> QED BY <1>1, AlwaysSentInv, PTL
-----------------------------------------------------------------------------
\* A step keeps the store within its limit when Publish returns.
LEMMA NextPublish == ASSUME TypeInv, PublishBounds, [Next]_vars PROVE PublishBounds'
<1> SUFFICES ASSUME th'["main"].pc = "idle", th'["main"].call = "publish"
             PROVE  Cardinality(updates') <= MaxStored
  BY DEF PublishBounds, At
<1>0. /\ th \in [Thread -> State] /\ Thread = {"main", "auto"} /\ MaxStored \in Nat
      /\ Cardinality(updates) \in Nat /\ Cardinality({}) = 0
      /\ Idle.call = "none" /\ Idle \in State
  <2>1. IsFiniteSet(updates) BY DEF TypeInv
  <2>2. Cardinality(updates) \in Nat /\ Cardinality({}) = 0
    BY <2>1, FS_CardinalityType, FS_EmptySet
  <2>3. th \in [Thread -> State] BY StateTyped DEF TypeInv
  <2> QED BY <2>2, <2>3, IdleState, CommunicatorAssumption DEF Thread, Idle
<1>1. CASE UNCHANGED vars BY <1>1 DEF vars, PublishBounds, At
<1>2. CASE Insert \/ ForceNotify \/ Destroy \/ Join
  <2> SUFFICES th'["main"].pc # "idle" OBVIOUS
  <2>1. Insert => th'["main"].pc = "insert" BY <1>0 DEF Insert, InsertAs, Go, State
  <2>2. ForceNotify => th'["main"].pc = "begin" BY <1>0 DEF ForceNotify, Enter, Go, State
  <2>3. Destroy => th'["main"].pc = "join" BY <1>0 DEF Destroy, Go, State
  <2>4. Join => th'["main"].pc = "gone" BY <1>0 DEF Join, Go, State
  <2> QED BY <1>2, <2>1, <2>2, <2>3, <2>4
<1>3. CASE Inserted BY <1>0, <1>3 DEF Inserted, Go, State
<1>4. CASE Size
  <2>1. UNCHANGED updates BY <1>4 DEF Size
  <2>2. Cardinality(updates) > MaxStored => th'["main"].pc = "begin"
    BY <1>0, <1>4 DEF Size, Enter, Go, State
  <2> QED BY <1>0, <2>1, <2>2
<1>5. CASE Loop \/ Wake BY <1>0, <1>5 DEF Loop, Wake, Enter, Go, Stays, PublishBounds, At
<1>6. ASSUME NEW t \in Thread, Begin(t) \/ Send(t) \/ Advance(t) \/ Dangle(t)
      PROVE  Cardinality(updates') <= MaxStored
  <2>1. updates' = updates BY <1>6 DEF Begin, Send, Advance, Dangle
  <2>2. t = "main" => th'[t] = th[t] \/ th'[t].pc \in {"send", "next", "clear"}
    <3>1. Begin(t) => th'[t].pc \in {"send", "clear"} BY <1>0 DEF Begin, Go, State
    <3>2. Send(t) => th'[t].pc \in {"next", "clear"} BY <1>0 DEF Send, Go, State
    <3>3. Advance(t) => th'[t].pc \in {"send", "clear"} BY <1>0 DEF Advance, Go, State
    <3>4. Dangle(t) => th'[t] = th[t] BY DEF Dangle
    <3> QED BY <1>6, <3>1, <3>2, <3>3, <3>4
  <2>3. t = "auto" => th'["main"] = th["main"]
    BY <1>0, <1>6 DEF Begin, Send, Advance, Dangle, Go
  <2> QED BY <1>0, <2>1, <2>2, <2>3 DEF PublishBounds, At
<1>7. ASSUME NEW t \in Thread, Empty(t) PROVE Cardinality(updates') <= MaxStored
  BY <1>0, <1>7 DEF Empty
<1>8. CASE Overlap BY <1>8 DEF Overlap, PublishBounds, At
<1> QED
  BY <1>0, <1>1, <1>2, <1>3, <1>4, <1>5, <1>6, <1>7, <1>8
  DEF Next, MainStep, AutoStep, NotifyStep

(***************************************************************************)
(* When Publish returns, the store is within its limit: only the thread    *)
(* that publishes inserts, and what the other one does is to clear.        *)
(***************************************************************************)
THEOREM PublishKeepsLimit == Spec => []PublishBounds
<1>1. Init => PublishBounds
  BY IdleState DEF Init, PublishBounds, At, Thread, Idle
<1>2. TypeInv /\ PublishBounds /\ [Next]_vars => (TypeInv /\ PublishBounds)'
  BY NextTyped, NextPublish
<1> QED BY <1>1, <1>2, InitTyped, PTL DEF Spec
-----------------------------------------------------------------------------
(***************************************************************************)
(* The listener.                                                           *)
(***************************************************************************)
Content == [there : BOOLEAN, version : Nat]

\* A message of t is being inserted; a message of t that was sent is not yet handled.
Inserting(t) == At("main", "insert") /\ th["main"].topic = t
Behind(t)    == \E i \in heard + 1 .. Len(sent) : sent[i].topic = t

ServiceTyped ==
  /\ value \in [Field -> Content] /\ seen \in [Field -> Content]
  /\ heard \in Nat /\ heard <= Len(sent)

\* An HSET is still to be sent only while its message is inserted or has just been.
ChangeInv == change = NoChange \/ \E t \in Field :
  /\ change = t
  /\ th["main"].pc \in {"insert", "idle"}
  /\ At("main", "insert") => th["main"].topic = t /\ th["main"].call = "insert"

(***************************************************************************)
(* What the listener does not know yet it will be told: a message newer    *)
(* than all of its field that were sent is stored, or one that was sent is *)
(* still to be handled.  Before the HSET the message is stored already.    *)
(***************************************************************************)
Stated(t) == t \notin missed =>
  /\ change = t /\ ~At("main", "insert") => t \in Untold
  /\ seen[t] # value[t] /\ change # t /\ ~Inserting(t) => t \in Untold \/ Behind(t)

CatchInv == ~torn => \A t \in Field : Stated(t)

ServiceInv == TypeInv /\ ServiceTyped /\ ChangeInv /\ CatchInv
-----------------------------------------------------------------------------
LEMMA Fields == \A t \in Field : t \in Nat /\ t # 0 /\ NoChange # t
BY StoreAssumption, ServiceAssumption DEF NoChange

LEMMA UntoldIs == \A t : t \in Untold <=> \E m \in updates : m.topic = t /\ Unsent(m)
BY DEF Untold, Unsent

LEMMA UntoldKept == ASSUME UNCHANGED <<updates, sent>> PROVE Untold' = Untold
BY DEF Untold

\* Only faults and the variables of the service change.
LEMMA FaultTyped ==
  ASSUME TypeInv, NEW r \in Reply, Command(r), UNCHANGED <<updates, sent, th, keep, count, torn, clashed>>
  PROVE  TypeInv'
<1>1. faults \in 0 .. MaxFaults BY DEF TypeInv, TypeOK
<1>2. faults' \in 0 .. MaxFaults
  <2>1. faults' = faults + 0 \/ faults' = faults + 1 BY DEF Command
  <2>2. faults' <= MaxFaults BY DEF Command
  <2> QED BY <1>1, <2>1, <2>2, CommunicatorAssumption
<1> QED BY <1>2 DEF TypeInv, TypeOK, HasMessage, At, Numbered

\* The main thread comes to an insert, as Insert of Communicator does.
LEMMA InsertTyped ==
  ASSUME TypeInv, NEW t \in 1 .. MaxTopic, InsertAs("insert", t), Stays,
         UNCHANGED <<updates, sent, count, clashed>>, faults' = faults
  PROVE  TypeInv' /\ At("main", "insert")' /\ th'["main"].topic = t /\ th'["main"].call = "insert"
<1>1. Insert BY DEF Insert
<1>2. TypeInv' BY <1>1, NextTyped DEF Next
<1>3. th \in [Thread -> State] BY StateTyped DEF TypeInv
<1>4. th'["main"] = [Idle EXCEPT !.pc = "insert", !.call = "insert", !.topic = t]
  BY <1>3 DEF InsertAs, Go, Thread
<1> QED BY <1>2, <1>4, IdleState DEF At, State

LEMMA WrittenTyped ==
  ASSUME value \in [Field -> Content], NEW t \in Field, NEW r \in Reply, NEW there \in BOOLEAN,
         Written(t, there, r)
  PROVE  /\ value' \in [Field -> Content] /\ \A u \in Field \ {t} : value'[u] = value[u]
         /\ ~r.done => value' = value
<1>1. value[t].version + 1 \in Nat BY DEF Content
<1>2. [there |-> there, version |-> value[t].version + 1] \in Content BY <1>1 DEF Content
<1> QED BY <1>2 DEF Written
-----------------------------------------------------------------------------
(***************************************************************************)
(* The steps of the communicator, as far as the listener is concerned.     *)
(***************************************************************************)
MainKept == /\ At("main", "insert") <=> At("main", "insert")'
            /\ At("main", "insert") => th'["main"] = th["main"]

Publishes == \E m \in updates : sent' = Append(sent, m) /\ updates' = updates

LEMMA ThreadSteps ==
  ASSUME TypeInv, MainStep \/ AutoStep \/ ForceNotify \/ Destroy, ~torn'
  PROVE  /\ ~torn
         /\ \/ Inserted
            \/ MainKept /\ (UNCHANGED <<updates, sent>> \/ Publishes
                            \/ (updates' = {} /\ sent' = sent))
<1>0. /\ th \in [Thread -> State] /\ Thread = {"main", "auto"} /\ IdleState /\ Idle \in State
  BY StateTyped, IdleState DEF TypeInv, Thread
<1>1. ASSUME ForceNotify \/ Destroy PROVE MainKept /\ UNCHANGED <<updates, sent>>
  <2>1. ForceNotify => th'["main"].pc = "begin" /\ th["main"].pc = "idle"
    BY <1>0 DEF ForceNotify, Enter, Go, At, State
  <2>2. Destroy => th'["main"].pc = "join" /\ th["main"].pc = "idle"
    BY <1>0 DEF Destroy, Go, At, State
  <2> QED BY <1>1, <2>1, <2>2 DEF MainKept, At, ForceNotify, Destroy
<1>2. ASSUME Size \/ Join PROVE MainKept /\ UNCHANGED <<updates, sent>>
  <2>1. Size => th'["main"].pc \in {"begin", "idle"} /\ th["main"].pc = "size"
    BY <1>0 DEF Size, Enter, Go, At, State
  <2>2. Join => th'["main"].pc = "gone" /\ th["main"].pc = "join"
    BY <1>0 DEF Join, Go, At, State
  <2> QED BY <1>2, <2>1, <2>2 DEF MainKept, At, Size, Join
<1>3. ASSUME Loop \/ Wake PROVE MainKept /\ UNCHANGED <<updates, sent>>
  <2>1. th'["main"] = th["main"] BY <1>0, <1>3 DEF Loop, Wake, Enter, Go
  <2> QED BY <1>3, <2>1 DEF MainKept, At, Loop, Wake
<1>4. ASSUME NEW t \in Thread, NotifyStep(t), ~Dangle(t)
      PROVE  MainKept /\ (UNCHANGED <<updates, sent>> \/ Publishes
                          \/ (updates' = {} /\ sent' = sent))
  <2>1. Begin(t) => th'[t].pc \in {"send", "clear"} /\ th[t].pc = "begin"
    BY <1>0 DEF Begin, Go, At, State
  <2>2. Send(t) => th'[t].pc \in {"next", "clear"} /\ th[t].pc = "send"
    BY <1>0 DEF Send, Go, At, State
  <2>3. Advance(t) => th'[t].pc \in {"send", "clear"} /\ th[t].pc = "next"
    BY <1>0 DEF Advance, Go, At, State
  <2>4. Empty(t) => th'[t].pc \in {"idle", "loop"} /\ th[t].pc = "clear"
    BY <1>0 DEF Empty, Done, Go, At, State
  <2>5. \A u \in Thread \ {t} : th'[u] = th[u]
    BY <1>0, <1>4 DEF NotifyStep, Begin, Send, Advance, Empty, Go
  <2>6. MainKept BY <1>0, <1>4, <2>1, <2>2, <2>3, <2>4, <2>5 DEF NotifyStep, MainKept, At
  <2>7. Send(t) => UNCHANGED <<updates, sent>> \/ Publishes BY DEF Send, Publishes
  <2>8. Begin(t) \/ Advance(t) => UNCHANGED <<updates, sent>> BY DEF Begin, Advance
  <2>9. Empty(t) => updates' = {} /\ sent' = sent BY DEF Empty
  <2> QED BY <1>4, <2>6, <2>7, <2>8, <2>9 DEF NotifyStep
<1>5. \A t \in Thread : ~Dangle(t) BY DEF Dangle
<1>6. ~torn
  <2>1. \A t \in Thread : NotifyStep(t) /\ ~Dangle(t) => ~torn
    BY DEF NotifyStep, Begin, Send, Advance, Empty, Stays
  <2> QED BY <1>0, <1>5, <2>1
      DEF MainStep, AutoStep, ForceNotify, Destroy, Inserted, Size, Join, Loop, Wake, Stays
<1> QED BY <1>0, <1>1, <1>2, <1>3, <1>4, <1>5, <1>6 DEF MainStep, AutoStep

\* An HSET waits while the message is inserted, and then until it is sent.
LEMMA ChangeKept ==
  ASSUME ServiceInv,
         MainStep \/ AutoStep \/ (change = NoChange /\ (ForceNotify \/ Destroy)) \/ Overlap,
         change' = change
  PROVE  ChangeInv'
<1> SUFFICES ASSUME NEW t \in Field, change = t,
                    th["main"].pc \in {"insert", "idle"},
                    At("main", "insert") => th["main"].topic = t /\ th["main"].call = "insert"
             PROVE  /\ th'["main"].pc \in {"insert", "idle"}
                    /\ At("main", "insert")' => th'["main"].topic = t /\ th'["main"].call = "insert"
  BY DEF ServiceInv, ChangeInv
<1>0. th \in [Thread -> State] /\ Thread = {"main", "auto"} /\ change # NoChange
  BY StateTyped, Fields DEF ServiceInv, TypeInv, Thread, NoChange
<1>1. CASE Inserted BY <1>0, <1>1 DEF Inserted, Go, At, State
<1>2. ~Size /\ ~Join /\ ~Begin("main") /\ ~Send("main") /\ ~Advance("main") /\ ~Empty("main")
      /\ ~Dangle("main")
  BY DEF Size, Join, Begin, Send, Advance, Empty, Dangle, At
<1>3. ASSUME AutoStep \/ Overlap PROVE th'["main"] = th["main"]
  <2>1. \A s : Go("auto", s) => th'["main"] = th["main"] BY <1>0 DEF Go
  <2>2. CASE Loop \/ Wake \/ Overlap BY <2>1, <2>2 DEF Loop, Wake, Enter, Overlap
  <2>3. CASE NotifyStep("auto")
    BY <2>1, <2>3 DEF NotifyStep, Begin, Send, Advance, Empty, Dangle
  <2> QED BY <1>3, <2>2, <2>3 DEF AutoStep
<1> QED BY <1>0, <1>1, <1>2, <1>3 DEF MainStep, NotifyStep, At

LEMMA FollowKeeps ==
  ASSUME ServiceInv, TypeInv',
         MainThread \/ AutoThread \/ (change = NoChange /\ (ForceNotify \/ Destroy) /\ Follow)
           \/ (Overlap /\ Follow)
  PROVE  ServiceInv'
<1>0. /\ Follow /\ TypeInv /\ UNCHANGED <<value, change, seen, heard>>
      /\ sent \in Seq(Message) /\ updates \subseteq Message /\ count \in Nat
      /\ heard \in Nat /\ heard <= Len(sent) /\ Len(sent) \in Nat
  <2>1. Follow /\ UNCHANGED <<value, change, seen, heard>>
    BY DEF MainThread, AutoThread, Follow
  <2>2. TypeInv /\ heard \in 0 .. Len(sent) BY DEF ServiceInv, ServiceTyped
  <2>3. sent \in Seq(Message) /\ updates \subseteq Message /\ count \in Nat
    BY <2>2, StoreAssumption DEF TypeInv, TypeOK
  <2>4. Len(sent) \in Nat BY <2>3
  <2> QED BY <2>1, <2>2, <2>3, <2>4
<1>1. ChangeInv' BY <1>0, ChangeKept DEF MainThread, AutoThread
<1>2. ASSUME torn' PROVE ServiceInv'
  <2>1. heard <= Len(sent')
    <3>1. sent' = sent \/ \E m \in updates : sent' = Append(sent, m)
      BY DEF MainThread, AutoThread, MainStep, AutoStep, NotifyStep, Begin, Send, Advance, Empty, Dangle,
             Inserted, Size, Join, Loop, Wake, ForceNotify, Destroy, Overlap
    <3>2. ASSUME NEW m \in updates, sent' = Append(sent, m) PROVE Len(sent') = Len(sent) + 1
      BY <1>0, <3>2, AppendProperties
    <3> QED BY <1>0, <3>1, <3>2
  <2> QED BY <1>0, <1>1, <1>2, <2>1 DEF ServiceInv, ServiceTyped, CatchInv
<1>3. ASSUME ~torn' PROVE ServiceInv'
  <2>0. /\ ~torn /\ \A t \in Field : Stated(t)
        /\ \/ Inserted
           \/ MainKept /\ (UNCHANGED <<updates, sent>> \/ Publishes
                           \/ (updates' = {} /\ sent' = sent))
    <3>1. ~Overlap BY <1>3 DEF Overlap
    <3> QED BY <1>0, <1>3, <3>1, ThreadSteps DEF MainThread, AutoThread, ServiceInv, CatchInv
  <2>1. CASE Inserted
    <3> DEFINE m == [topic |-> th["main"].topic, id |-> count']
    <3>1. updates' = updates \cup {m} /\ count' = count + 1 /\ sent' = sent /\ missed' = missed
      <4>1. updates' = updates \cup {m} /\ count' = count + 1 /\ sent' = sent
        BY <2>1 DEF Inserted
      <4> QED BY <1>0, <4>1 DEF Follow
    <3>2. Unsent(m)
      <4> SUFFICES ASSUME NEW i \in DOMAIN sent PROVE sent[i].id < count' BY DEF Unsent
      <4>1. sent[i] \in Message /\ sent[i].id <= count BY <1>0 DEF TypeInv, Numbered
      <4>2. sent[i].id \in Nat BY <4>1, StoreAssumption DEF Message
      <4> QED BY <1>0, <3>1, <4>1, <4>2
    <3>3. m.topic = th["main"].topic OBVIOUS
    <3> HIDE DEF m
    <3>4. \A t \in Field : (t \in Untold => t \in Untold') /\ (Inserting(t) => t \in Untold')
      <4> SUFFICES ASSUME NEW t \in Field, t \in Untold \/ Inserting(t)
                   PROVE  \E x \in updates' : x.topic = t /\ Unsent(x)
        BY <3>1, UntoldIs DEF Untold, Unsent
      <4> QED BY <3>1, <3>2, <3>3, UntoldIs DEF Inserting
    <3>5. \A t \in Field : change = t => Inserting(t)
      BY <2>1, Fields DEF ServiceInv, ChangeInv, Inserted, Inserting, At, NoChange
    <3>6. \A t \in Field : Behind(t)' <=> Behind(t) BY <1>0, <3>1 DEF Behind
    <3>7. \A t \in Field : Stated(t)' BY <1>0, <2>0, <3>1, <3>4, <3>5, <3>6 DEF Stated
    <3> QED BY <1>0, <1>1, <3>1, <3>7 DEF ServiceInv, ServiceTyped, CatchInv
  <2>2. CASE MainKept /\ UNCHANGED <<updates, sent>>
    <3>1. missed' = missed BY <1>0, <2>2 DEF Follow
    <3>2. \A t \in Field : Inserting(t)' <=> Inserting(t) BY <2>2 DEF MainKept, Inserting, At
    <3>3. Untold' = Untold /\ \A t \in Field : Behind(t)' <=> Behind(t)
      BY <1>0, <2>2, UntoldKept DEF Behind
    <3>4. \A t \in Field : Stated(t)' BY <1>0, <2>0, <2>2, <3>1, <3>2, <3>3 DEF Stated, MainKept
    <3> QED BY <1>0, <1>1, <2>2, <3>4 DEF ServiceInv, ServiceTyped, CatchInv
  <2>3. CASE MainKept /\ updates' = {} /\ sent' = sent
    <3>1. \A t \in Field : t \notin missed' => t \notin missed /\ t \notin Untold
      BY <1>0, <2>3 DEF Follow, Untold
    <3>2. \A t \in Field : Inserting(t)' <=> Inserting(t) BY <2>3 DEF MainKept, Inserting, At
    <3>3. \A t \in Field : Behind(t)' <=> Behind(t) BY <1>0, <2>3 DEF Behind
    <3>4. \A t \in Field : Stated(t)' BY <1>0, <2>0, <2>3, <3>1, <3>2, <3>3 DEF Stated, MainKept
    <3> QED BY <1>0, <1>1, <2>3, <3>4 DEF ServiceInv, ServiceTyped, CatchInv
  <2>4. CASE MainKept /\ Publishes
    <3>1. PICK m \in updates : sent' = Append(sent, m) /\ updates' = updates
      BY <2>4 DEF Publishes
    <3>2. /\ sent' # sent /\ Last(sent') = m /\ Len(sent') = Len(sent) + 1
          /\ sent'[Len(sent) + 1] = m /\ \A i \in 1 .. Len(sent) : sent'[i] = sent[i]
          /\ DOMAIN sent' = 1 .. Len(sent) + 1 /\ DOMAIN sent = 1 .. Len(sent)
      <4>1. /\ sent' \in Seq(Message) /\ Len(sent') = Len(sent) + 1 /\ sent'[Len(sent) + 1] = m
            /\ \A i \in 1 .. Len(sent) : sent'[i] = sent[i]
        BY <1>0, <3>1, AppendProperties
      <4> QED BY <1>0, <4>1 DEF Last
    <3>3. missed' = IF change = m.topic
                    THEN missed \cup {m.topic} ELSE missed \ {m.topic}
      BY <1>0, <3>2 DEF Follow
    <3>4. \A t \in Field : Inserting(t)' <=> Inserting(t) BY <2>4 DEF MainKept, Inserting, At
    <3>5. \A t \in Field : Behind(t) => Behind(t)'
      <4> SUFFICES ASSUME NEW t \in Field, Behind(t)
                   PROVE  \E i \in heard + 1 .. Len(sent') : sent'[i].topic = t
        BY <1>0 DEF Behind
      <4>1. PICK i \in heard + 1 .. Len(sent) : sent[i].topic = t BY DEF Behind
      <4>2. i \in 1 .. Len(sent) /\ i \in heard + 1 .. Len(sent') BY <1>0, <3>2, <4>1
      <4> QED BY <3>2, <4>1, <4>2
    <3>6. Behind(m.topic)'
      <4>1. Len(sent) + 1 \in heard + 1 .. Len(sent') BY <1>0, <3>2
      <4> QED BY <1>0, <3>2, <4>1 DEF Behind
    <3>7. \A t \in Field : t # m.topic /\ t \in Untold => t \in Untold'
      <4> SUFFICES ASSUME NEW t \in Field, t # m.topic, NEW x \in updates, x.topic = t, Unsent(x)
                   PROVE  Unsent(x)'
        BY <3>1, UntoldIs DEF Untold, Unsent
      <4> SUFFICES ASSUME NEW i \in DOMAIN sent', sent'[i].topic = t PROVE sent'[i].id < x.id
        BY DEF Unsent
      <4>1. i \in DOMAIN sent BY <1>0, <3>2
      <4> QED BY <3>2, <4>1 DEF Unsent
    <3>8. \A t \in Field : Stated(t)'
      <4> SUFFICES ASSUME NEW t \in Field, t \notin missed' PROVE Stated(t)'
        BY DEF Stated
      <4>1. CASE t # m.topic
        <5>1. t \notin missed BY <3>3, <4>1
        <5> QED BY <1>0, <2>0, <2>4, <3>4, <3>5, <3>7, <4>1, <5>1 DEF Stated, MainKept
      <4>2. CASE t = m.topic
        <5>1. change # t BY <3>3, <4>2, Fields DEF ServiceInv, ChangeInv, NoChange
        <5> QED BY <1>0, <3>6, <4>2, <5>1 DEF Stated
      <4> QED BY <4>1, <4>2
    <3>9. heard <= Len(sent') BY <1>0, <3>2
    <3> QED BY <1>0, <1>1, <3>8, <3>9 DEF ServiceInv, ServiceTyped, CatchInv
  <2> QED BY <2>0, <2>1, <2>2, <2>3, <2>4
<1> QED BY <1>2, <1>3
-----------------------------------------------------------------------------
(***************************************************************************)
(* The calls of the data manager, and the listener.                        *)
(***************************************************************************)
LEMMA UpdateKeeps == ASSUME ServiceInv, Update PROVE ServiceInv'
<1>1. PICK t \in Field :
        /\ Free /\ InsertAs("insert", t) /\ Stays
        /\ change' = t
        /\ UNCHANGED <<updates, sent, count, faults, clashed, value, seen, heard, missed>>
  BY DEF Update, Call
<1>2. TypeInv' /\ At("main", "insert")' /\ th'["main"].topic = t /\ th'["main"].call = "insert"
  BY <1>1, InsertTyped, ServiceAssumption DEF ServiceInv
<1>3. ~torn /\ change = NoChange /\ At("main", "idle") BY <1>1 DEF Free
<1>4. Untold' = Untold /\ \A u \in Field : Behind(u)' <=> Behind(u)
  BY <1>1, UntoldKept DEF Behind
<1>5. \A u \in Field : Stated(u)'
  <2> SUFFICES ASSUME NEW u \in Field PROVE Stated(u)' OBVIOUS
  <2>1. Stated(u) /\ change # u /\ ~Inserting(u)
    BY <1>3, Fields DEF ServiceInv, CatchInv, Inserting, At
  <2>2. Inserting(u)' => u = t BY <1>2 DEF Inserting
  <2>3. change' # u => u # t BY <1>1
  <2> QED BY <1>1, <1>2, <1>4, <2>1, <2>2, <2>3 DEF Stated
<1>6. ChangeInv' BY <1>1, <1>2 DEF ChangeInv, At
<1>7. ServiceTyped' BY <1>1 DEF ServiceInv, ServiceTyped
<1> QED BY <1>2, <1>5, <1>6, <1>7 DEF ServiceInv, CatchInv

LEMMA HsetKeeps == ASSUME ServiceInv, Hset PROVE ServiceInv'
<1>1. PICK r \in Reply :
        /\ At("main", "idle") /\ change # NoChange /\ ~torn
        /\ Command(r) /\ Written(change, TRUE, r) /\ change' = NoChange
        /\ UNCHANGED <<updates, sent, th, keep, count, torn, clashed, seen, heard, calls, missed>>
  BY DEF Hset
<1>2. PICK t \in Field : change = t
  BY <1>1 DEF ServiceInv, ChangeInv
<1>3. TypeInv' BY <1>1, FaultTyped DEF ServiceInv
<1>4. value' \in [Field -> Content] /\ \A u \in Field \ {t} : value'[u] = value[u]
  BY <1>1, <1>2, WrittenTyped DEF ServiceInv, ServiceTyped
<1>5. Untold' = Untold /\ \A u \in Field : Behind(u)' <=> Behind(u)
  BY <1>1, UntoldKept DEF Behind
<1>6. \A u \in Field : Stated(u)'
  <2> SUFFICES ASSUME NEW u \in Field PROVE Stated(u)' OBVIOUS
  <2>1. Stated(u) /\ ~At("main", "insert") /\ ~Inserting(u)
    BY <1>1 DEF ServiceInv, CatchInv, Inserting, At
  <2>2. change' # u BY <1>1, Fields
  <2>3. CASE u = t BY <1>1, <1>2, <1>5, <2>1, <2>2, <2>3 DEF Stated
  <2>4. CASE u # t BY <1>1, <1>2, <1>4, <1>5, <2>1, <2>2, <2>4 DEF Stated
  <2> QED BY <2>3, <2>4
<1>7. ChangeInv' BY <1>1 DEF ChangeInv
<1>8. ServiceTyped' BY <1>1, <1>4 DEF ServiceInv, ServiceTyped
<1> QED BY <1>3, <1>6, <1>7, <1>8 DEF ServiceInv, CatchInv

\* A field that changes unannounced is not claimed to be known any more.
LEMMA FieldChanges ==
  ASSUME ServiceInv, TypeInv', Free, NEW t \in Field, UNCHANGED <<updates, sent, change, seen, heard>>,
         value' \in [Field -> Content], \A u \in Field \ {t} : value'[u] = value[u],
         value' = value \/ t \in missed',
         missed \subseteq missed'
  PROVE  ServiceInv'
<1>1. change = NoChange /\ ~torn /\ \A u \in Field : change # u /\ ~Inserting(u)
  BY Fields DEF Free, Inserting, At
<1>2. Untold' = Untold /\ \A u \in Field : Behind(u)' <=> Behind(u) BY UntoldKept DEF Behind
<1>3. \A u \in Field : Stated(u)'
  <2> SUFFICES ASSUME NEW u \in Field, u \notin missed' PROVE Stated(u)' BY DEF Stated
  <2>1. Stated(u) /\ u \notin missed BY <1>1 DEF ServiceInv, CatchInv
  <2> QED BY <1>1, <1>2, <2>1 DEF Stated
<1>4. ChangeInv' BY <1>1 DEF ChangeInv
<1>5. ServiceTyped' BY DEF ServiceInv, ServiceTyped
<1> QED BY <1>3, <1>4, <1>5 DEF ServiceInv, CatchInv

LEMMA DeleteKeeps == ASSUME ServiceInv, Delete PROVE ServiceInv'
<1>1. PICK t \in Field, name \in (1 .. MaxTopic) \ Field, r \in Reply :
        /\ Free /\ Stays /\ Command(r) /\ Written(t, FALSE, r)
        /\ IF r.ok THEN InsertAs("insert", name) ELSE UNCHANGED th
        /\ missed' = IF r.done THEN missed \cup {t} ELSE missed
        /\ UNCHANGED <<updates, sent, count, clashed, change, seen, heard>>
  BY DEF Delete, Call
<1>2. /\ value' \in [Field -> Content] /\ \A u \in Field \ {t} : value'[u] = value[u]
      /\ ~r.done => value' = value
  BY <1>1, WrittenTyped DEF ServiceInv, ServiceTyped
<1>3. TypeInv'
  <2>1. CASE r.ok
    <3>1. faults' = faults
      <4>1. faults \in Nat BY CommunicatorAssumption DEF ServiceInv, TypeInv, TypeOK
      <4> QED BY <1>1, <2>1, <4>1 DEF Command
    <3> QED BY <1>1, <2>1, <3>1, InsertTyped DEF ServiceInv
  <2>2. CASE ~r.ok BY <1>1, <2>2, FaultTyped DEF ServiceInv, Stays
  <2> QED BY <2>1, <2>2
<1>4. (r.done => t \in missed') /\ missed \subseteq missed' BY <1>1
<1> QED BY <1>1, <1>2, <1>3, <1>4, FieldChanges

LEMMA AddConfigKeeps == ASSUME ServiceInv, AddConfig PROVE ServiceInv'
<1>1. PICK t \in Field, r \in Reply :
        /\ Free /\ Command(r) /\ Written(t, TRUE, r)
        /\ missed' = IF r.done THEN missed \cup {t} ELSE missed
        /\ UNCHANGED <<updates, sent, th, keep, count, torn, clashed, change, seen, heard>>
  BY DEF AddConfig, Call
<1>2. /\ value' \in [Field -> Content] /\ \A u \in Field \ {t} : value'[u] = value[u]
      /\ ~r.done => value' = value
  BY <1>1, WrittenTyped DEF ServiceInv, ServiceTyped
<1>3. TypeInv' BY <1>1, FaultTyped DEF ServiceInv
<1>4. (r.done => t \in missed') /\ missed \subseteq missed' BY <1>1
<1> QED BY <1>1, <1>2, <1>3, <1>4, FieldChanges

LEMMA ReactKeeps == ASSUME ServiceInv, React PROVE ServiceInv'
<1> DEFINE t == sent[heard'].topic
<1>1. /\ heard < Len(sent) /\ heard' = heard + 1
      /\ seen' = IF t \in Field THEN [seen EXCEPT ![t] = value[t]] ELSE seen
      /\ UNCHANGED <<vars, value, change, calls, missed>>
  BY DEF React
<1>2. heard \in Nat /\ Len(sent) \in Nat /\ sent \in Seq(Message)
  BY DEF ServiceInv, ServiceTyped, TypeInv, TypeOK
<1>3. /\ seen' \in [Field -> Content] /\ (t \in Field => seen'[t] = value[t])
      /\ \A u \in Field \ {t} : seen'[u] = seen[u]
  BY <1>1 DEF ServiceInv, ServiceTyped
<1>4. \A u \in Field \ {t} : Behind(u) => Behind(u)'
  <2> SUFFICES ASSUME NEW u \in Field \ {t}, NEW i \in heard + 1 .. Len(sent), sent[i].topic = u
               PROVE  Behind(u)'
    BY DEF Behind
  <2>1. i # heard + 1 BY <1>1
  <2>2. i \in heard' + 1 .. Len(sent) BY <1>1, <1>2, <2>1
  <2> QED BY <1>1, <2>2 DEF Behind, vars
<1> HIDE DEF t
<1>5. Untold' = Untold BY <1>1, UntoldKept DEF vars
<1>6. CatchInv'
  <2> SUFFICES ASSUME ~torn', NEW u \in Field PROVE Stated(u)' BY DEF CatchInv
  <2>1. Stated(u) BY <1>1 DEF ServiceInv, CatchInv, vars
  <2>2. Inserting(u)' <=> Inserting(u) BY <1>1 DEF vars, Inserting, At
  <2>3. At("main", "insert")' <=> At("main", "insert") BY <1>1 DEF vars, At
  <2> QED BY <1>1, <1>3, <1>4, <1>5, <2>1, <2>2, <2>3 DEF Stated
<1>7. TypeInv' BY <1>1 DEF ServiceInv, TypeInv, TypeOK, vars, HasMessage, At, Numbered
<1>8. ChangeInv' BY <1>1 DEF ServiceInv, ChangeInv, vars, At
<1>9. ServiceTyped' BY <1>1, <1>2, <1>3 DEF ServiceInv, ServiceTyped, vars
<1> QED BY <1>6, <1>7, <1>8, <1>9 DEF ServiceInv

LEMMA InitCatches == ServiceInit => ServiceInv
<1> SUFFICES ASSUME ServiceInit PROVE ServiceInv OBVIOUS
<1>1. TypeInv BY InitTyped DEF ServiceInit
<1>2. ServiceTyped
  <2>1. [there |-> FALSE, version |-> 0] \in Content BY DEF Content
  <2>2. Len(sent) = 0 BY DEF ServiceInit, Init
  <2> QED BY <2>1, <2>2 DEF ServiceInit, ServiceTyped
<1>3. ChangeInv BY DEF ServiceInit, ChangeInv
<1>4. CatchInv BY Fields DEF ServiceInit, CatchInv, Stated
<1> QED BY <1>1, <1>2, <1>3, <1>4 DEF ServiceInv

LEMMA NextCatches == ASSUME ServiceInv, [ServiceNext]_serviceVars PROVE ServiceInv'
<1>1. CASE UNCHANGED serviceVars
  <2>1. TypeInv' BY <1>1 DEF serviceVars, ServiceInv, TypeInv, TypeOK, vars, HasMessage, At, Numbered
  <2>2. Untold' = Untold BY <1>1, UntoldKept DEF serviceVars, vars
  <2>3. CatchInv'
    BY <1>1, <2>2 DEF serviceVars, vars, ServiceInv, CatchInv, Stated, Inserting, Behind, At
  <2> QED BY <1>1, <2>1, <2>3 DEF serviceVars, vars, ServiceInv, ServiceTyped, ChangeInv, At
<1>2. ASSUME MainThread \/ AutoThread \/ (change = NoChange /\ (ForceNotify \/ Destroy) /\ Follow)
               \/ (Overlap /\ Follow)
      PROVE  ServiceInv'
  <2>1. Next BY <1>2 DEF MainThread, AutoThread, Next
  <2>2. TypeInv' BY <2>1, NextTyped DEF ServiceInv
  <2> QED BY <1>2, <2>2, FollowKeeps
<1> QED
  BY <1>1, <1>2, UpdateKeeps, HsetKeeps, DeleteKeeps, AddConfigKeeps, ReactKeeps DEF ServiceNext

(***************************************************************************)
(* When everything has settled, the listener has the value that is stored, *)
(* with the exceptions that missed lists: for any number of fields, calls, *)
(* messages and failures, as long as the store of messages is not torn.    *)
(***************************************************************************)
THEOREM ListenerIsRight == ServiceSpec => []ListenerCatchesUp
<1>1. ServiceInv => ListenerCatchesUp
  <2> SUFFICES ASSUME ServiceInv, ~torn, NEW t \in Field, Settled(t), t \notin missed
               PROVE  seen[t] = value[t]
    BY DEF ListenerCatchesUp
  <2>1. Stated(t) BY DEF ServiceInv, CatchInv
  <2>2. t \notin Untold BY UntoldIs DEF Settled
  <2>3. ~Behind(t) /\ ~Inserting(t) /\ change # t BY DEF Settled, Behind, Inserting
  <2> QED BY <2>1, <2>2, <2>3 DEF Stated
<1> QED BY <1>1, InitCatches, NextCatches, PTL DEF ServiceSpec
=============================================================================
