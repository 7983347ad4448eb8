------------------------ MODULE ZmqCommunicator_proof ------------------------
(***************************************************************************)
(* The communicator over 0MQ, for any number of topics and messages.       *)
(***************************************************************************)
EXTENDS ZmqCommunicator, MessageStore_proof, SequenceTheorems

Text == Message \cup {Blank}

State == [pc : {"idle", "send", "get", "gone", "terminated"}, it : Message \cup {End},
          fresh : BOOLEAN, call : {"none", "disconnect", "destroy"}, spent : BOOLEAN]

\* The one message of Notify is fresh except in a loop that has sent it.
ZmqTyped ==
  /\ main \in State /\ (At("send") => main.it \in updates) /\ (~At("send") => main.fresh)
  /\ updates \subseteq Message /\ count \in Nat /\ \A m \in updates : m.id <= count
  /\ wire \in Seq(Text) /\ inbox \in Seq(Text) /\ heard \in Seq(Text)
  /\ count <= MaxMessages
-----------------------------------------------------------------------------
(***************************************************************************)
(* A message is in one place at a time: stored or on its way or heard.     *)
(***************************************************************************)
On(s, m) == \E i \in DOMAIN s : s[i] = m
Distinct(s) == \A i, j \in DOMAIN s : i # j /\ s[i] # Blank => s[i] # s[j]
Apart(s, u) == \A m \in Message : ~(On(s, m) /\ On(u, m))

\* What is stored was not sent, unless the loop that sends it has used up its text.
Unused == main.fresh => \A m \in updates : ~On(wire, m) /\ ~On(inbox, m) /\ ~On(heard, m)
Counted(s) == \A i \in DOMAIN s : s[i].id <= count
Flow == /\ Distinct(wire) /\ Distinct(inbox) /\ Distinct(heard)
        /\ Apart(wire, inbox) /\ Apart(wire, heard) /\ Apart(inbox, heard)
        /\ Counted(wire) /\ Counted(inbox) /\ Counted(heard)

\* Filters are only added, and the forwarder knows no others.
Filtered == /\ known \subseteq filters
            /\ \A i \in DOMAIN inbox : Covers(filters, inbox[i])
            /\ \A i \in DOMAIN heard : Covers(filters, heard[i])

HeardInv == ZmqTyped /\ Flow /\ Unused /\ Filtered

LEMMA Texts == /\ Blank \notin Message /\ Blank \in Text
               /\ \A m \in Text : m.id \in Nat /\ \A n \in Message : n.id \in Nat
BY StoreAssumption DEF Blank, Message, Text

\* Append and Tail, on sequences of texts.
LEMMA Appended ==
  ASSUME NEW s \in Seq(Text), NEW m \in Text
  PROVE  /\ Append(s, m) \in Seq(Text)
         /\ \A n : On(Append(s, m), n) <=> On(s, n) \/ n = m
         /\ Distinct(s) /\ (m = Blank \/ ~On(s, m)) => Distinct(Append(s, m))
         /\ DOMAIN Append(s, m) = 1 .. Len(s) + 1 /\ Append(s, m)[Len(s) + 1] = m
         /\ DOMAIN s = 1 .. Len(s) /\ \A i \in 1 .. Len(s) : Append(s, m)[i] = s[i]
<1>1. /\ Append(s, m) \in Seq(Text) /\ Len(Append(s, m)) = Len(s) + 1 /\ Len(s) \in Nat
      /\ Append(s, m)[Len(s) + 1] = m /\ \A i \in 1 .. Len(s) : Append(s, m)[i] = s[i]
  BY AppendProperties, LenProperties
<1>2. DOMAIN Append(s, m) = 1 .. Len(s) + 1 /\ DOMAIN s = 1 .. Len(s) BY <1>1
<1>3. \A i \in DOMAIN Append(s, m) : i \in DOMAIN s \/ i = Len(s) + 1 BY <1>1, <1>2
<1>4. DOMAIN s \subseteq DOMAIN Append(s, m) /\ Len(s) + 1 \in DOMAIN Append(s, m)
      /\ Len(s) + 1 \notin DOMAIN s
  BY <1>1, <1>2
<1>5. \A n : On(Append(s, m), n) <=> On(s, n) \/ n = m BY <1>1, <1>2, <1>3, <1>4 DEF On
<1>6. ASSUME Distinct(s), m = Blank \/ ~On(s, m) PROVE Distinct(Append(s, m))
  BY <1>1, <1>2, <1>3, <1>4, <1>6 DEF Distinct, On
<1> QED BY <1>1, <1>2, <1>5, <1>6

LEMMA Taken ==
  ASSUME NEW s \in Seq(Text), s # <<>>
  PROVE  /\ Head(s) \in Text /\ Tail(s) \in Seq(Text)
         /\ \A n : On(Tail(s), n) => On(s, n)
         /\ On(s, Head(s))
         /\ Distinct(s) => Distinct(Tail(s)) /\ (Head(s) = Blank \/ ~On(Tail(s), Head(s)))
         /\ \A i \in DOMAIN Tail(s) : i + 1 \in DOMAIN s /\ Tail(s)[i] = s[i + 1]
         /\ Head(s) = s[1] /\ 1 \in DOMAIN s
<1>1. /\ Head(s) \in Text /\ Tail(s) \in Seq(Text) /\ Len(Tail(s)) = Len(s) - 1
      /\ \A i \in 1 .. Len(Tail(s)) : Tail(s)[i] = s[i + 1]
  BY HeadTailProperties
<1>2. Len(s) \in Nat /\ Len(s) # 0 /\ DOMAIN s = 1 .. Len(s) BY LenProperties, EmptySeq
<1>3. DOMAIN Tail(s) = 1 .. Len(s) - 1 BY <1>1
<1>4. \A i \in DOMAIN Tail(s) : i \in Nat /\ i # 0 /\ i + 1 \in DOMAIN s /\ Tail(s)[i] = s[i + 1]
  BY <1>1, <1>2, <1>3
<1>5. Head(s) = s[1] /\ 1 \in DOMAIN s BY <1>2
<1>6. Distinct(s) => Distinct(Tail(s)) BY <1>4 DEF Distinct
<1>7. Distinct(s) => Head(s) = Blank \/ ~On(Tail(s), Head(s)) BY <1>4, <1>5 DEF Distinct, On
<1> QED BY <1>1, <1>4, <1>5, <1>6, <1>7 DEF On

LEMMA CoversMore ==
  ASSUME NEW F, NEW G, F \subseteq G, NEW m, Covers(F, m)
  PROVE  Covers(G, m)
BY DEF Covers
-----------------------------------------------------------------------------
\* A new message is nowhere yet.
LEMMA NewMessage ==
  ASSUME HeardInv, count < MaxMessages, NEW topic \in 1 .. MaxTopic
  PROVE  LET m == [topic |-> topic, id |-> count + 1] IN
         /\ m \in Message /\ m # Blank
         /\ m \notin updates /\ ~On(wire, m) /\ ~On(inbox, m) /\ ~On(heard, m)
<1> DEFINE m == [topic |-> topic, id |-> count + 1]
<1>1. count \in Nat BY DEF HeardInv, ZmqTyped
<1>2. m \in Message
  <2>1. count + 1 \in 1 .. MaxMessages BY <1>1, StoreAssumption
  <2> QED BY <2>1 DEF Message
<1>3. ~(m.id <= count) BY <1>1
<1>4. m \notin updates BY <1>3 DEF HeardInv, ZmqTyped
<1>5. ~On(wire, m) /\ ~On(inbox, m) /\ ~On(heard, m) BY <1>3 DEF HeardInv, Flow, Counted, On
<1> QED BY <1>2, <1>4, <1>5, Texts

\* The thread goes on, with updates, wire and what is received as they are.
LEMMA MainRests ==
  ASSUME HeardInv, main' \in State,
         main'.pc = "send" => main'.it \in updates, main'.pc # "send" => main'.fresh,
         main'.fresh => main.fresh \/ updates = {},
         UNCHANGED <<updates, wire, inbox, heard, count, known>>, filters \subseteq filters'
  PROVE  HeardInv'
<1>1. ZmqTyped' BY DEF HeardInv, ZmqTyped, At
<1>2. Flow' BY DEF HeardInv, Flow, Counted
<1>3. Unused' BY DEF HeardInv, Unused
<1>4. Filtered' BY CoversMore DEF HeardInv, Filtered
<1> QED BY <1>1, <1>2, <1>3, <1>4 DEF HeardInv

LEMMA NotifyStarts ==
  ASSUME NEW S, S \subseteq Message, main \in State, At("idle"), main.fresh,
         Notifying(S) \/ UNCHANGED main
  PROVE  /\ main' \in State /\ main'.fresh
         /\ main'.pc = "send" => main'.it \in S
<1>1. S # {} => First(S) \in S BY FirstExists
<1> QED BY <1>1 DEF Notifying, State, At

LEMMA PublishHeard == ASSUME HeardInv, Publish PROVE HeardInv'
<1>1. PICK topic \in 1 .. MaxTopic :
        /\ At("idle") /\ count < MaxMessages /\ count' = count + 1
        /\ updates' = updates \cup {[topic |-> topic, id |-> count']}
        /\ Notifying(updates') \/ UNCHANGED main
        /\ UNCHANGED <<keep, filters, net, thread, wire, owed, faults>>
  BY DEF Publish
<1> DEFINE m == [topic |-> topic, id |-> count + 1]
<1>2. /\ m \in Message /\ ~On(wire, m) /\ ~On(inbox, m) /\ ~On(heard, m)
  BY <1>1, NewMessage
<1>3. updates' = updates \cup {m} /\ m.id = count' BY <1>1
<1> HIDE DEF m
<1>4. /\ main \in State /\ main.fresh /\ updates \subseteq Message /\ count \in Nat
      /\ \A x \in updates : x.id <= count /\ x.id \in Nat
  BY <1>1, Texts DEF HeardInv, ZmqTyped, At
<1>5. main' \in State /\ main'.fresh /\ (main'.pc = "send" => main'.it \in updates')
  BY <1>1, <1>2, <1>3, <1>4, NotifyStarts
<1>6. UNCHANGED <<wire, inbox, heard, known, filters>> BY <1>1 DEF net, thread
<1>7. ZmqTyped'
  <2>1. \A x \in updates' : x.id <= count' BY <1>1, <1>3, <1>4
  <2>2. count' \in Nat /\ count' <= MaxMessages BY <1>1, <1>4, StoreAssumption
  <2> QED BY <1>2, <1>3, <1>4, <1>5, <1>6, <2>1, <2>2 DEF HeardInv, ZmqTyped, At
<1>8. Flow'
  <2>1. \A s \in {wire, inbox, heard} : Counted(s) => \A i \in DOMAIN s : s[i].id <= count'
    <3> SUFFICES ASSUME NEW s \in {wire, inbox, heard}, Counted(s), NEW i \in DOMAIN s
                 PROVE  s[i].id <= count'
      OBVIOUS
    <3>1. s[i] \in Text BY DEF HeardInv, ZmqTyped
    <3>2. s[i].id \in Nat /\ s[i].id <= count BY <3>1, Texts DEF Counted
    <3> QED BY <1>1, <1>4, <3>2
  <2> QED BY <1>6, <2>1 DEF HeardInv, Flow, Counted
<1>9. Unused' BY <1>2, <1>3, <1>4, <1>6 DEF HeardInv, Unused
<1>10. Filtered' BY <1>6 DEF HeardInv, Filtered
<1> QED BY <1>7, <1>8, <1>9, <1>10 DEF HeardInv

LEMMA SendHeard == ASSUME HeardInv, Send PROVE HeardInv'
<1> DEFINE text == IF main.fresh THEN main.it ELSE Blank
           next == FirstOf(After(updates, main.it))
<1>1. PICK ok \in BOOLEAN :
        /\ At("send")
        /\ wire' = IF ok /\ linked THEN Append(wire, text) ELSE wire
        /\ IF next = End
           THEN main' = [main EXCEPT !.pc = "idle", !.it = End, !.fresh = TRUE] /\ updates' = {}
           ELSE main' = [main EXCEPT !.it = next, !.fresh = @ /\ ~ok] /\ UNCHANGED updates
        /\ UNCHANGED <<keep, filters, net, thread, count>>
  BY DEF Send, SendAs
<1>2. /\ main \in State /\ main.it \in updates /\ updates \subseteq Message
      /\ main.it.id <= count /\ count \in Nat
      /\ wire \in Seq(Text) /\ inbox \in Seq(Text) /\ heard \in Seq(Text)
  BY <1>1 DEF HeardInv, ZmqTyped
<1>3. UNCHANGED <<inbox, heard, known, filters, count>> BY <1>1 DEF net, thread
<1>4. next # End => next \in updates BY <1>2, NextMessage
<1>5. /\ text \in Text /\ text.id <= count
      /\ text = Blank \/ (~On(wire, text) /\ ~On(inbox, text) /\ ~On(heard, text))
  BY <1>2, Texts DEF HeardInv, Unused, Text, Blank
<1> HIDE DEF text, next
<1>6. /\ main' \in State /\ (main'.pc = "send" => main'.it \in updates')
      /\ main'.pc # "send" => main'.fresh
      /\ main'.fresh => updates' = {} \/ (main.fresh /\ ~ok)
      /\ updates' \subseteq updates
  <2>1. CASE next = End BY <1>1, <1>2, <2>1 DEF State
  <2>2. CASE next # End
    <3> DEFINE still == main.fresh /\ ~ok
    <3>1. main' = [main EXCEPT !.it = next, !.fresh = still] /\ updates' = updates
      BY <1>1, <2>2
    <3>2. still \in BOOLEAN /\ (still <=> main.fresh /\ ~ok) OBVIOUS
    <3> HIDE DEF still
    <3>3. next \in updates /\ next \in Message /\ main.pc = "send" BY <1>1, <1>2, <1>4, <2>2 DEF At
    <3>4. main' \in State /\ main'.pc = "send" /\ main'.it = next /\ main'.fresh = still
      BY <1>2, <3>1, <3>2, <3>3 DEF State
    <3> QED BY <3>1, <3>2, <3>3, <3>4
  <2> QED BY <2>1, <2>2
<1>7. wire' \in Seq(Text) /\ Counted(wire)'
  <2>1. CASE wire' = wire BY <1>2, <1>3, <2>1 DEF HeardInv, Flow, Counted
  <2>2. CASE wire' = Append(wire, text)
    BY <1>2, <1>3, <1>5, <2>2, Appended DEF HeardInv, Flow, Counted
  <2> QED BY <1>1, <2>1, <2>2
<1>8. ZmqTyped' BY <1>2, <1>3, <1>6, <1>7 DEF HeardInv, ZmqTyped, At
<1>9. Flow'
  <2>1. CASE wire' = wire BY <1>3, <2>1 DEF HeardInv, Flow, Counted
  <2>2. CASE wire' = Append(wire, text)
    <3>1. Distinct(wire') /\ \A n : On(wire', n) <=> On(wire, n) \/ n = text
      BY <1>2, <1>5, <2>2, Appended DEF HeardInv, Flow
    <3>2. Apart(wire', inbox) /\ Apart(wire', heard)
      BY <1>5, <3>1, Texts DEF HeardInv, Flow, Apart
    <3> QED BY <1>3, <1>7, <3>1, <3>2 DEF HeardInv, Flow, Counted
  <2> QED BY <1>1, <2>1, <2>2
<1>10. Unused'
  <2> SUFFICES ASSUME main'.fresh, updates' # {}
               PROVE  \A m \in updates' : ~On(wire', m) /\ ~On(inbox, m) /\ ~On(heard, m)
    BY <1>3 DEF Unused
  <2>1. main.fresh /\ wire' = wire BY <1>1, <1>6
  <2> QED BY <1>6, <2>1 DEF HeardInv, Unused
<1>11. Filtered' BY <1>3 DEF HeardInv, Filtered
<1> QED BY <1>8, <1>9, <1>10, <1>11 DEF HeardInv

LEMMA RecvHeard == ASSUME HeardInv, Recv PROVE HeardInv'
<1>1. /\ UNCHANGED <<updates, main, keep, filters, known, linked, wire, owed, count>>
      /\ (inbox # <<>> /\ inbox' = Tail(inbox) /\ heard' = Append(heard, Head(inbox)))
         \/ UNCHANGED <<inbox, heard>>
  BY DEF Recv, net
<1>2. CASE UNCHANGED <<inbox, heard>>
  <2>1. main \in State /\ (main.pc = "send" => main.it \in updates) /\ (main.pc # "send" => main.fresh)
    BY DEF HeardInv, ZmqTyped, At
  <2> QED BY <1>1, <1>2, <2>1, MainRests
<1>3. CASE inbox # <<>> /\ inbox' = Tail(inbox) /\ heard' = Append(heard, Head(inbox))
  <2> DEFINE m == Head(inbox)
  <2>1. inbox \in Seq(Text) /\ heard \in Seq(Text) BY DEF HeardInv, ZmqTyped
  <2>2. /\ m \in Text /\ inbox' \in Seq(Text) /\ On(inbox, m)
        /\ \A n : On(inbox', n) => On(inbox, n)
        /\ Distinct(inbox') /\ (m = Blank \/ ~On(inbox', m))
        /\ \A i \in DOMAIN inbox' : i + 1 \in DOMAIN inbox /\ inbox'[i] = inbox[i + 1]
        /\ m = inbox[1] /\ 1 \in DOMAIN inbox
    BY <1>3, <2>1, Taken DEF HeardInv, Flow
  <2> HIDE DEF m
  <2>3. m = Blank \/ (~On(heard, m) /\ ~On(wire, m))
    BY <2>2 DEF HeardInv, Flow, Apart, Text
  <2>4. /\ heard' \in Seq(Text) /\ Distinct(heard')
        /\ \A n : On(heard', n) <=> On(heard, n) \/ n = m
        /\ DOMAIN heard' = 1 .. Len(heard) + 1 /\ heard'[Len(heard) + 1] = m
        /\ DOMAIN heard = 1 .. Len(heard) /\ \A i \in 1 .. Len(heard) : heard'[i] = heard[i]
    BY <1>3, <2>1, <2>2, <2>3, Appended DEF HeardInv, Flow, m
  <2>5. \A i \in DOMAIN heard' : i \in DOMAIN heard \/ i = Len(heard) + 1
    BY <2>1, <2>4, LenProperties
  <2>6. ZmqTyped' BY <1>1, <2>2, <2>4 DEF HeardInv, ZmqTyped, At
  <2>7. Apart(inbox, heard)' /\ Apart(wire, inbox)' /\ Apart(wire, heard)'
    <3>1. \A n \in Message : On(inbox', n) => n # m /\ ~On(heard, n) /\ ~On(wire, n)
      BY <2>2, Texts DEF HeardInv, Flow, Apart
    <3>2. \A n \in Message : On(wire, n) => n # m /\ ~On(heard, n) /\ ~On(inbox', n)
      BY <2>2, <2>3, Texts DEF HeardInv, Flow, Apart
    <3> QED BY <1>1, <2>4, <3>1, <3>2 DEF Apart
  <2>8. Counted(wire)' /\ Counted(inbox)' /\ Counted(heard)'
    BY <1>1, <2>2, <2>4, <2>5 DEF HeardInv, Flow, Counted
  <2>9. Flow' BY <1>1, <2>2, <2>4, <2>7, <2>8 DEF HeardInv, Flow
  <2>10. Unused' BY <1>1, <2>2, <2>4 DEF HeardInv, Unused
  <2>11. Filtered' BY <1>1, <2>2, <2>4, <2>5 DEF HeardInv, Filtered
  <2> QED BY <2>6, <2>9, <2>10, <2>11 DEF HeardInv
<1> QED BY <1>1, <1>2, <1>3

LEMMA ForwardHeard == ASSUME HeardInv, Forward PROVE HeardInv'
<1> DEFINE m == Head(wire)
<1>1. /\ wire # <<>> /\ wire' = Tail(wire)
      /\ inbox' = IF Covers(known, m) THEN Append(inbox, m) ELSE inbox
      /\ UNCHANGED <<updates, main, keep, filters, known, linked, heard, count>>
  BY DEF Forward, net
<1>2. wire \in Seq(Text) /\ inbox \in Seq(Text) BY DEF HeardInv, ZmqTyped
<1>3. /\ m \in Text /\ wire' \in Seq(Text) /\ On(wire, m)
      /\ \A n : On(wire', n) => On(wire, n)
      /\ Distinct(wire') /\ (m = Blank \/ ~On(wire', m))
      /\ \A i \in DOMAIN wire' : i + 1 \in DOMAIN wire /\ wire'[i] = wire[i + 1]
      /\ m = wire[1] /\ 1 \in DOMAIN wire
  BY <1>1, <1>2, Taken DEF HeardInv, Flow
<1> HIDE DEF m
<1>4. m = Blank \/ (~On(heard, m) /\ ~On(inbox, m)) BY <1>3 DEF HeardInv, Flow, Apart, Text
<1>5. Counted(wire)' BY <1>1, <1>3 DEF HeardInv, Flow, Counted
<1>6. Apart(wire, inbox) /\ Apart(wire', inbox) /\ Apart(wire', heard)
  BY <1>3 DEF HeardInv, Flow, Apart
<1>7. CASE ~Covers(known, m)
  <2>1. inbox' = inbox BY <1>1, <1>7 DEF m
  <2>2. ZmqTyped' BY <1>1, <1>3, <2>1 DEF HeardInv, ZmqTyped, At
  <2>3. Flow' BY <1>1, <1>3, <1>5, <1>6, <2>1 DEF HeardInv, Flow, Counted
  <2>4. Unused' BY <1>1, <1>3, <2>1 DEF HeardInv, Unused
  <2>5. Filtered' BY <1>1, <2>1 DEF HeardInv, Filtered
  <2> QED BY <2>2, <2>3, <2>4, <2>5 DEF HeardInv
<1>8. CASE Covers(known, m)
  <2>1. inbox' = Append(inbox, m) BY <1>1, <1>8 DEF m
  <2>2. /\ inbox' \in Seq(Text) /\ Distinct(inbox')
        /\ \A n : On(inbox', n) <=> On(inbox, n) \/ n = m
        /\ DOMAIN inbox' = 1 .. Len(inbox) + 1 /\ inbox'[Len(inbox) + 1] = m
        /\ DOMAIN inbox = 1 .. Len(inbox) /\ \A i \in 1 .. Len(inbox) : inbox'[i] = inbox[i]
    BY <1>2, <1>3, <1>4, <2>1, Appended DEF HeardInv, Flow
  <2>3. \A i \in DOMAIN inbox' : i \in DOMAIN inbox \/ i = Len(inbox) + 1
    BY <1>2, <2>2, LenProperties
  <2>4. ZmqTyped' BY <1>1, <1>3, <2>2 DEF HeardInv, ZmqTyped, At
  <2>5. Apart(wire, inbox)' /\ Apart(wire, heard)' /\ Apart(inbox, heard)'
    <3>1. \A n \in Message : On(wire', n) => n # m /\ ~On(inbox, n) BY <1>3, <1>6, Texts DEF Apart
    <3>2. \A n \in Message : On(heard, n) => n # m /\ ~On(inbox, n)
      BY <1>4, Texts DEF HeardInv, Flow, Apart
    <3> QED BY <1>1, <1>6, <2>2, <3>1, <3>2 DEF Apart
  <2>6. Counted(inbox)' BY <1>1, <1>3, <2>2, <2>3 DEF HeardInv, Flow, Counted
  <2>7. Flow' BY <1>1, <1>3, <1>5, <2>2, <2>5, <2>6 DEF HeardInv, Flow, Counted
  <2>8. Unused' BY <1>1, <1>3, <2>2 DEF HeardInv, Unused
  <2>9. Filtered'
    <3>1. Covers(filters, m) BY <1>8, CoversMore DEF HeardInv, Filtered
    <3> QED BY <1>1, <2>2, <2>3, <3>1 DEF HeardInv, Filtered
  <2> QED BY <2>4, <2>7, <2>8, <2>9 DEF HeardInv
<1> QED BY <1>7, <1>8

LEMMA TrafficHeard == ASSUME HeardInv, Traffic PROVE HeardInv'
<1>1. PICK topic \in 1 .. MaxTopic :
        /\ count < MaxMessages /\ count' = count + 1
        /\ wire' = Append(wire, [topic |-> topic, id |-> count'])
        /\ UNCHANGED <<updates, main, keep, filters, known, linked, inbox, heard>>
  BY DEF Traffic, net, thread
<1> DEFINE m == [topic |-> topic, id |-> count + 1]
<1>2. /\ m \in Message /\ m \notin updates /\ ~On(wire, m) /\ ~On(inbox, m) /\ ~On(heard, m)
  BY <1>1, NewMessage
<1>3. wire' = Append(wire, m) /\ m.id = count' BY <1>1
<1> HIDE DEF m
<1>4. /\ wire \in Seq(Text) /\ inbox \in Seq(Text) /\ heard \in Seq(Text) /\ count \in Nat
      /\ \A x \in updates : x.id <= count /\ x.id \in Nat
  BY Texts DEF HeardInv, ZmqTyped
<1>5. /\ wire' \in Seq(Text) /\ Distinct(wire')
      /\ \A n : On(wire', n) <=> On(wire, n) \/ n = m
      /\ DOMAIN wire' = 1 .. Len(wire) + 1 /\ wire'[Len(wire) + 1] = m
      /\ DOMAIN wire = 1 .. Len(wire) /\ \A i \in 1 .. Len(wire) : wire'[i] = wire[i]
  <2>1. m \in Text /\ Distinct(wire) BY <1>2 DEF HeardInv, Flow, Text
  <2> QED BY <1>2, <1>3, <1>4, <2>1, Appended
<1>6. ZmqTyped'
  <2>1. \A x \in updates : x.id <= count' BY <1>1, <1>4
  <2>2. count' \in Nat /\ count' <= MaxMessages BY <1>1, <1>4, StoreAssumption
  <2> QED BY <1>1, <1>5, <2>1, <2>2 DEF HeardInv, ZmqTyped, At
<1>7. \A s \in {wire, inbox, heard} : \A i \in DOMAIN s : s[i].id <= count'
  <2> SUFFICES ASSUME NEW s \in {wire, inbox, heard}, NEW i \in DOMAIN s PROVE s[i].id <= count'
    OBVIOUS
  <2>1. s[i] \in Text BY <1>4
  <2>2. s[i].id \in Nat /\ s[i].id <= count BY <2>1, Texts DEF HeardInv, Flow, Counted
  <2> QED BY <1>1, <1>4, <2>2
<1>8. Counted(wire)' /\ Counted(inbox)' /\ Counted(heard)'
  <2>1. \A i \in DOMAIN wire' : i \in DOMAIN wire \/ i = Len(wire) + 1
    BY <1>4, <1>5, LenProperties
  <2>2. count' <= count' BY <1>1, <1>4
  <2>3. Counted(wire)' BY <1>3, <1>5, <1>7, <2>1, <2>2 DEF Counted
  <2> QED BY <1>1, <1>7, <2>3 DEF Counted
<1>9. Apart(wire, inbox)' /\ Apart(wire, heard)'
  BY <1>1, <1>2, <1>5 DEF HeardInv, Flow, Apart
<1>10. Flow' BY <1>1, <1>5, <1>8, <1>9 DEF HeardInv, Flow
<1>11. Unused' BY <1>1, <1>2, <1>5 DEF HeardInv, Unused
<1>12. Filtered' BY <1>1 DEF HeardInv, Filtered
<1> QED BY <1>6, <1>10, <1>11, <1>12 DEF HeardInv

LEMMA InitHeard == Init => HeardInv
<1> SUFFICES ASSUME Init PROVE HeardInv OBVIOUS
<1>1. Idle \in State /\ Idle.pc = "idle" /\ Idle.fresh BY DEF Idle, State
<1>2. <<>> \in Seq(Text) /\ DOMAIN <<>> = {} BY EmptySeq
<1>3. ZmqTyped BY <1>1, <1>2, StoreAssumption DEF Init, ZmqTyped, At
<1>4. Flow BY <1>2 DEF Init, Flow, Distinct, Apart, On, Counted
<1>5. Unused /\ Filtered BY <1>2 DEF Init, Unused, Filtered
<1> QED BY <1>3, <1>4, <1>5 DEF HeardInv

LEMMA NextHeard == ASSUME HeardInv, [Next]_zmqVars PROVE HeardInv'
<1>0. /\ main \in State /\ (main.pc = "send" => main.it \in updates)
      /\ (main.pc # "send" => main.fresh) /\ updates \subseteq Message
  BY DEF HeardInv, ZmqTyped, At
<1>1. CASE UNCHANGED zmqVars BY <1>0, <1>1, MainRests DEF zmqVars
<1>2. CASE Notify
  <2>1. main' \in State /\ main'.fresh /\ (main'.pc = "send" => main'.it \in updates) /\ main.fresh
    BY <1>0, <1>2, NotifyStarts DEF Notify, At
  <2> QED BY <1>2, <2>1, MainRests DEF Notify, net, thread
<1>3. CASE Subscribe BY <1>0, <1>3, MainRests DEF Subscribe, net, thread
<1>4. CASE Leave
  <2>1. main' \in State /\ main'.pc # "send" /\ main'.fresh /\ main.fresh
    BY <1>0, <1>4 DEF Leave, At, State
  <2> QED BY <1>4, <2>1, MainRests DEF Leave, net, thread
<1>5. CASE Get
  <2>1. main' \in State /\ main'.pc # "send" /\ main'.fresh /\ main.fresh
    BY <1>0, <1>5 DEF Get, At, State
  <2> QED BY <1>5, <2>1, MainRests DEF Get, net, thread
<1>6. CASE Loop BY <1>0, <1>6, MainRests DEF Loop, net
<1>7. CASE Link BY <1>0, <1>7, MainRests DEF Link, thread
<1>8. CASE Learn
  <2>1. ZmqTyped' /\ Flow' /\ Unused'
    BY <1>8 DEF Learn, thread, HeardInv, ZmqTyped, At, Flow, Counted, Unused
  <2>2. Filtered' BY <1>8 DEF Learn, thread, HeardInv, Filtered
  <2> QED BY <2>1, <2>2 DEF HeardInv
<1> QED
  BY <1>1, <1>2, <1>3, <1>4, <1>5, <1>6, <1>7, <1>8, PublishHeard, SendHeard, RecvHeard,
     ForwardHeard, TrafficHeard DEF Next, Listening, Network

(***************************************************************************)
(* Whatever Notify sends again, a listener hears no message twice and none *)
(* that no filter covers, for any number of topics, messages and faults.   *)
(***************************************************************************)
THEOREM NothingHeardTwice == Spec => []HeardOnce
<1>1. HeardInv => HeardOnce
  <2> SUFFICES ASSUME HeardInv PROVE HeardOnce OBVIOUS
  <2>1. \A i \in DOMAIN heard : Covers(filters, heard[i]) BY DEF HeardInv, Filtered
  <2>2. \A i, j \in DOMAIN heard : i # j /\ heard[i] # Blank => heard[i] # heard[j]
    BY DEF HeardInv, Flow, Distinct
  <2> QED BY <2>1, <2>2 DEF HeardOnce
<1> QED BY <1>1, InitHeard, NextHeard, PTL DEF Spec
-----------------------------------------------------------------------------
(***************************************************************************)
(* Once keep_listening is cleared, the listener is in recv at most once    *)
(* more; a future is spent only by a get that found the listener ended.    *)
(***************************************************************************)
LateInv ==
  /\ main \in State /\ keep \in BOOLEAN /\ listener \in {"loop", "recv", "exit"}
  /\ late = 0 \/ (late = 1 /\ ~keep /\ listener # "recv")
  /\ listener = "exit" => ~keep
  /\ main.spent => listener = "exit"

LEMMA NextLate == ASSUME HeardInv, LateInv, [Next]_zmqVars PROVE LateInv'
<1>0. HeardInv' /\ main' \in State
  <2>1. HeardInv' BY NextHeard
  <2> QED BY <2>1 DEF HeardInv, ZmqTyped
<1>1. CASE UNCHANGED zmqVars BY <1>1 DEF zmqVars, LateInv
<1>2. ASSUME UNCHANGED <<listener, late, keep>>, main'.spent = main.spent PROVE LateInv'
  BY <1>0, <1>2 DEF LateInv
<1>3. CASE Publish \/ Notify
  <2>1. main'.spent = main.spent BY <1>3 DEF Publish, Notify, Notifying, LateInv, State
  <2> QED BY <1>2, <1>3, <2>1 DEF Publish, Notify, thread
<1>4. CASE Send
  <2>1. main'.spent = main.spent BY <1>4 DEF Send, SendAs, LateInv, State
  <2> QED BY <1>2, <1>4, <2>1 DEF Send, SendAs, thread
<1>5. CASE Subscribe \/ Link \/ Learn \/ Forward \/ Traffic
  BY <1>2, <1>5 DEF Subscribe, Link, Learn, Forward, Traffic, thread
<1>6. CASE Leave
  <2>1. main'.spent = main.spent BY <1>6 DEF Leave, LateInv, State
  <2> QED BY <1>0, <1>6, <2>1 DEF Leave, thread, LateInv
<1>7. CASE Get BY <1>0, <1>7 DEF Get, thread, LateInv
<1>8. CASE Loop BY <1>0, <1>8 DEF Loop, LateInv
<1>9. CASE Recv BY <1>0, <1>9 DEF Recv, LateInv
<1> QED
  BY <1>1, <1>3, <1>4, <1>5, <1>6, <1>7, <1>8, <1>9 DEF Next, Listening, Network

(***************************************************************************)
(* After keep_listening is cleared at most one more callback runs, and     *)
(* none once Disconnect or the destructor has returned.                    *)
(***************************************************************************)
THEOREM ListenerStops == Spec => []OneLateCallback
<1>1. Init => LateInv BY DEF Init, LateInv, Idle, State
<1>2. LateInv => OneLateCallback BY DEF LateInv, OneLateCallback
<1>3. HeardInv /\ LateInv /\ [Next]_zmqVars => (HeardInv /\ LateInv)'
  BY NextHeard, NextLate
<1> QED BY <1>1, <1>2, <1>3, InitHeard, PTL DEF Spec
=============================================================================
