-------------------------- MODULE ZmqCommunicator --------------------------
(***************************************************************************)
(* The communicator over 0MQ: its thread stores messages and sends them on *)
(* a PUB socket to the forwarder, which passes them to the SUB sockets of  *)
(* all processes; a Listener started by the constructor receives.  There   *)
(* is no auto-notification thread, so one thread alone uses updates.       *)
(*                                                                         *)
(* Outside the model: a subscription set while the Listener blocks on the  *)
(* same socket, which 0MQ leaves undefined, is taken to work, and texts    *)
(* are short, so that writing one into an emptied message stays inside it. *)
(***************************************************************************)
EXTENDS MessageStore

CONSTANTS
  MaxStored,   \* MaxStoredMessages
  MaxFaults    \* bound: failed sends and receives

ASSUME ZmqAssumption == MaxStored \in Nat /\ MaxFaults \in Nat

VARIABLES
  updates,    \* the stored messages
  main,       \* the thread that calls the communicator
  listener,   \* the thread of result_subscriber: where it stands
  keep,       \* keep_listening
  filters,    \* the subscriptions of the SUB socket, 0 for the empty one
  known,      \* the subscriptions the forwarder has been told of
  linked,     \* the PUB socket has its connection
  wire,       \* sent, not yet at the forwarder
  inbox,      \* passed on, not yet received
  heard,      \* received, in order
  owed,       \* history: messages sent that a subscription of then covers
  late,       \* history: messages received after keep_listening was cleared
  count,      \* messages stored so far, here and by other processes
  faults      \* faults so far

zmqVars == <<updates, main, listener, keep, filters, known, linked, wire, inbox,
             heard, owed, late, count, faults>>
net    == <<known, linked>>
thread == <<listener, inbox, heard, late>>

\* A message that was sent again: 0MQ has emptied it.
Blank == [topic |-> 0, id |-> 0]

\* A filter is a prefix of what it lets through: a key, or the empty one anything.
Covers(F, m) == m.topic \in F \/ 0 \in F

Idle == [pc |-> "idle", it |-> End, fresh |-> TRUE, call |-> "none", spent |-> FALSE]
At(pc) == main.pc = pc
-----------------------------------------------------------------------------
(***************************************************************************)
(* Publish, and the inserts of a data manager.  Notify prepares one        *)
(* message and sends it for each stored one.                               *)
(***************************************************************************)
Notifying(S) ==
  IF S = {} THEN UNCHANGED main
  ELSE main' = [main EXCEPT !.pc = "send", !.it = First(S), !.fresh = TRUE]

Publish == \E topic \in 1 .. MaxTopic, inserted \in BOOLEAN :
  /\ At("idle") /\ count < MaxMessages
  /\ count' = count + 1
  /\ updates' = updates \cup {[topic |-> topic, id |-> count']}
  /\ IF ~inserted /\ Cardinality(updates') > MaxStored THEN Notifying(updates') ELSE UNCHANGED main
  /\ UNCHANGED <<keep, filters, net, thread, wire, owed, faults>>

Notify ==
  /\ At("idle") /\ Notifying(updates)
  /\ UNCHANGED <<updates, keep, filters, net, thread, wire, owed, count, faults>>

\* Without a connection a PUB socket drops what it is given.  At the end all is cleared.
SendAs(text) == \E ok \in BOOLEAN :
  /\ At("send") /\ (ok \/ faults < MaxFaults)
  /\ faults' = faults + (IF ok THEN 0 ELSE 1)
  /\ wire' = IF ok /\ linked THEN Append(wire, text) ELSE wire
  /\ owed' = IF ok /\ linked /\ main.fresh /\ Covers(known, main.it)
             THEN owed \cup {main.it} ELSE owed
  /\ LET next == FirstOf(After(updates, main.it)) IN
     IF next = End
     THEN main' = [main EXCEPT !.pc = "idle", !.it = End, !.fresh = TRUE] /\ updates' = {}
     ELSE main' = [main EXCEPT !.it = next, !.fresh = @ /\ ~ok] /\ UNCHANGED updates
  /\ UNCHANGED <<keep, filters, net, thread, count>>

\* Mutant of Send: what is sent again still holds the first text.
SendStale == SendAs(First(updates))

\* Mutant of Send: the message is sent before the text is copied into it.
SendEarly == SendAs(Blank)

Send == SendAs(IF main.fresh THEN main.it ELSE Blank)

\* subscriptions is never filled: each Subscribe sets the filter and is true,
\* each Unsubscribe does nothing and is false.
Subscribe == \E f \in 0 .. MaxTopic :
  /\ At("idle")
  /\ filters' = filters \cup {f}
  /\ UNCHANGED <<updates, main, keep, net, thread, wire, owed, count, faults>>

(***************************************************************************)
(* Disconnect and the destructor clear keep_listening and wait for the     *)
(* Listener; a future is spent with the first get, the second one throws,  *)
(* and in the destructor that ends the process.                            *)
(***************************************************************************)
Leave == \E call \in {"disconnect", "destroy"} :
  /\ At("idle")
  /\ keep' = FALSE
  /\ main' = IF ~main.spent THEN [main EXCEPT !.pc = "get", !.call = call]
             ELSE [main EXCEPT !.pc = IF call = "destroy" THEN "terminated" ELSE "idle"]
  /\ UNCHANGED <<updates, filters, net, thread, wire, owed, count, faults>>

Get ==
  /\ At("get") /\ listener = "exit"
  /\ main' = [main EXCEPT !.pc = IF main.call = "destroy" THEN "gone" ELSE "idle", !.spent = TRUE]
  /\ UNCHANGED <<updates, keep, filters, net, thread, wire, owed, count, faults>>
-----------------------------------------------------------------------------
(***************************************************************************)
(* The Listener.                                                           *)
(***************************************************************************)
\* Mutant of Loop: recv again, whatever keep_listening says.
LoopForever ==
  /\ listener = "loop"
  /\ listener' = "recv"
  /\ UNCHANGED <<updates, main, keep, filters, net, inbox, heard, late, wire, owed, count, faults>>

Loop ==
  /\ listener = "loop"
  /\ listener' = IF keep THEN "recv" ELSE "exit"
  /\ UNCHANGED <<updates, main, keep, filters, net, inbox, heard, late, wire, owed, count, faults>>

\* recv blocks until there is a message; one that throws is reported and the loop goes on.
Recv ==
  /\ listener = "recv"
  /\ listener' = "loop"
  /\ \/ /\ inbox # <<>>
        /\ inbox' = Tail(inbox) /\ heard' = Append(heard, Head(inbox))
        /\ late' = late + (IF keep THEN 0 ELSE 1)
        /\ UNCHANGED faults
     \/ /\ faults < MaxFaults /\ faults' = faults + 1
        /\ UNCHANGED <<inbox, heard, late>>
  /\ UNCHANGED <<updates, main, keep, filters, net, wire, owed, count>>
-----------------------------------------------------------------------------
(***************************************************************************)
(* The network and the forwarder.                                          *)
(***************************************************************************)
Link  == /\ ~linked /\ linked' = TRUE
         /\ UNCHANGED <<updates, main, keep, filters, known, thread, wire, owed, count, faults>>
Learn == /\ known # filters /\ known' = filters
         /\ UNCHANGED <<updates, main, keep, filters, linked, thread, wire, owed, count, faults>>

\* Another process notifies.
Traffic == \E topic \in 1 .. MaxTopic :
  /\ count < MaxMessages
  /\ count' = count + 1
  /\ wire' = Append(wire, [topic |-> topic, id |-> count'])
  /\ UNCHANGED <<updates, main, keep, filters, net, thread, owed, faults>>

\* The forwarder passes the next message to the sockets that subscribed to it.
Forward ==
  /\ wire # <<>>
  /\ wire' = Tail(wire)
  /\ inbox' = IF Covers(known, Head(wire)) THEN Append(inbox, Head(wire)) ELSE inbox
  /\ UNCHANGED <<updates, main, keep, filters, net, listener, heard, late, owed, count, faults>>

Init ==
  /\ updates = {} /\ main = Idle /\ listener = "loop" /\ keep = TRUE
  /\ filters = {} /\ known = {} /\ linked = FALSE
  /\ wire = <<>> /\ inbox = <<>> /\ heard = <<>>
  /\ owed = {} /\ late = 0 /\ count = 0 /\ faults = 0

Listening == Loop \/ Recv
Network   == Link \/ Learn \/ Forward
Next == Publish \/ Notify \/ Send \/ Subscribe \/ Leave \/ Get \/ Listening \/ Network \/ Traffic
Spec == Init /\ [][Next]_zmqVars

\* The threads run and the network transports; nobody has to call or to send.
FairSpec == Spec /\ WF_zmqVars(Send \/ Get) /\ WF_zmqVars(Listening) /\ WF_zmqVars(Network)
-----------------------------------------------------------------------------
(***************************************************************************)
(* A message is heard only under a filter that was set, and at most once,  *)
(* although Notify sends the one message it prepared again and again.      *)
(***************************************************************************)
HeardOnce ==
  /\ \A i \in DOMAIN heard : Covers(filters, heard[i])
  /\ \A i, j \in DOMAIN heard : i # j /\ heard[i] # Blank => heard[i] # heard[j]

(***************************************************************************)
(* Once Disconnect or the destructor has cleared keep_listening, at most   *)
(* one more callback runs, and none after they have returned.              *)
(***************************************************************************)
OneLateCallback == late <= 1 /\ (main.spent => listener = "exit")

(***************************************************************************)
(* The first message of a Notify is heard, if the connection stood and the *)
(* forwarder knew a filter for it, as long as the process listens.  (The   *)
(* others of the same Notify leave empty.)                                 *)
(***************************************************************************)
FirstIsHeard == \A m \in Message : m \in owed ~> (m \in ToSet(heard) \/ ~keep)

(***************************************************************************)
(* Disconnect and the destructor wait for a Listener that may block in     *)
(* recv for ever; but one message that reaches the socket releases them,   *)
(* wherever the Listener stood when keep_listening was cleared.            *)
(***************************************************************************)
MessageReleases == (At("get") /\ inbox # <<>>) ~> ~At("get")
=============================================================================
