---------------------------- MODULE Communicator ----------------------------
(***************************************************************************)
(* One process's RedisCommunicator: the messages stored in the multimap    *)
(* updates, the main thread that stores them and may force a Notify, and   *)
(* the AutoNotification thread that calls Notify after each sleep.  No     *)
(* lock guards updates: the threads interleave between any two accesses,   *)
(* and two that overlap, one of them a write, leave it undefined (torn).   *)
(***************************************************************************)
EXTENDS MessageStore

CONSTANTS
  MaxStored,     \* MaxStoredMessages
  MaxFaults      \* bound: PUBLISH commands that fail

ASSUME CommunicatorAssumption == MaxStored \in Nat /\ MaxFaults \in Nat

VARIABLES
  updates,    \* the stored messages
  sent,       \* the messages published, in order
  th,         \* per thread: where it stands
  keep,       \* keep_counting
  count,      \* messages stored so far
  faults,     \* failed PUBLISH commands so far
  torn,       \* two accesses to updates overlapped, or an iterator dangled
  clashed     \* history: two Notify calls overlapped

vars == <<updates, sent, th, keep, count, faults, torn, clashed>>

Thread == {"main", "auto"}
-----------------------------------------------------------------------------
At(t, pc)  == th[t].pc = pc
Go(t, s)   == th' = [th EXCEPT ![t] = s]
Notifying(t) == th[t].pc \in {"begin", "send", "next", "clear"}

\* What the next step of t does to updates.
Writes(t)  == th[t].pc \in {"insert", "clear"}
Touches(t) == Writes(t) \/ th[t].pc \in {"size", "begin", "next"}

Idle == [pc |-> "idle", call |-> "none", topic |-> 0, it |-> End, ok |-> TRUE, due |-> {}]

\* The caller goes on once Notify is done: main is idle, auto looks at keep_counting.
Done(t) == [th[t] EXCEPT !.pc = IF t = "main" THEN "idle" ELSE "loop", !.it = End, !.due = {}]

\* A thread enters Notify.
Enter(t, s) ==
  /\ Go(t, [s EXCEPT !.pc = "begin"])
  /\ clashed' = (clashed \/ \E u \in Thread \ {t} : Notifying(u))

\* Nothing is known of the process once updates is torn.
Stays == ~torn /\ UNCHANGED <<keep, torn>>
-----------------------------------------------------------------------------
(***************************************************************************)
(* The main thread.  A DataManager inserts into updates itself; Publish    *)
(* inserts, and notifies when too many messages are stored.                *)
(***************************************************************************)
\* The main thread comes to the insert of a message.
InsertAs(call, topic) ==
  /\ At("main", "idle") /\ count < MaxMessages
  /\ Go("main", [Idle EXCEPT !.pc = "insert", !.call = call, !.topic = topic])

Insert ==
  /\ \E call \in {"insert", "publish"}, topic \in 1 .. MaxTopic : InsertAs(call, topic)
  /\ Stays /\ UNCHANGED <<updates, sent, count, faults, clashed>>

Inserted == LET s == th["main"] IN
  /\ At("main", "insert")
  /\ count' = count + 1
  /\ updates' = updates \cup {[topic |-> s.topic, id |-> count']}
  /\ Go("main", [s EXCEPT !.pc = IF s.call = "publish" THEN "size" ELSE "idle"])
  /\ Stays /\ UNCHANGED <<sent, faults, clashed>>

\* Mutant of Size: the limit is noticed one message late.
SizeLate ==
  /\ At("main", "size")
  /\ IF Cardinality(updates) > MaxStored + 1
     THEN Enter("main", th["main"])
     ELSE Go("main", [th["main"] EXCEPT !.pc = "idle"]) /\ UNCHANGED clashed
  /\ Stays /\ UNCHANGED <<updates, sent, count, faults>>

Size ==
  /\ At("main", "size")
  /\ IF Cardinality(updates) > MaxStored
     THEN Enter("main", th["main"])
     ELSE Go("main", [th["main"] EXCEPT !.pc = "idle"]) /\ UNCHANGED clashed
  /\ Stays /\ UNCHANGED <<updates, sent, count, faults>>

ForceNotify ==
  /\ At("main", "idle")
  /\ Enter("main", [Idle EXCEPT !.call = "notify"])
  /\ Stays /\ UNCHANGED <<updates, sent, count, faults>>

\* The destructor: keep_counting is cleared and the thread joined.
Destroy ==
  /\ At("main", "idle")
  /\ ~torn /\ keep' = FALSE
  /\ Go("main", [Idle EXCEPT !.pc = "join"])
  /\ UNCHANGED <<updates, sent, count, faults, torn, clashed>>

Join ==
  /\ At("main", "join") /\ At("auto", "exit")
  /\ Go("main", [Idle EXCEPT !.pc = "gone"])
  /\ Stays /\ UNCHANGED <<updates, sent, count, faults, clashed>>
-----------------------------------------------------------------------------
(***************************************************************************)
(* AutoNotification.                                                       *)
(***************************************************************************)
\* Mutant of Loop: the thread never looks at keep_counting.
LoopForever ==
  /\ At("auto", "loop")
  /\ Go("auto", [Idle EXCEPT !.pc = "sleep"])
  /\ Stays /\ UNCHANGED <<updates, sent, count, faults, clashed>>

Loop ==
  /\ At("auto", "loop")
  /\ Go("auto", [Idle EXCEPT !.pc = IF keep THEN "sleep" ELSE "exit"])
  /\ Stays /\ UNCHANGED <<updates, sent, count, faults, clashed>>

\* Mutant of Wake: the thread sleeps again without a Notify.
WakeSilent ==
  /\ At("auto", "sleep")
  /\ Go("auto", [Idle EXCEPT !.pc = "loop"])
  /\ Stays /\ UNCHANGED <<updates, sent, count, faults, clashed>>

Wake ==
  /\ At("auto", "sleep")
  /\ Enter("auto", Idle)
  /\ Stays /\ UNCHANGED <<updates, sent, count, faults>>
-----------------------------------------------------------------------------
(***************************************************************************)
(* Notify, called by thread t: for each message a PUBLISH, then clear.     *)
(* due is history: the messages stored when the loop began.                *)
(***************************************************************************)
\* Mutant of Begin: the loop sends before it looks whether there is a message.
BeginUnchecked(t) ==
  /\ At(t, "begin")
  /\ Go(t, [th[t] EXCEPT !.it = FirstOf(updates), !.ok = TRUE, !.due = updates, !.pc = "send"])
  /\ Stays /\ UNCHANGED <<updates, sent, count, faults, clashed>>

Begin(t) ==
  /\ At(t, "begin")
  /\ Go(t, [th[t] EXCEPT !.it = FirstOf(updates), !.ok = TRUE, !.due = updates,
                         !.pc = IF updates = {} THEN "clear" ELSE "send"])
  /\ Stays /\ UNCHANGED <<updates, sent, count, faults, clashed>>

\* Mutant of Send: only the last PUBLISH decides the result.
SendLastOk(t) ==
  /\ At(t, "send") /\ th[t].it \in updates
  /\ \E ok \in IF faults < MaxFaults THEN BOOLEAN ELSE {TRUE} :
       /\ sent' = IF ok THEN Append(sent, th[t].it) ELSE sent
       /\ faults' = faults + (IF ok THEN 0 ELSE 1)
       /\ Go(t, [th[t] EXCEPT !.ok = ok, !.pc = IF keep THEN "next" ELSE "clear"])
  /\ Stays /\ UNCHANGED <<updates, count, clashed>>

\* A failed PUBLISH is skipped; after each one the loop stops if the object goes away.
Send(t) ==
  /\ At(t, "send") /\ th[t].it \in updates
  /\ \E ok \in IF faults < MaxFaults THEN BOOLEAN ELSE {TRUE} :
       /\ sent' = IF ok THEN Append(sent, th[t].it) ELSE sent
       /\ faults' = faults + (IF ok THEN 0 ELSE 1)
       /\ Go(t, [th[t] EXCEPT !.ok = @ /\ ok, !.pc = IF keep THEN "next" ELSE "clear"])
  /\ Stays /\ UNCHANGED <<updates, count, clashed>>

\* Mutant of Advance: the loop goes on at the front of what is new.
AdvanceRestarts(t) == LET it == FirstOf(updates \ {th[t].it}) IN
  /\ At(t, "next") /\ th[t].it \in updates
  /\ Go(t, [th[t] EXCEPT !.it = it, !.pc = IF it = End THEN "clear" ELSE "send"])
  /\ Stays /\ UNCHANGED <<updates, sent, count, faults, clashed>>

Advance(t) == LET it == FirstOf(After(updates, th[t].it)) IN
  /\ At(t, "next") /\ th[t].it \in updates
  /\ Go(t, [th[t] EXCEPT !.it = it, !.pc = IF it = End THEN "clear" ELSE "send"])
  /\ Stays /\ UNCHANGED <<updates, sent, count, faults, clashed>>

Empty(t) ==
  /\ At(t, "clear")
  /\ updates' = {}
  /\ Go(t, Done(t))
  /\ Stays /\ UNCHANGED <<sent, count, faults, clashed>>
-----------------------------------------------------------------------------
(***************************************************************************)
(* What the missing lock allows: an access to updates while the other      *)
(* thread writes it, and a loop whose message the other thread's clear     *)
(* has freed.                                                              *)
(***************************************************************************)
Overlap ==
  /\ \A t \in Thread : Touches(t)
  /\ \E t \in Thread : Writes(t)
  /\ ~torn /\ torn' = TRUE
  /\ UNCHANGED <<updates, sent, th, keep, count, faults, clashed>>

Dangle(t) ==
  /\ th[t].pc \in {"send", "next"} /\ th[t].it \notin updates
  /\ ~torn /\ torn' = TRUE
  /\ UNCHANGED <<updates, sent, th, keep, count, faults, clashed>>

Init ==
  /\ updates = {} /\ sent = <<>>
  /\ th = [t \in Thread |-> [Idle EXCEPT !.pc = IF t = "main" THEN "idle" ELSE "loop"]]
  /\ keep = TRUE /\ count = 0 /\ faults = 0 /\ torn = FALSE /\ clashed = FALSE

NotifyStep(t) == Begin(t) \/ Send(t) \/ Advance(t) \/ Empty(t) \/ Dangle(t)
MainStep == Inserted \/ Size \/ Join \/ NotifyStep("main")
AutoStep == Loop \/ Wake \/ NotifyStep("auto")

Next == Insert \/ ForceNotify \/ Destroy \/ MainStep \/ AutoStep \/ Overlap

Spec == Init /\ [][Next]_vars

\* Both threads run: sleeps end and Redis answers.  The application need not call anything.
FairSpec == Spec /\ WF_vars(MainStep) /\ WF_vars(AutoStep)
-----------------------------------------------------------------------------
(***************************************************************************)
(* The type of every variable, and that a loop over the store which is not *)
(* done stands at a message: the end of the store is never read.           *)
(***************************************************************************)
TypeOK ==
  /\ updates \subseteq Message /\ sent \in Seq(Message)
  /\ th \in [Thread -> [pc : {"idle", "insert", "size", "join", "gone", "loop", "sleep", "exit",
                             "begin", "send", "next", "clear"},
                       call : {"none", "insert", "publish", "notify"}, topic : 0 .. MaxTopic,
                       it : Message \cup {End}, ok : BOOLEAN, due : SUBSET Message]]
  /\ keep \in BOOLEAN /\ torn \in BOOLEAN /\ clashed \in BOOLEAN
  /\ count \in 0 .. MaxMessages /\ faults \in 0 .. MaxFaults
  /\ \A t \in Thread : th[t].pc \in {"send", "next"} => th[t].it # End

(***************************************************************************)
(* As long as no two Notify calls overlap, subscribers of a topic get its  *)
(* messages in the order they were stored and none of them twice, also     *)
(* when messages arrive in front of and behind the running loop.           *)
(***************************************************************************)
OnceAndInOrder == ~clashed => \A i, j \in DOMAIN sent :
  i < j /\ sent[i].topic = sent[j].topic => sent[i].id < sent[j].id

(***************************************************************************)
(* When Notify is about to clear the store and return true, everything     *)
(* stored when it began has been published, unless the object goes away.   *)
(***************************************************************************)
TrueMeansSent == \A t \in Thread :
  At(t, "clear") /\ th[t].ok /\ keep /\ ~clashed => th[t].due \subseteq ToSet(sent)

\* Publish leaves at most MaxStoredMessages behind, whoever else stores or clears.
PublishBounds ==
  At("main", "idle") /\ th["main"].call = "publish" => Cardinality(updates) <= MaxStored

\* The destructor returns: the thread it joins sees keep_counting and ends.
ShutdownEnds == At("main", "join") ~> (At("main", "gone") \/ torn)

(***************************************************************************)
(* "By default the messages are stored and sent after a scheduled time"    *)
(* (README): without any call the store is emptied while the process runs. *)
(***************************************************************************)
NothingStaysStored == \A m \in Message :
  m \in updates ~> (m \notin updates \/ At("main", "gone") \/ torn)

(***************************************************************************)
(* "Sends all the messages stored since last notify" (the comment on       *)
(* Communicator::Notify): a message is stored until it is published.       *)
(***************************************************************************)
SendsAllStored == ~torn => \A i \in 1 .. count :
  \E m \in updates \cup ToSet(sent) : m.id = i
=============================================================================
