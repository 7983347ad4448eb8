------------------------ MODULE ConfigurationService ------------------------
(***************************************************************************)
(* A ConfigurationManager: its data manager changes fields in Redis and    *)
(* stores the messages its communicator publishes, and a listener in       *)
(* another process queries the field a message names.                      *)
(*                                                                         *)
(* The data manager calls on the main thread.  Update stores its message   *)
(* before the HSET, Delete of a field after the HDEL and under the bare    *)
(* name of the field, which no key has; the auto-notification thread may   *)
(* publish at any moment.                                                  *)
(***************************************************************************)
EXTENDS Communicator

CONSTANTS
  Field,        \* the topics that are keys of fields; the others are bare names
  MaxChanges    \* bound: calls that change a field

ASSUME ServiceAssumption == Field \subseteq 1 .. MaxTopic /\ MaxChanges \in Nat

VARIABLES
  value,    \* Redis: each field, there or not, and a number that tells its changes apart
  change,   \* the field whose HSET is still to be sent, or none
  seen,     \* the listener: each field as it last queried it
  heard,    \* the listener: how many of the messages sent it has handled
  calls,    \* the data manager's calls so far
  missed    \* history: topics whose last change no message may have told in time

serviceVars == <<vars, value, change, seen, heard, calls, missed>>

NoChange == 0
Free == At("main", "idle") /\ change = NoChange /\ ~torn

\* The application calls the data manager.
Call == Free /\ calls < MaxChanges /\ calls' = calls + 1

\* A command is answered, or fails unexecuted, or is executed and its answer lost.
Reply == [done : BOOLEAN, ok : BOOLEAN]
Command(r) ==
  /\ r.ok => r.done
  /\ faults' = faults + (IF r.ok THEN 0 ELSE 1)
  /\ faults' <= MaxFaults

\* Field t changes, to one that is there or to none.
Written(t, there, r) ==
  value' = IF r.done THEN [value EXCEPT ![t] = [there |-> there, version |-> @.version + 1]]
           ELSE value
-----------------------------------------------------------------------------
\* Mutant of Update: only AddToHash stores a message.
UpdateOfNewOnly == \E t \in Field :
  /\ Call /\ count < MaxMessages
  /\ IF value[t].there THEN UNCHANGED th ELSE InsertAs("insert", t)
  /\ change' = t
  /\ Stays /\ UNCHANGED <<updates, sent, count, faults, clashed, value, seen, heard, missed>>

\* UpdateHashValue and AddToHash up to the HSET, whose message is the one for the field.
\* (What UpdateParent sends and stores for the keys above a new field is left out: no
\* listener here asks for those keys.)
Update == \E t \in Field :
  /\ Call /\ InsertAs("insert", t)
  /\ change' = t
  /\ Stays /\ UNCHANGED <<updates, sent, count, faults, clashed, value, seen, heard, missed>>

\* The HSET, once the message is stored.
Hset == \E r \in Reply :
  /\ At("main", "idle") /\ change # NoChange /\ ~torn
  /\ Command(r) /\ Written(change, TRUE, r)
  /\ change' = NoChange
  /\ UNCHANGED <<updates, sent, th, keep, count, torn, clashed, seen, heard, calls, missed>>

\* RemoveHash: HDEL, and if it was answered a message that does not name the field's key.
Delete == \E t \in Field, name \in (1 .. MaxTopic) \ Field, r \in Reply :
  /\ Call /\ count < MaxMessages /\ value[t].there
  /\ Command(r) /\ Written(t, FALSE, r)
  /\ IF r.ok THEN InsertAs("insert", name) ELSE UNCHANGED th
  /\ missed' = IF r.done THEN missed \cup {t} ELSE missed
  /\ Stays /\ UNCHANGED <<updates, sent, count, clashed, change, seen, heard>>

\* AddConfig of a field that is not there: no message.
AddConfig == \E t \in Field, r \in Reply :
  /\ Call /\ ~value[t].there
  /\ Command(r) /\ Written(t, TRUE, r)
  /\ missed' = IF r.done THEN missed \cup {t} ELSE missed
  /\ UNCHANGED <<updates, sent, th, keep, count, torn, clashed, change, seen, heard>>

(***************************************************************************)
(* The steps of the communicator.  A message that leaves while the HSET of *)
(* its field is still to come may be queried too early; one that leaves    *)
(* later tells of all changes so far; one that is cleared before it leaves *)
(* tells nobody.                                                           *)
(***************************************************************************)
Untold == {m.topic : m \in {x \in updates : \A i \in DOMAIN sent :
             sent[i].topic = x.topic => sent[i].id < x.id}}

Follow ==
  /\ missed' =
       IF sent' # sent
       THEN LET t == Last(sent').topic IN
            IF change = t THEN missed \cup {t} ELSE missed \ {t}
       ELSE IF updates # {} /\ updates' = {} THEN missed \cup Untold ELSE missed
  /\ UNCHANGED <<value, change, seen, heard, calls>>

\* The listener handles a message: it queries the field, if the message names one.
React ==
  /\ heard < Len(sent)
  /\ heard' = heard + 1
  /\ LET t == sent[heard'].topic IN
     seen' = IF t \in Field THEN [seen EXCEPT ![t] = value[t]] ELSE seen
  /\ UNCHANGED <<vars, value, change, calls, missed>>

ServiceInit ==
  /\ Init
  /\ value = [t \in Field |-> [there |-> FALSE, version |-> 0]] /\ seen = value
  /\ change = NoChange /\ heard = 0 /\ calls = 0 /\ missed = {}

MainThread == MainStep /\ Follow
AutoThread == AutoStep /\ Follow

ServiceNext ==
  \/ Update \/ Hset \/ Delete \/ AddConfig \/ React
  \/ (change = NoChange /\ (ForceNotify \/ Destroy) /\ Follow)
  \/ MainThread \/ AutoThread \/ (Overlap /\ Follow)

\* As in Communicator; calls of the data manager end, and messages sent arrive.
ServiceSpec ==
  /\ ServiceInit /\ [][ServiceNext]_serviceVars
  /\ WF_serviceVars(MainThread) /\ WF_serviceVars(AutoThread)
  /\ WF_serviceVars(Hset) /\ WF_serviceVars(React)
-----------------------------------------------------------------------------
\* No change of t, and no message about one, is still on its way.
Settled(t) ==
  /\ change # t
  /\ ~(At("main", "insert") /\ th["main"].topic = t)
  /\ \A m \in updates : m.topic # t
  /\ \A i \in heard + 1 .. Len(sent) : sent[i].topic # t

(***************************************************************************)
(* Once everything has settled the listener has the value that is stored,  *)
(* whatever threads, failures and clears came between: the exceptions are  *)
(* a message published before the HSET it was stored for, which has to be  *)
(* the last one of its field to leave, one cleared unsent, Delete of the   *)
(* field, which tells only its bare name, and AddConfig, which tells       *)
(* nobody.  Any later message of the field makes up for it.                *)
(***************************************************************************)
ListenerCatchesUp == ~torn =>
  \A t \in Field : Settled(t) /\ t \notin missed => seen[t] = value[t]

(***************************************************************************)
(* "After subscription to a channel any update made by other clients is    *)
(* notified" (README): without any further call the listener gets to know  *)
(* the change of a field, with the same exceptions, as long as the process *)
(* that made it lives.                                                     *)
(***************************************************************************)
ChangesAreSeen == \A t \in Field :
  seen[t] # value[t] ~> (seen[t] = value[t] \/ t \in missed \/ torn \/ ~keep)
=============================================================================
