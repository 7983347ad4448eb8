----------------------------- MODULE Subscriber -----------------------------
(***************************************************************************)
(* The subscriber side of RedisCommunicator: the thread that calls         *)
(* Subscribe and Unsubscribe, the event thread that handles what the       *)
(* server sends, and the PUB/SUB part of the server.  A call sends one     *)
(* command, sleeps 10 ms and looks whether the answer has come: the sleep  *)
(* may end before or after the answer.                                     *)
(***************************************************************************)
EXTENDS Naturals, Sequences, SequencesExt

CONSTANTS
  Keys,         \* what is subscribed to: sequences of characters
  Hears,        \* pairs <<key, topic>>: subscribers of key get messages of topic
  MaxCalls,     \* bound: calls of Subscribe and Unsubscribe
  MaxMessages,  \* bound: messages published by others
  MaxFaults     \* bound: commands the server refuses

ASSUME SubscriberAssumption ==
  /\ Keys \subseteq Seq(STRING) \ {<<>>}
  /\ \A h \in Hears : h \in Keys \X Keys
  /\ MaxCalls \in Nat /\ MaxMessages \in Nat /\ MaxFaults \in Nat

VARIABLES
  server,   \* channels the server holds for this connection
  known,    \* channels the client lists: subscribedTopics, psubscribedTopics
  wire,     \* commands sent, not yet executed
  feed,     \* answers and messages sent by the server, not yet handled
  job,      \* the call in progress
  got,      \* messages handed to the callbacks, in order
  told,     \* per key: what the last call about it has promised
  owed,     \* history: messages published to a key whose Subscribe was confirmed
  calls, published, faults,
  wild      \* a callback wrote to a local of a call that has returned

sent == <<wire, calls>>
counters == <<published, faults, owed>>
vars == <<server, known, sent, feed, job, got, told, counters, wild>>

(***************************************************************************)
(* A key with a "*" is a pattern.  Unsubscribe cuts the last character off *)
(* a pattern to look it up, and cuts at the star, less one, to send it;    *)
(* with the star in front the length wraps around and all of it is sent.   *)
(***************************************************************************)
Star(k)    == SelectInSeq(k, LAMBDA c : c = "*")
Pattern(k) == Star(k) # 0
Chan(k)    == [key |-> k, glob |-> Pattern(k)]
Short(k)   == [key |-> Front(k), glob |-> TRUE]
Target(k)  == [key |-> IF Star(k) = 1 THEN Front(k) ELSE SubSeq(k, 1, Star(k) - 2), glob |-> TRUE]

\* The commands on the wire and the answers in the feed that turn ch on or off.
OnWire(on, ch) == \E i \in DOMAIN wire : wire[i].on = on /\ wire[i].chan = ch
InFeed(what, ch) == \E i \in DOMAIN feed : feed[i].what = what /\ feed[i].chan = ch
Pending(on, ch) == OnWire(on, ch) \/ InFeed(IF on THEN "on" ELSE "off", ch)

\* A call sends one command.
Ask(on, ch, plain) ==
  /\ calls < MaxCalls /\ calls' = calls + 1
  /\ wire' = Append(wire, [on |-> on, chan |-> ch, plain |-> plain, call |-> calls'])

Idle == [pc |-> "idle", key |-> <<>>, call |-> 0, ok |-> TRUE, clean |-> TRUE]
Wait(pc, k, clean) ==
  job' = [pc |-> pc, key |-> k, call |-> calls', ok |-> TRUE, clean |-> clean]
Return(k, promise) == job' = Idle /\ told' = [told EXCEPT ![k] = promise]
-----------------------------------------------------------------------------
(***************************************************************************)
(* Subscribe.  The form without callbacks (plain) waits, and returns false *)
(* if its error callback has run; the other form looks a topic up after    *)
(* the wait and returns true for a pattern at once.                        *)
(***************************************************************************)
\* Mutant of Subscribe: patterns are subscribed to as if they were topics.
SubscribeLiteral(plain, k) ==
  /\ job.pc = "idle"
  /\ Ask(TRUE, [Chan(k) EXCEPT !.glob = FALSE], plain)
  /\ IF Pattern(k) /\ ~plain
     THEN job' = job /\ told' = [told EXCEPT ![k] = "asked"]
     ELSE /\ Wait(IF plain THEN "plain" ELSE "listen", k, ~Pending(FALSE, Chan(k)))
          /\ told' = [told EXCEPT ![k] = "none"]
  /\ UNCHANGED <<server, known, feed, got, counters, wild>>

\* Mutant of Subscribe: without the else, a topic is subscribed to as a pattern as well.
SubscribeTwice(plain, k) ==
  /\ job.pc = "idle" /\ calls < MaxCalls /\ calls' = calls + 1
  /\ wire' = wire \o [i \in 1 .. 2 |-> [on |-> TRUE, chan |-> [key |-> k, glob |-> i = 1],
                                       plain |-> plain, call |-> calls']]
  /\ Wait(IF plain THEN "plain" ELSE "listen", k, ~Pending(FALSE, Chan(k)))
  /\ told' = [told EXCEPT ![k] = "none"]
  /\ UNCHANGED <<server, known, feed, got, counters, wild>>

\* Mutant of Subscribe: the wait and the look at the list of topics stand behind the else.
SubscribeLooksAlways(plain, k) ==
  /\ job.pc = "idle"
  /\ Ask(TRUE, Chan(k), plain)
  /\ Wait(IF plain THEN "plain" ELSE "listen", k, ~Pending(FALSE, Chan(k)))
  /\ told' = [told EXCEPT ![k] = "none"]
  /\ UNCHANGED <<server, known, feed, got, counters, wild>>

Subscribe(plain, k) ==
  /\ job.pc = "idle"
  /\ Ask(TRUE, Chan(k), plain)
  /\ IF Pattern(k) /\ ~plain
     THEN job' = job /\ told' = [told EXCEPT ![k] = "asked"]
     ELSE /\ Wait(IF plain THEN "plain" ELSE "listen", k, ~Pending(FALSE, Chan(k)))
          /\ told' = [told EXCEPT ![k] = "none"]
  /\ UNCHANGED <<server, known, feed, got, counters, wild>>

PlainReturns ==
  /\ job.pc = "plain"
  /\ Return(job.key, IF job.ok THEN "asked" ELSE "none")
  /\ UNCHANGED <<server, known, sent, feed, got, counters, wild>>

\* Mutant of ListenReturns: the list of topics is not looked at.
ListenReturnsTrue ==
  /\ job.pc = "listen"
  /\ Return(job.key, IF job.clean THEN "on" ELSE "none")
  /\ UNCHANGED <<server, known, sent, feed, got, counters, wild>>

\* A true result promises messages, unless an Unsubscribe of before was still unanswered.
ListenReturns ==
  /\ job.pc = "listen"
  /\ Return(job.key, IF Chan(job.key) \in known /\ job.clean THEN "on" ELSE "none")
  /\ UNCHANGED <<server, known, sent, feed, got, counters, wild>>
-----------------------------------------------------------------------------
(***************************************************************************)
(* Unsubscribe from a topic and from a pattern.                            *)
(***************************************************************************)
Unsubscribe(k) ==
  /\ job.pc = "idle" /\ ~Pattern(k)
  /\ Ask(FALSE, Chan(k), FALSE)
  /\ Wait("leave", k, ~Pending(TRUE, Chan(k)))
  /\ told' = [told EXCEPT ![k] = "none"]
  /\ UNCHANGED <<server, known, feed, got, counters, wild>>

\* Mutant of LeaveReturns: the result does not depend on the list of topics.
LeaveReturnsTrue ==
  /\ job.pc = "leave"
  /\ Return(job.key, IF job.clean THEN "off" ELSE "none")
  /\ UNCHANGED <<server, known, sent, feed, got, counters, wild>>

\* A true result promises silence, unless a Subscribe of before was still unanswered.
LeaveReturns ==
  /\ job.pc = "leave"
  /\ Return(job.key, IF Chan(job.key) \notin known /\ job.clean THEN "off" ELSE "none")
  /\ UNCHANGED <<server, known, sent, feed, got, counters, wild>>

\* The pattern without its last character is not listed: the call returns false.
UnsubscribeUnlisted(k) ==
  /\ job.pc = "idle" /\ Pattern(k) /\ Short(k) \notin known
  /\ calls < MaxCalls /\ calls' = calls + 1
  /\ UNCHANGED <<server, known, wire, feed, job, got, told, counters, wild>>

\* It is listed: a command is sent that takes away what other keys were promised.
UnsubscribePattern(k) ==
  /\ job.pc = "idle" /\ Pattern(k) /\ Short(k) \in known
  /\ Ask(FALSE, Target(k), FALSE)
  /\ Wait("pattern", k, TRUE)
  /\ told' = [u \in Keys |-> IF Chan(u) = Target(k) THEN "none" ELSE told[u]]
  /\ UNCHANGED <<server, known, feed, got, counters, wild>>

PatternReturns ==
  /\ job.pc = "pattern"
  /\ job' = Idle
  /\ UNCHANGED <<server, known, sent, feed, got, told, counters, wild>>
-----------------------------------------------------------------------------
(***************************************************************************)
(* The server executes the commands of the connection in their order and   *)
(* sends its answers and the messages of others on the same connection.    *)
(***************************************************************************)
Answer(c, what) ==
  feed' = Append(feed, [what |-> what, chan |-> c.chan, plain |-> c.plain, call |-> c.call, id |-> 0])

Execute ==
  /\ wire # <<>> /\ wire' = Tail(wire)
  /\ LET c == Head(wire) IN
       \/ /\ server' = IF c.on THEN server \cup {c.chan} ELSE server \ {c.chan}
          /\ Answer(c, IF c.on THEN "on" ELSE "off")
          /\ UNCHANGED faults
       \/ /\ faults < MaxFaults /\ faults' = faults + 1
          /\ Answer(c, "error")
          /\ UNCHANGED server
  /\ UNCHANGED <<known, job, got, told, owed, calls, published, wild>>

Delivery(ch, n) == [what |-> "message", chan |-> ch, plain |-> FALSE, call |-> 0, id |-> n]

\* Another process publishes: one message for every channel that hears the topic.
Publish(t) ==
  LET hearing == SetToSeq({ch \in server : <<ch.key, t>> \in Hears}) IN
  /\ published < MaxMessages /\ published' = published + 1
  /\ feed' = feed \o [i \in DOMAIN hearing |-> Delivery(hearing[i], published')]
  /\ owed' = owed \cup {[key |-> k, id |-> published'] :
                          k \in {u \in Keys : told[u] = "on" /\ <<u, t>> \in Hears}}
  /\ UNCHANGED <<server, known, sent, job, got, told, faults, wild>>
-----------------------------------------------------------------------------
(***************************************************************************)
(* The event thread handles the feed.  The error callback of the plain     *)
(* form writes to is_ok, a local of the call: late, it writes anywhere.    *)
(***************************************************************************)
Listed ==
  /\ feed # <<>> /\ Head(feed).what \in {"on", "off"}
  /\ known' = IF Head(feed).what = "on" THEN known \cup {Head(feed).chan}
                                        ELSE known \ {Head(feed).chan}
  /\ feed' = Tail(feed)
  /\ UNCHANGED <<server, sent, job, got, told, counters, wild>>

Hear ==
  /\ feed # <<>> /\ Head(feed).what = "message"
  /\ got' = Append(got, [key |-> Head(feed).chan.key, id |-> Head(feed).id])
  /\ feed' = Tail(feed)
  /\ UNCHANGED <<server, known, sent, job, told, counters, wild>>

\* The promise of a Subscribe that did not wait for the answer is withdrawn.
GotError == LET e == Head(feed) IN
  /\ feed # <<>> /\ e.what = "error"
  /\ feed' = Tail(feed)
  /\ LET waiting == e.plain /\ job.call = e.call IN
       /\ job' = IF waiting THEN [job EXCEPT !.ok = FALSE] ELSE job
       /\ wild' = (e.plain /\ ~waiting)
  /\ told' = [k \in Keys |-> IF Chan(k) = e.chan /\ told[k] = "asked" THEN "none" ELSE told[k]]
  /\ UNCHANGED <<server, known, sent, got, counters>>
-----------------------------------------------------------------------------
Init ==
  /\ server = {} /\ known = {} /\ wire = <<>> /\ feed = <<>> /\ got = <<>>
  /\ job = Idle /\ told = [k \in Keys |-> "none"] /\ owed = {}
  /\ calls = 0 /\ published = 0 /\ faults = 0 /\ wild = FALSE

Returns == PlainReturns \/ ListenReturns \/ LeaveReturns \/ PatternReturns
EventThread == Listed \/ Hear \/ GotError

\* Nothing is known of a process whose stack was overwritten.
Next ==
  /\ ~wild
  /\ \/ \E k \in Keys : \/ \E plain \in BOOLEAN : Subscribe(plain, k)
                        \/ Unsubscribe(k) \/ UnsubscribeUnlisted(k) \/ UnsubscribePattern(k)
                        \/ ~Pattern(k) /\ Publish(k)
     \/ Returns \/ Execute \/ EventThread

Spec == Init /\ [][Next]_vars

\* Sleeps end, the server executes what it got, the event thread runs.
FairSpec == /\ Spec /\ WF_vars(~wild /\ Returns) /\ WF_vars(~wild /\ Execute)
            /\ WF_vars(~wild /\ EventThread)
-----------------------------------------------------------------------------
Channel == [key : Seq(STRING), glob : BOOLEAN]
Received == [key : Seq(STRING), id : 1 .. MaxMessages]

(***************************************************************************)
(* The type of every variable, and that the call in progress is the last   *)
(* one that has sent a command, and looks its key up where keys of its     *)
(* kind are listed: a topic among the topics, a pattern among the patterns.*)
(***************************************************************************)
TypeOK ==
  /\ server \subseteq Channel /\ known \subseteq Channel
  /\ wire \in Seq([on : BOOLEAN, chan : Channel, plain : BOOLEAN, call : 1 .. MaxCalls])
  /\ feed \in Seq([what : {"on", "off", "error", "message"}, chan : Channel, plain : BOOLEAN,
                   call : 0 .. MaxCalls, id : 0 .. MaxMessages])
  /\ job \in [pc : {"idle", "plain", "listen", "leave", "pattern"}, key : Seq(STRING),
              call : 0 .. MaxCalls, ok : BOOLEAN, clean : BOOLEAN]
  /\ got \in Seq(Received) /\ owed \subseteq Received
  /\ told \in [Keys -> {"none", "asked", "on", "off"}]
  /\ calls \in 0 .. MaxCalls /\ published \in 0 .. MaxMessages
  /\ faults \in 0 .. MaxFaults /\ wild \in BOOLEAN
  /\ job.pc # "idle" => job.key \in Keys /\ job.call = calls
  /\ job.pc \in {"listen", "leave"} => ~Pattern(job.key)
  /\ job.pc = "pattern" => Pattern(job.key)

(***************************************************************************)
(* After a Subscribe to a topic that looked the topic up and returned      *)
(* true, the server holds it, whatever commands were pending or refused    *)
(* before.  After one that did not wait for the answer, the command is on  *)
(* its way, executed, or its refusal is about to be reported.              *)
(***************************************************************************)
SubscribedIsServed == \A k \in Keys :
  /\ told[k] = "on" => Chan(k) \in server
  /\ told[k] = "asked" => Chan(k) \in server \/ OnWire(TRUE, Chan(k)) \/ InFeed("error", Chan(k))

(***************************************************************************)
(* After an Unsubscribe from a topic that returned true no callback of the *)
(* topic runs again: the server is done with it, and no message of it is   *)
(* still to be handled.                                                    *)
(***************************************************************************)
LeftIsSilent == \A k \in Keys :
  told[k] = "off" => Chan(k) \notin server /\ ~InFeed("message", Chan(k))

\* A subscriber of a key gets no message twice, and messages in the order of publication.
HeardInOrder == \A i, j \in DOMAIN got :
  i < j /\ got[i].key = got[j].key => got[i].id < got[j].id

(***************************************************************************)
(* "After subscription to a channel any update made by other clients is    *)
(* notified" (README), where the subscription was confirmed: what is       *)
(* published then reaches the callback, also if Unsubscribe is called      *)
(* while it is on its way.                                                 *)
(***************************************************************************)
OwedIsHeard == \A k \in {u \in Keys : ~Pattern(u)}, n \in 1 .. MaxMessages : LET r == [key |-> k, id |-> n] IN
  r \in owed ~> (r \in ToSet(got) \/ wild)

(***************************************************************************)
(* "Unsubscribe: arguments can be a string: topic" (README): Unsubscribe   *)
(* of a listed key asks the server to unsubscribe.                         *)
(***************************************************************************)
UnsubscribeIsSent ==
  [][\A k \in Keys : Chan(k) \in known /\ (UnsubscribeUnlisted(k) \/ UnsubscribePattern(k))
       => wire' = Append(wire, [on |-> FALSE, chan |-> Chan(k), plain |-> FALSE, call |-> calls'])]_vars
=============================================================================
