-------------------------- MODULE Subscriber_proof --------------------------
(***************************************************************************)
(* The subscriber, for any set of keys, any relation of the topics and     *)
(* their hearers, and any number of calls, messages and refusals.          *)
(***************************************************************************)
EXTENDS Subscriber, FiniteSetTheorems, FunctionTheorems, SequenceTheorems, NaturalsInduction,
        WellFoundedInduction, TLAPS

Event   == [what : {"on", "off", "error", "message"}, chan : Channel, plain : BOOLEAN,
            call : 0 .. MaxCalls, id : 0 .. MaxMessages]
Command == [on : BOOLEAN, chan : Channel, plain : BOOLEAN, call : 1 .. MaxCalls]

\* The channels that Subscribe asks for: a key is subscribed to in one way only.
Channels == {Chan(k) : k \in Keys}

Typed ==
  /\ TypeOK /\ IsFiniteSet(server)
  /\ job.pc # "idle" => job.key \in Keys /\ job.call = calls
  /\ server \subseteq Channels
  /\ \A i \in DOMAIN wire : (wire[i].on => wire[i].chan \in Channels) /\ wire[i].call <= calls
  /\ \A i \in DOMAIN feed : /\ feed[i].what = "message" => feed[i].chan \in Channels
                                                          /\ feed[i].id \in 1 .. published
                            /\ feed[i].call <= calls
-----------------------------------------------------------------------------
(***************************************************************************)
(* Up(f, l, i, ch): a client that lists the channels l lists ch when it    *)
(* has handled what precedes position i of the feed f.  The client lags    *)
(* behind the server by the feed, and gets messages of what it lists.      *)
(***************************************************************************)
Says(e, what, ch) == e.what = what /\ e.chan = ch
Up(f, l, i, ch) ==
  /\ \A j \in 1 .. i - 1 : Says(f[j], "off", ch) => \E m \in j + 1 .. i - 1 : Says(f[m], "on", ch)
  /\ ch \in l \/ \E j \in 1 .. i - 1 : Says(f[j], "on", ch)

Lag ==
  /\ \A ch \in Channel : ch \in server <=> Up(feed, known, Len(feed) + 1, ch)
  /\ \A i \in DOMAIN feed : feed[i].what = "message" => Up(feed, known, i, feed[i].chan)

\* A call whose start found no opposite command pending stays without one.
Waiting ==
  /\ job.pc = "listen" /\ job.clean => ~Pending(FALSE, Chan(job.key))
  /\ job.pc = "leave" /\ job.clean => ~Pending(TRUE, Chan(job.key))

\* A channel was asked for, and nothing behind that command turns it off; the
\* answer may be an error, of call c if that matters.
AskedBy(ch, Calls) ==
  \/ \E i \in DOMAIN wire : /\ wire[i].on /\ wire[i].chan = ch /\ wire[i].call \in Calls
                            /\ \A j \in DOMAIN wire : j > i => wire[j].on \/ wire[j].chan # ch
  \/ /\ ~OnWire(FALSE, ch)
     /\ \/ ch \in server
        \/ \E i \in DOMAIN feed : Says(feed[i], "error", ch) /\ feed[i].call \in Calls

\* The call of the form without callbacks, while its error callback has not run.
Plain == job.pc = "plain" /\ job.ok => AskedBy(Chan(job.key), {job.call})
PlainCommands ==
  job.pc = "plain" =>
    /\ \A i \in DOMAIN wire : wire[i].call = job.call => wire[i].plain
    /\ \A i \in DOMAIN feed : feed[i].call = job.call /\ feed[i].what = "error" => feed[i].plain

Promised == \A k \in Keys :
  /\ told[k] = "on" => Chan(k) \in server /\ ~OnWire(FALSE, Chan(k))
  /\ told[k] = "asked" => AskedBy(Chan(k), 0 .. MaxCalls)
  /\ told[k] = "off" => Chan(k) \notin server /\ ~InFeed("message", Chan(k)) /\ ~OnWire(TRUE, Chan(k))

PromiseInv == Typed /\ Lag /\ Waiting /\ Plain /\ PlainCommands /\ Promised
-----------------------------------------------------------------------------
\* What is on its way to a key is newer than what the key got, in order.
OrderInv ==
  /\ Typed /\ HeardInOrder
  /\ \A i \in DOMAIN got : got[i].id <= published
  /\ \A i \in DOMAIN got, j \in DOMAIN feed :
       feed[j].what = "message" /\ got[i].key = feed[j].chan.key => got[i].id < feed[j].id
  /\ \A i, j \in DOMAIN feed :
       i < j /\ feed[i].what = "message" /\ feed[j].what = "message"
             /\ feed[i].chan.key = feed[j].chan.key => feed[i].id < feed[j].id
-----------------------------------------------------------------------------
(***************************************************************************)
(* Keys and sequences.                                                     *)
(***************************************************************************)
LEMMA LeastNumber ==
  ASSUME NEW T, T \subseteq Nat, T # {}
  PROVE  \E x \in T : \A y \in T : x <= y
<1>1. PICK x \in T : \A y \in T : ~ (<<y, x>> \in OpToRel(<, Nat))
  BY NatLessThanWellFounded, WFMin, Zenon
<1>2. ASSUME NEW y \in T PROVE x <= y
  <2>1. x \in Nat /\ y \in Nat OBVIOUS
  <2>2. <<y, x>> \in Nat \X Nat BY <2>1
  <2>3. ~(y < x) BY <1>1, <2>2 DEF OpToRel
  <2> QED BY <2>1, <2>3
<1> QED BY <1>2

LEMMA KeyTypes ==
  ASSUME NEW k \in Keys
  PROVE  /\ k \in Seq(STRING) /\ Star(k) \in 0 .. Len(k)
         /\ Chan(k) \in Channel /\ Chan(k) \in Channels /\ Chan(k).key = k
         /\ Short(k) \in Channel /\ Target(k) \in Channel
<1>1. k \in Seq(STRING) /\ k # <<>> BY SubscriberAssumption
<1>2. Len(k) \in Nat /\ Len(k) > 0 /\ \A i \in 1 .. Len(k) : k[i] \in STRING
  BY <1>1, EmptySeq, LenProperties, ElementOfSeq
<1>3. Star(k) \in 0 .. Len(k)
  <2> DEFINE I == {i \in 1 .. Len(k) : k[i] = "*"}
  <2>1. CASE I = {} BY <1>2, <2>1 DEF Star, SelectInSeq
  <2>2. CASE I # {}
    <3>1. I \subseteq Nat OBVIOUS
    <3>2. \E x \in I : \A y \in I : x <= y BY <2>2, <3>1, LeastNumber
    <3>3. Min(I) \in I BY <3>2 DEF Min
    <3>4. Star(k) = Min(I) BY <2>2 DEF Star, SelectInSeq
    <3> QED BY <3>3, <3>4, <1>2
  <2> QED BY <2>1, <2>2
<1>4. \A n \in Int : n <= Len(k) => SubSeq(k, 1, n) \in Seq(STRING)
  <2> SUFFICES ASSUME NEW n \in Int, n <= Len(k) PROVE SubSeq(k, 1, n) \in Seq(STRING) OBVIOUS
  <2>1. \A i \in 1 .. n : k[i] \in STRING BY <1>2
  <2> QED BY <2>1, SubSeqProperties
<1>5. Front(k) \in Seq(STRING)
  <2>1. Len(k) - 1 \in Int /\ Len(k) - 1 <= Len(k) BY <1>2
  <2> QED BY <2>1, <1>4 DEF Front
<1>6. SubSeq(k, 1, Star(k) - 2) \in Seq(STRING)
  <2>1. Star(k) - 2 \in Int /\ Star(k) - 2 <= Len(k) BY <1>2, <1>3
  <2> QED BY <2>1, <1>4
<1>7. Chan(k) \in Channel /\ Chan(k).key = k BY <1>1 DEF Chan, Channel, Pattern
<1>8. Short(k) \in Channel /\ Target(k) \in Channel BY <1>5, <1>6 DEF Short, Target, Channel
<1> QED BY <1>1, <1>3, <1>7, <1>8 DEF Channels

LEMMA ChanInjective ==
  ASSUME NEW k \in Keys, NEW u \in Keys, Chan(k) = Chan(u)
  PROVE  k = u
BY KeyTypes

\* A channel that is subscribed to is known by its key.
LEMMA OneChannelPerKey ==
  ASSUME NEW c \in Channels, NEW d \in Channels, c.key = d.key
  PROVE  c = d
BY KeyTypes DEF Channels

LEMMA SameLength ==
  ASSUME NEW m \in Nat, NEW n \in Nat, 1 .. m = 1 .. n
  PROVE  m = n
<1>1. m > 0 => m \in 1 .. m OBVIOUS
<1>2. n > 0 => n \in 1 .. n OBVIOUS
<1> QED BY <1>1, <1>2

LEMMA Pushed ==
  ASSUME NEW S, NEW s \in Seq(S), NEW e \in S
  PROVE  /\ Append(s, e) \in Seq(S) /\ Len(s) \in Nat /\ DOMAIN s = 1 .. Len(s)
         /\ Len(Append(s, e)) = Len(s) + 1
         /\ DOMAIN Append(s, e) = 1 .. Len(s) + 1 /\ Append(s, e)[Len(s) + 1] = e
         /\ \A i \in 1 .. Len(s) : Append(s, e)[i] = s[i]
         /\ \A i \in DOMAIN s : s[i] \in S
<1>1. /\ Append(s, e) \in Seq(S) /\ Len(Append(s, e)) = Len(s) + 1 /\ Len(s) \in Nat
      /\ Append(s, e)[Len(s) + 1] = e /\ \A i \in 1 .. Len(s) : Append(s, e)[i] = s[i]
  BY AppendProperties, LenProperties
<1>2. DOMAIN Append(s, e) = 1 .. Len(s) + 1 /\ DOMAIN s = 1 .. Len(s) BY <1>1, LenProperties
<1> QED BY <1>1, <1>2, ElementOfSeq

LEMMA Popped ==
  ASSUME NEW S, NEW s \in Seq(S), s # <<>>
  PROVE  /\ Tail(s) \in Seq(S) /\ Head(s) = s[1] /\ s[1] \in S
         /\ Len(s) \in Nat /\ Len(s) >= 1 /\ DOMAIN s = 1 .. Len(s)
         /\ Len(Tail(s)) = Len(s) - 1 /\ DOMAIN Tail(s) = 1 .. Len(s) - 1
         /\ \A i \in 1 .. Len(s) - 1 : Tail(s)[i] = s[i + 1]
         /\ \A i \in DOMAIN s : s[i] \in S
<1>1. /\ Tail(s) \in Seq(S) /\ Len(Tail(s)) = Len(s) - 1 /\ Len(s) \in Nat /\ Len(s) >= 1
      /\ \A i \in 1 .. Len(s) - 1 : Tail(s)[i] = s[i + 1]
  BY HeadTailProperties, EmptySeq, LenProperties
<1>2. DOMAIN Tail(s) = 1 .. Len(s) - 1 /\ DOMAIN s = 1 .. Len(s) BY <1>1, LenProperties
<1>3. Head(s) = s[1] OBVIOUS
<1>4. \A i \in DOMAIN s : s[i] \in S BY <1>2, ElementOfSeq
<1> QED BY <1>1, <1>2, <1>3, <1>4

\* The channels that hear a topic are numbered without repetition.
LEMMA Numbered ==
  ASSUME NEW T, IsFiniteSet(T)
  PROVE  /\ SetToSeq(T) \in Seq(T) /\ IsInjective(SetToSeq(T))
         /\ DOMAIN SetToSeq(T) = 1 .. Len(SetToSeq(T)) /\ Len(SetToSeq(T)) \in Nat
<1> DEFINE n == Cardinality(T)
<1>1. n \in Nat /\ ExistsBijection(1 .. n, T) BY FS_CardinalityType
<1>2. \E f \in [1 .. n -> T] : IsInjective(f)
  BY <1>1 DEF ExistsBijection, Bijection, Injection, IsInjective
<1>3. SetToSeq(T) \in [1 .. n -> T] /\ IsInjective(SetToSeq(T)) BY <1>2 DEF SetToSeq
<1>4. SetToSeq(T) \in Seq(T) BY <1>1, <1>3
<1> QED BY <1>3, <1>4, LenProperties
-----------------------------------------------------------------------------
(***************************************************************************)
(* Types.                                                                  *)
(***************************************************************************)
LEMMA TypedForms ==
  ASSUME Typed
  PROVE  /\ wire \in Seq(Command) /\ feed \in Seq(Event)
         /\ DOMAIN wire = 1 .. Len(wire) /\ DOMAIN feed = 1 .. Len(feed)
         /\ Len(wire) \in Nat /\ Len(feed) \in Nat
         /\ \A i \in DOMAIN wire : wire[i] \in Command
         /\ \A i \in DOMAIN feed : feed[i] \in Event
         /\ MaxCalls \in Nat /\ MaxMessages \in Nat /\ MaxFaults \in Nat
         /\ calls \in 0 .. MaxCalls /\ published \in 0 .. MaxMessages
<1>1. wire \in Seq(Command) /\ feed \in Seq(Event)
  BY DEF Typed, TypeOK, Command, Event
<1>2. DOMAIN wire = 1 .. Len(wire) /\ DOMAIN feed = 1 .. Len(feed)
      /\ Len(wire) \in Nat /\ Len(feed) \in Nat
      /\ (\A i \in DOMAIN wire : wire[i] \in Command)
      /\ (\A i \in DOMAIN feed : feed[i] \in Event)
  BY <1>1, LenProperties, ElementOfSeq
<1> QED BY <1>1, <1>2, SubscriberAssumption DEF Typed, TypeOK

\* What Ask does, for a channel that Subscribe or Unsubscribe names.
LEMMA AskTyped ==
  ASSUME Typed, NEW on \in BOOLEAN, NEW ch \in Channel, NEW plain \in BOOLEAN,
         Ask(on, ch, plain), on => ch \in Channels
  PROVE  /\ wire' \in Seq(Command) /\ calls' = calls + 1 /\ calls' \in 1 .. MaxCalls
         /\ wire' = Append(wire, [on |-> on, chan |-> ch, plain |-> plain, call |-> calls'])
         /\ \A i \in DOMAIN wire' : /\ wire'[i].on => wire'[i].chan \in Channels
                                    /\ wire'[i].call <= calls'
<1> DEFINE c == [on |-> on, chan |-> ch, plain |-> plain, call |-> calls']
<1>1. calls' = calls + 1 /\ calls' \in 1 .. MaxCalls /\ wire' = Append(wire, c)
  BY TypedForms DEF Ask
<1>2. c \in Command BY <1>1 DEF Command
<1>3. /\ wire' \in Seq(Command) /\ DOMAIN wire' = 1 .. Len(wire) + 1 /\ Len(wire) \in Nat
      /\ wire'[Len(wire) + 1] = c /\ \A i \in 1 .. Len(wire) : wire'[i] = wire[i]
      /\ DOMAIN wire = 1 .. Len(wire)
  BY <1>1, <1>2, Pushed, TypedForms
<1>4. c.on = on /\ c.chan = ch /\ c.call = calls' OBVIOUS
<1>5. ASSUME NEW i \in DOMAIN wire'
      PROVE  (wire'[i].on => wire'[i].chan \in Channels) /\ wire'[i].call <= calls'
  <2> HIDE DEF c
  <2>1. CASE i = Len(wire) + 1 BY <2>1, <1>3, <1>4, <1>1
  <2>2. CASE i # Len(wire) + 1
    <3>1. i \in DOMAIN wire /\ wire'[i] = wire[i] BY <2>2, <1>3
    <3>2. wire[i].call \in 1 .. MaxCalls BY <3>1, TypedForms DEF Command
    <3>3. wire[i].call <= calls /\ (wire[i].on => wire[i].chan \in Channels) BY <3>1 DEF Typed
    <3> QED BY <3>1, <3>2, <3>3, <1>1, TypedForms
  <2> QED BY <2>1, <2>2
<1> QED BY <1>1, <1>3, <1>5

\* A step that leaves the server and the feed alone and starts a call or not.
LEMMA ThreadTyped ==
  ASSUME Typed, wire' \in Seq(Command), calls' \in calls .. MaxCalls,
         \A i \in DOMAIN wire' : /\ wire'[i].on => wire'[i].chan \in Channels
                                 /\ wire'[i].call <= calls',
         job' \in [pc : {"idle", "plain", "listen", "leave", "pattern"}, key : Seq(STRING),
                   call : 0 .. MaxCalls, ok : BOOLEAN, clean : BOOLEAN],
         job'.pc # "idle" => job'.key \in Keys /\ job'.call = calls',
         job'.pc \in {"listen", "leave"} => ~Pattern(job'.key),
         job'.pc = "pattern" => Pattern(job'.key),
         told' \in [Keys -> {"none", "asked", "on", "off"}],
         UNCHANGED <<server, known, feed, got, counters, wild>>
  PROVE  Typed'
<1>1. /\ server' = server /\ known' = known /\ feed' = feed /\ got' = got /\ owed' = owed
      /\ published' = published /\ faults' = faults /\ wild' = wild
  BY DEF counters
<1>2. TypeOK /\ calls \in 0 .. MaxCalls /\ MaxCalls \in Nat BY TypedForms DEF Typed
<1>3. calls' \in 0 .. MaxCalls BY <1>2
<1>4. wire' \in Seq([on : BOOLEAN, chan : Channel, plain : BOOLEAN, call : 1 .. MaxCalls])
  BY DEF Command
<1>5. TypeOK'
  <2> HIDE DEF Typed
  <2> QED BY <1>1, <1>2, <1>3, <1>4 DEF TypeOK
<1>6. ASSUME NEW i \in DOMAIN feed
      PROVE  (feed[i].what = "message" => feed[i].chan \in Channels /\ feed[i].id \in 1 .. published)
             /\ feed[i].call <= calls'
  <2>1. feed[i].call \in 0 .. MaxCalls BY <1>6, TypedForms DEF Event
  <2>2. feed[i].call <= calls BY <1>6 DEF Typed
  <2>3. feed[i].call <= calls' BY <1>2, <2>1, <2>2
  <2>4. feed[i].what = "message" => feed[i].chan \in Channels /\ feed[i].id \in 1 .. published
    BY <1>6 DEF Typed
  <2> QED BY <2>3, <2>4
<1>7. IsFiniteSet(server) /\ server \subseteq Channels BY DEF Typed
<1> QED BY <1>1, <1>5, <1>6, <1>7 DEF Typed

LEMMA StartTyped ==
  ASSUME Typed, NEW k \in Keys, NEW pc \in {"plain", "listen", "leave", "pattern"},
         NEW clean \in BOOLEAN, Wait(pc, k, clean), calls' \in 1 .. MaxCalls,
         pc \in {"listen", "leave"} => ~Pattern(k), pc = "pattern" => Pattern(k)
  PROVE  /\ job' \in [pc : {"idle", "plain", "listen", "leave", "pattern"}, key : Seq(STRING),
                      call : 0 .. MaxCalls, ok : BOOLEAN, clean : BOOLEAN]
         /\ job'.pc # "idle" /\ job'.key \in Keys /\ job'.call = calls'
         /\ job'.pc \in {"listen", "leave"} => ~Pattern(job'.key)
         /\ job'.pc = "pattern" => Pattern(job'.key)
BY KeyTypes, TypedForms DEF Wait

LEMMA SubscribeTyped ==
  ASSUME Typed, NEW plain \in BOOLEAN, NEW k \in Keys, Subscribe(plain, k)
  PROVE  Typed'
<1>1. /\ wire' \in Seq(Command) /\ calls' = calls + 1 /\ calls' \in 1 .. MaxCalls
      /\ \A i \in DOMAIN wire' : /\ wire'[i].on => wire'[i].chan \in Channels
                                 /\ wire'[i].call <= calls'
  <2>1. Ask(TRUE, Chan(k), plain) /\ Chan(k) \in Channel /\ Chan(k) \in Channels
    BY KeyTypes DEF Subscribe
  <2> QED BY <2>1, AskTyped
<1>2. calls' \in calls .. MaxCalls BY <1>1, TypedForms
<1>3. UNCHANGED <<server, known, feed, got, counters, wild>> BY DEF Subscribe
<1>4. told' \in [Keys -> {"none", "asked", "on", "off"}] BY DEF Subscribe, Typed, TypeOK
<1>5. /\ job' \in [pc : {"idle", "plain", "listen", "leave", "pattern"}, key : Seq(STRING),
                   call : 0 .. MaxCalls, ok : BOOLEAN, clean : BOOLEAN]
      /\ job'.pc # "idle" => job'.key \in Keys /\ job'.call = calls'
      /\ job'.pc \in {"listen", "leave"} => ~Pattern(job'.key)
      /\ job'.pc = "pattern" => Pattern(job'.key)
  <2>1. CASE Pattern(k) /\ ~plain
    <3>1. job' = job /\ job.pc = "idle" BY <2>1 DEF Subscribe
    <3> QED BY <3>1 DEF Typed, TypeOK
  <2>2. CASE ~(Pattern(k) /\ ~plain)
    <3>1. Wait(IF plain THEN "plain" ELSE "listen", k, ~Pending(FALSE, Chan(k)))
      BY <2>2 DEF Subscribe
    <3>2. (IF plain THEN "plain" ELSE "listen") \in {"plain", "listen", "leave", "pattern"}
      OBVIOUS
    <3>3. (~Pending(FALSE, Chan(k))) \in BOOLEAN BY DEF Pending, OnWire, InFeed
    <3>4. plain \/ ~Pattern(k) BY <2>2
    <3> QED BY <3>1, <3>2, <3>3, <3>4, <1>1, StartTyped
  <2> QED BY <2>1, <2>2
<1> QED BY <1>1, <1>2, <1>3, <1>4, <1>5, ThreadTyped

LEMMA ReturnsTyped ==
  ASSUME Typed, Returns
  PROVE  Typed'
<1>1. wire' = wire /\ calls' = calls /\ job' = Idle
      /\ UNCHANGED <<server, known, feed, got, counters, wild>>
  BY DEF Returns, PlainReturns, ListenReturns, LeaveReturns, PatternReturns, Return, sent
<1>2. told' \in [Keys -> {"none", "asked", "on", "off"}]
  <2>1. PICK p \in {"none", "asked", "on", "off"} : told' = [told EXCEPT ![job.key] = p] \/ told' = told
    BY DEF Returns, PlainReturns, ListenReturns, LeaveReturns, PatternReturns, Return
  <2> QED BY <2>1 DEF Typed, TypeOK
<1>3. job'.pc = "idle" /\ job' \in [pc : {"idle", "plain", "listen", "leave", "pattern"},
           key : Seq(STRING), call : 0 .. MaxCalls, ok : BOOLEAN, clean : BOOLEAN]
  BY <1>1, TypedForms, EmptySeq DEF Idle
<1>4. \A i \in DOMAIN wire' : /\ wire'[i].on => wire'[i].chan \in Channels
                              /\ wire'[i].call <= calls'
  BY <1>1 DEF Typed
<1>5. calls' \in calls .. MaxCalls /\ wire' \in Seq(Command) BY <1>1, TypedForms
<1> QED BY <1>1, <1>2, <1>3, <1>4, <1>5, ThreadTyped

LEMMA UnsubscribeTyped ==
  ASSUME Typed, NEW k \in Keys,
         Unsubscribe(k) \/ UnsubscribePattern(k) \/ UnsubscribeUnlisted(k)
  PROVE  Typed'
<1>1. CASE Unsubscribe(k) \/ UnsubscribePattern(k)
  <2>1. PICK ch \in Channel : Ask(FALSE, ch, FALSE)
    BY <1>1, KeyTypes DEF Unsubscribe, UnsubscribePattern
  <2>2. /\ wire' \in Seq(Command) /\ calls' = calls + 1 /\ calls' \in 1 .. MaxCalls
        /\ \A i \in DOMAIN wire' : /\ wire'[i].on => wire'[i].chan \in Channels
                                   /\ wire'[i].call <= calls'
    BY <2>1, AskTyped
  <2>3. calls' \in calls .. MaxCalls BY <2>2, TypedForms
  <2>4. UNCHANGED <<server, known, feed, got, counters, wild>>
    BY <1>1 DEF Unsubscribe, UnsubscribePattern
  <2>5. told' \in [Keys -> {"none", "asked", "on", "off"}]
    BY <1>1 DEF Unsubscribe, UnsubscribePattern, Typed, TypeOK
  <2>6. \/ Wait("leave", k, ~Pending(TRUE, Chan(k))) /\ ~Pattern(k)
        \/ Wait("pattern", k, TRUE) /\ Pattern(k)
    BY <1>1 DEF Unsubscribe, UnsubscribePattern
  <2>7. (~Pending(TRUE, Chan(k))) \in BOOLEAN BY DEF Pending, OnWire, InFeed
  <2>8. /\ job' \in [pc : {"idle", "plain", "listen", "leave", "pattern"}, key : Seq(STRING),
                     call : 0 .. MaxCalls, ok : BOOLEAN, clean : BOOLEAN]
        /\ job'.pc # "idle" => job'.key \in Keys /\ job'.call = calls'
        /\ job'.pc \in {"listen", "leave"} => ~Pattern(job'.key)
        /\ job'.pc = "pattern" => Pattern(job'.key)
    BY <2>2, <2>6, <2>7, StartTyped
  <2> QED BY <2>2, <2>3, <2>4, <2>5, <2>8, ThreadTyped
<1>2. CASE UnsubscribeUnlisted(k)
  <2>1. /\ calls' \in calls .. MaxCalls /\ wire' = wire /\ job' = job /\ told' = told
        /\ job.pc = "idle"
        /\ UNCHANGED <<server, known, feed, got, counters, wild>>
    BY <1>2, TypedForms DEF UnsubscribeUnlisted
  <2>2. ASSUME NEW i \in DOMAIN wire
        PROVE  (wire[i].on => wire[i].chan \in Channels) /\ wire[i].call <= calls'
    BY <2>1, TypedForms DEF Typed, Command
  <2> QED BY <2>1, <2>2, TypedForms, ThreadTyped DEF Typed, TypeOK
<1> QED BY <1>1, <1>2

\* What Execute does to the two queues.
LEMMA Executed ==
  ASSUME Typed, Execute
  PROVE  LET n == Len(feed)
             c == wire[1]
             e == feed'[n + 1] IN
         /\ wire # <<>> /\ wire' = Tail(wire) /\ c \in Command /\ 1 \in DOMAIN wire
         /\ wire' \in Seq(Command) /\ DOMAIN wire' = 1 .. Len(wire) - 1
         /\ \A i \in DOMAIN wire' : i + 1 \in DOMAIN wire /\ wire'[i] = wire[i + 1]
         /\ feed' \in Seq(Event) /\ n \in Nat /\ Len(feed') = n + 1
         /\ DOMAIN feed = 1 .. n /\ DOMAIN feed' = 1 .. n + 1
         /\ \A i \in DOMAIN feed : feed'[i] = feed[i]
         /\ e.chan = c.chan /\ e.plain = c.plain /\ e.call = c.call /\ e \in Event
         /\ \/ c.on /\ e.what = "on" /\ server' = server \cup {c.chan} /\ faults' = faults
            \/ ~c.on /\ e.what = "off" /\ server' = server \ {c.chan} /\ faults' = faults
            \/ e.what = "error" /\ server' = server /\ faults < MaxFaults /\ faults' = faults + 1
         /\ UNCHANGED <<known, job, got, told, owed, calls, published, wild>>
<1> DEFINE n == Len(feed)
           c == wire[1]
           Ev(what) == [what |-> what, chan |-> c.chan, plain |-> c.plain, call |-> c.call, id |-> 0]
<1>1. wire # <<>> /\ wire' = Tail(wire) /\ Head(wire) = c /\ c \in Command /\ 1 \in DOMAIN wire
      /\ wire' \in Seq(Command) /\ DOMAIN wire' = 1 .. Len(wire) - 1
      /\ \A i \in DOMAIN wire' : i + 1 \in DOMAIN wire /\ wire'[i] = wire[i + 1]
  <2>1. wire # <<>> /\ wire' = Tail(wire) BY DEF Execute
  <2> QED BY <2>1, Popped, TypedForms
<1>2. PICK what \in {"on", "off", "error"} :
        /\ feed' = Append(feed, Ev(what))
        /\ \/ c.on /\ what = "on" /\ server' = server \cup {c.chan} /\ faults' = faults
           \/ ~c.on /\ what = "off" /\ server' = server \ {c.chan} /\ faults' = faults
           \/ what = "error" /\ server' = server /\ faults < MaxFaults /\ faults' = faults + 1
  <2>1. c.on \in BOOLEAN BY <1>1 DEF Command
  <2>2. Head(wire) = c BY <1>1
  <2>3. \/ /\ server' = (IF c.on THEN server \cup {c.chan} ELSE server \ {c.chan})
           /\ feed' = Append(feed, Ev(IF c.on THEN "on" ELSE "off")) /\ faults' = faults
        \/ /\ faults < MaxFaults /\ faults' = faults + 1 /\ server' = server
           /\ feed' = Append(feed, Ev("error"))
    BY <2>2 DEF Execute, Answer
  <2>4. CASE feed' = Append(feed, Ev("error")) /\ faults < MaxFaults /\ faults' = faults + 1
             /\ server' = server
    BY <2>4
  <2>5. CASE /\ server' = (IF c.on THEN server \cup {c.chan} ELSE server \ {c.chan})
             /\ feed' = Append(feed, Ev(IF c.on THEN "on" ELSE "off")) /\ faults' = faults
    <3>1. CASE c.on BY <2>5, <3>1
    <3>2. CASE ~c.on BY <2>5, <3>2
    <3> QED BY <3>1, <3>2
  <2> QED BY <2>3, <2>4, <2>5
<1>3. Ev(what) \in Event
  BY <1>1, SubscriberAssumption DEF Event, Command
<1>4. Ev(what).what = what /\ Ev(what).chan = c.chan /\ Ev(what).plain = c.plain
      /\ Ev(what).call = c.call
  OBVIOUS
<1>5. /\ feed' \in Seq(Event) /\ n \in Nat /\ Len(feed') = n + 1 /\ DOMAIN feed = 1 .. n
      /\ DOMAIN feed' = 1 .. n + 1 /\ feed'[n + 1] = Ev(what)
      /\ \A i \in DOMAIN feed : feed'[i] = feed[i]
  BY <1>2, <1>3, Pushed, TypedForms
<1>6. UNCHANGED <<known, job, got, told, owed, calls, published, wild>> BY DEF Execute
<1> HIDE DEF n, c, Ev
<1>7. feed'[n + 1].chan = c.chan /\ feed'[n + 1].plain = c.plain /\ feed'[n + 1].call = c.call
      /\ feed'[n + 1].what = what /\ feed'[n + 1] \in Event
  BY <1>3, <1>4, <1>5
<1> QED BY <1>1, <1>2, <1>5, <1>6, <1>7 DEF n, c

LEMMA ExecuteTyped ==
  ASSUME Typed, Execute
  PROVE  Typed'
<1> DEFINE n == Len(feed)
           e == feed'[n + 1]
<1>1. /\ wire # <<>> /\ wire[1] \in Command /\ wire' \in Seq(Command) /\ 1 \in DOMAIN wire
      /\ \A i \in DOMAIN wire' : i + 1 \in DOMAIN wire /\ wire'[i] = wire[i + 1]
      /\ feed' \in Seq(Event) /\ DOMAIN feed = 1 .. n /\ DOMAIN feed' = 1 .. n + 1 /\ n \in Nat
      /\ \A i \in DOMAIN feed : feed'[i] = feed[i]
      /\ e.chan = wire[1].chan /\ e.call = wire[1].call /\ e.what # "message"
      /\ \/ server' = server
         \/ wire[1].on /\ server' = server \cup {wire[1].chan}
         \/ server' = server \ {wire[1].chan}
      /\ faults' \in 0 .. MaxFaults
      /\ UNCHANGED <<known, job, got, told, owed, calls, published, wild>>
  <2>1. faults \in 0 .. MaxFaults /\ MaxFaults \in Nat BY TypedForms DEF Typed, TypeOK
  <2>2. faults' = faults \/ (faults < MaxFaults /\ faults' = faults + 1) BY Executed
  <2>3. faults' \in 0 .. MaxFaults BY <2>1, <2>2
  <2>4. e.what # "message"
        /\ \/ server' = server
           \/ wire[1].on /\ server' = server \cup {wire[1].chan}
           \/ server' = server \ {wire[1].chan}
    BY Executed
  <2> QED BY Executed, <2>3, <2>4
<1> HIDE DEF n, e
<1>2. server' \subseteq Channels /\ IsFiniteSet(server')
  <2>1. server \subseteq Channels /\ IsFiniteSet(server) /\ (wire[1].on => wire[1].chan \in Channels)
    BY <1>1 DEF Typed
  <2>2. CASE server' = server BY <2>1, <2>2
  <2>3. CASE wire[1].on /\ server' = server \cup {wire[1].chan} BY <2>1, <2>3, FS_AddElement
  <2>4. CASE server' = server \ {wire[1].chan} BY <2>1, <2>4, FS_RemoveElement
  <2> QED BY <1>1, <2>2, <2>3, <2>4
<1>3. server' \subseteq Channel BY <1>2, KeyTypes DEF Channels
<1>4. TypeOK' BY <1>1, <1>3, TypedForms DEF Typed, TypeOK, Command, Event
<1>5. ASSUME NEW i \in DOMAIN feed'
      PROVE  (feed'[i].what = "message" => feed'[i].chan \in Channels /\ feed'[i].id \in 1 .. published')
             /\ feed'[i].call <= calls'
  <2>1. CASE i \in DOMAIN feed BY <2>1, <1>1 DEF Typed
  <2>2. CASE i \notin DOMAIN feed
    <3>1. i = n + 1 BY <2>2, <1>1
    <3>2. wire[1].call <= calls BY <1>1 DEF Typed
    <3> QED BY <3>1, <3>2, <1>1 DEF e
  <2> QED BY <2>1, <2>2
<1>6. \A i \in DOMAIN wire' : (wire'[i].on => wire'[i].chan \in Channels) /\ wire'[i].call <= calls'
  BY <1>1 DEF Typed
<1> QED BY <1>1, <1>2, <1>4, <1>5, <1>6 DEF Typed

\* What Publish does to the feed: one message more for each of some channels.
LEMMA Published ==
  ASSUME Typed, NEW t \in Keys, Publish(t)
  PROVE  /\ published' = published + 1 /\ published' \in 1 .. MaxMessages
         /\ feed' \in Seq(Event) /\ DOMAIN feed = 1 .. Len(feed) /\ DOMAIN feed' = 1 .. Len(feed')
         /\ Len(feed) \in Nat /\ Len(feed') \in Nat /\ Len(feed) <= Len(feed')
         /\ \A i \in DOMAIN feed : feed'[i] = feed[i]
         /\ \A i \in Len(feed) + 1 .. Len(feed') :
              /\ feed'[i].what = "message" /\ feed'[i].chan \in server
              /\ feed'[i].id = published' /\ feed'[i].call = 0
              /\ \A j \in Len(feed) + 1 .. Len(feed') :
                   i # j => feed'[i].chan # feed'[j].chan
         /\ UNCHANGED <<server, known, wire, calls, job, got, told, faults, wild>>
         /\ owed' \subseteq owed \cup [key : Keys, id : {published'}]
<1> DEFINE T == {ch \in server : <<ch.key, t>> \in Hears}
           h == SetToSeq(T)
           D == [i \in DOMAIN h |-> Delivery(h[i], published')]
           n == Len(feed)
<1>1. /\ published < MaxMessages /\ published' = published + 1 /\ feed' = feed \o D
      /\ UNCHANGED <<server, known, wire, calls, job, got, told, faults, wild>>
  BY DEF Publish, sent
<1>2. published' \in 1 .. MaxMessages BY <1>1, TypedForms
<1>3. h \in Seq(T) /\ IsInjective(h) /\ DOMAIN h = 1 .. Len(h) /\ Len(h) \in Nat
  <2>1. T \subseteq server /\ IsFiniteSet(T) BY FS_Subset DEF Typed
  <2> HIDE DEF T
  <2> QED BY <2>1, Numbered
<1>4. \A i \in DOMAIN h : h[i] \in server /\ h[i] \in Channel
  <2>1. T \subseteq server /\ T \subseteq Channel BY DEF Typed, TypeOK
  <2> HIDE DEF h, T
  <2>2. \A i \in DOMAIN h : h[i] \in T BY <1>3, ElementOfSeq
  <2> QED BY <2>1, <2>2
<1> HIDE DEF h, T
<1>5. \A i \in DOMAIN h : D[i] \in Event
  BY <1>2, <1>4, TypedForms DEF Event, Delivery
<1>6. D \in Seq(Event) /\ Len(D) = Len(h)
  <2>1. D \in [1 .. Len(h) -> Event] BY <1>3, <1>5
  <2>2. D \in Seq(Event) BY <2>1, <1>3
  <2>3. DOMAIN D = 1 .. Len(D) /\ Len(D) \in Nat BY <2>2, LenProperties
  <2>4. DOMAIN D = 1 .. Len(h) BY <1>3
  <2> HIDE DEF D
  <2> QED BY <2>2, <2>3, <2>4, <1>3, SameLength
<1>7. /\ feed' \in Seq(Event) /\ Len(feed') = n + Len(h) /\ n \in Nat
      /\ DOMAIN feed = 1 .. n /\ DOMAIN feed' = 1 .. Len(feed')
      /\ \A i \in 1 .. n + Len(h) : feed'[i] = IF i <= n THEN feed[i] ELSE D[i - n]
  <2> HIDE DEF D
  <2>1. feed \o D \in Seq(Event) /\ Len(feed \o D) = n + Len(h)
        /\ \A i \in 1 .. n + Len(h) : (feed \o D)[i] = IF i <= n THEN feed[i] ELSE D[i - n]
    <3>1. feed \in Seq(Event) /\ D \in Seq(Event) /\ Len(D) = Len(h) BY <1>6, TypedForms
    <3> HIDE DEF n, h
    <3>2. /\ feed \o D \in Seq(Event)
          /\ Len(feed \o D) = Len(feed) + Len(D)
          /\ \A i \in 1 .. Len(feed) + Len(D) : (feed \o D)[i] =
                 IF i <= Len(feed) THEN feed[i] ELSE D[i - Len(feed)]
      BY <3>1, ConcatProperties
    <3> QED BY <3>1, <3>2 DEF n
  <2> QED BY <2>1, <1>1, TypedForms, LenProperties
<1>8. ASSUME NEW i \in n + 1 .. Len(feed')
      PROVE  /\ i - n \in DOMAIN h /\ feed'[i].what = "message" /\ feed'[i].chan = h[i - n]
             /\ feed'[i].id = published' /\ feed'[i].call = 0
  <2>1. i - n \in DOMAIN h /\ i \in 1 .. n + Len(h) /\ ~(i <= n) BY <1>3, <1>7
  <2>2. feed'[i] = D[i - n] BY <2>1, <1>7
  <2>3. D[i - n] = Delivery(h[i - n], published') BY <2>1
  <2> QED BY <2>1, <2>2, <2>3 DEF Delivery
<1>9. ASSUME NEW i \in n + 1 .. Len(feed')
      PROVE  /\ feed'[i].what = "message" /\ feed'[i].chan \in server
             /\ feed'[i].id = published' /\ feed'[i].call = 0
             /\ \A j \in n + 1 .. Len(feed') : i # j => feed'[i].chan # feed'[j].chan
  <2>1. ASSUME NEW j \in n + 1 .. Len(feed') PROVE feed'[j].chan = h[j - n] BY <1>8
  <2>2. ASSUME NEW j \in n + 1 .. Len(feed'), i # j PROVE feed'[i].chan # feed'[j].chan
    <3>1. i - n \in DOMAIN h /\ j - n \in DOMAIN h BY <1>8
    <3>2. i - n # j - n BY <2>2, <1>7
    <3>3. h[i - n] # h[j - n] BY <3>1, <3>2, <1>3 DEF IsInjective
    <3> QED BY <2>1, <3>3
  <2>3. feed'[i].what = "message" /\ feed'[i].id = published' /\ feed'[i].call = 0
        /\ feed'[i].chan \in server
    BY <1>4, <1>8
  <2> QED BY <2>2, <2>3
<1>10. owed' \subseteq owed \cup [key : Keys, id : {published'}]
  <2> DEFINE O == {[key |-> k, id |-> published'] :
                     k \in {u \in Keys : told[u] = "on" /\ <<u, t>> \in Hears}}
  <2>1. owed' = owed \cup O BY DEF Publish
  <2>2. ASSUME NEW o \in O PROVE o \in [key : Keys, id : {published'}]
    <3>1. PICK k \in Keys : o = [key |-> k, id |-> published'] BY Zenon
    <3> QED BY <3>1
  <2> QED BY <2>1, <2>2
<1> HIDE DEF n, D
<1>11. \A i \in DOMAIN feed : feed'[i] = feed[i]
  <2>1. \A i \in 1 .. n : i \in 1 .. n + Len(h) /\ i <= n BY <1>3, <1>7
  <2> QED BY <2>1, <1>7
<1>12. Len(feed') \in Nat /\ n <= Len(feed') BY <1>3, <1>7
<1> QED BY <1>1, <1>2, <1>7, <1>9, <1>10, <1>11, <1>12 DEF n

LEMMA PublishTyped ==
  ASSUME Typed, NEW t \in Keys, Publish(t)
  PROVE  Typed'
<1>1. /\ published' = published + 1 /\ published' \in 1 .. MaxMessages
      /\ feed' \in Seq(Event) /\ DOMAIN feed = 1 .. Len(feed) /\ DOMAIN feed' = 1 .. Len(feed')
      /\ Len(feed) \in Nat
      /\ \A i \in DOMAIN feed : feed'[i] = feed[i]
      /\ \A i \in Len(feed) + 1 .. Len(feed') :
           /\ feed'[i].what = "message" /\ feed'[i].chan \in server
           /\ feed'[i].id = published' /\ feed'[i].call = 0
      /\ UNCHANGED <<server, known, wire, calls, job, got, told, faults, wild>>
      /\ owed' \subseteq owed \cup [key : Keys, id : {published'}]
  BY Published
<1>2. owed' \subseteq Received
  <2>1. [key : Keys, id : {published'}] \subseteq Received BY <1>1, KeyTypes DEF Received
  <2> QED BY <2>1, <1>1 DEF Typed, TypeOK
<1>3. TypeOK'
  <2>1. TypeOK /\ published' \in 0 .. MaxMessages BY <1>1 DEF Typed
  <2>2. feed' \in Seq(Event) /\ UNCHANGED <<server, known, wire, calls, job, got, told, faults, wild>>
    BY <1>1
  <2> QED BY <2>1, <2>2, <1>2 DEF TypeOK, Event
<1>4. ASSUME NEW i \in DOMAIN feed'
      PROVE  (feed'[i].what = "message" => feed'[i].chan \in Channels /\ feed'[i].id \in 1 .. published')
             /\ feed'[i].call <= calls'
  <2>1. CASE i \in DOMAIN feed
    <3>1. feed[i].what = "message" => feed[i].chan \in Channels /\ feed[i].id \in 1 .. published
      BY <2>1 DEF Typed
    <3>2. feed[i].call <= calls BY <2>1 DEF Typed
    <3>3. published \in Nat BY TypedForms
    <3> QED BY <2>1, <1>1, <3>1, <3>2, <3>3
  <2>2. CASE i \notin DOMAIN feed
    <3>1. i \in Len(feed) + 1 .. Len(feed') BY <2>2, <1>1
    <3> QED BY <3>1, <1>1, TypedForms DEF Typed
  <2> QED BY <2>1, <2>2
<1> QED BY <1>1, <1>3, <1>4 DEF Typed

\* What the event thread does to the feed.
LEMMA Handled ==
  ASSUME Typed, EventThread
  PROVE  /\ feed # <<>> /\ feed' = Tail(feed) /\ Head(feed) = feed[1] /\ feed[1] \in Event
         /\ feed' \in Seq(Event) /\ Len(feed') = Len(feed) - 1 /\ Len(feed) \in Nat /\ Len(feed) >= 1
         /\ DOMAIN feed = 1 .. Len(feed) /\ DOMAIN feed' = 1 .. Len(feed) - 1 /\ 1 \in DOMAIN feed
         /\ \A i \in DOMAIN feed' : i + 1 \in DOMAIN feed /\ feed'[i] = feed[i + 1]
         /\ UNCHANGED <<server, wire, calls, counters>>
<1>1. feed # <<>> /\ feed' = Tail(feed) /\ UNCHANGED <<server, wire, calls, counters>>
  BY DEF EventThread, Listed, Hear, GotError, sent, counters
<1>2. /\ Tail(feed) \in Seq(Event) /\ Head(feed) = feed[1] /\ feed[1] \in Event
      /\ Len(feed) \in Nat /\ Len(feed) >= 1 /\ DOMAIN feed = 1 .. Len(feed)
      /\ Len(Tail(feed)) = Len(feed) - 1 /\ DOMAIN Tail(feed) = 1 .. Len(feed) - 1
      /\ \A i \in 1 .. Len(feed) - 1 : Tail(feed)[i] = feed[i + 1]
  BY <1>1, Popped, TypedForms
<1> QED BY <1>1, <1>2

LEMMA EventTyped ==
  ASSUME Typed, EventThread
  PROVE  Typed'
<1>1. /\ feed' \in Seq(Event) /\ feed[1] \in Event /\ Head(feed) = feed[1] /\ 1 \in DOMAIN feed
      /\ \A i \in DOMAIN feed' : i + 1 \in DOMAIN feed /\ feed'[i] = feed[i + 1]
      /\ UNCHANGED <<server, wire, calls, published, faults, owed>>
  BY Handled DEF counters
<1>2. known' \subseteq Channel
  <2>1. CASE Listed BY <2>1, <1>1 DEF Listed, Typed, TypeOK, Event
  <2>2. CASE ~Listed BY <2>2 DEF EventThread, Hear, GotError, Typed, TypeOK
  <2> QED BY <2>1, <2>2
<1>3. /\ job' \in [pc : {"idle", "plain", "listen", "leave", "pattern"}, key : Seq(STRING),
                   call : 0 .. MaxCalls, ok : BOOLEAN, clean : BOOLEAN]
      /\ job'.pc = job.pc /\ job'.key = job.key /\ job'.call = job.call
  <2>1. job' = job \/ job' = [job EXCEPT !.ok = FALSE]
    BY DEF EventThread, Listed, Hear, GotError
  <2> QED BY <2>1 DEF Typed, TypeOK
<1>4. told' \in [Keys -> {"none", "asked", "on", "off"}]
  BY DEF EventThread, Listed, Hear, GotError, Typed, TypeOK
<1>5. wild' \in BOOLEAN
  <2>1. CASE GotError
    <3>1. Head(feed).plain \in BOOLEAN BY <1>1 DEF Event
    <3> QED BY <2>1, <3>1 DEF GotError
  <2>2. CASE ~GotError BY <2>2 DEF EventThread, Listed, Hear, Typed, TypeOK
  <2> QED BY <2>1, <2>2
<1>6. got' \in Seq(Received)
  <2>1. CASE Hear
    <3> DEFINE r == [key |-> feed[1].chan.key, id |-> feed[1].id]
    <3>1. feed[1].what = "message" /\ got' = Append(got, r) BY <2>1, <1>1 DEF Hear
    <3>2. feed[1].chan \in Channel /\ feed[1].id \in 1 .. published
      BY <3>1, <1>1 DEF Typed, Event
    <3>3. r \in Received BY <3>2, TypedForms DEF Channel, Received
    <3>4. got \in Seq(Received) BY DEF Typed, TypeOK
    <3> QED BY <3>1, <3>3, <3>4, Pushed
  <2>2. CASE ~Hear BY <2>2 DEF EventThread, Listed, GotError, Typed, TypeOK
  <2> QED BY <2>1, <2>2
<1>7. TypeOK' BY <1>1, <1>2, <1>3, <1>4, <1>5, <1>6, TypedForms DEF Typed, TypeOK, Event
<1>8. \A i \in DOMAIN feed' : /\ feed'[i].what = "message" => feed'[i].chan \in Channels
                                                          /\ feed'[i].id \in 1 .. published
                              /\ feed'[i].call <= calls
  BY <1>1 DEF Typed
<1> QED BY <1>1, <1>3, <1>7, <1>8 DEF Typed

LEMMA TypedInit == Init => Typed
<1> SUFFICES ASSUME Init PROVE Typed OBVIOUS
<1>1. TypeOK
  <2>1. /\ wire \in Seq([on : BOOLEAN, chan : Channel, plain : BOOLEAN, call : 1 .. MaxCalls])
        /\ feed \in Seq([what : {"on", "off", "error", "message"}, chan : Channel, plain : BOOLEAN,
                         call : 0 .. MaxCalls, id : 0 .. MaxMessages])
        /\ got \in Seq(Received)
    BY EmptySeq DEF Init
  <2>2. job \in [pc : {"idle", "plain", "listen", "leave", "pattern"}, key : Seq(STRING),
                 call : 0 .. MaxCalls, ok : BOOLEAN, clean : BOOLEAN]
    BY SubscriberAssumption, EmptySeq DEF Init, Idle
  <2>3. told \in [Keys -> {"none", "asked", "on", "off"}] BY DEF Init
  <2>4. /\ server \subseteq Channel /\ known \subseteq Channel /\ owed \subseteq Received
        /\ calls \in 0 .. MaxCalls /\ published \in 0 .. MaxMessages
        /\ faults \in 0 .. MaxFaults
    BY SubscriberAssumption DEF Init
  <2>5. wild \in BOOLEAN /\ job.pc = "idle" BY DEF Init, Idle
  <2> QED BY <2>1, <2>2, <2>3, <2>4, <2>5 DEF TypeOK
<1>2. IsFiniteSet(server) BY FS_EmptySet DEF Init
<1>3. DOMAIN wire = {} /\ DOMAIN feed = {} BY DEF Init
<1>4. job.pc = "idle" /\ server = {} BY DEF Init, Idle
<1> QED BY <1>1, <1>2, <1>3, <1>4 DEF Typed

LEMMA TypedNext == Typed /\ [Next]_vars => Typed'
<1> SUFFICES ASSUME Typed, [Next]_vars PROVE Typed' OBVIOUS
<1>1. ASSUME NEW k \in Keys, NEW plain \in BOOLEAN, Subscribe(plain, k) PROVE Typed'
  BY <1>1, SubscribeTyped
<1>2. ASSUME NEW k \in Keys, Unsubscribe(k) \/ UnsubscribeUnlisted(k) \/ UnsubscribePattern(k)
      PROVE  Typed'
  BY <1>2, UnsubscribeTyped
<1>3. ASSUME NEW k \in Keys, Publish(k) PROVE Typed' BY <1>3, PublishTyped
<1>4. CASE Returns BY <1>4, ReturnsTyped
<1>5. CASE Execute BY <1>5, ExecuteTyped
<1>6. CASE EventThread BY <1>6, EventTyped
<1>7. CASE UNCHANGED vars
  <2>1. /\ server' = server /\ known' = known /\ wire' = wire /\ calls' = calls /\ feed' = feed
        /\ job' = job /\ got' = got /\ told' = told /\ published' = published /\ faults' = faults
        /\ owed' = owed /\ wild' = wild
    BY <1>7 DEF vars, sent, counters
  <2> QED BY <2>1 DEF Typed, TypeOK
<1> QED BY <1>1, <1>2, <1>3, <1>4, <1>5, <1>6, <1>7 DEF Next

(***************************************************************************)
(* Every variable keeps its type: in particular no queue holds a command,  *)
(* an answer or a message of a channel, a call or a number out of range.   *)
(***************************************************************************)
THEOREM SubscriberTypes == Spec => []TypeOK
<1>1. Typed => TypeOK BY DEF Typed
<1> QED BY <1>1, TypedInit, TypedNext, PTL DEF Spec
-----------------------------------------------------------------------------
(***************************************************************************)
(* The client lags behind the server by the feed.                          *)
(***************************************************************************)
LEMMA SaysOne == \A e, ch : ~(Says(e, "on", ch) /\ Says(e, "off", ch))
BY DEF Says

\* One event more.
LEMMA UpStep ==
  ASSUME NEW f, NEW l, NEW i \in Nat \ {0}, NEW ch
  PROVE  Up(f, l, i + 1, ch) <=> \/ Says(f[i], "on", ch)
                                 \/ ~Says(f[i], "off", ch) /\ Up(f, l, i, ch)
<1> DEFINE on(j)  == Says(f[j], "on", ch)
           off(j) == Says(f[j], "off", ch)
<1> HIDE DEF on, off
<1>1. Up(f, l, i, ch) <=> /\ \A j \in 1 .. i - 1 : off(j) => \E m \in j + 1 .. i - 1 : on(m)
                          /\ ch \in l \/ \E j \in 1 .. i - 1 : on(j)
  BY DEF Up, on, off
<1>2. Up(f, l, i + 1, ch) <=> /\ \A j \in 1 .. i : off(j) => \E m \in j + 1 .. i : on(m)
                              /\ ch \in l \/ \E j \in 1 .. i : on(j)
  <2>1. i + 1 - 1 = i OBVIOUS
  <2> QED BY <2>1 DEF Up, on, off
<1>3. ~(on(i) /\ off(i)) BY SaysOne DEF on, off
<1>4. CASE on(i)
  <2>1. \A j \in 1 .. i : off(j) => \E m \in j + 1 .. i : on(m)
    <3> SUFFICES ASSUME NEW j \in 1 .. i, off(j) PROVE i \in j + 1 .. i BY <1>4
    <3>1. j # i BY <1>3, <1>4
    <3> QED BY <3>1
  <2>2. i \in 1 .. i OBVIOUS
  <2> QED BY <1>2, <1>4, <2>1, <2>2 DEF on
<1>5. CASE off(i)
  <2>1. ~\E m \in i + 1 .. i : on(m) OBVIOUS
  <2>2. i \in 1 .. i OBVIOUS
  <2>3. ~Up(f, l, i + 1, ch) BY <1>2, <1>5, <2>1, <2>2
  <2> QED BY <2>3, <1>3, <1>5 DEF on, off
<1>6. CASE ~on(i) /\ ~off(i)
  <2>1. \A j \in 1 .. i : on(j) \/ off(j) => j \in 1 .. i - 1
    <3> SUFFICES ASSUME NEW j \in 1 .. i, on(j) \/ off(j) PROVE j \in 1 .. i - 1 OBVIOUS
    <3>1. j # i BY <1>6
    <3> QED BY <3>1
  <2>2. \A j \in 1 .. i - 1 : j \in 1 .. i OBVIOUS
  <2>3. \A j \in 1 .. i : (\E m \in j + 1 .. i : on(m)) <=> \E m \in j + 1 .. i - 1 : on(m)
    <3> SUFFICES ASSUME NEW j \in 1 .. i
                 PROVE  (\E m \in j + 1 .. i : on(m)) <=> \E m \in j + 1 .. i - 1 : on(m)
      OBVIOUS
    <3>1. \A m \in j + 1 .. i : on(m) => m \in j + 1 .. i - 1
      <4> SUFFICES ASSUME NEW m \in j + 1 .. i, on(m) PROVE m \in j + 1 .. i - 1 OBVIOUS
      <4>1. m # i BY <1>6
      <4> QED BY <4>1
    <3>2. \A m \in j + 1 .. i - 1 : m \in j + 1 .. i OBVIOUS
    <3> QED BY <3>1, <3>2
  <2>4. Up(f, l, i + 1, ch) <=> Up(f, l, i, ch) BY <1>1, <1>2, <2>1, <2>2, <2>3
  <2> QED BY <2>4, <1>6 DEF on, off
<1> QED BY <1>4, <1>5, <1>6

\* Only what precedes the position counts.
LEMMA UpSame ==
  ASSUME NEW f, NEW g, NEW l, NEW i \in Nat, NEW ch, \A j \in 1 .. i - 1 : f[j] = g[j]
  PROVE  Up(f, l, i, ch) <=> Up(g, l, i, ch)
<1>1. ASSUME NEW j \in 1 .. i - 1, NEW m \in j + 1 .. i - 1 PROVE m \in 1 .. i - 1 OBVIOUS
<1>2. \A j \in 1 .. i - 1 : \A w : Says(f[j], w, ch) <=> Says(g[j], w, ch) BY DEF Says
<1> QED BY <1>1, <1>2 DEF Up

\* The client handles the first event.
LEMMA UpTail ==
  ASSUME NEW f, NEW g, NEW l, NEW h, NEW i \in Nat \ {0}, NEW ch,
         \A j \in 1 .. i - 1 : g[j] = f[j + 1],
         ch \in h <=> Says(f[1], "on", ch) \/ (~Says(f[1], "off", ch) /\ ch \in l)
  PROVE  Up(g, h, i, ch) <=> Up(f, l, i + 1, ch)
<1> DEFINE on(j)  == Says(f[j], "on", ch)
           off(j) == Says(f[j], "off", ch)
<1>0. ~(on(1) /\ off(1)) BY SaysOne
<1>1. Up(f, l, i + 1, ch) <=> /\ \A j \in 1 .. i : off(j) => \E m \in j + 1 .. i : on(m)
                              /\ ch \in l \/ \E j \in 1 .. i : on(j)
  <2>1. i + 1 - 1 = i OBVIOUS
  <2> QED BY <2>1 DEF Up
<1>2. Up(g, h, i, ch) <=>
        /\ \A j \in 1 .. i - 1 : off(j + 1) => \E m \in j + 1 .. i - 1 : on(m + 1)
        /\ ch \in h \/ \E j \in 1 .. i - 1 : on(j + 1)
  <2>1. \A j \in 1 .. i - 1 : \A w : Says(g[j], w, ch) <=> Says(f[j + 1], w, ch) BY DEF Says
  <2>2. \A j \in 1 .. i - 1 : \A m \in j + 1 .. i - 1 : m \in 1 .. i - 1 OBVIOUS
  <2> QED BY <2>1, <2>2 DEF Up
<1>3. ch \in h <=> on(1) \/ (~off(1) /\ ch \in l) OBVIOUS
<1> HIDE DEF on, off
<1>4. ASSUME Up(g, h, i, ch) PROVE Up(f, l, i + 1, ch)
  <2>1. ASSUME NEW j \in 1 .. i, off(j) PROVE \E m \in j + 1 .. i : on(m)
    <3>1. CASE j = 1
      <4>1. ch \notin h BY <1>0, <1>3, <2>1, <3>1
      <4>2. PICK m \in 1 .. i - 1 : on(m + 1) BY <1>2, <1>4, <4>1
      <4>3. m + 1 \in j + 1 .. i BY <3>1
      <4> QED BY <4>2, <4>3
    <3>2. CASE j # 1
      <4>1. j - 1 \in 1 .. i - 1 /\ j - 1 + 1 = j BY <3>2
      <4>2. PICK m \in j - 1 + 1 .. i - 1 : on(m + 1) BY <1>2, <1>4, <2>1, <4>1
      <4>3. m + 1 \in j + 1 .. i OBVIOUS
      <4> QED BY <4>2, <4>3
    <3> QED BY <3>1, <3>2
  <2>2. ch \in l \/ \E j \in 1 .. i : on(j)
    <3>1. CASE ch \in h
      <4>1. 1 \in 1 .. i OBVIOUS
      <4> QED BY <1>3, <3>1, <4>1
    <3>2. CASE ch \notin h
      <4>1. PICK j \in 1 .. i - 1 : on(j + 1) BY <1>2, <1>4, <3>2
      <4>2. j + 1 \in 1 .. i OBVIOUS
      <4> QED BY <4>1, <4>2
    <3> QED BY <3>1, <3>2
  <2> QED BY <1>1, <2>1, <2>2
<1>5. ASSUME Up(f, l, i + 1, ch) PROVE Up(g, h, i, ch)
  <2>1. ASSUME NEW j \in 1 .. i - 1, off(j + 1) PROVE \E m \in j + 1 .. i - 1 : on(m + 1)
    <3>1. j + 1 \in 1 .. i OBVIOUS
    <3>2. PICK m \in j + 1 + 1 .. i : on(m) BY <1>1, <1>5, <2>1, <3>1
    <3>3. m - 1 \in j + 1 .. i - 1 /\ m - 1 + 1 = m OBVIOUS
    <3> QED BY <3>2, <3>3
  <2>2. ch \in h \/ \E j \in 1 .. i - 1 : on(j + 1)
    <3>1. SUFFICES ASSUME ch \notin h PROVE \E j \in 1 .. i - 1 : on(j + 1) OBVIOUS
    <3>2. PICK m \in 2 .. i : on(m)
      <4>1. CASE off(1)
        <5>1. 1 \in 1 .. i /\ 1 + 1 = 2 OBVIOUS
        <5> QED BY <1>1, <1>5, <4>1, <5>1
      <4>2. CASE ~off(1)
        <5>1. ch \notin l /\ ~on(1) BY <1>3, <3>1, <4>2
        <5>2. PICK m \in 1 .. i : on(m) BY <1>1, <1>5, <5>1
        <5>3. m # 1 BY <5>1, <5>2
        <5> QED BY <5>2, <5>3
      <4> QED BY <4>1, <4>2
    <3>3. m - 1 \in 1 .. i - 1 /\ m - 1 + 1 = m OBVIOUS
    <3> QED BY <3>2, <3>3
  <2> QED BY <1>2, <2>1, <2>2
<1> QED BY <1>4, <1>5

\* Messages do not count.
LEMMA UpQuiet ==
  ASSUME NEW f, NEW l, NEW i \in Nat \ {0}, NEW k \in Nat, i <= k, NEW ch,
         \A j \in i .. k - 1 : f[j].what = "message"
  PROVE  Up(f, l, k, ch) <=> Up(f, l, i, ch)
<1> DEFINE on(j)  == Says(f[j], "on", ch)
           off(j) == Says(f[j], "off", ch)
<1>0. \A j \in i .. k - 1 : ~on(j) /\ ~off(j) BY DEF Says
<1>1. Up(f, l, i, ch) <=> /\ \A j \in 1 .. i - 1 : off(j) => \E m \in j + 1 .. i - 1 : on(m)
                          /\ ch \in l \/ \E j \in 1 .. i - 1 : on(j)
  BY DEF Up
<1>2. Up(f, l, k, ch) <=> /\ \A j \in 1 .. k - 1 : off(j) => \E m \in j + 1 .. k - 1 : on(m)
                          /\ ch \in l \/ \E j \in 1 .. k - 1 : on(j)
  BY DEF Up
<1> HIDE DEF on, off
<1>3. \A j \in 1 .. k - 1 : on(j) \/ off(j) => j \in 1 .. i - 1
  <2> SUFFICES ASSUME NEW j \in 1 .. k - 1, on(j) \/ off(j) PROVE j \in 1 .. i - 1 OBVIOUS
  <2>1. j \notin i .. k - 1 BY <1>0
  <2> QED BY <2>1
<1>4. \A j \in 1 .. i - 1 : j \in 1 .. k - 1 OBVIOUS
<1>5. ASSUME NEW j \in 1 .. i - 1
      PROVE  (\E m \in j + 1 .. k - 1 : on(m)) <=> \E m \in j + 1 .. i - 1 : on(m)
  <2>1. \A m \in j + 1 .. k - 1 : m \in 1 .. k - 1 OBVIOUS
  <2>2. \A m \in j + 1 .. k - 1 : m \in 1 .. i - 1 => m \in j + 1 .. i - 1 OBVIOUS
  <2>3. \A m \in j + 1 .. i - 1 : m \in j + 1 .. k - 1 OBVIOUS
  <2> QED BY <1>3, <2>1, <2>2, <2>3
<1> QED BY <1>1, <1>2, <1>3, <1>4, <1>5

LEMMA LagExecute ==
  ASSUME Typed, Lag, Execute
  PROVE  Lag'
<1> DEFINE n == Len(feed)
           c == wire[1]
           e == feed'[n + 1]
<1>1. /\ feed' \in Seq(Event) /\ n \in Nat /\ Len(feed') = n + 1 /\ DOMAIN feed = 1 .. n
      /\ DOMAIN feed' = 1 .. n + 1 /\ \A i \in DOMAIN feed : feed'[i] = feed[i]
  BY Executed
<1>2. /\ e.chan = c.chan /\ known' = known
      /\ \/ c.on /\ e.what = "on" /\ server' = server \cup {c.chan}
         \/ ~c.on /\ e.what = "off" /\ server' = server \ {c.chan}
         \/ e.what = "error" /\ server' = server
  BY Executed
<1> HIDE DEF n, c, e
<1>3. ASSUME NEW ch \in Channel PROVE ch \in server' <=> Up(feed', known', Len(feed') + 1, ch)
  <2>1. ch \in server <=> Up(feed, known, n + 1, ch) BY DEF Lag, n
  <2>2. Up(feed, known, n + 1, ch) <=> Up(feed', known, n + 1, ch)
    <3>1. PICK i \in Nat : i = n + 1 BY <1>1
    <3>2. \A j \in 1 .. i - 1 : feed[j] = feed'[j] BY <1>1, <3>1
    <3>3. Up(feed, known, i, ch) <=> Up(feed', known, i, ch) BY <3>2, UpSame
    <3> QED BY <3>1, <3>3
  <2>3. Up(feed', known, n + 1 + 1, ch) <=>
          Says(e, "on", ch) \/ (~Says(e, "off", ch) /\ Up(feed', known, n + 1, ch))
    <3>1. n + 1 \in Nat \ {0} BY <1>1
    <3> QED BY <3>1, UpStep DEF e
  <2>4. ch \in server' <=> Says(e, "on", ch) \/ (~Says(e, "off", ch) /\ ch \in server)
    BY <1>2 DEF Says
  <2> QED BY <1>1, <1>2, <2>1, <2>2, <2>3, <2>4
<1>4. ASSUME NEW i \in DOMAIN feed', feed'[i].what = "message"
      PROVE  Up(feed', known', i, feed'[i].chan)
  <2>1. i \in DOMAIN feed
    <3>1. i # n + 1 BY <1>2, <1>4 DEF e
    <3> QED BY <1>1, <3>1
  <2>2. feed'[i] = feed[i] /\ Up(feed, known, i, feed[i].chan) BY <1>1, <1>4, <2>1 DEF Lag
  <2>3. i \in Nat /\ \A j \in 1 .. i - 1 : feed[j] = feed'[j]
    <3>1. i \in Nat /\ \A j \in 1 .. i - 1 : j \in 1 .. n BY <1>1, <2>1
    <3> QED BY <1>1, <3>1
  <2> QED BY <1>2, <2>2, <2>3, UpSame
<1> QED BY <1>3, <1>4 DEF Lag

LEMMA LagPublish ==
  ASSUME Typed, Lag, NEW t \in Keys, Publish(t)
  PROVE  Lag'
<1> DEFINE n == Len(feed)
<1>1. /\ feed' \in Seq(Event) /\ DOMAIN feed = 1 .. n /\ DOMAIN feed' = 1 .. Len(feed')
      /\ n \in Nat /\ Len(feed') \in Nat /\ n <= Len(feed')
      /\ \A i \in DOMAIN feed : feed'[i] = feed[i]
      /\ \A i \in n + 1 .. Len(feed') : feed'[i].what = "message" /\ feed'[i].chan \in server
      /\ known' = known /\ server' = server
  BY Published
<1>2. server \subseteq Channel BY DEF Typed, TypeOK
<1>3. \A ch \in Channel : ch \in server <=> Up(feed, known, n + 1, ch) BY DEF Lag
<1> HIDE DEF n
<1>4. ASSUME NEW i \in n + 1 .. Len(feed') + 1, NEW ch \in Channel
      PROVE  Up(feed', known, i, ch) <=> ch \in server
  <2>1. n + 1 \in Nat \ {0} /\ i \in Nat /\ n + 1 <= i BY <1>1
  <2>2. \A j \in n + 1 .. i - 1 : feed'[j].what = "message"
    <3>1. \A j \in n + 1 .. i - 1 : j \in n + 1 .. Len(feed') BY <1>1
    <3> QED BY <1>1, <3>1
  <2>3. Up(feed', known, i, ch) <=> Up(feed', known, n + 1, ch) BY <2>1, <2>2, UpQuiet
  <2>4. Up(feed, known, n + 1, ch) <=> Up(feed', known, n + 1, ch)
    <3>1. PICK p \in Nat : p = n + 1 BY <1>1
    <3>2. \A j \in 1 .. p - 1 : feed[j] = feed'[j] BY <1>1, <3>1
    <3>3. Up(feed, known, p, ch) <=> Up(feed', known, p, ch) BY <3>2, UpSame
    <3> QED BY <3>1, <3>3
  <2> QED BY <1>3, <2>3, <2>4
<1>5. Len(feed') + 1 \in n + 1 .. Len(feed') + 1 BY <1>1
<1>6. ASSUME NEW i \in DOMAIN feed', feed'[i].what = "message"
      PROVE  Up(feed', known', i, feed'[i].chan)
  <2>1. CASE i \in DOMAIN feed
    <3>1. feed'[i] = feed[i] /\ Up(feed, known, i, feed[i].chan) BY <1>1, <1>6, <2>1 DEF Lag
    <3>2. i \in Nat /\ \A j \in 1 .. i - 1 : feed[j] = feed'[j]
      <4>1. i \in Nat /\ \A j \in 1 .. i - 1 : j \in 1 .. n BY <1>1, <2>1
      <4> QED BY <1>1, <4>1
    <3> QED BY <1>1, <3>1, <3>2, UpSame
  <2>2. CASE i \notin DOMAIN feed
    <3>1. i \in n + 1 .. Len(feed') /\ i \in n + 1 .. Len(feed') + 1 BY <1>1, <2>2
    <3>2. feed'[i].chan \in server /\ feed'[i].chan \in Channel BY <1>1, <1>2, <3>1
    <3> QED BY <1>1, <1>4, <3>1, <3>2
  <2> QED BY <2>1, <2>2
<1> QED BY <1>1, <1>4, <1>5, <1>6 DEF Lag

LEMMA LagEvent ==
  ASSUME Typed, Lag, EventThread
  PROVE  Lag'
<1> DEFINE n == Len(feed)
<1>1. /\ feed' \in Seq(Event) /\ Len(feed') = n - 1 /\ n \in Nat /\ n >= 1
      /\ DOMAIN feed = 1 .. n /\ DOMAIN feed' = 1 .. n - 1
      /\ \A i \in DOMAIN feed' : i + 1 \in DOMAIN feed /\ feed'[i] = feed[i + 1]
      /\ server' = server /\ Head(feed) = feed[1]
  BY Handled
<1>2. \A ch \in Channel : ch \in server <=> Up(feed, known, n + 1, ch) BY DEF Lag
<1>3. \A ch : ch \in known' <=>
        Says(feed[1], "on", ch) \/ (~Says(feed[1], "off", ch) /\ ch \in known)
  <2>1. CASE Listed BY <1>1, <2>1 DEF Listed, Says
  <2>2. CASE ~Listed
    <3>1. known' = known /\ feed[1].what \notin {"on", "off"}
      BY <1>1, <2>2 DEF EventThread, Hear, GotError
    <3> QED BY <3>1 DEF Says
  <2> QED BY <2>1, <2>2
<1> HIDE DEF n
<1>4. ASSUME NEW i \in 1 .. n, NEW ch
      PROVE  Up(feed', known', i, ch) <=> Up(feed, known, i + 1, ch)
  <2>1. i \in Nat \ {0} /\ \A j \in 1 .. i - 1 : feed'[j] = feed[j + 1]
    <3>1. i \in Nat \ {0} /\ \A j \in 1 .. i - 1 : j \in 1 .. n - 1 BY <1>1
    <3> QED BY <1>1, <3>1
  <2> QED BY <1>3, <2>1, UpTail
<1>5. ASSUME NEW ch \in Channel PROVE ch \in server' <=> Up(feed', known', Len(feed') + 1, ch)
  <2>1. Len(feed') + 1 = n /\ n \in 1 .. n BY <1>1
  <2> QED BY <1>1, <1>2, <1>4, <2>1
<1>6. ASSUME NEW i \in DOMAIN feed', feed'[i].what = "message"
      PROVE  Up(feed', known', i, feed'[i].chan)
  <2>1. i + 1 \in DOMAIN feed /\ feed'[i] = feed[i + 1] /\ i \in 1 .. n BY <1>1
  <2>2. Up(feed, known, i + 1, feed[i + 1].chan) BY <1>6, <2>1 DEF Lag
  <2> QED BY <1>4, <2>1, <2>2
<1> QED BY <1>5, <1>6 DEF Lag

LEMMA LagInit == Init => Lag
<1> SUFFICES ASSUME Init PROVE Lag OBVIOUS
<1>1. Len(feed) = 0 /\ server = {} /\ known = {} /\ DOMAIN feed = {}
  BY DEF Init
<1>2. \A ch : ~Up(feed, known, Len(feed) + 1, ch)
  <2>1. ~\E j \in 1 .. 0 + 1 - 1 : TRUE OBVIOUS
  <2> QED BY <1>1, <2>1 DEF Up
<1> QED BY <1>1, <1>2 DEF Lag
-----------------------------------------------------------------------------
(***************************************************************************)
(* What is pending, and what is asked for, from step to step.              *)
(***************************************************************************)
LEMMA Settled ==
  ASSUME Typed, Lag, NEW ch \in Channel
  PROVE  /\ ch \in known /\ ~InFeed("off", ch) => ch \in server
         /\ ch \notin known /\ ~InFeed("on", ch) => ch \notin server /\ ~InFeed("message", ch)
<1>1. Len(feed) \in Nat /\ DOMAIN feed = 1 .. Len(feed) BY TypedForms
<1>2. ch \in server <=> Up(feed, known, Len(feed) + 1, ch) BY DEF Lag
<1>3. ASSUME ch \in known, ~InFeed("off", ch) PROVE Up(feed, known, Len(feed) + 1, ch)
  <2>1. ASSUME NEW j \in 1 .. Len(feed) + 1 - 1 PROVE ~Says(feed[j], "off", ch)
    BY <1>1, <1>3 DEF InFeed, Says
  <2> QED BY <1>3, <2>1 DEF Up
<1>4. ASSUME ch \notin known, ~InFeed("on", ch), NEW i \in 1 .. Len(feed) + 1
      PROVE  ~Up(feed, known, i, ch)
  <2>1. ASSUME NEW j \in 1 .. i - 1 PROVE ~Says(feed[j], "on", ch)
    <3>1. j \in DOMAIN feed BY <1>1
    <3> QED BY <1>4, <3>1 DEF InFeed, Says
  <2> QED BY <1>4, <2>1 DEF Up
<1>5. ASSUME ch \notin known, ~InFeed("on", ch) PROVE ch \notin server /\ ~InFeed("message", ch)
  <2>1. Len(feed) + 1 \in 1 .. Len(feed) + 1 BY <1>1
  <2>2. ASSUME NEW i \in DOMAIN feed, feed[i].what = "message", feed[i].chan = ch PROVE FALSE
    <3>1. Up(feed, known, i, ch) BY <2>2 DEF Lag
    <3>2. i \in 1 .. Len(feed) + 1 BY <1>1
    <3> QED BY <1>4, <1>5, <3>1, <3>2
  <2> QED BY <1>2, <1>4, <1>5, <2>1, <2>2 DEF InFeed
<1> QED BY <1>2, <1>3, <1>5

\* A command is sent.
LEMMA Sent ==
  ASSUME Typed, NEW on \in BOOLEAN, NEW ch \in Channel, NEW plain \in BOOLEAN,
         Ask(on, ch, plain), on => ch \in Channels, UNCHANGED <<server, feed>>
  PROVE  /\ \A d : d # ch \/ ~on => (OnWire(TRUE, d)' <=> OnWire(TRUE, d))
         /\ \A d : d # ch \/ on => (OnWire(FALSE, d)' <=> OnWire(FALSE, d))
         /\ \A w, d : InFeed(w, d)' <=> InFeed(w, d)
         /\ \A d, Calls : AskedBy(d, Calls) /\ (on \/ d # ch) => AskedBy(d, Calls)'
         /\ \A Calls : on /\ calls' \in Calls => AskedBy(ch, Calls)'
         /\ \A i \in DOMAIN wire' : wire'[i].call = calls' => wire'[i].plain = plain
         /\ \A i \in DOMAIN feed : feed[i].call # calls'
<1> DEFINE n == Len(wire)
           c == [on |-> on, chan |-> ch, plain |-> plain, call |-> calls']
<1>1. wire' = Append(wire, c) /\ calls' = calls + 1 /\ calls' \in 1 .. MaxCalls BY AskTyped
<1>2. c \in Command BY <1>1 DEF Command
<1>3. /\ n \in Nat /\ DOMAIN wire = 1 .. n /\ DOMAIN wire' = 1 .. n + 1 /\ wire'[n + 1] = c
      /\ \A i \in 1 .. n : wire'[i] = wire[i]
  BY <1>1, <1>2, Pushed, TypedForms
<1>4. c.on = on /\ c.chan = ch /\ c.plain = plain /\ c.call = calls' OBVIOUS
<1> HIDE DEF n, c
<1>5. ASSUME NEW o \in BOOLEAN, NEW d
      PROVE  OnWire(o, d)' <=> OnWire(o, d) \/ (o = on /\ d = ch)
  <2>1. \A i \in 1 .. n + 1 : i \in 1 .. n \/ i = n + 1 BY <1>3
  <2>2. (\A i \in 1 .. n : i \in 1 .. n + 1) /\ n + 1 \in 1 .. n + 1 BY <1>3
  <2>3. OnWire(o, d)' <=> \E i \in 1 .. n + 1 : wire'[i].on = o /\ wire'[i].chan = d
    BY <1>3 DEF OnWire
  <2>4. OnWire(o, d) <=> \E i \in 1 .. n : wire[i].on = o /\ wire[i].chan = d
    BY <1>3 DEF OnWire
  <2> QED BY <1>3, <1>4, <2>1, <2>2, <2>3, <2>4
<1>6. \A w, d : InFeed(w, d)' <=> InFeed(w, d) BY DEF InFeed
<1>7. ASSUME NEW d, NEW Calls, AskedBy(d, Calls), on \/ d # ch
      PROVE  AskedBy(d, Calls)'
  <2>1. CASE \E i \in DOMAIN wire : /\ wire[i].on /\ wire[i].chan = d /\ wire[i].call \in Calls
                                    /\ \A j \in DOMAIN wire : j > i => wire[j].on \/ wire[j].chan # d
    <3>1. PICK i \in DOMAIN wire : /\ wire[i].on /\ wire[i].chan = d /\ wire[i].call \in Calls
                                   /\ \A j \in DOMAIN wire : j > i => wire[j].on \/ wire[j].chan # d
      BY <2>1
    <3>2. i \in DOMAIN wire' /\ wire'[i] = wire[i] BY <1>3
    <3>3. ASSUME NEW j \in DOMAIN wire', j > i PROVE wire'[j].on \/ wire'[j].chan # d
      <4>1. CASE j \in DOMAIN wire BY <1>3, <3>1, <3>3, <4>1
      <4>2. CASE j \notin DOMAIN wire
        <5>1. j = n + 1 BY <1>3, <4>2
        <5> QED BY <1>3, <1>4, <1>7, <5>1
      <4> QED BY <4>1, <4>2
    <3> QED BY <3>1, <3>2, <3>3 DEF AskedBy
  <2>2. CASE /\ ~OnWire(FALSE, d)
             /\ \/ d \in server
                \/ \E i \in DOMAIN feed : Says(feed[i], "error", d) /\ feed[i].call \in Calls
    <3>1. ~OnWire(FALSE, d)' BY <1>5, <1>7, <2>2
    <3> QED BY <2>2, <3>1 DEF AskedBy
  <2> QED BY <1>7, <2>1, <2>2 DEF AskedBy
<1>8. ASSUME NEW Calls, on, calls' \in Calls PROVE AskedBy(ch, Calls)'
  <2>1. n + 1 \in DOMAIN wire' /\ ~\E j \in DOMAIN wire' : j > n + 1 BY <1>3
  <2>2. wire'[n + 1].on /\ wire'[n + 1].chan = ch /\ wire'[n + 1].call \in Calls
    BY <1>3, <1>4, <1>8
  <2> QED BY <2>1, <2>2 DEF AskedBy
<1>9. ASSUME NEW i \in DOMAIN wire', wire'[i].call = calls' PROVE wire'[i].plain = plain
  <2>1. CASE i \in DOMAIN wire
    <3>1. wire[i].call <= calls /\ wire[i].call \in Nat BY <2>1, TypedForms DEF Typed, Command
    <3>2. FALSE BY <1>1, <1>3, <1>9, <2>1, <3>1, TypedForms
    <3> QED BY <3>2
  <2>2. CASE i \notin DOMAIN wire
    <3>1. i = n + 1 BY <1>3, <2>2
    <3> QED BY <1>3, <1>4, <3>1
  <2> QED BY <2>1, <2>2
<1>10. ASSUME NEW i \in DOMAIN feed, feed[i].call = calls' PROVE FALSE
  BY <1>1, <1>10, TypedForms DEF Typed, Event
<1>11. /\ \A d : d # ch \/ ~on => (OnWire(TRUE, d)' <=> OnWire(TRUE, d))
       /\ \A d : d # ch \/ on => (OnWire(FALSE, d)' <=> OnWire(FALSE, d))
  <2>1. TRUE \in BOOLEAN /\ FALSE \in BOOLEAN /\ (TRUE = on <=> on) /\ (FALSE = on <=> ~on)
    OBVIOUS
  <2> QED BY <1>5, <2>1
<1> QED BY <1>6, <1>7, <1>8, <1>9, <1>10, <1>11

\* The server executes a command.
LEMMA ExecutedPending ==
  ASSUME Typed, Execute
  PROVE  /\ \A d : OnWire(TRUE, d)' => OnWire(TRUE, d)
         /\ \A d : OnWire(FALSE, d)' => OnWire(FALSE, d)
         /\ \A d : Pending(TRUE, d)' => Pending(TRUE, d)
         /\ \A d : Pending(FALSE, d)' => Pending(FALSE, d)
         /\ \A d : InFeed("message", d)' => InFeed("message", d)
         /\ \A d, Calls : AskedBy(d, Calls) => AskedBy(d, Calls)'
         /\ \A d : d \in server /\ d \notin server' => OnWire(FALSE, d)
         /\ \A d : d \notin server /\ d \in server' => OnWire(TRUE, d)
<1> DEFINE n == Len(feed)
           c == wire[1]
           e == feed'[n + 1]
<1>1. /\ c \in Command /\ 1 \in DOMAIN wire /\ DOMAIN wire = 1 .. Len(wire) /\ Len(wire) \in Nat
      /\ DOMAIN wire' = 1 .. Len(wire) - 1
      /\ \A i \in DOMAIN wire' : i + 1 \in DOMAIN wire /\ wire'[i] = wire[i + 1]
      /\ DOMAIN feed = 1 .. n /\ DOMAIN feed' = 1 .. n + 1 /\ n \in Nat
      /\ \A i \in DOMAIN feed : feed'[i] = feed[i]
      /\ e.chan = c.chan /\ e.call = c.call
  BY Executed, TypedForms
<1>2. /\ \/ c.on /\ e.what = "on" /\ server' = server \cup {c.chan}
         \/ ~c.on /\ e.what = "off" /\ server' = server \ {c.chan}
         \/ e.what = "error" /\ server' = server
  BY Executed
<1> HIDE DEF n, c, e
<1>3. ASSUME NEW o \in BOOLEAN, NEW d, OnWire(o, d)' PROVE OnWire(o, d)
  BY <1>1, <1>3 DEF OnWire
<1>4. \A i \in DOMAIN feed' : i \in DOMAIN feed \/ i = n + 1 BY <1>1
<1>5. c.on \in BOOLEAN BY <1>1 DEF Command
<1>6. ASSUME NEW o \in BOOLEAN, NEW d, Pending(o, d)' PROVE Pending(o, d)
  <2>1. CASE OnWire(o, d)' BY <1>3, <2>1 DEF Pending
  <2>2. CASE InFeed(IF o THEN "on" ELSE "off", d)'
    <3>1. PICK i \in DOMAIN feed' : feed'[i].what = (IF o THEN "on" ELSE "off") /\ feed'[i].chan = d
      BY <2>2 DEF InFeed
    <3>2. CASE i \in DOMAIN feed BY <1>1, <3>1, <3>2 DEF Pending, InFeed
    <3>3. CASE i = n + 1
      <4>1. e.what = (IF o THEN "on" ELSE "off") /\ c.chan = d BY <1>1, <3>1, <3>3 DEF e
      <4>2. c.on = o BY <1>2, <1>5, <4>1
      <4> QED BY <1>1, <4>1, <4>2 DEF Pending, OnWire, c
    <3> QED BY <1>4, <3>2, <3>3
  <2> QED BY <1>6, <2>1, <2>2 DEF Pending
<1>7. ASSUME NEW d, InFeed("message", d)' PROVE InFeed("message", d)
  <2>1. PICK i \in DOMAIN feed' : feed'[i].what = "message" /\ feed'[i].chan = d
    BY <1>7 DEF InFeed
  <2>2. i # n + 1 BY <1>2, <2>1 DEF e
  <2> QED BY <1>1, <1>4, <2>1, <2>2 DEF InFeed
<1>8. ASSUME NEW d, d \in server, d \notin server' PROVE OnWire(FALSE, d)
  <2>1. ~c.on /\ c.chan = d BY <1>2, <1>8
  <2> QED BY <1>1, <1>5, <2>1 DEF OnWire, c
<1>9. ASSUME NEW d, d \notin server, d \in server' PROVE OnWire(TRUE, d)
  <2>1. c.on /\ c.chan = d BY <1>2, <1>9
  <2> QED BY <1>1, <1>5, <2>1 DEF OnWire, c
<1>10. ASSUME NEW d, NEW Calls, AskedBy(d, Calls) PROVE AskedBy(d, Calls)'
  <2>1. CASE \E i \in DOMAIN wire : /\ wire[i].on /\ wire[i].chan = d /\ wire[i].call \in Calls
                                    /\ \A j \in DOMAIN wire : j > i => wire[j].on \/ wire[j].chan # d
    <3>1. PICK i \in DOMAIN wire : /\ wire[i].on /\ wire[i].chan = d /\ wire[i].call \in Calls
                                   /\ \A j \in DOMAIN wire : j > i => wire[j].on \/ wire[j].chan # d
      BY <2>1
    <3>2. CASE i = 1
      <4>1. ~OnWire(FALSE, d)'
        <5> SUFFICES ASSUME NEW j \in DOMAIN wire', wire'[j].on = FALSE, wire'[j].chan = d
                     PROVE  FALSE
          BY DEF OnWire
        <5>1. j + 1 \in DOMAIN wire /\ j + 1 > i /\ wire'[j] = wire[j + 1] BY <1>1, <3>2
        <5> QED BY <3>1, <5>1
      <4>2. c.on /\ c.chan = d /\ c.call \in Calls BY <3>1, <3>2 DEF c
      <4>3. d \in server' \/ (Says(e, "error", d) /\ e.call \in Calls) BY <1>1, <1>2, <4>2 DEF Says
      <4>4. n + 1 \in DOMAIN feed' BY <1>1
      <4> QED BY <4>1, <4>3, <4>4 DEF AskedBy, e
    <3>3. CASE i # 1
      <4>1. i - 1 \in DOMAIN wire' /\ wire'[i - 1] = wire[i]
        <5>1. i - 1 \in DOMAIN wire' /\ i - 1 + 1 = i BY <1>1, <3>3
        <5> QED BY <1>1, <5>1
      <4>2. ASSUME NEW j \in DOMAIN wire', j > i - 1 PROVE wire'[j].on \/ wire'[j].chan # d
        <5>1. j + 1 \in DOMAIN wire /\ j + 1 > i /\ wire'[j] = wire[j + 1] BY <1>1, <4>2
        <5> QED BY <3>1, <5>1
      <4>3. /\ wire'[i - 1].on /\ wire'[i - 1].chan = d /\ wire'[i - 1].call \in Calls
            /\ \A j \in DOMAIN wire' : j > i - 1 => wire'[j].on \/ wire'[j].chan # d
        BY <3>1, <4>1, <4>2
      <4> QED BY <4>1, <4>3 DEF AskedBy
    <3> QED BY <3>2, <3>3
  <2>2. CASE /\ ~OnWire(FALSE, d)
             /\ \/ d \in server
                \/ \E i \in DOMAIN feed : Says(feed[i], "error", d) /\ feed[i].call \in Calls
    <3>1. ~OnWire(FALSE, d)' BY <1>3, <2>2
    <3>2. d \in server => d \in server' BY <1>8, <2>2
    <3>3. \A i \in DOMAIN feed : i \in DOMAIN feed' /\ feed'[i] = feed[i] BY <1>1
    <3> QED BY <2>2, <3>1, <3>2, <3>3 DEF AskedBy
  <2> QED BY <1>10, <2>1, <2>2 DEF AskedBy
<1>11. /\ \A d : OnWire(TRUE, d)' => OnWire(TRUE, d)
       /\ \A d : OnWire(FALSE, d)' => OnWire(FALSE, d)
  BY <1>3
<1>12. /\ \A d : Pending(TRUE, d)' => Pending(TRUE, d)
       /\ \A d : Pending(FALSE, d)' => Pending(FALSE, d)
  BY <1>6
<1> QED BY <1>7, <1>8, <1>9, <1>10, <1>11, <1>12

\* Another process publishes.
LEMMA PublishedPending ==
  ASSUME Typed, NEW t \in Keys, Publish(t)
  PROVE  /\ \A o, d : OnWire(o, d)' <=> OnWire(o, d)
         /\ \A w, d : w # "message" => (InFeed(w, d)' <=> InFeed(w, d))
         /\ \A d : InFeed("message", d)' => InFeed("message", d) \/ d \in server
         /\ \A d, Calls : AskedBy(d, Calls) => AskedBy(d, Calls)'
         /\ \A i \in DOMAIN feed' : feed'[i].what # "message" => i \in DOMAIN feed /\ feed'[i] = feed[i]
<1>1. /\ DOMAIN feed = 1 .. Len(feed) /\ DOMAIN feed' = 1 .. Len(feed')
      /\ Len(feed) \in Nat /\ Len(feed') \in Nat /\ Len(feed) <= Len(feed')
      /\ \A i \in DOMAIN feed : feed'[i] = feed[i]
      /\ \A i \in Len(feed) + 1 .. Len(feed') :
           feed'[i].what = "message" /\ feed'[i].chan \in server
      /\ wire' = wire /\ server' = server
  BY Published
<1>2. \A i \in DOMAIN feed' : i \in DOMAIN feed \/ i \in Len(feed) + 1 .. Len(feed') BY <1>1
<1>3. \A i \in DOMAIN feed : i \in DOMAIN feed' BY <1>1
<1>4. \A o, d : OnWire(o, d)' <=> OnWire(o, d) BY <1>1 DEF OnWire
<1>5. \A w, d : w # "message" => (InFeed(w, d)' <=> InFeed(w, d))
  BY <1>1, <1>2, <1>3 DEF InFeed
<1>6. \A d : InFeed("message", d)' => InFeed("message", d) \/ d \in server
  BY <1>1, <1>2 DEF InFeed
<1>7. ASSUME NEW d, NEW Calls, AskedBy(d, Calls) PROVE AskedBy(d, Calls)'
  BY <1>1, <1>3, <1>4, <1>7 DEF AskedBy
<1> QED BY <1>1, <1>2, <1>4, <1>5, <1>6, <1>7

\* The event thread handles an event.
LEMMA HandledPending ==
  ASSUME Typed, EventThread
  PROVE  /\ \A o, d : OnWire(o, d)' <=> OnWire(o, d)
         /\ \A w, d : InFeed(w, d)' => InFeed(w, d)
         /\ \A d, Calls : AskedBy(d, Calls) /\ ~(Says(feed[1], "error", d) /\ feed[1].call \in Calls)
                            => AskedBy(d, Calls)'
<1>1. /\ Len(feed) \in Nat /\ DOMAIN feed = 1 .. Len(feed) /\ DOMAIN feed' = 1 .. Len(feed) - 1
      /\ \A i \in DOMAIN feed' : i + 1 \in DOMAIN feed /\ feed'[i] = feed[i + 1]
      /\ server' = server /\ wire' = wire
  BY Handled
<1>2. \A o, d : OnWire(o, d)' <=> OnWire(o, d) BY <1>1 DEF OnWire
<1>3. \A w, d : InFeed(w, d)' => InFeed(w, d) BY <1>1 DEF InFeed
<1>4. ASSUME NEW d, NEW Calls, AskedBy(d, Calls),
             ~(Says(feed[1], "error", d) /\ feed[1].call \in Calls)
      PROVE  AskedBy(d, Calls)'
  <2>1. ASSUME NEW i \in DOMAIN feed, Says(feed[i], "error", d), feed[i].call \in Calls
        PROVE  \E j \in DOMAIN feed' : Says(feed'[j], "error", d) /\ feed'[j].call \in Calls
    <3>1. i # 1 BY <1>4, <2>1
    <3>2. i - 1 \in DOMAIN feed' /\ i - 1 + 1 = i BY <1>1, <3>1
    <3>3. feed'[i - 1] = feed[i] BY <1>1, <3>2
    <3> QED BY <2>1, <3>2, <3>3
  <2> QED BY <1>1, <1>2, <1>4, <2>1 DEF AskedBy
<1> QED BY <1>2, <1>3, <1>4
-----------------------------------------------------------------------------
(***************************************************************************)
(* The promises, action by action.                                         *)
(***************************************************************************)
Promises == Waiting /\ Plain /\ PlainCommands /\ Promised

LEMMA PromisesSubscribe ==
  ASSUME Typed, Lag, Promises, NEW plain \in BOOLEAN, NEW k \in Keys, Subscribe(plain, k)
  PROVE  Promises'
<1>0. PICK ch \in Channels : ch = Chan(k) BY KeyTypes
<1>1. /\ Ask(TRUE, ch, plain) /\ ch \in Channel /\ ch \in Channels /\ UNCHANGED <<server, feed>>
  BY <1>0, KeyTypes DEF Subscribe
<1>2. PICK c \in 1 .. MaxCalls : c = calls' BY <1>1, AskTyped
<1>3. /\ \A d : OnWire(FALSE, d)' <=> OnWire(FALSE, d)
      /\ \A d : d # ch => (OnWire(TRUE, d)' <=> OnWire(TRUE, d))
      /\ \A w, d : InFeed(w, d)' <=> InFeed(w, d)
      /\ \A d, Calls : AskedBy(d, Calls) => AskedBy(d, Calls)'
      /\ AskedBy(ch, {c})' /\ AskedBy(ch, 0 .. MaxCalls)'
      /\ \A i \in DOMAIN wire' : wire'[i].call = calls' => wire'[i].plain = plain
      /\ \A i \in DOMAIN feed : feed[i].call # calls'
  <2>1. c \in {c} /\ c \in 0 .. MaxCalls OBVIOUS
  <2>2. \A d : OnWire(FALSE, d)' <=> OnWire(FALSE, d) BY <1>1, Sent
  <2>8. \A d : d # ch => (OnWire(TRUE, d)' <=> OnWire(TRUE, d)) BY <1>1, Sent
  <2>3. \A w, d : InFeed(w, d)' <=> InFeed(w, d) BY <1>1, Sent
  <2>4. \A d, Calls : AskedBy(d, Calls) => AskedBy(d, Calls)' BY <1>1, Sent
  <2>5. AskedBy(ch, {c})' BY <1>1, <1>2, <2>1, Sent
  <2>6. AskedBy(ch, 0 .. MaxCalls)' BY <1>1, <1>2, <2>1, Sent
  <2>7. \A i \in DOMAIN wire' : wire'[i].call = calls' => wire'[i].plain = plain
    <3>1. PICK on \in BOOLEAN : on = TRUE OBVIOUS
    <3>2. Ask(on, ch, plain) BY <1>1, <3>1
    <3> QED BY <1>1, <3>1, <3>2, Sent, ZenonT(40)
  <2>9. \A i \in DOMAIN feed : feed[i].call # calls' BY <1>1, Sent
  <2> QED BY <2>2, <2>3, <2>4, <2>5, <2>6, <2>7, <2>8, <2>9
<1>4. /\ told' = [told EXCEPT ![k] = "none"] \/ told' = [told EXCEPT ![k] = "asked"]
      /\ told \in [Keys -> {"none", "asked", "on", "off"}]
  BY DEF Subscribe, Typed, TypeOK
<1>5. \/ job' = job /\ job.pc = "idle"
      \/ /\ job'.pc = (IF plain THEN "plain" ELSE "listen") /\ job'.key = k /\ job'.call = calls'
         /\ job'.clean => ~Pending(FALSE, ch)
  <2>1. CASE Pattern(k) /\ ~plain BY <2>1 DEF Subscribe
  <2>2. CASE ~(Pattern(k) /\ ~plain)
    <3>1. Wait(IF plain THEN "plain" ELSE "listen", k, ~Pending(FALSE, Chan(k)))
      BY <2>2 DEF Subscribe
    <3> HIDE DEF Pending
    <3> QED BY <1>0, <3>1 DEF Wait
  <2> QED BY <2>1, <2>2
<1>6. Waiting'
  <2>1. CASE job'.pc = "listen" /\ job'.clean
    <3>1. ~Pending(FALSE, ch) /\ job'.key = k BY <1>5, <2>1
    <3>2. ~Pending(FALSE, ch)' BY <1>3, <3>1 DEF Pending
    <3> QED BY <2>1, <3>1, <3>2, <1>0 DEF Waiting
  <2>2. CASE ~(job'.pc = "listen" /\ job'.clean) BY <1>5, <2>2 DEF Waiting
  <2> QED BY <2>1, <2>2
<1>7. Plain'
  <2> SUFFICES ASSUME job'.pc = "plain", job'.ok
               PROVE  AskedBy(Chan(job.key), {job.call})'
    BY DEF Plain
  <2>1. Chan(job'.key) = ch /\ job'.call = c BY <1>0, <1>2, <1>5
  <2>2. AskedBy(ch, {c})' BY <1>3
  <2> QED BY <2>1, <2>2 DEF AskedBy, OnWire
<1>8. PlainCommands'
  <2> SUFFICES ASSUME job'.pc = "plain"
               PROVE  /\ \A i \in DOMAIN wire' : wire'[i].call = job'.call => wire'[i].plain
                      /\ \A i \in DOMAIN feed' : feed'[i].call = job'.call /\ feed'[i].what = "error"
                                                   => feed'[i].plain
    BY DEF PlainCommands
  <2>1. job'.call = calls' /\ plain BY <1>5
  <2> QED BY <1>1, <1>3, <2>1
<1>9. Promised'
  <2> SUFFICES ASSUME NEW u \in Keys
               PROVE  /\ told'[u] = "on" => Chan(u) \in server' /\ ~OnWire(FALSE, Chan(u))'
                      /\ told'[u] = "asked" => AskedBy(Chan(u), 0 .. MaxCalls)'
                      /\ told'[u] = "off" => /\ Chan(u) \notin server' /\ ~InFeed("message", Chan(u))'
                                             /\ ~OnWire(TRUE, Chan(u))'
    BY DEF Promised
  <2>1. CASE u = k
    <3>1. told'[u] \in {"none", "asked"} BY <1>4, <2>1
    <3>2. AskedBy(ch, 0 .. MaxCalls)' BY <1>3
    <3> QED BY <1>0, <2>1, <3>1, <3>2
  <2>2. CASE u # k
    <3>1. told'[u] = told[u] BY <1>4, <2>2
    <3>2. Chan(u) # ch BY <1>0, <2>2, ChanInjective
    <3> QED BY <1>1, <1>3, <3>1, <3>2 DEF Promises, Promised
  <2> QED BY <2>1, <2>2
<1> QED BY <1>6, <1>7, <1>8, <1>9 DEF Promises

\* Both commands of Unsubscribe: what the channel was promised is withdrawn.
LEMMA PromisesLeave ==
  ASSUME Typed, Promises, NEW ch \in Channel, Ask(FALSE, ch, FALSE), UNCHANGED <<server, feed>>,
         \A u \in Keys : told'[u] = "none" \/ (told'[u] = told[u] /\ Chan(u) # ch)
  PROVE  Promised'
<1>1. /\ \A d : OnWire(TRUE, d)' <=> OnWire(TRUE, d)
      /\ \A d : d # ch => (OnWire(FALSE, d)' <=> OnWire(FALSE, d))
  BY Sent
<1>2. \A w, d : InFeed(w, d)' <=> InFeed(w, d) BY Sent
<1>3. \A d, Calls : AskedBy(d, Calls) /\ d # ch => AskedBy(d, Calls)' BY Sent
<1> SUFFICES ASSUME NEW u \in Keys
             PROVE  /\ told'[u] = "on" => Chan(u) \in server' /\ ~OnWire(FALSE, Chan(u))'
                    /\ told'[u] = "asked" => AskedBy(Chan(u), 0 .. MaxCalls)'
                    /\ told'[u] = "off" => /\ Chan(u) \notin server' /\ ~InFeed("message", Chan(u))'
                                           /\ ~OnWire(TRUE, Chan(u))'
  BY DEF Promised
<1>4. CASE told'[u] = "none" BY <1>4
<1>5. CASE told'[u] = told[u] /\ Chan(u) # ch
  BY <1>1, <1>2, <1>3, <1>5 DEF Promises, Promised
<1> QED BY <1>4, <1>5

LEMMA PromisesUnsubscribe ==
  ASSUME Typed, Promises, NEW k \in Keys,
         Unsubscribe(k) \/ UnsubscribePattern(k) \/ UnsubscribeUnlisted(k)
  PROVE  Promises'
<1>1. CASE Unsubscribe(k)
  <2>1. PICK ch \in Channels : ch = Chan(k) BY KeyTypes
  <2>2. /\ Ask(FALSE, ch, FALSE) /\ ch \in Channel /\ UNCHANGED <<server, feed>>
        /\ job'.pc = "leave" /\ job'.key = k
    BY <1>1, <2>1, KeyTypes DEF Unsubscribe, Wait
  <2>3. Promised'
    <3>1. \A u \in Keys : told'[u] = "none" \/ (told'[u] = told[u] /\ Chan(u) # ch)
      BY <1>1, <2>1, ChanInjective DEF Unsubscribe, Typed, TypeOK
    <3> QED BY <2>2, <3>1, PromisesLeave
  <2>4. job'.clean => ~Pending(TRUE, ch)
    <3>1. Wait("leave", k, ~Pending(TRUE, Chan(k))) BY <1>1 DEF Unsubscribe
    <3> QED BY <2>1, <3>1 DEF Wait
  <2>5. Waiting'
    <3>1. \A d : OnWire(TRUE, d)' <=> OnWire(TRUE, d) BY <2>2, Sent
    <3>2. \A w, d : InFeed(w, d)' <=> InFeed(w, d) BY <2>2, Sent
    <3>3. ~Pending(TRUE, ch) => ~Pending(TRUE, ch)' BY <3>1, <3>2 DEF Pending
    <3> QED BY <2>1, <2>2, <2>4, <3>3 DEF Waiting
  <2> QED BY <2>2, <2>3, <2>5 DEF Promises, Plain, PlainCommands
<1>2. CASE UnsubscribePattern(k)
  <2>1. PICK ch \in Channel : ch = Target(k) BY KeyTypes
  <2>2. /\ Ask(FALSE, ch, FALSE) /\ UNCHANGED <<server, feed>> /\ job'.pc = "pattern"
    BY <1>2, <2>1 DEF UnsubscribePattern, Wait
  <2>3. Promised'
    <3>1. \A u \in Keys : told'[u] = "none" \/ (told'[u] = told[u] /\ Chan(u) # ch)
      BY <1>2, <2>1 DEF UnsubscribePattern
    <3> QED BY <2>2, <3>1, PromisesLeave
  <2> QED BY <2>2, <2>3 DEF Promises, Waiting, Plain, PlainCommands
<1>3. CASE UnsubscribeUnlisted(k)
  <2>1. job' = job /\ wire' = wire /\ feed' = feed /\ server' = server /\ told' = told
    BY <1>3 DEF UnsubscribeUnlisted
  <2> QED BY <2>1 DEF Promises, Waiting, Plain, PlainCommands, Promised, AskedBy, OnWire, InFeed,
                      Pending
<1> QED BY <1>1, <1>2, <1>3

LEMMA PromisesReturns ==
  ASSUME Typed, Lag, Promises, Returns
  PROVE  Promises'
<1>1. /\ wire' = wire /\ feed' = feed /\ server' = server /\ job'.pc = "idle"
      /\ told \in [Keys -> {"none", "asked", "on", "off"}] /\ job.pc # "idle" /\ job.key \in Keys
  BY DEF Returns, PlainReturns, ListenReturns, LeaveReturns, PatternReturns, Return, sent, Idle,
         Typed, TypeOK
<1>2. /\ \A o, d : OnWire(o, d)' <=> OnWire(o, d)
      /\ \A w, d : InFeed(w, d)' <=> InFeed(w, d)
      /\ \A d, Calls : AskedBy(d, Calls)' <=> AskedBy(d, Calls)
  BY <1>1 DEF OnWire, InFeed, AskedBy
<1>3. PICK ch \in Channels : ch = Chan(job.key) BY <1>1, KeyTypes
<1>4. ch \in Channel BY <1>3, KeyTypes DEF Channels
<1>5. PICK p \in {"none", "asked", "on", "off"} :
        /\ told' \in {[told EXCEPT ![job.key] = p], told}
        /\ p = "asked" => AskedBy(ch, 0 .. MaxCalls)
        /\ p = "on" => ch \in server /\ ~OnWire(FALSE, ch)
        /\ p = "off" => ch \notin server /\ ~InFeed("message", ch) /\ ~OnWire(TRUE, ch)
  <2>1. CASE PlainReturns
    <3>1. told' = [told EXCEPT ![job.key] = IF job.ok THEN "asked" ELSE "none"] /\ job.pc = "plain"
      BY <2>1 DEF PlainReturns, Return
    <3>2. CASE job.ok
      <4>1. AskedBy(ch, {job.call}) BY <1>3, <3>1, <3>2 DEF Promises, Plain
      <4>2. job.call \in 0 .. MaxCalls BY DEF Typed, TypeOK
      <4>3. AskedBy(ch, 0 .. MaxCalls) BY <4>1, <4>2 DEF AskedBy
      <4> QED BY <3>1, <3>2, <4>3
    <3>3. CASE ~job.ok BY <3>1, <3>3
    <3> QED BY <3>2, <3>3
  <2>2. CASE ListenReturns
    <3>1. /\ told' = [told EXCEPT ![job.key] = IF ch \in known /\ job.clean THEN "on" ELSE "none"]
          /\ job.pc = "listen"
      BY <1>3, <2>2 DEF ListenReturns, Return
    <3>2. CASE ch \in known /\ job.clean
      <4>1. ~Pending(FALSE, ch) BY <1>3, <3>1, <3>2 DEF Promises, Waiting
      <4>2. ~OnWire(FALSE, ch) /\ ~InFeed("off", ch) BY <4>1 DEF Pending
      <4>3. ch \in server BY <1>4, <3>2, <4>2, Settled
      <4> QED BY <3>1, <3>2, <4>2, <4>3
    <3>3. CASE ~(ch \in known /\ job.clean) BY <3>1, <3>3
    <3> QED BY <3>2, <3>3
  <2>3. CASE LeaveReturns
    <3>1. /\ told' = [told EXCEPT ![job.key] = IF ch \notin known /\ job.clean THEN "off" ELSE "none"]
          /\ job.pc = "leave"
      BY <1>3, <2>3 DEF LeaveReturns, Return
    <3>2. CASE ch \notin known /\ job.clean
      <4>1. ~Pending(TRUE, ch) BY <1>3, <3>1, <3>2 DEF Promises, Waiting
      <4>2. ~OnWire(TRUE, ch) /\ ~InFeed("on", ch) BY <4>1 DEF Pending
      <4>3. ch \notin server /\ ~InFeed("message", ch) BY <1>4, <3>2, <4>2, Settled
      <4> QED BY <3>1, <3>2, <4>2, <4>3
    <3>3. CASE ~(ch \notin known /\ job.clean) BY <3>1, <3>3
    <3> QED BY <3>2, <3>3
  <2>4. CASE PatternReturns BY <2>4 DEF PatternReturns
  <2> QED BY <2>1, <2>2, <2>3, <2>4 DEF Returns
<1>6. Promised'
  <2> SUFFICES ASSUME NEW u \in Keys
               PROVE  /\ told'[u] = "on" => Chan(u) \in server' /\ ~OnWire(FALSE, Chan(u))'
                      /\ told'[u] = "asked" => AskedBy(Chan(u), 0 .. MaxCalls)'
                      /\ told'[u] = "off" => /\ Chan(u) \notin server' /\ ~InFeed("message", Chan(u))'
                                             /\ ~OnWire(TRUE, Chan(u))'
    BY DEF Promised
  <2>1. (told'[u] = p /\ Chan(u) = ch) \/ told'[u] = told[u]
    BY <1>1, <1>3, <1>5
  <2>2. CASE told'[u] = p /\ Chan(u) = ch BY <1>1, <1>2, <1>5, <2>2
  <2>3. CASE told'[u] = told[u] BY <1>1, <1>2, <2>3 DEF Promises, Promised
  <2> QED BY <2>1, <2>2, <2>3
<1> QED BY <1>1, <1>6 DEF Promises, Waiting, Plain, PlainCommands

LEMMA PromisesExecute ==
  ASSUME Typed, Promises, Execute
  PROVE  Promises'
<1>1. /\ \A d : OnWire(TRUE, d)' => OnWire(TRUE, d)
      /\ \A d : OnWire(FALSE, d)' => OnWire(FALSE, d)
      /\ \A d : Pending(TRUE, d)' => Pending(TRUE, d)
      /\ \A d : Pending(FALSE, d)' => Pending(FALSE, d)
  BY ExecutedPending
<1>2. /\ \A d : InFeed("message", d)' => InFeed("message", d)
      /\ \A d, Calls : AskedBy(d, Calls) => AskedBy(d, Calls)'
      /\ \A d : d \in server /\ d \notin server' => OnWire(FALSE, d)
      /\ \A d : d \notin server /\ d \in server' => OnWire(TRUE, d)
  BY ExecutedPending
<1>3. job' = job /\ told' = told BY DEF Execute
<1>4. Waiting' BY <1>1, <1>3 DEF Promises, Waiting
<1>5. Plain'
  <2> SUFFICES ASSUME job.pc = "plain", job.ok PROVE Plain' BY <1>3 DEF Plain
  <2>1. PICK ch \in Channels, c \in 0 .. MaxCalls : ch = Chan(job.key) /\ c = job.call
    BY KeyTypes DEF Typed, TypeOK
  <2>2. AskedBy(ch, {c}) BY <2>1 DEF Promises, Plain
  <2>3. AskedBy(ch, {c})' BY <1>2, <2>2
  <2> QED BY <1>3, <2>1, <2>3 DEF Plain, AskedBy, OnWire
<1>6. PlainCommands'
  <2> SUFFICES ASSUME job.pc = "plain"
               PROVE  /\ \A i \in DOMAIN wire' : wire'[i].call = job.call => wire'[i].plain
                      /\ \A i \in DOMAIN feed' : feed'[i].call = job.call /\ feed'[i].what = "error"
                                                   => feed'[i].plain
    BY <1>3 DEF PlainCommands
  <2>1. /\ \A i \in DOMAIN wire : wire[i].call = job.call => wire[i].plain
        /\ \A i \in DOMAIN feed : feed[i].call = job.call /\ feed[i].what = "error" => feed[i].plain
    BY DEF Promises, PlainCommands
  <2>2. /\ 1 \in DOMAIN wire /\ Len(feed) \in Nat
        /\ \A i \in DOMAIN wire' : i + 1 \in DOMAIN wire /\ wire'[i] = wire[i + 1]
        /\ DOMAIN feed = 1 .. Len(feed) /\ DOMAIN feed' = 1 .. Len(feed) + 1
        /\ \A i \in DOMAIN feed : feed'[i] = feed[i]
        /\ feed'[Len(feed) + 1].plain = wire[1].plain /\ feed'[Len(feed) + 1].call = wire[1].call
    BY Executed
  <2>3. \A i \in DOMAIN feed' : i \in DOMAIN feed \/ i = Len(feed) + 1 BY <2>2
  <2> QED BY <2>1, <2>2, <2>3
<1>7. Promised'
  <2> SUFFICES ASSUME NEW u \in Keys
               PROVE  /\ told'[u] = "on" => Chan(u) \in server' /\ ~OnWire(FALSE, Chan(u))'
                      /\ told'[u] = "asked" => AskedBy(Chan(u), 0 .. MaxCalls)'
                      /\ told'[u] = "off" => /\ Chan(u) \notin server' /\ ~InFeed("message", Chan(u))'
                                             /\ ~OnWire(TRUE, Chan(u))'
    BY DEF Promised
  <2> QED BY <1>1, <1>2, <1>3 DEF Promises, Promised
<1> QED BY <1>4, <1>5, <1>6, <1>7 DEF Promises

LEMMA PromisesPublish ==
  ASSUME Typed, Promises, NEW t \in Keys, Publish(t)
  PROVE  Promises'
<1>1. /\ \A o, d : OnWire(o, d)' <=> OnWire(o, d)
      /\ \A w, d : w # "message" => (InFeed(w, d)' <=> InFeed(w, d))
      /\ \A d : InFeed("message", d)' => InFeed("message", d) \/ d \in server
  BY PublishedPending
<1>2. /\ \A d, Calls : AskedBy(d, Calls) => AskedBy(d, Calls)'
      /\ \A i \in DOMAIN feed' : feed'[i].what # "message" => i \in DOMAIN feed /\ feed'[i] = feed[i]
  BY PublishedPending
<1>3. job' = job /\ told' = told /\ wire' = wire /\ server' = server BY DEF Publish, sent
<1>4. Waiting' BY <1>1, <1>3 DEF Promises, Waiting, Pending
<1>5. Plain'
  <2> SUFFICES ASSUME job.pc = "plain", job.ok PROVE Plain' BY <1>3 DEF Plain
  <2>1. PICK ch \in Channels, c \in 0 .. MaxCalls : ch = Chan(job.key) /\ c = job.call
    BY KeyTypes DEF Typed, TypeOK
  <2>2. AskedBy(ch, {c}) BY <2>1 DEF Promises, Plain
  <2>3. AskedBy(ch, {c})' BY <1>2, <2>2
  <2> QED BY <1>3, <2>1, <2>3 DEF Plain, AskedBy, OnWire
<1>6. PlainCommands'
  <2>1. ASSUME NEW i \in DOMAIN feed', feed'[i].what = "error"
        PROVE  i \in DOMAIN feed /\ feed'[i] = feed[i]
    BY <1>2, <2>1
  <2> QED BY <1>3, <2>1 DEF Promises, PlainCommands
<1>7. Promised'
  <2> SUFFICES ASSUME NEW u \in Keys
               PROVE  /\ told'[u] = "on" => Chan(u) \in server' /\ ~OnWire(FALSE, Chan(u))'
                      /\ told'[u] = "asked" => AskedBy(Chan(u), 0 .. MaxCalls)'
                      /\ told'[u] = "off" => /\ Chan(u) \notin server' /\ ~InFeed("message", Chan(u))'
                                             /\ ~OnWire(TRUE, Chan(u))'
    BY DEF Promised
  <2> QED BY <1>1, <1>2, <1>3 DEF Promises, Promised
<1> QED BY <1>4, <1>5, <1>6, <1>7 DEF Promises

LEMMA PromisesEvent ==
  ASSUME Typed, Promises, EventThread
  PROVE  Promises'
<1>1. /\ \A o, d : OnWire(o, d)' <=> OnWire(o, d)
      /\ \A w, d : InFeed(w, d)' => InFeed(w, d)
  BY HandledPending
<1>2. \A d, Calls : AskedBy(d, Calls) /\ ~(Says(feed[1], "error", d) /\ feed[1].call \in Calls)
                      => AskedBy(d, Calls)'
  BY HandledPending
<1>3. /\ feed[1] \in Event /\ Head(feed) = feed[1] /\ 1 \in DOMAIN feed /\ server' = server
      /\ \A i \in DOMAIN feed' : i + 1 \in DOMAIN feed /\ feed'[i] = feed[i + 1]
      /\ wire' = wire
  BY Handled
<1>4. job'.pc = job.pc /\ job'.key = job.key /\ job'.call = job.call /\ job'.clean = job.clean
      /\ (job'.ok => job.ok)
  <2>1. job' = job \/ job' = [job EXCEPT !.ok = FALSE]
    BY DEF EventThread, Listed, Hear, GotError
  <2> QED BY <2>1 DEF Typed, TypeOK
<1>5. Waiting' BY <1>1, <1>4 DEF Promises, Waiting, Pending
<1>6. PlainCommands' BY <1>3, <1>4 DEF Promises, PlainCommands
<1>7. Plain'
  <2> SUFFICES ASSUME job.pc = "plain", job'.ok PROVE Plain' BY <1>4 DEF Plain
  <2>1. PICK ch \in Channels, c \in 0 .. MaxCalls : ch = Chan(job.key) /\ c = job.call
    BY KeyTypes DEF Typed, TypeOK
  <2>2. AskedBy(ch, {c}) BY <1>4, <2>1 DEF Promises, Plain
  <2>3. ~(Says(feed[1], "error", ch) /\ feed[1].call \in {c})
    <3> SUFFICES ASSUME feed[1].what = "error", feed[1].call = c PROVE FALSE BY DEF Says
    <3>1. feed[1].plain BY <1>3, <2>1 DEF Promises, PlainCommands
    <3>2. GotError BY <1>3 DEF EventThread, Listed, Hear
    <3>3. job' = [job EXCEPT !.ok = FALSE] BY <1>3, <2>1, <3>1, <3>2 DEF GotError
    <3> QED BY <3>3 DEF Typed, TypeOK
  <2>4. AskedBy(ch, {c})' BY <1>2, <2>2, <2>3
  <2> QED BY <1>4, <2>1, <2>4 DEF Plain, AskedBy, OnWire
<1>8. Promised'
  <2> SUFFICES ASSUME NEW u \in Keys
               PROVE  /\ told'[u] = "on" => Chan(u) \in server' /\ ~OnWire(FALSE, Chan(u))'
                      /\ told'[u] = "asked" => AskedBy(Chan(u), 0 .. MaxCalls)'
                      /\ told'[u] = "off" => /\ Chan(u) \notin server' /\ ~InFeed("message", Chan(u))'
                                             /\ ~OnWire(TRUE, Chan(u))'
    BY DEF Promised
  <2>1. told'[u] \in {told[u], "none"} /\ (told'[u] = "asked" => ~Says(feed[1], "error", Chan(u)))
    <3>1. CASE GotError BY <1>3, <3>1 DEF GotError, Says
    <3>2. CASE ~GotError
      <4>1. told' = told /\ feed[1].what # "error"
        BY <1>3, <3>2 DEF EventThread, Listed, Hear
      <4> QED BY <4>1 DEF Says
    <3> QED BY <3>1, <3>2
  <2>2. CASE told'[u] = "asked" BY <1>2, <2>1, <2>2 DEF Promises, Promised
  <2>3. CASE told'[u] # "asked" BY <1>1, <1>3, <2>1, <2>3 DEF Promises, Promised
  <2> QED BY <2>2, <2>3
<1> QED BY <1>5, <1>6, <1>7, <1>8 DEF Promises

LEMMA PromiseInit == Init => PromiseInv
<1> SUFFICES ASSUME Init PROVE PromiseInv OBVIOUS
<1>1. Typed /\ Lag BY TypedInit, LagInit
<1>2. job.pc = "idle" /\ told = [k \in Keys |-> "none"] BY DEF Init, Idle
<1> QED BY <1>1, <1>2 DEF PromiseInv, Waiting, Plain, PlainCommands, Promised

LEMMA PromiseNext == PromiseInv /\ [Next]_vars => PromiseInv'
<1> SUFFICES ASSUME Typed, Lag, Promises, [Next]_vars PROVE Typed' /\ Lag' /\ Promises'
  BY DEF PromiseInv, Promises
<1>1. Typed' BY TypedNext
<1>2. ASSUME NEW k \in Keys, NEW plain \in BOOLEAN, Subscribe(plain, k) PROVE Lag' /\ Promises'
  <2>1. UNCHANGED <<server, known, feed>> BY <1>2 DEF Subscribe
  <2> QED BY <1>2, <2>1, PromisesSubscribe DEF Lag, Up
<1>3. ASSUME NEW k \in Keys, Unsubscribe(k) \/ UnsubscribeUnlisted(k) \/ UnsubscribePattern(k)
      PROVE  Lag' /\ Promises'
  <2>1. UNCHANGED <<server, known, feed>>
    BY <1>3 DEF Unsubscribe, UnsubscribeUnlisted, UnsubscribePattern
  <2> QED BY <1>3, <2>1, PromisesUnsubscribe DEF Lag, Up
<1>4. ASSUME NEW k \in Keys, Publish(k) PROVE Lag' /\ Promises'
  BY <1>4, LagPublish, PromisesPublish
<1>5. CASE Returns
  <2>1. UNCHANGED <<server, known, feed>>
    BY <1>5 DEF Returns, PlainReturns, ListenReturns, LeaveReturns, PatternReturns
  <2> QED BY <1>1, <1>5, <2>1, PromisesReturns DEF Lag, Up
<1>6. CASE Execute BY <1>1, <1>6, LagExecute, PromisesExecute
<1>7. CASE EventThread BY <1>1, <1>7, LagEvent, PromisesEvent
<1>8. CASE UNCHANGED vars
  <2>1. server' = server /\ known' = known /\ feed' = feed /\ wire' = wire /\ job' = job /\ told' = told
    BY <1>8 DEF vars, sent
  <2>2. Lag' BY <2>1 DEF Lag, Up
  <2>3. Waiting' /\ Plain' /\ PlainCommands'
    BY <2>1 DEF Promises, Waiting, Plain, PlainCommands, AskedBy, OnWire, InFeed, Pending
  <2>4. Promised' BY <2>1 DEF Promises, Promised, AskedBy, OnWire, InFeed
  <2> QED BY <1>1, <2>2, <2>3, <2>4 DEF Promises
<1> QED BY <1>1, <1>2, <1>3, <1>4, <1>5, <1>6, <1>7, <1>8 DEF Next

(***************************************************************************)
(* A Subscribe that looked its topic up and returned true is kept by the   *)
(* server, whatever was pending or refused before; one that did not wait   *)
(* is on its way, executed, or about to be reported as refused.            *)
(***************************************************************************)
THEOREM SubscriptionsHold == Spec => []SubscribedIsServed
<1>1. PromiseInv => SubscribedIsServed
  <2> SUFFICES ASSUME PromiseInv, NEW k \in Keys
               PROVE  /\ told[k] = "on" => Chan(k) \in server
                      /\ told[k] = "asked" => \/ Chan(k) \in server \/ OnWire(TRUE, Chan(k))
                                              \/ InFeed("error", Chan(k))
    BY DEF SubscribedIsServed
  <2>1. told[k] = "on" => Chan(k) \in server BY DEF PromiseInv, Promised
  <2>2. ASSUME told[k] = "asked"
        PROVE  Chan(k) \in server \/ OnWire(TRUE, Chan(k)) \/ InFeed("error", Chan(k))
    <3>1. AskedBy(Chan(k), 0 .. MaxCalls) BY <2>2 DEF PromiseInv, Promised
    <3>2. \A i \in DOMAIN wire : wire[i].on => wire[i].on = TRUE
      BY TypedForms DEF PromiseInv, Command
    <3> QED BY <3>1, <3>2 DEF AskedBy, OnWire, InFeed, Says
  <2> QED BY <2>1, <2>2
<1> QED BY <1>1, PromiseInit, PromiseNext, PTL DEF Spec

(***************************************************************************)
(* After an Unsubscribe from a topic that returned true no callback of the *)
(* topic runs any more: the server is done with it, and no message of it   *)
(* waits for the event thread.                                             *)
(***************************************************************************)
THEOREM LeavingIsSilent == Spec => []LeftIsSilent
<1>1. PromiseInv => LeftIsSilent BY DEF PromiseInv, Promised, LeftIsSilent
<1> QED BY <1>1, PromiseInit, PromiseNext, PTL DEF Spec
-----------------------------------------------------------------------------
(***************************************************************************)
(* The order of what a subscriber hears.                                   *)
(***************************************************************************)
LEMMA OrderPublish ==
  ASSUME OrderInv, NEW t \in Keys, Publish(t)
  PROVE  OrderInv'
<1> DEFINE n == Len(feed)
<1>1. Typed /\ Typed' BY PublishTyped DEF OrderInv
<1>2. /\ DOMAIN feed = 1 .. n /\ DOMAIN feed' = 1 .. Len(feed') /\ published' = published + 1
      /\ n \in Nat /\ Len(feed') \in Nat /\ n <= Len(feed') /\ published \in Nat
      /\ \A i \in DOMAIN feed : feed'[i] = feed[i]
      /\ \A i \in n + 1 .. Len(feed') :
           /\ feed'[i].what = "message" /\ feed'[i].chan \in server
           /\ feed'[i].id = published'
           /\ \A j \in n + 1 .. Len(feed') : i # j => feed'[i].chan # feed'[j].chan
  <2>1. published \in Nat BY <1>1, TypedForms
  <2>2. /\ DOMAIN feed = 1 .. n /\ DOMAIN feed' = 1 .. Len(feed') /\ published' = published + 1
        /\ n \in Nat /\ Len(feed') \in Nat /\ n <= Len(feed')
        /\ \A i \in DOMAIN feed : feed'[i] = feed[i]
    BY <1>1, Published
  <2>3. \A i \in n + 1 .. Len(feed') :
           /\ feed'[i].what = "message" /\ feed'[i].chan \in server
           /\ feed'[i].id = published'
           /\ \A j \in n + 1 .. Len(feed') : i # j => feed'[i].chan # feed'[j].chan
    BY <1>1, Published
  <2> QED BY <2>1, <2>2, <2>3
<1>3. got' = got BY DEF Publish
<1>4. server \subseteq Channels BY <1>1 DEF Typed
<1>5. \A i \in DOMAIN got : got[i].id \in Nat /\ got[i].id <= published
  <2>1. got \in Seq(Received) BY <1>1 DEF Typed, TypeOK
  <2>2. \A i \in DOMAIN got : got[i] \in Received BY <2>1, LenProperties, ElementOfSeq
  <2> QED BY <2>2 DEF OrderInv, Received
<1>6. \A i \in DOMAIN feed : feed[i].what = "message" => feed[i].id \in 1 .. published
  BY <1>1 DEF Typed
<1> HIDE DEF n
<1>7. \A i \in DOMAIN feed' : i \in DOMAIN feed \/ i \in n + 1 .. Len(feed') BY <1>2
<1>8. HeardInOrder' BY <1>3 DEF OrderInv, HeardInOrder
<1>9. \A i \in DOMAIN got' : got'[i].id <= published' BY <1>2, <1>3, <1>5
<1>10. ASSUME NEW i \in DOMAIN got, NEW j \in DOMAIN feed',
              feed'[j].what = "message", got[i].key = feed'[j].chan.key
       PROVE  got[i].id < feed'[j].id
  <2>1. CASE j \in DOMAIN feed BY <1>2, <1>10, <2>1 DEF OrderInv
  <2>2. CASE j \in n + 1 .. Len(feed') BY <1>2, <1>5, <2>2
  <2> QED BY <1>7, <2>1, <2>2
<1>11. ASSUME NEW i \in DOMAIN feed', NEW j \in DOMAIN feed', i < j,
              feed'[i].what = "message", feed'[j].what = "message",
              feed'[i].chan.key = feed'[j].chan.key
       PROVE  feed'[i].id < feed'[j].id
  <2>1. CASE j \in DOMAIN feed
    <3>1. i \in DOMAIN feed BY <1>2, <1>11, <2>1
    <3> QED BY <1>2, <1>11, <2>1, <3>1 DEF OrderInv
  <2>2. CASE j \in n + 1 .. Len(feed') /\ i \in DOMAIN feed BY <1>2, <1>6, <1>11, <2>2
  <2>3. CASE j \in n + 1 .. Len(feed') /\ i \in n + 1 .. Len(feed')
    <3>1. feed'[i].chan \in Channels /\ feed'[j].chan \in Channels BY <1>2, <1>4, <2>3
    <3>2. feed'[i].chan = feed'[j].chan BY <1>11, <3>1, OneChannelPerKey
    <3>3. i # j BY <1>2, <1>11
    <3> QED BY <1>2, <2>3, <3>2, <3>3
  <2> QED BY <1>7, <2>1, <2>2, <2>3
<1> QED BY <1>1, <1>3, <1>8, <1>9, <1>10, <1>11 DEF OrderInv

LEMMA OrderExecute ==
  ASSUME OrderInv, Execute
  PROVE  OrderInv'
<1>1. Typed /\ Typed' BY ExecuteTyped DEF OrderInv
<1>2. /\ DOMAIN feed = 1 .. Len(feed) /\ DOMAIN feed' = 1 .. Len(feed) + 1 /\ Len(feed) \in Nat
      /\ \A i \in DOMAIN feed : feed'[i] = feed[i]
      /\ feed'[Len(feed) + 1].what # "message"
      /\ got' = got /\ published' = published
  BY <1>1, Executed
<1>3. \A i \in DOMAIN feed' : feed'[i].what = "message" => i \in DOMAIN feed /\ feed'[i] = feed[i]
  <2>1. \A i \in DOMAIN feed' : i \in DOMAIN feed \/ i = Len(feed) + 1 BY <1>2
  <2> QED BY <1>2, <2>1
<1> QED BY <1>1, <1>2, <1>3 DEF OrderInv, HeardInOrder

LEMMA OrderEvent ==
  ASSUME OrderInv, EventThread
  PROVE  OrderInv'
<1>1. Typed /\ Typed' BY EventTyped DEF OrderInv
<1>2. /\ DOMAIN feed = 1 .. Len(feed) /\ DOMAIN feed' = 1 .. Len(feed) - 1 /\ Len(feed) \in Nat
      /\ 1 \in DOMAIN feed /\ Head(feed) = feed[1] /\ feed[1] \in Event
      /\ \A i \in DOMAIN feed' : i + 1 \in DOMAIN feed /\ feed'[i] = feed[i + 1]
      /\ published' = published
  BY <1>1, Handled DEF counters
<1>3. got \in Seq(Received) BY <1>1 DEF Typed, TypeOK
<1>4. \A i, j \in DOMAIN feed' :
        i < j /\ feed'[i].what = "message" /\ feed'[j].what = "message"
              /\ feed'[i].chan.key = feed'[j].chan.key => feed'[i].id < feed'[j].id
  BY <1>2 DEF OrderInv
<1>5. CASE Hear
  <2> DEFINE r == [key |-> feed[1].chan.key, id |-> feed[1].id]
             n == Len(got)
  <2>1. feed[1].what = "message" /\ got' = Append(got, r) BY <1>2, <1>5 DEF Hear
  <2>2. feed[1].chan \in Channel /\ feed[1].id \in 1 .. published
    BY <1>1, <1>2, <2>1 DEF Typed, Event
  <2>3. r \in Received BY <1>1, <2>2, TypedForms DEF Channel, Received
  <2>4. r.key = feed[1].chan.key /\ r.id = feed[1].id OBVIOUS
  <2> HIDE DEF r
  <2>5. /\ n \in Nat /\ DOMAIN got = 1 .. n /\ DOMAIN got' = 1 .. n + 1
        /\ got'[n + 1] = r /\ \A i \in 1 .. n : got'[i] = got[i]
    BY <1>3, <2>1, <2>3, Pushed
  <2> HIDE DEF n
  <2>6. \A i \in DOMAIN got' : (i \in DOMAIN got /\ got'[i] = got[i]) \/ (i = n + 1 /\ got'[i] = r)
    BY <2>5
  <2>7. HeardInOrder'
    <3> SUFFICES ASSUME NEW i \in DOMAIN got', NEW j \in DOMAIN got', i < j,
                        got'[i].key = got'[j].key
                 PROVE  got'[i].id < got'[j].id
      BY DEF HeardInOrder
    <3>1. i \in DOMAIN got /\ got'[i] = got[i] BY <2>5
    <3>2. CASE j \in DOMAIN got /\ got'[j] = got[j] BY <3>1, <3>2 DEF OrderInv, HeardInOrder
    <3>3. CASE j = n + 1 /\ got'[j] = r BY <1>2, <2>1, <2>4, <3>1, <3>3 DEF OrderInv
    <3> QED BY <2>6, <3>2, <3>3
  <2>8. \A i \in DOMAIN got' : got'[i].id <= published
    BY <2>2, <2>4, <2>6 DEF OrderInv
  <2>9. ASSUME NEW i \in DOMAIN got', NEW j \in DOMAIN feed',
               feed'[j].what = "message", got'[i].key = feed'[j].chan.key
        PROVE  got'[i].id < feed'[j].id
    <3>1. j + 1 \in DOMAIN feed /\ feed'[j] = feed[j + 1] BY <1>2
    <3>2. CASE i \in DOMAIN got /\ got'[i] = got[i] BY <2>9, <3>1, <3>2 DEF OrderInv
    <3>3. CASE got'[i] = r
      <4>1. 1 < j + 1 BY <1>2
      <4> QED BY <1>2, <2>1, <2>4, <2>9, <3>1, <3>3, <4>1 DEF OrderInv
    <3> QED BY <2>6, <3>2, <3>3
  <2> QED BY <1>1, <1>2, <1>4, <2>7, <2>8, <2>9 DEF OrderInv
<1>6. CASE ~Hear
  <2>1. got' = got BY <1>6 DEF EventThread, Listed, GotError
  <2> QED BY <1>1, <1>2, <1>4, <2>1 DEF OrderInv, HeardInOrder
<1> QED BY <1>5, <1>6

LEMMA OrderInit == Init => OrderInv
<1> SUFFICES ASSUME Init PROVE OrderInv OBVIOUS
<1>1. Typed BY TypedInit
<1>2. DOMAIN got = {} /\ DOMAIN feed = {} BY DEF Init
<1> QED BY <1>1, <1>2 DEF OrderInv, HeardInOrder

LEMMA OrderNext == OrderInv /\ [Next]_vars => OrderInv'
<1> SUFFICES ASSUME OrderInv, [Next]_vars PROVE OrderInv' OBVIOUS
<1>1. Typed' BY TypedNext DEF OrderInv
<1>2. CASE UNCHANGED <<feed, got, published>> BY <1>1, <1>2 DEF OrderInv, HeardInOrder
<1>3. ASSUME NEW k \in Keys, NEW plain \in BOOLEAN, Subscribe(plain, k)
      PROVE  UNCHANGED <<feed, got, published>>
  BY <1>3 DEF Subscribe, counters
<1>4. ASSUME NEW k \in Keys, Unsubscribe(k) \/ UnsubscribeUnlisted(k) \/ UnsubscribePattern(k)
      PROVE  UNCHANGED <<feed, got, published>>
  BY <1>4 DEF Unsubscribe, UnsubscribeUnlisted, UnsubscribePattern, counters
<1>5. Returns => UNCHANGED <<feed, got, published>>
  BY DEF Returns, PlainReturns, ListenReturns, LeaveReturns, PatternReturns, counters
<1>6. UNCHANGED vars => UNCHANGED <<feed, got, published>> BY DEF vars, counters
<1>7. ASSUME NEW k \in Keys, Publish(k) PROVE OrderInv' BY <1>7, OrderPublish
<1>8. CASE Execute BY <1>8, OrderExecute
<1>9. CASE EventThread BY <1>9, OrderEvent
<1> QED BY <1>2, <1>3, <1>4, <1>5, <1>6, <1>7, <1>8, <1>9 DEF Next

(***************************************************************************)
(* A subscriber of a key gets no message twice, and messages in the order  *)
(* of their publication, however often it leaves and comes back: the       *)
(* channel a key is subscribed by is one, topic or pattern.                *)
(***************************************************************************)
THEOREM HearingInOrder == Spec => []HeardInOrder
<1>1. OrderInv => HeardInOrder BY DEF OrderInv
<1> QED BY <1>1, OrderInit, OrderNext, PTL DEF Spec
=============================================================================
