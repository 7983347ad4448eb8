# A verification development for ConfigurationService

ConfigurationService keeps instrument configurations in a Redis server. A
process reads and writes them through a `ConfigurationManager`, which forwards
to a data manager (keys and values) and a communicator (messages that tell
subscribers what changed). This directory holds TLA+ models of that code, the
TLC configurations that check them and TLAPS proofs about them. File names
below are relative to `src/client/` unless they start with `src/`.

## 1. The system

| Component | State | Operations | Interacts with |
|---|---|---|---|
| `RedisDataManager`, writing (`redis_configuration.cc` 15-317, `basic_data.hpp`) | none of its own but the connection; the configuration is in Redis: a set of names per inner key, a hash of fields per record | `AddConfig`, `Update`, `Delete`, `Clear` | Redis, one synchronous command at a time; inserts messages into the communicator's `updates` |
| `RedisDataManager`, reading | none | `Query`, `Dump` | Redis; other clients write meanwhile |
| `RedisCommunicator` (`redis_configuration.cc` 322-482, `basic_communicator.hpp`) | the multimap `updates`, `keep_counting`, an auto-notification thread, two connections | `Publish`, `Notify`, `Subscribe`, `Unsubscribe`, `ListTopics`, destructor | Redis PUB/SUB, callbacks of the application |
| `ConfigurationManager` (`configuration.hpp`) | owns one of each; lends `updates` to the data manager | forwards every call | both |
| `ZmqCommunicator` (`zmq_configuration.*`) | `updates`, `keep_listening`, a listener thread and its future, a PUB and a SUB socket | `Publish`, `Notify`, `Subscribe`, `Unsubscribe`, `Disconnect`, destructor | the forwarder |
| forwarder (`src/python/configuration_forwarder.py`) | none | passes messages on | all 0MQ processes |
| `Service` (`Service.cc`) | none | a command line over `ConfigurationManager` | the user |
| Redis, redox, 0MQ, rapidjson | external | | |

What is hard in this code, and therefore what the models are about:

* A call is a chain of Redis commands without a transaction. Clients in other
  processes interleave between any two of them (`Update` of a new field is at
  least five commands, `Delete` of an inner key ten or more), and a `Query` is
  put together from three.
* A command may fail, or be executed and its answer lost. The code mostly
  ignores this: a failed `KEYS` counts as "no such key", a failed `SCARD`
  leaves `nelem` uninitialised (lines 136 and 165), a failed `DEL` of a child
  is forgotten (148).
* A process can be killed between two commands, and nothing but a later call
  repairs what its call left behind.
* The recursion over keys relies on how `find_last_of` treats a key without
  `:`: a root is its own parent and its own name.
* `updates` is used by the main thread and the auto-notification thread without
  a lock, and messages are stored before the change they tell of.
* The 0MQ listener blocks in `recv` without a timeout while other threads wait
  for it, and `Notify` sends one prepared message again and again.

What makes each component correct:

* `RedisDataManager`: to one client, each call looks like one atomic change of
  fields, until a command fails; every stored key can be reached from a root; an
  entry keeps its kind, so that Redis refuses a command only where a root that
  holds fields is deleted; calls end; a call stores the messages it owes; what
  is broken off is repaired by later calls; what a `Query` returns was true at
  one moment.
* `RedisCommunicator`: as long as no two accesses to the store overlap and only
  one thread notifies at a time, messages of a topic leave once and in order
  and a true `Notify` has sent what was stored (two overlapping `Notify` calls
  send the same messages twice: `clashed` excludes them); the store stays within its limit and does
  not keep messages for ever, the destructor returns.
  `Subscribe` and `Unsubscribe` tell the truth despite their 10 ms wait, and
  what is published to a confirmed subscriber is heard, once and in order.
* Both together: a listener that queries on a message ends up with the stored
  value.
* `ZmqCommunicator`: nothing is heard twice or outside the filters; shutting
  down leaves at most one callback to come.

## 2. Modules

| Module | Models |
|---|---|
| `ConfigKeys` | keys as sequences of names, `Parent` and `Base` as the code computes them, `Below` for the pattern `key:*` |
| `RedisDataManager` | Redis and any number of clients; the core |
| `RedisDataManagerSchema` | the assumption that clients agree which keys hold keys and which hold fields, and `RefusedOnlyAtRootRecord` |
| `RedisDataManagerReader` | one more process that reads while the clients write |
| `RedisDataManagerWriters` | clients that only `Update` and `AddConfig` |
| `ConfigStore` | abstract: what a data manager promises its only client |
| `RedisDataManagerRefinement` | one client, a history variable, the refinement of `ConfigStore`, and what later calls repair |
| `MessageStore` | the multimap of messages and a loop over it, for both communicators |
| `Communicator` | the message store and the threads of one process |
| `Subscriber` | the subscriber side of one process, and PUB/SUB of the server |
| `ConfigurationService` | `Communicator` composed with a data manager that changes fields and a listener that queries them |
| `ZmqCommunicator` | the communicator over 0MQ, its listener thread, the forwarder |
| `RedisDataManager_proof`, `RedisDataManagerWriters_proof`, `RedisDataManagerReader_proof`, `RedisDataManagerRefinement_proof` | theorems about the data manager |
| `MessageStore_proof`, `ConfigurationService_proof` (with `Communicator`), `Subscriber_proof`, `ZmqCommunicator_proof` | theorems about messages |
| `MCConfig`, `MCClients`, `MCSolo`, `MCWriters`, `MCCommunicator`, `MCSubscriber`, `MCService`, `MCZmq` | small instances for TLC |

### RedisDataManager and the code

`set` and `hash` are the two kinds of entries in Redis. Redis removes a set or
hash that gets empty, so an empty one is an absent one, and refuses a command
for the other kind (`SetFits`, `HashFits`). `job[c]` is where client `c` stands
in its call: `pc` names the Redis command it sends next, `at` is the argument
of the innermost `UpdateParent` or `RemoveKey`, `stack` holds the `RemoveKey`
calls that wait for a nested one with their `is_ok`, `todo` the members
`json_scan` has not visited, `kids` the children `RemoveChildren` has not
deleted. Each command is one action; the local code after it, up to the next
command, belongs to the action:

| Call | Actions, in the order of the commands |
|---|---|
| `Update` (new field) | `UpdKeys`, `UpdHexists`, `AddHset`, then per level `ClimbSadd`, `ClimbKeys` |
| `Update` (existing) | `UpdKeys`, (`UpdHexists`,) `ValHset` |
| `Delete` (key) | `DelKeys`, `RmType`, (`RmScard`, `RmKids`, `RmKid` per child,) `RmSrem`, `RmCard`, (nested from `RmType`,) `RmDel` |
| `Delete` (field) | `DelKeys`, `DelIsHash`, `DelHexists`, `DelHdel` |
| `AddConfig` | per member `AddProbe`, `AddWrite` |
| `Clear` | `Clear` sends FLUSHALL and does not wait; `FlushAll` is the server |

`Writing` and `Removing` collect the commands of the calls that store and of
those that delete. `Outcome` gives what a command can come to: executed and
answered; refused; and, as a fault, not executed, or executed with the answer
lost. `Kill` ends a process in the middle of a call. `updates[c]` is the set of
messages the current or last call has stored; a new call begins with none, so
that a message of an earlier call stands for none of this one.

`RedisDataManagerSchema` restricts the clients, not the code: they agree which
keys hold keys (`Object`) and which hold fields (`Record`), so that no `Update`
sets a field of an inner key and no document puts fields beside inner keys.
Below a record there are only fields. A root may be either: `Update` of `q:f`, or
the document `{"q": {"f": v}}`, makes the root `q` a record. `Delete` of such a
root is where Redis does refuse commands: the root is its own parent, `SREM` and
`SCARD` meet a hash, `nelem` stays uninitialised, and the call returns false
although it has deleted the record. The proofs about the data manager but
`TypeCorrect` assume the restriction, and the instances of the runs keep to it.
A client that breaks it has its `HSET` or `SADD` refused; nothing is claimed of
that case.

Decisions a reader should know:

* An insert into `updates` that precedes a command is part of the step of the
  command before it: the message is there before the change is.
* Commands of one connection are executed in order, so a client whose FLUSHALL
  is pending gets no answer to a further command and starts no call.
* The `KEYS` and `TYPE` calls of `Delete` that are only printed (lines 41 and
  46 of `basic_data.hpp`) change nothing and are left out.
* The uninitialised `nelem` is a free choice between zero and not zero.
* A process that nests more than `MaxStack` `RemoveKey` calls is `crashed`.
* Names contain no `:`, `*` or blank; documents are valid, and hold no value
  directly at the top (rapidjson would assert). `updates` is a set here: how
  often and in which order messages are stored is the subject of
  `Communicator`.

### RedisDataManagerReader and the code

`reader` is a process in `ReturnValue` (lines 229-258): `ReadKeys` is the
`KEYS` of `KeyExists`, then either `ReadParent` and `ReadField` (`TYPE` of the
parent, `HGET`) or `ReadType` and `ReadMembers` or `ReadFields` (`TYPE`,
`SMEMBERS`, `HKEYS`). `Dump` is `DumpKeys` and then the same for each key it
found, in any order. A failed command counts as a missing key or an empty list,
as it does in the code. `seen` is a history variable: what the key held at any
moment of the call. Entries of type string, which no call creates, are left
out.

### Communicator and the code

`updates` is the multimap in its order (topic, then insertion; `MessageStore`).
Threads `main` (`Insert` .. `Size` for `Publish` and for the data manager's
inserts, `ForceNotify`, `Destroy`, `Join`) and `auto` (`Loop`, `Wake`) share
`Begin`, `Send`, `Advance`, `Empty`, the steps of `Notify`. The missing lock
shows as `Overlap` (two accesses, one of them a write) and `Dangle` (a loop
whose element another `clear` freed): both make `torn` true, after which
nothing is claimed. The counters `total_num_messages` and
`total_recv_messages`, which only tests read, are left out.

### Subscriber and the code

A call sends a command (`wire`), sleeps, and returns what it finds: the sleep
is a state in which anything may happen, because nothing ties 10 ms to the
server's answer. `server` and `known` are the channels the server holds and the
client lists; `feed` is the connection back, on which answers and messages keep
their order. `Subscribe(plain, k)` is the form without callbacks (`plain`) or
with them; `UnsubscribeUnlisted` and `UnsubscribePattern` are the branch for
patterns, with the string arithmetic of lines 441-448 on short sequences of
characters, since what goes wrong there is in the cutting.

`told` is what a reader of the results may believe: `on` and `off` after a
`Subscribe` to, or an `Unsubscribe` from, a topic that looked the topic up and
returned true; `asked` after a `Subscribe` that returned true without an answer
(patterns, and the plain form). A result is not believed when an opposite
command of before was still unanswered (`clean`): then the list is stale, and
the code cannot know. `wild` is the error callback of the plain form writing to
a local of a call that is over; nothing is claimed of the process after that.
The model takes from redox that a topic is listed when its confirmation is
handled, and from Redis that a connection's commands are executed in order.

### ConfigurationService and the code

The module extends `Communicator`: its threads and their steps are those of
that module, and `Follow` says what a step of theirs means to the rest. The
topics in `Field` are keys of fields, the others bare names; `value` is what
Redis holds of a field, with a number that tells its changes apart, `seen` what
the listener last queried. The data manager calls on the main thread: `Update`
inserts its message (lines 121 and 195) and only then sends the `Hset` (the
`SADD`s of a new field and their messages of the parents, 201-216, are left out:
no property here is about them),
`Delete` of a field (181-188) sends the `HDEL` and, when it was answered,
inserts a message under the bare name (line 47 of `basic_data.hpp` passes no
more), `AddConfig` sends an `HSET` and inserts nothing. `React` is the
listener: a callback that queries the field the message names, in the order
messages were sent (how they travel is the subject of `Subscriber`, how keys
are found that of the modules above). A bare name is no key, so a query of it
shows nothing. Each command may fail, or lose its answer.

`missed` is a history variable, and the promise of the code stated from its
other side: the fields whose last change no message may have told in time. A
message that leaves while the `HSET` of its field is still to come, a message
cleared unsent, `Delete` of the field, and `AddConfig` put a field in it; a
later message of the field takes it out again. For every other change the
listener has to end up with the stored value.

### ZmqCommunicator and the code

`main` is the thread that calls, `listener` the thread the constructor starts.
`Send` is one iteration of the loop of `Notify` (lines 71-81): 0MQ empties a
message when it sends it, and the code prepares one for the whole loop, so all
but the first leave as `Blank` until a send fails. `Leave` and `Get` are
`Disconnect` and the destructor: they clear `keep_listening` and wait for the
future of the listener; a second `get` throws, which in the destructor ends the
process (`terminated`). `Loop` and `Recv` are the listener. `Link`, `Learn`,
`Forward` and `Traffic` are the network: the connection of the PUB socket, the
subscriptions on their way to the forwarder, the forwarder itself, and messages
of other processes. `subscriptions` is never filled, so `Subscribe` always sets
the filter and `Unsubscribe` never does anything. A subscription set while the
listener blocks on the same socket is undefined in 0MQ; the model takes it to
work, and takes texts to be short enough to fit in an emptied message.

## 3. What is checked

| Run | Instance | States | Shows |
|---|---|---|---|
| `clients` | two clients, two calls of any kind, one read, one fault | 798,594 | `TypeOK`; `RefusedOnlyAtRootRecord`: whatever the other client did since the last command, the next one meets an entry of its kind, but in a `Delete` of a root that holds fields; `AnswersWereTrue`: an answer of `Query` or `Dump` is what the key held at one moment of the call |
| `solo` | one client, four calls, one fault or kill | 343,011 | until the fault: `ImplementsConfigStore` (refinement), `StoredKeysAreListed`; of each call that gets its answers, also after the fault: `DeepOnlyAtEmptyRoot`, `UpdatesAreNotified`, `DeleteIsComplete`, `AddedIsReachable`; of every call: `CallsEnd` |
| `writers` | two clients, three calls that do not delete | 10,867 | `OnlyClimbersUnlisted`, `OnlySubmittedHollow`, `EventuallyListed`: concurrent writers leave no key unlisted and no name empty |
| `communicator` | two topics, three messages, a limit of one, one failed PUBLISH | 264,538 | `TypeOK`, `OnceAndInOrder`, `TrueMeansSent`, `PublishBounds`, `ShutdownEnds`, `NothingStaysStored` |
| `subscriber` | a topic and four patterns, three calls, two messages, one refused command | 486,587 | `TypeOK`, `SubscribedIsServed`, `LeftIsSilent`, `HeardInOrder`, `OwedIsHeard` |
| `service` | two fields and a bare name between them, two changes, two messages, a limit of one, one fault | 204,644 | `ListenerCatchesUp`, `ChangesAreSeen` |
| `zmq` | two topics, two messages here or elsewhere, a limit of one, one fault | 166,004 | `HeardOnce`, `OneLateCallback`, `FirstIsHeard`, `MessageReleases` |

Five runs show where the code departs from what its documentation or comments
say; `PROJECT.json` quotes the sentences.

| Run | The code |
|---|---|
| `partial` | `AddConfig` of a document of which a field is there stores the others, where `README.md` 13-15 says it does not submit |
| `overflow` | `RemoveKey` of an emptied root calls itself without end |
| `dangling` | deleting the last field of a record leaves the record's name in the list above |
| `unsubscribe` | `Unsubscribe` of a pattern looks up another name and sends nothing |
| `sends_all` | a message stored while `Notify` runs is cleared unsent |

More that the models show, without a run of its own:

* `AddConfig` tests and writes member by member: one that returns false has
  submitted a part. It returns false also where nothing was there (line 288
  sets `is_ok` to false before a successful `HSET`), and the result of a nested
  `json_scan_impl` is thrown away (284), so true does not mean complete.
* Between the `HEXISTS` and the `HSET` of `AddConfig` another client's value
  can be stored; it is overwritten.
* A failed `KEYS` ends the climb of `UpdateParent`, and `Update` returns true.
  An `Update` of the field that is now there takes the branch that lists
  nothing, so only an `Update` of another new field, or an `AddConfig`, repairs
  the list (this is why `AddedIsReachable` speaks of new fields).
* `AddConfig` announces nothing, `Delete` of a field announces the bare name of
  the field without its key, and `Delete` of a key that holds fields announces
  that key and not its fields. A listener on the key of a field keeps the old
  value, although `README.md` 76-77 says that any update is notified.
  `UpdatesAreNotified` states what the code does announce.
* `Update` of a root stores a field of the root's own name in the root, and
  refuses every further one (192); a `Query` of the root then lists that name,
  or, where its `KEYS` came before the `Update`, returns the value. `Delete` of a root that holds
  fields deletes it and returns false.
* After an `SCARD` of 0, `RemoveKey` of the parent deletes whatever is below it by
  then: what another client has stored there meanwhile, with a true result, is
  gone, although only a sibling was to be deleted (139).
* Over 0MQ every message of a `Notify` but the first leaves empty; `Disconnect`
  and the destructor wait until a message arrives; a destructor after a
  `Disconnect` terminates the process; and the default ports of the
  communicator (it publishes to 5555 and subscribes at 5554) are crosswise to
  those of the forwarder (which receives at 5554 and sends at 5555).

**Bounds.** Keys have up to four names (root, inner key, record, field), with a
record at two depths and a root that is itself a record, and five names in the
instance of `solo`, where an inner key has grandchildren: every branch of the
climb and of `RemoveKey` (root, one level, two levels; a parent that gets empty
and one that does not) occurs. The instance of `clients` is one record below one
root and one root that is a record, so that two clients, a fault and a reader
fit: the hazards there are about one key that comes, goes and comes again
between the commands of three processes, in both kinds of entry. Its clients
are symmetric. `MaxOps` bounds the calls: two for
two clients lets every pair of calls interleave at every command, four for one
client lets a key be created, emptied, removed and created again, or a call
break off and three others follow. One fault is enough to fail any command
of any call at any point, or to lose its answer. `MaxStack` 5 is more than
the nested calls a chain of keys needs, so only endless nesting reaches it;
`overflow` uses twice the levels. In `communicator` three messages are a store
over its limit with one in front of and one behind the loop. In `subscriber`
three calls are what it takes to meet a stale list (subscribe, leave, subscribe
again), two messages what it takes to lose or swap one, and the patterns reach
each branch of `Unsubscribe`: not listed, listed with the star behind, and in
front. In `service` two changes are a field changed twice or two fields, each
with its message early, late or cleared. In `zmq` two messages are a `Notify`
whose second one leaves empty, or one of this and one of another process.
Deadlock is not checked because the bounded calls run out and a process may
stop for good (destructor, `crashed`, `torn`, `terminated`).

**Fairness.** A client's next step is weakly fair in the runs that ask
whether calls end (`SoloFairSpec`, `WritersFairSpec`): a thread in a call waits
for nothing but Redis, whose client either gets an answer or an error, and a
FLUSHALL that was sent is executed or fails. In `Communicator`
both threads are weakly fair (sleeps end, Redis answers), but `Insert`,
`ForceNotify` and `Destroy` are not: no application has to call anything. In
`ConfigurationService` the same two threads, the answer to an `HSET` and the
listener's handling of a message are; calls are not. In
`Subscriber` the end of a sleep, the server and the event thread are weakly
fair; calls and messages of others are not. In `ZmqCommunicator` the threads
run and the network transports, but nobody has to call or to send: that is why
a waiting `Disconnect` is only promised to end once a message is there.

**Refinement.** `ConfigStore` changes `conf` in one step per call. The
refinement mapping shows the fields as they were before the call (`before`)
until the call returns, and then the fields that are stored; `intact` is
`faults = 0`. The first failed command ends the promise for good: without
`intact` the abstract store may do anything. Its calls are what the code keeps of
its documentation, which is not all: `AddConfig` adds what is new even where
something is there (see `partial`), and may report false although nothing was
there (line 288). `Delete` may return anything when there was no field to delete
(an inner key without fields is deleted all the same), and returns false at a
root that holds fields. `Update` of a root sets one field and no further one.

**Recovery.** What remains after a failed command, a lost answer or a kill is
stated, in the same run, of the calls that come after: a `Delete` that finds its
key and gets its answers removes everything below it and the name above it,
what `Update` of a new field and `AddConfig` store can be reached from the root,
and the messages a call owes are stored. All are about the code not taking a
part that is there for the whole.

## 4. What is proved

The proofs hold for any set of clients, any keys, documents, topics, messages
and bounds that satisfy the named assumptions of the modules. Each theorem is
`Spec => []P` for a property `P` that a run checks, or the refinement, by an
inductive invariant that is stronger than `P`:

| Theorem | Property | The invariant, and why it is needed |
|---|---|---|
| `RedisDataManager_proof!TypeCorrect` | `TypeOK` | `TypeInv` adds `HasArguments`: a step that takes the parent of `key`, or the head of `todo`, needs it to be there |
| `RedisDataManager_proof!CommandsFit` | `RefusedOnlyAtRootRecord` | `SchemaInv`: every stored entry is of the kind the schema gives its key (`StoreConforms`), and every call, at every step, holds keys of the schema, down to the waiting `RemoveKey` frames and the members `AddConfig` has still to visit (`JobsConform`) |
| `RedisDataManagerWriters_proof!WritersListAll` | `OnlyClimbersUnlisted` | `WritersInv`: what a client relies on at its next command (`Ready`) is true and stays true while others write: the key it is about to list is stored, the parent it found is still there, and of a document the names in front of the rest are listed (`Submitting`) |
| `RedisDataManagerWriters_proof!WritersFillAll` | `OnlySubmittedHollow` | the same invariant |
| `RedisDataManagerReader_proof!AnswersTrue` | `AnswersWereTrue` | `ReaderInv`: while `ReturnValue` asks, what the key holds now is among what it held during the call (`Watching`), and each branch it has taken follows from the kind the schema gives the key and not from what the key held when it was asked (`Branched`) |
| `RedisDataManagerRefinement_proof!DeletesWhole` | `DeleteIsComplete` | `SoloInv`: for each command of a call that got its answers so far, what the call found and what it has done (`CallStands`), whatever earlier calls left behind. Of `RemoveKey`: that nothing is stored below the key once the children are deleted, and that the nested calls climb from the key over emptied parents (`StackStands`), so that none puts anything back |
| `RedisDataManagerRefinement_proof!AddsReachable` | `AddedIsReachable` | the same invariant: the climb has listed each level below the one it is at (`ListedBelow`), and what `AddConfig` has visited is there and stays there (`Submitted`) |
| `RedisDataManagerRefinement_proof!NestingBounded` | `DeepOnlyAtEmptyRoot` | the same invariant: a frame on the stack is one level up, or a root (`Nested`) |
| `RedisDataManagerRefinement_proof!KeysListed` | `StoredKeysAreListed` | `CleanInv`, which adds to `SoloInv` what holds where nothing has failed at all: at most the key a climb, `RemoveChildren` or a cut `RemoveKey` is at is stored and not listed (`MayBeUnlisted`), and so whatever lies below a stored key hangs from it by a chain of lists |
| `RedisDataManagerRefinement_proof!ChangesNotified` | `UpdatesAreNotified` | `TellInv`, which adds to `SoloInv` what the call in progress has told so far: that of `Update` its field and each list it has climbed past, that of `RemoveKey` each key that is gone and each list that has shrunk, but for the emptied parent before its `SCARD` (`Telling`, `GoneTold`, `GrownTold`) |
| `RedisDataManagerRefinement_proof!StoreImplemented` | `ImplementsConfigStore` | the same invariant: when a call returns, all fields are what one call of the abstract store makes of those it found, and the result is one that it allows (`Fulfilled`); for `AddConfig` that no member of a root it put there had fields below (`FirstHere`) |
| `ConfigurationService_proof!TypeCorrect` | `TypeOK` | `TypeInv`: a thread about to insert has a message left, one that sends has a message, and numbers are given out in order |
| `ConfigurationService_proof!OrderKept` | `OnceAndInOrder` | `SentInv`: only one thread notifies, and what is stored and not yet passed by the loop is newer than all that was sent of its topic |
| `ConfigurationService_proof!TrueNotifyIsComplete` | `TrueMeansSent` | `SentInv`: what was stored when the loop began is still stored, and sent or ahead of the loop while the result is true |
| `ConfigurationService_proof!PublishKeepsLimit` | `PublishBounds` | `TypeInv` is enough |
| `ConfigurationService_proof!ListenerIsRight` | `ListenerCatchesUp` | `ServiceInv`: what the listener does not know yet it will be told, by a stored message newer than all of its field that were sent, or by one that was sent and is not yet handled |
| `Subscriber_proof!SubscriberTypes` | `TypeOK` | a call that waits has the channel it waits for |
| `Subscriber_proof!SubscriptionsHold` | `SubscribedIsServed` | the client's list differs from what the server holds by the commands on the wire and the answers in the feed; for each waiting call it says what can still be found there |
| `Subscriber_proof!LeavingIsSilent` | `LeftIsSilent` | the same, and that behind the answer to an unsubscription no message of the channel is in the feed |
| `Subscriber_proof!HearingInOrder` | `HeardInOrder` | what was heard, what is in the feed and what is still to be published have growing numbers |
| `ZmqCommunicator_proof!NothingHeardTwice` | `HeardOnce` | `HeardInv`: wire, inbox and what was heard are without repetitions and disjoint, the stored messages not yet passed by the loop are on none of them, and filters are only added |
| `ZmqCommunicator_proof!ListenerStops` | `OneLateCallback` | `LateInv`: after the one late callback the listener is not in `recv` again, and a future is spent only by a `get` that found the listener ended |

The assumptions are properties of the inputs, not of the code: `KeyAssumption`
and `CommandAssumption` (keys are what names make, commands name keys),
`DocumentAssumption` (`json_scan` visits a member before what is below it),
`SchemaAssumption` (clients agree which keys hold keys and which hold fields;
a root may be either), `OneClient` where one is meant, `ReaderAssumption`,
`SubscriberAssumption`, `StoreAssumption`, `CommunicatorAssumption`,
`ZmqAssumption`, `ServiceAssumption` (types of bounds; keys of fields are
topics), and for the writers `WritersAssumption` (no faults) and `FilledAssumption` (no empty objects
in documents: Redis keeps no empty set, so their names are listed and never
filled). TLC evaluates all of them.

The service theorem rests on the invariant of the communicator: a message that
is overtaken or skipped by the loop is told apart from one that is not by the
numbers of the messages of its topic.

What a failed command spoils is part of the properties and not of the theorems.
`DeepOnlyAtEmptyRoot` is about a `Delete` that got its answers so far: once a
command of it has failed, `nelem` may be read uninitialised, and `RemoveKey` may
climb from a parent that is not empty. `StoredKeysAreListed` and the refinement
end with the first failed command (`faults = 0`, `intact`); TLC finds both broken
where they do not. `UpdatesAreNotified`, `DeleteIsComplete` and `AddedIsReachable`
are about each call that got its answers, whatever failed before it.

The refinement goes by initial states (what `json_scan` made of the seed is
`Merge` of it into nothing) and steps: the beginning of a call, each of its
commands but the last and the call of `Clear` are stutters of the abstract store,
the command with which a call returns is its `Update`, `Delete` or `AddConfig`,
the FLUSHALL its `Clear`, and a step that fails a command or follows one is the
end of the promise.

Only model-checked: all liveness, which is out of the prover's reach and stays
with TLC.

## 5. Not modelled, and what is left

* **Connections.** Constructors, `Disconnect`, `Reconnect` (which nothing
  calls) and `TryConnect` depend on when and on which thread redox runs its
  status callbacks, and on what its `disconnect` waits for. redox is not part
  of the repository, so a model would be of a guess.
* **`ListTopics`** changes nothing and inserts a range between iterators of two
  different sets, which is undefined whenever it is called.
* **In the composition** only calls that change a field take part; `Delete` of
  a whole key, `Clear` and `Subscribe` are in the modules of the parts.
* **For good:** the command line and `daemon.cc` (no state), the mock
  classes, `dummy.cc` (an earlier experiment that no build target names), the
  Python binding, deployment scripts, sample data, and the generated HTML
  documentation with its scripts. redox, hiredis, 0MQ, rapidjson and Redis are
  external and modelled only through what this code uses of them.
