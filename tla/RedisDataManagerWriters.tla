---------------------- MODULE RedisDataManagerWriters ----------------------
(***************************************************************************)
(* Clients that only write: any number of them call Update and AddConfig,  *)
(* nobody deletes, and Redis answers every command.                        *)
(***************************************************************************)
EXTENDS RedisDataManagerSchema

ASSUME WritersAssumption == MaxFaults = 0

\* No member of a document is an empty object.
ASSUME FilledAssumption == \A d \in Document \cup {Seed} : \A i \in ToSet(d) :
  i.object => \E j \in ToSet(d) : j.at = Child(i.at, i.name)

WriteStep(c) == \E r \in Reply : Writing(c, r)
WritersNext  == \E c \in Client : Update(c) \/ AddConfig(c) \/ WriteStep(c)
WritersSpec  == Init /\ [][WritersNext]_vars
WritersFairSpec == WritersSpec /\ \A c \in Client : WF_vars(WriteStep(c))

\* A client is on its way to list k.
Climbing(c, k) == \/ At(c, "climb_sadd") /\ job[c].at = k
                  \/ At(c, "climb_keys") /\ Parent(job[c].at) = k

(***************************************************************************)
(* Update stores the field first and lists the keys above it one by one.   *)
(* A key can be unlisted only where an UpdateParent stands just below it,  *)
(* however many clients write: no other client's Update or AddConfig may   *)
(* rely on a key that nobody is going to list.                             *)
(***************************************************************************)
OnlyClimbersUnlisted == \A k \in Key : Unlisted(k) => \E c \in Client : Climbing(c, k)

\* So every stored key is listed in the end, whoever stored it.
EventuallyListed == \A k \in Key : Unlisted(k) ~> ~Unlisted(k)

\* A name that a list shows a reader and behind which there is nothing yet.
Hollow(k) == ~IsRoot(k) /\ Base(k) \in set[Parent(k)] /\ ~Stored(k)

(***************************************************************************)
(* AddConfig lists a name first and stores what is below it afterwards.    *)
(* While clients only write, a name without content is one that a client   *)
(* has still to fill: an AddConfig that finds the name listed by another   *)
(* does not take its content for stored, and Update, which stores first,   *)
(* never lists a name in vain.                                             *)
(***************************************************************************)
OnlySubmittedHollow == \A k \in Key : Hollow(k) =>
  \E c \in Client : InCall(c) /\ \E i \in ToSet(job[c].todo) : i.at = k
=============================================================================
