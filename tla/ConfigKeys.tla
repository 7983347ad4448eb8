----------------------------- MODULE ConfigKeys -----------------------------
(***************************************************************************)
(* Hierarchical keys of the configuration.  The code writes a key as its   *)
(* names joined by ':' and splits it at the last ':' (find_last_of); here  *)
(* a key is the sequence of its names.  Names hold no ':', no '*' and no   *)
(* blank: those would be read by the code or by Redis as syntax.           *)
(***************************************************************************)
EXTENDS Naturals, Sequences, SequencesExt

CONSTANTS
  Name,   \* the names between the colons
  Key     \* the keys in use, each with all of its ancestors

(***************************************************************************)
(* key.substr(0, found) and key.substr(found + 1).  For a key without ':'  *)
(* found is npos, and both are the key itself: a root is its own parent    *)
(* and its own base.                                                       *)
(***************************************************************************)
IsRoot(k) == Len(k) = 1
Parent(k) == IF IsRoot(k) THEN k ELSE Front(k)
Base(k)   == Last(k)

\* What the pattern "<k>:*" matches: the keys strictly below k.
Below(k) == {c \in Key : IsStrictPrefix(k, c)}

\* The key of field or member n of k.
Child(k, n) == Append(k, n)

\* Where a document (a sequence of members) has field f of key k.  If it names the
\* member twice, the first one counts: the second is found to be there.
Leaves(d, k, f) == {i \in 1 .. Len(d) : ~d[i].object /\ d[i].at = k /\ d[i].name = f}

ASSUME KeyAssumption ==
  /\ Key \subseteq Seq(Name) \ {<<>>}
  /\ \A k \in Key : Parent(k) \in Key
=============================================================================
