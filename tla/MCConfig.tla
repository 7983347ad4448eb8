------------------------------ MODULE MCConfig ------------------------------
(***************************************************************************)
(* The small configurations the runs use: root r holds the inner key s and *)
(* the record n, s holds the record m, and root q is itself a record; f is *)
(* a field of each record.                                                 *)
(***************************************************************************)
EXTENDS Sequences, Naturals

Names == {"r", "s", "m", "n", "q", "f"}

R  == <<"r">>
S  == <<"r", "s">>
M  == <<"r", "s", "m">>
N  == <<"r", "n">>
MF == <<"r", "s", "m", "f">>
NF == <<"r", "n", "f">>
Q  == <<"q">>
QF == <<"q", "f">>

Objects == {R, S}
Records == {M, N, Q}
FieldKeys == {MF, NF, QF}
Keys    == Objects \cup Records \cup FieldKeys

Obj(k, n)     == [at |-> k, name |-> n, object |-> TRUE, value |-> 1]
Leaf(k, n, v) == [at |-> k, name |-> n, object |-> FALSE, value |-> v]

\* {"r": {"s": {"m": {"f": v}}}} and {"r": {"n": {"f": v}}}
MDoc(v) == <<Obj(R, "s"), Obj(S, "m"), Leaf(M, "f", v)>>
NDoc(v) == <<Obj(R, "n"), Leaf(N, "f", v)>>
RDoc(v) == MDoc(v) \o NDoc(v)

\* {"q": {"f": v}}
QDoc(v) == <<Leaf(Q, "f", v)>>
=============================================================================
