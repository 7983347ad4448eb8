------------------------------- MODULE MCSolo -------------------------------
(* One client, a command of which may fail: the calls in any sequence,     *)
(* with an inner key t between s and another record, so that s has         *)
(* grandchildren, and with a root q that is a record.                      *)
EXTENDS RedisDataManagerRefinement, MCConfig

T  == <<"r", "s", "t">>
TM == <<"r", "s", "t", "m">>

SoloNames == Names \cup {"t"}
SoloKeys  == Keys \cup {T, TM}

TDoc(v) == <<Obj(R, "s"), Obj(S, "t"), Obj(T, "m"), Leaf(TM, "f", v)>>

MCUpdateKey == {MF, NF, QF, Q}
MCDeleteKey == {R, S, T, M, N, MF, Q}
MCDocument  == {MDoc(2) \o <<Leaf(M, "f", 1)>>, TDoc(1) \o NDoc(1) \o QDoc(1)}
MCSeed      == NDoc(1)
MCValue     == {1, 2}
=============================================================================
