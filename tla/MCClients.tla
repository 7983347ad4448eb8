----------------------------- MODULE MCClients -----------------------------
(* Two clients that change, submit and delete the record n below root r    *)
(* and the root q that is a record, and a process that reads, while a      *)
(* command fails or a client dies.                                         *)
EXTENDS RedisDataManagerReader, MCConfig

ClientKeys  == {R, N, NF, Q, QF}
MCObject    == {R}
MCRecord    == {N, Q}
MCUpdateKey == {NF, Q}
MCDeleteKey == {R, N, NF, Q}
MCDocument  == {NDoc(2)}
MCSeed      == NDoc(1)
MCValue     == {1, 2}
MCQueryKey  == {N, NF, Q}
Symmetry    == Permutations(Client)
=============================================================================
