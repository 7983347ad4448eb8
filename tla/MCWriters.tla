----------------------------- MODULE MCWriters -----------------------------
(* Two clients that write the same records: m, n, and q that is a root.    *)
EXTENDS RedisDataManagerWriters, MCConfig

MCUpdateKey == {MF, NF, Q}
MCDeleteKey == {}
MCDocument  == {MDoc(1), RDoc(1) \o QDoc(1)}
MCSeed      == <<>>
MCValue     == {1}
=============================================================================
