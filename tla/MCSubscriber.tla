---------------------------- MODULE MCSubscriber ----------------------------
(* Topic a, the patterns a*, a** and *, and *a, whose star comes first.    *)
EXTENDS Subscriber

a == <<"a">>
SubKeys  == {a, <<"a", "*">>, <<"a", "*", "*">>, <<"*">>, <<"*", "a">>}
SubHears == {<<k, a>> : k \in SubKeys}
=============================================================================
