------------------------------- MODULE MCPortal -------------------------------
(* Portal on a small instance: a name that is another one with a Telegram   *)
(* id appended can be registered too.                                       *)
EXTENDS Portal, TLC
CONSTANTS ann, t1, t2

MCNames == {ann, <<ann, t1>>}
MCTelegrams == {t1, t2}
Interchangeable == Permutations(Slots) \cup Permutations(Ids)
=============================================================================
