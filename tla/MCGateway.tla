----------------------------- MODULE MCGateway ------------------------------
(* One key with two bound accounts, one of them by two references, and two *)
(* host threads.                                                           *)
EXTENDS Gateway, TLC

CONSTANTS k1, a1, a2, full, s1, s2, r1, r2, r3, r4

On(a, share) == [account |-> a, share |-> share, enabled |-> TRUE]
Off(a)       == [account |-> a, share |-> 1, enabled |-> FALSE]
Halves   == [k \in Keys |-> <<Off(full), On(a1, 1), On(a2, 0)>>]
Lists    == {<<On(full, 1), On(a2, 0), On(a1, 0)>>}
Offers   == {<<a1, a2>>, <<a2, a1>>}
SameId   == {<<a1, a1>>, <<a2, a2>>, <<a2, full>>}
TheKey   == [r \in Requests |-> k1]
SomeRPM  == {0, 1, 2}
Interchangeable == Permutations(Slots) \cup Permutations(Requests)
=============================================================================
