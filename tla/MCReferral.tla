----------------------------- MODULE MCReferral -----------------------------
(* Three users, so that chains have two tiers; one bot transaction; an     *)
(* amount of 2 that earns 2 and 1.                                         *)
EXTENDS Referral, TLC

CONSTANTS u1, u2, u3, t1, s1, s2

MCDeposit == t1 :> [user |-> u1, amount |-> 2]
MCTiers   == <<100, 50>>
MCLimits  == {1}
MCUpline  == u1 :> NoUser @@ u2 :> u1 @@ u3 :> NoUser
Interchangeable == Permutations(Slots)
=============================================================================
