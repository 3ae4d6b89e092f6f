------------------------------- MODULE MCShop -------------------------------
(* A buyer with money and one without, a package, a key that exists and one *)
(* that does not yet.                                                       *)
EXTENDS Shop, TLC

CONSTANTS u1, u2, p1, p2, k1, k2, s1, s2

Wallets == u1 :> [balance |-> 3, mode |-> "prepaid", limit |-> 0]
        @@ u2 :> [balance |-> 0, mode |-> "prepaid", limit |-> 0]
Opening == <<[user |-> u1, delta |-> 3, reason |-> "recharge", ref |-> NoRef,
              channel |-> "dashboard", after |-> 3]>>

Month    == [price |-> 2, amount |-> 2, days |-> 2]
Lifetime == [price |-> 1, amount |-> 1, days |-> -1]
ShopRefs == {"order"} \X Packages

Catalogue == p1 :> [at |-> "stored", row |-> Month] @@ p2 :> [at |-> "unborn", row |-> Lifetime]
Ending == k1 :> [at |-> "stored", owner |-> u1, pkg |-> None, status |-> "active",
                 quota |-> [amount |-> 1, expires |-> 1]]
       @@ k2 :> [at |-> "unborn", owner |-> u1, pkg |-> None, status |-> "active",
                 quota |-> NoQuota]

Rows   == {Month, Lifetime}
Inputs   == {[add |-> -2, days |-> 0, set |-> 0], [add |-> 0, days |-> 1, set |-> 0]}
Interchangeable == Permutations(Slots)
Switches == {[amount |-> 3, end |-> -1]}
=============================================================================
