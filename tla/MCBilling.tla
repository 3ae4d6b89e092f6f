----------------------------- MODULE MCBilling ------------------------------
(* One account u1 with up to two keys and three client requests.           *)
EXTENDS BillingAccounts, TLC

CONSTANTS u1, k1, k2, r1, r2, r3, s1, s2

Row(balance) == [balance |-> balance, mode |-> "prepaid", limit |-> 0]
Opening(amount) ==
  <<[user |-> u1, delta |-> amount, reason |-> "recharge", ref |-> NoRef,
     channel |-> "dashboard", after |-> amount]>>

Users3 == u1 :> Row(3)    Ledger3 == Opening(3)
Users6 == u1 :> Row(6)    Ledger6 == Opening(6)
UsersCredit  == u1 :> [balance |-> 4, mode |-> "postpaid", limit |-> 2]
LedgerCredit == Opening(4)

BillingRefs == Tags \X (Requests \cup {NoReq})
TheOwner    == [k \in Keys |-> u1]
OneKey      == [r \in Requests |-> k1]
TwoKeys     == r1 :> k1 @@ r2 :> k2
TwoAndOne   == r1 :> k1 @@ r2 :> k1 @@ r3 :> k2

Sold(kind, amount, overflow) ==
  [kind |-> kind, windowed |-> FALSE, amount |-> amount, overflow |-> overflow]
Windowed(kind, amount, overflow) ==
  [Sold(kind, amount, overflow) EXCEPT !.windowed = TRUE]

AmpleQuotas      == k1 :> Sold("token", 20, FALSE) @@ k2 :> Sold("request", 9, FALSE)
TightAndWallet   == k1 :> Sold("credit", 3, TRUE) @@ k2 :> Sold("credit", 0, TRUE)
TightAndFree     == k1 :> Windowed("credit", 3, TRUE) @@ k2 :> Sold("unlimited", 0, FALSE)
TightTokens      == k1 :> Sold("token", 3, FALSE)

None  == [tokens |-> 0, cost |-> 0]
Small == [tokens |-> 1, cost |-> 1]
Large == [tokens |-> 4, cost |-> 5]
AllUses  == {None, Small, Large}
PaidAndFree == {None, Large}
SmallAndLarge == {Small, Large}
=============================================================================
