---------------------------- MODULE QuotaAccount ----------------------------
(***************************************************************************)
(* What hold, settle and release promise of a key's quota, each of them    *)
(* indivisible: an amount is reserved within what was sold, part of it is  *)
(* given back, never more than is still held, and then the reservation is  *)
(* closed, once, keeping the rest.  Spending without a reservation also    *)
(* stays within what was sold.  A new period, or the administrator, starts *)
(* the account again; what a reservation of before gives back then is      *)
(* given back as far as anything is committed.                             *)
(***************************************************************************)
EXTENDS Integers

CONSTANTS Keys, Requests, KeyOf, Limit   \* Limit[k]: what the key was sold

VARIABLES committed,   \* units reserved or gone for good, per key
          held,        \* units a reservation may still give back, per request
          state        \* "none", "open" or "closed", per request

vars == <<committed, held, state>>

Init ==
  /\ committed = [k \in Keys |-> 0]
  /\ held = [r \in Requests |-> 0]
  /\ state = [r \in Requests |-> "none"]

Within(k, n) == committed[k] + n <= Limit[k]

Reserve(r, n) ==
  /\ state[r] = "none" /\ Within(KeyOf[r], n)
  /\ state' = [state EXCEPT ![r] = "open"]
  /\ held' = [held EXCEPT ![r] = n]
  /\ committed' = [committed EXCEPT ![KeyOf[r]] = @ + n]

Return(r, n) ==
  /\ state[r] = "open" /\ n <= held[r]
  /\ held' = [held EXCEPT ![r] = @ - n]
  /\ committed' = [committed EXCEPT ![KeyOf[r]] = IF @ >= n THEN @ - n ELSE @]
  /\ UNCHANGED state

Close(r) ==
  /\ state[r] = "open"
  /\ state' = [state EXCEPT ![r] = "closed"]
  /\ held' = [held EXCEPT ![r] = 0]
  /\ UNCHANGED committed

Spend(k, n) ==
  /\ Within(k, n)
  /\ committed' = [committed EXCEPT ![k] = @ + n]
  /\ UNCHANGED <<held, state>>

Restart(k) ==
  /\ committed' = [committed EXCEPT ![k] = 0]
  /\ UNCHANGED <<held, state>>

Next ==
  \/ \E r \in Requests : \E n \in 0..Limit[KeyOf[r]] : Reserve(r, n) \/ Return(r, n)
  \/ \E r \in Requests : Close(r)
  \/ \E k \in Keys : Restart(k) \/ \E n \in 0..Limit[k] : Spend(k, n)

Spec == Init /\ [][Next]_vars
=============================================================================
