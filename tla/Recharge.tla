------------------------------ MODULE Recharge ------------------------------
(***************************************************************************)
(* The ways money enters a wallet, next to the ways it leaves: the admin   *)
(* route (mgmtRecharge), the telegram store's webhook                      *)
(* (handleWebhookRecharge), the administrator changing wallet_mode and     *)
(* credit_limit (mgmtUpdateUser, one UPDATE per column), and the moves the *)
(* other components make.  The telegram bot is outside the code: it keeps  *)
(* delivering a transaction until it has seen an answer, and an answer may *)
(* be lost on the way back.                                                *)
(***************************************************************************)
EXTENDS Wallet

CONSTANTS Txs,          \* transaction ids of the telegram store
          Deposit,      \* [Txs -> user and amount of the transaction]
          Amounts,      \* amounts moved by the other callers (positive)
          Limits,       \* values the administrator gives credit_limit
          MaxRows       \* bound on the ledger, so that the state space is finite

ASSUME RechargeAssumption ==
  /\ Txs \subseteq Refs
  /\ Deposit \in [Txs -> [user : Users, amount : Int]]
  /\ Amounts \subseteq Nat \ {0}
  /\ Limits \subseteq Int
  /\ MaxRows \in Nat

VARIABLE seen           \* what the bot has been answered for each transaction

vars == <<users, ledger, seen>>

Answers == {"none", "ok", "error"}

Init == WalletInit /\ seen = [t \in Txs |-> "none"]

Room == Len(ledger) < MaxRows

-----------------------------------------------------------------------------

\* Faulty variant: a replay is answered as if it had been credited.
HandleWebhookLenient(t) ==
  LET d     == Deposit[t]
      reply == AdjustReply(d.user, d.amount, t, "telegram")
  IN
  /\ Room /\ seen[t] # "ok"
  /\ IF reply = "ok" THEN AdjustBalance(d.user, d.amount, "recharge", t, "telegram")
                     ELSE UNCHANGED walletVars
  /\ seen' = [seen EXCEPT ![t] = "ok"]

\* The webhook: amount > 0 or 400; the answer is 200 only when AdjustBalance
\* committed.  The bot receives the answer or loses it.
HandleWebhookRecharge(t) ==
  LET d     == Deposit[t]
      reply == AdjustReply(d.user, d.amount, t, "telegram")
      good  == d.amount > 0 /\ reply = "ok"
  IN
  /\ Room /\ seen[t] # "ok"
  /\ IF good THEN AdjustBalance(d.user, d.amount, "recharge", t, "telegram")
             ELSE UNCHANGED walletVars
  /\ \/ seen' = [seen EXCEPT ![t] = IF good THEN "ok" ELSE "error"]
     \/ UNCHANGED seen

\* mgmtRecharge: a signed amount, any reference, the dashboard channel unless
\* the administrator names another one.  A refused move changes nothing.
MgmtRecharge(u, amount, ref, channel) ==
  /\ Room /\ amount # 0
  /\ AdjustBalance(u, amount, "recharge", ref, channel)
  /\ UNCHANGED seen

\* Moves made by package sales, holds and usage (delta <= 0; a free package
\* moves 0) and by refunds and referral rewards (delta > 0).
Debit(u, amount, reason) ==
  /\ Room
  /\ AdjustBalance(u, -amount, reason, NoRef, "system")
  /\ UNCHANGED seen

Credit(u, amount, reason) ==
  /\ Room
  /\ AdjustBalance(u, amount, reason, NoRef, "system")
  /\ UNCHANGED seen

SetMode(u, mode)   == UpdateMode(u, mode) /\ UNCHANGED seen
SetLimit(u, limit) == UpdateLimit(u, limit) /\ UNCHANGED seen

Next ==
  \/ \E t \in Txs : HandleWebhookRecharge(t)
  \/ \E u \in Users, a \in Amounts, sign \in {1, -1}, r \in Txs \cup {NoRef},
        c \in {"dashboard", "telegram"} : MgmtRecharge(u, sign * a, r, c)
  \/ \E u \in Users, a \in Amounts \cup {0} : Debit(u, a, "purchase")
  \/ \E u \in Users, a \in Amounts, reason \in {"refund", "referral_bonus"} :
       Credit(u, a, reason)
  \/ \E u \in Users, m \in Modes : SetMode(u, m)
  \/ \E u \in Users, l \in Limits : SetLimit(u, l)

Spec == Init /\ [][Next]_vars

-----------------------------------------------------------------------------

\* Shapes of the three tables this module moves.
TypeOK == WalletTypeOK /\ seen \in [Txs -> Answers]

\* A transaction the bot saw accepted is in the ledger, for its user and its
\* amount: an answer of 200 is never given for money that was not credited,
\* and a replay by another route cannot pre-empt it silently.
AcceptedMeansCredited ==
  \A t \in Txs : seen[t] = "ok" =>
    \E i \in DOMAIN ledger :
      /\ ledger[i].ref = t /\ ledger[i].channel = "telegram"
      /\ ledger[i].user = Deposit[t].user /\ ledger[i].delta = Deposit[t].amount

\* No step takes a wallet below the floor in force when it is taken.
FloorHolds == [][DebitsRespectFloor]_vars
=============================================================================
