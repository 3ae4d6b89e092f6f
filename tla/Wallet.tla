------------------------------- MODULE Wallet -------------------------------
(***************************************************************************)
(* The wallet of internal/store: the balance columns of the users table,   *)
(* the credit_ledger table and AdjustBalance, the one operation that moves *)
(* money.  AdjustBalance is a single immediate transaction, so it is one   *)
(* step here; CanSpend is a separate, earlier read.  The components that   *)
(* spend and refund (Recharge, Billing, Issue) extend this module.         *)
(***************************************************************************)
EXTENDS Integers, Sequences

CONSTANTS Users,      \* ids of the users table
          Refs,       \* ref_id values a caller may write into the ledger
          NoRef       \* NULL in the ref_id column

ASSUME NoRefAssumption == NoRef \notin Refs

VARIABLES users,      \* the wallet columns of the users table
          ledger      \* the rows of credit_ledger, in insertion order

walletVars == <<users, ledger>>

Modes    == {"prepaid", "postpaid"}
Channels == {"dashboard", "telegram", "portal", "system"}
Reasons  == {"recharge", "usage", "purchase", "renew", "refund", "overflow",
             "referral_bonus", "adjust", "hold"}

\* credit_limit is whatever integer the administrator typed: it may be negative.
WalletRow == [balance : Int, mode : Modes, limit : Int]
LedgerRow == [user : Users, delta : Int, reason : Reasons,
              ref : Refs \cup {NoRef}, channel : Channels, after : Int]

WalletInit ==
  /\ users = [u \in Users |-> [balance |-> 0, mode |-> "prepaid", limit |-> 0]]
  /\ ledger = <<>>

-----------------------------------------------------------------------------

\* The lowest balance a debit may leave behind.
Floor(w) == IF w.mode = "postpaid" THEN -w.limit ELSE 0

CanSpend(w, cost) == w.balance - cost >= Floor(w)

\* The partial unique index idx_ledger_tx: only telegram rows that carry a ref.
Replayed(ref, channel) ==
  /\ channel = "telegram" /\ ref # NoRef
  /\ \E i \in DOMAIN ledger :
        ledger[i].channel = "telegram" /\ ledger[i].ref = ref

\* Faulty variants: the floor is not compared; the unique index is missing.
ReplyWithoutFloor(u, delta, ref, channel) ==
  IF Replayed(ref, channel) THEN "duplicate" ELSE "ok"
ReplyWithoutIndex(u, delta, ref, channel) ==
  IF delta < 0 /\ users[u].balance + delta < Floor(users[u]) THEN "insufficient"
  ELSE "ok"

\* What AdjustBalance answers; everything but "ok" has rolled back.
AdjustReply(u, delta, ref, channel) ==
  IF delta < 0 /\ users[u].balance + delta < Floor(users[u]) THEN "insufficient"
  ELSE IF Replayed(ref, channel) THEN "duplicate"
  ELSE "ok"

\* Faulty variant: balance_after is the balance that was read.
AdjustBalanceStale(u, delta, reason, ref, channel) ==
  /\ AdjustReply(u, delta, ref, channel) = "ok"
  /\ users' = [users EXCEPT ![u].balance = @ + delta]
  /\ ledger' = Append(ledger, [user |-> u, delta |-> delta, reason |-> reason,
                               ref |-> ref, channel |-> channel,
                               after |-> users[u].balance])

\* The committed transaction: the balance and its ledger row change together.
AdjustBalance(u, delta, reason, ref, channel) ==
  LET next == users[u].balance + delta IN
  /\ AdjustReply(u, delta, ref, channel) = "ok"
  /\ users' = [users EXCEPT ![u].balance = next]
  /\ ledger' = Append(ledger, [user |-> u, delta |-> delta, reason |-> reason,
                               ref |-> ref, channel |-> channel,
                               after |-> next])

\* mgmtUpdateUser writes the columns the request names, one UPDATE each.
UpdateMode(u, mode) ==
  /\ users' = [users EXCEPT ![u].mode = mode]
  /\ UNCHANGED ledger

UpdateLimit(u, limit) ==
  /\ users' = [users EXCEPT ![u].limit = limit]
  /\ UNCHANGED ledger

-----------------------------------------------------------------------------

WalletTypeOK ==
  /\ users \in [Users -> WalletRow]
  /\ ledger \in Seq(LedgerRow)

\* The rows of one user, and the row of that user that precedes position i.
RowsOf(u)       == {i \in DOMAIN ledger : ledger[i].user = u}
Precedes(j, i)  == /\ j \in RowsOf(ledger[i].user) /\ j < i
                   /\ \A m \in RowsOf(ledger[i].user) : m < i => m <= j
IsFirst(i)      == \A j \in RowsOf(ledger[i].user) : j >= i
IsLast(i)       == \A j \in RowsOf(ledger[i].user) : j <= i

\* The ledger explains every balance: each row continues from the row of the
\* same user before it, the first one from zero, and the last one names the
\* balance the users table holds ("every movement, independently auditable").
LedgerExplainsBalance ==
  /\ \A i \in DOMAIN ledger :
       /\ IsFirst(i) => ledger[i].after = ledger[i].delta
       /\ \A j \in DOMAIN ledger :
            Precedes(j, i) => ledger[i].after = ledger[j].after + ledger[i].delta
       /\ IsLast(i) => users[ledger[i].user].balance = ledger[i].after
  /\ \A u \in Users : RowsOf(u) = {} => users[u].balance = 0

\* One telegram transaction id is credited once, whatever route or user it
\* is replayed with.
TelegramRefOnce ==
  \A i, j \in DOMAIN ledger :
    /\ ledger[i].channel = "telegram" /\ ledger[j].channel = "telegram"
    /\ ledger[i].ref # NoRef /\ ledger[i].ref = ledger[j].ref
    => i = j

\* A step that takes money out leaves the wallet on or above the floor in
\* force, even after the administrator lowered the limit below the debt.
DebitsRespectFloor ==
  \A u \in Users :
    users'[u].balance < users[u].balance =>
      users'[u].balance >= Floor(users[u])
=============================================================================
