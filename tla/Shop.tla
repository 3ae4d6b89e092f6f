-------------------------------- MODULE Shop --------------------------------
(***************************************************************************)
(* Packages, the keys they become and the orders that say so: the portal's *)
(* BuyPackage (internal/issue), the admin routes that renew, switch,       *)
(* transfer, create and delete keys and edit the catalogue                 *)
(* (internal/plugin/management.go, mgmt_extra.go), and the status write of *)
(* handleAuthenticate, which shares the key row with them.                 *)
(*                                                                         *)
(* BuyPackage commits statement by statement, so a call is a process in a  *)
(* slot: pc names its next statement.  A slot is an HTTP handler of the    *)
(* portal or a plugin call of the host.  A day is a tick of the clock.     *)
(* A key row keeps what is sold, its amount and its expiry; quota_used and *)
(* quota_kind belong to Billing.                                           *)
(***************************************************************************)
EXTENDS Wallet, FiniteSets

CONSTANTS
  Packages, Keys, None,        \* ids, never used again after a DELETE; NULL
  Slots,
  PackageRows,                 \* rows the admin may write: price, amount, days
  AdminInputs,                 \* renewals the admin may ask for: add, days, set
  SwitchInputs,                \* switches: amount, end; 0 keeps the old value
  DefaultAmount,               \* mgmtCreateKey's amount when none is given
  StartUsers, StartLedger,     \* the wallets as recharges left them
  StartPackages, StartKeys,    \* the catalogue and the keys at the start
  KeyWriters,                  \* bound: calls on the quota of one key at once
  MaxRows,                     \* bound: orders and history rows
  MaxEdits,                    \* bound: one-statement calls of the admin
  MaxFaults,                   \* bound: database errors and crashes
  MaxTime                      \* bound: the clock

Row      == [price : Nat, amount : Nat, days : Int]
Quota    == [amount : Nat, expires : Int]       \* expires -1: never
Statuses == {"active", "disabled", "banned", "expired", "exhausted"}
Stages   == {"unborn", "stored", "deleted"}

PackageState == [at : Stages, row : Row]
KeyState     == [at : Stages, owner : Users, pkg : Packages \cup {None},
                 status : Statuses, quota : Quota]

ASSUME ShopAssumption ==
  /\ None \notin Keys \cup Users \cup Packages /\ IsFiniteSet(Slots)
  /\ {"order"} \X Packages \subseteq Refs
  /\ PackageRows \subseteq Row /\ SwitchInputs \subseteq [amount : Nat, end : Int]
  /\ AdminInputs \subseteq [add : Int, days : Nat, set : Int]
  /\ DefaultAmount \in Nat
  /\ StartPackages \in [Packages -> PackageState]
  /\ StartKeys \in [Keys -> KeyState]
  /\ \A k \in Keys : StartKeys[k].at = "stored" /\ StartKeys[k].pkg # None =>
                       StartPackages[StartKeys[k].pkg].at = "stored"
  /\ MaxEdits \in Nat /\ MaxFaults \in Nat

VARIABLES
  pkgs,      \* packages
  keys,      \* keys
  orders,    \* orders, in insertion order
  history,   \* key_quota_history of each key, in insertion order
  call,      \* what each slot is executing
  edits,     \* one-statement calls of the admin so far
  faults,    \* database errors and crashes so far
  now

tables == <<pkgs, keys, orders, history>>
bounds == <<edits, faults, now>>
vars   == <<users, ledger, tables, call, bounds>>

NoQuota == [amount |-> 0, expires |-> 0]

\* act: "buy", "renew" (bought or by the admin), "switch" or "expire".
Idle == [pc |-> "idle", act |-> "buy", user |-> None, pkg |-> None,
         row |-> [price |-> 0, amount |-> 0, days |-> 0], key |-> None,
         paidAt |-> 0, old |-> NoQuota, new |-> NoQuota]

BuyPcs == {"buy_owner", "buy_debit", "buy_read", "buy_insert", "order"}
KeyPcs == {"write", "trace", "expire"}

Init ==
  /\ users = StartUsers /\ ledger = StartLedger
  /\ WalletTypeOK /\ LedgerExplainsBalance /\ TelegramRefOnce
  /\ pkgs = StartPackages /\ keys = StartKeys
  /\ orders = <<>> /\ history = [k \in Keys |-> <<>>]
  /\ call = [s \in Slots |-> Idle]
  /\ edits = 0 /\ faults = 0 /\ now = 1

-----------------------------------------------------------------------------

Stored(row) == row.at = "stored"

\* Slot s continues as c.
Set(s, c) == call' = [call EXCEPT ![s] = c]

Busy       == {s \in Slots : call[s].pc # "idle"}
Writers(k) == {s \in Busy : call[s].key = k /\ call[s].act # "expire"}

HistoryRows == UNION {{k} \X DOMAIN history[k] : k \in Keys}

\* Slot s may take a call that will write at most one order and one history row.
Free(s) ==
  /\ call[s].pc = "idle"
  /\ Len(orders) + Cardinality(HistoryRows) + 2 * Cardinality(Busy) < MaxRows

\* A quota write of key k may begin.
FreeFor(s, k) == Free(s) /\ Cardinality(Writers(k)) < KeyWriters

\* What ByID returns for the key: a missing row reads as zeros.
QuotaRead(k) == IF Stored(keys[k]) THEN keys[k].quota ELSE NoQuota

\* A one-statement call of the admin.
Edit == edits < MaxEdits /\ edits' = edits + 1 /\ UNCHANGED <<faults, now>>

\* The INSERT of a key: active, with nothing used.
NewKey(owner, pkg, amount, expires) ==
  [at |-> "stored", owner |-> owner, pkg |-> pkg, status |-> "active",
   quota |-> [amount |-> amount, expires |-> expires]]

Fresh(days, from) == IF days > 0 THEN from + days ELSE -1

-----------------------------------------------------------------------------
(* BuyPackage.                                                             *)

\* The package row is read; a renewal names a key.
BuyBegin(s, u, p, k) ==
  /\ IF k = None THEN Free(s) ELSE FreeFor(s, k)
  /\ Stored(pkgs[p])
  /\ Set(s, [Idle EXCEPT !.pc = IF k = None THEN "buy_debit" ELSE "buy_owner",
                         !.act = IF k = None THEN "buy" ELSE "renew",
                         !.user = u, !.pkg = p, !.row = pkgs[p].row, !.key = k])
  /\ UNCHANGED <<walletVars, tables, bounds>>

\* The key must exist and belong to the buyer.
BuyOwner(s) ==
  LET c == call[s] IN
  /\ c.pc = "buy_owner"
  /\ Set(s, IF Stored(keys[c.key]) /\ keys[c.key].owner = c.user
              THEN [c EXCEPT !.pc = "buy_debit"] ELSE Idle)
  /\ UNCHANGED <<walletVars, tables, bounds>>

AfterDebit(c) ==
  [c EXCEPT !.pc = IF c.act = "buy" THEN "buy_insert" ELSE "buy_read", !.paidAt = now]

\* Faulty variant: the error of AdjustBalance is not returned.
BuyDebitLenient(s) ==
  LET c == call[s] IN
  /\ c.pc = "buy_debit"
  /\ \/ AdjustBalance(c.user, -c.row.price, "purchase", <<"order", c.pkg>>, "portal")
     \/ /\ AdjustReply(c.user, -c.row.price, <<"order", c.pkg>>, "portal") # "ok"
        /\ UNCHANGED walletVars
  /\ Set(s, AfterDebit(c))
  /\ UNCHANGED <<tables, bounds>>

\* The wallet pays first; when it refuses nothing has happened.
BuyDebit(s) ==
  LET c == call[s] IN
  /\ c.pc = "buy_debit"
  /\ \/ /\ AdjustBalance(c.user, -c.row.price, "purchase", <<"order", c.pkg>>, "portal")
        /\ Set(s, AfterDebit(c))
     \/ /\ AdjustReply(c.user, -c.row.price, <<"order", c.pkg>>, "portal") # "ok"
        /\ UNCHANGED walletVars
        /\ Set(s, Idle)
  /\ UNCHANGED <<tables, bounds>>

\* Faulty variant: what was left of the old period is dropped.
RenewedFromNow(row, q, paidAt) == Fresh(row.days, paidAt)

\* A limited package appended to a key still running adds its days to the end;
\* otherwise it counts from the payment.
RenewedExpiry(row, q, paidAt) ==
  IF row.days > 0 /\ q.expires > now THEN q.expires + row.days
  ELSE Fresh(row.days, paidAt)

\* Renewal: the key is read a second time, the error ignored.
BuyRead(s) ==
  LET c == call[s]
      q == QuotaRead(c.key)
  IN
  /\ c.pc = "buy_read"
  /\ Set(s, [c EXCEPT !.pc = "write", !.old = q,
                      !.new = [amount  |-> q.amount + c.row.amount,
                               expires |-> RenewedExpiry(c.row, q, c.paidAt)]])
  /\ UNCHANGED <<walletVars, tables, bounds>>

\* New key: the INSERT needs its package (package_id REFERENCES packages).
BuyInsert(s) ==
  LET c == call[s] IN
  /\ c.pc = "buy_insert"
  /\ \/ \E k \in Keys :
          /\ Stored(pkgs[c.pkg]) /\ keys[k].at = "unborn"
          /\ keys' = [keys EXCEPT ![k] =
               NewKey(c.user, c.pkg, c.row.amount, Fresh(c.row.days, c.paidAt))]
          /\ Set(s, [c EXCEPT !.pc = "order", !.key = k])
     \/ ~Stored(pkgs[c.pkg]) /\ Set(s, Idle) /\ UNCHANGED keys
  /\ UNCHANGED <<walletVars, pkgs, orders, history, bounds>>

NewOrder(c) == [user |-> c.user, pkg |-> c.pkg, key |-> c.key, kind |-> c.act,
                price |-> c.row.price]

\* The order needs its package and its key.
Order(s) ==
  LET c == call[s] IN
  /\ c.pc = "order"
  /\ orders' = IF Stored(pkgs[c.pkg]) /\ Stored(keys[c.key])
                 THEN Append(orders, NewOrder(c)) ELSE orders
  /\ Set(s, Idle)
  /\ UNCHANGED <<walletVars, pkgs, keys, history, bounds>>

-----------------------------------------------------------------------------
(* The admin's renewals and switches: read, UPDATE, trace.                 *)

\* The row is read; q is what it will be replaced by.
ChangeBegin(s, k, act, q) ==
  /\ FreeFor(s, k) /\ Stored(keys[k])
  /\ Set(s, [Idle EXCEPT !.pc = "write", !.act = act, !.key = k,
                         !.old = keys[k].quota, !.new = q])
  /\ UNCHANGED <<walletVars, tables, bounds>>

\* mgmtRenewKey: an absolute date, or days on top of what is left.
MgmtRenewKey(s, k, in) ==
  LET q    == keys[k].quota
      base == IF q.expires < now THEN now ELSE q.expires
      end  == CASE in.set # 0 -> in.set
                [] in.set = 0 /\ in.days > 0 -> base + in.days
                [] OTHER -> q.expires
  IN ChangeBegin(s, k, "renew", [amount |-> q.amount + in.add, expires |-> end])

MgmtSwitchQuota(s, k, in) ==
  LET q == keys[k].quota IN
  ChangeBegin(s, k, "switch", [amount  |-> IF in.amount = 0 THEN q.amount ELSE in.amount,
                               expires |-> IF in.end = 0 THEN q.expires ELSE in.end])

\* Faulty variant: the table without its CHECK constraint.
AcceptsAny(q) == TRUE

\* CHECK (quota_amount >= 0).
Accepts(q) == q.amount >= 0

\* The UPDATE.  A row that has gone is no error; a renewal reactivates the key.
Write(s) ==
  LET c == call[s]
      k == c.key
  IN
  /\ c.pc = "write"
  /\ \/ /\ Stored(keys[k]) /\ Accepts(c.new)
        /\ keys' = [keys EXCEPT ![k].quota = c.new,
                     ![k].status = IF c.act = "renew" THEN "active" ELSE @]
        /\ Set(s, [c EXCEPT !.pc = "trace"])
     \/ ~Stored(keys[k]) /\ Set(s, [c EXCEPT !.pc = "trace"]) /\ UNCHANGED keys
     \/ Stored(keys[k]) /\ ~Accepts(c.new) /\ Set(s, Idle) /\ UNCHANGED keys
  /\ UNCHANGED <<walletVars, pkgs, orders, history, bounds>>

\* A purchase goes on to its order, an admin call is over.
AfterTrace(c) == IF c.user = None THEN Idle ELSE [c EXCEPT !.pc = "order"]

\* Faulty variant: the row after the change is written twice.
TraceAfterOnly(c) == [act |-> c.act, user |-> c.user, paidAt |-> c.paidAt,
                      old |-> c.new, new |-> c.new]

\* The time of the payment is not in the table; it is kept for RenewalKeepsRest.
TraceRow(c) == [act |-> c.act, user |-> c.user, paidAt |-> c.paidAt,
                old |-> c.old, new |-> c.new]

\* quotaHistory; its error (the key is gone) is ignored.
Trace(s) ==
  LET c == call[s] IN
  /\ c.pc = "trace"
  /\ history' = IF Stored(keys[c.key])
                  THEN [history EXCEPT ![c.key] = Append(@, TraceRow(c))] ELSE history
  /\ Set(s, AfterTrace(c))
  /\ UNCHANGED <<walletVars, pkgs, keys, orders, bounds>>

-----------------------------------------------------------------------------
(* Other writers of the key row.                                           *)

\* handleAuthenticate finds the key active and past its end ...
ExpireRead(s, k) ==
  /\ Free(s) /\ Stored(keys[k]) /\ keys[k].status = "active"
  /\ keys[k].quota.expires > 0 /\ now > keys[k].quota.expires
  /\ Set(s, [Idle EXCEPT !.pc = "expire", !.act = "expire", !.key = k])
  /\ UNCHANGED <<walletVars, tables, bounds>>

\* ... and writes the status, whatever happened to the row in between.
ExpireWrite(s) ==
  LET k == call[s].key IN
  /\ call[s].pc = "expire"
  /\ keys' = IF Stored(keys[k]) THEN [keys EXCEPT ![k].status = "expired"] ELSE keys
  /\ Set(s, Idle)
  /\ UNCHANGED <<walletVars, pkgs, orders, history, bounds>>

\* mgmtCreateKey, with the quota of a package or one the admin typed.
MgmtCreateKey(k, u, p, row) ==
  /\ Edit
  /\ keys[k].at = "unborn"
  /\ p # None => Stored(pkgs[p]) /\ row = pkgs[p].row
  /\ keys' = [keys EXCEPT ![k] =
       NewKey(u, p, IF row.amount = 0 THEN DefaultAmount ELSE row.amount,
              Fresh(row.days, now))]
  /\ UNCHANGED <<walletVars, pkgs, orders, history, call>>

\* mgmtUpdateKey with a new owner.
Transfer(k, u) ==
  /\ Edit
  /\ Stored(keys[k]) /\ keys[k].owner # u
  /\ keys' = [keys EXCEPT ![k].owner = u]
  /\ UNCHANGED <<walletVars, pkgs, orders, history, call>>

\* Faulty variant: foreign keys are not enforced.
KeyFreeAny(k) == TRUE

\* No order names the key: orders.key_id REFERENCES keys, without a cascade.
KeyFree(k) == \A i \in DOMAIN orders : orders[i].key # k

\* The history of the key goes with it (ON DELETE CASCADE).
DeleteKey(k) ==
  /\ Edit
  /\ Stored(keys[k]) /\ KeyFree(k)
  /\ keys' = [keys EXCEPT ![k].at = "deleted"]
  /\ history' = [history EXCEPT ![k] = <<>>]
  /\ UNCHANGED <<walletVars, pkgs, orders, call>>

-----------------------------------------------------------------------------
(* The catalogue.                                                          *)

CreatePackage(p, row) ==
  /\ Edit
  /\ pkgs[p].at = "unborn" /\ row.amount > 0
  /\ pkgs' = [pkgs EXCEPT ![p] = [at |-> "stored", row |-> row]]
  /\ UNCHANGED <<walletVars, keys, orders, history, call>>

UpdatePackage(p, row) ==
  /\ Edit
  /\ Stored(pkgs[p]) /\ pkgs[p].row # row
  /\ pkgs' = [pkgs EXCEPT ![p].row = row]
  /\ UNCHANGED <<walletVars, keys, orders, history, call>>

\* Refused while a key or an order refers to the package.
DeletePackage(p) ==
  /\ Edit
  /\ Stored(pkgs[p])
  /\ \A k \in Keys : Stored(keys[k]) => keys[k].pkg # p
  /\ \A i \in DOMAIN orders : orders[i].pkg # p
  /\ pkgs' = [pkgs EXCEPT ![p].at = "deleted"]
  /\ UNCHANGED <<walletVars, keys, orders, history, call>>

-----------------------------------------------------------------------------
(* What goes wrong around them.                                            *)

\* The next statement of a call fails: the call returns the error, except that
\* a failed trace is ignored.
Fail(s) ==
  /\ call[s].pc # "idle" /\ faults < MaxFaults /\ faults' = faults + 1
  /\ Set(s, IF call[s].pc = "trace" THEN AfterTrace(call[s]) ELSE Idle)
  /\ UNCHANGED <<walletVars, tables, edits, now>>

\* Portal and plugin live in the host's process.
Crash ==
  /\ Busy # {} /\ faults < MaxFaults /\ faults' = faults + 1
  /\ call' = [s \in Slots |-> Idle]
  /\ UNCHANGED <<walletVars, tables, edits, now>>

Tick ==
  /\ now < MaxTime /\ now' = now + 1
  /\ UNCHANGED <<walletVars, tables, call, edits, faults>>

-----------------------------------------------------------------------------

Step(s) ==
  \/ BuyOwner(s) \/ BuyDebit(s) \/ BuyRead(s) \/ BuyInsert(s) \/ Order(s)
  \/ Write(s) \/ Trace(s) \/ ExpireWrite(s) \/ Fail(s)

Begin(s) ==
  \/ \E u \in Users, p \in Packages, k \in Keys \cup {None} : BuyBegin(s, u, p, k)
  \/ \E k \in Keys :
       \/ \E in \in AdminInputs : MgmtRenewKey(s, k, in)
       \/ \E in \in SwitchInputs : MgmtSwitchQuota(s, k, in)
       \/ ExpireRead(s, k)

Admin ==
  \/ \E k \in Keys, u \in Users :
       \/ \E p \in Packages \cup {None}, row \in PackageRows : MgmtCreateKey(k, u, p, row)
       \/ Transfer(k, u)
  \/ \E k \in Keys : DeleteKey(k)
  \/ \E p \in Packages : DeletePackage(p)
  \/ \E p \in Packages, row \in PackageRows : CreatePackage(p, row) \/ UpdatePackage(p, row)

Next == (\E s \in Slots : Step(s) \/ Begin(s)) \/ Admin \/ Crash \/ Tick

Spec == Init /\ [][Next]_vars

-----------------------------------------------------------------------------

Change     == [amount : Int, expires : Int]
Call       == [pc : {"idle"} \cup BuyPcs \cup KeyPcs,
               act : {"buy", "renew", "switch", "expire"}, user : Users \cup {None},
               pkg : Packages \cup {None}, row : Row, key : Keys \cup {None},
               paidAt : Nat, old : Quota, new : Change]
OrderRow   == [user : Users, pkg : Packages, key : Keys, kind : {"buy", "renew"}, price : Nat]
HistoryRow == [act : {"renew", "switch"}, user : Users \cup {None}, paidAt : Nat,
               old : Quota, new : Quota]

\* The shapes of the tables and the calls; no key sells less than nothing.
TypeOK ==
  /\ WalletTypeOK
  /\ pkgs \in [Packages -> PackageState] /\ keys \in [Keys -> KeyState]
  /\ orders \in Seq(OrderRow) /\ history \in [Keys -> Seq(HistoryRow)]
  /\ call \in [Slots -> Call]
  /\ edits \in 0..MaxEdits /\ faults \in 0..MaxFaults /\ now \in Nat

\* Every order was paid: a buyer has no more orders for a package at a price
\* than debits for it, whatever fails, crashes or is edited on the way.
OrdersArePaid ==
  \A i \in DOMAIN orders :
    LET Alike == {j \in DOMAIN orders : /\ orders[j].user = orders[i].user
                                        /\ orders[j].pkg = orders[i].pkg
                                        /\ orders[j].price = orders[i].price}
        Paid  == {j \in DOMAIN ledger : /\ ledger[j].user = orders[i].user
                                        /\ ledger[j].ref = <<"order", orders[i].pkg>>
                                        /\ ledger[j].delta = -orders[i].price}
    IN Cardinality(Alike) <= Cardinality(Paid)

\* What was paid was delivered ("all in one transaction-safe sequence"): with
\* no call in progress and no database error, every purchase has its order.
PaidIsDelivered ==
  Busy = {} /\ faults = 0 =>
    Cardinality({i \in DOMAIN ledger : ledger[i].reason = "purchase"}) = Len(orders)

\* Every quota change leaves a trace: the rows of a key continue each other and
\* the last one is what the key has, between two changes and without errors.
HistoryChains ==
  \A k \in Keys :
    LET h == history[k]
        n == Len(h)
    IN faults = 0 /\ n > 0 =>
         /\ \A i \in 1..n-1 : h[i].new = h[i+1].old
         /\ (\A s \in Writers(k) : call[s].pc # "trace") => h[n].new = keys[k].quota

\* Orders point to rows that exist, and so do keys, whatever the admin deletes
\* while a purchase is under way.
ReferencesLive ==
  /\ \A i \in DOMAIN orders : Stored(pkgs[orders[i].pkg]) /\ Stored(keys[orders[i].key])
  /\ \A k \in Keys : Stored(keys[k]) /\ keys[k].pkg # None => Stored(pkgs[keys[k].pkg])

\* A bought renewal keeps the time already paid for: a key that has an end gets
\* a later one ("extend expiry").  Only what runs out between the payment and the
\* second read of the key is not made up for.
Keeps(row, until) ==
  row.act = "renew" /\ row.user # None /\ row.old.expires > 0 =>
    \/ row.new.expires = -1 \/ row.new.expires > row.old.expires
    \/ row.old.expires \in (row.paidAt + 1)..until

RenewalKeepsRest == \A k \in Keys : \A i \in DOMAIN history[k] : Keeps(history[k][i], now)
=============================================================================
