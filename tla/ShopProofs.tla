----------------------------- MODULE ShopProofs -----------------------------
(***************************************************************************)
(* For any catalogue, any number of calls at once, errors and crashes:     *)
(* purchases keep the books of the wallet, and rows refer to rows that     *)
(* exist although a purchase goes on with a package and a key it read some *)
(* statements ago.  The invariant says what a call may still rely on: the  *)
(* key it works on has been stored, even if it is deleted by now.          *)
(* Orders are counted with the calls that have paid, renewals are measured *)
(* from the payment, and with one writer of a key its trace is a chain.    *)
(***************************************************************************)
EXTENDS Shop, WalletProofs, FiniteSetTheorems

\* k has been inserted, and perhaps deleted since.
Known(k, rows) == k \in Keys /\ rows[k].at # "unborn"
Buying(c)      == c.user \in Users /\ c.pkg \in Packages

\* What a call is sure of at each statement, given the key rows.
ProperCall(c, rows) ==
  /\ c.pc = "buy_owner" => Buying(c) /\ c.act = "renew" /\ c.key \in Keys
  /\ c.pc = "buy_debit" =>
       Buying(c) /\ (c.act = "buy" \/ (c.act = "renew" /\ Known(c.key, rows)))
  /\ c.pc = "buy_insert" => Buying(c) /\ c.act = "buy"
  /\ c.pc = "buy_read" => Buying(c) /\ c.act = "renew" /\ Known(c.key, rows)
  /\ c.pc \in {"write", "trace"} =>
       /\ Known(c.key, rows) /\ c.act \in {"renew", "switch"}
       /\ c.user # None => Buying(c) /\ c.act = "renew"
  /\ c.pc = "trace" /\ Stored(rows[c.key]) => Accepts(c.new)
  /\ c.pc = "order" => Buying(c) /\ c.act \in {"buy", "renew"} /\ Known(c.key, rows)
  /\ c.pc = "expire" => Known(c.key, rows)

CallsOK == call \in [Slots -> Call] /\ \A s \in Slots : ProperCall(call[s], keys)

Rows  == pkgs \in [Packages -> PackageState] /\ keys \in [Keys -> KeyState]
Sales == orders \in Seq(OrderRow) /\ ReferencesLive

ShopInv == WalletInv /\ Rows /\ Sales /\ CallsOK /\ now \in Nat

\* A key row is never unborn again, and ids are not used twice.
KeysGrow ==
  \A k \in Keys : keys[k].at # "unborn" =>
    keys'[k].at # "unborn" /\ (Stored(keys'[k]) => Stored(keys[k]))

\* One slot moves on to what is proper for the new rows; the others still are.
LEMMA CallMoves ==
  ASSUME CallsOK, KeysGrow, NEW s \in Slots, NEW c \in Call, Set(s, c),
         ProperCall(c, keys')
  PROVE  CallsOK'
<1>1. call' = [call EXCEPT ![s] = c] /\ call \in [Slots -> Call]
  BY DEF CallsOK, Set
<1>2. call' \in [Slots -> Call] /\ \A q \in Slots : call'[q] = IF q = s THEN c ELSE call[q]
  BY <1>1
<1>3. ASSUME NEW q \in Slots, q # s PROVE ProperCall(call'[q], keys')
  <2>1. call'[q] = call[q] /\ ProperCall(call[q], keys)
    BY <1>2, <1>3 DEF CallsOK
  <2> QED
    BY <2>1 DEF ProperCall, Known, Buying, KeysGrow
<1> QED
  BY <1>2, <1>3 DEF CallsOK

\* Calls that wait do so whatever becomes of the rows.
LEMMA CallsWait ==
  ASSUME CallsOK, KeysGrow, UNCHANGED call
  PROVE  CallsOK'
  BY DEF CallsOK, ProperCall, Known, Buying, KeysGrow

\* A call that has returned, or not begun.
LEMMA IdleIsProper == Idle \in Call /\ \A rows : ProperCall(Idle, rows)
  BY DEF Idle, Call, ProperCall, Row, Quota, Change, NoQuota

\* After its trace, written or failed, a purchase goes on to its order.
LEMMA AfterTraceProper ==
  ASSUME NEW c \in Call, NEW rows, ProperCall(c, rows), c.pc = "trace"
  PROVE  AfterTrace(c) \in Call /\ ProperCall(AfterTrace(c), rows)
<1>1. CASE c.user = None
  BY <1>1, IdleIsProper DEF AfterTrace
<1>2. CASE c.user # None
  <2> DEFINE d == [c EXCEPT !.pc = "order"]
  <2>1. AfterTrace(c) = d
    BY <1>2 DEF AfterTrace
  <2>2. d \in Call
    BY DEF Call, BuyPcs
  <2>3. /\ d.pc = "order" /\ d.act = c.act /\ d.user = c.user /\ d.pkg = c.pkg
        /\ d.key = c.key
    BY DEF Call
  <2>4. Buying(c) /\ c.act = "renew" /\ Known(c.key, rows)
    BY <1>2 DEF ProperCall
  <2> HIDE DEF d
  <2>5. ProperCall(d, rows)
    BY <2>3, <2>4 DEF ProperCall, Buying
  <2> QED
    BY <2>1, <2>2, <2>5
<1> QED
  BY <1>1, <1>2

\* An order for rows that are stored keeps the references (order insertion).
LEMMA OrderKeepsSales ==
  ASSUME Sales, NEW o \in OrderRow, Stored(pkgs[o.pkg]), Stored(keys[o.key]),
         orders' = Append(orders, o), UNCHANGED <<pkgs, keys>>
  PROVE  Sales'
<1>1. /\ orders' \in Seq(OrderRow) /\ DOMAIN orders = 1..Len(orders)
      /\ DOMAIN orders' = 1..(Len(orders) + 1) /\ Len(orders) \in Nat
      /\ \A i \in 1..Len(orders) : orders'[i] = orders[i]
      /\ orders'[Len(orders) + 1] = o
  BY AppendedRows DEF Sales
<1> QED
  BY <1>1 DEF Sales, ReferencesLive, Stored

\* One key row changes: it stays what orders refer to, and its package exists
\* (foreign keys of keys and orders).
LEMMA KeyChange ==
  ASSUME ShopInv, NEW k \in Keys, UNCHANGED <<pkgs, orders>>,
         keys' \in [Keys -> KeyState], \A j \in Keys \ {k} : keys'[j] = keys[j],
         keys[k].at # "unborn" =>
           keys'[k].at # "unborn" /\ (Stored(keys'[k]) => Stored(keys[k])),
         Stored(keys[k]) => Stored(keys'[k]) \/ KeyFree(k),
         Stored(keys'[k]) /\ keys'[k].pkg # None => Stored(pkgs[keys'[k].pkg])
  PROVE  Rows' /\ Sales' /\ KeysGrow
<1>1. Rows' /\ KeysGrow
  BY DEF ShopInv, Rows, KeysGrow
<1>2. \A i \in DOMAIN orders : orders[i].key \in Keys /\ Stored(keys[orders[i].key])
  <2>1. \A i \in DOMAIN orders : orders[i] \in OrderRow
    BY DEF ShopInv, Sales
  <2> QED
    BY <2>1 DEF ShopInv, Sales, ReferencesLive, OrderRow
<1>3. \A i \in DOMAIN orders : Stored(keys'[orders[i].key])
  BY <1>2 DEF KeyFree
<1>4. \A j \in Keys : Stored(keys'[j]) /\ keys'[j].pkg # None => Stored(pkgs[keys'[j].pkg])
  BY DEF ShopInv, Sales, ReferencesLive
<1> QED
  BY <1>1, <1>3, <1>4 DEF ShopInv, Sales, ReferencesLive, Stored

\* One package row changes or goes while nothing refers to it.
LEMMA PackageChange ==
  ASSUME ShopInv, NEW p \in Packages, UNCHANGED <<keys, orders>>,
         pkgs' \in [Packages -> PackageState],
         \A q \in Packages \ {p} : pkgs'[q] = pkgs[q],
         \/ Stored(pkgs'[p])
         \/ /\ \A k \in Keys : Stored(keys[k]) => keys[k].pkg # p
            /\ \A i \in DOMAIN orders : orders[i].pkg # p
  PROVE  Rows' /\ Sales' /\ KeysGrow
<1>1. Rows' /\ KeysGrow
  BY DEF ShopInv, Rows, KeysGrow
<1>2. \A i \in DOMAIN orders : orders[i].pkg \in Packages
  <2>1. \A i \in DOMAIN orders : orders[i] \in OrderRow
    BY DEF ShopInv, Sales
  <2> QED
    BY <2>1 DEF OrderRow
<1>3. \A k \in Keys : keys[k].pkg # None => keys[k].pkg \in Packages
  BY DEF ShopInv, Rows, KeyState
<1>4. \A i \in DOMAIN orders : Stored(pkgs'[orders[i].pkg]) /\ Stored(keys[orders[i].key])
  BY <1>2 DEF ShopInv, Sales, ReferencesLive
<1>5. \A k \in Keys : Stored(keys[k]) /\ keys[k].pkg # None => Stored(pkgs'[keys[k].pkg])
  BY <1>3 DEF ShopInv, Sales, ReferencesLive
<1> QED
  BY <1>1, <1>4, <1>5 DEF ShopInv, Sales, ReferencesLive, Stored

\* A statement that reads, or writes only history (most of a call).
LEMMA QuietStep ==
  ASSUME ShopInv, UNCHANGED <<walletVars, pkgs, keys, orders>>, now' \in Nat,
         NEW s \in Slots, NEW c \in Call, Set(s, c), ProperCall(c, keys)
  PROVE  ShopInv' /\ DebitsRespectFloor
<1>1. WalletInv' /\ DebitsRespectFloor
  BY StillWallet DEF ShopInv, WalletInv, WalletTypeOK, walletVars
<1>2. Rows' /\ KeysGrow /\ Sales'
  BY DEF ShopInv, Rows, Sales, KeysGrow, ReferencesLive, Stored
<1>3. CallsOK'
  BY <1>2, CallMoves DEF ShopInv
<1> QED
  BY <1>1, <1>2, <1>3 DEF ShopInv

\* What is not about the wallet leaves its books alone.
LEMMA WalletStill ==
  ASSUME ShopInv, UNCHANGED walletVars
  PROVE  WalletInv' /\ DebitsRespectFloor
  BY StillWallet DEF ShopInv, WalletInv, WalletTypeOK, walletVars

\* BuyPackage up to the payment.
LEMMA PayStep ==
  ASSUME ShopInv, NEW s \in Slots,
         \/ \E u \in Users, p \in Packages, k \in Keys \cup {None} : BuyBegin(s, u, p, k)
         \/ BuyOwner(s) \/ BuyDebit(s)
  PROVE  ShopInv' /\ DebitsRespectFloor
<1> USE ShopAssumption
<1> DEFINE c == call[s]
<1>0. /\ CallsOK /\ Rows /\ Sales /\ now \in Nat
      /\ c \in Call /\ ProperCall(c, keys)
  BY DEF ShopInv, CallsOK
<1>1. ASSUME NEW u \in Users, NEW p \in Packages, NEW k \in Keys \cup {None},
             BuyBegin(s, u, p, k)
      PROVE  ShopInv' /\ DebitsRespectFloor
  <2> DEFINE d == [Idle EXCEPT !.pc = IF k = None THEN "buy_debit" ELSE "buy_owner",
                               !.act = IF k = None THEN "buy" ELSE "renew",
                               !.user = u, !.pkg = p, !.row = pkgs[p].row, !.key = k]
  <2>1. Set(s, d) /\ UNCHANGED <<walletVars, tables, bounds>>
    BY <1>1 DEF BuyBegin
  <2>2. pkgs[p].row \in Row /\ Idle \in Call
    BY <1>0, IdleIsProper DEF Rows, PackageState
  <2>3. /\ d.pc = (IF k = None THEN "buy_debit" ELSE "buy_owner")
        /\ d.act = (IF k = None THEN "buy" ELSE "renew")
        /\ d.user = u /\ d.pkg = p /\ d.key = k
    BY DEF Idle
  <2>4. d \in Call
    <3>1. CASE k = None
      BY <2>2, <3>1 DEF Call, BuyPcs
    <3>2. CASE k # None
      <4> DEFINE e == [Idle EXCEPT !.pc = "buy_owner", !.act = "renew", !.user = u,
                                   !.pkg = p, !.row = pkgs[p].row, !.key = k]
      <4>1. d = e
        BY <3>2
      <4>2. e \in Call
        BY <2>2 DEF Call, BuyPcs
      <4> QED
        BY <4>1, <4>2
    <3> QED
      BY <3>1, <3>2
  <2>5. ProperCall(d, keys)
    <3> HIDE DEF d
    <3> QED
      BY <2>3 DEF ProperCall, Buying
  <2> QED
    BY <1>0, <2>1, <2>4, <2>5, QuietStep DEF tables, bounds
<1>2. CASE BuyOwner(s)
  <2> DEFINE d == [c EXCEPT !.pc = "buy_debit"]
  <2>1. /\ UNCHANGED <<walletVars, tables, bounds>> /\ c.pc = "buy_owner"
        /\ ((Set(s, d) /\ Stored(keys[c.key])) \/ Set(s, Idle))
    BY <1>2 DEF BuyOwner
  <2>2. CASE Set(s, d) /\ Stored(keys[c.key])
    <3>1. d \in Call /\ ProperCall(d, keys)
      BY <1>0, <2>1, <2>2 DEF Call, BuyPcs, ProperCall, Buying, Known, Stored
    <3> QED
      BY <1>0, <2>1, <2>2, <3>1, QuietStep DEF tables, bounds
  <2>3. CASE Set(s, Idle)
    BY <1>0, <2>1, <2>3, IdleIsProper, QuietStep DEF tables, bounds
  <2> QED
    BY <2>1, <2>2, <2>3
<1>3. CASE BuyDebit(s)
  <2>1. /\ c.pc = "buy_debit" /\ Buying(c) /\ UNCHANGED <<tables, bounds>>
        /\ (c.act = "buy" \/ (c.act = "renew" /\ Known(c.key, keys)))
    BY <1>0, <1>3 DEF BuyDebit, ProperCall
  <2>2. CASE /\ AdjustBalance(c.user, -c.row.price, "purchase", <<"order", c.pkg>>, "portal")
             /\ Set(s, AfterDebit(c))
    <3>1. /\ c.user \in Users /\ -c.row.price \in Int /\ "purchase" \in Reasons
          /\ <<"order", c.pkg>> \in Refs \cup {NoRef} /\ "portal" \in Channels
      BY <1>0, <2>1 DEF Buying, Reasons, Channels, Call, Row
    <3>2. WalletInv' /\ DebitsRespectFloor
      BY <2>2, <3>1, MoveKeepsWallet DEF ShopInv
    <3>3. AfterDebit(c) \in Call /\ ProperCall(AfterDebit(c), keys')
      BY <1>0, <2>1 DEF Call, AfterDebit, BuyPcs, ProperCall, Buying, tables
    <3>4. Rows' /\ KeysGrow /\ Sales' /\ now' \in Nat
      BY <1>0, <2>1 DEF Rows, Sales, KeysGrow, ReferencesLive, Stored, tables, bounds
    <3>5. CallsOK'
      BY <1>0, <2>2, <3>3, <3>4, CallMoves
    <3> QED
      BY <3>2, <3>4, <3>5 DEF ShopInv
  <2>3. CASE UNCHANGED walletVars /\ Set(s, Idle)
    BY <1>0, <2>1, <2>3, IdleIsProper, QuietStep DEF tables, bounds
  <2> QED
    BY <1>3, <2>2, <2>3 DEF BuyDebit
<1> QED
  BY <1>1, <1>2, <1>3

\* BuyPackage after the payment: the new key or the renewal, then the order.
LEMMA DeliverStep ==
  ASSUME ShopInv, NEW s \in Slots, BuyRead(s) \/ BuyInsert(s) \/ Order(s)
  PROVE  ShopInv' /\ DebitsRespectFloor
<1> USE ShopAssumption
<1> DEFINE c == call[s]
<1>0. /\ CallsOK /\ Rows /\ Sales /\ now \in Nat
      /\ c \in Call /\ ProperCall(c, keys)
  BY DEF ShopInv, CallsOK
<1>1. CASE BuyRead(s)
  <2> DEFINE q == QuotaRead(c.key)
             n == [amount  |-> q.amount + c.row.amount,
                   expires |-> RenewedExpiry(c.row, q, c.paidAt)]
             d == [c EXCEPT !.pc = "write", !.old = q, !.new = n]
  <2>1. /\ c.pc = "buy_read" /\ Set(s, d) /\ UNCHANGED <<walletVars, tables, bounds>>
        /\ Buying(c) /\ c.act = "renew" /\ Known(c.key, keys)
    BY <1>0, <1>1 DEF BuyRead, ProperCall
  <2>2. q \in Quota
    BY <1>0, <2>1 DEF QuotaRead, NoQuota, Quota, Rows, KeyState, Known
  <2>3. n \in Change
    <3>1. c.row.days \in Int /\ c.row.amount \in Nat /\ c.paidAt \in Nat
      BY <1>0 DEF Call, Row
    <3>2. q.amount \in Nat /\ q.expires \in Int
      BY <2>2 DEF Quota
    <3>3. RenewedExpiry(c.row, q, c.paidAt) \in Int
      BY <3>1, <3>2 DEF RenewedExpiry, Fresh
    <3> QED
      BY <3>1, <3>2, <3>3 DEF Change
  <2>4. d \in Call /\ ProperCall(d, keys)
    BY <1>0, <2>1, <2>2, <2>3 DEF Call, KeyPcs, ProperCall, Buying
  <2> QED
    BY <1>0, <2>1, <2>4, QuietStep DEF tables, bounds
<1>2. CASE BuyInsert(s)
  <2>1. /\ c.pc = "buy_insert" /\ Buying(c) /\ c.act = "buy"
        /\ UNCHANGED <<walletVars, pkgs, orders, history, bounds>>
    BY <1>0, <1>2 DEF BuyInsert, ProperCall
  <2>2. ASSUME NEW k \in Keys, Stored(pkgs[c.pkg]), keys[k].at = "unborn",
               keys' = [keys EXCEPT ![k] =
                 NewKey(c.user, c.pkg, c.row.amount, Fresh(c.row.days, c.paidAt))],
               Set(s, [c EXCEPT !.pc = "order", !.key = k])
        PROVE  ShopInv' /\ DebitsRespectFloor
    <3> DEFINE row == NewKey(c.user, c.pkg, c.row.amount, Fresh(c.row.days, c.paidAt))
    <3>1. row \in KeyState /\ Stored(row) /\ row.pkg = c.pkg /\ row.at # "unborn"
      <4>1. c.row.days \in Int /\ c.row.amount \in Nat /\ c.paidAt \in Nat
        BY <1>0 DEF Call, Row
      <4> QED
        BY <2>1, <4>1 DEF NewKey, Fresh, KeyState, Quota, Stages, Statuses, Buying, Stored
    <3>2. /\ keys' \in [Keys -> KeyState] /\ keys'[k] = row
          /\ \A j \in Keys \ {k} : keys'[j] = keys[j]
      BY <1>0, <2>2, <3>1 DEF Rows
    <3>3. Rows' /\ Sales' /\ KeysGrow
      BY <2>1, <2>2, <3>1, <3>2, KeyChange
    <3>4. [c EXCEPT !.pc = "order", !.key = k] \in Call
      BY <1>0 DEF Call, BuyPcs
    <3>5. ProperCall([c EXCEPT !.pc = "order", !.key = k], keys')
      BY <1>0, <2>1, <3>1, <3>2 DEF ProperCall, Buying, Known, Call
    <3>6. CallsOK'
      BY <1>0, <2>2, <3>3, <3>4, <3>5, CallMoves
    <3> QED
      BY <1>0, <2>1, <3>3, <3>6, WalletStill DEF ShopInv, bounds
  <2>3. CASE Set(s, Idle) /\ UNCHANGED keys
    BY <1>0, <2>1, <2>3, IdleIsProper, QuietStep DEF bounds
  <2> QED
    BY <1>2, <2>2, <2>3 DEF BuyInsert
<1>3. CASE Order(s)
  <2>1. /\ c.pc = "order" /\ Buying(c) /\ c.act \in {"buy", "renew"} /\ Known(c.key, keys)
        /\ Set(s, Idle) /\ UNCHANGED <<walletVars, pkgs, keys, history, bounds>>
    BY <1>0, <1>3 DEF Order, ProperCall
  <2>2. CASE UNCHANGED orders
    BY <1>0, <2>1, <2>2, IdleIsProper, QuietStep DEF bounds
  <2>3. CASE /\ Stored(pkgs[c.pkg]) /\ Stored(keys[c.key])
             /\ orders' = Append(orders, NewOrder(c))
    <3>1. /\ NewOrder(c) \in OrderRow /\ NewOrder(c).pkg = c.pkg
          /\ NewOrder(c).key = c.key
      BY <1>0, <2>1 DEF NewOrder, OrderRow, Call, Row, Buying, Known
    <3>2. Sales'
      BY <1>0, <2>1, <2>3, <3>1, OrderKeepsSales
    <3>3. Rows' /\ KeysGrow
      BY <1>0, <2>1 DEF Rows, KeysGrow
    <3>4. CallsOK'
      BY <1>0, <2>1, <3>3, IdleIsProper, CallMoves
    <3> QED
      BY <1>0, <2>1, <3>2, <3>3, <3>4, WalletStill DEF ShopInv, bounds
  <2> QED
    BY <1>3, <2>2, <2>3 DEF Order
<1> QED
  BY <1>1, <1>2, <1>3

\* A key is read to be renewed or switched (mgmtRenewKey, mgmtSwitchQuota).
LEMMA ChangeStep ==
  ASSUME ShopInv, NEW s \in Slots, NEW k \in Keys, NEW act \in {"renew", "switch"},
         NEW q \in Change, ChangeBegin(s, k, act, q)
  PROVE  ShopInv' /\ DebitsRespectFloor
<1> DEFINE d == [Idle EXCEPT !.pc = "write", !.act = act, !.key = k,
                             !.old = keys[k].quota, !.new = q]
<1>1. /\ Set(s, d) /\ UNCHANGED <<walletVars, tables, bounds>> /\ Stored(keys[k])
      /\ now \in Nat
  BY DEF ChangeBegin, ShopInv
<1>2. keys[k].quota \in Quota /\ Idle \in Call
  BY IdleIsProper DEF ShopInv, Rows, KeyState
<1>3. d \in Call
  BY <1>2 DEF Call, KeyPcs
<1>4. d.pc = "write" /\ d.key = k /\ d.user = None /\ d.act = act
  BY DEF Idle
<1>5. ProperCall(d, keys)
  <2> HIDE DEF d
  <2> QED
    BY <1>1, <1>4 DEF ProperCall, Known, Stored
<1> QED
  BY <1>1, <1>3, <1>5, QuietStep DEF tables, bounds

\* The calls that begin by reading a key.
KeyCall(s) ==
  \E k \in Keys :
    \/ \E in \in AdminInputs : MgmtRenewKey(s, k, in)
    \/ \E in \in SwitchInputs : MgmtSwitchQuota(s, k, in)
    \/ ExpireRead(s, k)

\* The administrator's renewals and switches, and a bought renewal, write the
\* key and its trace; handleAuthenticate writes a status.
LEMMA KeyStep ==
  ASSUME ShopInv, NEW s \in Slots,
         KeyCall(s) \/ Write(s) \/ Trace(s) \/ ExpireWrite(s)
  PROVE  ShopInv' /\ DebitsRespectFloor
<1> USE ShopAssumption
<1> DEFINE c == call[s]
<1>0. /\ CallsOK /\ Rows /\ Sales /\ now \in Nat
      /\ c \in Call /\ ProperCall(c, keys)
  BY DEF ShopInv, CallsOK
<1>1. ASSUME NEW k \in Keys PROVE keys[k].quota.amount \in Nat /\ keys[k].quota.expires \in Int
  BY <1>0 DEF Rows, KeyState, Quota
<1>2. ASSUME NEW k \in Keys, NEW in \in AdminInputs, MgmtRenewKey(s, k, in)
      PROVE  ShopInv' /\ DebitsRespectFloor
  <2> DEFINE q    == keys[k].quota
             base == IF q.expires < now THEN now ELSE q.expires
             end  == CASE in.set # 0 -> in.set
                       [] in.set = 0 /\ in.days > 0 -> base + in.days
                       [] OTHER -> q.expires
  <2>1. in.add \in Int /\ in.days \in Nat /\ in.set \in Int
    OBVIOUS
  <2>2. base \in Int
    BY <1>0, <1>1
  <2>3. end \in Int
    BY <1>1, <2>1, <2>2
  <2>4. [amount |-> q.amount + in.add, expires |-> end] \in Change
    BY <1>1, <2>1, <2>3 DEF Change
  <2> QED
    BY <1>2, <2>4, ChangeStep DEF MgmtRenewKey
<1>3. ASSUME NEW k \in Keys, NEW in \in SwitchInputs, MgmtSwitchQuota(s, k, in)
      PROVE  ShopInv' /\ DebitsRespectFloor
  <2> DEFINE q == keys[k].quota
             n == [amount  |-> IF in.amount = 0 THEN q.amount ELSE in.amount,
                   expires |-> IF in.end = 0 THEN q.expires ELSE in.end]
  <2>1. in.amount \in Nat /\ in.end \in Int
    OBVIOUS
  <2>2. n \in Change
    BY <1>1, <2>1 DEF Change
  <2> QED
    BY <1>3, <2>2, ChangeStep DEF MgmtSwitchQuota
<1>4. ASSUME NEW k \in Keys, ExpireRead(s, k) PROVE ShopInv' /\ DebitsRespectFloor
  <2> DEFINE d == [Idle EXCEPT !.pc = "expire", !.act = "expire", !.key = k]
  <2>1. Set(s, d) /\ UNCHANGED <<walletVars, tables, bounds>> /\ Stored(keys[k])
    BY <1>4 DEF ExpireRead
  <2>2. d \in Call
    BY IdleIsProper DEF Call, KeyPcs
  <2>3. d.pc = "expire" /\ d.key = k
    BY DEF Idle
  <2>4. ProperCall(d, keys)
    <3> HIDE DEF d
    <3> QED
      BY <2>1, <2>3 DEF ProperCall, Known, Stored
  <2> QED
    BY <1>0, <2>1, <2>2, <2>4, QuietStep DEF tables, bounds
<1>5. CASE Write(s)
  <2> DEFINE k == c.key
             d == [c EXCEPT !.pc = "trace"]
  <2>1. /\ c.pc = "write" /\ Known(k, keys) /\ (c.user # None => Buying(c) /\ c.act = "renew")
        /\ UNCHANGED <<walletVars, pkgs, orders, history, bounds>>
    BY <1>0, <1>5 DEF Write, ProperCall
  <2>2. k \in Keys /\ d \in Call /\ c.new \in Change
    BY <1>0, <2>1 DEF Call, KeyPcs, Known
  <2>3. /\ d.pc = "trace" /\ d.act = c.act /\ d.key = k /\ d.user = c.user
        /\ d.pkg = c.pkg /\ d.new = c.new /\ c.act \in {"renew", "switch"}
    BY <1>0, <2>1 DEF Call, ProperCall
  <2>4. CASE /\ Stored(keys[k]) /\ Accepts(c.new) /\ Set(s, d)
             /\ keys' = [keys EXCEPT ![k].quota = c.new,
                           ![k].status = IF c.act = "renew" THEN "active" ELSE @]
    <3>1. c.new \in Quota
      BY <2>2, <2>4 DEF Accepts, Change, Quota
    <3>2. /\ keys'[k] \in KeyState /\ keys'[k].at = keys[k].at /\ keys'[k].pkg = keys[k].pkg
          /\ \A j \in Keys \ {k} : keys'[j] = keys[j]
      <4> DEFINE status == IF c.act = "renew" THEN "active" ELSE keys[k].status
                 row    == [keys[k] EXCEPT !.quota = c.new, !.status = status]
      <4>1. keys[k] \in KeyState /\ status \in Statuses
        BY <1>0, <2>2 DEF Rows, KeyState, Statuses
      <4>2. row \in KeyState /\ row.at = keys[k].at /\ row.pkg = keys[k].pkg
        BY <3>1, <4>1 DEF KeyState
      <4>3. keys'[k] = row /\ \A j \in Keys \ {k} : keys'[j] = keys[j]
        BY <1>0, <2>2, <2>4 DEF Rows
      <4> QED
        BY <4>2, <4>3
    <3>3. keys' \in [Keys -> KeyState]
      BY <1>0, <2>2, <2>4, <3>2 DEF Rows
    <3>4. /\ keys[k].at # "unborn" =>
               keys'[k].at # "unborn" /\ (Stored(keys'[k]) => Stored(keys[k]))
          /\ Stored(keys[k]) => Stored(keys'[k])
          /\ Stored(keys'[k]) /\ keys'[k].pkg # None => Stored(pkgs[keys'[k].pkg])
      BY <1>0, <2>2, <3>2 DEF Stored, Sales, ReferencesLive
    <3>5. Rows' /\ Sales' /\ KeysGrow
      BY <2>1, <2>2, <3>2, <3>3, <3>4, KeyChange
    <3>6. ProperCall(d, keys')
      <4> HIDE DEF d
      <4> QED
        BY <2>1, <2>2, <2>4, <2>3, <3>2 DEF ProperCall, Buying, Known
    <3>7. CallsOK'
      BY <1>0, <2>2, <2>4, <3>5, <3>6, CallMoves
    <3> QED
      BY <1>0, <2>1, <3>5, <3>7, WalletStill DEF ShopInv, bounds
  <2>5. CASE UNCHANGED keys /\ Set(s, d) /\ ~Stored(keys[k])
    <3>1. ProperCall(d, keys)
      <4> HIDE DEF d
      <4> QED
        BY <2>1, <2>2, <2>5, <2>3 DEF ProperCall, Buying, Known
    <3> QED
      BY <1>0, <2>1, <2>2, <2>5, <3>1, QuietStep DEF bounds
  <2>6. CASE UNCHANGED keys /\ Set(s, Idle)
    BY <1>0, <2>1, <2>6, IdleIsProper, QuietStep DEF bounds
  <2> QED
    BY <1>5, <2>4, <2>5, <2>6 DEF Write
<1>6. CASE Trace(s)
  <2>1. /\ c.pc = "trace" /\ Known(c.key, keys)
        /\ (c.user # None => Buying(c) /\ c.act = "renew")
        /\ Set(s, AfterTrace(c)) /\ UNCHANGED <<walletVars, pkgs, keys, orders, bounds>>
    BY <1>0, <1>6 DEF Trace, ProperCall
  <2>2. AfterTrace(c) \in Call /\ ProperCall(AfterTrace(c), keys)
    BY <1>0, <2>1, AfterTraceProper
  <2> QED
    BY <1>0, <2>1, <2>2, QuietStep DEF bounds
<1>7. CASE ExpireWrite(s)
  <2> DEFINE k == c.key
  <2>1. /\ k \in Keys /\ Set(s, Idle)
        /\ UNCHANGED <<walletVars, pkgs, orders, history, bounds>>
    BY <1>0, <1>7 DEF ExpireWrite, ProperCall, Known
  <2>2. CASE UNCHANGED keys
    BY <1>0, <2>1, <2>2, IdleIsProper, QuietStep DEF bounds
  <2>3. CASE keys' = [keys EXCEPT ![k].status = "expired"]
    <3>1. /\ keys'[k] \in KeyState /\ keys'[k].at = keys[k].at /\ keys'[k].pkg = keys[k].pkg
          /\ \A j \in Keys \ {k} : keys'[j] = keys[j]
      <4> DEFINE row == [keys[k] EXCEPT !.status = "expired"]
      <4>1. keys[k] \in KeyState
        BY <1>0, <2>1 DEF Rows
      <4>2. row \in KeyState /\ row.at = keys[k].at /\ row.pkg = keys[k].pkg
        BY <4>1 DEF KeyState, Statuses
      <4>3. keys'[k] = row /\ \A j \in Keys \ {k} : keys'[j] = keys[j]
        BY <1>0, <2>1, <2>3 DEF Rows
      <4> QED
        BY <4>2, <4>3
    <3>2. keys' \in [Keys -> KeyState]
      BY <1>0, <2>1, <2>3, <3>1 DEF Rows
    <3>3. /\ keys[k].at # "unborn" =>
               keys'[k].at # "unborn" /\ (Stored(keys'[k]) => Stored(keys[k]))
          /\ Stored(keys[k]) => Stored(keys'[k])
          /\ Stored(keys'[k]) /\ keys'[k].pkg # None => Stored(pkgs[keys'[k].pkg])
      BY <1>0, <2>1, <3>1 DEF Stored, Sales, ReferencesLive
    <3>4. Rows' /\ Sales' /\ KeysGrow
      BY <2>1, <3>1, <3>2, <3>3, KeyChange
    <3>5. CallsOK'
      BY <1>0, <2>1, <3>4, IdleIsProper, CallMoves
    <3> QED
      BY <1>0, <2>1, <3>4, <3>5, WalletStill DEF ShopInv, bounds
  <2> QED
    BY <1>7, <2>2, <2>3 DEF ExpireWrite
<1> QED
  BY <1>2, <1>3, <1>4, <1>5, <1>6, <1>7 DEF KeyCall

\* The administrator's calls of one statement on a key.
LEMMA KeyAdminStep ==
  ASSUME ShopInv, NEW k \in Keys,
         \/ \E u \in Users, p \in Packages \cup {None}, row \in PackageRows :
              MgmtCreateKey(k, u, p, row)
         \/ \E u \in Users : Transfer(k, u)
         \/ DeleteKey(k)
  PROVE  ShopInv' /\ DebitsRespectFloor
<1> USE ShopAssumption
<1>0. CallsOK /\ Rows /\ Sales /\ now \in Nat
  BY DEF ShopInv
<1>a. ASSUME Rows', Sales', KeysGrow, UNCHANGED <<walletVars, call, now>>
      PROVE  ShopInv' /\ DebitsRespectFloor
  BY <1>0, <1>a, CallsWait, WalletStill DEF ShopInv
<1>1. ASSUME NEW u \in Users, NEW p \in Packages \cup {None}, NEW row \in PackageRows,
             MgmtCreateKey(k, u, p, row)
      PROVE  ShopInv' /\ DebitsRespectFloor
  <2> DEFINE amount == IF row.amount = 0 THEN DefaultAmount ELSE row.amount
             new    == NewKey(u, p, amount, Fresh(row.days, now))
  <2>1. /\ keys' = [keys EXCEPT ![k] = new] /\ (p # None => Stored(pkgs[p]))
        /\ keys[k].at = "unborn" /\ UNCHANGED <<walletVars, pkgs, orders, call, now>>
    BY <1>1 DEF MgmtCreateKey, Edit
  <2>2. amount \in Nat /\ Fresh(row.days, now) \in Int
    BY <1>0 DEF Row, Fresh
  <2>3. new \in KeyState /\ Stored(new) /\ new.pkg = p /\ new.at # "unborn"
    BY <2>2 DEF NewKey, KeyState, Quota, Stages, Statuses, Stored
  <2>4. /\ keys' \in [Keys -> KeyState] /\ keys'[k] = new
        /\ \A j \in Keys \ {k} : keys'[j] = keys[j]
    BY <1>0, <2>1, <2>3 DEF Rows
  <2>5. Rows' /\ Sales' /\ KeysGrow
    BY <2>1, <2>3, <2>4, KeyChange
  <2> QED
    BY <1>a, <2>1, <2>5
<1>2. ASSUME NEW u \in Users, Transfer(k, u) PROVE ShopInv' /\ DebitsRespectFloor
  <2>1. /\ keys' = [keys EXCEPT ![k].owner = u]
        /\ UNCHANGED <<walletVars, pkgs, orders, call, now>>
    BY <1>2 DEF Transfer, Edit
  <2>2. /\ keys'[k] \in KeyState /\ keys'[k].at = keys[k].at /\ keys'[k].pkg = keys[k].pkg
        /\ \A j \in Keys \ {k} : keys'[j] = keys[j]
    BY <1>0, <2>1 DEF Rows, KeyState
  <2>3. keys' \in [Keys -> KeyState]
    BY <1>0, <2>1, <2>2 DEF Rows
  <2>4. /\ keys[k].at # "unborn" =>
               keys'[k].at # "unborn" /\ (Stored(keys'[k]) => Stored(keys[k]))
        /\ Stored(keys[k]) => Stored(keys'[k])
        /\ Stored(keys'[k]) /\ keys'[k].pkg # None => Stored(pkgs[keys'[k].pkg])
    BY <1>0, <2>2 DEF Stored, Sales, ReferencesLive
  <2>5. Rows' /\ Sales' /\ KeysGrow
    BY <2>1, <2>2, <2>3, <2>4, KeyChange
  <2> QED
    BY <1>a, <2>1, <2>5
<1>3. CASE DeleteKey(k)
  <2>1. /\ keys' = [keys EXCEPT ![k].at = "deleted"] /\ KeyFree(k)
        /\ UNCHANGED <<walletVars, pkgs, orders, call, now>>
    BY <1>3 DEF DeleteKey, Edit
  <2>2. /\ keys'[k] \in KeyState /\ keys'[k].at = "deleted"
        /\ \A j \in Keys \ {k} : keys'[j] = keys[j]
    BY <1>0, <2>1 DEF Rows, KeyState, Stages
  <2>3. keys' \in [Keys -> KeyState]
    BY <1>0, <2>1, <2>2 DEF Rows
  <2>4. Rows' /\ Sales' /\ KeysGrow
    BY <2>1, <2>2, <2>3, KeyChange DEF Stored
  <2> QED
    BY <1>a, <2>1, <2>4
<1> QED
  BY <1>1, <1>2, <1>3

\* The administrator's calls on the catalogue.
LEMMA CatalogueStep ==
  ASSUME ShopInv, NEW p \in Packages,
         \/ \E row \in PackageRows : CreatePackage(p, row) \/ UpdatePackage(p, row)
         \/ DeletePackage(p)
  PROVE  ShopInv' /\ DebitsRespectFloor
<1> USE ShopAssumption
<1>0. CallsOK /\ Rows /\ Sales /\ now \in Nat
  BY DEF ShopInv
<1>1. UNCHANGED <<walletVars, keys, orders, call, now>>
  BY DEF CreatePackage, UpdatePackage, DeletePackage, Edit
<1>2. ASSUME NEW row \in PackageRows, CreatePackage(p, row)
      PROVE  /\ pkgs' \in [Packages -> PackageState] /\ Stored(pkgs'[p])
             /\ \A q \in Packages \ {p} : pkgs'[q] = pkgs[q]
  BY <1>0, <1>2 DEF CreatePackage, Rows, PackageState, Stages, Stored
<1>3. ASSUME NEW row \in PackageRows, UpdatePackage(p, row)
      PROVE  /\ pkgs' \in [Packages -> PackageState] /\ Stored(pkgs'[p])
             /\ \A q \in Packages \ {p} : pkgs'[q] = pkgs[q]
  BY <1>0, <1>3 DEF UpdatePackage, Rows, PackageState, Stored
<1>4. ASSUME DeletePackage(p)
      PROVE  /\ pkgs' \in [Packages -> PackageState]
             /\ \A q \in Packages \ {p} : pkgs'[q] = pkgs[q]
             /\ \A k \in Keys : Stored(keys[k]) => keys[k].pkg # p
             /\ \A i \in DOMAIN orders : orders[i].pkg # p
  BY <1>0, <1>4 DEF DeletePackage, Rows, PackageState, Stages
<1>5. Rows' /\ Sales' /\ KeysGrow
  BY <1>1, <1>2, <1>3, <1>4, PackageChange
<1> QED
  BY <1>0, <1>1, <1>5, CallsWait, WalletStill DEF ShopInv

\* Every step keeps the invariant and respects the floor.
LEMMA ShopStep == ShopInv /\ [Next]_vars => ShopInv' /\ DebitsRespectFloor
<1> SUFFICES ASSUME ShopInv, [Next]_vars PROVE ShopInv' /\ DebitsRespectFloor
  OBVIOUS
<1>0. CallsOK /\ Rows /\ Sales /\ now \in Nat
  BY DEF ShopInv
<1>1. ASSUME NEW s \in Slots, Fail(s) PROVE ShopInv' /\ DebitsRespectFloor
  <2> DEFINE c == call[s]
             d == IF c.pc = "trace" THEN AfterTrace(c) ELSE Idle
  <2>1. Set(s, d) /\ UNCHANGED <<walletVars, tables, now>>
    BY <1>1 DEF Fail
  <2>2. c \in Call /\ ProperCall(c, keys)
    BY <1>0 DEF CallsOK
  <2>3. d \in Call /\ ProperCall(d, keys)
    BY <2>2, IdleIsProper, AfterTraceProper
  <2> QED
    BY <1>0, <2>1, <2>3, QuietStep DEF tables
<1>2. ASSUME UNCHANGED <<walletVars, pkgs, keys, orders>>, now' \in Nat, CallsOK'
      PROVE  ShopInv' /\ DebitsRespectFloor
  BY <1>0, <1>2, WalletStill DEF ShopInv, Rows, Sales, ReferencesLive, Stored
<1>3. CASE Crash
  <2>1. CallsOK'
    BY <1>3, IdleIsProper DEF Crash, CallsOK
  <2> QED
    BY <1>0, <1>2, <1>3, <2>1 DEF Crash, tables
<1>4. CASE Tick
  <2>1. CallsOK'
    BY <1>0, <1>4 DEF Tick, CallsOK, tables
  <2> QED
    BY <1>0, <1>2, <1>4, <2>1 DEF Tick, tables
<1>5. CASE UNCHANGED vars
  <2>1. CallsOK'
    BY <1>0, <1>5 DEF vars, CallsOK, tables
  <2> QED
    BY <1>0, <1>2, <1>5, <2>1 DEF vars, tables, bounds, walletVars
<1>6. ASSUME NEW s \in Slots, Step(s) \/ Begin(s) PROVE ShopInv' /\ DebitsRespectFloor
  <2>1. ASSUME BuyOwner(s) \/ BuyDebit(s) PROVE ShopInv' /\ DebitsRespectFloor
    BY <2>1, PayStep
  <2>2. ASSUME NEW u \in Users, NEW p \in Packages, NEW k \in Keys \cup {None},
               BuyBegin(s, u, p, k)
        PROVE  ShopInv' /\ DebitsRespectFloor
    BY <2>2, PayStep
  <2>3. ASSUME BuyRead(s) \/ BuyInsert(s) \/ Order(s) PROVE ShopInv' /\ DebitsRespectFloor
    BY <2>3, DeliverStep
  <2>4. ASSUME Write(s) \/ Trace(s) \/ ExpireWrite(s) PROVE ShopInv' /\ DebitsRespectFloor
    BY <2>4, KeyStep
  <2>5. ASSUME KeyCall(s) PROVE ShopInv' /\ DebitsRespectFloor
    BY <2>5, KeyStep
  <2>6. CASE Step(s)
    BY <1>1, <2>1, <2>3, <2>4, <2>6 DEF Step
  <2>7. CASE Begin(s)
    BY <2>2, <2>5, <2>7 DEF Begin, KeyCall
  <2> QED
    BY <1>6, <2>6, <2>7
<1>7. CASE Admin
  BY <1>7, KeyAdminStep, CatalogueStep DEF Admin
<1> QED
  BY <1>3, <1>4, <1>5, <1>6, <1>7 DEF Next

\* The shop opens with a catalogue and keys whose references hold.
LEMMA ShopStart == Init => ShopInv
<1> SUFFICES ASSUME Init PROVE ShopInv
  OBVIOUS
<1>1. WalletInv /\ Rows /\ now \in Nat
  BY ShopAssumption DEF Init, WalletInv, Rows
<1>2. orders = <<>> /\ orders \in Seq(OrderRow) /\ DOMAIN orders = {}
  BY DEF Init
<1>3. Sales
  BY <1>2, ShopAssumption DEF Sales, ReferencesLive, Stored, Init
<1>4. CallsOK
  BY IdleIsProper DEF CallsOK, Init
<1> QED
  BY <1>1, <1>3, <1>4 DEF ShopInv

-----------------------------------------------------------------------------

\* Orders and keys refer to rows that exist, although a purchase reads its
\* package and key statements before it writes, and whatever is deleted, fails
\* or crashes in between (the foreign keys of orders and keys).
THEOREM ReferencesStayLive == Spec => []ReferencesLive
  BY ShopStart, ShopStep, PTL DEF Spec, ShopInv, Sales

\* Purchases keep the ledger an explanation of every balance (BuyPackage debits
\* in a transaction of its own).
THEOREM ShopBooksBalance == Spec => []LedgerExplainsBalance
  BY ShopStart, ShopStep, PTL DEF Spec, ShopInv, WalletInv

\* No purchase takes a wallet below its floor, however many of them overlap.
THEOREM ShopFloorNeverCrossed == Spec => [][DebitsRespectFloor]_vars
  BY ShopStart, ShopStep, PTL DEF Spec

-----------------------------------------------------------------------------
(* Shapes.                                                                 *)

\* The history and what counts the steps.
Traces ==
  /\ history \in [Keys -> Seq(HistoryRow)]
  /\ edits \in 0..MaxEdits /\ faults \in 0..MaxFaults

\* Only a trace and the deletion of its key write history; the counters count.
LEMMA TracesStep == ShopInv /\ Traces /\ [Next]_vars => Traces'
<1> SUFFICES ASSUME ShopInv, Traces, [Next]_vars PROVE Traces'
  OBVIOUS
<1> USE ShopAssumption
<1>0. /\ CallsOK /\ Rows /\ history \in [Keys -> Seq(HistoryRow)]
      /\ edits \in 0..MaxEdits /\ faults \in 0..MaxFaults
  BY DEF ShopInv, Traces
<1>1. ASSUME NEW s \in Slots, Trace(s) PROVE Traces'
  <2> DEFINE c == call[s]
             k == c.key
             h == TraceRow(c)
  <2>1. /\ c \in Call /\ ProperCall(c, keys) /\ c.pc = "trace" /\ UNCHANGED <<edits, faults>>
    BY <1>0, <1>1 DEF CallsOK, Trace, bounds
  <2>2. CASE UNCHANGED history
    BY <1>0, <2>1, <2>2 DEF Traces
  <2>3. CASE /\ Stored(keys[k]) /\ history' = [history EXCEPT ![k] = Append(@, h)]
    <3>1. /\ k \in Keys /\ c.act \in {"renew", "switch"} /\ c.user \in Users \cup {None}
          /\ c.old \in Quota /\ c.new \in Change /\ Accepts(c.new) /\ c.paidAt \in Nat
      BY <2>1, <2>3 DEF ProperCall, Known, Call
    <3>2. c.new \in Quota
      BY <3>1 DEF Accepts, Change, Quota
    <3>3. h \in HistoryRow
      BY <3>1, <3>2 DEF TraceRow, HistoryRow
    <3> HIDE DEF h
    <3>4. Append(history[k], h) \in Seq(HistoryRow)
      BY <1>0, <3>1, <3>3
    <3> QED
      BY <1>0, <2>1, <2>3, <3>4 DEF Traces
  <2> QED
    BY <1>1, <2>2, <2>3 DEF Trace
<1>2. ASSUME NEW k \in Keys, DeleteKey(k) PROVE Traces'
  <2>1. /\ history' = [history EXCEPT ![k] = <<>>] /\ UNCHANGED faults
        /\ edits' = edits + 1 /\ edits < MaxEdits
    BY <1>2 DEF DeleteKey, Edit
  <2>2. <<>> \in Seq(HistoryRow)
    OBVIOUS
  <2>3. history' \in [Keys -> Seq(HistoryRow)]
    BY <1>0, <2>1, <2>2
  <2> QED
    BY <1>0, <2>1, <2>3 DEF Traces
<1>3. ASSUME UNCHANGED history,
             \/ UNCHANGED <<edits, faults>>
             \/ edits < MaxEdits /\ edits' = edits + 1 /\ UNCHANGED faults
             \/ faults < MaxFaults /\ faults' = faults + 1 /\ UNCHANGED edits
      PROVE  Traces'
  BY <1>0, <1>3 DEF Traces
<1>4. ASSUME NEW s \in Slots, Step(s) \/ Begin(s) PROVE Traces'
  <2>1. CASE Step(s) /\ ~Trace(s)
    BY <1>3, <2>1 DEF Step, BuyOwner, BuyDebit, BuyRead, BuyInsert, Order, Write,
       ExpireWrite, Fail, tables, bounds
  <2>2. CASE Begin(s)
    BY <1>3, <2>2 DEF Begin, BuyBegin, MgmtRenewKey, MgmtSwitchQuota, ChangeBegin,
       ExpireRead, tables, bounds
  <2> QED
    BY <1>1, <1>4, <2>1, <2>2
<1>5. CASE Admin
  <2>1. ASSUME NEW k \in Keys, NEW u \in Users,
               \/ Transfer(k, u)
               \/ \E p \in Packages \cup {None}, row \in PackageRows :
                    MgmtCreateKey(k, u, p, row)
        PROVE  Traces'
    BY <1>3, <2>1 DEF Transfer, MgmtCreateKey, Edit
  <2>2. ASSUME NEW p \in Packages,
               \/ DeletePackage(p)
               \/ \E row \in PackageRows : CreatePackage(p, row) \/ UpdatePackage(p, row)
        PROVE  Traces'
    BY <1>3, <2>2 DEF DeletePackage, CreatePackage, UpdatePackage, Edit
  <2> QED
    BY <1>2, <1>5, <2>1, <2>2 DEF Admin
<1>6. CASE Crash \/ Tick \/ UNCHANGED vars
  BY <1>3, <1>6 DEF Crash, Tick, vars, tables, bounds
<1> QED
  BY <1>4, <1>5, <1>6 DEF Next

\* What a run has at any point: the invariant and the shapes of the history.
LEMMA ShopAlways == Spec => [](ShopInv /\ Traces)
<1>1. Init => Traces
  BY ShopAssumption DEF Init, Traces
<1> QED
  BY <1>1, ShopStart, ShopStep, TracesStep, PTL DEF Spec

\* No key sells less than nothing and no table holds what its columns refuse, though
\* a renewal may be asked to take away more than there is.
THEOREM ShopTypeCorrect == Spec => []TypeOK
<1>1. ShopInv /\ Traces => TypeOK
  BY DEF ShopInv, WalletInv, Rows, Sales, CallsOK, Traces, TypeOK
<1> QED
  BY <1>1, ShopAlways, PTL

-----------------------------------------------------------------------------
(* Orders and payments.                                                    *)

\* The buyer of call c has paid and waits for the key and the order.
Owed(c) ==
  \/ c.pc \in {"buy_read", "buy_insert", "order"}
  \/ c.pc \in {"write", "trace"} /\ c.user # None

\* Orders, open purchases and debits of user u for package p at price x.
OrdersFor(u, p, x) ==
  {i \in DOMAIN orders : orders[i].user = u /\ orders[i].pkg = p /\ orders[i].price = x}
OwedFor(u, p, x) ==
  {s \in Slots : /\ Owed(call[s]) /\ call[s].user = u /\ call[s].pkg = p
                 /\ call[s].row.price = x}
PaidFor(u, p, x) ==
  {i \in DOMAIN ledger : /\ ledger[i].user = u /\ ledger[i].ref = <<"order", p>>
                         /\ ledger[i].delta = -x}

\* A debit is there for each order and each purchase under way.
PaidFirst ==
  \A u \in Users, p \in Packages, x \in Nat :
    Cardinality(OrdersFor(u, p, x)) + Cardinality(OwedFor(u, p, x))
      <= Cardinality(PaidFor(u, p, x))

\* Whose purchase is under way after a step was so before.
Later(c, d) ==
  Owed(d) => Owed(c) /\ d.user = c.user /\ d.pkg = c.pkg /\ d.row = c.row

\* What is counted is finite.
LEMMA PaidCounts ==
  ASSUME ShopInv, NEW u, NEW p, NEW x
  PROVE  /\ IsFiniteSet(OrdersFor(u, p, x)) /\ Cardinality(OrdersFor(u, p, x)) \in Nat
         /\ IsFiniteSet(OwedFor(u, p, x)) /\ Cardinality(OwedFor(u, p, x)) \in Nat
         /\ IsFiniteSet(PaidFor(u, p, x)) /\ Cardinality(PaidFor(u, p, x)) \in Nat
<1>1. orders \in Seq(OrderRow) /\ ledger \in Seq(LedgerRow)
  BY DEF ShopInv, Sales, WalletInv, WalletTypeOK
<1>2. IsFiniteSet(1..Len(orders)) /\ IsFiniteSet(1..Len(ledger)) /\ IsFiniteSet(Slots)
  BY <1>1, ShopAssumption, FS_Interval
<1>3. /\ OrdersFor(u, p, x) \subseteq 1..Len(orders)
      /\ PaidFor(u, p, x) \subseteq 1..Len(ledger) /\ OwedFor(u, p, x) \subseteq Slots
  BY <1>1 DEF OrdersFor, PaidFor, OwedFor
<1> QED
  BY <1>2, <1>3, FS_Subset, FS_CardinalityType

\* No order and no payment is written, and no purchase begins to be owed.
LEMMA NothingOwed ==
  ASSUME ShopInv, ShopInv', PaidFirst, UNCHANGED <<orders, ledger>>,
         \A s \in Slots : Later(call[s], call'[s])
  PROVE  PaidFirst'
<1> SUFFICES ASSUME NEW u \in Users, NEW p \in Packages, NEW x \in Nat
             PROVE  Cardinality(OrdersFor(u, p, x)') + Cardinality(OwedFor(u, p, x)')
                      <= Cardinality(PaidFor(u, p, x)')
  BY DEF PaidFirst
<1>1. OrdersFor(u, p, x)' = OrdersFor(u, p, x) /\ PaidFor(u, p, x)' = PaidFor(u, p, x)
  BY DEF OrdersFor, PaidFor
<1>2. OwedFor(u, p, x)' \subseteq OwedFor(u, p, x)
  BY DEF OwedFor, Later
<1>3. /\ Cardinality(OrdersFor(u, p, x)) \in Nat /\ Cardinality(PaidFor(u, p, x)) \in Nat
      /\ IsFiniteSet(OwedFor(u, p, x)) /\ Cardinality(OwedFor(u, p, x)) \in Nat
  BY PaidCounts
<1>4. /\ Cardinality(OwedFor(u, p, x)') <= Cardinality(OwedFor(u, p, x))
      /\ Cardinality(OwedFor(u, p, x)') \in Nat
  BY <1>2, <1>3, FS_Subset, FS_CardinalityType
<1>5. Cardinality(OrdersFor(u, p, x)) + Cardinality(OwedFor(u, p, x))
        <= Cardinality(PaidFor(u, p, x))
  BY DEF PaidFirst
<1> QED
  BY <1>1, <1>3, <1>4, <1>5

\* The payment: its debit is there before the purchase goes on.
LEMMA PaymentCounted ==
  ASSUME ShopInv, ShopInv', PaidFirst, NEW s \in Slots, BuyDebit(s)
  PROVE  PaidFirst'
<1> DEFINE c   == call[s]
           new == Len(ledger) + 1
<1>0. /\ call \in [Slots -> Call] /\ c \in Call /\ c.pc = "buy_debit"
      /\ UNCHANGED orders /\ ledger \in Seq(LedgerRow)
  BY DEF ShopInv, CallsOK, BuyDebit, tables, WalletInv, WalletTypeOK
<1>1. CASE UNCHANGED walletVars /\ Set(s, Idle)
  <2>1. \A t \in Slots : Later(call[t], call'[t])
    BY <1>0, <1>1 DEF Set, Later, Owed, Idle
  <2> QED
    BY <1>0, <1>1, <2>1, NothingOwed DEF walletVars
<1>2. CASE /\ AdjustBalance(c.user, -c.row.price, "purchase", <<"order", c.pkg>>, "portal")
           /\ Set(s, AfterDebit(c))
  <2> SUFFICES ASSUME NEW u \in Users, NEW p \in Packages, NEW x \in Nat
               PROVE  Cardinality(OrdersFor(u, p, x)') + Cardinality(OwedFor(u, p, x)')
                        <= Cardinality(PaidFor(u, p, x)')
    BY DEF PaidFirst
  <2> DEFINE d    == AfterDebit(c)
             row  == ledger'[new]
             mine == c.user = u /\ c.pkg = p /\ c.row.price = x
  <2>1. /\ d.user = c.user /\ d.pkg = c.pkg /\ d.row = c.row /\ Owed(d) /\ ~Owed(c)
    BY <1>0 DEF AfterDebit, Owed, Call
  <2>2. \A t \in Slots : call'[t] = IF t = s THEN d ELSE call[t]
    BY <1>0, <1>2 DEF Set
  <2>3. /\ Len(ledger) \in Nat /\ DOMAIN ledger = 1..Len(ledger)
        /\ DOMAIN ledger' = 1..new /\ \A i \in 1..Len(ledger) : ledger'[i] = ledger[i]
        /\ row.user = c.user /\ row.ref = <<"order", c.pkg>> /\ row.delta = -c.row.price
    BY <1>0, <1>2 DEF AdjustBalance
  <2>4. c.row.price \in Nat
    BY <1>0 DEF Call, Row
  <2> HIDE DEF d, row
  <2>5. OrdersFor(u, p, x)' = OrdersFor(u, p, x)
    BY <1>0 DEF OrdersFor
  <2>6. /\ mine => OwedFor(u, p, x)' = OwedFor(u, p, x) \cup {s} /\ s \notin OwedFor(u, p, x)
        /\ ~mine => OwedFor(u, p, x)' = OwedFor(u, p, x)
    BY <2>1, <2>2 DEF OwedFor
  <2>7. /\ mine =>
             PaidFor(u, p, x)' = PaidFor(u, p, x) \cup {new} /\ new \notin PaidFor(u, p, x)
        /\ ~mine => PaidFor(u, p, x)' = PaidFor(u, p, x)
    <3>1. /\ new \notin PaidFor(u, p, x)
          /\ PaidFor(u, p, x)' = PaidFor(u, p, x) \cup
               (IF row.user = u /\ row.ref = <<"order", p>> /\ row.delta = -x
                  THEN {new} ELSE {})
      BY <2>3 DEF PaidFor, row
    <3>2. row.user = u /\ row.ref = <<"order", p>> /\ row.delta = -x <=> mine
      BY <2>3, <2>4
    <3> QED
      BY <3>1, <3>2
  <2>8. /\ Cardinality(OrdersFor(u, p, x)) \in Nat
        /\ IsFiniteSet(PaidFor(u, p, x)) /\ Cardinality(PaidFor(u, p, x)) \in Nat
        /\ IsFiniteSet(OwedFor(u, p, x)) /\ Cardinality(OwedFor(u, p, x)) \in Nat
    BY PaidCounts
  <2>9. Cardinality(OrdersFor(u, p, x)) + Cardinality(OwedFor(u, p, x))
          <= Cardinality(PaidFor(u, p, x))
    BY DEF PaidFirst
  <2>10. CASE mine
    <3>1. /\ Cardinality(OwedFor(u, p, x)') = Cardinality(OwedFor(u, p, x)) + 1
          /\ Cardinality(PaidFor(u, p, x)') = Cardinality(PaidFor(u, p, x)) + 1
      BY <2>6, <2>7, <2>8, <2>10, FS_AddElement
    <3> QED
      BY <2>5, <2>8, <2>9, <3>1
  <2>11. CASE ~mine
    BY <2>5, <2>6, <2>7, <2>9, <2>11
  <2> QED
    BY <2>10, <2>11
<1> QED
  BY <1>1, <1>2 DEF BuyDebit

\* The order takes the place of the purchase.
LEMMA OrderCounted ==
  ASSUME ShopInv, ShopInv', PaidFirst, NEW s \in Slots, Order(s)
  PROVE  PaidFirst'
<1> DEFINE c   == call[s]
           new == Len(orders) + 1
<1>0. /\ call \in [Slots -> Call] /\ c \in Call /\ c.pc = "order" /\ Set(s, Idle)
      /\ UNCHANGED ledger /\ orders \in Seq(OrderRow)
  BY DEF ShopInv, CallsOK, Order, walletVars, Sales
<1>1. \A t \in Slots : call'[t] = IF t = s THEN Idle ELSE call[t]
  BY <1>0 DEF Set
<1>2. CASE UNCHANGED orders
  <2>1. \A t \in Slots : Later(call[t], call'[t])
    BY <1>1 DEF Later, Owed, Idle
  <2> QED
    BY <1>0, <1>2, <2>1, NothingOwed
<1>3. CASE orders' = Append(orders, NewOrder(c))
  <2> SUFFICES ASSUME NEW u \in Users, NEW p \in Packages, NEW x \in Nat
               PROVE  Cardinality(OrdersFor(u, p, x)') + Cardinality(OwedFor(u, p, x)')
                        <= Cardinality(PaidFor(u, p, x)')
    BY DEF PaidFirst
  <2> DEFINE mine == c.user = u /\ c.pkg = p /\ c.row.price = x
  <2>1. PaidFor(u, p, x)' = PaidFor(u, p, x)
    BY <1>0 DEF PaidFor
  <2>2. /\ mine => OwedFor(u, p, x)' = OwedFor(u, p, x) \ {s} /\ s \in OwedFor(u, p, x)
        /\ ~mine => OwedFor(u, p, x)' = OwedFor(u, p, x)
    BY <1>0, <1>1 DEF OwedFor, Owed, Idle
  <2>3. /\ new \notin OrdersFor(u, p, x)
        /\ OrdersFor(u, p, x)' = OrdersFor(u, p, x) \cup (IF mine THEN {new} ELSE {})
    <3>1. /\ Len(orders) \in Nat /\ DOMAIN orders = 1..Len(orders)
          /\ DOMAIN orders' = 1..new /\ \A i \in 1..Len(orders) : orders'[i] = orders[i]
          /\ orders'[new] = NewOrder(c)
      BY <1>0, <1>3
    <3> QED
      BY <3>1 DEF OrdersFor, NewOrder
  <2>4. /\ IsFiniteSet(OrdersFor(u, p, x)) /\ Cardinality(OrdersFor(u, p, x)) \in Nat
        /\ Cardinality(PaidFor(u, p, x)) \in Nat
        /\ IsFiniteSet(OwedFor(u, p, x)) /\ Cardinality(OwedFor(u, p, x)) \in Nat
    BY PaidCounts
  <2>5. Cardinality(OrdersFor(u, p, x)) + Cardinality(OwedFor(u, p, x))
          <= Cardinality(PaidFor(u, p, x))
    BY DEF PaidFirst
  <2>6. CASE mine
    <3>1. Cardinality(OwedFor(u, p, x)') = Cardinality(OwedFor(u, p, x)) - 1
      BY <2>2, <2>4, <2>6, FS_RemoveElement
    <3>2. OrdersFor(u, p, x)' = OrdersFor(u, p, x) \cup {new}
      BY <2>3, <2>6
    <3>3. Cardinality(OrdersFor(u, p, x)') = Cardinality(OrdersFor(u, p, x)) + 1
      BY <2>3, <2>4, <3>2, FS_AddElement
    <3> QED
      BY <2>1, <2>4, <2>5, <3>1, <3>3
  <2>7. CASE ~mine
    BY <2>1, <2>2, <2>3, <2>5, <2>7
  <2> QED
    BY <2>6, <2>7
<1> QED
  BY <1>2, <1>3 DEF Order

\* One slot goes on; nothing begins to be owed in it.
LEMMA OwedLater ==
  ASSUME ShopInv, NEW s \in Slots, NEW d, Set(s, d), Later(call[s], d)
  PROVE  \A t \in Slots : Later(call[t], call'[t])
<1>1. call \in [Slots -> Call]
  BY DEF ShopInv, CallsOK
<1>2. \A t \in Slots : call'[t] = IF t = s THEN d ELSE call[t]
  BY <1>1 DEF Set
<1> QED
  BY <1>2 DEF Later

\* Only a payment opens a purchase (BuyPackage): what reads, inserts, updates or
\* traces goes on with one that was paid, and the rest concerns no purchase.
LEMMA NothingElseOwed ==
  ASSUME ShopInv, NEW s \in Slots, Step(s) \/ Begin(s), ~BuyDebit(s), ~Order(s)
  PROVE  (\A t \in Slots : Later(call[t], call'[t])) /\ UNCHANGED <<orders, ledger>>
<1> DEFINE c == call[s]
<1>0. c \in Call /\ ProperCall(c, keys)
  BY DEF ShopInv, CallsOK
<1>1. UNCHANGED <<orders, ledger>>
  BY DEF Step, Begin, BuyOwner, BuyRead, BuyInsert, Write, Trace, ExpireWrite, Fail,
     BuyBegin, MgmtRenewKey, MgmtSwitchQuota, ChangeBegin, ExpireRead, tables, walletVars
<1>2. \E d : Set(s, d) /\ Later(c, d)
  <2>1. Later(c, Idle)
    BY DEF Later, Owed, Idle
  <2>2. ASSUME NEW d, d.pc \in {"buy_owner", "buy_debit", "expire"} PROVE Later(c, d)
    BY <2>2 DEF Later, Owed
  <2>3. CASE BuyOwner(s)
    <3> DEFINE d == [c EXCEPT !.pc = "buy_debit"]
    <3>1. Set(s, d) \/ Set(s, Idle)
      BY <2>3 DEF BuyOwner
    <3>2. d.pc = "buy_debit"
      BY <1>0 DEF Call
    <3> HIDE DEF d
    <3> QED
      BY <2>1, <2>2, <3>1, <3>2
  <2>4. CASE BuyRead(s)
    <3> DEFINE q == QuotaRead(c.key)
               d == [c EXCEPT !.pc = "write", !.old = q,
                              !.new = [amount  |-> q.amount + c.row.amount,
                                       expires |-> RenewedExpiry(c.row, q, c.paidAt)]]
    <3>1. Set(s, d) /\ c.pc = "buy_read"
      BY <2>4 DEF BuyRead
    <3>2. d.pc = "write" /\ d.user = c.user /\ d.pkg = c.pkg /\ d.row = c.row
      BY <1>0 DEF Call
    <3> QED
      BY <3>1, <3>2 DEF Later, Owed
  <2>5. CASE BuyInsert(s)
    <3>1. \/ Set(s, Idle)
          \/ \E k \in Keys : Set(s, [c EXCEPT !.pc = "order", !.key = k])
      BY <2>5 DEF BuyInsert
    <3>2. ASSUME NEW k \in Keys, Set(s, [c EXCEPT !.pc = "order", !.key = k])
          PROVE  Later(c, [c EXCEPT !.pc = "order", !.key = k])
      BY <1>0, <2>5 DEF Later, Owed, Call, BuyInsert
    <3> QED
      BY <2>1, <3>1, <3>2
  <2>6. CASE Write(s)
    <3> DEFINE d == [c EXCEPT !.pc = "trace"]
    <3>1. (Set(s, d) \/ Set(s, Idle)) /\ c.pc = "write"
      BY <2>6 DEF Write
    <3>2. d.pc = "trace" /\ d.user = c.user /\ d.pkg = c.pkg /\ d.row = c.row
      BY <1>0 DEF Call
    <3>3. Later(c, d)
      BY <3>1, <3>2 DEF Later, Owed
    <3> QED
      BY <2>1, <3>1, <3>3
  <2>7. CASE Trace(s) \/ Fail(s)
    <3>1. Set(s, Idle) \/ (c.pc = "trace" /\ Set(s, AfterTrace(c)))
      BY <2>7 DEF Trace, Fail
    <3>2. ASSUME c.pc = "trace", c.user # None PROVE Later(c, AfterTrace(c))
      BY <1>0, <3>2 DEF AfterTrace, Later, Owed, Call
    <3>3. c.user = None => AfterTrace(c) = Idle
      BY DEF AfterTrace
    <3> QED
      BY <2>1, <3>1, <3>2, <3>3
  <2>8. CASE ExpireWrite(s)
    BY <2>1, <2>8 DEF ExpireWrite
  <2>9. ASSUME NEW u \in Users, NEW p \in Packages, NEW k \in Keys \cup {None},
               BuyBegin(s, u, p, k)
        PROVE  \E d : Set(s, d) /\ Later(c, d)
    <3> DEFINE d == [Idle EXCEPT !.pc = IF k = None THEN "buy_debit" ELSE "buy_owner",
                                 !.act = IF k = None THEN "buy" ELSE "renew",
                                 !.user = u, !.pkg = p, !.row = pkgs[p].row, !.key = k]
    <3>1. Set(s, d)
      BY <2>9 DEF BuyBegin
    <3>2. d.pc \in {"buy_debit", "buy_owner"}
      BY DEF Idle
    <3> HIDE DEF d
    <3> QED
      BY <2>2, <3>1, <3>2
  <2>10. ASSUME NEW k \in Keys, NEW act, NEW q, ChangeBegin(s, k, act, q)
         PROVE  \E d : Set(s, d) /\ Later(c, d)
    <3> DEFINE d == [Idle EXCEPT !.pc = "write", !.act = act, !.key = k,
                                 !.old = keys[k].quota, !.new = q]
    <3>1. Set(s, d)
      BY <2>10 DEF ChangeBegin
    <3>2. d.pc = "write" /\ d.user = None
      BY DEF Idle
    <3> QED
      BY <3>1, <3>2 DEF Later, Owed
  <2>11. ASSUME NEW k \in Keys, ExpireRead(s, k)
         PROVE  \E d : Set(s, d) /\ Later(c, d)
    <3> DEFINE d == [Idle EXCEPT !.pc = "expire", !.act = "expire", !.key = k]
    <3>1. Set(s, d)
      BY <2>11 DEF ExpireRead
    <3>2. d.pc = "expire"
      BY DEF Idle
    <3> HIDE DEF d
    <3> QED
      BY <2>2, <3>1, <3>2
  <2>12. CASE Step(s)
    BY <2>3, <2>4, <2>5, <2>6, <2>7, <2>8, <2>12 DEF Step
  <2>13. CASE Begin(s)
    BY <2>9, <2>10, <2>11, <2>13 DEF Begin, MgmtRenewKey, MgmtSwitchQuota
  <2> QED
    BY <2>12, <2>13
<1> QED
  BY <1>1, <1>2, OwedLater

\* Every step keeps the debits ahead of the orders.
LEMMA PaidStep == ShopInv /\ ShopInv' /\ PaidFirst /\ [Next]_vars => PaidFirst'
<1> SUFFICES ASSUME ShopInv, ShopInv', PaidFirst, [Next]_vars PROVE PaidFirst'
  OBVIOUS
<1>1. ASSUME NEW s \in Slots, Step(s) \/ Begin(s) PROVE PaidFirst'
  BY <1>1, PaymentCounted, OrderCounted, NothingElseOwed, NothingOwed
<1>2. ASSUME UNCHANGED <<orders, ledger>>, UNCHANGED call \/ call' = [s \in Slots |-> Idle]
      PROVE  PaidFirst'
  <2>1. \A s \in Slots : Later(call[s], call'[s])
    BY <1>2 DEF Later, Owed, Idle
  <2> QED
    BY <1>2, <2>1, NothingOwed
<1>3. CASE Admin
  <2>1. UNCHANGED <<orders, ledger, call>>
    BY <1>3 DEF Admin, MgmtCreateKey, Transfer, DeleteKey, DeletePackage, CreatePackage,
       UpdatePackage, walletVars
  <2> QED
    BY <1>2, <2>1
<1>4. CASE Crash \/ Tick \/ UNCHANGED vars
  BY <1>2, <1>4 DEF Crash, Tick, vars, tables, walletVars
<1> QED
  BY <1>1, <1>3, <1>4 DEF Next

\* Nobody has bought anything yet.
LEMMA PaidStart == Init => PaidFirst
<1> SUFFICES ASSUME Init, NEW u \in Users, NEW p \in Packages, NEW x \in Nat
             PROVE  Cardinality(OrdersFor(u, p, x)) + Cardinality(OwedFor(u, p, x))
                      <= Cardinality(PaidFor(u, p, x))
  BY DEF PaidFirst
<1>1. OrdersFor(u, p, x) = {} /\ OwedFor(u, p, x) = {}
  BY DEF Init, OrdersFor, OwedFor, Owed, Idle
<1>2. Cardinality(PaidFor(u, p, x)) \in Nat
  BY ShopStart, PaidCounts
<1> QED
  BY <1>1, <1>2, FS_EmptySet

\* Every order was paid, however purchases overlap, fail or crash on the way and
\* whatever is edited in between (BuyPackage debits before it delivers).
THEOREM OrdersPaid == Spec => []OrdersArePaid
<1>1. ShopInv /\ PaidFirst => OrdersArePaid
  <2> SUFFICES ASSUME ShopInv, PaidFirst PROVE OrdersArePaid
    OBVIOUS
  <2> SUFFICES ASSUME NEW i \in DOMAIN orders
               PROVE  LET u == orders[i].user
                          p == orders[i].pkg
                          x == orders[i].price
                      IN Cardinality(OrdersFor(u, p, x)) <= Cardinality(PaidFor(u, p, x))
    BY DEF OrdersArePaid, OrdersFor, PaidFor
  <2>1. orders[i] \in OrderRow
    BY DEF ShopInv, Sales
  <2> DEFINE u == orders[i].user
             p == orders[i].pkg
             x == orders[i].price
  <2>2. u \in Users /\ p \in Packages /\ x \in Nat
    BY <2>1 DEF OrderRow
  <2> HIDE DEF u, p, x
  <2>3. /\ Cardinality(OrdersFor(u, p, x)) \in Nat /\ Cardinality(OwedFor(u, p, x)) \in Nat
        /\ Cardinality(PaidFor(u, p, x)) \in Nat
    BY PaidCounts
  <2>4. Cardinality(OrdersFor(u, p, x)) + Cardinality(OwedFor(u, p, x))
          <= Cardinality(PaidFor(u, p, x))
    BY <2>2 DEF PaidFirst
  <2>5. Cardinality(OrdersFor(u, p, x)) <= Cardinality(PaidFor(u, p, x))
    BY <2>3, <2>4
  <2> QED
    BY <2>5 DEF u, p, x
<1> QED
  BY <1>1, ShopStart, ShopStep, PaidStart, PaidStep, PTL DEF Spec

-----------------------------------------------------------------------------
(* Renewals.                                                               *)

\* What a renewal is about to write keeps the rest, like the rows written.
RestCall(c, until) ==
  c.paidAt <= until /\ (c.pc \in {"write", "trace"} => Keeps(c, until))

RestKept == (\A s \in Slots : RestCall(call[s], now)) /\ RenewalKeepsRest

\* What is kept stays kept.
LEMMA KeepsLater ==
  ASSUME NEW t \in Nat, NEW until \in Nat, t <= until, NEW row,
         row.paidAt \in Nat, row.old \in Quota, Keeps(row, t)
  PROVE  Keeps(row, until)
  BY DEF Keeps, Quota

\* A renewal computes an end that keeps the rest (the second read of BuyPackage):
\* it adds the days to an end still to come, and counts from the payment what was
\* over then.
LEMMA ReadKeeps ==
  ASSUME ShopInv, NEW s \in Slots, BuyRead(s), call[s].paidAt <= now
  PROVE  \E d : Set(s, d) /\ RestCall(d, now)
<1> DEFINE c == call[s]
           q == QuotaRead(c.key)
           e == RenewedExpiry(c.row, q, c.paidAt)
           d == [c EXCEPT !.pc = "write", !.old = q,
                          !.new = [amount |-> q.amount + c.row.amount, expires |-> e]]
<1>1. /\ c \in Call /\ c.pc = "buy_read" /\ Set(s, d) /\ now \in Nat
      /\ Known(c.key, keys) /\ keys \in [Keys -> KeyState]
  BY DEF ShopInv, CallsOK, BuyRead, ProperCall, Rows
<1>2. c.row.days \in Int /\ c.paidAt \in Nat
  BY <1>1 DEF Call, Row
<1>3. q.expires \in Int
  BY <1>1 DEF QuotaRead, NoQuota, KeyState, Known, Quota
<1>4. d.paidAt = c.paidAt /\ d.old = q /\ d.new.expires = e
  BY <1>1 DEF Call
<1> HIDE DEF q, d
<1>5. q.expires > 0 => e = -1 \/ e > q.expires \/ q.expires \in (c.paidAt + 1)..now
  BY <1>1, <1>2, <1>3 DEF RenewedExpiry, Fresh
<1>6. RestCall(d, now)
  BY <1>4, <1>5 DEF RestCall, Keeps
<1> QED
  BY <1>1, <1>6

\* Every call of a slot goes on with what keeps the rest.
LEMMA CallsKeep ==
  ASSUME ShopInv, NEW s \in Slots, Step(s) \/ Begin(s), RestCall(call[s], now)
  PROVE  (\E d : Set(s, d) /\ RestCall(d, now)) /\ now' = now
<1> DEFINE c == call[s]
<1>0. c \in Call /\ now \in Nat /\ c.paidAt \in Nat /\ c.paidAt <= now
  BY DEF ShopInv, CallsOK, RestCall, Call
<1>1. now' = now
  BY DEF Step, Begin, BuyOwner, BuyDebit, BuyRead, BuyInsert, Order, Write, Trace,
     ExpireWrite, Fail, BuyBegin, MgmtRenewKey, MgmtSwitchQuota, ChangeBegin, ExpireRead,
     bounds
<1>2. RestCall(Idle, now)
  BY <1>0 DEF RestCall, Idle
<1>3. ASSUME NEW pc \in {"buy_debit", "buy_insert", "buy_read", "order"}
      PROVE  /\ RestCall([c EXCEPT !.pc = pc], now)
             /\ RestCall([c EXCEPT !.pc = pc, !.paidAt = now], now)
             /\ \A k : RestCall([c EXCEPT !.pc = pc, !.key = k], now)
  <2>1. ASSUME NEW d, d.paidAt \in Nat, d.paidAt <= now, d.pc = pc PROVE RestCall(d, now)
    BY <2>1 DEF RestCall
  <2>2. RestCall([c EXCEPT !.pc = pc], now)
    <3>1. [c EXCEPT !.pc = pc].pc = pc /\ [c EXCEPT !.pc = pc].paidAt = c.paidAt
      BY <1>0 DEF Call
    <3> QED
      BY <1>0, <2>1, <3>1
  <2>3. RestCall([c EXCEPT !.pc = pc, !.paidAt = now], now)
    <3> DEFINE d == [c EXCEPT !.pc = pc, !.paidAt = now]
    <3>1. d.pc = pc /\ d.paidAt = now
      BY <1>0 DEF Call
    <3> HIDE DEF d
    <3>2. RestCall(d, now)
      BY <1>0, <2>1, <3>1
    <3> QED
      BY <3>2 DEF d
  <2>4. ASSUME NEW k PROVE RestCall([c EXCEPT !.pc = pc, !.key = k], now)
    <3> DEFINE d == [c EXCEPT !.pc = pc, !.key = k]
    <3>1. d.pc = pc /\ d.paidAt = c.paidAt
      BY <1>0 DEF Call
    <3> HIDE DEF d
    <3>2. RestCall(d, now)
      BY <1>0, <2>1, <3>1
    <3> QED
      BY <3>2 DEF d
  <2> QED
    BY <2>2, <2>3, <2>4
<1>4. CASE BuyOwner(s) \/ BuyDebit(s) \/ Order(s) \/ ExpireWrite(s)
  <2>1. \/ Set(s, Idle) \/ Set(s, [c EXCEPT !.pc = "buy_debit"]) \/ Set(s, AfterDebit(c))
    BY <1>4 DEF BuyOwner, BuyDebit, Order, ExpireWrite
  <2>2. RestCall(AfterDebit(c), now)
    BY <1>3 DEF AfterDebit
  <2> QED
    BY <1>1, <1>2, <1>3, <2>1, <2>2
<1>5. CASE BuyInsert(s)
  <2>1. Set(s, Idle) \/ \E k \in Keys : Set(s, [c EXCEPT !.pc = "order", !.key = k])
    BY <1>5 DEF BuyInsert
  <2> QED
    BY <1>1, <1>2, <1>3, <2>1
<1>6. CASE Trace(s) \/ Fail(s)
  <2>1. Set(s, Idle) \/ Set(s, AfterTrace(c))
    BY <1>6 DEF Trace, Fail
  <2>2. RestCall(AfterTrace(c), now)
    BY <1>2, <1>3 DEF AfterTrace
  <2> QED
    BY <1>1, <1>2, <2>1, <2>2
<1>7. CASE Write(s)
  <2> DEFINE d == [c EXCEPT !.pc = "trace"]
  <2>1. (Set(s, d) \/ Set(s, Idle)) /\ c.pc = "write"
    BY <1>7 DEF Write
  <2>2. /\ d.pc = "trace" /\ d.act = c.act /\ d.user = c.user /\ d.old = c.old
        /\ d.new = c.new /\ d.paidAt = c.paidAt
    BY <1>0 DEF Call
  <2> HIDE DEF d
  <2>3. RestCall(d, now)
    BY <2>1, <2>2 DEF RestCall, Keeps
  <2> QED
    BY <1>1, <1>2, <2>1, <2>3
<1>8. ASSUME NEW k \in Keys, NEW act, NEW q, ChangeBegin(s, k, act, q)
      PROVE  \E d : Set(s, d) /\ RestCall(d, now)
  <2> DEFINE d == [Idle EXCEPT !.pc = "write", !.act = act, !.key = k,
                               !.old = keys[k].quota, !.new = q]
  <2>1. Set(s, d)
    BY <1>8 DEF ChangeBegin
  <2>2. d.paidAt = 0 /\ d.user = None
    BY DEF Idle
  <2> HIDE DEF d
  <2>3. RestCall(d, now)
    BY <1>0, <2>2 DEF RestCall, Keeps
  <2> QED
    BY <2>1, <2>3
<1>9. ASSUME NEW d, d.paidAt = 0, d.pc \in {"buy_owner", "buy_debit", "expire"}
      PROVE  RestCall(d, now)
  BY <1>0, <1>9 DEF RestCall
<1>10. ASSUME NEW k \in Keys, ExpireRead(s, k)
       PROVE  \E d : Set(s, d) /\ RestCall(d, now)
  <2> DEFINE d == [Idle EXCEPT !.pc = "expire", !.act = "expire", !.key = k]
  <2>1. Set(s, d) /\ d.pc = "expire" /\ d.paidAt = 0
    BY <1>10 DEF ExpireRead, Idle
  <2> HIDE DEF d
  <2> QED
    BY <1>9, <2>1
<1>11. ASSUME NEW u \in Users, NEW p \in Packages, NEW k \in Keys \cup {None},
              BuyBegin(s, u, p, k)
       PROVE  \E d : Set(s, d) /\ RestCall(d, now)
  <2> DEFINE d == [Idle EXCEPT !.pc = IF k = None THEN "buy_debit" ELSE "buy_owner",
                               !.act = IF k = None THEN "buy" ELSE "renew",
                               !.user = u, !.pkg = p, !.row = pkgs[p].row, !.key = k]
  <2>1. Set(s, d)
    BY <1>11 DEF BuyBegin
  <2>2. d.pc \in {"buy_owner", "buy_debit"} /\ d.paidAt = 0
    BY DEF Idle
  <2> HIDE DEF d
  <2> QED
    BY <1>9, <2>1, <2>2
<1>12. CASE Step(s)
  BY <1>0, <1>1, <1>4, <1>5, <1>6, <1>7, <1>12, ReadKeeps DEF Step
<1>13. CASE Begin(s)
  BY <1>1, <1>8, <1>10, <1>11, <1>13 DEF Begin, MgmtRenewKey, MgmtSwitchQuota
<1> QED
  BY <1>12, <1>13

\* Every row that a trace leaves is the one its call announced, and no other is
\* written.
LEMMA RowsKept ==
  ASSUME ShopInv, ShopInv', Traces, RestKept, [Next]_vars
  PROVE  RenewalKeepsRest'
<1>0. /\ history \in [Keys -> Seq(HistoryRow)] /\ now \in Nat /\ now' \in Nat
      /\ call \in [Slots -> Call] /\ \A s \in Slots : ProperCall(call[s], keys)
  BY DEF ShopInv, CallsOK, Traces
<1>1. now <= now'
  <2>1. ASSUME NEW s \in Slots, Step(s) \/ Begin(s) PROVE now <= now'
    <3>1. now' = now
      BY <2>1, CallsKeep DEF RestKept
    <3> QED
      BY <1>0, <3>1
  <2>2. CASE Admin
    BY <1>0, <2>2 DEF Admin, MgmtCreateKey, Transfer, DeleteKey, DeletePackage,
       CreatePackage, UpdatePackage, Edit
  <2>3. CASE Crash \/ UNCHANGED vars
    BY <1>0, <2>3 DEF Crash, vars, bounds
  <2>4. CASE Tick
    BY <1>0, <2>4 DEF Tick
  <2> QED
    BY <2>1, <2>2, <2>3, <2>4 DEF Next
<1>2. ASSUME NEW k \in Keys, NEW i \in DOMAIN history[k] PROVE Keeps(history[k][i], now')
  <2>1. history[k][i] \in HistoryRow
    BY <1>0, <1>2
  <2>2. history[k][i].paidAt \in Nat /\ history[k][i].old \in Quota
    BY <2>1 DEF HistoryRow
  <2>3. Keeps(history[k][i], now)
    BY DEF RestKept, RenewalKeepsRest
  <2> QED
    BY <1>0, <1>1, <2>2, <2>3, KeepsLater
<1>3. ASSUME UNCHANGED history PROVE RenewalKeepsRest'
  BY <1>2, <1>3 DEF RenewalKeepsRest
<1>4. ASSUME NEW s \in Slots, Trace(s) PROVE RenewalKeepsRest'
  <2> DEFINE c == call[s]
             k == c.key
             h == TraceRow(c)
  <2>1. c.pc = "trace" /\ now' = now /\ k \in Keys
    BY <1>0, <1>4 DEF Trace, bounds, ProperCall, Known
  <2>2. CASE history' = [history EXCEPT ![k] = Append(@, h)]
    <3>1. /\ h.act = c.act /\ h.user = c.user /\ h.old = c.old /\ h.new = c.new
          /\ h.paidAt = c.paidAt
      BY DEF TraceRow
    <3>2. Keeps(h, now)
      BY <2>1, <3>1 DEF RestKept, RestCall, Keeps
    <3> HIDE DEF h
    <3>3. /\ history'[k] = Append(history[k], h)
          /\ \A j \in Keys \ {k} : history'[j] = history[j]
      BY <1>0, <2>1, <2>2
    <3>4. /\ Len(history[k]) \in Nat /\ DOMAIN history[k] = 1..Len(history[k])
          /\ DOMAIN history'[k] = 1..Len(history[k]) + 1
          /\ \A i \in 1..Len(history[k]) : history'[k][i] = history[k][i]
          /\ history'[k][Len(history[k]) + 1] = h
      BY <1>0, <2>1, <3>3
    <3>5. \A i \in DOMAIN history'[k] : Keeps(history'[k][i], now')
      BY <1>2, <2>1, <3>2, <3>4
    <3> QED
      BY <1>2, <3>3, <3>5 DEF RenewalKeepsRest
  <2> QED
    BY <1>3, <1>4, <2>2 DEF Trace
<1>5. ASSUME NEW k \in Keys, DeleteKey(k) PROVE RenewalKeepsRest'
  <2>1. history'[k] = <<>> /\ \A j \in Keys \ {k} : history'[j] = history[j]
    BY <1>0, <1>5 DEF DeleteKey
  <2> QED
    BY <1>2, <2>1 DEF RenewalKeepsRest
<1>6. ASSUME ~ \E s \in Slots : Trace(s), ~ \E k \in Keys : DeleteKey(k)
      PROVE  UNCHANGED history
  <2>1. ASSUME NEW s \in Slots, Step(s) PROVE UNCHANGED history
    BY <1>6, <2>1 DEF Step, BuyOwner, BuyDebit, BuyRead, BuyInsert, Order, Write,
       ExpireWrite, Fail, tables
  <2>2. ASSUME NEW s \in Slots, Begin(s) PROVE UNCHANGED history
    BY <2>2 DEF Begin, BuyBegin, MgmtRenewKey, MgmtSwitchQuota, ChangeBegin, ExpireRead,
       tables
  <2>3. CASE Admin
    BY <1>6, <2>3 DEF Admin, MgmtCreateKey, Transfer, DeletePackage, CreatePackage,
       UpdatePackage
  <2>4. CASE Crash \/ Tick \/ UNCHANGED vars
    BY <2>4 DEF Crash, Tick, tables, vars
  <2> QED
    BY <2>1, <2>2, <2>3, <2>4 DEF Next
<1> QED
  BY <1>3, <1>4, <1>5, <1>6

\* Every step keeps what was kept.
LEMMA RestStep == ShopInv /\ ShopInv' /\ Traces /\ RestKept /\ [Next]_vars => RestKept'
<1> SUFFICES ASSUME ShopInv, ShopInv', Traces, RestKept, [Next]_vars PROVE RestKept'
  OBVIOUS
<1>0. call \in [Slots -> Call] /\ now \in Nat /\ now' \in Nat
  BY DEF ShopInv, CallsOK
<1>1. \A s \in Slots : RestCall(call[s], now)
  BY DEF RestKept
<1>2. ASSUME NEW s \in Slots, Step(s) \/ Begin(s)
      PROVE  \A t \in Slots : RestCall(call'[t], now')
  <2>1. PICK d : Set(s, d) /\ RestCall(d, now)
    BY <1>1, <1>2, CallsKeep
  <2>2. now' = now
    BY <1>1, <1>2, CallsKeep
  <2>3. \A t \in Slots : call'[t] = IF t = s THEN d ELSE call[t]
    BY <1>0, <2>1 DEF Set
  <2> QED
    BY <1>1, <2>1, <2>2, <2>3
<1>3. ASSUME UNCHANGED call, now <= now' PROVE \A t \in Slots : RestCall(call'[t], now')
  <2> SUFFICES ASSUME NEW t \in Slots PROVE RestCall(call[t], now')
    BY <1>3
  <2>1. call[t].paidAt \in Nat /\ call[t].old \in Quota
    BY <1>0 DEF Call
  <2> QED
    BY <1>0, <1>1, <1>3, <2>1, KeepsLater DEF RestCall
<1>4. CASE Admin
  <2>1. UNCHANGED <<call, now>>
    BY <1>4 DEF Admin, MgmtCreateKey, Transfer, DeleteKey, DeletePackage, CreatePackage,
       UpdatePackage, Edit
  <2> QED
    BY <1>0, <1>3, <2>1, RowsKept DEF RestKept
<1>5. CASE Crash
  <2>1. \A s \in Slots : call'[s] = Idle
    BY <1>5 DEF Crash
  <2>2. RestCall(Idle, now')
    BY <1>0 DEF RestCall, Idle
  <2> QED
    BY <2>1, <2>2, RowsKept DEF RestKept
<1>6. CASE Tick \/ UNCHANGED vars
  <2>1. UNCHANGED call /\ now <= now'
    BY <1>0, <1>6 DEF Tick, vars, bounds
  <2> QED
    BY <1>3, <2>1, RowsKept DEF RestKept
<1> QED
  BY <1>2, <1>4, <1>5, <1>6, RowsKept DEF Next, RestKept

\* A bought renewal never takes time away from a key that the buyer has paid for
\* (the "extend expiry" of BuyPackage), whoever else writes the key.
THEOREM RenewalsKeepRest == Spec => []RenewalKeepsRest
<1>1. Init => RestKept
  <2> SUFFICES ASSUME Init PROVE RestKept
    OBVIOUS
  <2>1. RestCall(Idle, 1)
    BY DEF RestCall, Idle
  <2> QED
    BY <2>1 DEF Init, RestKept, RenewalKeepsRest
<1>2. RestKept => RenewalKeepsRest
  BY DEF RestKept
<1> QED
  BY <1>1, <1>2, ShopAlways, RestStep, PTL DEF Spec

-----------------------------------------------------------------------------
(* The history.                                                            *)

\* Call c changes, or has just changed, the quota of its key.
Changing(c) == c.pc # "idle" /\ c.act \in {"renew", "switch"}

\* One call at a time changes the quota of a key.
OneChange ==
  \A s, t \in Slots :
    Changing(call[s]) /\ Changing(call[t]) /\ call[s].key = call[t].key => s = t

\* The rows of a key continue each other.
Chain(rows) == \A i \in 1..Len(rows) - 1 : rows[i].new = rows[i + 1].old

\* What call c still owes to the rows of its key.
Continues(c, rows, quota) ==
  /\ c.pc = "write" => c.old = quota
  /\ c.pc = "trace" => c.new = quota /\ (Len(rows) > 0 => rows[Len(rows)].new = c.old)

\* The last row is what the key has, until a change is written, and then what the
\* change has read.
Linked(k) ==
  /\ Chain(history[k])
  /\ Len(history[k]) > 0 => Stored(keys[k])
  /\ \A s \in Slots : Changing(call[s]) /\ call[s].key = k /\ Stored(keys[k]) =>
       Continues(call[s], history[k], keys[k].quota)
  /\ Len(history[k]) > 0 /\ (\A s \in Slots : call[s].key = k => call[s].pc # "trace") =>
       history[k][Len(history[k])].new = keys[k].quota

ChainInv == OneChange /\ (faults = 0 => \A k \in Keys : Linked(k))

\* Slot s may go on as d: it changes no key that another call is changing.
Sole(s, d) ==
  Changing(d) =>
    \/ Changing(call[s]) /\ d.key = call[s].key
    \/ \A t \in Slots : ~(Changing(call[t]) /\ call[t].key = d.key)

\* A quota write begins only when no other is on its way to the key.
LEMMA FreeIsSole ==
  ASSUME ShopInv, KeyWriters = 1, NEW s \in Slots, NEW k \in Keys, FreeFor(s, k)
  PROVE  \A t \in Slots : ~(Changing(call[t]) /\ call[t].key = k)
<1>1. IsFiniteSet(Writers(k))
  <2>1. Writers(k) \subseteq Slots
    BY DEF Writers, Busy
  <2> QED
    BY <2>1, ShopAssumption, FS_Subset
<1>2. Cardinality(Writers(k)) \in Nat /\ Cardinality(Writers(k)) < 1
  BY <1>1, FS_CardinalityType DEF FreeFor
<1>3. Writers(k) = {}
  BY <1>1, <1>2, FS_EmptySet
<1> QED
  BY <1>3 DEF Changing, Writers, Busy

\* No step lets a second call change a key.
LEMMA CallsAreSole ==
  ASSUME ShopInv, KeyWriters = 1, NEW s \in Slots, Step(s) \/ Begin(s)
  PROVE  \E d : Set(s, d) /\ Sole(s, d)
<1> DEFINE c == call[s]
<1>0. c \in Call /\ ProperCall(c, keys)
  BY DEF ShopInv, CallsOK
<1>1. ASSUME NEW d, d.act \notin {"renew", "switch"} PROVE Sole(s, d)
  BY <1>1 DEF Sole, Changing
<1>2. Sole(s, Idle)
  BY <1>1 DEF Idle
<1>3. ASSUME NEW d, c.pc # "idle", d.act = c.act, d.key = c.key PROVE Sole(s, d)
  BY <1>3 DEF Sole, Changing
<1>4. ASSUME NEW k \in Keys, FreeFor(s, k), NEW d, d.key = k PROVE Sole(s, d)
  BY <1>4, FreeIsSole DEF Sole
<1>5. CASE BuyOwner(s) \/ BuyDebit(s) \/ BuyRead(s) \/ Write(s)
  <2> DEFINE q == QuotaRead(c.key)
  <2>1. /\ c.pc # "idle"
        /\ \/ Set(s, Idle) \/ Set(s, [c EXCEPT !.pc = "buy_debit"]) \/ Set(s, AfterDebit(c))
           \/ Set(s, [c EXCEPT !.pc = "trace"])
           \/ Set(s, [c EXCEPT !.pc = "write", !.old = q,
                               !.new = [amount  |-> q.amount + c.row.amount,
                                        expires |-> RenewedExpiry(c.row, q, c.paidAt)]])
    BY <1>5 DEF BuyOwner, BuyDebit, BuyRead, Write
  <2>2. ASSUME NEW pc, NEW old, NEW new
        PROVE  Sole(s, [c EXCEPT !.pc = pc, !.old = old, !.new = new])
    <3> DEFINE d == [c EXCEPT !.pc = pc, !.old = old, !.new = new]
    <3>1. d.act = c.act /\ d.key = c.key
      BY <1>0 DEF Call
    <3> HIDE DEF d
    <3>2. Sole(s, d)
      BY <1>3, <2>1, <3>1
    <3> QED
      BY <3>2 DEF d
  <2>3. ASSUME NEW pc PROVE Sole(s, [c EXCEPT !.pc = pc])
    <3> DEFINE d == [c EXCEPT !.pc = pc]
    <3>1. d.act = c.act /\ d.key = c.key
      BY <1>0 DEF Call
    <3> HIDE DEF d
    <3>2. Sole(s, d)
      BY <1>3, <2>1, <3>1
    <3> QED
      BY <3>2 DEF d
  <2>4. Sole(s, AfterDebit(c))
    <3>1. AfterDebit(c).act = c.act /\ AfterDebit(c).key = c.key
      BY <1>0 DEF Call, AfterDebit
    <3> QED
      BY <1>3, <2>1, <3>1
  <2> QED
    BY <1>2, <2>1, <2>2, <2>3, <2>4
<1>6. CASE BuyInsert(s)
  <2>1. \/ Set(s, Idle)
        \/ \E k \in Keys : Set(s, [c EXCEPT !.pc = "order", !.key = k])
    BY <1>6 DEF BuyInsert
  <2>2. ASSUME NEW k PROVE Sole(s, [c EXCEPT !.pc = "order", !.key = k])
    <3> DEFINE d == [c EXCEPT !.pc = "order", !.key = k]
    <3>1. d.act = "buy"
      BY <1>0, <1>6 DEF Call, BuyInsert, ProperCall
    <3> HIDE DEF d
    <3>2. Sole(s, d)
      BY <1>1, <3>1
    <3> QED
      BY <3>2 DEF d
  <2> QED
    BY <1>2, <2>1, <2>2
<1>7. CASE Order(s) \/ ExpireWrite(s)
  BY <1>2, <1>7 DEF Order, ExpireWrite
<1>8. CASE Trace(s) \/ Fail(s)
  <2>1. c.pc # "idle" /\ (Set(s, Idle) \/ Set(s, AfterTrace(c)))
    BY <1>8 DEF Trace, Fail
  <2>2. CASE c.user # None
    <3>1. AfterTrace(c).act = c.act /\ AfterTrace(c).key = c.key
      BY <1>0, <2>2 DEF AfterTrace, Call
    <3> QED
      BY <1>2, <1>3, <2>1, <3>1
  <2>3. CASE c.user = None
    BY <1>2, <2>1, <2>3 DEF AfterTrace
  <2> QED
    BY <2>2, <2>3
<1>9. ASSUME NEW u \in Users, NEW p \in Packages, NEW k \in Keys \cup {None},
             BuyBegin(s, u, p, k)
      PROVE  \E d : Set(s, d) /\ Sole(s, d)
  <2> DEFINE d == [Idle EXCEPT !.pc = IF k = None THEN "buy_debit" ELSE "buy_owner",
                               !.act = IF k = None THEN "buy" ELSE "renew",
                               !.user = u, !.pkg = p, !.row = pkgs[p].row, !.key = k]
  <2>1. Set(s, d) /\ (k # None => FreeFor(s, k))
    BY <1>9 DEF BuyBegin
  <2>2. d.key = k /\ (k = None => d.act = "buy")
    BY DEF Idle
  <2> HIDE DEF d
  <2>3. Sole(s, d)
    BY <1>1, <1>4, <2>1, <2>2
  <2> QED
    BY <2>1, <2>3
<1>10. ASSUME NEW k \in Keys, NEW act, NEW q, ChangeBegin(s, k, act, q)
       PROVE  \E d : Set(s, d) /\ Sole(s, d)
  <2> DEFINE d == [Idle EXCEPT !.pc = "write", !.act = act, !.key = k,
                               !.old = keys[k].quota, !.new = q]
  <2>1. Set(s, d) /\ FreeFor(s, k)
    BY <1>10 DEF ChangeBegin
  <2>2. d.key = k
    BY DEF Idle
  <2> HIDE DEF d
  <2>3. Sole(s, d)
    BY <1>4, <2>1, <2>2
  <2> QED
    BY <2>1, <2>3
<1>11. ASSUME NEW k \in Keys, ExpireRead(s, k)
       PROVE  \E d : Set(s, d) /\ Sole(s, d)
  <2> DEFINE d == [Idle EXCEPT !.pc = "expire", !.act = "expire", !.key = k]
  <2>1. Set(s, d) /\ d.act = "expire"
    BY <1>11 DEF ExpireRead, Idle
  <2> HIDE DEF d
  <2>2. Sole(s, d)
    BY <1>1, <2>1
  <2> QED
    BY <2>1, <2>2
<1>12. CASE Step(s)
  BY <1>5, <1>6, <1>7, <1>8, <1>12 DEF Step
<1>13. CASE Begin(s)
  BY <1>9, <1>10, <1>11, <1>13 DEF Begin, MgmtRenewKey, MgmtSwitchQuota
<1> QED
  BY <1>12, <1>13

\* Only one call at a time changes a key, when only one may.
LEMMA OneStep ==
  ASSUME KeyWriters = 1, ShopInv, OneChange, [Next]_vars
  PROVE  OneChange'
<1>0. call \in [Slots -> Call]
  BY DEF ShopInv, CallsOK
<1>1. ASSUME NEW s \in Slots, Step(s) \/ Begin(s) PROVE OneChange'
  <2>1. PICK d : Set(s, d) /\ Sole(s, d)
    BY <1>1, CallsAreSole
  <2>2. \A t \in Slots : call'[t] = IF t = s THEN d ELSE call[t]
    BY <1>0, <2>1 DEF Set
  <2> QED
    BY <2>1, <2>2 DEF OneChange, Sole
<1>2. CASE Crash
  BY <1>2 DEF Crash, OneChange, Changing, Idle
<1>3. CASE Admin \/ Tick \/ UNCHANGED vars
  <2>1. UNCHANGED call
    BY <1>3 DEF Admin, MgmtCreateKey, Transfer, DeleteKey, DeletePackage, CreatePackage,
       UpdatePackage, Tick, vars
  <2> QED
    BY <2>1 DEF OneChange
<1> QED
  BY <1>1, <1>2, <1>3 DEF Next

\* A call in slot s that leaves the row and the trace of key k as they are, and
\* goes on with what it has read of it.
LEMMA LinkQuiet ==
  ASSUME call \in [Slots -> Call], NEW k \in Keys, Linked(k), NEW s \in Slots, NEW d,
         Set(s, d), history'[k] = history[k], keys'[k].quota = keys[k].quota,
         Stored(keys'[k]) <=> Stored(keys[k]),
         call[s].pc = "trace" => call[s].key # k \/ ~Stored(keys[k]),
         Changing(d) /\ d.key = k /\ Stored(keys[k]) =>
           Continues(d, history[k], keys[k].quota)
  PROVE  Linked(k)'
<1>1. \A t \in Slots : call'[t] = IF t = s THEN d ELSE call[t]
  BY DEF Set
<1>2. Chain(history'[k]) /\ (Len(history'[k]) > 0 => Stored(keys'[k]))
  BY DEF Linked
<1>3. ASSUME NEW t \in Slots, Changing(call'[t]), call'[t].key = k, Stored(keys'[k])
      PROVE  Continues(call'[t], history'[k], keys'[k].quota)
  BY <1>1, <1>3 DEF Linked
<1>4. ASSUME Len(history'[k]) > 0,
             \A t \in Slots : call'[t].key = k => call'[t].pc # "trace"
      PROVE  history'[k][Len(history'[k])].new = keys'[k].quota
  <2>1. \A t \in Slots : call[t].key = k => call[t].pc # "trace"
    BY <1>1, <1>4 DEF Linked
  <2> QED
    BY <1>4, <2>1 DEF Linked
<1> QED
  BY <1>2, <1>3, <1>4 DEF Linked

\* An administrator's call, or nobody's, that leaves them as they are.
LEMMA LinkStill ==
  ASSUME NEW k \in Keys, Linked(k), UNCHANGED call, history'[k] = history[k],
         keys'[k].quota = keys[k].quota, Stored(keys'[k]) <=> Stored(keys[k])
  PROVE  Linked(k)'
  BY DEF Linked

\* A key just inserted has no history, and no call changes it yet.
LEMMA LinkFresh ==
  ASSUME ShopInv, Traces, NEW k \in Keys, Linked(k), keys[k].at = "unborn",
         history'[k] = history[k],
         \A t \in Slots : call'[t].pc \in {"write", "trace"} => call'[t] = call[t]
  PROVE  Linked(k)'
<1>1. \A t \in Slots : ProperCall(call[t], keys)
  BY DEF ShopInv, CallsOK
<1>2. \A t \in Slots : call'[t].pc \in {"write", "trace"} => call'[t].key # k
  BY <1>1 DEF ProperCall, Known
<1>3. Len(history[k]) = 0
  BY DEF Traces, Linked, Stored
<1> QED
  BY <1>2, <1>3 DEF Linked, Continues, Chain

\* The UPDATE: what it overwrites is what the call has read, because no other call
\* is changing the key (Write).
LEMMA LinkWrite ==
  ASSUME ShopInv, Traces, OneChange, NEW s \in Slots, Write(s), NEW k \in Keys, Linked(k)
  PROVE  Linked(k)'
<1> DEFINE c == call[s]
           d == [c EXCEPT !.pc = "trace"]
<1>0. /\ call \in [Slots -> Call] /\ c \in Call /\ c.pc = "write" /\ UNCHANGED history
      /\ c.key \in Keys /\ c.act \in {"renew", "switch"} /\ keys \in [Keys -> KeyState]
      /\ \A t \in Slots : ProperCall(call[t], keys)
      /\ history[k] \in Seq(HistoryRow)
  BY DEF ShopInv, CallsOK, Write, ProperCall, Known, Rows, Traces
<1>1. d.pc = "trace" /\ d.act = c.act /\ d.key = c.key /\ d.new = c.new /\ d.old = c.old
  BY <1>0 DEF Call
<1> HIDE DEF d
<1>2. CASE UNCHANGED keys /\ Set(s, Idle)
  <2>1. ~Changing(Idle)
    BY DEF Changing, Idle
  <2> QED
    BY <1>0, <1>2, <2>1, LinkQuiet
<1>3. CASE UNCHANGED keys /\ Set(s, d) /\ ~Stored(keys[c.key])
  BY <1>0, <1>1, <1>3, LinkQuiet
<1>4. CASE /\ Stored(keys[c.key]) /\ Set(s, d)
           /\ keys' = [keys EXCEPT ![c.key].quota = c.new,
                         ![c.key].status = IF c.act = "renew" THEN "active" ELSE @]
  <2>1. CASE k # c.key
    <3>1. keys'[k] = keys[k]
      BY <1>0, <1>4, <2>1
    <3> QED
      BY <1>0, <1>1, <1>4, <2>1, <3>1, LinkQuiet
  <2>2. CASE k = c.key
    <3>1. keys[k] \in KeyState
      BY <1>0
    <3>2. keys'[k].quota = c.new /\ Stored(keys'[k])
      BY <1>0, <1>4, <2>2, <3>1 DEF KeyState, Stored
    <3>3. \A t \in Slots : call'[t] = IF t = s THEN d ELSE call[t]
      BY <1>0, <1>4 DEF Set
    <3>4. \A t \in Slots : Changing(call[t]) /\ call[t].key = k => t = s
      BY <1>0, <2>2 DEF OneChange, Changing
    <3>5. \A t \in Slots : call[t].key = k => call[t].pc # "trace"
      BY <1>0, <3>4 DEF ProperCall, Changing
    <3>6. c.old = keys[k].quota
      BY <1>0, <1>4, <2>2 DEF Linked, Continues, Changing
    <3>7. Len(history[k]) > 0 => history[k][Len(history[k])].new = c.old
      BY <3>5, <3>6 DEF Linked
    <3>8. Continues(d, history[k], c.new)
      BY <1>1, <3>7 DEF Continues
    <3>9. \A t \in Slots : Changing(call'[t]) /\ call'[t].key = k => t = s
      BY <3>3, <3>4
    <3>10. \E t \in Slots : call'[t].key = k /\ call'[t].pc = "trace"
      BY <1>1, <2>2, <3>3
    <3>11. Chain(history[k])
      BY DEF Linked
    <3>12. ASSUME NEW t \in Slots, Changing(call'[t]), call'[t].key = k
           PROVE  Continues(call'[t], history'[k], keys'[k].quota)
      BY <1>0, <3>2, <3>3, <3>8, <3>9, <3>12
    <3> QED
      BY <1>0, <3>2, <3>10, <3>11, <3>12 DEF Linked
  <2> QED
    BY <2>1, <2>2
<1> QED
  BY <1>2, <1>3, <1>4 DEF Write, d

\* The trace row continues the last one and says what the key now has
\* (quotaHistory).
LEMMA LinkTrace ==
  ASSUME ShopInv, Traces, OneChange, NEW s \in Slots, Trace(s), NEW k \in Keys, Linked(k)
  PROVE  Linked(k)'
<1> DEFINE c == call[s]
           d == AfterTrace(c)
           h == TraceRow(c)
<1>0. /\ call \in [Slots -> Call] /\ c \in Call /\ c.pc = "trace" /\ UNCHANGED keys
      /\ c.key \in Keys /\ c.act \in {"renew", "switch"} /\ Set(s, d)
      /\ history \in [Keys -> Seq(HistoryRow)]
      /\ \A t \in Slots : ProperCall(call[t], keys)
  BY DEF ShopInv, CallsOK, Trace, ProperCall, Known, Traces
<1>1. d.pc \notin {"write", "trace"}
  BY <1>0 DEF AfterTrace, Call, Idle
<1>2. h.old = c.old /\ h.new = c.new
  BY DEF TraceRow
<1> HIDE DEF d, h
<1>3. Continues(d, history[k], keys[k].quota)
  BY <1>1 DEF Continues
<1>4. CASE UNCHANGED history /\ ~Stored(keys[c.key])
  BY <1>0, <1>3, <1>4, LinkQuiet
<1>5. CASE history' = [history EXCEPT ![c.key] = Append(@, h)] /\ Stored(keys[c.key])
  <2>1. CASE k # c.key
    <3>1. history'[k] = history[k]
      BY <1>0, <1>5, <2>1
    <3> QED
      BY <1>0, <1>3, <2>1, <3>1, LinkQuiet
  <2>2. CASE k = c.key
    <3> DEFINE old == history[k]
    <3>1. history'[k] = Append(old, h) /\ old \in Seq(HistoryRow)
      BY <1>0, <1>5, <2>2
    <3>2. /\ Len(old) \in Nat /\ Len(history'[k]) = Len(old) + 1
          /\ \A i \in 1..Len(old) : history'[k][i] = old[i]
          /\ history'[k][Len(old) + 1] = h
      BY <3>1
    <3>3. Chain(old) /\ Continues(c, old, keys[k].quota)
      BY <1>0, <1>5, <2>2 DEF Linked, Changing
    <3>4. c.new = keys[k].quota /\ (Len(old) > 0 => old[Len(old)].new = h.old)
      BY <1>0, <1>2, <3>3 DEF Continues
    <3>5. Chain(history'[k])
      <4> SUFFICES ASSUME NEW i \in 1..Len(old)
                   PROVE  history'[k][i].new = history'[k][i + 1].old
        BY <3>2 DEF Chain
      <4>1. CASE i = Len(old)
        BY <3>2, <3>4, <4>1
      <4>2. CASE i # Len(old)
        <5>1. i \in 1..Len(old) - 1 /\ i + 1 \in 1..Len(old)
          BY <3>2, <4>2
        <5> QED
          BY <3>2, <3>3, <5>1 DEF Chain
      <4> QED
        BY <4>1, <4>2
    <3>6. \A t \in Slots : Changing(call[t]) /\ call[t].key = k => t = s
      BY <1>0, <2>2 DEF OneChange, Changing
    <3>7. \A t \in Slots : call'[t] = IF t = s THEN d ELSE call[t]
      BY <1>0 DEF Set
    <3>8. ASSUME NEW t \in Slots, Changing(call'[t]), call'[t].key = k
          PROVE  Continues(call'[t], history'[k], keys'[k].quota)
      <4>1. t = s
        BY <3>6, <3>7, <3>8
      <4> QED
        BY <1>1, <3>7, <4>1 DEF Continues
    <3>9. history'[k][Len(history'[k])].new = keys'[k].quota
      BY <1>0, <1>2, <3>2, <3>4
    <3>10. Stored(keys'[k])
      BY <1>0, <1>5, <2>2
    <3> QED
      BY <3>5, <3>8, <3>9, <3>10 DEF Linked
  <2> QED
    BY <2>1, <2>2
<1> QED
  BY <1>0, <1>4, <1>5 DEF Trace, h

\* The other calls of a slot: they leave the quota alone, and a change that begins
\* has read it.
LEMMA LinkOthers ==
  ASSUME ShopInv, Traces, NEW s \in Slots, Step(s) \/ Begin(s), ~Write(s), ~Trace(s),
         ~Fail(s), NEW k \in Keys, Linked(k)
  PROVE  Linked(k)'
<1> DEFINE c == call[s]
<1>0. /\ call \in [Slots -> Call] /\ c \in Call /\ ProperCall(c, keys)
      /\ keys \in [Keys -> KeyState]
  BY DEF ShopInv, CallsOK, Rows
<1>1. ASSUME NEW d, Set(s, d), d.pc \notin {"write", "trace"}, c.pc # "trace",
             UNCHANGED history, keys'[k].quota = keys[k].quota,
             Stored(keys'[k]) <=> Stored(keys[k])
      PROVE  Linked(k)'
  <2>1. Continues(d, history[k], keys[k].quota)
    BY <1>1 DEF Continues
  <2> QED
    BY <1>0, <1>1, <2>1, LinkQuiet
<1>2. CASE BuyOwner(s) \/ BuyDebit(s) \/ Order(s)
  <2>1. /\ UNCHANGED <<keys, history>> /\ c.pc # "trace"
        /\ \/ Set(s, Idle) \/ Set(s, [c EXCEPT !.pc = "buy_debit"]) \/ Set(s, AfterDebit(c))
    BY <1>2 DEF BuyOwner, BuyDebit, Order, tables
  <2>2. /\ Idle.pc = "idle" /\ [c EXCEPT !.pc = "buy_debit"].pc = "buy_debit"
        /\ AfterDebit(c).pc \in {"buy_insert", "buy_read"}
    BY <1>0 DEF Idle, AfterDebit, Call
  <2> QED
    BY <1>1, <2>1, <2>2
<1>3. CASE BuyRead(s)
  <2> DEFINE q == QuotaRead(c.key)
             d == [c EXCEPT !.pc = "write", !.old = q,
                            !.new = [amount  |-> q.amount + c.row.amount,
                                     expires |-> RenewedExpiry(c.row, q, c.paidAt)]]
  <2>1. Set(s, d) /\ c.pc = "buy_read" /\ UNCHANGED <<keys, history>>
    BY <1>3 DEF BuyRead, tables
  <2>2. d.pc = "write" /\ d.old = QuotaRead(c.key) /\ d.key = c.key
    BY <1>0 DEF Call
  <2> HIDE DEF d
  <2>3. d.key = k /\ Stored(keys[k]) => Continues(d, history[k], keys[k].quota)
    BY <2>2 DEF Continues, QuotaRead
  <2> QED
    BY <1>0, <2>1, <2>3, LinkQuiet
<1>4. CASE BuyInsert(s)
  <2>1. c.pc = "buy_insert" /\ UNCHANGED history
    BY <1>4 DEF BuyInsert
  <2>2. CASE Set(s, Idle) /\ UNCHANGED keys
    BY <1>1, <2>1, <2>2 DEF Idle
  <2>3. ASSUME NEW j \in Keys, keys[j].at = "unborn",
               keys' = [keys EXCEPT ![j] =
                 NewKey(c.user, c.pkg, c.row.amount, Fresh(c.row.days, c.paidAt))],
               Set(s, [c EXCEPT !.pc = "order", !.key = j])
        PROVE  Linked(k)'
    <3> DEFINE d == [c EXCEPT !.pc = "order", !.key = j]
    <3>1. d.pc = "order" /\ Set(s, d)
      BY <1>0, <2>3 DEF Call
    <3> HIDE DEF d
    <3>2. \A t \in Slots : call'[t] = IF t = s THEN d ELSE call[t]
      BY <1>0, <3>1 DEF Set
    <3>3. CASE j = k
      BY <2>1, <2>3, <3>1, <3>2, <3>3, LinkFresh
    <3>4. CASE j # k
      <4>1. keys'[k] = keys[k]
        BY <1>0, <2>3, <3>4
      <4> QED
        BY <1>1, <2>1, <3>1, <4>1
    <3> QED
      BY <3>3, <3>4
  <2> QED
    BY <1>4, <2>2, <2>3 DEF BuyInsert
<1>5. CASE ExpireWrite(s)
  <2>1. c.pc = "expire" /\ UNCHANGED history /\ Set(s, Idle) /\ keys[k] \in KeyState
    BY <1>0, <1>5 DEF ExpireWrite
  <2>2. keys'[k].quota = keys[k].quota /\ keys'[k].at = keys[k].at
    BY <1>0, <1>5, <2>1 DEF ExpireWrite, KeyState
  <2> QED
    BY <1>1, <2>1, <2>2 DEF Idle, Stored
<1>6. ASSUME NEW j \in Keys, NEW act, NEW q, ChangeBegin(s, j, act, q) PROVE Linked(k)'
  <2> DEFINE d == [Idle EXCEPT !.pc = "write", !.act = act, !.key = j,
                               !.old = keys[j].quota, !.new = q]
  <2>1. Set(s, d) /\ c.pc = "idle" /\ UNCHANGED <<keys, history>>
    BY <1>6 DEF ChangeBegin, FreeFor, Free, tables
  <2>2. d.pc = "write" /\ d.old = keys[j].quota /\ d.key = j
    BY DEF Idle
  <2> HIDE DEF d
  <2>3. d.key = k => Continues(d, history[k], keys[k].quota)
    BY <2>2 DEF Continues
  <2> QED
    BY <1>0, <2>1, <2>3, LinkQuiet
<1>7. ASSUME NEW j \in Keys, ExpireRead(s, j) PROVE Linked(k)'
  <2> DEFINE d == [Idle EXCEPT !.pc = "expire", !.act = "expire", !.key = j]
  <2>1. /\ Set(s, d) /\ d.pc = "expire" /\ c.pc = "idle" /\ UNCHANGED <<keys, history>>
    BY <1>7 DEF ExpireRead, Idle, Free, tables
  <2> HIDE DEF d
  <2> QED
    BY <1>1, <2>1
<1>8. ASSUME NEW u \in Users, NEW p \in Packages, NEW j \in Keys \cup {None},
             BuyBegin(s, u, p, j)
      PROVE  Linked(k)'
  <2> DEFINE d == [Idle EXCEPT !.pc = IF j = None THEN "buy_debit" ELSE "buy_owner",
                               !.act = IF j = None THEN "buy" ELSE "renew",
                               !.user = u, !.pkg = p, !.row = pkgs[p].row, !.key = j]
  <2>1. Set(s, d) /\ c.pc = "idle" /\ UNCHANGED <<keys, history>>
    BY <1>8 DEF BuyBegin, FreeFor, Free, tables
  <2>2. d.pc \in {"buy_debit", "buy_owner"}
    BY DEF Idle
  <2> HIDE DEF d
  <2> QED
    BY <1>1, <2>1, <2>2
<1>9. CASE Step(s)
  BY <1>2, <1>3, <1>4, <1>5, <1>9 DEF Step
<1>10. CASE Begin(s)
  BY <1>6, <1>7, <1>8, <1>10 DEF Begin, MgmtRenewKey, MgmtSwitchQuota
<1> QED
  BY <1>9, <1>10

\* The administrator's one-statement calls: a key that is deleted takes its history
\* along, a key that is created has none.
LEMMA LinkAdmin ==
  ASSUME ShopInv, Traces, Admin, NEW k \in Keys, Linked(k)
  PROVE  Linked(k)'
<1>0. keys \in [Keys -> KeyState] /\ keys[k] \in KeyState /\ UNCHANGED call
  BY DEF ShopInv, Rows, Admin, MgmtCreateKey, Transfer, DeleteKey, DeletePackage,
     CreatePackage, UpdatePackage
<1>1. ASSUME NEW j \in Keys, NEW u \in Users, NEW p \in Packages \cup {None},
             NEW row \in PackageRows, MgmtCreateKey(j, u, p, row)
      PROVE  Linked(k)'
  <2>1. UNCHANGED history /\ keys[j].at = "unborn" /\ (j # k => keys'[k] = keys[k])
    BY <1>0, <1>1 DEF MgmtCreateKey
  <2>2. CASE j = k
    BY <1>0, <2>1, <2>2, LinkFresh
  <2>3. CASE j # k
    BY <1>0, <2>1, <2>3, LinkStill
  <2> QED
    BY <2>2, <2>3
<1>2. ASSUME NEW j \in Keys, NEW u \in Users, Transfer(j, u) PROVE Linked(k)'
  <2>1. /\ UNCHANGED history /\ keys'[k].quota = keys[k].quota
        /\ keys'[k].at = keys[k].at
    BY <1>0, <1>2 DEF Transfer, KeyState
  <2> QED
    BY <1>0, <2>1, LinkStill DEF Stored
<1>3. ASSUME NEW j \in Keys, DeleteKey(j) PROVE Linked(k)'
  <2>1. /\ j # k => keys'[k] = keys[k] /\ history'[k] = history[k]
        /\ j = k => keys'[k].at = "deleted" /\ history'[k] = <<>>
    BY <1>0, <1>3 DEF DeleteKey, KeyState, Traces
  <2>2. CASE j = k
    <3>1. ~Stored(keys'[k]) /\ Len(history'[k]) = 0 /\ Chain(history'[k])
      BY <2>1, <2>2 DEF Stored, Chain
    <3> QED
      BY <3>1 DEF Linked
  <2>3. CASE j # k
    BY <1>0, <2>1, <2>3, LinkStill
  <2> QED
    BY <2>2, <2>3
<1>4. CASE UNCHANGED <<keys, history>>
  BY <1>0, <1>4, LinkStill
<1> QED
  BY <1>1, <1>2, <1>3, <1>4 DEF Admin, DeletePackage, CreatePackage, UpdatePackage

\* Every step keeps the rows linked; after a database error nothing is claimed.
LEMMA ChainStep ==
  ASSUME KeyWriters = 1, ShopInv, Traces, ChainInv, [Next]_vars
  PROVE  ChainInv'
<1>1. OneChange'
  BY OneStep DEF ChainInv
<1>2. faults \in Nat
  BY ShopAssumption DEF Traces
<1> SUFFICES ASSUME faults' = 0, NEW k \in Keys PROVE Linked(k)'
  BY <1>1 DEF ChainInv
<1>3. /\ faults = 0 => Linked(k)
      /\ OneChange
  BY DEF ChainInv
<1>4. ASSUME NEW s \in Slots, Step(s) \/ Begin(s), ~Fail(s) PROVE Linked(k)'
  <2>1. UNCHANGED faults
    BY <1>4 DEF Step, Begin, BuyOwner, BuyDebit, BuyRead, BuyInsert, Order, Write, Trace,
       ExpireWrite, BuyBegin, MgmtRenewKey, MgmtSwitchQuota, ChangeBegin, ExpireRead, bounds
  <2> QED
    BY <1>3, <1>4, <2>1, LinkWrite, LinkTrace, LinkOthers
<1>5. ASSUME (\E s \in Slots : Fail(s)) \/ Crash PROVE FALSE
  BY <1>2, <1>5 DEF Fail, Crash
<1>6. CASE Admin
  <2>1. UNCHANGED faults
    BY <1>6 DEF Admin, MgmtCreateKey, Transfer, DeleteKey, DeletePackage, CreatePackage,
       UpdatePackage, Edit
  <2> QED
    BY <1>3, <1>6, <2>1, LinkAdmin
<1>7. CASE Tick \/ UNCHANGED vars
  <2>1. UNCHANGED <<faults, call, history, keys>>
    BY <1>7 DEF Tick, vars, tables, bounds
  <2> QED
    BY <1>3, <2>1, LinkStill
<1> QED
  BY <1>4, <1>5, <1>6, <1>7 DEF Next

\* When no two calls change a key at once, the rows of a key continue each other and
\* end at what it has: no quota change is lost and none goes without its trace
\* (quotaHistory after every UPDATE).
THEOREM HistoryIsChained == KeyWriters = 1 => (Spec => []HistoryChains)
<1> SUFFICES ASSUME KeyWriters = 1 PROVE Spec => []HistoryChains
  OBVIOUS
<1>1. Init => ChainInv
  BY DEF Init, ChainInv, OneChange, Changing, Idle, Linked, Chain, Continues
<1>2. ShopInv /\ Traces /\ ChainInv => HistoryChains
  <2> SUFFICES ASSUME ShopInv, Traces, ChainInv, faults = 0, NEW k \in Keys,
                      Len(history[k]) > 0
               PROVE  /\ Chain(history[k])
                      /\ (\A s \in Writers(k) : call[s].pc # "trace") =>
                           history[k][Len(history[k])].new = keys[k].quota
    BY DEF HistoryChains, Chain
  <2>1. Linked(k)
    BY DEF ChainInv
  <2>2. \A s \in Slots : call[s].key = k /\ call[s].pc = "trace" => s \in Writers(k)
    BY DEF ShopInv, CallsOK, ProperCall, Writers, Busy
  <2> QED
    BY <2>1, <2>2 DEF Linked
<1>3. ShopInv /\ Traces /\ ChainInv /\ [Next]_vars => ChainInv'
  BY ChainStep
<1> QED
  BY <1>1, <1>2, <1>3, ShopAlways, PTL DEF Spec

=============================================================================
