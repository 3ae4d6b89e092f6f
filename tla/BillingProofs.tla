--------------------------- MODULE BillingProofs ----------------------------
(***************************************************************************)
(* Theorems of the billing specification, for any keys, requests, slots,   *)
(* plans and usage, crashes and interleavings included.                    *)
(***************************************************************************)
EXTENDS BillingAccounts, WalletProofs, FiniteSetTheorems

USE BillingAssumption

-----------------------------------------------------------------------------
(* The calls keep their shape through the pure parts of the code.          *)

\* The plan of a request's key.
LEMMA PlanOf ==
  ASSUME NEW r \in Requests
  PROVE  /\ KeyOf[r] \in Keys /\ Owner[KeyOf[r]] \in Users
         /\ Plan[KeyOf[r]] \in [kind : Kinds, windowed : BOOLEAN, amount : Nat,
                                overflow : BOOLEAN]
  OBVIOUS

\* Idle is a proper call: no request is needed.
LEMMA IdleProper == Idle \in ProperCall
  BY DEF Idle, ProperCall, Call, NoUse, Usage, Sources, HoldPcs, ChargePcs,
         ReleasePcs, RefundPcs

\* A hold is never negative: it is capped only while quota remains (Hold).
LEMMA CappedHoldNat ==
  ASSUME NEW kind \in Kinds, NEW rem \in Nat
  PROVE  CappedHold(kind, rem) \in Nat /\ CappedHold(kind, rem) <= rem
  BY DEF CappedHold, HoldAmount, Smaller, Kinds

\* Hold continues as a proper call, wherever its routing goes.
LEMMA HoldRouteProper ==
  ASSUME NEW c \in Call, c.req \in Requests
  PROVE  HoldRoute(c) \in ProperCall
<1> DEFINE k   == KeyOf[c.req]
           amt == CappedHold(Plan[k].kind, QuotaRemaining(k, c.used))
<1>1. /\ k \in Keys /\ Plan[k].kind \in Kinds /\ Plan[k].amount \in Nat
      /\ c.used \in Nat
  BY PlanOf DEF Call
<1>2. CASE Plan[k].kind = "unlimited"
  BY <1>2 DEF HoldRoute, ProperCall, Call, Sources, HoldPcs, RefundPcs, ReleasePcs
<1>3. CASE Plan[k].kind # "unlimited" /\ HasQuota(k, c.used)
  <2>1. QuotaRemaining(k, c.used) \in Nat
    BY <1>1, <1>3 DEF HasQuota, QuotaRemaining
  <2>2. amt \in Nat
    BY <1>1, <2>1, CappedHoldNat
  <2>3. HoldRoute(c) = [c EXCEPT !.src = "key_quota",
              !.pc = IF amt > 0 THEN "hold_quota" ELSE "hold_insert", !.amt = amt]
    BY <1>3 DEF HoldRoute
  <2> QED
    BY <2>2, <2>3 DEF ProperCall, Call, Sources, HoldPcs, RefundPcs, ReleasePcs
<1>4. CASE ~HasQuota(k, c.used) /\ Plan[k].overflow
  <2>1. HoldRoute(c) = [c EXCEPT !.pc = "hold_check", !.src = "wallet", !.amt = HoldMicro]
    BY <1>4 DEF HoldRoute, HasQuota
  <2> QED
    BY <2>1 DEF ProperCall, Call, Sources, HoldPcs, RefundPcs, ReleasePcs
<1>5. CASE ~HasQuota(k, c.used) /\ ~Plan[k].overflow
  <2>1. HoldRoute(c) = Idle
    BY <1>5 DEF HoldRoute, HasQuota
  <2> QED
    BY <2>1, IdleProper
<1> QED
  BY <1>2, <1>3, <1>4, <1>5, <1>1 DEF HasQuota

\* The price of a record is a natural number.
LEMMA BillableNat ==
  ASSUME NEW use \in Usage
  PROVE  BillableCost(use) \in Nat
  BY DEF BillableCost, Usage

\* Charge continues as a proper call once the unit of the key is known.
LEMMA UnitRouteProper ==
  ASSUME NEW c \in Call, c.req \in Requests
  PROVE  UnitRoute(c) \in ProperCall
<1>1. Plan[KeyOf[c.req]].kind \in Kinds /\ c.use \in Usage
  BY PlanOf DEF Call
<1>2. UnitSpend(KeyOf[c.req], c.use) \in Nat
  BY <1>1, BillableNat DEF UnitSpend, Kinds, Usage
<1> DEFINE n == UnitSpend(KeyOf[c.req], c.use)
           d(pc) == [c EXCEPT !.unit = n, !.pc = pc]
<1>3. ASSUME NEW pc \in {"charge_count", "charge_own"} PROVE d(pc) \in ProperCall
  <2> HIDE DEF n
  <2>1. n \in Nat
    BY <1>2 DEF n
  <2>2. d(pc) \in Call /\ d(pc).pc = pc /\ d(pc).req = c.req
    BY <2>1, <1>3 DEF Call, ChargePcs
  <2> QED
    BY <1>3, <2>2 DEF ProperCall, RefundPcs, ReleasePcs
<1>4. UnitRoute(c) = d("charge_count") \/ UnitRoute(c) = d("charge_own")
  BY DEF UnitRoute
<1> QED
  BY <1>3, <1>4

\* What is settled is a natural number of units.
LEMMA ActualNat ==
  ASSUME NEW c \in Call
  PROVE  Actual(c) \in Nat
  BY BillableNat DEF Actual, Call

\* Charge continues as a proper call after the settlement.
LEMMA ChargeRouteProper ==
  ASSUME NEW c \in Call, c.req \in Requests
  PROVE  ChargeRoute(c) \in ProperCall
<1> DEFINE k    == KeyOf[c.req]
           fits == HasQuota(k, c.used) /\ QuotaRemaining(k, c.used) >= c.amt
<1>1. c.amt \in Nat
  BY DEF Call
<1>2. CASE Plan[k].kind = "unlimited" \/ c.amt <= 0
  BY <1>2 DEF ChargeRoute, ProperCall, Call, Sources, ChargePcs, RefundPcs, ReleasePcs
<1>3. CASE Plan[k].kind # "unlimited" /\ c.amt > 0 /\ fits
  <2>1. ChargeRoute(c) = [[c EXCEPT !.pc = "record", !.src = "key_quota"]
                            EXCEPT !.pc = "charge_quota"]
    BY <1>1, <1>3 DEF ChargeRoute
  <2> QED
    BY <2>1 DEF ProperCall, Call, Sources, ChargePcs, RefundPcs, ReleasePcs
<1>4. CASE Plan[k].kind # "unlimited" /\ c.amt > 0 /\ ~fits /\ Plan[k].overflow
  <2>1. ChargeRoute(c) = [c EXCEPT !.pc = "over_check"]
    BY <1>1, <1>4 DEF ChargeRoute
  <2> QED
    BY <2>1 DEF ProperCall, Call, ChargePcs, RefundPcs, ReleasePcs
<1>5. CASE Plan[k].kind # "unlimited" /\ c.amt > 0 /\ ~fits /\ ~Plan[k].overflow
  <2>1. ChargeRoute(c) = [c EXCEPT !.pc = "record", !.src = "none"]
    BY <1>1, <1>5 DEF ChargeRoute
  <2> QED
    BY <2>1 DEF ProperCall, Call, Sources, ChargePcs, RefundPcs, ReleasePcs
<1> QED
  BY <1>1, <1>2, <1>3, <1>4, <1>5

\* Charge continues as a proper call when Settle has returned.
LEMMA AfterSettleProper ==
  ASSUME NEW c \in Call, c.req \in Requests
  PROVE  AfterSettle(c) \in ProperCall
<1>1. CASE c.own = "wallet"
  <2>1. AfterSettle(c) = [c EXCEPT !.pc = IF c.amt > 0 THEN "extra_check" ELSE "record",
                                   !.src = "wallet"]
    BY <1>1 DEF AfterSettle
  <2> QED
    BY <2>1 DEF ProperCall, Call, Sources, ChargePcs, RefundPcs, ReleasePcs
<1>2. CASE c.own # "wallet"
  BY <1>2, ChargeRouteProper DEF AfterSettle
<1> QED
  BY <1>1, <1>2

-----------------------------------------------------------------------------
(* What the statements the calls share do to the tables.                   *)

BInv == TypeOK /\ WalletInv

\* A slot moves on to a proper call.
LEMMA SetKeeps ==
  ASSUME TypeOK, NEW s \in Slots, NEW c \in ProperCall, Set(s, c)
  PROVE  call' \in [Slots -> ProperCall]
  BY DEF TypeOK, Set

\* Marking a reservation keeps the shape of the table (Settle, Release).
LEMMA MarkKeeps ==
  ASSUME resv \in [Requests -> ResvRow], NEW r \in Requests,
         NEW status \in {"settled", "released"},
         resv' = [resv EXCEPT ![r].status = status]
  PROVE  resv' \in [Requests -> ResvRow]
<1>1. [resv[r] EXCEPT !.status = status] \in ResvRow
  BY DEF ResvRow
<1> QED
  BY <1>1

\* What a busy slot is known to hold.
LEMMA BusyCall ==
  ASSUME TypeOK, NEW s \in Slots, call[s].pc # "idle"
  PROVE  /\ call[s] \in Call /\ call[s].req \in Requests
         /\ call[s].amt \in Nat /\ call[s].used \in Nat /\ call[s].unit \in Nat
         /\ call[s].use \in Usage /\ call[s].src \in Sources /\ call[s].at \in Nat
         /\ call[s].pc \in RefundPcs => call[s].res \in Requests
<1>1. call[s] \in ProperCall
  BY DEF TypeOK
<1> QED
  BY <1>1 DEF ProperCall, Call

\* Statements outside AdjustBalance leave the books and the floor alone.
LEMMA StillBilling ==
  ASSUME BInv, UNCHANGED walletVars
  PROVE  WalletInv' /\ DebitsRespectFloor
<1>1. users \in [Users -> WalletRow] /\ UNCHANGED <<users, ledger>>
  BY DEF BInv, TypeOK, WalletTypeOK, walletVars
<1> QED
  BY <1>1, StillWallet DEF BInv

\* A move tagged with a request keeps the books and the floor, for any amount.
LEMMA CallMoves ==
  ASSUME BInv, NEW r \in Requests, NEW delta \in Int, NEW reason \in Reasons,
         NEW tag \in Tags, NEW q \in Requests \cup {NoReq},
         AdjustBalance(Owner[KeyOf[r]], delta, reason, <<tag, q>>, "system")
  PROVE  WalletInv' /\ DebitsRespectFloor
<1>1. /\ Owner[KeyOf[r]] \in Users /\ <<tag, q>> \in Refs \cup {NoRef}
      /\ "system" \in Channels
  BY PlanOf DEF Channels
<1> QED
  BY <1>1, MoveKeepsWallet DEF BInv

\* The CHECK constraint keeps the counters natural numbers (ConsumeQuota).
LEMMA ConsumeKeeps ==
  ASSUME TypeOK, NEW k \in Keys, NEW delta \in Int, ConsumeQuota(k, delta)
  PROVE  /\ used' \in [Keys -> Nat] /\ periodEnd' = periodEnd
         /\ \A q \in Keys : q # k => used'[q] = used[q]
         /\ used'[k] \in {used[k], used[k] + delta}
  BY DEF TypeOK, ConsumeQuota

\* A refund keeps the books, the floor and the counters, whichever table it
\* writes (Settle, Release).
LEMMA RefundKeeps ==
  ASSUME BInv, NEW r \in Requests, NEW amount \in Int, NEW tag \in Tags,
         Refund(r, amount, tag)
  PROVE  /\ WalletInv' /\ DebitsRespectFloor
         /\ used' \in [Keys -> Nat] /\ periodEnd' = periodEnd
<1>1. /\ KeyOf[r] \in Keys /\ "refund" \in Reasons /\ -amount \in Int
      /\ r \in Requests \cup {NoReq}
  BY PlanOf DEF Reasons
<1>2. CASE /\ AdjustBalance(Owner[KeyOf[r]], amount, "refund", <<tag, r>>, "system")
           /\ UNCHANGED keyVars
  BY <1>1, <1>2, CallMoves DEF keyVars, BInv, TypeOK
<1>3. CASE ConsumeQuota(KeyOf[r], -amount) /\ UNCHANGED walletVars
  BY <1>1, <1>3, ConsumeKeeps, StillBilling DEF BInv
<1> QED
  BY <1>2, <1>3 DEF Refund

\* A new period starts the counter at zero and ends after the time it was tested.
LEMMA ResetKeeps ==
  ASSUME TypeOK, NEW k \in Keys, NEW t \in Nat, ResetPeriod(k, t)
  PROVE  /\ used' \in [Keys -> Nat] /\ periodEnd' \in [Keys -> Nat]
         /\ used'[k] = 0 /\ \A q \in Keys : q # k => used'[q] = used[q]
  BY DEF TypeOK, ResetPeriod

-----------------------------------------------------------------------------
(* Hold.                                                                   *)

\* The statements of Hold keep every table's shape and the books.
LEMMA HoldStep ==
  ASSUME BInv, NEW s \in Slots,
         \/ HoldPeriod(s) \/ HoldQuota(s) \/ HoldCheck(s)
         \/ HoldDebit(s) \/ HoldInsert(s)
  PROVE  BInv' /\ DebitsRespectFloor
<1> DEFINE c == call[s]
<1>0. TypeOK /\ WalletInv
  BY DEF BInv
<1>1. ASSUME HoldPeriod(s) PROVE BInv' /\ DebitsRespectFloor
  <2>1. /\ c \in Call /\ c.req \in Requests /\ c.at \in Nat /\ KeyOf[c.req] \in Keys
    BY <1>0, <1>1, BusyCall DEF HoldPeriod
  <2>2. used' \in [Keys -> Nat] /\ periodEnd' \in [Keys -> Nat]
    BY <1>0, <1>1, <2>1, ResetKeeps DEF HoldPeriod
  <2>3. [c EXCEPT !.used = 0, !.at = 0] \in Call /\ [c EXCEPT !.used = 0, !.at = 0].req = c.req
    BY <2>1 DEF Call
  <2>4. HoldRoute([c EXCEPT !.used = 0, !.at = 0]) \in ProperCall
    BY <2>1, <2>3, HoldRouteProper
  <2>5. call' \in [Slots -> ProperCall]
    BY <1>0, <1>1, <2>4, SetKeeps DEF HoldPeriod
  <2> QED
    BY <1>0, <1>1, <2>2, <2>5, StillBilling
       DEF HoldPeriod, BInv, TypeOK, WalletInv, procVars
<1>2. ASSUME HoldQuota(s) PROVE BInv' /\ DebitsRespectFloor
  <2>1. /\ c \in Call /\ c.req \in Requests /\ c.amt \in Int /\ KeyOf[c.req] \in Keys
    BY <1>0, <1>2, BusyCall DEF HoldQuota
  <2>2. used' \in [Keys -> Nat] /\ periodEnd' = periodEnd
    BY <1>0, <1>2, <2>1, ConsumeKeeps DEF HoldQuota
  <2>3. [c EXCEPT !.pc = "hold_insert"] \in ProperCall
    BY <2>1 DEF ProperCall, Call, HoldPcs, RefundPcs, ReleasePcs
  <2>4. call' \in [Slots -> ProperCall]
    BY <1>0, <1>2, <2>3, SetKeeps DEF HoldQuota
  <2> QED
    BY <1>0, <1>2, <2>2, <2>4, StillBilling
       DEF HoldQuota, BInv, TypeOK, WalletInv, procVars
<1>3. ASSUME HoldCheck(s) PROVE BInv' /\ DebitsRespectFloor
  <2>1. c \in Call /\ c.req \in Requests
    BY <1>0, <1>3, BusyCall DEF HoldCheck
  <2>2. [c EXCEPT !.pc = "hold_debit"] \in ProperCall
    BY <2>1 DEF ProperCall, Call, HoldPcs, RefundPcs, ReleasePcs
  <2>3. call' \in [Slots -> ProperCall]
    BY <1>0, <1>3, <2>2, IdleProper, SetKeeps DEF HoldCheck
  <2> QED
    BY <1>0, <1>3, <2>3, StillBilling
       DEF HoldCheck, BInv, TypeOK, WalletInv, procVars, keyVars
<1>4. ASSUME HoldDebit(s) PROVE BInv' /\ DebitsRespectFloor
  <2>1. /\ c \in Call /\ c.req \in Requests /\ -c.amt \in Int
        /\ "hold" \in Reasons /\ "hold" \in Tags /\ c.req \in Requests \cup {NoReq}
    BY <1>0, <1>4, BusyCall DEF HoldDebit, Reasons, Tags
  <2>2. [c EXCEPT !.pc = "hold_insert"] \in ProperCall
    BY <2>1 DEF ProperCall, Call, HoldPcs, RefundPcs, ReleasePcs
  <2>3. call' \in [Slots -> ProperCall]
    BY <1>0, <1>4, <2>2, IdleProper, SetKeeps DEF HoldDebit
  <2>4. WalletInv' /\ DebitsRespectFloor
    BY <1>4, <2>1, CallMoves, StillBilling DEF HoldDebit
  <2> QED
    BY <1>0, <1>4, <2>3, <2>4 DEF HoldDebit, BInv, TypeOK, WalletInv, procVars, keyVars
<1>5. ASSUME HoldInsert(s) PROVE BInv' /\ DebitsRespectFloor
  <2>1. /\ c.req \in Requests /\ c.amt \in Nat /\ c.src \in Sources
    BY <1>0, <1>5, BusyCall DEF HoldInsert
  <2>2. resv' \in [Requests -> ResvRow]
    BY <1>0, <1>5, <2>1 DEF HoldInsert, TypeOK, ResvRow
  <2>3. call' \in [Slots -> ProperCall]
    BY <1>0, <1>5, IdleProper, SetKeeps DEF HoldInsert
  <2> QED
    BY <1>0, <1>5, <2>2, <2>3, StillBilling
       DEF HoldInsert, BInv, TypeOK, WalletInv, procVars, keyVars
<1> QED
  BY <1>1, <1>2, <1>3, <1>4, <1>5

-----------------------------------------------------------------------------
(* Charge.                                                                 *)

\* The debit of an extra or of an overflow keeps the books and the floor,
\* whatever the balance has become since CanSpend was asked.
LEMMA DebitOwnerStep ==
  ASSUME BInv, NEW s \in Slots, call[s].pc # "idle", NEW amount \in Nat,
         DebitOwner(s, amount)
  PROVE  BInv' /\ DebitsRespectFloor
<1> DEFINE c == call[s]
<1>0. TypeOK /\ WalletInv
  BY DEF BInv
<1>1. /\ c \in Call /\ c.req \in Requests /\ -amount \in Int
      /\ "usage" \in Reasons /\ "usage" \in Tags /\ NoReq \in Requests \cup {NoReq}
  BY <1>0, BusyCall DEF Reasons, Tags
<1>2. [c EXCEPT !.pc = "record", !.src = "wallet"] \in ProperCall
  BY <1>1 DEF ProperCall, Call, Sources, ChargePcs, RefundPcs, ReleasePcs
<1>3. call' \in [Slots -> ProperCall]
  BY <1>0, <1>2, IdleProper, SetKeeps DEF DebitOwner
<1>4. WalletInv' /\ DebitsRespectFloor
  BY <1>1, CallMoves, StillBilling DEF DebitOwner
<1> QED
  BY <1>0, <1>3, <1>4 DEF DebitOwner, BInv, TypeOK, WalletInv, procVars, keyVars

\* The statements of Charge and Settle keep every table's shape and the books.
LEMMA ChargeStep ==
  ASSUME BInv, NEW s \in Slots,
         \/ ChargePeriod(s) \/ ChargeCount(s) \/ ChargeOwn(s) \/ SettlePick(s)
         \/ SettleRefund(s) \/ SettleMark(s) \/ ExtraCheck(s) \/ ExtraDebit(s)
         \/ ChargeQuota(s) \/ OverCheck(s) \/ OverDebit(s) \/ Record(s)
  PROVE  BInv' /\ DebitsRespectFloor
<1> DEFINE c == call[s]
<1>0. TypeOK /\ WalletInv
  BY DEF BInv
<1>1. ASSUME ChargePeriod(s) PROVE BInv' /\ DebitsRespectFloor
  <2>1. /\ c \in Call /\ c.req \in Requests /\ c.at \in Nat /\ KeyOf[c.req] \in Keys
    BY <1>0, <1>1, BusyCall DEF ChargePeriod
  <2>2. used' \in [Keys -> Nat] /\ periodEnd' \in [Keys -> Nat]
    BY <1>0, <1>1, <2>1, ResetKeeps DEF ChargePeriod
  <2>3. [c EXCEPT !.used = 0, !.at = 0] \in Call /\ [c EXCEPT !.used = 0, !.at = 0].req = c.req
    BY <2>1 DEF Call
  <2>4. UnitRoute([c EXCEPT !.used = 0, !.at = 0]) \in ProperCall
    BY <2>1, <2>3, UnitRouteProper
  <2>5. call' \in [Slots -> ProperCall]
    BY <1>0, <1>1, <2>4, SetKeeps DEF ChargePeriod
  <2> QED
    BY <1>0, <1>1, <2>2, <2>5, StillBilling
       DEF ChargePeriod, BInv, TypeOK, WalletInv, procVars
<1>2. ASSUME ChargeCount(s) PROVE BInv' /\ DebitsRespectFloor
  <2>1. c \in Call /\ c.req \in Requests
    BY <1>0, <1>2, BusyCall DEF ChargeCount
  <2>2. \A n \in Nat : [c EXCEPT !.unit = n, !.pc = "charge_own"] \in ProperCall
    BY <2>1 DEF ProperCall, Call, Sources, ChargePcs, RefundPcs, ReleasePcs
  <2>9. call' \in [Slots -> ProperCall]
    BY <1>0, <1>2, <2>2, SetKeeps DEF ChargeCount
  <2> QED
    BY <1>0, <1>2, <2>9, StillBilling
       DEF ChargeCount, BInv, TypeOK, WalletInv, procVars, keyVars
<1>3. ASSUME ChargeOwn(s) PROVE BInv' /\ DebitsRespectFloor
  <2>1. c \in Call /\ c.req \in Requests
    BY <1>0, <1>3, BusyCall DEF ChargeOwn
  <2>3. resv[c.req].source \in Sources /\ "none" \in Sources
    BY <1>0, <2>1 DEF TypeOK, ResvRow, Sources
  <2>2. \A o \in Sources : [c EXCEPT !.pc = "settle_pick", !.own = o] \in ProperCall
    BY <2>1 DEF ProperCall, Call, Sources, ChargePcs, RefundPcs, ReleasePcs
  <2>9. call' \in [Slots -> ProperCall]
    BY <1>0, <1>3, <2>2, <2>3, SetKeeps DEF ChargeOwn
  <2> QED
    BY <1>0, <1>3, <2>9, StillBilling
       DEF ChargeOwn, BInv, TypeOK, WalletInv, procVars, keyVars
<1>4. ASSUME SettlePick(s) PROVE BInv' /\ DebitsRespectFloor
  <2> DEFINE k == KeyOf[c.req]
  <2>1. c \in Call /\ c.req \in Requests /\ c.unit \in Nat
    BY <1>0, <1>4, BusyCall DEF SettlePick
  <2>2. ASSUME Set(s, ChargeRoute([c EXCEPT !.amt = c.unit]))
        PROVE  call' \in [Slots -> ProperCall]
    <3>1. [c EXCEPT !.amt = c.unit] \in Call /\ [c EXCEPT !.amt = c.unit].req = c.req
      BY <2>1 DEF Call
    <3> QED
      BY <1>0, <2>1, <2>2, <3>1, ChargeRouteProper, SetKeeps
  <2>3. ASSUME NEW r \in Requests,
               Set(s, [c EXCEPT !.res = r,
                         !.pc = IF resv[r].hold > Actual(c)
                                  THEN "settle_refund" ELSE "settle_mark",
                         !.amt = resv[r].hold])
        PROVE  call' \in [Slots -> ProperCall]
    <3>1. resv[r].hold \in Nat
      BY <1>0 DEF TypeOK, ResvRow
    <3>2. \A pc \in {"settle_refund", "settle_mark"} :
            [c EXCEPT !.res = r, !.pc = pc, !.amt = resv[r].hold] \in ProperCall
      BY <2>1, <3>1 DEF ProperCall, Call, ChargePcs
    <3> QED
      BY <1>0, <2>3, <3>2, SetKeeps
  <2>4. call' \in [Slots -> ProperCall]
    BY <1>4, <2>2, <2>3 DEF SettlePick, OpenOf
  <2> QED
    BY <1>0, <1>4, <2>4, StillBilling
       DEF SettlePick, BInv, TypeOK, WalletInv, procVars, keyVars
<1>5. ASSUME SettleRefund(s) PROVE BInv' /\ DebitsRespectFloor
  <2>1. c \in Call /\ c.req \in Requests /\ c.res \in Requests /\ c.amt \in Nat
    BY <1>0, <1>5, BusyCall DEF SettleRefund, RefundPcs
  <2>2. c.amt - Actual(c) \in Int /\ "settle" \in Tags
    BY <2>1, ActualNat DEF Tags
  <2>3. /\ WalletInv' /\ DebitsRespectFloor
        /\ used' \in [Keys -> Nat] /\ periodEnd' = periodEnd
    BY <1>5, <2>1, <2>2, RefundKeeps DEF SettleRefund
  <2>4. [c EXCEPT !.pc = "settle_mark"] \in ProperCall
    BY <2>1 DEF ProperCall, Call, ChargePcs
  <2>5. call' \in [Slots -> ProperCall]
    BY <1>0, <1>5, <2>4, SetKeeps DEF SettleRefund
  <2> QED
    BY <1>0, <1>5, <2>3, <2>5 DEF SettleRefund, BInv, TypeOK, WalletInv, procVars
<1>6. ASSUME SettleMark(s) PROVE BInv' /\ DebitsRespectFloor
  <2> DEFINE n == Larger(0, Actual(c) - c.amt)
  <2>1. c \in Call /\ c.req \in Requests /\ c.res \in Requests /\ c.amt \in Nat
    BY <1>0, <1>6, BusyCall DEF SettleMark, RefundPcs
  <2>2. n \in Nat
    BY <2>1, ActualNat DEF Larger
  <2>3. [c EXCEPT !.amt = n] \in Call /\ [c EXCEPT !.amt = n].req = c.req
    BY <2>1, <2>2 DEF Call
  <2>4. AfterSettle([c EXCEPT !.amt = n]) \in ProperCall
    BY <2>1, <2>3, AfterSettleProper
  <2>5. call' \in [Slots -> ProperCall]
    BY <1>0, <1>6, <2>4, SetKeeps DEF SettleMark
  <2>6. resv' \in [Requests -> ResvRow]
    BY <1>0, <1>6, <2>1, MarkKeeps DEF SettleMark, TypeOK
  <2> QED
    BY <1>0, <1>6, <2>5, <2>6, StillBilling
       DEF SettleMark, BInv, TypeOK, WalletInv, procVars, keyVars
<1>7. ASSUME ExtraCheck(s) PROVE BInv' /\ DebitsRespectFloor
  <2>1. c \in Call /\ c.req \in Requests
    BY <1>0, <1>7, BusyCall DEF ExtraCheck
  <2>2. \A pc \in {"extra_debit", "record"} : [c EXCEPT !.pc = pc] \in ProperCall
    BY <2>1 DEF ProperCall, Call, Sources, ChargePcs, RefundPcs, ReleasePcs
  <2>9. call' \in [Slots -> ProperCall]
    BY <1>0, <1>7, <2>2, SetKeeps DEF ExtraCheck
  <2> QED
    BY <1>0, <1>7, <2>9, StillBilling
       DEF ExtraCheck, BInv, TypeOK, WalletInv, procVars, keyVars
<1>8. ASSUME ExtraDebit(s) PROVE BInv' /\ DebitsRespectFloor
  <2>1. c.amt \in Nat /\ c.pc # "idle"
    BY <1>0, <1>8, BusyCall DEF ExtraDebit
  <2> QED
    BY <1>8, <2>1, DebitOwnerStep DEF ExtraDebit
<1>9. ASSUME ChargeQuota(s) PROVE BInv' /\ DebitsRespectFloor
  <2>1. /\ c \in Call /\ c.req \in Requests /\ c.amt \in Int /\ KeyOf[c.req] \in Keys
    BY <1>0, <1>9, BusyCall DEF ChargeQuota
  <2>2. used' \in [Keys -> Nat] /\ periodEnd' = periodEnd
    BY <1>0, <1>9, <2>1, ConsumeKeeps DEF ChargeQuota
  <2>3. [c EXCEPT !.pc = "record"] \in ProperCall
    BY <2>1 DEF ProperCall, Call, Sources, ChargePcs, RefundPcs, ReleasePcs
  <2>4. call' \in [Slots -> ProperCall]
    BY <1>0, <1>9, <2>3, SetKeeps DEF ChargeQuota
  <2> QED
    BY <1>0, <1>9, <2>2, <2>4, StillBilling
       DEF ChargeQuota, BInv, TypeOK, WalletInv, procVars
<1>10. ASSUME OverCheck(s) PROVE BInv' /\ DebitsRespectFloor
  <2>1. c \in Call /\ c.req \in Requests
    BY <1>0, <1>10, BusyCall DEF OverCheck
  <2>2. /\ [c EXCEPT !.pc = "over_debit"] \in ProperCall
        /\ [c EXCEPT !.pc = "record", !.src = "none"] \in ProperCall
    BY <2>1 DEF ProperCall, Call, Sources, ChargePcs, RefundPcs, ReleasePcs
  <2>9. call' \in [Slots -> ProperCall]
    BY <1>0, <1>10, <2>2, SetKeeps DEF OverCheck
  <2> QED
    BY <1>0, <1>10, <2>9, StillBilling
       DEF OverCheck, BInv, TypeOK, WalletInv, procVars, keyVars
<1>11. ASSUME OverDebit(s) PROVE BInv' /\ DebitsRespectFloor
  <2>1. BillableCost(c.use) \in Nat /\ c.pc # "idle"
    BY <1>0, <1>11, BusyCall, BillableNat DEF OverDebit
  <2> QED
    BY <1>11, <2>1, DebitOwnerStep DEF OverDebit
<1>12. ASSUME Record(s) PROVE BInv' /\ DebitsRespectFloor
  <2> DEFINE row == [req |-> c.req, src |-> c.src, tokens |-> c.use.tokens,
                     cost |-> IF c.src = "none" THEN 0 ELSE BillableCost(c.use)]
  <2>1. /\ c.req \in Requests /\ c.src \in Sources /\ c.use \in Usage
        /\ BillableCost(c.use) \in Nat
    BY <1>0, <1>12, BusyCall, BillableNat DEF Record
  <2>2. row \in UsageRow
    BY <2>1 DEF UsageRow, Usage
  <2>3. usage' \in Seq(UsageRow)
    BY <1>0, <1>12, <2>2, AppendedRows DEF Record, TypeOK
  <2>4. call' \in [Slots -> ProperCall]
    BY <1>0, <1>12, IdleProper, SetKeeps DEF Record
  <2> QED
    BY <1>0, <1>12, <2>3, <2>4, StillBilling
       DEF Record, BInv, TypeOK, WalletInv, procVars, keyVars
<1> QED
  BY <1>1, <1>2, <1>3, <1>4, <1>5, <1>6, <1>7, <1>8, <1>9, <1>10, <1>11, <1>12

-----------------------------------------------------------------------------
(* Release, the beginnings of calls, and the process.                      *)

\* Reading the reservation leaves the slot with a proper release, or idle.
LEMMA ReadReleaseKeeps ==
  ASSUME TypeOK, NEW s \in Slots, NEW r \in Requests, ReadRelease(s, r)
  PROVE  call' \in [Slots -> ProperCall]
<1>1. resv[r].hold \in Nat
  BY DEF TypeOK, ResvRow
<1>2. ReleaseCall(r) \in ProperCall
  BY <1>1 DEF ReleaseCall, Idle, NoUse, ProperCall, Call, Usage, Sources, ReleasePcs
<1> QED
  BY <1>2, IdleProper, SetKeeps DEF ReadRelease

\* The two statements of Release keep every table's shape and the books.
LEMMA ReleaseStep ==
  ASSUME BInv, NEW s \in Slots, ReleaseRefund(s) \/ ReleaseMark(s)
  PROVE  BInv' /\ DebitsRespectFloor
<1> DEFINE c == call[s]
<1>0. TypeOK /\ WalletInv
  BY DEF BInv
<1>1. /\ c \in Call /\ c.req \in Requests /\ c.res \in Requests
      /\ c.amt \in Int /\ "release" \in Tags
  BY <1>0, BusyCall DEF ReleaseRefund, ReleaseMark, RefundPcs, ReleasePcs, Tags
<1>2. CASE ReleaseRefund(s)
  <2>1. /\ WalletInv' /\ DebitsRespectFloor
        /\ used' \in [Keys -> Nat] /\ periodEnd' = periodEnd
    BY <1>1, <1>2, RefundKeeps DEF ReleaseRefund
  <2>2. [c EXCEPT !.pc = "release_mark"] \in ProperCall
    BY <1>1 DEF ProperCall, Call, ReleasePcs
  <2>3. call' \in [Slots -> ProperCall]
    BY <1>0, <1>2, <2>2, SetKeeps DEF ReleaseRefund
  <2> QED
    BY <1>0, <1>2, <2>1, <2>3 DEF ReleaseRefund, BInv, TypeOK, WalletInv, procVars
<1>3. CASE ReleaseMark(s)
  <2>1. resv' \in [Requests -> ResvRow]
    BY <1>0, <1>1, <1>3, MarkKeeps DEF ReleaseMark, TypeOK
  <2>2. call' \in [Slots -> ProperCall]
    BY <1>0, <1>3, IdleProper, SetKeeps DEF ReleaseMark
  <2> QED
    BY <1>0, <1>3, <2>1, <2>2, StillBilling
       DEF ReleaseMark, BInv, TypeOK, WalletInv, procVars, keyVars
<1> QED
  BY <1>2, <1>3

\* A call begins: only host and slot change.
LEMMA BeginStep ==
  ASSUME BInv, NEW s \in Slots, NEW r \in Requests,
         \/ HoldBegin(s, r)
         \/ \E use \in Uses : ChargeBegin(s, r, use)
         \/ CompleteFailed(s, r)
         \/ BootRelease(s, r)
  PROVE  BInv' /\ DebitsRespectFloor
<1>0. TypeOK /\ WalletInv /\ KeyOf[r] \in Keys /\ now \in Nat /\ used[KeyOf[r]] \in Nat
  BY PlanOf DEF BInv, TypeOK
<1>1. ASSUME HoldBegin(s, r) PROVE BInv' /\ DebitsRespectFloor
  <2> DEFINE c == [Idle EXCEPT !.req = r, !.used = used[KeyOf[r]]]
  <2>1. c \in Call /\ c.req = r
    BY <1>0 DEF Idle, NoUse, Call, Usage, Sources
  <2>2. [c EXCEPT !.pc = "hold_period", !.at = now] \in ProperCall
    BY <1>0, <2>1 DEF ProperCall, Call, HoldPcs, RefundPcs, ReleasePcs
  <2>3. HoldRoute(c) \in ProperCall
    BY <2>1, HoldRouteProper
  <2>4. call' \in [Slots -> ProperCall]
    BY <1>0, <1>1, <2>2, <2>3, SetKeeps DEF HoldBegin
  <2>5. host' \in [Requests -> Host]
    BY <1>0, <1>1 DEF HoldBegin, TypeOK, Host
  <2> QED
    BY <1>0, <1>1, <2>4, <2>5, StillBilling
       DEF HoldBegin, BInv, TypeOK, WalletInv, procVars, keyVars
<1>2. ASSUME NEW use \in Uses, ChargeBegin(s, r, use) PROVE BInv' /\ DebitsRespectFloor
  <2> DEFINE c == [Idle EXCEPT !.req = r, !.use = use, !.used = used[KeyOf[r]]]
  <2>1. c \in Call /\ c.req = r
    BY <1>0 DEF Idle, Call, Usage, Sources
  <2>2. /\ [c EXCEPT !.pc = "record"] \in ProperCall
        /\ [c EXCEPT !.pc = "charge_period", !.at = now] \in ProperCall
    BY <1>0, <2>1 DEF ProperCall, Call, ChargePcs, RefundPcs, ReleasePcs
  <2>3. UnitRoute(c) \in ProperCall
    BY <2>1, UnitRouteProper
  <2>4. call' \in [Slots -> ProperCall]
    BY <1>0, <1>2, <2>2, <2>3, SetKeeps DEF ChargeBegin
  <2>5. host' \in [Requests -> Host]
    <3>1. host \in [Requests -> Host] /\ host[r] \in Host /\ host[r].uses < MaxUses
      BY <1>0, <1>2 DEF ChargeBegin, TypeOK
    <3>2. [host[r] EXCEPT !.uses = @ + 1] \in Host
      BY <3>1 DEF Host
    <3>3. host' = [host EXCEPT ![r] = [host[r] EXCEPT !.uses = @ + 1]]
      BY <1>2 DEF ChargeBegin
    <3> QED
      BY <3>1, <3>2, <3>3
  <2> QED
    BY <1>0, <1>2, <2>4, <2>5, StillBilling
       DEF ChargeBegin, BInv, TypeOK, WalletInv, procVars, keyVars
<1>3. ASSUME CompleteFailed(s, r) PROVE BInv' /\ DebitsRespectFloor
  <2>1. call' \in [Slots -> ProperCall]
    BY <1>0, <1>3, ReadReleaseKeeps DEF CompleteFailed
  <2>2. host' \in [Requests -> Host]
    BY <1>0, <1>3 DEF CompleteFailed, TypeOK, Host
  <2> QED
    BY <1>0, <1>3, <2>1, <2>2, StillBilling
       DEF CompleteFailed, BInv, TypeOK, WalletInv, procVars, keyVars
<1>4. ASSUME BootRelease(s, r) PROVE BInv' /\ DebitsRespectFloor
  <2>1. call' \in [Slots -> ProperCall]
    BY <1>0, <1>4, ReadReleaseKeeps DEF BootRelease
  <2> QED
    BY <1>0, <1>4, <2>1, StillBilling DEF BootRelease, BInv, TypeOK, WalletInv, keyVars
<1> QED
  BY <1>1, <1>2, <1>3, <1>4

\* Crashes, boots, completions, the administrator and the clock move no money.
LEMMA ProcessStep ==
  ASSUME BInv,
         \/ \E r \in Requests : CompleteSucceeded(r)
         \/ Crash \/ Boot \/ BootDone \/ Edit \/ Tick \/ UNCHANGED vars
  PROVE  BInv' /\ DebitsRespectFloor
<1>0. TypeOK /\ WalletInv
  BY DEF BInv
<1>1. ASSUME NEW r \in Requests, CompleteSucceeded(r) PROVE BInv' /\ DebitsRespectFloor
  <2>1. host' \in [Requests -> Host]
    BY <1>0, <1>1 DEF CompleteSucceeded, TypeOK, Host
  <2> QED
    BY <1>0, <1>1, <2>1, StillBilling
       DEF CompleteSucceeded, BInv, TypeOK, WalletInv, procVars, keyVars
<1>2. CASE Crash
  <2>1. call' \in [Slots -> ProperCall]
    BY <1>2, IdleProper DEF Crash
  <2>2. host' \in [Requests -> Host]
    <3>1. \A r \in Requests : host[r] \in Host
      BY <1>0 DEF TypeOK
    <3>2. [stage |-> "lost", uses |-> MaxUses] \in Host
      BY DEF Host
    <3> QED
      BY <1>2, <3>1, <3>2 DEF Crash
  <2>3. crashes' \in 0..MaxCrashes
    BY <1>0, <1>2 DEF Crash, TypeOK
  <2> QED
    BY <1>0, <1>2, <2>1, <2>2, <2>3, StillBilling
       DEF Crash, BInv, TypeOK, WalletInv, keyVars
<1>3. CASE Boot
  BY <1>0, <1>3, StillBilling
     DEF Boot, StaleReservations, BInv, TypeOK, WalletInv, keyVars
<1>4. CASE BootDone
  BY <1>0, <1>4, StillBilling DEF BootDone, BInv, TypeOK, WalletInv, keyVars
<1>5. CASE Tick
  BY <1>0, <1>5, StillBilling DEF Tick, BInv, TypeOK, WalletInv, keyVars, procVars
<1>6. CASE UNCHANGED vars
  BY <1>0, <1>6, StillBilling DEF vars, BInv, TypeOK, WalletInv, walletVars
<1>7. CASE Edit
  <2>1. /\ edits' \in 0..MaxEdits
        /\ UNCHANGED <<resv, usage, host, call, phase, stale, crashes, now>>
    BY <1>0, <1>7, BillingAssumption DEF Edit, TypeOK
  <2>2. UNCHANGED <<ledger, periodEnd>> /\ used' \in [Keys -> Nat]
    <3>1. used \in [Keys -> Nat]
      BY <1>0 DEF TypeOK
    <3>2. ASSUME NEW k \in Keys, Switch(k)
          PROVE  UNCHANGED <<ledger, periodEnd>> /\ used' \in [Keys -> Nat]
      BY <3>1, <3>2 DEF Switch, walletVars
    <3>3. ASSUME NEW u \in Users, EditTerms(u)
          PROVE  UNCHANGED <<ledger, periodEnd>> /\ used' \in [Keys -> Nat]
      BY <3>1, <3>3 DEF EditTerms, UpdateMode, UpdateLimit, keyVars
    <3> QED
      BY <1>7, <3>2, <3>3 DEF Edit
  <2>3. /\ users' \in [Users -> WalletRow]
        /\ \A v \in Users : users'[v].balance = users[v].balance
    <3>1. users \in [Users -> WalletRow]
      BY <1>0 DEF TypeOK, WalletTypeOK
    <3>2. ASSUME NEW k \in Keys, Switch(k) PROVE UNCHANGED users
      BY <3>2 DEF Switch, walletVars
    <3>3. ASSUME NEW u \in Users, NEW m \in Modes, UpdateMode(u, m)
          PROVE  /\ users' \in [Users -> WalletRow]
                 /\ \A v \in Users : users'[v].balance = users[v].balance
      BY <3>1, <3>3 DEF UpdateMode, WalletRow
    <3>4. ASSUME NEW u \in Users, NEW l \in Limits, UpdateLimit(u, l)
          PROVE  /\ users' \in [Users -> WalletRow]
                 /\ \A v \in Users : users'[v].balance = users[v].balance
      BY <3>1, <3>4, BillingAssumption DEF UpdateLimit, WalletRow
    <3> QED
      BY <1>7, <3>1, <3>2, <3>3, <3>4 DEF Edit, EditTerms
  <2>4. WalletInv' /\ DebitsRespectFloor
    BY <1>0, <2>2, <2>3, StillWallet DEF WalletInv
  <2> QED
    BY <1>0, <2>1, <2>2, <2>3, <2>4 DEF BInv, TypeOK, WalletInv, WalletTypeOK
<1> QED
  BY <1>1, <1>2, <1>3, <1>4, <1>5, <1>6, <1>7

-----------------------------------------------------------------------------

\* The tables start empty and the wallets as recharges left them.
LEMMA InitInv == Init => BInv
<1> SUFFICES ASSUME Init PROVE BInv
  OBVIOUS
<1>1. \A r \in Requests : resv[r] \in ResvRow
  BY DEF Init, NoResv, ResvRow, Sources
<1>2. \A r \in Requests : host[r] \in Host
  BY DEF Init, Host
<1>3. call \in [Slots -> ProperCall]
  BY IdleProper DEF Init
<1>4. usage \in Seq(UsageRow)
  BY DEF Init
<1> QED
  BY <1>1, <1>2, <1>3, <1>4 DEF Init, BInv, TypeOK, WalletInv

\* Every statement of every call keeps the shapes, the books and the floor.
LEMMA StepInv == BInv /\ [Next]_vars => BInv' /\ DebitsRespectFloor
<1> SUFFICES ASSUME BInv, [Next]_vars PROVE BInv' /\ DebitsRespectFloor
  OBVIOUS
<1>1. ASSUME NEW s \in Slots, Step(s) PROVE BInv' /\ DebitsRespectFloor
  BY <1>1, HoldStep, ChargeStep, ReleaseStep DEF Step
<1>2. ASSUME NEW s \in Slots, Begin(s) PROVE BInv' /\ DebitsRespectFloor
  BY <1>2, BeginStep DEF Begin
<1> QED
  BY <1>1, <1>2, ProcessStep DEF Next

\* The tables and the calls keep their shapes; in particular no interleaving
\* and no crash makes quota_used negative (Hold, Charge, Release, Boot).
THEOREM TypeCorrect == Spec => []TypeOK
  BY InitInv, StepInv, PTL DEF Spec, BInv

\* Every balance is explained by the ledger, whatever calls run at once and
\* wherever the process crashes (AdjustBalance as Hold, Settle, Charge and
\* Release use it).
THEOREM BooksBalance == Spec => []LedgerExplainsBalance
  BY InitInv, StepInv, PTL DEF Spec, BInv, WalletInv

\* No hold, extra or overflow takes a wallet below its floor, although CanSpend
\* was asked before other calls spent (HoldDebit, ExtraDebit, OverDebit).
THEOREM FloorNeverCrossed == Spec => FloorHolds
  BY InitInv, StepInv, PTL DEF Spec, FloorHolds

-----------------------------------------------------------------------------
(***************************************************************************)
(* A key never spends more than it was sold, provided the host runs the    *)
(* calls of one key one after another (KeyCalls = 1).  Calls of different  *)
(* keys, the requests of one key, attempts, periods, late usage, crashes   *)
(* and boots still interleave.  Without the proviso the run HoldOversells  *)
(* has a counterexample: two Holds read the same quota_used.               *)
(*                                                                         *)
(* The argument is about staleness.  A call decides with the row it read   *)
(* when it began (c.used); while it is alone on its key the counter only   *)
(* goes down behind its back, so what fitted then still fits.              *)
(***************************************************************************)

\* Statements before which the row a call has read still bounds the counter.
FreshPcs == {"hold_quota", "charge_count", "charge_own", "settle_pick",
             "settle_refund", "settle_mark", "charge_quota"}

Fits(k, n) == Plan[k].kind # "unlimited" => n <= Plan[k].amount

\* What call c relies on, when the counters are f.
Fine(c, f) ==
  /\ c.pc \in FreshPcs => f[KeyOf[c.req]] <= c.used
  /\ c.pc \in {"hold_quota", "charge_quota"} => Fits(KeyOf[c.req], c.used + c.amt)
  /\ c.pc = "settle_refund" => Actual(c) <= c.amt

\* Nobody but s works on key k.
Alone(s, k) ==
  \A t \in Slots \ {s} : call[t].pc # "idle" => KeyOf[call[t].req] # k

Serial ==
  /\ \A s \in Slots : call[s].pc # "idle" => Alone(s, KeyOf[call[s].req])
  /\ \A s \in Slots : Fine(call[s], used)
  /\ NeverOversold

-----------------------------------------------------------------------------
(* The pure parts of the calls establish what the next statement needs.    *)

\* Hold reserves no more than what its row says remains.
LEMMA HoldRouteFine ==
  ASSUME NEW c \in Call, c.req \in Requests, NEW f \in [Keys -> Nat],
         f[KeyOf[c.req]] <= c.used
  PROVE  /\ Fine(HoldRoute(c), f)
         /\ HoldRoute(c).pc # "idle" => HoldRoute(c).req = c.req
<1> DEFINE k   == KeyOf[c.req]
           rem == QuotaRemaining(k, c.used)
           amt == CappedHold(Plan[k].kind, rem)
<1>1. /\ k \in Keys /\ Plan[k].kind \in Kinds /\ Plan[k].amount \in Nat
      /\ c.used \in Nat
  BY PlanOf DEF Call
<1>2. CASE Plan[k].kind = "unlimited"
  BY <1>2 DEF HoldRoute, Fine, FreshPcs, Call
<1>3. CASE Plan[k].kind # "unlimited" /\ HasQuota(k, c.used)
  <2>1. rem \in Nat /\ rem = Plan[k].amount - c.used
    BY <1>1, <1>3 DEF HasQuota, QuotaRemaining
  <2>2. amt \in Nat /\ c.used + amt <= Plan[k].amount
    BY <1>1, <2>1, CappedHoldNat
  <2>3. HoldRoute(c) = [c EXCEPT !.src = "key_quota",
              !.pc = IF amt > 0 THEN "hold_quota" ELSE "hold_insert", !.amt = amt]
    BY <1>3 DEF HoldRoute
  <2> QED
    BY <2>2, <2>3 DEF Fine, Fits, FreshPcs, Call
<1>4. CASE ~HasQuota(k, c.used) /\ Plan[k].overflow
  <2>1. HoldRoute(c) = [c EXCEPT !.pc = "hold_check", !.src = "wallet", !.amt = HoldMicro]
    BY <1>4 DEF HoldRoute, HasQuota
  <2> QED
    BY <2>1 DEF Fine, FreshPcs, Call
<1>5. CASE ~HasQuota(k, c.used) /\ ~Plan[k].overflow
  <2>1. HoldRoute(c) = Idle
    BY <1>5 DEF HoldRoute, HasQuota
  <2> QED
    BY <2>1 DEF Fine, FreshPcs, Idle
<1> QED
  BY <1>2, <1>3, <1>4, <1>5, <1>1 DEF HasQuota

\* Knowing the unit changes nothing of the row read.
LEMMA UnitRouteFine ==
  ASSUME NEW c \in Call, c.req \in Requests, NEW f \in [Keys -> Nat],
         f[KeyOf[c.req]] <= c.used
  PROVE  Fine(UnitRoute(c), f) /\ UnitRoute(c).req = c.req
  BY DEF UnitRoute, Fine, FreshPcs, Call

\* Charge spends an extra of the quota only when its row says it remains.
LEMMA ChargeRouteFine ==
  ASSUME NEW c \in Call, c.req \in Requests, NEW f \in [Keys -> Nat],
         f[KeyOf[c.req]] <= c.used
  PROVE  Fine(ChargeRoute(c), f) /\ ChargeRoute(c).req = c.req
<1> DEFINE k    == KeyOf[c.req]
           fits == HasQuota(k, c.used) /\ QuotaRemaining(k, c.used) >= c.amt
<1>1. c.amt \in Nat /\ c.used \in Nat /\ Plan[k].amount \in Nat
  BY PlanOf DEF Call
<1>2. CASE Plan[k].kind = "unlimited" \/ c.amt <= 0
  BY <1>2 DEF ChargeRoute, Fine, FreshPcs, Call
<1>3. CASE Plan[k].kind # "unlimited" /\ c.amt > 0 /\ fits
  <2>1. ChargeRoute(c) = [[c EXCEPT !.pc = "record", !.src = "key_quota"]
                            EXCEPT !.pc = "charge_quota"]
    BY <1>1, <1>3 DEF ChargeRoute
  <2>2. c.used + c.amt <= Plan[k].amount
    BY <1>1, <1>3 DEF QuotaRemaining
  <2> QED
    BY <2>1, <2>2 DEF Fine, Fits, FreshPcs, Call
<1>4. CASE Plan[k].kind # "unlimited" /\ c.amt > 0 /\ ~fits /\ Plan[k].overflow
  <2>1. ChargeRoute(c) = [c EXCEPT !.pc = "over_check"]
    BY <1>1, <1>4 DEF ChargeRoute
  <2> QED
    BY <2>1 DEF Fine, FreshPcs, Call
<1>5. CASE Plan[k].kind # "unlimited" /\ c.amt > 0 /\ ~fits /\ ~Plan[k].overflow
  <2>1. ChargeRoute(c) = [c EXCEPT !.pc = "record", !.src = "none"]
    BY <1>1, <1>5 DEF ChargeRoute
  <2> QED
    BY <2>1 DEF Fine, FreshPcs, Call
<1> QED
  BY <1>1, <1>2, <1>3, <1>4, <1>5

\* After the settlement the row read when the call began is still a bound.
LEMMA AfterSettleFine ==
  ASSUME NEW c \in Call, c.req \in Requests, NEW f \in [Keys -> Nat],
         f[KeyOf[c.req]] <= c.used
  PROVE  Fine(AfterSettle(c), f) /\ AfterSettle(c).req = c.req
<1>1. CASE c.own = "wallet"
  <2>1. AfterSettle(c) = [c EXCEPT !.pc = IF c.amt > 0 THEN "extra_check" ELSE "record",
                                   !.src = "wallet"]
    BY <1>1 DEF AfterSettle
  <2> QED
    BY <2>1 DEF Fine, FreshPcs, Call
<1>2. CASE c.own # "wallet"
  BY <1>2, ChargeRouteFine DEF AfterSettle
<1> QED
  BY <1>1, <1>2

-----------------------------------------------------------------------------
(* Steps.                                                                  *)

QInv == BInv /\ Serial

\* When slot s moves on alone on its key, and the other counters only go down,
\* every call keeps what it relies on.
LEMMA SlotStep ==
  ASSUME TypeOK, TypeOK', Serial, NEW s \in Slots, NEW d \in ProperCall, Set(s, d),
         d.pc # "idle" => Alone(s, KeyOf[d.req]),
         Fine(d, used'),
         \A k \in Keys : \/ used'[k] <= used[k]
                         \/ d.pc # "idle" /\ k = KeyOf[d.req] /\ Fits(k, used'[k])
  PROVE  Serial'
<1>1. /\ call \in [Slots -> ProperCall] /\ call' = [call EXCEPT ![s] = d]
      /\ used \in [Keys -> Nat] /\ used' \in [Keys -> Nat]
  BY DEF TypeOK, Set
<1>2. call'[s] = d /\ \A t \in Slots \ {s} : call'[t] = call[t]
  BY <1>1
<1>3. ASSUME NEW t \in Slots, call'[t].pc # "idle",
             NEW u \in Slots \ {t}, call'[u].pc # "idle"
      PROVE  KeyOf[call'[u].req] # KeyOf[call'[t].req]
  BY <1>2, <1>3 DEF Alone, Serial
<1>4. ASSUME NEW t \in Slots PROVE Fine(call'[t], used')
  <2>1. CASE t = s
    BY <1>2, <2>1
  <2>2. CASE t # s
    <3> DEFINE c == call[t]
               k == KeyOf[c.req]
    <3>1. call'[t] = c /\ c \in Call /\ Fine(c, used)
      BY <1>1, <1>2, <2>2 DEF Serial, ProperCall
    <3>2. ASSUME c.pc \in FreshPcs PROVE used'[k] <= c.used
      <4>1. c.pc # "idle" /\ used[k] <= c.used /\ c.used \in Nat
        BY <3>1, <3>2 DEF Fine, FreshPcs, Call
      <4>2. c.req \in Requests /\ k \in Keys
        BY <1>1, <4>1, PlanOf DEF ProperCall
      <4>3. used'[k] <= used[k]
        BY <2>2, <4>1, <4>2 DEF Alone
      <4> QED
        BY <1>1, <4>1, <4>2, <4>3
    <3> QED
      BY <3>1, <3>2 DEF Fine
  <2> QED
    BY <2>1, <2>2
<1>5. NeverOversold'
  <2>1. \A k \in Keys : used'[k] \in Nat /\ used[k] \in Nat /\ Plan[k].amount \in Nat
    BY <1>1
  <2> QED
    BY <2>1 DEF Serial, NeverOversold, Fits
<1> QED
  BY <1>3, <1>4, <1>5 DEF Serial, Alone

\* A slot that moves on with its own request stays alone on its key.
LEMMA StepAlone ==
  ASSUME TypeOK, Serial, NEW s \in Slots, call[s].pc # "idle"
  PROVE  /\ Alone(s, KeyOf[call[s].req]) /\ Fine(call[s], used)
         /\ call[s] \in Call /\ call[s].req \in Requests
         /\ KeyOf[call[s].req] \in Keys
         /\ used \in [Keys -> Nat]
         /\ \A k \in Keys : used[k] \in Nat /\ Plan[k].amount \in Nat
  BY BusyCall, PlanOf DEF Serial, TypeOK

\* A refund lowers the counter or leaves it (Settle, Release).
LEMMA RefundLowers ==
  ASSUME BInv, NEW r \in Requests, NEW amount \in Nat, NEW tag, Refund(r, amount, tag)
  PROVE  \A k \in Keys : used'[k] <= used[k]
<1>1. KeyOf[r] \in Keys /\ -amount \in Int /\ \A k \in Keys : used[k] \in Nat
  BY PlanOf DEF BInv, TypeOK
<1>2. CASE UNCHANGED keyVars
  BY <1>1, <1>2 DEF keyVars
<1>3. CASE ConsumeQuota(KeyOf[r], -amount)
  <2>1. \A k \in Keys : used'[k] = used[k] \/ used'[k] = used[k] - amount
    BY <1>1, <1>3, ConsumeKeeps DEF BInv
  <2> QED
    BY <1>1, <2>1
<1> QED
  BY <1>2, <1>3 DEF Refund

\* Hold.
LEMMA HoldSerial ==
  ASSUME QInv, TypeOK', NEW s \in Slots,
         \/ HoldPeriod(s) \/ HoldQuota(s) \/ HoldCheck(s)
         \/ HoldDebit(s) \/ HoldInsert(s)
  PROVE  Serial'
<1> DEFINE c == call[s]
           k == KeyOf[c.req]
<1>0. BInv /\ TypeOK /\ Serial /\ c.pc # "idle"
  BY DEF QInv, BInv, HoldPeriod, HoldQuota, HoldCheck, HoldDebit, HoldInsert
<1>1. /\ Alone(s, k) /\ Fine(c, used) /\ c \in Call /\ c.req \in Requests /\ k \in Keys
      /\ used \in [Keys -> Nat]
      /\ \A q \in Keys : used[q] \in Nat /\ Plan[q].amount \in Nat
  BY <1>0, StepAlone
<1>2. Idle \in ProperCall /\ Idle.pc = "idle" /\ \A f : Fine(Idle, f)
  BY IdleProper DEF Idle, Fine, FreshPcs
<1>3. CASE HoldPeriod(s)
  <2> DEFINE d == [c EXCEPT !.used = 0, !.at = 0]
  <2>1. d \in Call /\ d.req = c.req /\ d.used = 0 /\ c.at \in Nat
    BY <1>1 DEF Call
  <2>2. /\ used' \in [Keys -> Nat] /\ used'[k] = 0
        /\ \A q \in Keys : q # k => used'[q] = used[q]
    BY <1>0, <1>1, <1>3, <2>1, ResetKeeps DEF HoldPeriod
  <2>3. /\ Fine(HoldRoute(d), used') /\ HoldRoute(d) \in ProperCall
        /\ HoldRoute(d).pc # "idle" => HoldRoute(d).req = c.req
    <3>1. used'[KeyOf[d.req]] <= d.used /\ d.req \in Requests /\ d \in Call
      BY <1>1, <2>1, <2>2
    <3> HIDE DEF d
    <3> QED
      BY <2>1, <2>2, <3>1, HoldRouteFine, HoldRouteProper
  <2>4. \A q \in Keys : used'[q] <= used[q]
    BY <1>1, <2>2
  <2>5. Set(s, HoldRoute(d))
    BY <1>3 DEF HoldPeriod
  <2> QED
    BY <1>0, <1>1, <2>3, <2>4, <2>5, SlotStep
<1>4. CASE HoldQuota(s)
  <2> DEFINE d == [c EXCEPT !.pc = "hold_insert"]
  <2>1. /\ used[k] <= c.used /\ Fits(k, c.used + c.amt)
        /\ c.used \in Nat /\ c.amt \in Nat
    BY <1>1, <1>4 DEF HoldQuota, Fine, FreshPcs, Call
  <2>2. /\ d \in ProperCall /\ d.pc = "hold_insert" /\ d.req = c.req
        /\ Fine(d, used')
    BY <1>1 DEF ProperCall, Call, HoldPcs, RefundPcs, ReleasePcs, Fine, FreshPcs
  <2>3. /\ \A q \in Keys : q # k => used'[q] = used[q]
        /\ used'[k] \in {used[k], used[k] + c.amt}
    BY <1>0, <1>1, <1>4, <2>1, ConsumeKeeps DEF HoldQuota
  <2>4. \A q \in Keys : used'[q] <= used[q] \/ (q = k /\ Fits(k, used'[k]))
    BY <1>1, <2>1, <2>3 DEF Fits
  <2> QED
    BY <1>0, <1>1, <1>4, <2>2, <2>4, SlotStep DEF HoldQuota
<1>5. CASE HoldCheck(s) \/ HoldDebit(s) \/ HoldInsert(s)
  <2>1. used' = used
    BY <1>5 DEF HoldCheck, HoldDebit, HoldInsert, keyVars
  <2>2. \A pc \in {"hold_debit", "hold_insert"} :
          LET d == [c EXCEPT !.pc = pc]
          IN  d \in ProperCall /\ d.req = c.req /\ Fine(d, used')
    BY <1>1 DEF ProperCall, Call, HoldPcs, RefundPcs, ReleasePcs, Fine, FreshPcs
  <2>3. \/ Set(s, Idle) \/ Set(s, [c EXCEPT !.pc = "hold_debit"])
        \/ Set(s, [c EXCEPT !.pc = "hold_insert"])
    BY <1>5 DEF HoldCheck, HoldDebit, HoldInsert
  <2>4. \A q \in Keys : used'[q] <= used[q]
    BY <1>1, <2>1
  <2> QED
    BY <1>0, <1>1, <1>2, <2>2, <2>3, <2>4, SlotStep
<1> QED
  BY <1>3, <1>4, <1>5

\* Charge and Settle.
LEMMA ChargeSerial ==
  ASSUME QInv, TypeOK', NEW s \in Slots,
         \/ ChargePeriod(s) \/ ChargeCount(s) \/ ChargeOwn(s) \/ SettlePick(s)
         \/ SettleRefund(s) \/ SettleMark(s) \/ ExtraCheck(s) \/ ExtraDebit(s)
         \/ ChargeQuota(s) \/ OverCheck(s) \/ OverDebit(s) \/ Record(s)
  PROVE  Serial'
<1> DEFINE c == call[s]
           k == KeyOf[c.req]
<1>0. BInv /\ TypeOK /\ Serial /\ c.pc # "idle"
  BY DEF QInv, BInv, ChargePeriod, ChargeCount, ChargeOwn, SettlePick, SettleRefund,
         SettleMark, ExtraCheck, ExtraDebit, ChargeQuota, OverCheck, OverDebit, Record
<1>1. /\ Alone(s, k) /\ Fine(c, used) /\ c \in Call /\ c.req \in Requests /\ k \in Keys
      /\ used \in [Keys -> Nat]
      /\ \A q \in Keys : used[q] \in Nat /\ Plan[q].amount \in Nat
  BY <1>0, StepAlone
<1>2. Idle \in ProperCall /\ Idle.pc = "idle" /\ \A f : Fine(Idle, f)
  BY IdleProper DEF Idle, Fine, FreshPcs
<1>3. used' \in [Keys -> Nat]
  BY DEF TypeOK
<1>4. ASSUME NEW d \in ProperCall, Set(s, d), Fine(d, used'), d.req = c.req,
             \A q \in Keys : used'[q] <= used[q]
      PROVE  Serial'
  BY <1>0, <1>1, <1>4, SlotStep
<1>5. CASE ChargePeriod(s)
  <2> DEFINE d == [c EXCEPT !.used = 0, !.at = 0]
  <2>1. d \in Call /\ d.req = c.req /\ d.used = 0 /\ c.at \in Nat
    BY <1>1 DEF Call
  <2>2. used'[k] = 0 /\ \A q \in Keys : q # k => used'[q] = used[q]
    BY <1>0, <1>1, <1>5, <2>1, ResetKeeps DEF ChargePeriod
  <2>3. /\ Fine(UnitRoute(d), used') /\ UnitRoute(d) \in ProperCall
        /\ UnitRoute(d).req = c.req
    <3>1. used'[KeyOf[d.req]] <= d.used /\ d.req \in Requests /\ d \in Call
      BY <1>1, <2>1, <2>2
    <3> HIDE DEF d
    <3> QED
      BY <1>3, <2>1, <3>1, UnitRouteFine, UnitRouteProper
  <2>4. \A q \in Keys : used'[q] <= used[q]
    BY <1>1, <2>2
  <2> QED
    BY <1>4, <1>5, <2>3, <2>4 DEF ChargePeriod
<1>6. CASE ChargeCount(s) \/ ChargeOwn(s)
  <2>1. used' = used /\ used[k] <= c.used /\ \A q \in Keys : used'[q] <= used[q]
    BY <1>1, <1>6 DEF ChargeCount, ChargeOwn, keyVars, Fine, FreshPcs
  <2>2. \A n \in Nat : LET d == [c EXCEPT !.unit = n, !.pc = "charge_own"]
                       IN  d \in ProperCall /\ d.req = c.req /\ Fine(d, used')
    BY <1>1, <2>1 DEF ProperCall, Call, ChargePcs, RefundPcs, ReleasePcs, Fine, FreshPcs
  <2>3. \A o \in Sources : LET d == [c EXCEPT !.pc = "settle_pick", !.own = o]
                           IN  d \in ProperCall /\ d.req = c.req /\ Fine(d, used')
    BY <1>1, <2>1 DEF ProperCall, Call, ChargePcs, RefundPcs, ReleasePcs, Fine, FreshPcs
  <2>4. resv[c.req].source \in Sources /\ "none" \in Sources
    BY <1>0, <1>1 DEF TypeOK, ResvRow, Sources
  <2>5. \/ \E n \in Nat : Set(s, [c EXCEPT !.unit = n, !.pc = "charge_own"])
        \/ \E o \in Sources : Set(s, [c EXCEPT !.pc = "settle_pick", !.own = o])
    BY <1>6, <2>4 DEF ChargeCount, ChargeOwn
  <2> QED
    BY <1>4, <2>1, <2>2, <2>3, <2>5
<1>7. CASE SettlePick(s)
  <2>1. /\ used' = used /\ used[k] <= c.used /\ c.unit \in Nat
        /\ \A q \in Keys : used'[q] <= used[q]
    <3>1. used' = used /\ c.pc = "settle_pick"
      BY <1>7 DEF SettlePick, keyVars
    <3>2. used[k] <= c.used
      BY <1>1, <3>1 DEF Fine, FreshPcs
    <3>3. c.unit \in Nat
      BY <1>1 DEF Call
    <3> QED
      BY <1>1, <3>1, <3>2, <3>3
  <2>2. ASSUME Set(s, ChargeRoute([c EXCEPT !.amt = c.unit])) PROVE Serial'
    <3> DEFINE d == [c EXCEPT !.amt = c.unit]
    <3>1. /\ d \in Call /\ d.req = c.req /\ d.req \in Requests
          /\ used'[KeyOf[d.req]] <= d.used
      BY <1>1, <2>1 DEF Call
    <3>2. Set(s, ChargeRoute(d))
      BY <2>2
    <3> HIDE DEF d
    <3> QED
      BY <1>3, <1>4, <2>1, <3>1, <3>2, ChargeRouteFine, ChargeRouteProper
  <2>3. ASSUME NEW r \in Requests, NEW pc \in {"settle_refund", "settle_mark"},
               pc = "settle_refund" => resv[r].hold > Actual(c),
               Set(s, [c EXCEPT !.res = r, !.pc = pc, !.amt = resv[r].hold])
        PROVE  Serial'
    <3> DEFINE d == [c EXCEPT !.res = r, !.pc = pc, !.amt = resv[r].hold]
    <3>1. resv[r].hold \in Nat /\ Actual(c) \in Nat
      BY <1>0, <1>1, ActualNat DEF TypeOK, ResvRow
    <3>2. /\ d \in ProperCall /\ d.req = c.req /\ d.used = c.used /\ d.pc = pc
          /\ d.amt = resv[r].hold
      BY <1>1, <3>1 DEF ProperCall, Call, ChargePcs
    <3>3. Actual(d) = Actual(c)
      BY <1>1 DEF Actual, Call
    <3>4. Fine(d, used')
      BY <2>1, <2>3, <3>1, <3>2, <3>3 DEF Fine
    <3> QED
      BY <1>4, <2>1, <2>3, <3>2, <3>4
  <2> QED
    BY <1>7, <2>2, <2>3 DEF SettlePick, OpenOf
<1>8. CASE SettleRefund(s)
  <2> DEFINE d == [c EXCEPT !.pc = "settle_mark"]
  <2>1. c.res \in Requests /\ c.amt \in Nat /\ Actual(c) \in Nat
    BY <1>0, <1>1, <1>8, BusyCall, ActualNat DEF SettleRefund, RefundPcs
  <2>2. used[k] <= c.used /\ c.amt - Actual(c) \in Nat
    BY <1>1, <1>8, <2>1 DEF SettleRefund, Fine, FreshPcs
  <2>3. \A q \in Keys : used'[q] <= used[q]
    BY <1>0, <1>8, <2>1, <2>2, RefundLowers DEF SettleRefund
  <2>4. d \in ProperCall /\ d.req = c.req /\ d.used = c.used /\ d.pc = "settle_mark"
    BY <1>1, <2>1 DEF ProperCall, Call, ChargePcs
  <2>5. used'[k] <= c.used
    <3>1. /\ used'[k] <= used[k] /\ used'[k] \in Nat /\ used[k] \in Nat /\ c.used \in Nat
      BY <1>1, <1>3, <2>3 DEF Call
    <3> QED
      BY <2>2, <3>1
  <2>6. Fine(d, used')
    BY <2>4, <2>5 DEF Fine
  <2> QED
    BY <1>4, <1>8, <2>3, <2>4, <2>6 DEF SettleRefund
<1>9. CASE SettleMark(s)
  <2> DEFINE n == Larger(0, Actual(c) - c.amt)
             d == [c EXCEPT !.amt = n]
  <2>1. c.amt \in Nat /\ Actual(c) \in Nat /\ n \in Nat
    BY <1>1, ActualNat DEF Call, Larger
  <2>2. /\ used' = used /\ used[k] <= c.used /\ \A q \in Keys : used'[q] <= used[q]
    BY <1>1, <1>9 DEF SettleMark, keyVars, Fine, FreshPcs
  <2>3. d \in Call /\ d.req = c.req /\ d.req \in Requests /\ used'[KeyOf[d.req]] <= d.used
    BY <1>1, <2>1, <2>2 DEF Call
  <2>4. Set(s, AfterSettle(d))
    BY <1>9 DEF SettleMark
  <2> HIDE DEF d
  <2> QED
    BY <1>3, <1>4, <2>2, <2>3, <2>4, AfterSettleFine, AfterSettleProper
<1>10. CASE ChargeQuota(s)
  <2> DEFINE d == [c EXCEPT !.pc = "record"]
  <2>1. /\ used[k] <= c.used /\ Fits(k, c.used + c.amt)
        /\ c.used \in Nat /\ c.amt \in Nat
    BY <1>1, <1>10 DEF ChargeQuota, Fine, FreshPcs, Call
  <2>2. d \in ProperCall /\ d.pc = "record" /\ d.req = c.req /\ Fine(d, used')
    BY <1>1 DEF ProperCall, Call, ChargePcs, RefundPcs, ReleasePcs, Fine, FreshPcs
  <2>3. /\ \A q \in Keys : q # k => used'[q] = used[q]
        /\ used'[k] \in {used[k], used[k] + c.amt}
    BY <1>0, <1>1, <1>10, <2>1, ConsumeKeeps DEF ChargeQuota
  <2>4. \A q \in Keys : used'[q] <= used[q] \/ (q = k /\ Fits(k, used'[k]))
    BY <1>1, <2>1, <2>3 DEF Fits
  <2> QED
    BY <1>0, <1>1, <1>10, <2>2, <2>4, SlotStep DEF ChargeQuota
<1>11. CASE ExtraCheck(s) \/ ExtraDebit(s) \/ OverCheck(s) \/ OverDebit(s) \/ Record(s)
  <2>1. used' = used /\ \A q \in Keys : used'[q] <= used[q]
    BY <1>1, <1>11
       DEF ExtraCheck, ExtraDebit, OverCheck, OverDebit, Record, DebitOwner, keyVars
  <2>2. \A pc \in {"extra_debit", "over_debit", "record"}, src \in Sources :
          LET d == [c EXCEPT !.pc = pc, !.src = src]
          IN  d \in ProperCall /\ d.req = c.req /\ Fine(d, used')
    <3> TAKE pc \in {"extra_debit", "over_debit", "record"}, src \in Sources
    <3> DEFINE d == [c EXCEPT !.pc = pc, !.src = src]
    <3>1. d \in Call /\ d.pc = pc /\ d.req = c.req
      BY <1>1 DEF ProperCall, Call, ChargePcs
    <3> QED
      BY <1>1, <3>1 DEF ProperCall, RefundPcs, ReleasePcs, Fine, FreshPcs
  <2>3. \A pc \in {"extra_debit", "over_debit", "record"} :
          LET d == [c EXCEPT !.pc = pc]
          IN  d \in ProperCall /\ d.req = c.req /\ Fine(d, used')
    BY <1>1 DEF ProperCall, Call, ChargePcs, RefundPcs, ReleasePcs, Fine, FreshPcs
  <2>4. \/ \E pc \in {"extra_debit", "over_debit", "record"} : Set(s, [c EXCEPT !.pc = pc])
        \/ \E pc \in {"extra_debit", "over_debit", "record"}, src \in Sources :
             Set(s, [c EXCEPT !.pc = pc, !.src = src])
        \/ Set(s, Idle)
    BY <1>11 DEF ExtraCheck, ExtraDebit, OverCheck, OverDebit, Record, DebitOwner, Sources
  <2>5. CASE Set(s, Idle)
    BY <1>0, <1>2, <2>1, <2>5, SlotStep
  <2> QED
    BY <1>4, <2>1, <2>2, <2>3, <2>4, <2>5
<1> QED
  BY <1>5, <1>6, <1>7, <1>8, <1>9, <1>10, <1>11

\* Release.
LEMMA ReleaseSerial ==
  ASSUME QInv, TypeOK', NEW s \in Slots, ReleaseRefund(s) \/ ReleaseMark(s)
  PROVE  Serial'
<1> DEFINE c == call[s]
           k == KeyOf[c.req]
<1>0. BInv /\ TypeOK /\ Serial /\ c.pc # "idle"
  BY DEF QInv, BInv, ReleaseRefund, ReleaseMark
<1>1. /\ Alone(s, k) /\ c \in Call /\ c.req \in Requests /\ k \in Keys
      /\ \A q \in Keys : used[q] \in Nat
  BY <1>0, StepAlone
<1>2. Idle \in ProperCall /\ Idle.pc = "idle" /\ Fine(Idle, used')
  BY IdleProper DEF Idle, Fine, FreshPcs
<1>3. CASE ReleaseRefund(s)
  <2> DEFINE d == [c EXCEPT !.pc = "release_mark"]
  <2>1. c.res \in Requests /\ c.amt \in Nat
    BY <1>0, <1>3, BusyCall DEF ReleaseRefund, RefundPcs, ReleasePcs
  <2>2. \A q \in Keys : used'[q] <= used[q]
    BY <1>0, <1>3, <2>1, RefundLowers DEF ReleaseRefund
  <2>3. d \in ProperCall /\ d.req = c.req /\ Fine(d, used')
    BY <1>1, <2>1 DEF ProperCall, Call, ReleasePcs, Fine, FreshPcs
  <2> QED
    BY <1>0, <1>1, <1>3, <2>2, <2>3, SlotStep DEF ReleaseRefund
<1>4. CASE ReleaseMark(s)
  <2>1. used' = used /\ \A q \in Keys : used'[q] <= used[q]
    BY <1>1, <1>4 DEF ReleaseMark, keyVars
  <2> QED
    BY <1>0, <1>2, <1>4, <2>1, SlotStep DEF ReleaseMark
<1> QED
  BY <1>3, <1>4

\* A call that begins finds no other call working on its key: KeyCalls = 1, and
\* Boot releases before it serves.
LEMMA BeginAlone ==
  ASSUME KeyCalls = 1, TypeOK, NEW s \in Slots, NEW r \in Requests,
         \/ HoldBegin(s, r)
         \/ \E use \in Uses : ChargeBegin(s, r, use)
         \/ CompleteFailed(s, r)
         \/ BootRelease(s, r)
  PROVE  Alone(s, KeyOf[r])
<1> DEFINE k == KeyOf[r]
<1>1. CASE Free(s, r)
  <2>1. IsFiniteSet(InFlight(k)) /\ Cardinality(InFlight(k)) \in Nat
    <3>1. InFlight(k) \subseteq Slots
      BY DEF InFlight
    <3> QED
      BY <3>1, FS_Subset, FS_CardinalityType
  <2>2. InFlight(k) = {}
    BY <1>1, <2>1, FS_EmptySet DEF Free
  <2> QED
    BY <2>2 DEF Alone, InFlight
<1>2. CASE \A t \in Slots : call[t].pc = "idle"
  BY <1>2 DEF Alone
<1> QED
  BY <1>1, <1>2 DEF HoldBegin, ChargeBegin, CompleteFailed, BootRelease

\* A call begins: with KeyCalls = 1 no other call works on its key.
LEMMA BeginSerial ==
  ASSUME KeyCalls = 1, QInv, TypeOK', NEW s \in Slots, NEW r \in Requests,
         \/ HoldBegin(s, r)
         \/ \E use \in Uses : ChargeBegin(s, r, use)
         \/ CompleteFailed(s, r)
         \/ BootRelease(s, r)
  PROVE  Serial'
<1> DEFINE k == KeyOf[r]
<1>0. /\ BInv /\ TypeOK /\ Serial /\ k \in Keys /\ now \in Nat
      /\ used \in [Keys -> Nat] /\ used[k] \in Nat
  BY PlanOf DEF QInv, BInv, TypeOK
<1>1. used' = used /\ \A q \in Keys : used'[q] <= used[q]
  <2>1. used' = used
    BY DEF HoldBegin, ChargeBegin, CompleteFailed, BootRelease, keyVars
  <2>2. \A q \in Keys : used[q] \in Nat
    BY <1>0
  <2> QED
    BY <2>1, <2>2
<1>2. Alone(s, k)
  BY <1>0, BeginAlone
<1>3. ASSUME NEW d \in ProperCall, Set(s, d), Fine(d, used),
             d.pc # "idle" => d.req = r
      PROVE  Serial'
  BY <1>0, <1>1, <1>2, <1>3, SlotStep
<1>4. Idle \in ProperCall /\ Idle.pc = "idle" /\ Fine(Idle, used)
  BY IdleProper DEF Idle, Fine, FreshPcs
<1>5. ASSUME HoldBegin(s, r) PROVE Serial'
  <2> DEFINE c == [Idle EXCEPT !.req = r, !.used = used[k]]
             d == [c EXCEPT !.pc = "hold_period", !.at = now]
  <2>1. c \in Call /\ c.req = r /\ c.used = used[k]
    BY <1>0 DEF Idle, NoUse, Call, Usage, Sources
  <2>2. d \in ProperCall /\ d.req = r /\ Fine(d, used)
    BY <1>0, <2>1 DEF ProperCall, Call, HoldPcs, RefundPcs, ReleasePcs, Fine, FreshPcs
  <2>3. Set(s, d) \/ Set(s, HoldRoute(c))
    BY <1>5 DEF HoldBegin
  <2>4. used[KeyOf[c.req]] <= c.used
    BY <1>0, <2>1
  <2> HIDE DEF c
  <2>5. /\ HoldRoute(c) \in ProperCall /\ Fine(HoldRoute(c), used)
        /\ HoldRoute(c).pc # "idle" => HoldRoute(c).req = r
    BY <1>0, <2>1, <2>4, HoldRouteFine, HoldRouteProper
  <2> QED
    BY <1>3, <2>2, <2>3, <2>5
<1>6. ASSUME NEW use \in Uses, ChargeBegin(s, r, use) PROVE Serial'
  <2> DEFINE c == [Idle EXCEPT !.req = r, !.use = use, !.used = used[k]]
             d == [c EXCEPT !.pc = "charge_period", !.at = now]
             e == [c EXCEPT !.pc = "record"]
  <2>1. c \in Call /\ c.req = r /\ c.used = used[k]
    BY <1>0 DEF Idle, Call, Usage, Sources
  <2>2. /\ d \in ProperCall /\ d.req = r /\ Fine(d, used)
        /\ e \in ProperCall /\ e.req = r /\ Fine(e, used)
    BY <1>0, <2>1 DEF ProperCall, Call, ChargePcs, RefundPcs, ReleasePcs, Fine, FreshPcs
  <2>3. Set(s, d) \/ Set(s, e) \/ Set(s, UnitRoute(c))
    BY <1>6 DEF ChargeBegin
  <2>4. used[KeyOf[c.req]] <= c.used
    BY <1>0, <2>1
  <2> HIDE DEF c
  <2>5. UnitRoute(c) \in ProperCall /\ Fine(UnitRoute(c), used) /\ UnitRoute(c).req = r
    BY <1>0, <2>1, <2>4, UnitRouteFine, UnitRouteProper
  <2> QED
    BY <1>3, <2>2, <2>3, <2>5
<1>7. ASSUME ReadRelease(s, r) PROVE Serial'
  <2>1. ReleaseCall(r) \in ProperCall
    <3>1. resv[r].hold \in Nat
      BY <1>0 DEF TypeOK, ResvRow
    <3> QED
      BY <3>1 DEF ReleaseCall, Idle, NoUse, ProperCall, Call, Usage, Sources, ReleasePcs
  <2>2. ReleaseCall(r).req = r /\ Fine(ReleaseCall(r), used)
    BY DEF ReleaseCall, Idle, Fine, FreshPcs
  <2> QED
    BY <1>3, <1>4, <1>7, <2>1, <2>2 DEF ReadRelease
<1> QED
  BY <1>5, <1>6, <1>7 DEF CompleteFailed, BootRelease

\* A crash ends every call; a switch lowers a counter, which leaves what a call
\* relies on true; the other process steps touch neither calls nor counters.
LEMMA ProcessSerial ==
  ASSUME QInv,
         \/ \E r \in Requests : CompleteSucceeded(r)
         \/ Crash \/ Boot \/ BootDone \/ Edit \/ Tick \/ UNCHANGED vars
  PROVE  Serial'
<1>0. Serial /\ TypeOK
  BY DEF QInv, BInv
<1>1. CASE Crash
  <2>1. used' = used /\ call' = [t \in Slots |-> Idle]
    BY <1>1 DEF Crash, keyVars
  <2>2. Idle.pc = "idle" /\ Fine(Idle, used)
    BY DEF Idle, Fine, FreshPcs
  <2> QED
    BY <1>0, <2>1, <2>2 DEF Serial, NeverOversold
<1>2. CASE UNCHANGED <<call, used>>
  BY <1>0, <1>2 DEF Serial, Alone, NeverOversold
<1>3. ASSUME NEW k \in Keys, Switch(k), UNCHANGED call PROVE Serial'
  <2>1. /\ used \in [Keys -> Nat] /\ used' = [used EXCEPT ![k] = 0]
        /\ \A s \in Slots : call[s].pc \in FreshPcs => KeyOf[call[s].req] \in Keys
    <3>1. \A s \in Slots : call[s] \in ProperCall
      BY <1>0 DEF TypeOK
    <3> QED
      BY <1>0, <1>3, <3>1 DEF TypeOK, Switch, ProperCall, Call, FreshPcs
  <2>2. \A j \in Keys : used'[j] \in Nat /\ used'[j] <= used[j]
    BY <2>1
  <2>3. \A s \in Slots : Fine(call[s], used')
    <3> SUFFICES ASSUME NEW s \in Slots PROVE Fine(call[s], used')
      OBVIOUS
    <3>1. Fine(call[s], used)
      BY <1>0 DEF Serial
    <3>2. call[s].pc \in FreshPcs => used'[KeyOf[call[s].req]] <= call[s].used
      <4> SUFFICES ASSUME call[s].pc \in FreshPcs
                   PROVE  used'[KeyOf[call[s].req]] <= call[s].used
        OBVIOUS
      <4>1. KeyOf[call[s].req] \in Keys /\ call[s].used \in Nat
        BY <1>0, <2>1 DEF TypeOK, ProperCall, Call
      <4>2. used[KeyOf[call[s].req]] <= call[s].used
        BY <3>1 DEF Fine
      <4> QED
        BY <2>1, <2>2, <4>1, <4>2
    <3> QED
      BY <3>1, <3>2 DEF Fine
  <2>4. NeverOversold'
    <3> SUFFICES ASSUME NEW j \in Keys, Plan[j].kind # "unlimited"
                 PROVE  used'[j] <= Plan[j].amount
      BY DEF NeverOversold
    <3>1. used[j] <= Plan[j].amount /\ Plan[j].amount \in Nat
      BY <1>0, PlanOf DEF Serial, NeverOversold
    <3> QED
      BY <2>1, <2>2, <3>1
  <2> QED
    BY <1>0, <1>3, <2>3, <2>4 DEF Serial, Alone
<1>4. CASE Edit
  <2>1. UNCHANGED call
    BY <1>4 DEF Edit
  <2>2. ASSUME NEW u \in Users, EditTerms(u) PROVE UNCHANGED used
    BY <2>2 DEF EditTerms, keyVars
  <2> QED
    BY <1>2, <1>3, <1>4, <2>1, <2>2 DEF Edit
<1> QED
  BY <1>1, <1>2, <1>4 DEF CompleteSucceeded, Boot, BootDone, Tick, vars, keyVars

-----------------------------------------------------------------------------

\* Nothing runs and nothing is spent at the start.
LEMMA InitSerial == Init => QInv
<1> SUFFICES ASSUME Init PROVE QInv
  OBVIOUS
<1>1. Idle.pc = "idle" /\ Fine(Idle, used)
  BY DEF Idle, Fine, FreshPcs
<1>2. \A k \in Keys : Plan[k].amount \in Nat /\ used[k] = 0
  BY DEF Init
<1> QED
  BY <1>1, <1>2, InitInv DEF Init, QInv, Serial, NeverOversold

\* With one call per key at a time every step keeps the invariant.
LEMMA StepSerial ==
  ASSUME KeyCalls = 1 PROVE QInv /\ [Next]_vars => QInv'
<1> SUFFICES ASSUME QInv, [Next]_vars PROVE QInv'
  OBVIOUS
<1>1. BInv' /\ TypeOK'
  BY StepInv DEF QInv, BInv
<1>2. ASSUME NEW s \in Slots, Step(s) PROVE Serial'
  BY <1>1, <1>2, HoldSerial, ChargeSerial, ReleaseSerial DEF Step
<1>3. ASSUME NEW s \in Slots, Begin(s) PROVE Serial'
  BY <1>1, <1>3, BeginSerial DEF Begin
<1> QED
  BY <1>1, <1>2, <1>3, ProcessSerial DEF Next, QInv

\* A key never spends more than it was sold while the host runs its calls one
\* after another, whatever the plan, the usage, the periods and the crashes
\* (Hold's cap, Charge's QuotaRemaining test, ConsumeQuota without a limit).
THEOREM SerialNeverOversold ==
  ASSUME KeyCalls = 1 PROVE Spec => []NeverOversold
<1>1. QInv => NeverOversold
  BY DEF QInv, Serial
<1> QED
  BY <1>1, InitSerial, StepSerial, PTL DEF Spec

-----------------------------------------------------------------------------
(***************************************************************************)
(* What a call finds in the tables, still with one call per key at a time. *)
(* A Hold in progress has no row yet; the row a refund is made for is open *)
(* and holds what the call has read; a period is only reset when the one   *)
(* before it is over; an unlimited key spends nothing.  From this follow   *)
(* the action property PeriodRunsOut and the refinement of QuotaAccount.   *)
(***************************************************************************)

Work(c, rows, hs, ends, t) ==
  LET k == KeyOf[c.req] IN
  /\ c.pc \in HoldPcs => rows[c.req] = NoResv /\ hs[c.req].stage # "new"
  /\ c.pc \in {"settle_refund", "settle_mark"} => KeyOf[c.res] = k
  /\ c.pc \in ReleasePcs => c.res = c.req
  /\ c.pc \in RefundPcs => rows[c.res].status = "open" /\ rows[c.res].hold = c.amt
  /\ c.pc = "hold_period" => c.amt = 0
  /\ c.pc = "hold_quota" => c.src = "key_quota" /\ c.amt > 0
  /\ c.pc \in {"hold_check", "hold_debit"} => c.src = "wallet"
  /\ c.pc = "hold_insert" => \/ c.src = "wallet"
                             \/ c.src = "key_quota" /\ c.amt <= Plan[k].amount
  /\ c.pc \in {"hold_quota", "charge_quota"} => Plan[k].kind # "unlimited"
  /\ c.pc \in {"hold_period", "charge_period"} => c.at <= t /\ ends[k] <= c.at

\* The row of a request whose host is in the given stage.
Row(r, row, stage) ==
  /\ stage = "new" => row = NoResv
  /\ row = NoResv \/ (row.status # "none" /\ row.source \in {"key_quota", "wallet"})
  /\ row.source = "key_quota" => row.hold <= Plan[KeyOf[r]].amount

Works ==
  /\ \A s \in Slots : Work(call[s], resv, host, periodEnd, now)
  /\ \A r \in Requests : Row(r, resv[r], host[r].stage)
  /\ \A k \in Keys : Plan[k].kind = "unlimited" => used[k] = 0

WInv == QInv /\ Works

\* Statements at which a call relies on no table.
LightPcs == {"idle", "charge_count", "charge_own", "settle_pick", "extra_check",
             "extra_debit", "over_check", "over_debit", "record"}

\* A call at such a statement has nothing to promise.
LEMMA LightWork ==
  ASSUME NEW c, NEW rows, NEW hs, NEW ends, NEW t, c.pc \in LightPcs
  PROVE  Work(c, rows, hs, ends, t)
  BY DEF Work, LightPcs, HoldPcs, ReleasePcs, RefundPcs

\* When slot s moves on alone on key k and only rows of that key change, the
\* calls of other keys find what they found before.
LEMMA SlotWorks ==
  ASSUME TypeOK, TypeOK', Works, NEW s \in Slots, NEW k \in Keys, Alone(s, k),
         NEW d \in ProperCall, Set(s, d), now' = now,
         Work(d, resv', host', periodEnd', now'),
         \A r \in Requests : KeyOf[r] # k => resv'[r] = resv[r],
         \A r \in Requests : KeyOf[r] # k => host'[r] = host[r],
         \A r \in Requests : KeyOf[r] = k => Row(r, resv'[r], host'[r].stage),
         \A q \in Keys : q # k => periodEnd'[q] = periodEnd[q] /\ used'[q] = used[q],
         Plan[k].kind = "unlimited" => used'[k] = 0
  PROVE  Works'
<1>1. call' = [call EXCEPT ![s] = d] /\ call \in [Slots -> ProperCall]
  BY DEF Set, TypeOK
<1>2. ASSUME NEW t \in Slots
      PROVE  Work(call'[t], resv', host', periodEnd', now')
  <2>1. CASE t = s
    BY <1>1, <2>1
  <2>2. CASE t # s /\ call[t].pc = "idle"
    BY <1>1, <2>2, LightWork DEF LightPcs
  <2>3. CASE t # s /\ call[t].pc # "idle"
    <3> DEFINE c == call[t]
    <3>1. /\ call'[t] = c /\ Work(c, resv, host, periodEnd, now)
          /\ c.req \in Requests /\ KeyOf[c.req] \in Keys /\ KeyOf[c.req] # k
          /\ c.pc \in RefundPcs => c.res \in Requests
      BY <1>1, <2>3, PlanOf DEF Works, ProperCall, Alone
    <3>2. /\ resv'[c.req] = resv[c.req] /\ host'[c.req] = host[c.req]
          /\ periodEnd'[KeyOf[c.req]] = periodEnd[KeyOf[c.req]]
      BY <3>1
    <3>3. c.pc \in RefundPcs => KeyOf[c.res] = KeyOf[c.req]
      BY <3>1 DEF Work, RefundPcs
    <3>4. c.pc \in RefundPcs => resv'[c.res] = resv[c.res]
      BY <3>1, <3>3
    <3> HIDE DEF c
    <3> QED
      BY <3>1, <3>2, <3>4 DEF Work
  <2> QED
    BY <2>1, <2>2, <2>3
<1>3. ASSUME NEW r \in Requests PROVE Row(r, resv'[r], host'[r].stage)
  BY DEF Works
<1>4. ASSUME NEW q \in Keys, Plan[q].kind = "unlimited" PROVE used'[q] = 0
  BY <1>4 DEF Works
<1> QED
  BY <1>2, <1>3, <1>4 DEF Works

\* The common case: the slot moves on and no table of the quota side changes.
LEMMA CallWorks ==
  ASSUME TypeOK, TypeOK', Works, NEW s \in Slots, NEW k \in Keys, Alone(s, k),
         NEW d \in ProperCall, Set(s, d), UNCHANGED <<resv, host, keyVars, now>>,
         Work(d, resv, host, periodEnd, now)
  PROVE  Works'
<1>1. /\ resv' = resv /\ host' = host /\ periodEnd' = periodEnd /\ used' = used
      /\ now' = now
  BY DEF keyVars
<1>2. \A r \in Requests : Row(r, resv'[r], host'[r].stage)
  BY <1>1 DEF Works
<1>3. Plan[k].kind = "unlimited" => used'[k] = 0
  BY <1>1 DEF Works
<1>4. Work(d, resv', host', periodEnd', now')
  BY <1>1
<1>5. /\ \A r \in Requests : KeyOf[r] # k => resv'[r] = resv[r]
      /\ \A r \in Requests : KeyOf[r] # k => host'[r] = host[r]
      /\ \A q \in Keys : q # k => periodEnd'[q] = periodEnd[q] /\ used'[q] = used[q]
  BY <1>1
<1> QED
  BY <1>1, <1>2, <1>3, <1>4, <1>5, SlotWorks

-----------------------------------------------------------------------------
(* The pure parts of the calls again.                                      *)

\* Where Hold continues, it has no row and knows the source it will name.
LEMMA HoldRouteWorks ==
  ASSUME NEW c \in Call, c.req \in Requests, c.amt = 0,
         NEW rows, NEW hs, NEW ends, NEW t,
         rows[c.req] = NoResv, hs[c.req].stage # "new"
  PROVE  Work(HoldRoute(c), rows, hs, ends, t)
<1> DEFINE k   == KeyOf[c.req]
           rem == QuotaRemaining(k, c.used)
           amt == CappedHold(Plan[k].kind, rem)
<1>1. /\ k \in Keys /\ Plan[k].kind \in Kinds /\ Plan[k].amount \in Nat
      /\ c.used \in Nat
  BY PlanOf DEF Call
<1>2. CASE Plan[k].kind = "unlimited"
  <2>1. HoldRoute(c) = [[c EXCEPT !.src = "key_quota"] EXCEPT !.pc = "hold_insert"]
    BY <1>2 DEF HoldRoute, HasQuota
  <2> QED
    BY <1>1, <2>1 DEF Work, Call, HoldPcs, ReleasePcs, RefundPcs
<1>3. CASE Plan[k].kind # "unlimited" /\ HasQuota(k, c.used)
  <2>1. rem \in Nat /\ rem <= Plan[k].amount
    BY <1>1, <1>3 DEF HasQuota, QuotaRemaining
  <2>2. amt \in Nat /\ amt <= Plan[k].amount
    BY <1>1, <2>1, CappedHoldNat
  <2>3. HoldRoute(c) = [c EXCEPT !.src = "key_quota",
              !.pc = IF amt > 0 THEN "hold_quota" ELSE "hold_insert", !.amt = amt]
    BY <1>3 DEF HoldRoute
  <2> HIDE DEF amt
  <2> QED
    BY <1>3, <2>2, <2>3 DEF Work, Call, HoldPcs, ReleasePcs, RefundPcs
<1>4. CASE ~HasQuota(k, c.used) /\ Plan[k].overflow
  <2>1. HoldRoute(c) = [c EXCEPT !.pc = "hold_check", !.src = "wallet", !.amt = HoldMicro]
    BY <1>4 DEF HoldRoute, HasQuota
  <2> QED
    BY <2>1 DEF Work, Call, HoldPcs, ReleasePcs, RefundPcs
<1>5. CASE ~HasQuota(k, c.used) /\ ~Plan[k].overflow
  <2>1. HoldRoute(c) = Idle
    BY <1>5 DEF HoldRoute, HasQuota
  <2> QED
    BY <2>1, LightWork DEF Idle, LightPcs
<1> QED
  BY <1>2, <1>3, <1>4, <1>5, <1>1 DEF HasQuota

\* Once the unit is known nothing of the tables matters until Settle.
LEMMA UnitRouteLight ==
  ASSUME NEW c \in Call
  PROVE  UnitRoute(c).pc \in LightPcs
  BY DEF UnitRoute, Call, LightPcs

\* An extra goes to the quota of a limited key only.
LEMMA ChargeRouteWorks ==
  ASSUME NEW c \in Call, c.req \in Requests, NEW rows, NEW hs, NEW ends, NEW t
  PROVE  Work(ChargeRoute(c), rows, hs, ends, t)
<1> DEFINE k    == KeyOf[c.req]
           fits == HasQuota(k, c.used) /\ QuotaRemaining(k, c.used) >= c.amt
<1>1. c.amt \in Nat
  BY DEF Call
<1>2. CASE Plan[k].kind = "unlimited" \/ c.amt <= 0
  <2>1. ChargeRoute(c).pc = "record"
    BY <1>2 DEF ChargeRoute, Call
  <2> QED
    BY <2>1, LightWork DEF LightPcs
<1>3. CASE Plan[k].kind # "unlimited" /\ c.amt > 0 /\ fits
  <2>1. ChargeRoute(c) = [[c EXCEPT !.pc = "record", !.src = "key_quota"]
                            EXCEPT !.pc = "charge_quota"]
    BY <1>1, <1>3 DEF ChargeRoute
  <2>2. ChargeRoute(c).pc = "charge_quota" /\ ChargeRoute(c).req = c.req
    BY <2>1 DEF Call
  <2> QED
    BY <1>3, <2>2 DEF Work, HoldPcs, ReleasePcs, RefundPcs
<1>4. CASE Plan[k].kind # "unlimited" /\ c.amt > 0 /\ ~fits
  <2>1. ChargeRoute(c).pc \in {"over_check", "record"}
    BY <1>1, <1>4 DEF ChargeRoute, Call
  <2> QED
    BY <2>1, LightWork DEF LightPcs
<1> QED
  BY <1>1, <1>2, <1>3, <1>4

\* The same after the settlement.
LEMMA AfterSettleWorks ==
  ASSUME NEW c \in Call, c.req \in Requests, NEW rows, NEW hs, NEW ends, NEW t
  PROVE  Work(AfterSettle(c), rows, hs, ends, t)
<1>1. CASE c.own = "wallet"
  <2>1. AfterSettle(c).pc \in {"extra_check", "record"}
    BY <1>1 DEF AfterSettle, Call
  <2> QED
    BY <2>1, LightWork DEF LightPcs
<1>2. CASE c.own # "wallet"
  BY <1>2, ChargeRouteWorks DEF AfterSettle
<1> QED
  BY <1>1, <1>2

-----------------------------------------------------------------------------
(* Steps of the calls.                                                     *)

\* What is known of a call about to run its next statement.
LEMMA Working ==
  ASSUME WInv, NEW s \in Slots, call[s].pc # "idle"
  PROVE  LET c == call[s] IN
         /\ BInv /\ TypeOK /\ Serial /\ Works
         /\ Alone(s, KeyOf[c.req]) /\ c \in Call /\ c \in ProperCall
         /\ c.req \in Requests /\ KeyOf[c.req] \in Keys
         /\ c.pc \in RefundPcs => c.res \in Requests /\ KeyOf[c.res] = KeyOf[c.req]
         /\ Fine(c, used) /\ Work(c, resv, host, periodEnd, now)
         /\ \A r \in Requests : resv[r] \in ResvRow /\ Row(r, resv[r], host[r].stage)
         /\ now \in Nat /\ used \in [Keys -> Nat] /\ periodEnd \in [Keys -> Nat]
<1> DEFINE c == call[s]
<1>1. BInv /\ TypeOK /\ Serial /\ Works
  BY DEF WInv, QInv, BInv
<1>2. /\ Alone(s, KeyOf[c.req]) /\ Fine(c, used) /\ c \in Call /\ c.req \in Requests
      /\ KeyOf[c.req] \in Keys
  BY <1>1, StepAlone
<1>3. c \in ProperCall /\ Work(c, resv, host, periodEnd, now)
  BY <1>1 DEF TypeOK, Works
<1>4. c.pc \in RefundPcs => c.res \in Requests /\ KeyOf[c.res] = KeyOf[c.req]
  BY <1>3 DEF ProperCall, Work, RefundPcs
<1>5. \A r \in Requests : resv[r] \in ResvRow /\ Row(r, resv[r], host[r].stage)
  BY <1>1 DEF TypeOK, Works
<1>6. now \in Nat /\ used \in [Keys -> Nat] /\ periodEnd \in [Keys -> Nat]
  BY <1>1 DEF TypeOK
<1> QED
  BY <1>1, <1>2, <1>3, <1>4, <1>5, <1>6

\* A refund changes no other key's counter, lowers its own, and ends no period.
LEMMA RefundOwn ==
  ASSUME BInv, NEW r \in Requests, NEW amount \in Nat, NEW tag, Refund(r, amount, tag)
  PROVE  /\ periodEnd' = periodEnd /\ used'[KeyOf[r]] <= used[KeyOf[r]]
         /\ used'[KeyOf[r]] \in Nat
         /\ \A q \in Keys : q # KeyOf[r] => used'[q] = used[q]
<1>1. KeyOf[r] \in Keys /\ -amount \in Int /\ TypeOK /\ used[KeyOf[r]] \in Nat
  BY PlanOf DEF BInv, TypeOK
<1>2. used'[KeyOf[r]] <= used[KeyOf[r]]
  BY <1>1, RefundLowers
<1>3. CASE UNCHANGED keyVars
  BY <1>1, <1>2, <1>3 DEF keyVars
<1>4. CASE ConsumeQuota(KeyOf[r], -amount)
  BY <1>1, <1>2, <1>4, ConsumeKeeps
<1> QED
  BY <1>3, <1>4 DEF Refund

\* Idle promises nothing.
LEMMA IdleLight == Idle \in ProperCall /\ Idle.pc \in LightPcs
  BY IdleProper DEF Idle, LightPcs

\* Hold.
LEMMA HoldWorks ==
  ASSUME WInv, QInv', NEW s \in Slots,
         \/ HoldPeriod(s) \/ HoldQuota(s) \/ HoldCheck(s)
         \/ HoldDebit(s) \/ HoldInsert(s)
  PROVE  Works'
<1> DEFINE c == call[s]
           k == KeyOf[c.req]
<1>0. c.pc \in HoldPcs /\ c.pc # "idle" /\ TypeOK'
  BY DEF HoldPeriod, HoldQuota, HoldCheck, HoldDebit, HoldInsert, HoldPcs,
         QInv, BInv
<1>1. /\ BInv /\ TypeOK /\ Serial /\ Works /\ Alone(s, k)
      /\ c \in Call /\ c \in ProperCall /\ c.req \in Requests /\ k \in Keys
      /\ Fine(c, used) /\ Work(c, resv, host, periodEnd, now)
      /\ \A r \in Requests : resv[r] \in ResvRow /\ Row(r, resv[r], host[r].stage)
      /\ now \in Nat /\ used \in [Keys -> Nat] /\ periodEnd \in [Keys -> Nat]
  BY <1>0, Working
<1>2. resv[c.req] = NoResv /\ host[c.req].stage # "new"
  BY <1>0, <1>1 DEF Work
<1>3. CASE HoldPeriod(s)
  <2> DEFINE d == [c EXCEPT !.used = 0, !.at = 0]
  <2>1. c.pc = "hold_period" /\ c.amt = 0 /\ c.at \in Nat
    BY <1>1, <1>3 DEF HoldPeriod, Work, Call
  <2>2. d \in Call /\ d.req = c.req /\ d.amt = 0
    BY <1>1, <2>1 DEF Call
  <2>3. /\ used'[k] = 0 /\ \A q \in Keys : q # k => used'[q] = used[q]
        /\ \A q \in Keys : q # k => periodEnd'[q] = periodEnd[q]
        /\ resv' = resv /\ host' = host /\ now' = now /\ Set(s, HoldRoute(d))
    BY <1>1, <1>3, <2>1, ResetKeeps DEF HoldPeriod, ResetPeriod
  <2> HIDE DEF d
  <2>4. /\ HoldRoute(d) \in ProperCall
        /\ Work(HoldRoute(d), resv', host', periodEnd', now')
    BY <1>1, <1>2, <2>2, <2>3, HoldRouteProper, HoldRouteWorks
  <2> QED
    BY <1>0, <1>1, <2>3, <2>4, SlotWorks
<1>4. CASE HoldQuota(s)
  <2> DEFINE d == [c EXCEPT !.pc = "hold_insert"]
  <2>1. /\ c.pc = "hold_quota" /\ c.src = "key_quota" /\ c.amt \in Nat /\ c.used \in Nat
        /\ Plan[k].kind # "unlimited" /\ c.used + c.amt <= Plan[k].amount
        /\ Plan[k].amount \in Nat
    BY <1>1, <1>4, PlanOf DEF HoldQuota, Work, Call, Fine, Fits
  <2>2. d \in ProperCall /\ Work(d, resv, host, periodEnd, now)
    <3>1. /\ d \in Call /\ d.pc = "hold_insert" /\ d.req = c.req /\ d.src = "key_quota"
          /\ d.amt = c.amt
      BY <1>1, <2>1 DEF Call, HoldPcs
    <3>2. c.amt <= Plan[k].amount
      BY <2>1
    <3> HIDE DEF d
    <3> QED
      BY <1>1, <1>2, <3>1, <3>2 DEF ProperCall, Work, HoldPcs, RefundPcs, ReleasePcs
  <2>3. /\ \A q \in Keys : q # k => used'[q] = used[q]
        /\ periodEnd' = periodEnd
        /\ resv' = resv /\ host' = host /\ now' = now /\ Set(s, d)
    BY <1>1, <1>4, <2>1, ConsumeKeeps DEF HoldQuota
  <2> HIDE DEF d
  <2>4. Work(d, resv', host', periodEnd', now')
    BY <2>2, <2>3
  <2> QED
    BY <1>0, <1>1, <2>1, <2>2, <2>3, <2>4, SlotWorks
<1>5. CASE HoldCheck(s) \/ HoldDebit(s)
  <2>1. c.src = "wallet" /\ UNCHANGED <<resv, host, keyVars, now>>
    BY <1>1, <1>5 DEF HoldCheck, HoldDebit, Work, keyVars
  <2>2. \A pc \in {"hold_debit", "hold_insert"} :
          LET d == [c EXCEPT !.pc = pc]
          IN  d \in ProperCall /\ Work(d, resv, host, periodEnd, now)
    BY <1>1, <1>2, <2>1
       DEF ProperCall, Call, HoldPcs, RefundPcs, ReleasePcs, Work
  <2>3. Set(s, Idle) \/ \E pc \in {"hold_debit", "hold_insert"} : Set(s, [c EXCEPT !.pc = pc])
    BY <1>5 DEF HoldCheck, HoldDebit
  <2>4. Work(Idle, resv, host, periodEnd, now)
    BY IdleLight, LightWork
  <2> QED
    BY <1>0, <1>1, <2>1, <2>2, <2>3, <2>4, IdleLight, CallWorks
<1>6. CASE HoldInsert(s)
  <2> DEFINE row == [status |-> "open", hold |-> c.amt, source |-> c.src, at |-> now]
  <2>1. /\ c.pc = "hold_insert" /\ c.src \in {"wallet", "key_quota"}
        /\ c.src = "key_quota" => c.amt <= Plan[k].amount
    BY <1>1, <1>6 DEF HoldInsert, Work
  <2>2. Row(c.req, row, host[c.req].stage)
    BY <1>2, <2>1 DEF Row
  <2>3. /\ resv' = [resv EXCEPT ![c.req] = row] /\ Set(s, Idle)
        /\ host' = host /\ now' = now /\ periodEnd' = periodEnd /\ used' = used
    BY <1>6 DEF HoldInsert, keyVars
  <2> HIDE DEF row
  <2>4. \A r \in Requests : Row(r, resv'[r], host'[r].stage)
    BY <1>1, <2>2, <2>3 DEF TypeOK
  <2>5. \A r \in Requests : KeyOf[r] # k => resv'[r] = resv[r]
    BY <1>1, <2>3 DEF TypeOK
  <2>6. Work(Idle, resv', host', periodEnd', now')
    BY IdleLight, LightWork
  <2>7. Plan[k].kind = "unlimited" => used'[k] = 0
    BY <1>1, <2>3 DEF Works
  <2> QED
    BY <1>0, <1>1, <2>3, <2>4, <2>5, <2>6, <2>7, IdleLight, SlotWorks
<1> QED
  BY <1>3, <1>4, <1>5, <1>6

\* A call that moves on to a statement that relies on no table.
LEMMA LightStep ==
  ASSUME TypeOK, TypeOK', Works, NEW s \in Slots, NEW k \in Keys, Alone(s, k),
         NEW d, Set(s, d), d.pc \in LightPcs, UNCHANGED <<resv, host, keyVars, now>>
  PROVE  Works'
<1>1. d \in ProperCall
  BY DEF TypeOK, Set
<1>2. Work(d, resv, host, periodEnd, now)
  BY LightWork
<1> QED
  BY <1>1, <1>2, CallWorks

\* A reservation that is marked keeps what its row promises (Settle, Release).
LEMMA MarkRow ==
  ASSUME NEW r \in Requests, NEW row \in ResvRow, NEW stage, Row(r, row, stage),
         row.status = "open", NEW status \in {"settled", "released"}
  PROVE  Row(r, [row EXCEPT !.status = status], stage)
<1> DEFINE x == [row EXCEPT !.status = status]
<1>1. x.status # "none" /\ x.source = row.source /\ x.hold = row.hold
  BY DEF ResvRow
<1>2. row # NoResv
  BY DEF NoResv
<1> HIDE DEF x
<1>3. Row(r, x, stage)
  BY <1>1, <1>2 DEF Row
<1> QED
  BY <1>3 DEF x

\* Charge and Settle.
LEMMA ChargeWorks ==
  ASSUME WInv, QInv', NEW s \in Slots,
         \/ ChargePeriod(s) \/ ChargeCount(s) \/ ChargeOwn(s) \/ SettlePick(s)
         \/ SettleRefund(s) \/ SettleMark(s) \/ ExtraCheck(s) \/ ExtraDebit(s)
         \/ ChargeQuota(s) \/ OverCheck(s) \/ OverDebit(s) \/ Record(s)
  PROVE  Works'
<1> DEFINE c == call[s]
           k == KeyOf[c.req]
<1>0. c.pc # "idle" /\ TypeOK'
  BY DEF QInv, BInv, ChargePeriod, ChargeCount, ChargeOwn, SettlePick, SettleRefund,
         SettleMark, ExtraCheck, ExtraDebit, ChargeQuota, OverCheck, OverDebit, Record
<1>1. /\ BInv /\ TypeOK /\ Serial /\ Works /\ Alone(s, k)
      /\ c \in Call /\ c \in ProperCall /\ c.req \in Requests /\ k \in Keys
      /\ c.pc \in RefundPcs => c.res \in Requests /\ KeyOf[c.res] = k
      /\ Fine(c, used) /\ Work(c, resv, host, periodEnd, now)
      /\ \A r \in Requests : resv[r] \in ResvRow /\ Row(r, resv[r], host[r].stage)
      /\ now \in Nat /\ used \in [Keys -> Nat] /\ periodEnd \in [Keys -> Nat]
  BY <1>0, Working
<1>2. \A r \in Requests : Row(r, resv[r], host[r].stage)
  BY <1>1
<1>3. CASE ChargePeriod(s)
  <2> DEFINE d == [c EXCEPT !.used = 0, !.at = 0]
  <2>1. d \in Call /\ c.at \in Nat
    BY <1>1 DEF Call
  <2>2. /\ used'[k] = 0 /\ \A q \in Keys : q # k => used'[q] = used[q]
        /\ \A q \in Keys : q # k => periodEnd'[q] = periodEnd[q]
        /\ resv' = resv /\ host' = host /\ now' = now /\ Set(s, UnitRoute(d))
    BY <1>1, <1>3, <2>1, ResetKeeps DEF ChargePeriod, ResetPeriod
  <2> HIDE DEF d
  <2>3. UnitRoute(d) \in ProperCall /\ UnitRoute(d).pc \in LightPcs
    BY <1>0, <1>1, <2>1, <2>2, UnitRouteLight DEF TypeOK, Set
  <2>4. Work(UnitRoute(d), resv', host', periodEnd', now')
    BY <2>3, LightWork
  <2> QED
    BY <1>0, <1>1, <1>2, <2>2, <2>3, <2>4, SlotWorks
<1>4. CASE ChargeCount(s) \/ ChargeOwn(s)
  <2>1. \A n : [c EXCEPT !.unit = n, !.pc = "charge_own"].pc \in LightPcs
    BY <1>1 DEF Call, LightPcs
  <2>2. \A o : [c EXCEPT !.pc = "settle_pick", !.own = o].pc \in LightPcs
    BY <1>1 DEF Call, LightPcs
  <2>3. \/ \E n : Set(s, [c EXCEPT !.unit = n, !.pc = "charge_own"])
        \/ \E o : Set(s, [c EXCEPT !.pc = "settle_pick", !.own = o])
    BY <1>4 DEF ChargeCount, ChargeOwn
  <2>4. UNCHANGED <<resv, host, keyVars, now>>
    BY <1>4 DEF ChargeCount, ChargeOwn
  <2> QED
    BY <1>0, <1>1, <2>1, <2>2, <2>3, <2>4, LightStep
<1>5. CASE SettlePick(s)
  <2>1. UNCHANGED <<resv, host, keyVars, now>>
    BY <1>5 DEF SettlePick
  <2>2. ASSUME Set(s, ChargeRoute([c EXCEPT !.amt = c.unit])) PROVE Works'
    <3> DEFINE d == [c EXCEPT !.amt = c.unit]
    <3>1. d \in Call /\ d.req \in Requests /\ Set(s, ChargeRoute(d))
      BY <1>1, <2>2 DEF Call
    <3> HIDE DEF d
    <3>2. /\ ChargeRoute(d) \in ProperCall
          /\ Work(ChargeRoute(d), resv, host, periodEnd, now)
      BY <3>1, ChargeRouteProper, ChargeRouteWorks
    <3> QED
      BY <1>0, <1>1, <2>1, <3>1, <3>2, CallWorks
  <2>3. ASSUME NEW r \in OpenOf(k), NEW pc \in {"settle_refund", "settle_mark"},
               Set(s, [c EXCEPT !.res = r, !.pc = pc, !.amt = resv[r].hold])
        PROVE  Works'
    <3> DEFINE d == [c EXCEPT !.res = r, !.pc = pc, !.amt = resv[r].hold]
    <3>1. r \in Requests /\ resv[r].status = "open" /\ KeyOf[r] = k
      BY DEF OpenOf
    <3>2. /\ d.req = c.req /\ d.pc = pc /\ d.res = r /\ d.amt = resv[r].hold
          /\ Set(s, d)
      BY <1>1, <2>3 DEF Call
    <3> HIDE DEF d
    <3>3. d \in ProperCall
      BY <1>0, <1>1, <3>2 DEF TypeOK, Set
    <3>4. Work(d, resv, host, periodEnd, now)
      BY <3>1, <3>2 DEF Work, HoldPcs, ReleasePcs, RefundPcs
    <3> QED
      BY <1>0, <1>1, <2>1, <3>2, <3>3, <3>4, CallWorks
  <2> QED
    BY <1>5, <2>2, <2>3 DEF SettlePick
<1>6. CASE SettleRefund(s)
  <2> DEFINE d == [c EXCEPT !.pc = "settle_mark"]
  <2>1. /\ c.pc = "settle_refund" /\ c.res \in Requests /\ KeyOf[c.res] = k
        /\ resv[c.res].status = "open" /\ resv[c.res].hold = c.amt
    BY <1>1, <1>6 DEF SettleRefund, Work, RefundPcs
  <2>2. c.amt \in Nat /\ Actual(c) \in Nat /\ c.amt - Actual(c) \in Nat
    <3>1. c.amt \in Nat /\ Actual(c) \in Nat
      BY <1>1, ActualNat DEF Call
    <3>2. Actual(c) <= c.amt
      BY <1>1, <2>1 DEF Fine
    <3> QED
      BY <3>1, <3>2
  <2>3. Refund(c.res, c.amt - Actual(c), "settle") /\ Set(s, d)
    BY <1>6 DEF SettleRefund
  <2>4. /\ \A q \in Keys : q # k => used'[q] = used[q] /\ periodEnd'[q] = periodEnd[q]
        /\ used'[k] <= used[k] /\ used'[k] \in Nat
        /\ resv' = resv /\ host' = host /\ now' = now
    BY <1>1, <1>6, <2>1, <2>2, <2>3, RefundOwn DEF SettleRefund
  <2>5. d.pc = "settle_mark" /\ d.req = c.req /\ d.res = c.res /\ d.amt = c.amt
    BY <1>1 DEF Call
  <2> HIDE DEF d
  <2>6. d \in ProperCall
    BY <1>0, <1>1, <2>3 DEF TypeOK, Set
  <2>7. Work(d, resv', host', periodEnd', now')
    BY <2>1, <2>4, <2>5 DEF Work, HoldPcs, ReleasePcs, RefundPcs
  <2>8. Plan[k].kind = "unlimited" => used'[k] = 0
    BY <1>1, <2>4 DEF Works
  <2> QED
    BY <1>0, <1>1, <1>2, <2>3, <2>4, <2>6, <2>7, <2>8, SlotWorks
<1>7. CASE SettleMark(s)
  <2> DEFINE d == [c EXCEPT !.amt = Larger(0, Actual(c) - c.amt)]
  <2>1. /\ c.res \in Requests /\ KeyOf[c.res] = k /\ resv[c.res].status = "open"
    BY <1>1, <1>7 DEF SettleMark, Work, RefundPcs
  <2>2. /\ resv' = [resv EXCEPT ![c.res] = [resv[c.res] EXCEPT !.status = "settled"]]
        /\ Set(s, AfterSettle(d))
        /\ host' = host /\ now' = now /\ periodEnd' = periodEnd /\ used' = used
    BY <1>7 DEF SettleMark, keyVars
  <2>3. d \in Call /\ d.req \in Requests
    <3>1. c.amt \in Nat /\ Actual(c) \in Nat
      BY <1>1, ActualNat DEF Call
    <3>2. Larger(0, Actual(c) - c.amt) \in Nat
      BY <3>1 DEF Larger
    <3> QED
      BY <1>1, <3>2 DEF Call
  <2> HIDE DEF d
  <2>4. /\ AfterSettle(d) \in ProperCall
        /\ Work(AfterSettle(d), resv', host', periodEnd', now')
    BY <2>3, AfterSettleProper, AfterSettleWorks
  <2>5. \A r \in Requests : Row(r, resv'[r], host'[r].stage)
    BY <1>1, <2>1, <2>2, MarkRow DEF TypeOK
  <2>6. \A r \in Requests : KeyOf[r] # k => resv'[r] = resv[r]
    BY <1>1, <2>1, <2>2 DEF TypeOK
  <2>7. Plan[k].kind = "unlimited" => used'[k] = 0
    BY <1>1, <2>2 DEF Works
  <2> QED
    BY <1>0, <1>1, <2>2, <2>4, <2>5, <2>6, <2>7, SlotWorks
<1>8. CASE ChargeQuota(s)
  <2> DEFINE d == [c EXCEPT !.pc = "record"]
  <2>1. Plan[k].kind # "unlimited" /\ c.amt \in Int
    BY <1>1, <1>8 DEF ChargeQuota, Work, Call
  <2>2. /\ \A q \in Keys : q # k => used'[q] = used[q]
        /\ periodEnd' = periodEnd /\ resv' = resv /\ host' = host /\ now' = now
        /\ Set(s, d)
    BY <1>1, <1>8, <2>1, ConsumeKeeps DEF ChargeQuota
  <2>3. d.pc = "record"
    BY <1>1 DEF Call
  <2> HIDE DEF d
  <2>4. d \in ProperCall /\ Work(d, resv', host', periodEnd', now')
    BY <1>0, <1>1, <2>2, <2>3, LightWork DEF TypeOK, Set, LightPcs
  <2> QED
    BY <1>0, <1>1, <1>2, <2>1, <2>2, <2>4, SlotWorks
<1>9. CASE ExtraCheck(s) \/ ExtraDebit(s) \/ OverCheck(s) \/ OverDebit(s) \/ Record(s)
  <2>1. \A pc \in {"extra_debit", "over_debit", "record"} :
          /\ [c EXCEPT !.pc = pc].pc \in LightPcs
          /\ \A src : [c EXCEPT !.pc = pc, !.src = src].pc \in LightPcs
    BY <1>1 DEF Call, LightPcs
  <2>2. \/ \E pc \in {"extra_debit", "over_debit", "record"} : Set(s, [c EXCEPT !.pc = pc])
        \/ \E pc \in {"extra_debit", "over_debit", "record"}, src \in Sources :
             Set(s, [c EXCEPT !.pc = pc, !.src = src])
        \/ Set(s, Idle)
    BY <1>9 DEF ExtraCheck, ExtraDebit, OverCheck, OverDebit, Record, DebitOwner, Sources
  <2>3. UNCHANGED <<resv, host, keyVars, now>>
    BY <1>9 DEF ExtraCheck, ExtraDebit, OverCheck, OverDebit, Record, DebitOwner
  <2> QED
    BY <1>0, <1>1, <2>1, <2>2, <2>3, IdleLight, LightStep
<1> QED
  BY <1>3, <1>4, <1>5, <1>6, <1>7, <1>8, <1>9

\* Release.
LEMMA ReleaseWorks ==
  ASSUME WInv, QInv', NEW s \in Slots, ReleaseRefund(s) \/ ReleaseMark(s)
  PROVE  Works'
<1> DEFINE c == call[s]
           k == KeyOf[c.req]
<1>0. c.pc \in ReleasePcs /\ c.pc \in RefundPcs /\ c.pc # "idle" /\ TypeOK'
  BY DEF QInv, BInv, ReleaseRefund, ReleaseMark, ReleasePcs, RefundPcs
<1>1. /\ BInv /\ TypeOK /\ Serial /\ Works /\ Alone(s, k)
      /\ c \in Call /\ c \in ProperCall /\ c.req \in Requests /\ k \in Keys
      /\ Work(c, resv, host, periodEnd, now)
      /\ \A r \in Requests : resv[r] \in ResvRow /\ Row(r, resv[r], host[r].stage)
      /\ used \in [Keys -> Nat]
  BY <1>0, Working
<1>2. c.res = c.req /\ resv[c.res].status = "open" /\ resv[c.res].hold = c.amt
  BY <1>0, <1>1 DEF Work
<1>3. CASE ReleaseRefund(s)
  <2> DEFINE d == [c EXCEPT !.pc = "release_mark"]
  <2>1. c.amt \in Nat /\ Refund(c.res, c.amt, "release") /\ Set(s, d)
    BY <1>1, <1>3 DEF ReleaseRefund, Call
  <2>2. /\ \A q \in Keys : q # k => used'[q] = used[q] /\ periodEnd'[q] = periodEnd[q]
        /\ used'[k] <= used[k] /\ used'[k] \in Nat
        /\ resv' = resv /\ host' = host /\ now' = now
    BY <1>1, <1>2, <1>3, <2>1, RefundOwn DEF ReleaseRefund
  <2>3. d.pc = "release_mark" /\ d.req = c.req /\ d.res = c.res /\ d.amt = c.amt
    BY <1>1 DEF Call
  <2> HIDE DEF d
  <2>4. d \in ProperCall
    BY <1>0, <1>1, <2>1 DEF TypeOK, Set
  <2>5. Work(d, resv', host', periodEnd', now')
    BY <1>2, <2>2, <2>3 DEF Work, HoldPcs, ReleasePcs, RefundPcs
  <2>6. Plan[k].kind = "unlimited" => used'[k] = 0
    BY <1>1, <2>2 DEF Works
  <2>7. \A r \in Requests : Row(r, resv'[r], host'[r].stage)
    BY <1>1, <2>2
  <2> QED
    BY <1>0, <1>1, <2>1, <2>2, <2>4, <2>5, <2>6, <2>7, SlotWorks
<1>4. CASE ReleaseMark(s)
  <2>1. /\ resv' = [resv EXCEPT ![c.res] = [resv[c.res] EXCEPT !.status = "released"]]
        /\ Set(s, Idle)
        /\ host' = host /\ now' = now /\ periodEnd' = periodEnd /\ used' = used
    BY <1>4 DEF ReleaseMark, keyVars
  <2>2. \A r \in Requests : Row(r, resv'[r], host'[r].stage)
    BY <1>1, <1>2, <2>1, MarkRow DEF TypeOK
  <2>3. \A r \in Requests : KeyOf[r] # k => resv'[r] = resv[r]
    BY <1>1, <1>2, <2>1 DEF TypeOK
  <2>4. Plan[k].kind = "unlimited" => used'[k] = 0
    BY <1>1, <2>1 DEF Works
  <2>5. Work(Idle, resv', host', periodEnd', now')
    BY IdleLight, LightWork
  <2> QED
    BY <1>0, <1>1, <2>1, <2>2, <2>3, <2>4, <2>5, IdleLight, SlotWorks
<1> QED
  BY <1>3, <1>4

\* A call begins: a Hold for a request without a row, a Release for an open one.
LEMMA BeginWorks ==
  ASSUME KeyCalls = 1, WInv, QInv', NEW s \in Slots, NEW r \in Requests,
         \/ HoldBegin(s, r)
         \/ \E use \in Uses : ChargeBegin(s, r, use)
         \/ CompleteFailed(s, r)
         \/ BootRelease(s, r)
  PROVE  Works'
<1> DEFINE k == KeyOf[r]
<1>0. BInv /\ TypeOK /\ Works /\ TypeOK' /\ k \in Keys /\ Alone(s, k)
  BY PlanOf, BeginAlone DEF WInv, QInv, BInv
<1>1. /\ now \in Nat /\ periodEnd \in [Keys -> Nat] /\ used \in [Keys -> Nat]
      /\ host \in [Requests -> Host]
      /\ \A q \in Requests : resv[q] \in ResvRow /\ Row(q, resv[q], host[q].stage)
  BY <1>0 DEF TypeOK, Works
<1>2. UNCHANGED <<resv, keyVars, now>>
  BY DEF HoldBegin, ChargeBegin, CompleteFailed, BootRelease
<1>3. ASSUME NEW d \in ProperCall, Set(s, d), Work(d, resv, host', periodEnd, now),
             \A q \in Requests : q # r => host'[q] = host[q],
             host'[r].stage = "new" => host[r].stage = "new"
      PROVE  Works'
  <2>1. /\ resv' = resv /\ periodEnd' = periodEnd /\ used' = used /\ now' = now
    BY <1>2 DEF keyVars
  <2>2. \A q \in Requests : Row(q, resv'[q], host'[q].stage)
    BY <1>1, <1>3, <2>1 DEF Row
  <2>3. \A q \in Requests : KeyOf[q] # k => host'[q] = host[q] /\ resv'[q] = resv[q]
    BY <1>3, <2>1
  <2>4. Plan[k].kind = "unlimited" => used'[k] = 0
    BY <1>0, <2>1 DEF Works
  <2>5. Work(d, resv', host', periodEnd', now')
    BY <1>3, <2>1
  <2> QED
    BY <1>0, <1>3, <2>1, <2>2, <2>3, <2>4, <2>5, SlotWorks
<1>4. ASSUME HoldBegin(s, r) PROVE Works'
  <2> DEFINE c == [Idle EXCEPT !.req = r, !.used = used[k]]
             d == [c EXCEPT !.pc = "hold_period", !.at = now]
  <2>1. /\ host[r].stage = "new" /\ host' = [host EXCEPT ![r].stage = "running"]
        /\ \/ PeriodOver(k) /\ Set(s, d)
           \/ Set(s, HoldRoute(c))
    BY <1>4 DEF HoldBegin
  <2>2. /\ host'[r].stage = "running" /\ resv[r] = NoResv
        /\ \A q \in Requests : q # r => host'[q] = host[q]
    BY <1>1, <2>1 DEF Host, Row
  <2>3. c \in Call /\ c.req = r /\ c.amt = 0
    BY <1>0, <1>1 DEF Idle, NoUse, Call, Usage, Sources
  <2>4. d.pc = "hold_period" /\ d.req = r /\ d.amt = 0 /\ d.at = now
    BY <2>3 DEF Call
  <2> HIDE DEF d
  <2>5. ASSUME Set(s, d), PeriodOver(k) PROVE Works'
    <3>1. d \in ProperCall
      BY <1>0, <2>5 DEF TypeOK, Set
    <3>2. periodEnd[k] <= now
      BY <1>0, <1>1, <2>5 DEF PeriodOver
    <3>3. Work(d, resv, host', periodEnd, now)
      BY <1>1, <2>2, <2>4, <3>2 DEF Work, HoldPcs, ReleasePcs, RefundPcs
    <3> QED
      BY <1>3, <2>2, <2>5, <3>1, <3>3
  <2> HIDE DEF c
  <2>6. ASSUME Set(s, HoldRoute(c)) PROVE Works'
    <3>1. HoldRoute(c) \in ProperCall
      BY <2>3, HoldRouteProper
    <3>2. resv[c.req] = NoResv /\ host'[c.req].stage # "new"
      BY <2>2, <2>3
    <3>3. Work(HoldRoute(c), resv, host', periodEnd, now)
      BY <2>3, <3>2, HoldRouteWorks
    <3> QED
      BY <1>3, <2>2, <2>6, <3>1, <3>3
  <2> QED
    BY <2>1, <2>5, <2>6
<1>5. ASSUME NEW use \in Uses, ChargeBegin(s, r, use) PROVE Works'
  <2> DEFINE c == [Idle EXCEPT !.req = r, !.use = use, !.used = used[k]]
             d == [c EXCEPT !.pc = "charge_period", !.at = now]
             e == [c EXCEPT !.pc = "record"]
  <2>1. /\ host' = [host EXCEPT ![r].uses = @ + 1]
        /\ \/ PeriodOver(k) /\ Set(s, d)
           \/ Set(s, e) \/ Set(s, UnitRoute(c))
    BY <1>5 DEF ChargeBegin
  <2>2. /\ host'[r].stage = host[r].stage
        /\ \A q \in Requests : q # r => host'[q] = host[q]
    BY <1>1, <2>1 DEF Host
  <2>3. c \in Call /\ c.req = r
    BY <1>0, <1>1 DEF Idle, Call, Usage, Sources
  <2>4. /\ d.pc = "charge_period" /\ d.req = r /\ d.at = now
        /\ e.pc = "record"
    BY <2>3 DEF Call
  <2> HIDE DEF d, e
  <2>5. ASSUME Set(s, d), PeriodOver(k) PROVE Works'
    <3>1. d \in ProperCall
      BY <1>0, <2>5 DEF TypeOK, Set
    <3>2. periodEnd[k] <= now
      BY <1>0, <1>1, <2>5 DEF PeriodOver
    <3>3. Work(d, resv, host', periodEnd, now)
      BY <1>1, <2>4, <3>2 DEF Work, HoldPcs, ReleasePcs, RefundPcs
    <3> QED
      BY <1>3, <2>2, <2>5, <3>1, <3>3
  <2> HIDE DEF c
  <2>6. ASSUME NEW x, Set(s, x), x.pc \in LightPcs PROVE Works'
    <3>1. x \in ProperCall
      BY <1>0, <2>6 DEF TypeOK, Set
    <3>2. Work(x, resv, host', periodEnd, now)
      BY <2>6, LightWork
    <3> QED
      BY <1>3, <2>2, <2>6, <3>1, <3>2
  <2>7. UnitRoute(c).pc \in LightPcs /\ e.pc \in LightPcs
    BY <2>3, <2>4, UnitRouteLight DEF LightPcs
  <2> QED
    BY <2>1, <2>5, <2>6, <2>7
<1>6. ASSUME ReadRelease(s, r), \A q \in Requests : q # r => host'[q] = host[q],
             host'[r].stage = "new" => host[r].stage = "new"
      PROVE  Works'
  <2>1. \/ Set(s, Idle)
        \/ Set(s, ReleaseCall(r)) /\ resv[r].status = "open"
    BY <1>6 DEF ReadRelease
  <2>2. Work(Idle, resv, host', periodEnd, now)
    BY IdleLight, LightWork
  <2>3. ASSUME Set(s, ReleaseCall(r)), resv[r].status = "open" PROVE Works'
    <3>1. ReleaseCall(r) \in ProperCall
      BY <1>0, <2>3 DEF TypeOK, Set
    <3>2. /\ ReleaseCall(r).pc = "release_refund" /\ ReleaseCall(r).req = r
          /\ ReleaseCall(r).res = r /\ ReleaseCall(r).amt = resv[r].hold
      BY DEF ReleaseCall, Idle
    <3>3. Work(ReleaseCall(r), resv, host', periodEnd, now)
      BY <2>3, <3>2 DEF Work, HoldPcs, ReleasePcs, RefundPcs
    <3> QED
      BY <1>3, <1>6, <2>3, <3>1, <3>3
  <2> QED
    BY <1>3, <1>6, <2>1, <2>2, <2>3, IdleLight
<1>7. ASSUME CompleteFailed(s, r) PROVE Works'
  <2>1. host' = [host EXCEPT ![r].stage = "failed"] /\ ReadRelease(s, r)
    BY <1>7 DEF CompleteFailed
  <2>2. host'[r].stage = "failed" /\ \A q \in Requests : q # r => host'[q] = host[q]
    BY <1>1, <2>1 DEF Host
  <2> QED
    BY <1>6, <2>1, <2>2
<1>8. ASSUME BootRelease(s, r) PROVE Works'
  BY <1>6, <1>8 DEF BootRelease
<1> QED
  BY <1>4, <1>5, <1>7, <1>8

\* A crash ends the calls and keeps the rows; no other process step touches
\* what the calls rely on, and time only grows.
LEMMA ProcessWorks ==
  ASSUME WInv, QInv',
         \/ \E r \in Requests : CompleteSucceeded(r)
         \/ Crash \/ Boot \/ BootDone \/ Edit \/ Tick \/ UNCHANGED vars
  PROVE  Works'
<1>0. TypeOK /\ Works /\ TypeOK'
  BY DEF WInv, QInv, BInv
<1>1. now \in Nat /\ host \in [Requests -> Host] /\ call \in [Slots -> ProperCall]
  BY <1>0 DEF TypeOK
<1>2. ASSUME UNCHANGED <<resv, call, periodEnd>>, now' \in {now, now + 1},
             \A r \in Requests : host'[r].stage = "new" <=> host[r].stage = "new",
             \A k \in Keys : used'[k] = used[k] \/ used'[k] = 0
      PROVE  Works'
  <2>1. ASSUME NEW s \in Slots PROVE Work(call'[s], resv', host', periodEnd', now')
    <3> DEFINE c == call[s]
    <3>1. c \in ProperCall /\ Work(c, resv, host, periodEnd, now) /\ call' = call
      BY <1>0, <1>1, <1>2 DEF Works
    <3>2. c.pc \in HoldPcs => c.req \in Requests
      BY <3>1 DEF ProperCall, HoldPcs
    <3>3. c.at \in Nat
      BY <3>1 DEF ProperCall, Call
    <3>4. c.at <= now => c.at <= now'
      BY <1>1, <1>2, <3>3
    <3>5. Work(c, resv', host', periodEnd', now')
      <4> HIDE DEF c
      <4> QED
        BY <1>2, <3>1, <3>2, <3>4 DEF Work
    <3> QED
      BY <3>1, <3>5
  <2>2. \A r \in Requests : Row(r, resv'[r], host'[r].stage)
    BY <1>0, <1>2 DEF Works, Row
  <2>3. \A k \in Keys : Plan[k].kind = "unlimited" => used'[k] = 0
    BY <1>0, <1>2 DEF Works
  <2> QED
    BY <2>1, <2>2, <2>3 DEF Works
<1>3. CASE Crash
  <2>1. /\ call' = [t \in Slots |-> Idle] /\ resv' = resv /\ used' = used
        /\ host' = [r \in Requests |-> IF host[r].stage = "new" THEN host[r]
                                       ELSE [stage |-> "lost", uses |-> MaxUses]]
    BY <1>3 DEF Crash, keyVars
  <2>2. \A s \in Slots : Work(call'[s], resv', host', periodEnd', now')
    BY <2>1, IdleLight, LightWork
  <2>3. \A r \in Requests : host'[r].stage = "new" <=> host[r].stage = "new"
    BY <2>1
  <2>4. \A r \in Requests : Row(r, resv'[r], host'[r].stage)
    BY <1>0, <2>1, <2>3 DEF Works, Row
  <2>5. \A k \in Keys : Plan[k].kind = "unlimited" => used'[k] = 0
    BY <1>0, <2>1 DEF Works
  <2> QED
    BY <2>2, <2>4, <2>5 DEF Works
<1>4. ASSUME NEW r \in Requests, CompleteSucceeded(r) PROVE Works'
  <2>1. /\ host' = [host EXCEPT ![r].stage = "succeeded"] /\ host[r].stage = "running"
        /\ UNCHANGED <<resv, call, periodEnd>> /\ now' = now /\ used' = used
    BY <1>4 DEF CompleteSucceeded, keyVars
  <2>2. \A q \in Requests : host'[q].stage = "new" <=> host[q].stage = "new"
    BY <1>1, <2>1 DEF Host
  <2> QED
    BY <1>2, <2>1, <2>2
<1>5. CASE Boot \/ BootDone \/ Tick \/ UNCHANGED vars
  <2>1. /\ UNCHANGED <<resv, call, periodEnd>> /\ now' \in {now, now + 1}
        /\ host' = host /\ used' = used
    BY <1>5 DEF Boot, BootDone, Tick, vars, keyVars
  <2> QED
    BY <1>2, <2>1
<1>6. CASE Edit
  <2>1. UNCHANGED <<resv, call, host>> /\ now' = now
    BY <1>6 DEF Edit
  <2>2. ASSUME NEW k \in Keys, Switch(k)
        PROVE  periodEnd' = periodEnd /\ \A q \in Keys : used'[q] = used[q] \/ used'[q] = 0
    BY <1>0, <2>2 DEF TypeOK, Switch
  <2>3. ASSUME NEW u \in Users, EditTerms(u)
        PROVE  periodEnd' = periodEnd /\ used' = used
    BY <2>3 DEF EditTerms, keyVars
  <2>4. periodEnd' = periodEnd /\ \A q \in Keys : used'[q] = used[q] \/ used'[q] = 0
    BY <1>6, <2>2, <2>3 DEF Edit
  <2> QED
    BY <1>2, <2>1, <2>4
<1> QED
  BY <1>3, <1>4, <1>5, <1>6

\* No request has a row at the start.
LEMMA InitWorks == Init => WInv
<1> SUFFICES ASSUME Init PROVE WInv
  OBVIOUS
<1>1. \A s \in Slots : Work(call[s], resv, host, periodEnd, now)
  BY IdleLight, LightWork DEF Init
<1>2. \A r \in Requests : Row(r, resv[r], host[r].stage)
  <2>1. NoResv.source # "key_quota"
    BY DEF NoResv
  <2> QED
    BY <2>1 DEF Init, Row
<1>3. \A k \in Keys : used[k] = 0
  BY DEF Init
<1> QED
  BY <1>1, <1>2, <1>3, InitSerial DEF WInv, Works

\* With one call per key at a time every step keeps what the calls rely on.
LEMMA StepWorks ==
  ASSUME KeyCalls = 1 PROVE WInv /\ [Next]_vars => WInv'
<1> SUFFICES ASSUME WInv, [Next]_vars PROVE WInv'
  OBVIOUS
<1>1. QInv'
  BY StepSerial DEF WInv
<1>2. ASSUME NEW s \in Slots, Step(s) PROVE Works'
  BY <1>1, <1>2, HoldWorks, ChargeWorks, ReleaseWorks DEF Step
<1>3. ASSUME NEW s \in Slots, Begin(s) PROVE Works'
  BY <1>1, <1>3, BeginWorks DEF Begin
<1> QED
  BY <1>1, <1>2, <1>3, ProcessWorks DEF Next, WInv

\* What PeriodRunsOut says of a step.
TakenStaysTaken ==
  \A k \in Keys : used'[k] < used[k] =>
    \/ periodEnd[k] = 0 \/ now >= periodEnd[k] \/ edits' # edits
    \/ \E s \in InFlight(k) : call[s].pc \in {"settle_refund", "release_refund"}
                              /\ call'[s] # call[s]

\* A counter goes down by a refund, by the switch, or because its period was
\* over when the call looked, and time has not gone back since.
LEMMA LoweredRightly ==
  ASSUME WInv, WInv', [Next]_vars PROVE TakenStaysTaken
<1>0. /\ TypeOK /\ used \in [Keys -> Nat] /\ used' \in [Keys -> Nat]
      /\ \A k \in Keys : used[k] \in Nat
  BY DEF WInv, QInv, BInv, TypeOK
<1>1. CASE used' = used
  BY <1>0, <1>1 DEF TakenStaysTaken
<1>2. ASSUME NEW s \in Slots, HoldPeriod(s) \/ ChargePeriod(s) PROVE TakenStaysTaken
  <2> DEFINE c == call[s]
             k == KeyOf[c.req]
  <2>1. c.pc \in {"hold_period", "charge_period"} /\ c.pc # "idle" /\ ResetPeriod(k, c.at)
    BY <1>2 DEF HoldPeriod, ChargePeriod
  <2>2. /\ k \in Keys /\ c \in Call /\ Work(c, resv, host, periodEnd, now)
        /\ now \in Nat /\ periodEnd \in [Keys -> Nat]
    BY <2>1, Working
  <2>3. c.at <= now /\ periodEnd[k] <= c.at /\ c.at \in Nat /\ periodEnd[k] \in Nat
    BY <2>1, <2>2 DEF Work, Call
  <2>4. \A q \in Keys : q # k => used'[q] = used[q]
    BY <1>0, <2>1, <2>2, <2>3, ResetKeeps
  <2>5. now >= periodEnd[k]
    BY <2>2, <2>3
  <2> QED
    BY <1>0, <2>4, <2>5 DEF TakenStaysTaken
<1>3. ASSUME NEW s \in Slots, HoldQuota(s) \/ ChargeQuota(s) PROVE TakenStaysTaken
  <2> DEFINE c == call[s]
             k == KeyOf[c.req]
  <2>1. c.pc # "idle" /\ ConsumeQuota(k, c.amt)
    BY <1>3 DEF HoldQuota, ChargeQuota
  <2>2. k \in Keys /\ c.amt \in Nat
    BY <2>1, Working DEF Call
  <2>3. /\ \A q \in Keys : q # k => used'[q] = used[q]
        /\ used'[k] \in {used[k], used[k] + c.amt}
    BY <1>0, <2>1, <2>2, ConsumeKeeps
  <2>4. \A q \in Keys : used'[q] >= used[q]
    BY <1>0, <2>2, <2>3
  <2> QED
    BY <1>0, <2>4 DEF TakenStaysTaken
<1>4. ASSUME NEW s \in Slots, SettleRefund(s) \/ ReleaseRefund(s) PROVE TakenStaysTaken
  <2> DEFINE c == call[s]
             k == KeyOf[c.req]
  <2>1. /\ c.pc \in {"settle_refund", "release_refund"} /\ c.pc \in RefundPcs
        /\ c.pc # "idle" /\ c.pc \notin {"settle_mark", "release_mark"}
    BY <1>4 DEF SettleRefund, ReleaseRefund, RefundPcs, ReleasePcs
  <2>2. /\ BInv /\ k \in Keys /\ c \in Call /\ c.res \in Requests /\ KeyOf[c.res] = k
        /\ Fine(c, used) /\ call \in [Slots -> ProperCall]
    BY <2>1, Working DEF TypeOK
  <2>3. c.amt \in Nat /\ Actual(c) \in Nat
    BY <2>2, ActualNat DEF Call
  <2>4. \E n \in Nat : \E tag : Refund(c.res, n, tag)
    <3>1. CASE SettleRefund(s)
      <4>1. c.amt - Actual(c) \in Nat
        BY <2>2, <2>3, <3>1 DEF SettleRefund, Fine
      <4> QED
        BY <3>1, <4>1 DEF SettleRefund
    <3>2. CASE ReleaseRefund(s)
      BY <2>3, <3>2 DEF ReleaseRefund
    <3> QED
      BY <1>4, <3>1, <3>2
  <2>5. \A q \in Keys : q # k => used'[q] = used[q]
    BY <2>2, <2>4, RefundOwn
  <2>6. call'[s] # c
    <3>1. call'[s].pc \in {"settle_mark", "release_mark"}
      BY <1>4, <2>2 DEF SettleRefund, ReleaseRefund, Set, Call
    <3> QED
      BY <2>1, <3>1
  <2>7. s \in InFlight(k)
    BY <2>1 DEF InFlight
  <2> QED
    BY <1>0, <2>1, <2>5, <2>6, <2>7 DEF TakenStaysTaken
<1>5. CASE Edit
  <2>1. edits \in Int /\ edits' = edits + 1
    BY <1>5 DEF WInv, QInv, BInv, TypeOK, Edit
  <2>2. edits' # edits
    BY <2>1
  <2> QED
    BY <2>2 DEF TakenStaysTaken
<1>6. ASSUME NEW s \in Slots, Step(s) PROVE TakenStaysTaken
  <2>1. CASE \/ HoldCheck(s) \/ HoldDebit(s) \/ HoldInsert(s) \/ ChargeCount(s)
             \/ ChargeOwn(s) \/ SettlePick(s) \/ SettleMark(s) \/ ExtraCheck(s)
             \/ ExtraDebit(s) \/ OverCheck(s) \/ OverDebit(s) \/ Record(s)
             \/ ReleaseMark(s)
    <3>1. UNCHANGED keyVars
      BY <2>1 DEF HoldCheck, HoldDebit, HoldInsert, ChargeCount, ChargeOwn, SettlePick,
         SettleMark, ExtraCheck, ExtraDebit, OverCheck, OverDebit, Record, ReleaseMark,
         DebitOwner
    <3> QED
      BY <1>1, <3>1 DEF keyVars
  <2> QED
    BY <1>2, <1>3, <1>4, <1>6, <2>1 DEF Step
<1>7. ASSUME NEW s \in Slots, Begin(s) PROVE TakenStaysTaken
  BY <1>1, <1>7
     DEF Begin, HoldBegin, ChargeBegin, CompleteFailed, BootRelease, keyVars
<1>8. CASE \/ \E r \in Requests : CompleteSucceeded(r)
           \/ Crash \/ Boot \/ BootDone \/ Tick \/ UNCHANGED vars
  BY <1>1, <1>8 DEF CompleteSucceeded, Crash, Boot, BootDone, Tick, vars, keyVars
<1> QED
  BY <1>5, <1>6, <1>7, <1>8 DEF Next

\* What was taken from a running period stays taken, crashes included: the
\* counter of a key goes down only by a refund, by the administrator's switch,
\* or when its period is over (EnsurePeriod, Settle, Release, mgmtSwitchQuota).
\* With two calls of a key at once it is false: two calls that both found the
\* period over reset it one after the other, the second one too late.
THEOREM SerialPeriodRunsOut ==
  ASSUME KeyCalls = 1 PROVE Spec => PeriodRunsOut
<1>1. WInv /\ [Next]_vars => WInv' /\ [TakenStaysTaken]_vars
  BY StepWorks, LoweredRightly
<1> QED
  BY <1>1, InitWorks, PTL DEF Spec, PeriodRunsOut, TakenStaysTaken

-----------------------------------------------------------------------------
(***************************************************************************)
(* Hold, Settle and Release implement QuotaAccount.  With one call per key *)
(* at a time, what the account sees of a request depends on its row and on *)
(* the one call that works on its key.                                     *)
(***************************************************************************)

RowState(row) == IF row.source # "key_quota" THEN "none"
                 ELSE IF row.status = "open" THEN "open" ELSE "closed"
RowHeld(row)  == IF RowState(row) = "open" THEN row.hold ELSE 0

\* The hold of r is in the counter and not yet in the table.
Taking(r, c) ==
  c.req = r /\ c.pc = "hold_insert" /\ c.src = "key_quota" /\ c.amt > 0

\* What c has given back of the row of r.
Back(r, c, row) ==
  IF c.pc = "settle_mark" /\ c.res = r THEN Larger(0, c.amt - Actual(c))
  ELSE IF c.pc = "release_mark" /\ c.res = r THEN row.hold ELSE 0

ViewState(r, c, row) == IF Taking(r, c) THEN "open" ELSE RowState(row)
ViewHeld(r, c, row)  ==
  IF Taking(r, c) THEN c.amt
  ELSE IF RowState(row) = "open" THEN row.hold - Back(r, c, row) ELSE 0

\* The account's view of a request, given the slot that may work on its key.
LEMMA Views ==
  WInv => \A s \in Slots, r \in Requests : Alone(s, KeyOf[r]) =>
            /\ QuotaState(r) = ViewState(r, call[s], resv[r])
            /\ QuotaHeld(r) = ViewHeld(r, call[s], resv[r])
<1> SUFFICES ASSUME WInv, NEW s \in Slots, NEW r \in Requests, Alone(s, KeyOf[r])
             PROVE  /\ QuotaState(r) = ViewState(r, call[s], resv[r])
                    /\ QuotaHeld(r) = ViewHeld(r, call[s], resv[r])
  OBVIOUS
<1> DEFINE c == call[s]
           at(pc) == {t \in Slots : call[t].res = r /\ call[t].pc = pc}
<1>1. ASSUME NEW t \in Slots, t # s
      PROVE  /\ call[t].pc = "hold_insert" => call[t].req # r
             /\ call[t].pc \in {"settle_mark", "release_mark"} => call[t].res # r
  <2>1. CASE call[t].pc = "idle"
    BY <2>1
  <2>2. CASE call[t].pc # "idle"
    <3>1. KeyOf[call[t].req] # KeyOf[r]
      BY <1>1, <2>2 DEF Alone
    <3>2. call[t].pc \in RefundPcs => KeyOf[call[t].res] = KeyOf[call[t].req]
      BY <2>2, Working
    <3> QED
      BY <3>1, <3>2 DEF RefundPcs, ReleasePcs
  <2> QED
    BY <2>1, <2>2
<1>2. Reserving(r) = IF Taking(r, c) THEN {s} ELSE {}
  BY <1>1 DEF Reserving, Taking
<1>3. \A pc \in {"settle_mark", "release_mark"} :
        at(pc) = IF c.res = r /\ c.pc = pc THEN {s} ELSE {}
  BY <1>1
<1>4. \A x : (CHOOSE y \in {x} : TRUE) = x
  OBVIOUS
<1>5. QuotaState(r) = ViewState(r, c, resv[r])
  <2>1. CASE Taking(r, c)
    BY <1>2, <2>1 DEF QuotaState, ViewState
  <2>2. CASE ~Taking(r, c)
    <3>1. Reserving(r) = {}
      BY <1>2, <2>2
    <3> QED
      BY <2>2, <3>1 DEF QuotaState, ViewState, RowState
  <2> QED
    BY <2>1, <2>2
<1>6. Returned(r) = Back(r, c, resv[r])
  <2>1. Returned(r) =
          CASE at("settle_mark") # {} ->
                 LET e == call[CHOOSE t \in at("settle_mark") : TRUE]
                 IN Larger(0, e.amt - Actual(e))
            [] at("release_mark") # {} -> resv[r].hold
            [] OTHER -> 0
    BY DEF Returned
  <2> HIDE DEF at
  <2>2. CASE c.pc = "settle_mark" /\ c.res = r
    <3>1. at("settle_mark") = {s} /\ (CHOOSE t \in {s} : TRUE) = s /\ at("release_mark") = {}
      BY <1>3, <1>4, <2>2
    <3> QED
      BY <2>1, <2>2, <3>1 DEF Back
  <2>3. CASE c.pc = "release_mark" /\ c.res = r
    <3>1. at("settle_mark") = {} /\ at("release_mark") = {s}
      BY <1>3, <2>3
    <3> QED
      BY <2>1, <2>3, <3>1 DEF Back
  <2>4. CASE c.res # r \/ c.pc \notin {"settle_mark", "release_mark"}
    <3>1. at("settle_mark") = {} /\ at("release_mark") = {}
      BY <1>3, <2>4
    <3> QED
      BY <2>1, <2>4, <3>1 DEF Back
  <2> QED
    BY <2>2, <2>3, <2>4
<1>7. QuotaHeld(r) = ViewHeld(r, c, resv[r])
  <2>1. CASE Taking(r, c)
    <3>1. Reserving(r) = {s} /\ (CHOOSE t \in {s} : TRUE) = s
      BY <1>2, <1>4, <2>1
    <3> QED
      BY <2>1, <3>1 DEF QuotaHeld, ViewHeld
  <2>2. CASE ~Taking(r, c)
    <3>1. Reserving(r) = {} /\ QuotaState(r) = RowState(resv[r])
      BY <1>2, <1>5, <2>2 DEF ViewState
    <3> QED
      BY <1>6, <2>2, <3>1 DEF QuotaHeld, ViewHeld
  <2> QED
    BY <2>1, <2>2
<1> QED
  BY <1>5, <1>7

\* The same after a step.
LEMMA ViewsNext ==
  WInv' => (\A s \in Slots, r \in Requests : Alone(s, KeyOf[r]) =>
              /\ QuotaState(r) = ViewState(r, call[s], resv[r])
              /\ QuotaHeld(r) = ViewHeld(r, call[s], resv[r]))'
  BY Views, PTL

\* When slot s moves on alone on key k, the account sees nothing of the requests
\* of other keys move, and of those of k what the call and the row say.
LEMMA KeyViews ==
  ASSUME WInv, WInv', NEW s \in Slots, NEW k \in Keys, Alone(s, k), NEW d, Set(s, d),
         call[s].pc # "idle" => KeyOf[call[s].req] = k,
         d.pc # "idle" => KeyOf[d.req] = k,
         \A r \in Requests : KeyOf[r] # k => resv'[r] = resv[r]
  PROVE  \A r \in Requests :
           /\ KeyOf[r] # k => /\ QuotaState(r)' = QuotaState(r)
                              /\ QuotaHeld(r)' = QuotaHeld(r)
           /\ KeyOf[r] = k => /\ QuotaState(r) = ViewState(r, call[s], resv[r])
                              /\ QuotaHeld(r) = ViewHeld(r, call[s], resv[r])
                              /\ QuotaState(r)' = ViewState(r, d, resv'[r])
                              /\ QuotaHeld(r)' = ViewHeld(r, d, resv'[r])
<1>1. /\ call \in [Slots -> ProperCall] /\ call' = [call EXCEPT ![s] = d]
      /\ d \in ProperCall
  BY DEF WInv, QInv, BInv, TypeOK, Set
<1>2. call'[s] = d /\ \A t \in Slots \ {s} : call'[t] = call[t]
  BY <1>1
<1>3. \A t \in Slots, r \in Requests : Alone(t, KeyOf[r]) =>
        /\ QuotaState(r) = ViewState(r, call[t], resv[r])
        /\ QuotaHeld(r) = ViewHeld(r, call[t], resv[r])
  BY Views
<1>4. \A t \in Slots, r \in Requests : Alone(t, KeyOf[r])' =>
        /\ QuotaState(r)' = ViewState(r, call'[t], resv'[r])
        /\ QuotaHeld(r)' = ViewHeld(r, call'[t], resv'[r])
  BY ViewsNext
<1>5. ASSUME NEW r \in Requests, KeyOf[r] = k
      PROVE  Alone(s, KeyOf[r]) /\ Alone(s, KeyOf[r])'
  BY <1>2, <1>5 DEF Alone
<1>6. ASSUME NEW r \in Requests, KeyOf[r] # k
      PROVE  QuotaState(r)' = QuotaState(r) /\ QuotaHeld(r)' = QuotaHeld(r)
  <2>1. CASE \E t \in Slots \ {s} : call[t].pc # "idle" /\ KeyOf[call[t].req] = KeyOf[r]
    <3>1. PICK t \in Slots \ {s} : call[t].pc # "idle" /\ KeyOf[call[t].req] = KeyOf[r]
      BY <2>1
    <3>2. Alone(t, KeyOf[r])
      BY <3>1 DEF WInv, QInv, Serial
    <3>3. Alone(t, KeyOf[r])'
      BY <1>2, <1>6, <3>2 DEF Alone
    <3>4. call'[t] = call[t] /\ resv'[r] = resv[r]
      BY <1>2, <1>6, <3>1
    <3> QED
      BY <1>3, <1>4, <3>1, <3>2, <3>3, <3>4
  <2>2. CASE \A t \in Slots \ {s} : call[t].pc # "idle" => KeyOf[call[t].req] # KeyOf[r]
    <3>1. Alone(s, KeyOf[r]) /\ Alone(s, KeyOf[r])'
      BY <1>2, <2>2 DEF Alone
    <3>2. ASSUME NEW c \in ProperCall, c.pc # "idle" => KeyOf[c.req] = k,
                 c.pc \in RefundPcs => KeyOf[c.res] = KeyOf[c.req], NEW row
          PROVE  /\ ViewState(r, c, row) = RowState(row)
                 /\ ViewHeld(r, c, row) = IF RowState(row) = "open" THEN row.hold - 0 ELSE 0
      BY <1>6, <3>2
         DEF ViewState, ViewHeld, Taking, Back, RefundPcs, ReleasePcs
    <3>3. /\ call[s] \in ProperCall
          /\ call[s].pc \in RefundPcs => KeyOf[call[s].res] = KeyOf[call[s].req]
          /\ d.pc \in RefundPcs => KeyOf[d.res] = KeyOf[d.req]
      <4>1. Work(call[s], resv, host, periodEnd, now)
        BY DEF WInv, Works
      <4>2. Work(d, resv', host', periodEnd', now')
        BY <1>2 DEF WInv, Works
      <4> QED
        BY <1>1, <4>1, <4>2 DEF Work, RefundPcs
    <3>4. resv'[r] = resv[r]
      BY <1>6
    <3>5. /\ QuotaState(r) = RowState(resv[r])
          /\ QuotaHeld(r) = IF RowState(resv[r]) = "open" THEN resv[r].hold - 0 ELSE 0
      BY <1>3, <3>1, <3>2, <3>3
    <3>6. /\ QuotaState(r)' = RowState(resv'[r])
          /\ QuotaHeld(r)' = IF RowState(resv'[r]) = "open" THEN resv'[r].hold - 0 ELSE 0
      BY <1>1, <1>2, <1>4, <3>1, <3>2, <3>3
    <3> QED
      BY <3>4, <3>5, <3>6
  <2> QED
    BY <2>1, <2>2
<1> QED
  BY <1>2, <1>3, <1>4, <1>5, <1>6

-----------------------------------------------------------------------------
(* The steps of the account.                                               *)

\* What the account does when slot s works on key k.
AccountStep == [Account!Next]_(Account!vars)

SameView(r) == QuotaState(r)' = QuotaState(r) /\ QuotaHeld(r)' = QuotaHeld(r)

\* Nothing the account sees has changed.
LEMMA ByStutter ==
  ASSUME used' = used, \A r \in Requests : SameView(r)
  PROVE  AccountStep
  BY DEF AccountStep, SameView, Account!vars

\* One counter starts again.
LEMMA ByRestart ==
  ASSUME NEW k \in Keys, used' = [used EXCEPT ![k] = 0], \A r \in Requests : SameView(r)
  PROVE  AccountStep
<1>1. Account!Restart(k)
  BY DEF SameView, Account!Restart
<1> QED
  BY <1>1 DEF AccountStep, Account!Next

\* A limited key's counter goes up within what was sold.
LEMMA BySpend ==
  ASSUME NEW k \in Keys, NEW n \in Nat, used \in [Keys -> Nat],
         used[k] + n <= Plan[k].amount,
         used' = [used EXCEPT ![k] = @ + n], \A r \in Requests : SameView(r)
  PROVE  AccountStep
<1>1. n \in 0..Plan[k].amount
  <2>1. used[k] \in Nat /\ Plan[k].amount \in Nat
    OBVIOUS
  <2> QED
    BY <2>1
<1>2. Account!Spend(k, n)
  BY DEF SameView, Account!Spend, Account!Within
<1>3. n \in 0..[q \in Keys |-> Plan[q].amount][k]
  BY <1>1
<1> QED
  BY <1>2, <1>3 DEF AccountStep, Account!Next

\* An amount is reserved for a request that had nothing.
LEMMA ByReserve ==
  ASSUME NEW r0 \in Requests, NEW n \in Nat, used \in [Keys -> Nat],
         used[KeyOf[r0]] + n <= Plan[KeyOf[r0]].amount,
         used' = [used EXCEPT ![KeyOf[r0]] = @ + n],
         QuotaState(r0) = "none", QuotaState(r0)' = "open", QuotaHeld(r0)' = n,
         \A r \in Requests : r # r0 => SameView(r)
  PROVE  AccountStep
<1> DEFINE k == KeyOf[r0]
<1>1. k \in Keys /\ used[k] \in Nat /\ Plan[k].amount \in Nat
  BY PlanOf
<1>2. n \in 0..[q \in Keys |-> Plan[q].amount][k]
  BY <1>1
<1>3. Account!Reserve(r0, n)
  BY <1>1 DEF SameView, Account!Reserve, Account!Within
<1> QED
  BY <1>2, <1>3 DEF AccountStep, Account!Next

\* Part of what a reservation holds is given back.
LEMMA ByReturn ==
  ASSUME NEW r0 \in Requests, NEW n \in Nat, NEW h \in Nat, n <= h,
         h <= Plan[KeyOf[r0]].amount, used \in [Keys -> Nat],
         used' = [used EXCEPT ![KeyOf[r0]] = IF @ >= n THEN @ - n ELSE @],
         QuotaState(r0) = "open", QuotaHeld(r0) = h,
         QuotaState(r0)' = "open", QuotaHeld(r0)' = h - n,
         \A r \in Requests : r # r0 => SameView(r)
  PROVE  AccountStep
<1> DEFINE k == KeyOf[r0]
<1>1. k \in Keys /\ used[k] \in Nat /\ Plan[k].amount \in Nat
  BY PlanOf
<1>2. n \in 0..[q \in Keys |-> Plan[q].amount][k]
  BY <1>1
<1>3. Account!Return(r0, n)
  BY <1>1 DEF SameView, Account!Return
<1> QED
  BY <1>2, <1>3 DEF AccountStep, Account!Next

\* A reservation is closed and keeps the rest.
LEMMA ByClose ==
  ASSUME NEW r0 \in Requests, used' = used, QuotaState(r0) = "open",
         QuotaState(r0)' = "closed", QuotaHeld(r0)' = 0,
         \A r \in Requests : r # r0 => SameView(r)
  PROVE  AccountStep
<1>1. Account!Close(r0)
  BY DEF SameView, Account!Close
<1> QED
  BY <1>1 DEF AccountStep, Account!Next

-----------------------------------------------------------------------------

\* A call that has neither taken a hold nor given one back.
Bare(c) ==
  /\ c.pc = "hold_insert" => c.src # "key_quota" \/ c.amt = 0
  /\ c.pc = "settle_mark" => c.amt <= Actual(c)
  /\ c.pc # "release_mark"

\* Then the account sees the row.
LEMMA BareView ==
  ASSUME NEW r, NEW c \in Call, Bare(c), NEW row \in ResvRow
  PROVE  ViewState(r, c, row) = RowState(row) /\ ViewHeld(r, c, row) = RowHeld(row)
<1>1. c.amt \in Nat /\ Actual(c) \in Nat /\ row.hold \in Nat
  BY ActualNat DEF Call, ResvRow
<1>2. ~Taking(r, c)
  BY <1>1 DEF Bare, Taking
<1>3. Back(r, c, row) = 0
  <2>1. \A m, n \in Nat : m <= n => Larger(0, m - n) = 0
    BY DEF Larger
  <2>2. c.pc = "settle_mark" => Larger(0, c.amt - Actual(c)) = 0
    BY <1>1, <2>1 DEF Bare
  <2> QED
    BY <2>2 DEF Bare, Back
<1> QED
  BY <1>1, <1>2, <1>3 DEF ViewState, ViewHeld, RowHeld

\* The row is all there is to see for a request the call is not about.
LEMMA AsideView ==
  ASSUME NEW r, NEW c, c.pc = "hold_insert" => c.req # r,
         c.pc \in {"settle_mark", "release_mark"} => c.res # r, NEW row \in ResvRow
  PROVE  ViewState(r, c, row) = RowState(row) /\ ViewHeld(r, c, row) = RowHeld(row)
<1>1. ~Taking(r, c) /\ Back(r, c, row) = 0 /\ row.hold \in Nat
  BY DEF Taking, Back, ResvRow
<1> QED
  BY <1>1 DEF ViewState, ViewHeld, RowHeld

\* A statement before and after which the account sees the rows, and which
\* writes none of them.
LEMMA BareStep ==
  ASSUME WInv, WInv', NEW s \in Slots, NEW k \in Keys, Alone(s, k), NEW d, Set(s, d),
         call[s].pc # "idle" => KeyOf[call[s].req] = k,
         d.pc # "idle" => KeyOf[d.req] = k,
         Bare(call[s]), Bare(d), resv' = resv
  PROVE  \A r \in Requests : SameView(r)
<1>1. call[s] \in Call /\ d \in Call /\ \A r \in Requests : resv[r] \in ResvRow
  BY DEF WInv, QInv, BInv, TypeOK, Set, ProperCall
<1>2. \A r \in Requests :
        /\ KeyOf[r] # k => /\ QuotaState(r)' = QuotaState(r)
                           /\ QuotaHeld(r)' = QuotaHeld(r)
        /\ KeyOf[r] = k => /\ QuotaState(r) = ViewState(r, call[s], resv[r])
                           /\ QuotaHeld(r) = ViewHeld(r, call[s], resv[r])
                           /\ QuotaState(r)' = ViewState(r, d, resv'[r])
                           /\ QuotaHeld(r)' = ViewHeld(r, d, resv'[r])
  BY KeyViews
<1> QED
  BY <1>1, <1>2, BareView DEF SameView

\* The routes of Hold and Charge leave a bare call, unless Hold reserves.
LEMMA RoutesBare ==
  ASSUME NEW c \in Call, c.req \in Requests
  PROVE  /\ c.amt = 0 => Bare(HoldRoute(c))
         /\ Bare(ChargeRoute(c)) /\ Bare(AfterSettle(c))
         /\ ChargeRoute(c).req = c.req /\ AfterSettle(c).req = c.req
         /\ HoldRoute(c).pc # "idle" => HoldRoute(c).req = c.req
<1> DEFINE k   == KeyOf[c.req]
           amt == CappedHold(Plan[k].kind, QuotaRemaining(k, c.used))
<1>1. k \in Keys /\ c.used \in Nat /\ c.amt \in Nat /\ Plan[k].amount \in Nat
      /\ Plan[k].kind \in Kinds
  BY PlanOf DEF Call
<1>2. ChargeRoute(c).pc \in {"record", "charge_quota", "over_check"}
      /\ ChargeRoute(c).req = c.req
  BY DEF ChargeRoute, Call
<1>3. AfterSettle(c).pc \in {"record", "charge_quota", "over_check", "extra_check"}
      /\ AfterSettle(c).req = c.req
  BY <1>2 DEF AfterSettle, Call
<1>4. HoldRoute(c).pc # "idle" => HoldRoute(c).req = c.req
  BY DEF HoldRoute, Idle, Call
<1>5. ASSUME c.amt = 0 PROVE Bare(HoldRoute(c))
  <2>1. CASE Plan[k].kind = "unlimited"
    <3>1. HoldRoute(c) = [[c EXCEPT !.src = "key_quota"] EXCEPT !.pc = "hold_insert"]
      BY <2>1 DEF HoldRoute, HasQuota
    <3> QED
      BY <1>5, <3>1 DEF Bare, Call
  <2>2. CASE Plan[k].kind # "unlimited" /\ HasQuota(k, c.used)
    <3>1. amt \in Nat
      <4>1. QuotaRemaining(k, c.used) \in Nat
        BY <1>1, <2>2 DEF HasQuota, QuotaRemaining
      <4> QED
        BY <1>1, <4>1, CappedHoldNat
    <3>2. HoldRoute(c) = [c EXCEPT !.src = "key_quota",
              !.pc = IF amt > 0 THEN "hold_quota" ELSE "hold_insert", !.amt = amt]
      BY <2>2 DEF HoldRoute
    <3> HIDE DEF amt
    <3> QED
      BY <3>1, <3>2 DEF Bare, Call
  <2>3. CASE ~HasQuota(k, c.used)
    <3>1. HoldRoute(c).pc \in {"hold_check", "idle"}
      BY <2>3 DEF HoldRoute, HasQuota, Idle, Call
    <3> QED
      BY <3>1 DEF Bare
  <2> QED
    BY <2>1, <2>2, <2>3 DEF HasQuota
<1> QED
  BY <1>2, <1>3, <1>4, <1>5 DEF Bare

-----------------------------------------------------------------------------
(* What the statements of the calls are to the account.                    *)

\* Hold reserves when it consumes the quota; its INSERT catches up, or opens the
\* reservation of nothing that an unlimited or exhausted quota gives.
LEMMA HoldAccount ==
  ASSUME WInv, WInv', NEW s \in Slots,
         \/ HoldPeriod(s) \/ HoldQuota(s) \/ HoldCheck(s)
         \/ HoldDebit(s) \/ HoldInsert(s)
  PROVE  AccountStep
<1> DEFINE c == call[s]
           k == KeyOf[c.req]
<1>0. c.pc \in HoldPcs /\ c.pc # "idle"
  BY DEF HoldPeriod, HoldQuota, HoldCheck, HoldDebit, HoldInsert, HoldPcs
<1>1. /\ BInv /\ TypeOK /\ Serial /\ Works /\ Alone(s, k)
      /\ c \in Call /\ c.req \in Requests /\ k \in Keys
      /\ Fine(c, used) /\ Work(c, resv, host, periodEnd, now)
      /\ \A r \in Requests : resv[r] \in ResvRow
      /\ used \in [Keys -> Nat]
  BY <1>0, Working
<1>r. PICK r0 \in Requests : r0 = c.req
  BY <1>1
<1>2. resv[r0] = NoResv /\ RowState(NoResv) = "none" /\ RowHeld(NoResv) = 0
  BY <1>r, <1>0, <1>1 DEF Work, NoResv, RowState, RowHeld
<1>3. CASE HoldPeriod(s)
  <2> DEFINE d == [c EXCEPT !.used = 0, !.at = 0]
  <2>1. c.pc = "hold_period" /\ c.amt = 0
    BY <1>r, <1>1, <1>3 DEF HoldPeriod, Work
  <2>2. d \in Call /\ d.req = r0 /\ d.amt = 0
    BY <1>r, <1>1, <2>1 DEF Call
  <2>3. /\ Set(s, HoldRoute(d)) /\ resv' = resv /\ used' = [used EXCEPT ![k] = 0]
    BY <1>3 DEF HoldPeriod, ResetPeriod
  <2> HIDE DEF d
  <2>4. Bare(HoldRoute(d)) /\ (HoldRoute(d).pc # "idle" => HoldRoute(d).req = r0)
    BY <1>r, <1>1, <2>2, RoutesBare
  <2>5. Bare(c)
    BY <2>1 DEF Bare
  <2>6. \A r \in Requests : SameView(r)
    BY <1>r, <1>1, <2>3, <2>4, <2>5, BareStep
  <2> QED
    BY <1>r, <1>1, <2>3, <2>6, ByRestart
<1>4. CASE HoldQuota(s)
  <2> DEFINE d == [c EXCEPT !.pc = "hold_insert"]
  <2>1. /\ c.pc = "hold_quota" /\ c.src = "key_quota" /\ c.amt > 0
        /\ c.amt \in Nat /\ c.used \in Nat /\ used[k] \in Nat /\ Plan[k].amount \in Nat
        /\ used[k] <= c.used /\ c.used + c.amt <= Plan[k].amount
    BY <1>r, <1>1, <1>4, PlanOf DEF HoldQuota, Work, Call, Fine, FreshPcs, Fits
  <2>2. used' = [used EXCEPT ![k] = @ + c.amt] /\ used[k] + c.amt <= Plan[k].amount
    BY <1>4, <2>1 DEF HoldQuota, ConsumeQuota
  <2>3. d.pc = "hold_insert" /\ d.req = r0 /\ d.src = "key_quota" /\ d.amt = c.amt
    BY <1>r, <1>1, <2>1 DEF Call
  <2>4. Set(s, d) /\ resv' = resv
    BY <1>4 DEF HoldQuota
  <2> HIDE DEF d
  <2>5. \A r \in Requests :
          /\ KeyOf[r] # k => QuotaState(r)' = QuotaState(r) /\ QuotaHeld(r)' = QuotaHeld(r)
          /\ KeyOf[r] = k => /\ QuotaState(r) = ViewState(r, c, resv[r])
                             /\ QuotaHeld(r) = ViewHeld(r, c, resv[r])
                             /\ QuotaState(r)' = ViewState(r, d, resv'[r])
                             /\ QuotaHeld(r)' = ViewHeld(r, d, resv'[r])
    BY <1>r, <1>1, <2>3, <2>4, KeyViews
  <2>6. ASSUME NEW r \in Requests, r # r0 PROVE SameView(r)
    <3>1. /\ ViewState(r, c, resv[r]) = RowState(resv[r])
          /\ ViewHeld(r, c, resv[r]) = RowHeld(resv[r])
          /\ ViewState(r, d, resv[r]) = RowState(resv[r])
          /\ ViewHeld(r, d, resv[r]) = RowHeld(resv[r])
      BY <1>r, <1>1, <2>1, <2>3, <2>6, AsideView
    <3> QED
      BY <2>4, <2>5, <3>1 DEF SameView
  <2>7. QuotaState(r0) = "none"
    <3>1. ViewState(r0, c, resv[r0]) = "none"
      BY <1>r, <1>1, <1>2, <2>1, AsideView
    <3> QED
      BY <1>r, <1>1, <2>5, <3>1
  <2>8. QuotaState(r0)' = "open" /\ QuotaHeld(r0)' = c.amt
    BY <1>r, <1>1, <2>1, <2>3, <2>5 DEF ViewState, ViewHeld, Taking
  <2> QED
    BY <1>r, <1>1, <2>1, <2>2, <2>6, <2>7, <2>8, ByReserve
<1>5. CASE HoldCheck(s) \/ HoldDebit(s)
  <2>1. /\ c.pc \in {"hold_check", "hold_debit"} /\ c.src = "wallet"
        /\ resv' = resv /\ used' = used
    BY <1>r, <1>1, <1>5 DEF HoldCheck, HoldDebit, Work, keyVars
  <2>2. \A pc \in {"hold_debit", "hold_insert"} :
          LET d == [c EXCEPT !.pc = pc] IN d.req = r0 /\ Bare(d)
    BY <1>r, <1>1, <2>1 DEF Call, Bare
  <2>3. Set(s, Idle) \/ \E pc \in {"hold_debit", "hold_insert"} : Set(s, [c EXCEPT !.pc = pc])
    BY <1>5 DEF HoldCheck, HoldDebit
  <2>4. Bare(c) /\ Bare(Idle) /\ Idle.pc = "idle"
    BY <2>1 DEF Bare, Idle
  <2>5. \A r \in Requests : SameView(r)
    BY <1>r, <1>1, <2>1, <2>2, <2>3, <2>4, BareStep
  <2> QED
    BY <2>1, <2>5, ByStutter
<1>6. CASE HoldInsert(s)
  <2> DEFINE row == [status |-> "open", hold |-> c.amt, source |-> c.src, at |-> now]
  <2>1. /\ c.pc = "hold_insert" /\ c.src \in {"wallet", "key_quota"} /\ c.amt \in Nat
        /\ used' = used /\ resv' = [resv EXCEPT ![r0] = row] /\ Set(s, Idle)
    BY <1>r, <1>1, <1>6 DEF HoldInsert, Work, keyVars, Call
  <2>2. /\ RowState(row) = IF c.src = "key_quota" THEN "open" ELSE "none"
        /\ RowHeld(row) = IF c.src = "key_quota" THEN c.amt ELSE 0
    BY <2>1 DEF RowState, RowHeld
  <2> HIDE DEF row
  <2>3. resv'[r0] = row /\ \A r \in Requests : r # r0 => resv'[r] = resv[r]
    BY <1>r, <1>1, <2>1 DEF TypeOK
  <2>4. Idle.pc = "idle" /\ \A r \in Requests : resv'[r] \in ResvRow
    BY DEF Idle, WInv, QInv, BInv, TypeOK
  <2>5. \A r \in Requests :
          /\ KeyOf[r] # k => QuotaState(r)' = QuotaState(r) /\ QuotaHeld(r)' = QuotaHeld(r)
          /\ KeyOf[r] = k => /\ QuotaState(r) = ViewState(r, c, resv[r])
                             /\ QuotaHeld(r) = ViewHeld(r, c, resv[r])
                             /\ QuotaState(r)' = ViewState(r, Idle, resv'[r])
                             /\ QuotaHeld(r)' = ViewHeld(r, Idle, resv'[r])
    <3>1. \A r \in Requests : KeyOf[r] # k => resv'[r] = resv[r]
      BY <1>r, <2>3
    <3> QED
      BY <1>r, <1>1, <2>1, <2>4, <3>1, KeyViews
  <2>6. ASSUME NEW r \in Requests
        PROVE  /\ ViewState(r, Idle, resv'[r]) = RowState(resv'[r])
               /\ ViewHeld(r, Idle, resv'[r]) = RowHeld(resv'[r])
    BY <2>4, AsideView
  <2>7. ASSUME NEW r \in Requests, r # r0 PROVE SameView(r)
    <3>1. /\ ViewState(r, c, resv[r]) = RowState(resv[r])
          /\ ViewHeld(r, c, resv[r]) = RowHeld(resv[r])
      BY <1>r, <1>1, <2>1, <2>7, AsideView
    <3> QED
      BY <2>3, <2>5, <2>6, <2>7, <3>1 DEF SameView
  <2>8. /\ QuotaState(r0) = ViewState(r0, c, NoResv) /\ QuotaHeld(r0) = ViewHeld(r0, c, NoResv)
        /\ QuotaState(r0)' = RowState(row) /\ QuotaHeld(r0)' = RowHeld(row)
    BY <1>r, <1>1, <1>2, <2>3, <2>5, <2>6
  <2>9. CASE c.src = "key_quota" /\ c.amt > 0
    <3>1. SameView(r0)
      BY <1>r, <2>1, <2>2, <2>8, <2>9 DEF SameView, ViewState, ViewHeld, Taking
    <3> QED
      BY <2>1, <2>7, <3>1, ByStutter
  <2>10. CASE c.src = "wallet"
    <3>1. SameView(r0)
      BY <1>2, <2>1, <2>2, <2>8, <2>10
         DEF SameView, ViewState, ViewHeld, Taking, NoResv, RowState
    <3> QED
      BY <2>1, <2>7, <3>1, ByStutter
  <2>11. CASE c.src = "key_quota" /\ c.amt = 0
    <3>1. QuotaState(r0) = "none"
      BY <1>2, <2>8, <2>11 DEF ViewState, Taking
    <3>2. QuotaState(r0)' = "open" /\ QuotaHeld(r0)' = 0
      BY <2>2, <2>8, <2>11
    <3>3. used[k] + 0 <= Plan[k].amount
      <4>1. used[k] \in Nat /\ Plan[k].amount \in Nat
        BY <1>r, <1>1, PlanOf
      <4>2. used[k] <= Plan[k].amount
        BY <1>r, <1>1, <4>1 DEF Works, Serial, NeverOversold
      <4> QED
        BY <4>1, <4>2
    <3>4. /\ used' = [used EXCEPT ![KeyOf[r0]] = @ + 0] /\ used \in [Keys -> Nat]
          /\ used[KeyOf[r0]] + 0 <= Plan[KeyOf[r0]].amount /\ 0 \in Nat
      BY <1>r, <1>1, <2>1, <3>3
    <3> QED
      BY <2>7, <3>1, <3>2, <3>4, ByReserve
  <2> QED
    BY <2>1, <2>9, <2>10, <2>11
<1> QED
  BY <1>3, <1>4, <1>5, <1>6

\* A refund to the quota lowers the counter as far as the CHECK lets it; one to
\* the wallet leaves it.
LEMMA RefundMoves ==
  ASSUME TypeOK, NEW r \in Requests, NEW n \in Nat, NEW tag, Refund(r, n, tag)
  PROVE  used' = [used EXCEPT ![KeyOf[r]] =
                    IF resv[r].source = "key_quota" /\ @ >= n THEN @ - n ELSE @]
<1> DEFINE k == KeyOf[r]
<1>1. k \in Keys /\ used \in [Keys -> Nat] /\ used[k] \in Nat
      /\ used[k] + (-n) = used[k] - n
  BY PlanOf DEF TypeOK
<1>2. CASE resv[r].source # "key_quota"
  BY <1>1, <1>2 DEF Refund, keyVars
<1>3. CASE resv[r].source = "key_quota"
  <2>1. ConsumeQuota(k, -n)
    BY <1>3 DEF Refund
  <2>2. CASE used[k] >= n
    <3>1. used[k] + (-n) >= 0
      BY <1>1, <2>2
    <3>2. used' = [used EXCEPT ![k] = used[k] - n]
      BY <1>1, <2>1, <3>1 DEF ConsumeQuota
    <3> QED
      BY <1>1, <1>3, <2>2, <3>2
  <2>3. CASE ~(used[k] >= n)
    <3>1. ~(used[k] + (-n) >= 0)
      BY <1>1, <2>3
    <3>2. used' = used
      BY <2>1, <3>1 DEF ConsumeQuota
    <3> QED
      BY <1>1, <1>3, <2>3, <3>2
  <2> QED
    BY <2>2, <2>3
<1> QED
  BY <1>2, <1>3

\* A refund is a Return when it goes to the quota, and nothing to the account
\* when it goes to the wallet: both Settle and Release move on to the mark.
LEMMA RefundAccount ==
  ASSUME WInv, WInv', NEW s \in Slots, NEW d, NEW n \in Nat,
         call[s].pc \in {"settle_refund", "release_refund"},
         used' = [used EXCEPT ![KeyOf[call[s].res]] =
                    IF resv[call[s].res].source = "key_quota" /\ @ >= n
                      THEN @ - n ELSE @],
         Set(s, d), resv' = resv,
         d.req = call[s].req, d.res = call[s].res, n <= call[s].amt,
         \/ d.pc = "settle_mark" /\ Larger(0, d.amt - Actual(d)) = n
         \/ d.pc = "release_mark" /\ n = call[s].amt
  PROVE  AccountStep
<1> DEFINE c == call[s]
           k == KeyOf[c.req]
<1>0. c.pc \in RefundPcs /\ c.pc # "idle"
  BY DEF RefundPcs, ReleasePcs
<1>1. /\ BInv /\ TypeOK /\ Alone(s, k) /\ c \in Call /\ k \in Keys
      /\ c.res \in Requests /\ KeyOf[c.res] = k
      /\ Work(c, resv, host, periodEnd, now)
      /\ \A r \in Requests : resv[r] \in ResvRow /\ Row(r, resv[r], host[r].stage)
      /\ used \in [Keys -> Nat]
  BY <1>0, Working
<1>r. PICK r0 \in Requests : r0 = c.res
  BY <1>1
<1>2. resv[r0].status = "open" /\ resv[r0].hold = c.amt /\ c.amt \in Nat
  BY <1>r, <1>0, <1>1 DEF Work, Call
<1>3. \A r \in Requests :
        /\ KeyOf[r] # k => QuotaState(r)' = QuotaState(r) /\ QuotaHeld(r)' = QuotaHeld(r)
        /\ KeyOf[r] = k => /\ QuotaState(r) = ViewState(r, c, resv[r])
                           /\ QuotaHeld(r) = ViewHeld(r, c, resv[r])
                           /\ QuotaState(r)' = ViewState(r, d, resv'[r])
                           /\ QuotaHeld(r)' = ViewHeld(r, d, resv'[r])
  BY <1>1, KeyViews
<1>4. \A r \in Requests : /\ ViewState(r, c, resv[r]) = RowState(resv[r])
                          /\ ViewHeld(r, c, resv[r]) = RowHeld(resv[r])
  BY <1>1, AsideView
<1>5. ASSUME NEW r \in Requests, r # r0 PROVE SameView(r)
  <2>1. /\ ViewState(r, d, resv[r]) = RowState(resv[r])
        /\ ViewHeld(r, d, resv[r]) = RowHeld(resv[r])
    BY <1>r, <1>1, <1>5, AsideView
  <2> QED
    BY <1>3, <1>4, <2>1 DEF SameView
<1>6. /\ QuotaState(r0) = RowState(resv[r0]) /\ QuotaHeld(r0) = RowHeld(resv[r0])
      /\ QuotaState(r0)' = ViewState(r0, d, resv[r0])
      /\ QuotaHeld(r0)' = ViewHeld(r0, d, resv[r0])
  BY <1>r, <1>1, <1>3, <1>4
<1>7. CASE resv[r0].source # "key_quota"
  <2>1. used' = used
    BY <1>r, <1>1, <1>7
  <2>2. SameView(r0)
    BY <1>6, <1>7 DEF SameView, RowState, RowHeld, ViewState, ViewHeld, Taking
  <2> QED
    BY <1>5, <2>1, <2>2, ByStutter
<1>8. CASE resv[r0].source = "key_quota"
  <2>2. used' = [used EXCEPT ![KeyOf[r0]] = IF @ >= n THEN @ - n ELSE @]
    BY <1>r, <1>1, <1>8
  <2>3. c.amt <= Plan[KeyOf[r0]].amount
    BY <1>1, <1>2, <1>8 DEF Row
  <2>4. RowState(resv[r0]) = "open" /\ RowHeld(resv[r0]) = c.amt
    BY <1>2, <1>8 DEF RowState, RowHeld
  <2>5. Back(r0, d, resv[r0]) = n /\ ~Taking(r0, d)
    BY <1>r, <1>2 DEF Back, Taking
  <2>6. QuotaState(r0)' = "open" /\ QuotaHeld(r0)' = c.amt - n
    BY <1>6, <2>4, <2>5 DEF ViewState, ViewHeld, RowHeld
  <2>7. PICK h \in Nat : h = c.amt
    BY <1>2
  <2>8. /\ h <= Plan[KeyOf[r0]].amount /\ n <= h
        /\ QuotaState(r0) = "open" /\ QuotaHeld(r0) = h /\ QuotaHeld(r0)' = h - n
    BY <1>6, <2>3, <2>4, <2>6, <2>7
  <2> QED
    BY <1>1, <1>5, <2>2, <2>6, <2>8, ByReturn
<1> QED
  BY <1>7, <1>8

\* The mark closes a reservation taken from the quota.
LEMMA MarkAccount ==
  ASSUME WInv, WInv', NEW s \in Slots, NEW d, NEW status \in {"settled", "released"},
         call[s].pc \in {"settle_mark", "release_mark"}, Set(s, d), Bare(d),
         d.pc # "idle" => d.req = call[s].req, used' = used,
         resv' = [resv EXCEPT ![call[s].res].status = status]
  PROVE  AccountStep
<1> DEFINE c == call[s]
           k == KeyOf[c.req]
<1>0. c.pc \in RefundPcs /\ c.pc # "idle"
  BY DEF RefundPcs, ReleasePcs
<1>1. /\ BInv /\ TypeOK /\ Alone(s, k) /\ c \in Call /\ k \in Keys
      /\ c.res \in Requests /\ KeyOf[c.res] = k
      /\ Work(c, resv, host, periodEnd, now)
      /\ \A r \in Requests : resv[r] \in ResvRow
  BY <1>0, Working
<1>r. PICK r0 \in Requests : r0 = c.res
  BY <1>1
<1>2. resv[r0].status = "open"
  BY <1>r, <1>0, <1>1 DEF Work
<1>3. /\ resv'[r0].status = status /\ resv'[r0].source = resv[r0].source
      /\ \A r \in Requests : r # r0 => resv'[r] = resv[r]
  BY <1>r, <1>1 DEF TypeOK, ResvRow
<1>4. d \in Call /\ \A r \in Requests : resv'[r] \in ResvRow
  BY DEF WInv, QInv, BInv, TypeOK, ProperCall, Set
<1>5. \A r \in Requests :
        /\ KeyOf[r] # k => QuotaState(r)' = QuotaState(r) /\ QuotaHeld(r)' = QuotaHeld(r)
        /\ KeyOf[r] = k => /\ QuotaState(r) = ViewState(r, c, resv[r])
                           /\ QuotaHeld(r) = ViewHeld(r, c, resv[r])
                           /\ QuotaState(r)' = ViewState(r, d, resv'[r])
                           /\ QuotaHeld(r)' = ViewHeld(r, d, resv'[r])
  <2>1. \A r \in Requests : KeyOf[r] # k => resv'[r] = resv[r]
    BY <1>r, <1>1, <1>3
  <2>2. /\ c.pc # "idle" => KeyOf[c.req] = k
        /\ d.pc # "idle" => KeyOf[d.req] = k
    OBVIOUS
  <2> HIDE DEF k
  <2> QED
    BY <1>1, <2>1, <2>2, KeyViews
<1>6. \A r \in Requests : /\ ViewState(r, d, resv'[r]) = RowState(resv'[r])
                          /\ ViewHeld(r, d, resv'[r]) = RowHeld(resv'[r])
  BY <1>4, BareView
<1>7. ASSUME NEW r \in Requests, r # r0 PROVE SameView(r)
  <2>1. /\ ViewState(r, c, resv[r]) = RowState(resv[r])
        /\ ViewHeld(r, c, resv[r]) = RowHeld(resv[r])
    BY <1>r, <1>1, <1>7, AsideView
  <2> QED
    BY <1>3, <1>5, <1>6, <1>7, <2>1 DEF SameView
<1>8. /\ QuotaState(r0) = ViewState(r0, c, resv[r0])
      /\ QuotaHeld(r0) = ViewHeld(r0, c, resv[r0])
      /\ QuotaState(r0)' = RowState(resv'[r0]) /\ QuotaHeld(r0)' = RowHeld(resv'[r0])
  BY <1>r, <1>1, <1>5, <1>6
<1>9. CASE resv[r0].source # "key_quota"
  <2>1. SameView(r0)
    BY <1>3, <1>8, <1>9 DEF SameView, RowState, RowHeld, ViewState, ViewHeld, Taking
  <2> QED
    BY <1>7, <2>1, ByStutter
<1>10. CASE resv[r0].source = "key_quota"
  <2>1. QuotaState(r0) = "open"
    BY <1>2, <1>8, <1>10 DEF RowState, ViewState
  <2>2. QuotaState(r0)' = "closed" /\ QuotaHeld(r0)' = 0
    BY <1>3, <1>8, <1>10 DEF RowState, RowHeld
  <2> QED
    BY <1>7, <2>1, <2>2, ByClose
<1> QED
  BY <1>9, <1>10

\* A call that relies on no table has neither taken nor given back.
LEMMA LightBare ==
  ASSUME NEW c, c.pc \in LightPcs PROVE Bare(c)
  BY DEF LightPcs, Bare

\* A statement that leaves the rows and the counters alone, between two bare
\* calls, is nothing to the account.
LEMMA BareStutter ==
  ASSUME WInv, WInv', NEW s \in Slots, call[s].pc # "idle", NEW d, Set(s, d),
         Bare(call[s]), Bare(d), d.pc # "idle" => d.req = call[s].req,
         UNCHANGED <<resv, used>>
  PROVE  AccountStep
<1> DEFINE c == call[s]
           k == KeyOf[c.req]
<1>1. Alone(s, k) /\ k \in Keys /\ resv' = resv /\ used' = used
  BY Working
<1>2. \A r \in Requests : SameView(r)
  BY <1>1, BareStep
<1> QED
  BY <1>1, <1>2, ByStutter

\* Charge spends the extra its row says remains; Settle returns and closes.
LEMMA ChargeAccount ==
  ASSUME WInv, WInv', NEW s \in Slots,
         \/ ChargePeriod(s) \/ ChargeCount(s) \/ ChargeOwn(s) \/ SettlePick(s)
         \/ SettleRefund(s) \/ SettleMark(s) \/ ExtraCheck(s) \/ ExtraDebit(s)
         \/ ChargeQuota(s) \/ OverCheck(s) \/ OverDebit(s) \/ Record(s)
  PROVE  AccountStep
<1> DEFINE c == call[s]
           k == KeyOf[c.req]
<1>0. c.pc # "idle"
  BY DEF ChargePeriod, ChargeCount, ChargeOwn, SettlePick, SettleRefund,
         SettleMark, ExtraCheck, ExtraDebit, ChargeQuota, OverCheck, OverDebit, Record
<1>1. /\ BInv /\ TypeOK /\ Serial /\ Works /\ Alone(s, k)
      /\ c \in Call /\ c.req \in Requests /\ k \in Keys
      /\ Fine(c, used) /\ Work(c, resv, host, periodEnd, now)
      /\ \A r \in Requests : resv[r] \in ResvRow
      /\ used \in [Keys -> Nat]
  BY <1>0, Working
<1>2. Idle.pc = "idle" /\ Bare(Idle)
  BY DEF Idle, Bare
<1>3. CASE ChargePeriod(s)
  <2> DEFINE d == UnitRoute([c EXCEPT !.used = 0, !.at = 0])
  <2>1. c.pc = "charge_period" /\ Set(s, d) /\ resv' = resv /\ used' = [used EXCEPT ![k] = 0]
    BY <1>3 DEF ChargePeriod, ResetPeriod
  <2>2. d.pc \in LightPcs /\ d.req = c.req
    BY <1>1 DEF UnitRoute, Call, LightPcs
  <2> HIDE DEF d
  <2>3. Bare(c) /\ Bare(d)
    BY <2>1, <2>2, LightBare DEF Bare
  <2>4. \A r \in Requests : SameView(r)
    BY <1>1, <2>1, <2>2, <2>3, BareStep
  <2> QED
    BY <1>1, <2>1, <2>4, ByRestart
<1>4. CASE ChargeCount(s) \/ ChargeOwn(s)
  <2>1. UNCHANGED <<resv, used>> /\ Bare(c)
    BY <1>4 DEF ChargeCount, ChargeOwn, keyVars, Bare
  <2>2. \A n : LET d == [c EXCEPT !.unit = n, !.pc = "charge_own"]
               IN  d.req = c.req /\ Bare(d)
    BY <1>1 DEF Call, Bare
  <2>3. \A o : LET d == [c EXCEPT !.pc = "settle_pick", !.own = o]
               IN  d.req = c.req /\ Bare(d)
    BY <1>1 DEF Call, Bare
  <2>4. \/ \E n : Set(s, [c EXCEPT !.unit = n, !.pc = "charge_own"])
        \/ \E o : Set(s, [c EXCEPT !.pc = "settle_pick", !.own = o])
    BY <1>4 DEF ChargeCount, ChargeOwn
  <2> QED
    BY <1>0, <2>1, <2>2, <2>3, <2>4, BareStutter
<1>5. CASE SettlePick(s)
  <2>1. UNCHANGED <<resv, used>> /\ Bare(c)
    BY <1>5 DEF SettlePick, keyVars, Bare
  <2>2. ASSUME Set(s, ChargeRoute([c EXCEPT !.amt = c.unit])) PROVE AccountStep
    <3> DEFINE d == [c EXCEPT !.amt = c.unit]
    <3>1. d \in Call /\ d.req \in Requests /\ d.req = c.req /\ Set(s, ChargeRoute(d))
      BY <1>1, <2>2 DEF Call
    <3> HIDE DEF d
    <3>2. Bare(ChargeRoute(d)) /\ ChargeRoute(d).req = c.req
      BY <3>1, RoutesBare
    <3> QED
      BY <1>0, <2>1, <3>1, <3>2, BareStutter
  <2>3. ASSUME NEW r \in Requests,
               Set(s, [c EXCEPT !.res = r,
                         !.pc = IF resv[r].hold > Actual(c)
                                  THEN "settle_refund" ELSE "settle_mark",
                         !.amt = resv[r].hold])
        PROVE  AccountStep
    <3> DEFINE h == resv[r].hold
               d == [c EXCEPT !.res = r,
                       !.pc = IF h > Actual(c) THEN "settle_refund" ELSE "settle_mark",
                       !.amt = h]
    <3>1. h \in Nat /\ Actual(c) \in Nat
      BY <1>1, ActualNat DEF ResvRow
    <3>2. /\ d.req = c.req /\ d.amt = h /\ Actual(d) = Actual(c)
          /\ d.pc = IF h > Actual(c) THEN "settle_refund" ELSE "settle_mark"
          /\ Set(s, d)
      BY <1>1, <2>3 DEF Call, Actual
    <3> HIDE DEF d
    <3>3. Bare(d)
      BY <3>1, <3>2 DEF Bare
    <3> QED
      BY <1>0, <2>1, <3>2, <3>3, BareStutter
  <2> QED
    BY <1>5, <2>2, <2>3 DEF SettlePick, OpenOf
<1>6. CASE SettleRefund(s)
  <2> DEFINE d == [c EXCEPT !.pc = "settle_mark"]
  <2>1. c.pc = "settle_refund" /\ Refund(c.res, c.amt - Actual(c), "settle") /\ Set(s, d)
        /\ resv' = resv
    BY <1>6 DEF SettleRefund
  <2>2. c.amt \in Nat /\ Actual(c) \in Nat /\ Actual(c) <= c.amt
    BY <1>1, <2>1, ActualNat DEF Call, Fine
  <2>3. /\ d.pc = "settle_mark" /\ d.req = c.req /\ d.res = c.res /\ d.amt = c.amt
        /\ Actual(d) = Actual(c)
    BY <1>1 DEF Call, Actual
  <2> HIDE DEF d
  <2>4. PICK n \in Nat : n = c.amt - Actual(c)
    BY <2>2
  <2>5. n <= c.amt /\ Larger(0, c.amt - Actual(c)) = n
    BY <2>2, <2>4 DEF Larger
  <2>6. used' = [used EXCEPT ![KeyOf[c.res]] =
                   IF resv[c.res].source = "key_quota" /\ @ >= n THEN @ - n ELSE @]
    <3>1. c.res \in Requests /\ c.amt - Actual(c) \in Nat
      BY <2>1, <2>2, Working DEF RefundPcs
    <3> QED
      BY <1>1, <2>1, <2>4, <3>1, RefundMoves
  <2> QED
    BY <2>1, <2>3, <2>4, <2>5, <2>6, RefundAccount
<1>7. CASE SettleMark(s)
  <2> DEFINE d == [c EXCEPT !.amt = Larger(0, Actual(c) - c.amt)]
  <2>1. c.pc = "settle_mark" /\ Set(s, AfterSettle(d)) /\ used' = used
        /\ resv' = [resv EXCEPT ![c.res].status = "settled"]
    BY <1>7 DEF SettleMark, keyVars
  <2>2. d \in Call /\ d.req \in Requests /\ d.req = c.req
    <3>1. c.amt \in Nat /\ Actual(c) \in Nat
      BY <1>1, ActualNat DEF Call
    <3>2. Larger(0, Actual(c) - c.amt) \in Nat
      BY <3>1 DEF Larger
    <3> QED
      BY <1>1, <3>2 DEF Call
  <2> HIDE DEF d
  <2>3. Bare(AfterSettle(d)) /\ AfterSettle(d).req = c.req
    BY <2>2, RoutesBare
  <2> QED
    BY <2>1, <2>3, MarkAccount
<1>8. CASE ChargeQuota(s)
  <2> DEFINE d == [c EXCEPT !.pc = "record"]
  <2>1. /\ c.pc = "charge_quota" /\ ConsumeQuota(k, c.amt) /\ Set(s, d) /\ resv' = resv
    BY <1>8 DEF ChargeQuota
  <2>2. /\ c.amt \in Nat /\ c.used \in Nat /\ used[k] \in Nat /\ Plan[k].amount \in Nat
        /\ used[k] <= c.used /\ c.used + c.amt <= Plan[k].amount
    BY <1>1, <2>1, PlanOf DEF Work, Call, Fine, FreshPcs, Fits
  <2>3. used' = [used EXCEPT ![k] = @ + c.amt] /\ used[k] + c.amt <= Plan[k].amount
    BY <2>1, <2>2 DEF ConsumeQuota
  <2>4. d.pc = "record" /\ d.req = c.req
    BY <1>1 DEF Call
  <2> HIDE DEF d
  <2>5. Bare(c) /\ Bare(d)
    BY <2>1, <2>4 DEF Bare
  <2>6. \A r \in Requests : SameView(r)
    BY <1>1, <2>1, <2>4, <2>5, BareStep
  <2> QED
    BY <1>1, <2>2, <2>3, <2>6, BySpend
<1>9. CASE ExtraCheck(s) \/ ExtraDebit(s) \/ OverCheck(s) \/ OverDebit(s) \/ Record(s)
  <2>1. UNCHANGED <<resv, used>> /\ Bare(c)
    BY <1>9 DEF ExtraCheck, ExtraDebit, OverCheck, OverDebit, Record, DebitOwner,
                keyVars, Bare
  <2>2. \A pc \in {"extra_debit", "over_debit", "record"} :
          /\ LET d == [c EXCEPT !.pc = pc] IN d.req = c.req /\ Bare(d)
          /\ \A src : LET d == [c EXCEPT !.pc = pc, !.src = src]
                      IN  d.req = c.req /\ Bare(d)
    BY <1>1 DEF Call, Bare
  <2>3. \/ \E pc \in {"extra_debit", "over_debit", "record"} : Set(s, [c EXCEPT !.pc = pc])
        \/ \E pc \in {"extra_debit", "over_debit", "record"}, src \in Sources :
             Set(s, [c EXCEPT !.pc = pc, !.src = src])
        \/ Set(s, Idle)
    BY <1>9 DEF ExtraCheck, ExtraDebit, OverCheck, OverDebit, Record, DebitOwner, Sources
  <2> QED
    BY <1>0, <1>2, <2>1, <2>2, <2>3, BareStutter
<1> QED
  BY <1>3, <1>4, <1>5, <1>6, <1>7, <1>8, <1>9

\* Release returns all that is held and closes.
LEMMA ReleaseAccount ==
  ASSUME WInv, WInv', NEW s \in Slots, ReleaseRefund(s) \/ ReleaseMark(s)
  PROVE  AccountStep
<1> DEFINE c == call[s]
<1>1. CASE ReleaseRefund(s)
  <2> DEFINE d == [c EXCEPT !.pc = "release_mark"]
  <2>1. /\ c.pc = "release_refund" /\ Refund(c.res, c.amt, "release") /\ Set(s, d)
        /\ resv' = resv
    BY <1>1 DEF ReleaseRefund
  <2>2. c \in Call /\ c.amt \in Nat
    BY <2>1, Working DEF Call
  <2>3. d.pc = "release_mark" /\ d.req = c.req /\ d.res = c.res
    BY <2>2 DEF Call
  <2> HIDE DEF d
  <2>4. PICK n \in Nat : n = c.amt
    BY <2>2
  <2>5. used' = [used EXCEPT ![KeyOf[c.res]] =
                   IF resv[c.res].source = "key_quota" /\ @ >= n THEN @ - n ELSE @]
    <3>1. c.res \in Requests /\ TypeOK
      BY <2>1, Working DEF RefundPcs, ReleasePcs
    <3> QED
      BY <2>1, <2>2, <2>4, <3>1, RefundMoves
  <2>6. n <= c.amt /\ c.pc \in {"settle_refund", "release_refund"}
    BY <2>1, <2>4
  <2> QED
    BY <2>1, <2>3, <2>4, <2>5, <2>6, RefundAccount
<1>2. CASE ReleaseMark(s)
  <2>1. /\ c.pc = "release_mark" /\ Set(s, Idle) /\ used' = used
        /\ resv' = [resv EXCEPT ![c.res].status = "released"]
    BY <1>2 DEF ReleaseMark, keyVars
  <2>2. Idle.pc = "idle" /\ Bare(Idle)
    BY DEF Idle, Bare
  <2> QED
    BY <2>1, <2>2, MarkAccount
<1> QED
  BY <1>1, <1>2

\* Beginning a call reserves nothing yet.
LEMMA BeginAccount ==
  ASSUME KeyCalls = 1, WInv, WInv', NEW s \in Slots, NEW r \in Requests,
         \/ HoldBegin(s, r)
         \/ \E use \in Uses : ChargeBegin(s, r, use)
         \/ CompleteFailed(s, r)
         \/ BootRelease(s, r)
  PROVE  AccountStep
<1> DEFINE k == KeyOf[r]
<1>1. /\ TypeOK /\ k \in Keys /\ Alone(s, k) /\ now \in Nat
      /\ used[k] \in Nat
  BY PlanOf, BeginAlone DEF WInv, QInv, BInv, TypeOK
<1>2. resv' = resv /\ used' = used
  BY DEF HoldBegin, ChargeBegin, CompleteFailed, BootRelease, keyVars
<1>3. call[s].pc = "idle" /\ Bare(call[s])
  BY DEF HoldBegin, ChargeBegin, CompleteFailed, BootRelease, Free, Bare
<1>4. ASSUME NEW d, Set(s, d), Bare(d), d.pc # "idle" => d.req = r PROVE AccountStep
  <2>1. \A q \in Requests : SameView(q)
    BY <1>1, <1>2, <1>3, <1>4, BareStep
  <2> QED
    BY <1>2, <2>1, ByStutter
<1>5. Idle.pc = "idle" /\ Bare(Idle)
  BY DEF Idle, Bare
<1>6. ASSUME HoldBegin(s, r) PROVE AccountStep
  <2> DEFINE c == [Idle EXCEPT !.req = r, !.used = used[k]]
             d == [c EXCEPT !.pc = "hold_period", !.at = now]
  <2>1. c \in Call /\ c.req = r /\ c.amt = 0
    BY <1>1 DEF Idle, NoUse, Call, Usage, Sources
  <2>2. d.pc = "hold_period" /\ d.req = r
    BY <2>1 DEF Call
  <2>3. Set(s, d) \/ Set(s, HoldRoute(c))
    BY <1>6 DEF HoldBegin
  <2> HIDE DEF d
  <2>4. Bare(d)
    BY <2>2 DEF Bare
  <2> HIDE DEF c
  <2>5. Bare(HoldRoute(c)) /\ (HoldRoute(c).pc # "idle" => HoldRoute(c).req = r)
    BY <2>1, RoutesBare
  <2> QED
    BY <1>4, <2>2, <2>3, <2>4, <2>5
<1>7. ASSUME NEW use \in Uses, ChargeBegin(s, r, use) PROVE AccountStep
  <2> DEFINE c == [Idle EXCEPT !.req = r, !.use = use, !.used = used[k]]
             d == [c EXCEPT !.pc = "charge_period", !.at = now]
             e == [c EXCEPT !.pc = "record"]
  <2>1. c \in Call /\ c.req = r
    BY <1>1 DEF Idle, Call, Usage, Sources
  <2>2. d.pc = "charge_period" /\ d.req = r /\ e.pc = "record" /\ e.req = r
    BY <2>1 DEF Call
  <2>3. UnitRoute(c).pc \in LightPcs /\ UnitRoute(c).req = r
    BY <2>1 DEF UnitRoute, Call, LightPcs
  <2>4. Set(s, d) \/ Set(s, e) \/ Set(s, UnitRoute(c))
    BY <1>7 DEF ChargeBegin
  <2> HIDE DEF c, d, e
  <2>5. Bare(d) /\ Bare(e) /\ Bare(UnitRoute(c))
    BY <2>2, <2>3, LightBare DEF Bare
  <2> QED
    BY <1>4, <2>2, <2>3, <2>4, <2>5
<1>8. ASSUME ReadRelease(s, r) PROVE AccountStep
  <2>1. ReleaseCall(r).req = r /\ Bare(ReleaseCall(r))
    BY DEF ReleaseCall, Idle, Bare
  <2> QED
    BY <1>4, <1>5, <1>8, <2>1 DEF ReadRelease
<1> QED
  BY <1>6, <1>7, <1>8 DEF CompleteFailed, BootRelease

\* The administrator's switch starts the account again; the other process steps,
\* but a crash, are nothing to it.
LEMMA ProcessAccount ==
  ASSUME WInv, WInv',
         \/ \E r \in Requests : CompleteSucceeded(r)
         \/ Boot \/ BootDone \/ Edit \/ Tick \/ UNCHANGED vars
  PROVE  AccountStep
<1>1. ASSUME UNCHANGED <<resv, call>> PROVE \A r \in Requests : SameView(r)
  <2>1. ASSUME NEW r \in Requests PROVE QuotaState(r)' = QuotaState(r)
    BY <1>1 DEF QuotaState, Reserving
  <2>2. ASSUME NEW r \in Requests PROVE QuotaHeld(r)' = QuotaHeld(r)
    BY <1>1 DEF QuotaHeld, QuotaState, Reserving, Returned
  <2> QED
    BY <2>1, <2>2 DEF SameView
<1>2. CASE Edit
  <2>1. \A r \in Requests : SameView(r)
    BY <1>1, <1>2 DEF Edit
  <2>2. (\E k \in Keys : used' = [used EXCEPT ![k] = 0]) \/ used' = used
    BY <1>2 DEF Edit, Switch, EditTerms, keyVars
  <2> QED
    BY <2>1, <2>2, ByRestart, ByStutter
<1>3. CASE \/ \E r \in Requests : CompleteSucceeded(r)
           \/ Boot \/ BootDone \/ Tick \/ UNCHANGED vars
  <2>1. UNCHANGED <<resv, call>> /\ used' = used
    BY <1>3 DEF CompleteSucceeded, Boot, BootDone, Tick, vars, keyVars
  <2> QED
    BY <1>1, <2>1, ByStutter
<1> QED
  BY <1>2, <1>3

\* At the start nothing is reserved.
LEMMA InitAccount == Init => Account!Init
<1> SUFFICES ASSUME Init PROVE Account!Init
  OBVIOUS
<1>1. /\ used = [k \in Keys |-> 0]
      /\ \A r \in Requests : resv[r].source = "none"
      /\ \A s \in Slots : call[s].pc = "idle"
  BY DEF Init, NoResv, Idle
<1>2. \A r \in Requests : Reserving(r) = {}
  BY <1>1 DEF Reserving
<1>3. \A r \in Requests : QuotaState(r) = "none"
  BY <1>1, <1>2 DEF QuotaState
<1>4. \A r \in Requests : QuotaHeld(r) = 0
  BY <1>2, <1>3 DEF QuotaHeld
<1> QED
  BY <1>1, <1>3, <1>4 DEF Account!Init

\* Every step but a crash is a step of the account.
LEMMA NextAccount ==
  ASSUME KeyCalls = 1, WInv, WInv', [Next]_vars PROVE Crash \/ AccountStep
<1>1. ASSUME NEW s \in Slots, Step(s) PROVE AccountStep
  BY <1>1, HoldAccount, ChargeAccount, ReleaseAccount DEF Step
<1>2. ASSUME NEW s \in Slots, Begin(s) PROVE AccountStep
  BY <1>2, BeginAccount DEF Begin
<1> QED
  BY <1>1, <1>2, ProcessAccount DEF Next

\* Hold, Settle, Charge, Release, the end of a period and the administrator's
\* switch do what QuotaAccount does, statement by statement, also after crashes
\* and while Boot releases: only the crash itself is not a step of the account,
\* for a refund that was not yet marked can then be made again.
THEOREM StepsImplementAccount ==
  ASSUME KeyCalls = 1
  PROVE  Spec => [][Crash \/ [Account!Next]_(Account!vars)]_vars
<1>1. WInv /\ [Next]_vars => WInv' /\ [Crash \/ AccountStep]_vars
  BY StepWorks, NextAccount
<1> QED
  BY <1>1, InitWorks, PTL DEF Spec, AccountStep

\* Without a crash the billing calls implement QuotaAccount: no reservation is
\* closed twice, none gives back more than it took, and nothing is committed
\* beyond what was sold (Hold, Settle, Charge, Release).
THEOREM BillingImplementsAccount ==
  ASSUME KeyCalls = 1, MaxCrashes = 0 PROVE Spec => ImplementsAccount
<1>1. ASSUME WInv, [Next]_vars PROVE ~Crash
  BY <1>1 DEF WInv, QInv, BInv, TypeOK, Crash
<1>2. WInv /\ [Next]_vars => WInv' /\ AccountStep
  BY <1>1, StepWorks, NextAccount
<1> QED
  BY <1>2, InitWorks, InitAccount, PTL DEF Spec, ImplementsAccount, AccountStep, Account!Spec

-----------------------------------------------------------------------------
(***************************************************************************)
(* What the ledger holds of a request and gave back to it, with one call   *)
(* per key at a time: the hold row is written one statement before the     *)
(* reservation, the refund row one statement before its mark.              *)
(***************************************************************************)

MovedRows(rows, tag, r) == {i \in DOMAIN rows : rows[i].ref = <<tag, r>>}
Moved(rows, tag, r) == SumFunction([i \in MovedRows(rows, tag, r) |-> rows[i].delta])
HeldIn(rows, r) == -Moved(rows, "hold", r)
BackIn(rows, r) == Moved(rows, "settle", r) + Moved(rows, "release", r)

\* Call c has debited the hold of r, or refunded it, and not yet written the row.
Inserting(r, c) == c.pc = "hold_insert" /\ c.req = r /\ c.src = "wallet"
Marking(r, c)   == c.pc \in {"settle_mark", "release_mark"} /\ c.res = r
Off(r, c)       == ~Inserting(r, c) /\ ~Marking(r, c)

\* What was held of r and given back to it, as its row and call c say.
Books(r, c, row, held, back) ==
  /\ held = IF Inserting(r, c) THEN c.amt ELSE IF row.source = "wallet" THEN row.hold ELSE 0
  /\ Marking(r, c) /\ row.source = "wallet" =>
       back = IF c.pc = "settle_mark" THEN Larger(0, c.amt - Actual(c)) ELSE c.amt
  /\ ~(Marking(r, c) /\ row.source = "wallet") =>
       /\ row.status \in {"none", "open"} => back = 0
       /\ row.status = "released" => back = held
       /\ row.status = "settled" => back <= held

BooksOf(r, c, row, rows) == Books(r, c, row, HeldIn(rows, r), BackIn(rows, r))

WorksOn(c, k) == c.pc # "idle" /\ KeyOf[c.req] = k

\* The ledger, the row and the call that works on its key agree on request r.
Booked(r) ==
  /\ \A s \in Slots :
       WorksOn(call[s], KeyOf[r]) => BooksOf(r, call[s], resv[r], ledger)
  /\ (\A s \in Slots : ~WorksOn(call[s], KeyOf[r])) => BooksOf(r, Idle, resv[r], ledger)

\* They agree on every request no crash has met.
Even == \A r \in Requests : host[r].stage # "lost" => Booked(r)

\* What every statement does but a crash: no request they agreed on is lost.
StayBooked == \A r \in Requests : Booked(r) => Booked(r)'

\* The rows one append adds to.
LEMMA MovedGrows ==
  ASSUME NEW rows \in Seq(LedgerRow), NEW row \in LedgerRow, NEW tag, NEW r
  PROVE  /\ Moved(rows, tag, r) \in Int
         /\ Moved(Append(rows, row), tag, r) = Moved(rows, tag, r) +
              (IF row.ref = <<tag, r>> THEN row.delta ELSE 0)
<1> DEFINE S == MovedRows(rows, tag, r)
           T == MovedRows(Append(rows, row), tag, r)
           f == [i \in S |-> rows[i].delta]
           g == [i \in T |-> Append(rows, row)[i].delta]
           k == Len(rows) + 1
<1>1. /\ k \notin DOMAIN rows /\ DOMAIN rows = 1..Len(rows) /\ Len(rows) \in Nat
      /\ DOMAIN Append(rows, row) = 1..k
      /\ \A i \in 1..Len(rows) : Append(rows, row)[i] = rows[i]
      /\ Append(rows, row)[k] = row
  BY AppendedRows
<1>2. IsFiniteSet(S)
  <2>1. IsFiniteSet(1..Len(rows)) /\ S \subseteq 1..Len(rows)
    BY <1>1, FS_Interval DEF MovedRows
  <2> QED
    BY <2>1, FS_Subset
<1>3. Moved(rows, tag, r) = SumFunctionOnSet(f, S)
  BY DEF Moved, SumFunction
<1>4. Moved(Append(rows, row), tag, r) = SumFunctionOnSet(g, T)
  BY DEF Moved, SumFunction
<1>5. \A i \in S : rows[i] \in LedgerRow /\ i \in T /\ Append(rows, row)[i] = rows[i]
  BY <1>1 DEF MovedRows
<1>6. \A i \in S : f[i] \in Int /\ g[i] = f[i]
  BY <1>5 DEF LedgerRow
<1>7. SumFunctionOnSet(f, S) \in Int
  <2> HIDE DEF f, S
  <2> QED
    BY <1>2, <1>6, SumSplit
<1>8. CASE row.ref = <<tag, r>>
  <2>1. T = S \cup {k} /\ k \notin S /\ g[k] = row.delta
    BY <1>1, <1>8 DEF MovedRows
  <2>2. row.delta \in Int
    BY DEF LedgerRow
  <2> HIDE DEF f, g, S, T, k
  <2>3. SumFunctionOnSet(g, S \cup {k}) = SumFunctionOnSet(f, S) + g[k]
    BY <1>2, <1>6, <2>1, <2>2, SumGrows
  <2> QED
    BY <1>3, <1>4, <1>7, <1>8, <2>1, <2>3
<1>9. CASE row.ref # <<tag, r>>
  <2>1. T = S
    BY <1>1, <1>9 DEF MovedRows
  <2> HIDE DEF f, g, S, T, k
  <2>2. SumFunctionOnSet(g, T) = SumFunctionOnSet(f, S)
    BY <1>2, <1>6, <2>1, SumSame
  <2> QED
    BY <1>3, <1>4, <1>7, <1>9, <2>2
<1> QED
  BY <1>8, <1>9

\* What is moved for a request is a number.
LEMMA MovedInt ==
  ASSUME NEW rows \in Seq(LedgerRow), NEW tag, NEW r
  PROVE  Moved(rows, tag, r) \in Int
<1> DEFINE S == MovedRows(rows, tag, r)
           f == [i \in S |-> rows[i].delta]
<1>1. IsFiniteSet(S)
  <2>1. S \subseteq 1..Len(rows) /\ Len(rows) \in Nat
    BY DEF MovedRows
  <2>2. IsFiniteSet(1..Len(rows))
    BY <2>1, FS_Interval
  <2> QED
    BY <2>1, <2>2, FS_Subset
<1>2. \A i \in S : rows[i] \in LedgerRow
  BY DEF MovedRows
<1>3. \A i \in S : f[i] \in Int
  BY <1>2 DEF LedgerRow
<1>4. SumFunctionOnSet(f, S) \in Int
  <2> HIDE DEF f, S
  <2> QED
    BY <1>1, <1>3, SumSplit
<1>5. Moved(rows, tag, r) = SumFunctionOnSet(f, S)
  BY DEF Moved, SumFunction
<1> QED
  BY <1>4, <1>5

\* What AdjustBalance adds to what is moved under a tag for a request.
LEMMA MovedWritten ==
  ASSUME TypeOK, NEW u \in Users, NEW delta \in Int, NEW reason \in Reasons,
         NEW ref \in Refs, AdjustBalance(u, delta, reason, ref, "system")
  PROVE  \A tag, r : /\ Moved(ledger, tag, r) \in Int
                     /\ Moved(ledger', tag, r) = Moved(ledger, tag, r) +
                          (IF ref = <<tag, r>> THEN delta ELSE 0)
<1> DEFINE row == [user |-> u, delta |-> delta, reason |-> reason, ref |-> ref,
                   channel |-> "system", after |-> users[u].balance + delta]
<1>1. ledger' = Append(ledger, row) /\ row \in LedgerRow /\ ledger \in Seq(LedgerRow)
  <2>1. users[u].balance + delta \in Int /\ ledger \in Seq(LedgerRow)
    BY DEF TypeOK, WalletTypeOK, WalletRow
  <2>2. ref \in Refs \cup {NoRef} /\ "system" \in Channels
    BY DEF Channels
  <2> QED
    BY <2>1, <2>2 DEF AdjustBalance, LedgerRow
<1>2. row.ref = ref /\ row.delta = delta
  OBVIOUS
<1> HIDE DEF row
<1>3. ASSUME NEW tag, NEW r
      PROVE  /\ Moved(ledger, tag, r) \in Int
             /\ Moved(Append(ledger, row), tag, r) = Moved(ledger, tag, r) +
                  (IF row.ref = <<tag, r>> THEN row.delta ELSE 0)
  BY <1>1, MovedGrows
<1> QED
  BY <1>1, <1>2, <1>3

\* The three kinds of rows a call writes: a hold is held of one request, ...
LEMMA HoldWritten ==
  ASSUME TypeOK, NEW u \in Users, NEW n \in Nat, NEW q \in Requests,
         AdjustBalance(u, -n, "hold", <<"hold", q>>, "system"), NEW r \in Requests
  PROVE  /\ HeldIn(ledger, r) \in Int /\ BackIn(ledger, r) \in Int
         /\ HeldIn(ledger', r) = HeldIn(ledger, r) + (IF q = r THEN n ELSE 0)
         /\ BackIn(ledger', r) = BackIn(ledger, r)
<1>1. -n \in Int /\ "hold" \in Reasons /\ <<"hold", q>> \in Refs
  BY DEF Reasons, Tags
<1>2. \A tag : /\ Moved(ledger, tag, r) \in Int
               /\ Moved(ledger', tag, r) = Moved(ledger, tag, r) +
                    (IF <<"hold", q>> = <<tag, r>> THEN -n ELSE 0)
  BY <1>1, MovedWritten
<1> QED
  BY <1>2 DEF HeldIn, BackIn

\* ... a refund is given back of one request, ...
LEMMA RefundWritten ==
  ASSUME TypeOK, NEW u \in Users, NEW n \in Nat, NEW q \in Requests,
         NEW tag \in {"settle", "release"},
         AdjustBalance(u, n, "refund", <<tag, q>>, "system"), NEW r \in Requests
  PROVE  /\ HeldIn(ledger, r) \in Int /\ BackIn(ledger, r) \in Int
         /\ HeldIn(ledger', r) = HeldIn(ledger, r)
         /\ BackIn(ledger', r) = BackIn(ledger, r) + (IF q = r THEN n ELSE 0)
<1>1. n \in Int /\ "refund" \in Reasons /\ <<tag, q>> \in Refs
  BY DEF Reasons, Tags
<1>2. \A t : /\ Moved(ledger, t, r) \in Int
             /\ Moved(ledger', t, r) = Moved(ledger, t, r) +
                  (IF <<tag, q>> = <<t, r>> THEN n ELSE 0)
  BY <1>1, MovedWritten
<1>3. CASE tag = "settle"
  BY <1>2, <1>3 DEF HeldIn, BackIn
<1>4. CASE tag = "release"
  BY <1>2, <1>4 DEF HeldIn, BackIn
<1> QED
  BY <1>3, <1>4

\* ... and a usage debit is neither.
LEMMA UsageWritten ==
  ASSUME TypeOK, NEW u \in Users, NEW n \in Nat,
         AdjustBalance(u, -n, "usage", <<"usage", NoReq>>, "system"), NEW r \in Requests
  PROVE  /\ HeldIn(ledger, r) \in Int /\ BackIn(ledger, r) \in Int
         /\ HeldIn(ledger', r) = HeldIn(ledger, r)
         /\ BackIn(ledger', r) = BackIn(ledger, r)
<1>1. -n \in Int /\ "usage" \in Reasons /\ <<"usage", NoReq>> \in Refs
  BY DEF Reasons, Tags
<1>2. \A tag : /\ Moved(ledger, tag, r) \in Int
               /\ Moved(ledger', tag, r) = Moved(ledger, tag, r) +
                    (IF <<"usage", NoReq>> = <<tag, r>> THEN -n ELSE 0)
  BY <1>1, MovedWritten
<1> QED
  BY <1>2 DEF HeldIn, BackIn

\* A call that is not about r says of it what an idle slot says.
LEMMA OffBooks ==
  ASSUME NEW r, NEW c, NEW d, Off(r, c), Off(r, d), NEW row, NEW held, NEW back,
         Books(r, c, row, held, back)
  PROVE  Books(r, d, row, held, back)
  BY DEF Off, Books

\* An idle slot, and a call of another key, is not about r.
LEMMA OffOthers ==
  ASSUME NEW r \in Requests, NEW c, c.pc # "idle" => KeyOf[c.req] # KeyOf[r],
         c.pc \in RefundPcs => KeyOf[c.res] = KeyOf[c.req]
  PROVE  Off(r, c)
  BY DEF Off, Inserting, Marking, RefundPcs, ReleasePcs

\* The idle slot is about nothing.
LEMMA OffIdle ==
  ASSUME NEW r PROVE Off(r, Idle)
  BY DEF Off, Inserting, Marking, Idle

\* What the only slot that may work on a key says of its requests.
LEMMA BookedAlone ==
  ASSUME WInv, NEW s \in Slots, NEW r \in Requests, Alone(s, KeyOf[r]), Booked(r)
  PROVE  BooksOf(r, call[s], resv[r], ledger)
<1>1. CASE WorksOn(call[s], KeyOf[r])
  BY <1>1 DEF Booked
<1>2. CASE ~WorksOn(call[s], KeyOf[r])
  <2>1. \A t \in Slots : ~WorksOn(call[t], KeyOf[r])
    BY <1>2 DEF Alone, WorksOn
  <2>2. BooksOf(r, Idle, resv[r], ledger)
    BY <2>1 DEF Booked
  <2>3. Off(r, call[s])
    <3>1. call[s].pc \in RefundPcs => KeyOf[call[s].res] = KeyOf[call[s].req]
      BY DEF WInv, Works, Work, RefundPcs
    <3> QED
      BY <1>2, <3>1, OffOthers DEF WorksOn
  <2> QED
    BY <2>2, <2>3, OffIdle, OffBooks DEF BooksOf
<1> QED
  BY <1>1, <1>2

\* When slot s moves on alone on key k, the requests of other keys are as booked as
\* they were, and those of k when what c and d say of them agrees.
LEMMA BookedNext ==
  ASSUME WInv, WInv', NEW s \in Slots, NEW k \in Keys, Alone(s, k),
         NEW d, Set(s, d),
         call[s].pc # "idle" => KeyOf[call[s].req] = k,
         d.pc # "idle" => KeyOf[d.req] = k,
         \A r \in Requests : KeyOf[r] # k =>
           /\ resv'[r] = resv[r]
           /\ HeldIn(ledger', r) = HeldIn(ledger, r)
           /\ BackIn(ledger', r) = BackIn(ledger, r),
         \A r \in Requests : /\ KeyOf[r] = k
                             /\ BooksOf(r, call[s], resv[r], ledger)
           => BooksOf(r, d, resv'[r], ledger')
  PROVE  StayBooked
<1>1. /\ call'[s] = d /\ \A t \in Slots \ {s} : call'[t] = call[t]
  BY DEF WInv, QInv, BInv, TypeOK, Set
<1>2. ASSUME NEW r \in Requests, Booked(r), KeyOf[r] = k
      PROVE  /\ \A t \in Slots : WorksOn(call'[t], KeyOf[r]) =>
                  BooksOf(r, call'[t], resv'[r], ledger')
             /\ (\A t \in Slots : ~WorksOn(call'[t], KeyOf[r])) =>
                  BooksOf(r, Idle, resv'[r], ledger')
  <2>1. BooksOf(r, call[s], resv[r], ledger)
    BY <1>2, BookedAlone
  <2>2. BooksOf(r, d, resv'[r], ledger')
    BY <1>2, <2>1
  <2>3. \A t \in Slots : WorksOn(call'[t], KeyOf[r]) => t = s
    BY <1>1, <1>2 DEF Alone, WorksOn
  <2>4. ASSUME ~WorksOn(d, KeyOf[r]) PROVE BooksOf(r, Idle, resv'[r], ledger')
    <3>1. d.pc = "idle"
      BY <1>2, <2>4 DEF WorksOn
    <3>2. Off(r, d)
      BY <3>1 DEF Off, Inserting, Marking
    <3> QED
      BY <2>2, <3>2, OffIdle, OffBooks DEF BooksOf
  <2> QED
    BY <1>1, <2>2, <2>3, <2>4
<1>3. ASSUME NEW r \in Requests, Booked(r), KeyOf[r] # k
      PROVE  /\ \A t \in Slots : WorksOn(call'[t], KeyOf[r]) =>
                  BooksOf(r, call'[t], resv'[r], ledger')
             /\ (\A t \in Slots : ~WorksOn(call'[t], KeyOf[r])) =>
                  BooksOf(r, Idle, resv'[r], ledger')
  <2>1. \A c : BooksOf(r, c, resv[r], ledger) => BooksOf(r, c, resv'[r], ledger')
    BY <1>3 DEF BooksOf
  <2>2. ~WorksOn(call[s], KeyOf[r]) /\ ~WorksOn(call'[s], KeyOf[r])
    BY <1>1, <1>3 DEF WorksOn
  <2>3. \A t \in Slots : t # s => call'[t] = call[t]
    BY <1>1
  <2> QED
    BY <1>3, <2>1, <2>2, <2>3 DEF Booked
<1> QED
  BY <1>2, <1>3 DEF StayBooked, Booked

\* Calls that say no more of any row than an idle slot does.
Plain(c) == /\ c.pc = "hold_insert" => c.src # "wallet"
            /\ c.pc \notin {"settle_mark", "release_mark"}

\* A plain call is about no wallet hold.
LEMMA PlainOff ==
  ASSUME NEW c, Plain(c), NEW r PROVE Off(r, c)
  BY DEF Plain, Off, Inserting, Marking

\* A statement between two plain ones that writes no row and no hold or refund.
LEMMA BookedPlain ==
  ASSUME WInv, WInv', NEW s \in Slots, NEW k \in Keys, Alone(s, k), NEW d, Set(s, d),
         call[s].pc # "idle" => KeyOf[call[s].req] = k,
         d.pc # "idle" => KeyOf[d.req] = k,
         Plain(call[s]), Plain(d), resv' = resv,
         \A r \in Requests : /\ HeldIn(ledger', r) = HeldIn(ledger, r)
                             /\ BackIn(ledger', r) = BackIn(ledger, r)
  PROVE  StayBooked
<1>1. ASSUME NEW r \in Requests, BooksOf(r, call[s], resv[r], ledger)
      PROVE  BooksOf(r, d, resv'[r], ledger')
  <2>1. BooksOf(r, d, resv[r], ledger)
    BY <1>1, PlainOff, OffBooks DEF BooksOf
  <2> QED
    BY <2>1 DEF BooksOf
<1> QED
  BY <1>1, BookedNext

\* The same for the next statement of a call that leaves the ledger and the
\* rows alone.
LEMMA BookedStill ==
  ASSUME WInv, WInv', NEW s \in Slots, call[s].pc # "idle", NEW d, Set(s, d),
         d.pc # "idle" => d.req = call[s].req, Plain(call[s]), Plain(d),
         UNCHANGED <<ledger, resv>>
  PROVE  StayBooked
<1>1. Alone(s, KeyOf[call[s].req]) /\ KeyOf[call[s].req] \in Keys
  BY Working
<1>2. /\ resv' = resv
      /\ \A r \in Requests : /\ HeldIn(ledger', r) = HeldIn(ledger, r)
                             /\ BackIn(ledger', r) = BackIn(ledger, r)
  OBVIOUS
<1> QED
  BY <1>1, <1>2, BookedPlain

\* The routes of Hold and Charge are plain.
LEMMA RoutesPlain ==
  ASSUME NEW c \in Call
  PROVE  Plain(HoldRoute(c)) /\ Plain(ChargeRoute(c)) /\ Plain(AfterSettle(c))
<1> DEFINE k   == KeyOf[c.req]
           amt == CappedHold(Plan[k].kind, QuotaRemaining(k, c.used))
<1>1. ChargeRoute(c).pc \in {"record", "charge_quota", "over_check"}
  BY DEF ChargeRoute, Call
<1>2. AfterSettle(c).pc \in {"record", "charge_quota", "over_check", "extra_check"}
  BY <1>1 DEF AfterSettle, Call
<1>3. Plain(HoldRoute(c))
  <2>1. CASE Plan[k].kind = "unlimited"
    <3>1. HoldRoute(c) = [[c EXCEPT !.src = "key_quota"] EXCEPT !.pc = "hold_insert"]
      BY <2>1 DEF HoldRoute, HasQuota
    <3> QED
      BY <3>1 DEF Plain, Call
  <2>2. CASE Plan[k].kind # "unlimited" /\ HasQuota(k, c.used)
    <3>1. HoldRoute(c) = [c EXCEPT !.src = "key_quota",
              !.pc = IF amt > 0 THEN "hold_quota" ELSE "hold_insert", !.amt = amt]
      BY <2>2 DEF HoldRoute
    <3> HIDE DEF amt
    <3> QED
      BY <3>1 DEF Plain, Call
  <2>3. CASE ~HasQuota(k, c.used)
    <3>1. HoldRoute(c).pc \in {"hold_check", "idle"}
      BY <2>3 DEF HoldRoute, HasQuota, Idle, Call
    <3> QED
      BY <3>1 DEF Plain
  <2> QED
    BY <2>1, <2>2, <2>3 DEF HasQuota
<1> QED
  BY <1>1, <1>2, <1>3 DEF Plain

\* An idle slot and a call that relies on no table are plain.
LEMMA LightPlain ==
  ASSUME NEW c, c.pc \in LightPcs PROVE Plain(c)
  BY DEF LightPcs, Plain

\* Hold debits the wallet one statement before it writes the row.
LEMMA HoldBooked ==
  ASSUME WInv, WInv', NEW s \in Slots,
         \/ HoldPeriod(s) \/ HoldQuota(s) \/ HoldCheck(s)
         \/ HoldDebit(s) \/ HoldInsert(s)
  PROVE  StayBooked
<1> DEFINE c == call[s]
           k == KeyOf[c.req]
<1>0. c.pc \in HoldPcs /\ c.pc # "idle"
  BY DEF HoldPeriod, HoldQuota, HoldCheck, HoldDebit, HoldInsert, HoldPcs
<1>1. /\ BInv /\ TypeOK /\ Alone(s, k) /\ c \in Call /\ c.req \in Requests /\ k \in Keys
      /\ Work(c, resv, host, periodEnd, now) /\ resv \in [Requests -> ResvRow]
  BY <1>0, Working DEF TypeOK
<1>2. resv[c.req] = NoResv /\ c.amt \in Nat /\ Idle.pc = "idle" /\ Plain(Idle)
  BY <1>0, <1>1, IdleLight, LightPlain DEF Work, Call, Idle
<1>3. CASE HoldPeriod(s)
  <2> DEFINE d == [c EXCEPT !.used = 0, !.at = 0]
  <2>1. /\ c.pc = "hold_period" /\ Set(s, HoldRoute(d))
        /\ UNCHANGED <<ledger, resv>>
    BY <1>3 DEF HoldPeriod, walletVars
  <2>2. c.amt = 0
    BY <1>1, <2>1 DEF Work
  <2>3. d \in Call /\ d.req = c.req
    BY <1>1 DEF Call
  <2> HIDE DEF d
  <2>4. Plain(HoldRoute(d)) /\ (HoldRoute(d).pc # "idle" => HoldRoute(d).req = c.req)
    BY <1>1, <2>3, RoutesPlain, RoutesBare
  <2>5. Plain(c)
    BY <2>1 DEF Plain
  <2> QED
    BY <1>0, <2>1, <2>4, <2>5, BookedStill
<1>4. CASE HoldQuota(s)
  <2> DEFINE d == [c EXCEPT !.pc = "hold_insert"]
  <2>1. c.pc = "hold_quota" /\ Set(s, d) /\ UNCHANGED <<ledger, resv>>
    BY <1>4 DEF HoldQuota, ConsumeQuota, walletVars
  <2>2. d.req = c.req /\ Plain(d) /\ Plain(c)
    BY <1>1, <2>1 DEF Call, Plain, Work
  <2> HIDE DEF d
  <2> QED
    BY <1>0, <2>1, <2>2, BookedStill
<1>5. CASE HoldCheck(s)
  <2> DEFINE d == [c EXCEPT !.pc = "hold_debit"]
  <2>1. c.pc = "hold_check" /\ (Set(s, d) \/ Set(s, Idle)) /\ UNCHANGED <<ledger, resv>>
    BY <1>5 DEF HoldCheck, walletVars
  <2>2. d.req = c.req /\ Plain(d) /\ Plain(c)
    BY <1>1, <2>1 DEF Call, Plain
  <2> HIDE DEF d
  <2> QED
    BY <1>0, <1>2, <2>1, <2>2, BookedStill
<1>6. CASE HoldDebit(s)
  <2> DEFINE d == [c EXCEPT !.pc = "hold_insert"]
             u == Owner[k]
  <2>1. c.pc = "hold_debit" /\ UNCHANGED resv /\ c.src = "wallet"
    BY <1>1, <1>6 DEF HoldDebit, Work
  <2>2. /\ d.req = c.req /\ d.pc = "hold_insert" /\ d.src = "wallet" /\ d.amt = c.amt
        /\ Plain(c)
    BY <1>1, <2>1 DEF Call, Plain
  <2> HIDE DEF d
  <2>3. CASE UNCHANGED ledger /\ Set(s, Idle)
    BY <1>0, <1>2, <2>1, <2>2, <2>3, BookedStill
  <2>4. CASE AdjustBalance(u, -c.amt, "hold", <<"hold", c.req>>, "system") /\ Set(s, d)
    <3>1. \A r \in Requests :
            /\ HeldIn(ledger, r) \in Int /\ BackIn(ledger, r) \in Int
            /\ HeldIn(ledger', r) = HeldIn(ledger, r) + (IF c.req = r THEN c.amt ELSE 0)
            /\ BackIn(ledger', r) = BackIn(ledger, r)
      <4>1. u \in Users /\ AdjustBalance(u, -c.amt, "hold", <<"hold", c.req>>, "system")
        BY <1>1, <2>4
      <4> HIDE DEF c, u
      <4> QED
        BY <1>1, <1>2, <4>1, HoldWritten
    <3>2. ASSUME NEW r \in Requests, BooksOf(r, c, resv[r], ledger)
          PROVE  BooksOf(r, d, resv[r], ledger')
      <4>1. CASE r # c.req
        <5>1. /\ HeldIn(ledger', r) = HeldIn(ledger, r)
              /\ BackIn(ledger', r) = BackIn(ledger, r)
          BY <3>1, <4>1
        <5>2. Off(r, c) /\ Off(r, d)
          BY <2>2, <4>1, PlainOff DEF Off, Inserting, Marking
        <5> QED
          BY <3>2, <5>1, <5>2, OffBooks DEF BooksOf
      <4>2. CASE r = c.req
        <5>1. Off(r, c) /\ resv[r] = NoResv
          BY <1>2, <2>2, <4>2, PlainOff
        <5>2. HeldIn(ledger, r) = 0 /\ BackIn(ledger, r) = 0
          BY <3>2, <5>1 DEF BooksOf, Books, Off, NoResv
        <5>3. HeldIn(ledger', r) = c.amt /\ BackIn(ledger', r) = 0
          BY <1>2, <3>1, <4>2, <5>2
        <5>4. Inserting(r, d) /\ ~Marking(r, d)
          BY <2>2, <4>2 DEF Inserting, Marking
        <5> QED
          BY <2>2, <5>1, <5>3, <5>4 DEF BooksOf, Books, NoResv
      <4> QED
        BY <4>1, <4>2
    <3>3. \A r \in Requests : KeyOf[r] # k => /\ HeldIn(ledger', r) = HeldIn(ledger, r)
                                              /\ BackIn(ledger', r) = BackIn(ledger, r)
      BY <3>1
    <3>4. resv' = resv
      BY <2>1
    <3> HIDE DEF c
    <3>5. Set(s, d) /\ (d.pc # "idle" => KeyOf[d.req] = k)
      BY <2>2, <2>4 DEF c
    <3>6. \A r \in Requests : /\ KeyOf[r] = k
                              /\ BooksOf(r, call[s], resv[r], ledger)
                             => BooksOf(r, d, resv'[r], ledger')
      BY <3>2, <3>4 DEF c
    <3>7. /\ Alone(s, k) /\ k \in Keys
          /\ call[s].pc # "idle" => KeyOf[call[s].req] = k
          /\ \A r \in Requests : KeyOf[r] # k => resv'[r] = resv[r]
      BY <1>1, <3>4 DEF c
    <3> HIDE DEF k
    <3> QED
      BY <3>3, <3>5, <3>6, <3>7, BookedNext
  <2> QED
    BY <1>6, <2>3, <2>4 DEF HoldDebit, walletVars, d
<1>7. CASE HoldInsert(s)
  <2> DEFINE row == [status |-> "open", hold |-> c.amt, source |-> c.src, at |-> now]
  <2>1. /\ c.pc = "hold_insert" /\ resv' = [resv EXCEPT ![c.req] = row] /\ Set(s, Idle)
        /\ UNCHANGED ledger
    BY <1>7 DEF HoldInsert, walletVars
  <2>2. row.status = "open" /\ row.hold = c.amt /\ row.source = c.src
    OBVIOUS
  <2> HIDE DEF row
  <2>3. resv'[c.req] = row /\ \A r \in Requests : r # c.req => resv'[r] = resv[r]
    BY <1>1, <2>1
  <2>4. ASSUME NEW r \in Requests, BooksOf(r, c, resv[r], ledger)
        PROVE  BooksOf(r, Idle, resv'[r], ledger')
    <3>1. ~Marking(r, c) /\ ~Inserting(r, Idle) /\ ~Marking(r, Idle) /\ ledger' = ledger
      BY <1>2, <2>1 DEF Marking, Inserting
    <3>2. CASE r # c.req
      BY <2>3, <2>4, <3>1, <3>2, OffBooks DEF BooksOf, Off, Inserting
    <3>3. CASE r = c.req
      <4>1. Inserting(r, c) <=> c.src = "wallet"
        BY <2>1, <3>3 DEF Inserting
      <4> QED
        BY <1>2, <2>2, <2>3, <2>4, <3>1, <3>3, <4>1 DEF BooksOf, Books, NoResv
    <3> QED
      BY <3>2, <3>3
  <2>5. \A r \in Requests : KeyOf[r] # k => resv'[r] = resv[r]
    BY <2>3
  <2>6. ledger' = ledger
    BY <2>1
  <2> HIDE DEF k
  <2> QED
    BY <1>1, <1>2, <2>1, <2>4, <2>5, <2>6, BookedNext DEF k
<1> QED
  BY <1>3, <1>4, <1>5, <1>6, <1>7

\* A refund of a wallet hold is in the ledger one statement before its mark.
LEMMA RefundBooked ==
  ASSUME WInv, WInv', NEW s \in Slots, NEW d, NEW n, n \in Nat,
         NEW tag \in {"settle", "release"},
         call[s].pc \in {"settle_refund", "release_refund"},
         Refund(call[s].res, n, tag), Set(s, d), UNCHANGED resv,
         d.req = call[s].req, d.res = call[s].res,
         \/ d.pc = "settle_mark" /\ Larger(0, d.amt - Actual(d)) = n
         \/ d.pc = "release_mark" /\ d.amt = n
  PROVE  StayBooked
<1> DEFINE c == call[s]
           k == KeyOf[c.req]
<1>1. /\ TypeOK /\ Alone(s, k) /\ k \in Keys
      /\ c.res \in Requests /\ KeyOf[c.res] = k
      /\ Work(c, resv, host, periodEnd, now) /\ Owner[k] \in Users
  BY Working DEF RefundPcs, ReleasePcs
<1>2. resv[c.res].status = "open"
  BY <1>1 DEF Work, RefundPcs, ReleasePcs
<1>r. PICK q \in Requests : q = c.res
  BY <1>1
<1>3. \A r \in Requests :
        /\ HeldIn(ledger', r) = HeldIn(ledger, r)
        /\ r # q \/ resv[q].source # "wallet" => BackIn(ledger', r) = BackIn(ledger, r)
        /\ r = q /\ resv[q].source = "wallet" /\ BackIn(ledger, r) = 0 =>
             BackIn(ledger', r) = n
  <2>1. CASE resv[q].source # "wallet"
    BY <1>r, <2>1 DEF Refund, walletVars
  <2>2. CASE resv[q].source = "wallet"
    <3>1. AdjustBalance(Owner[k], n, "refund", <<tag, q>>, "system")
      BY <1>1, <1>r, <2>2 DEF Refund
    <3>2. \A r \in Requests :
            /\ HeldIn(ledger, r) \in Int /\ BackIn(ledger, r) \in Int
            /\ HeldIn(ledger', r) = HeldIn(ledger, r)
            /\ BackIn(ledger', r) = BackIn(ledger, r) + (IF q = r THEN n ELSE 0)
      <4>1. PICK u \in Users : u = Owner[k]
        BY <1>1
      <4>2. /\ TypeOK /\ AdjustBalance(u, n, "refund", <<tag, q>>, "system")
            /\ n \in Nat /\ tag \in {"settle", "release"} /\ u \in Users /\ q \in Requests
        BY <1>1, <3>1, <4>1
      <4>3. ASSUME NEW r \in Requests
            PROVE  /\ HeldIn(ledger, r) \in Int /\ BackIn(ledger, r) \in Int
                   /\ HeldIn(ledger', r) = HeldIn(ledger, r)
                   /\ BackIn(ledger', r) = BackIn(ledger, r) + (IF q = r THEN n ELSE 0)
        <5>1. r \in Requests
          OBVIOUS
        <5> QED
          BY ONLY <4>2, <5>1, RefundWritten, ZenonT(60)
      <4> QED
        BY <4>3
    <3> QED
      BY <2>2, <3>2
  <2> QED
    BY <2>1, <2>2
<1>4. ASSUME NEW r \in Requests, BooksOf(r, c, resv[r], ledger)
      PROVE  BooksOf(r, d, resv[r], ledger')
  <2>1. Off(r, c) /\ ~Inserting(r, d) /\ (Marking(r, d) <=> r = q)
    BY <1>r DEF Off, Inserting, Marking
  <2>2. CASE r # q
    BY <1>3, <1>4, <2>1, <2>2, OffBooks DEF BooksOf, Off
  <2>3. CASE r = q /\ resv[q].source # "wallet"
    BY <1>3, <1>4, <2>1, <2>3 DEF BooksOf, Books, Off
  <2>4. CASE r = q /\ resv[q].source = "wallet"
    <3>1. BackIn(ledger, r) = 0
      BY <1>2, <1>r, <1>4, <2>1, <2>4 DEF BooksOf, Books, Off
    <3>2. BackIn(ledger', r) = IF d.pc = "settle_mark" THEN Larger(0, d.amt - Actual(d))
                               ELSE d.amt
      BY <1>3, <2>4, <3>1
    <3> QED
      BY <1>3, <1>4, <2>1, <2>4, <3>2 DEF BooksOf, Books, Off
  <2> QED
    BY <2>2, <2>3, <2>4
<1>5. \A r \in Requests : /\ KeyOf[r] # k => /\ resv'[r] = resv[r]
                                             /\ HeldIn(ledger', r) = HeldIn(ledger, r)
                                             /\ BackIn(ledger', r) = BackIn(ledger, r)
  BY <1>1, <1>r, <1>3
<1>6. /\ call[s].pc # "idle" => KeyOf[call[s].req] = k
      /\ d.pc # "idle" => KeyOf[d.req] = k
      /\ \A r \in Requests : /\ KeyOf[r] = k
                             /\ BooksOf(r, call[s], resv[r], ledger)
                            => BooksOf(r, d, resv'[r], ledger')
  BY <1>4
<1> HIDE DEF c, k
<1> QED
  BY <1>1, <1>5, <1>6, BookedNext

\* The mark says of a refunded row what the ledger already says.
LEMMA MarkBooked ==
  ASSUME WInv, WInv', NEW s \in Slots, NEW d, NEW status,
         \/ call[s].pc = "settle_mark" /\ status = "settled"
         \/ call[s].pc = "release_mark" /\ status = "released",
         Set(s, d), Plain(d), d.pc # "idle" => d.req = call[s].req,
         resv' = [resv EXCEPT ![call[s].res].status = status],
         UNCHANGED ledger
  PROVE  StayBooked
<1> DEFINE c == call[s]
           k == KeyOf[c.req]
<1>1. /\ TypeOK /\ Alone(s, k) /\ k \in Keys /\ c \in Call
      /\ c.res \in Requests /\ KeyOf[c.res] = k
      /\ Work(c, resv, host, periodEnd, now)
      /\ resv \in [Requests -> ResvRow]
  BY Working DEF RefundPcs, ReleasePcs, TypeOK
<1>2. /\ resv[c.res].status = "open" /\ resv[c.res].hold = c.amt
      /\ c.amt \in Nat /\ Actual(c) \in Nat
  BY <1>1, ActualNat DEF Work, RefundPcs, ReleasePcs, Call
<1>r. PICK q \in Requests : q = c.res
  BY <1>1
<1>3. /\ resv'[q].status = status /\ resv'[q].hold = c.amt
      /\ resv'[q].source = resv[q].source
      /\ \A r \in Requests : r # q => resv'[r] = resv[r]
  BY <1>r, <1>1, <1>2 DEF ResvRow
<1>4. ASSUME NEW r \in Requests, BooksOf(r, c, resv[r], ledger)
      PROVE  BooksOf(r, d, resv'[r], ledger')
  <2>1. ~Inserting(r, c) /\ (Marking(r, c) <=> r = q) /\ Off(r, d)
    BY <1>r, PlainOff DEF Inserting, Marking
  <2>2. CASE r # q
    BY <1>3, <1>4, <2>1, <2>2, OffBooks DEF BooksOf, Off
  <2>3. CASE r = q /\ resv[q].source # "wallet"
    <3>1. HeldIn(ledger, r) = 0 /\ BackIn(ledger, r) = 0
      BY <1>2, <1>r, <1>4, <2>1, <2>3 DEF BooksOf, Books
    <3> QED
      BY <1>3, <2>1, <2>3, <3>1 DEF BooksOf, Books, Off
  <2>4. CASE r = q /\ resv[q].source = "wallet"
    <3>1. /\ HeldIn(ledger, r) = c.amt
          /\ BackIn(ledger, r) = IF c.pc = "settle_mark" THEN Larger(0, c.amt - Actual(c))
                                 ELSE c.amt
      BY <1>2, <1>r, <1>4, <2>1, <2>4 DEF BooksOf, Books
    <3>2. \A m, n \in Nat : Larger(0, m - n) <= m
      BY DEF Larger
    <3>3. /\ status \in {"settled", "released"}
          /\ status = "released" => BackIn(ledger, r) = HeldIn(ledger, r)
          /\ status = "settled" => BackIn(ledger, r) <= HeldIn(ledger, r)
      BY <1>2, <3>1, <3>2
    <3> QED
      BY <1>3, <2>1, <2>4, <3>1, <3>3 DEF BooksOf, Books, Off
  <2> QED
    BY <2>2, <2>3, <2>4
<1>5. \A r \in Requests : /\ KeyOf[r] # k => /\ resv'[r] = resv[r]
                                             /\ HeldIn(ledger', r) = HeldIn(ledger, r)
                                             /\ BackIn(ledger', r) = BackIn(ledger, r)
  BY <1>1, <1>r, <1>3
<1>6. /\ call[s].pc # "idle" => KeyOf[call[s].req] = k
      /\ d.pc # "idle" => KeyOf[d.req] = k
      /\ \A r \in Requests : /\ KeyOf[r] = k
                             /\ BooksOf(r, call[s], resv[r], ledger)
                            => BooksOf(r, d, resv'[r], ledger')
  BY <1>4
<1> HIDE DEF c, k
<1> QED
  BY <1>1, <1>5, <1>6, BookedNext

\* Charge settles a hold of the key; what it debits is no hold and no refund.
LEMMA ChargeBooked ==
  ASSUME WInv, WInv', NEW s \in Slots,
         \/ ChargePeriod(s) \/ ChargeCount(s) \/ ChargeOwn(s) \/ SettlePick(s)
         \/ SettleRefund(s) \/ SettleMark(s) \/ ExtraCheck(s) \/ ExtraDebit(s)
         \/ ChargeQuota(s) \/ OverCheck(s) \/ OverDebit(s) \/ Record(s)
  PROVE  StayBooked
<1> DEFINE c == call[s]
           k == KeyOf[c.req]
<1>0. c.pc # "idle"
  BY DEF ChargePeriod, ChargeCount, ChargeOwn, SettlePick, SettleRefund,
         SettleMark, ExtraCheck, ExtraDebit, ChargeQuota, OverCheck, OverDebit, Record
<1>1. /\ TypeOK /\ Alone(s, k) /\ c \in Call /\ c.req \in Requests /\ k \in Keys
      /\ Fine(c, used) /\ Work(c, resv, host, periodEnd, now)
      /\ \A r \in Requests : resv[r] \in ResvRow
  BY <1>0, Working
<1>2. Idle.pc = "idle" /\ Plain(Idle)
  BY DEF Idle, Plain
<1>3. CASE ChargePeriod(s)
  <2> DEFINE d == UnitRoute([c EXCEPT !.used = 0, !.at = 0])
  <2>1. c.pc = "charge_period" /\ Set(s, d) /\ UNCHANGED <<ledger, resv>>
    BY <1>3 DEF ChargePeriod, walletVars
  <2>2. d.pc \in LightPcs /\ d.req = c.req
    BY <1>1 DEF UnitRoute, Call, LightPcs
  <2> HIDE DEF d
  <2>3. Plain(c) /\ Plain(d)
    BY <2>1, <2>2, LightPlain DEF Plain
  <2> QED
    BY <1>0, <2>1, <2>2, <2>3, BookedStill
<1>4. CASE ChargeCount(s) \/ ChargeOwn(s)
  <2>1. UNCHANGED <<ledger, resv>> /\ Plain(c)
    BY <1>4 DEF ChargeCount, ChargeOwn, walletVars, Plain
  <2>2. \A n : LET d == [c EXCEPT !.unit = n, !.pc = "charge_own"]
               IN  d.req = c.req /\ Plain(d)
    BY <1>1 DEF Call, Plain
  <2>3. \A o : LET d == [c EXCEPT !.pc = "settle_pick", !.own = o]
               IN  d.req = c.req /\ Plain(d)
    BY <1>1 DEF Call, Plain
  <2>4. \/ \E n : Set(s, [c EXCEPT !.unit = n, !.pc = "charge_own"])
        \/ \E o : Set(s, [c EXCEPT !.pc = "settle_pick", !.own = o])
    BY <1>4 DEF ChargeCount, ChargeOwn
  <2> QED
    BY <1>0, <2>1, <2>2, <2>3, <2>4, BookedStill
<1>5. CASE SettlePick(s)
  <2>1. UNCHANGED <<ledger, resv>> /\ Plain(c)
    BY <1>5 DEF SettlePick, walletVars, Plain
  <2>2. ASSUME Set(s, ChargeRoute([c EXCEPT !.amt = c.unit])) PROVE StayBooked
    <3> DEFINE d == [c EXCEPT !.amt = c.unit]
    <3>1. d \in Call /\ d.req \in Requests /\ d.req = c.req /\ Set(s, ChargeRoute(d))
      BY <1>1, <2>2 DEF Call
    <3> HIDE DEF d
    <3>2. Plain(ChargeRoute(d)) /\ ChargeRoute(d).req = c.req
      BY <3>1, RoutesPlain, RoutesBare
    <3> QED
      BY <1>0, <2>1, <3>1, <3>2, BookedStill
  <2>3. ASSUME NEW q \in Requests, resv[q].status = "open", KeyOf[q] = k,
               Set(s, [c EXCEPT !.res = q,
                         !.pc = IF resv[q].hold > Actual(c)
                                  THEN "settle_refund" ELSE "settle_mark",
                         !.amt = resv[q].hold])
        PROVE  StayBooked
    <3> DEFINE h == resv[q].hold
               d == [c EXCEPT !.res = q,
                       !.pc = IF h > Actual(c) THEN "settle_refund" ELSE "settle_mark",
                       !.amt = h]
    <3>1. h \in Nat /\ Actual(c) \in Nat
      BY <1>1, ActualNat DEF ResvRow
    <3>2. /\ d.req = c.req /\ d.res = q /\ d.amt = h /\ Actual(d) = Actual(c)
          /\ d.pc = IF h > Actual(c) THEN "settle_refund" ELSE "settle_mark"
          /\ Set(s, d)
      BY <1>1, <2>3 DEF Call, Actual
    <3> HIDE DEF d
    <3>3. d.pc = "settle_mark" => Larger(0, d.amt - Actual(d)) = 0
      <4>1. \A m, n \in Nat : ~(m > n) => Larger(0, m - n) = 0
        BY DEF Larger
      <4> QED
        BY <3>1, <3>2, <4>1
    <3>4. ASSUME NEW r \in Requests, BooksOf(r, c, resv[r], ledger)
          PROVE  BooksOf(r, d, resv[r], ledger)
      <4>1. Off(r, c) /\ ~Inserting(r, d)
        BY <2>1, <3>2, PlainOff DEF Inserting
      <4>2. CASE ~Marking(r, d)
        BY <3>4, <4>1, <4>2, OffBooks DEF BooksOf, Off
      <4>3. CASE Marking(r, d)
        <5>1. r = q /\ d.pc = "settle_mark"
          BY <3>2, <4>3 DEF Marking
        <5>2. BackIn(ledger, r) = 0
          BY <2>3, <3>4, <4>1, <5>1 DEF BooksOf, Books, Off
        <5> QED
          BY <2>3, <3>3, <3>4, <4>1, <5>1, <5>2 DEF BooksOf, Books, Off
      <4> QED
        BY <4>2, <4>3
    <3>5. /\ call[s].pc # "idle" => KeyOf[call[s].req] = k
          /\ d.pc # "idle" => KeyOf[d.req] = k
          /\ \A r \in Requests : /\ KeyOf[r] # k => /\ resv'[r] = resv[r]
                                             /\ HeldIn(ledger', r) = HeldIn(ledger, r)
                                             /\ BackIn(ledger', r) = BackIn(ledger, r)
          /\ \A r \in Requests : /\ KeyOf[r] = k
                                 /\ BooksOf(r, call[s], resv[r], ledger)
                                => BooksOf(r, d, resv'[r], ledger')
      BY <2>1, <3>2, <3>4
    <3> HIDE DEF c, k
    <3> QED
      BY <1>1, <3>2, <3>5, BookedNext
  <2> QED
    BY <1>5, <2>2, <2>3 DEF SettlePick, OpenOf
<1>6. CASE SettleRefund(s)
  <2> DEFINE d == [c EXCEPT !.pc = "settle_mark"]
             n == c.amt - Actual(c)
  <2>1. c.pc = "settle_refund" /\ Refund(c.res, n, "settle") /\ Set(s, d)
        /\ UNCHANGED resv
    BY <1>6 DEF SettleRefund
  <2>2. c.amt \in Nat /\ Actual(c) \in Nat /\ Actual(c) <= c.amt
    BY <1>1, <2>1, ActualNat DEF Call, Fine
  <2>3. /\ d.pc = "settle_mark" /\ d.req = c.req /\ d.res = c.res /\ d.amt = c.amt
        /\ Actual(d) = Actual(c)
    BY <1>1 DEF Call, Actual
  <2> HIDE DEF d
  <2>4. n \in Nat /\ Larger(0, d.amt - Actual(d)) = n
    BY <2>2, <2>3 DEF Larger
  <2> HIDE DEF n
  <2> QED
    BY <2>1, <2>3, <2>4, RefundBooked
<1>7. CASE SettleMark(s)
  <2> DEFINE d == [c EXCEPT !.amt = Larger(0, Actual(c) - c.amt)]
  <2>1. c.pc = "settle_mark" /\ Set(s, AfterSettle(d)) /\ UNCHANGED ledger
        /\ resv' = [resv EXCEPT ![c.res].status = "settled"]
    BY <1>7 DEF SettleMark, walletVars
  <2>2. d \in Call /\ d.req \in Requests /\ d.req = c.req
    <3>1. c.amt \in Nat /\ Actual(c) \in Nat
      BY <1>1, ActualNat DEF Call
    <3>2. Larger(0, Actual(c) - c.amt) \in Nat
      BY <3>1 DEF Larger
    <3> QED
      BY <1>1, <3>2 DEF Call
  <2> HIDE DEF d
  <2>3. Plain(AfterSettle(d)) /\ AfterSettle(d).req = c.req
    BY <2>2, RoutesPlain, RoutesBare
  <2> QED
    BY <2>1, <2>3, MarkBooked
<1>8. CASE \/ ChargeQuota(s) \/ ExtraCheck(s) \/ OverCheck(s) \/ Record(s)
           \/ (ExtraDebit(s) \/ OverDebit(s)) /\ UNCHANGED ledger
  <2>1. UNCHANGED <<ledger, resv>> /\ Plain(c)
    BY <1>8 DEF ChargeQuota, ConsumeQuota, ExtraCheck, ExtraDebit, OverCheck, OverDebit,
                Record, DebitOwner, walletVars, Plain
  <2>2. \A pc \in {"extra_debit", "over_debit", "record"} :
          /\ LET d == [c EXCEPT !.pc = pc] IN d.req = c.req /\ Plain(d)
          /\ \A src : LET d == [c EXCEPT !.pc = pc, !.src = src]
                      IN  d.req = c.req /\ Plain(d)
    BY <1>1 DEF Call, Plain
  <2>3. \/ \E pc \in {"extra_debit", "over_debit", "record"} : Set(s, [c EXCEPT !.pc = pc])
        \/ \E pc \in {"extra_debit", "over_debit", "record"}, src \in Sources :
             Set(s, [c EXCEPT !.pc = pc, !.src = src])
        \/ Set(s, Idle)
    BY <1>8 DEF ChargeQuota, ExtraCheck, ExtraDebit, OverCheck, OverDebit, Record,
                DebitOwner, Sources
  <2> QED
    BY <1>0, <1>2, <2>1, <2>2, <2>3, BookedStill
<1>9. CASE ExtraDebit(s) \/ OverDebit(s)
  <2> DEFINE d == [c EXCEPT !.pc = "record", !.src = "wallet"]
  <2>1. PICK amount \in {c.amt, BillableCost(c.use)} : DebitOwner(s, amount)
    BY <1>9 DEF ExtraDebit, OverDebit
  <2>2. UNCHANGED resv /\ Plain(c) /\ amount \in Nat
    <3>1. c.amt \in Nat /\ BillableCost(c.use) \in Nat
      BY <1>1, BillableNat DEF Call
    <3> QED
      BY <1>9, <2>1, <3>1 DEF DebitOwner, Plain, ExtraDebit, OverDebit
  <2>3. CASE UNCHANGED ledger
    BY <1>8, <1>9, <2>3
  <2>4. CASE AdjustBalance(Owner[k], -amount, "usage", <<"usage", NoReq>>, "system")
             /\ Set(s, d)
    <3>1. d.req = c.req /\ Plain(d)
      BY <1>1 DEF Call, Plain
    <3> DEFINE u == Owner[k]
    <3>2. u \in Users
      BY <1>1
    <3>3. AdjustBalance(u, -amount, "usage", <<"usage", NoReq>>, "system") /\ Set(s, d)
      BY <2>4
    <3> HIDE DEF u, d
    <3>5. \A r \in Requests : /\ HeldIn(ledger', r) = HeldIn(ledger, r)
                              /\ BackIn(ledger', r) = BackIn(ledger, r)
      BY <1>1, <2>2, <3>2, <3>3, UsageWritten
    <3>6. /\ call[s].pc # "idle" => KeyOf[call[s].req] = k
          /\ d.pc # "idle" => KeyOf[d.req] = k
          /\ resv' = resv /\ Plain(call[s])
      BY <2>2, <3>1
    <3> HIDE DEF c, k
    <3> QED
      BY <1>1, <3>1, <3>3, <3>5, <3>6, BookedPlain
  <2> QED
    BY <2>1, <2>3, <2>4 DEF DebitOwner, walletVars
<1> QED
  BY <1>3, <1>4, <1>5, <1>6, <1>7, <1>8, <1>9

\* Release gives all of the hold back.
LEMMA ReleaseBooked ==
  ASSUME WInv, WInv', NEW s \in Slots, ReleaseRefund(s) \/ ReleaseMark(s)
  PROVE  StayBooked
<1> DEFINE c == call[s]
<1>1. CASE ReleaseRefund(s)
  <2> DEFINE d == [c EXCEPT !.pc = "release_mark"]
             n == c.amt
  <2>1. /\ c.pc = "release_refund" /\ Refund(c.res, n, "release") /\ Set(s, d)
        /\ UNCHANGED resv
    BY <1>1 DEF ReleaseRefund
  <2>2. c \in Call /\ n \in Nat
    BY <2>1, Working DEF Call
  <2>3. d.pc = "release_mark" /\ d.req = c.req /\ d.res = c.res /\ d.amt = n
    BY <2>2 DEF Call
  <2> HIDE DEF d, n
  <2> QED
    BY <2>1, <2>2, <2>3, RefundBooked
<1>2. CASE ReleaseMark(s)
  <2>1. /\ c.pc = "release_mark" /\ Set(s, Idle) /\ UNCHANGED ledger
        /\ resv' = [resv EXCEPT ![c.res].status = "released"]
    BY <1>2 DEF ReleaseMark, walletVars
  <2>2. Idle.pc = "idle" /\ Plain(Idle)
    BY DEF Idle, Plain
  <2> QED
    BY <2>1, <2>2, MarkBooked
<1> QED
  BY <1>1, <1>2

\* Beginning a call moves no money.
LEMMA BeginBooked ==
  ASSUME KeyCalls = 1, WInv, WInv', NEW s \in Slots, NEW r \in Requests,
         \/ HoldBegin(s, r)
         \/ \E use \in Uses : ChargeBegin(s, r, use)
         \/ CompleteFailed(s, r)
         \/ BootRelease(s, r)
  PROVE  StayBooked
<1> DEFINE k == KeyOf[r]
<1>1. /\ TypeOK /\ k \in Keys /\ Alone(s, k) /\ now \in Nat /\ used[k] \in Nat
  BY PlanOf, BeginAlone DEF WInv, QInv, BInv, TypeOK
<1>2. UNCHANGED <<ledger, resv>> /\ call[s].pc = "idle" /\ Plain(call[s])
  BY DEF HoldBegin, ChargeBegin, CompleteFailed, BootRelease, walletVars, Free, Plain
<1>4. ASSUME NEW d, Set(s, d), Plain(d), d.pc # "idle" => d.req = r PROVE StayBooked
  <2>1. /\ resv' = resv
        /\ \A q \in Requests : /\ HeldIn(ledger', q) = HeldIn(ledger, q)
                               /\ BackIn(ledger', q) = BackIn(ledger, q)
    BY <1>2
  <2> QED
    BY <1>1, <1>2, <1>4, <2>1, BookedPlain
<1>5. Idle.pc = "idle" /\ Plain(Idle)
  BY DEF Idle, Plain
<1>6. ASSUME HoldBegin(s, r) PROVE StayBooked
  <2> DEFINE c == [Idle EXCEPT !.req = r, !.used = used[k]]
             d == [c EXCEPT !.pc = "hold_period", !.at = now]
  <2>1. c \in Call /\ c.req = r /\ c.amt = 0
    BY <1>1 DEF Idle, NoUse, Call, Usage, Sources
  <2>2. d.pc = "hold_period" /\ d.req = r
    BY <2>1 DEF Call
  <2>3. Set(s, d) \/ Set(s, HoldRoute(c))
    BY <1>6 DEF HoldBegin
  <2> HIDE DEF c, d
  <2>4. Plain(d)
    BY <2>2 DEF Plain
  <2>5. Plain(HoldRoute(c)) /\ (HoldRoute(c).pc # "idle" => HoldRoute(c).req = r)
    BY <2>1, RoutesPlain, RoutesBare
  <2> QED
    BY <1>4, <2>2, <2>3, <2>4, <2>5
<1>7. ASSUME NEW use \in Uses, ChargeBegin(s, r, use) PROVE StayBooked
  <2> DEFINE c == [Idle EXCEPT !.req = r, !.use = use, !.used = used[k]]
             d == [c EXCEPT !.pc = "charge_period", !.at = now]
             e == [c EXCEPT !.pc = "record"]
  <2>1. c \in Call /\ c.req = r
    BY <1>1 DEF Idle, Call, Usage, Sources
  <2>2. d.pc = "charge_period" /\ d.req = r /\ e.pc = "record" /\ e.req = r
    BY <2>1 DEF Call
  <2>3. UnitRoute(c).pc \in LightPcs /\ UnitRoute(c).req = r
    BY <2>1 DEF UnitRoute, Call, LightPcs
  <2>4. Set(s, d) \/ Set(s, e) \/ Set(s, UnitRoute(c))
    BY <1>7 DEF ChargeBegin
  <2> HIDE DEF c, d, e
  <2>5. Plain(d) /\ Plain(e) /\ Plain(UnitRoute(c))
    BY <2>2, <2>3, LightPlain DEF Plain
  <2> QED
    BY <1>4, <2>2, <2>3, <2>4, <2>5
<1>8. ASSUME ReadRelease(s, r) PROVE StayBooked
  <2>1. ReleaseCall(r).req = r /\ Plain(ReleaseCall(r))
    BY DEF ReleaseCall, Idle, Plain
  <2> QED
    BY <1>4, <1>5, <1>8, <2>1 DEF ReadRelease
<1> QED
  BY <1>6, <1>7, <1>8 DEF CompleteFailed, BootRelease

\* The host and the other process steps touch neither the ledger nor the rows.
LEMMA ProcessBooked ==
  ASSUME WInv,
         \/ \E r \in Requests : CompleteSucceeded(r)
         \/ Boot \/ BootDone \/ Edit \/ Tick \/ UNCHANGED vars
  PROVE  StayBooked
<1>1. UNCHANGED <<ledger, resv, call>>
  BY DEF CompleteSucceeded, Boot, BootDone, Edit, Switch, EditTerms, UpdateMode,
         UpdateLimit, Tick, vars, walletVars
<1> QED
  BY <1>1 DEF StayBooked, Booked

\* A crash loses only what a call has debited and not inserted, or refunded and
\* not marked.
LEMMA CrashBooked ==
  ASSUME WInv, Crash, NEW r \in Requests, Booked(r),
         \A t \in Slots : WorksOn(call[t], KeyOf[r]) => Off(r, call[t])
  PROVE  Booked(r)'
<1>1. UNCHANGED <<ledger, resv>> /\ \A t \in Slots : call'[t] = Idle
  BY DEF Crash, walletVars
<1>2. BooksOf(r, Idle, resv[r], ledger)
  <2>1. CASE \E t \in Slots : WorksOn(call[t], KeyOf[r])
    <3>1. PICK t \in Slots : WorksOn(call[t], KeyOf[r])
      BY <2>1
    <3>2. BooksOf(r, call[t], resv[r], ledger)
      BY <3>1 DEF Booked
    <3> QED
      BY <3>1, <3>2, OffIdle, OffBooks DEF BooksOf
  <2>2. CASE \A t \in Slots : ~WorksOn(call[t], KeyOf[r])
    BY <2>2 DEF Booked
  <2> QED
    BY <2>1, <2>2
<1>3. \A t \in Slots : ~WorksOn(call'[t], KeyOf[r])
  BY <1>1 DEF WorksOn, Idle
<1> QED
  BY <1>1, <1>2, <1>3 DEF Booked

\* The ledger the recharges left has no row of any request.
LEMMA InitEven == Init => Even
<1> SUFFICES ASSUME Init, NEW r \in Requests PROVE BooksOf(r, Idle, resv[r], ledger)
  BY DEF Init, Even, Booked, WorksOn, Idle
<1>1. \A tag \in Tags : Moved(ledger, tag, r) = 0
  <2> SUFFICES ASSUME NEW tag \in Tags PROVE Moved(ledger, tag, r) = 0
    OBVIOUS
  <2> DEFINE S == MovedRows(ledger, tag, r)
             f == [i \in S |-> ledger[i].delta]
  <2>1. S = {}
    <3>1. ledger = StartLedger /\ <<tag, r>> \in Tags \X Requests
      BY DEF Init
    <3> QED
      BY <3>1, OpeningAssumption DEF MovedRows
  <2>2. Moved(ledger, tag, r) = SumFunctionOnSet(f, S)
    BY DEF Moved, SumFunction
  <2> HIDE DEF f, S
  <2> QED
    BY <2>1, <2>2, SumEmpty
<1>2. HeldIn(ledger, r) = 0 /\ BackIn(ledger, r) = 0
  BY <1>1 DEF HeldIn, BackIn, Tags
<1>3. resv[r] = NoResv
  BY DEF Init
<1> QED
  BY <1>2, <1>3, OffIdle DEF BooksOf, Books, Off, NoResv

\* Every step but a crash keeps the requests booked that are.
LEMMA StepBooked ==
  ASSUME KeyCalls = 1 PROVE WInv /\ [Next]_vars /\ ~Crash => StayBooked
<1> SUFFICES ASSUME WInv, [Next]_vars, ~Crash PROVE StayBooked
  OBVIOUS
<1>1. WInv'
  BY StepWorks
<1>2. ASSUME NEW s \in Slots, Step(s) PROVE StayBooked
  BY <1>1, <1>2, HoldBooked, ChargeBooked, ReleaseBooked DEF Step
<1>3. ASSUME NEW s \in Slots, Begin(s) PROVE StayBooked
  BY <1>1, <1>3, BeginBooked DEF Begin
<1> QED
  BY <1>2, <1>3, ProcessBooked DEF Next

\* A request a crash has met stays lost, and a crash spares those not begun.
LEMMA LostStays ==
  ASSUME TypeOK, [Next]_vars, NEW r \in Requests
  PROVE  /\ host[r].stage = "lost" => host'[r].stage = "lost"
         /\ Crash /\ host'[r].stage # "lost" => host[r].stage = "new"
<1>1. host \in [Requests -> Host]
  BY DEF TypeOK
<1>2. CASE host' = host /\ ~Crash
  BY <1>2
<1>3. CASE Crash
  BY <1>3 DEF Crash
<1>4. ASSUME NEW s \in Slots, Step(s) PROVE host' = host
  BY <1>4 DEF Step, HoldPeriod, HoldQuota, HoldCheck, HoldDebit, HoldInsert, ChargePeriod,
         ChargeCount, ChargeOwn, SettlePick, SettleRefund, SettleMark, ExtraCheck,
         ExtraDebit, ChargeQuota, OverCheck, OverDebit, Record, ReleaseRefund,
         ReleaseMark, DebitOwner
<1>5. CASE \E q \in Requests, stage \in {"running", "succeeded", "failed"} :
             /\ host[q].stage # "lost"
             /\ host' = [host EXCEPT ![q].stage = stage]
  BY <1>1, <1>3, <1>5 DEF Host
<1>6. CASE \E q \in Requests : /\ host' = [host EXCEPT ![q].uses = @ + 1]
  BY <1>1, <1>3, <1>6 DEF Host
<1>7. ASSUME NEW s \in Slots, Begin(s)
      PROVE  \/ host' = host
             \/ \E q \in Requests, stage \in {"running", "succeeded", "failed"} :
                  /\ host[q].stage # "lost"
                  /\ host' = [host EXCEPT ![q].stage = stage]
             \/ \E q \in Requests : host' = [host EXCEPT ![q].uses = @ + 1]
  <2>1. PICK q \in Requests : \/ HoldBegin(s, q)
                              \/ \E use \in Uses : ChargeBegin(s, q, use)
                              \/ CompleteFailed(s, q)
                              \/ BootRelease(s, q)
    BY <1>7 DEF Begin
  <2> QED
    BY <2>1 DEF HoldBegin, ChargeBegin, CompleteFailed, BootRelease
<1>8. ASSUME NEW q \in Requests, CompleteSucceeded(q)
      PROVE  host[q].stage # "lost" /\ host' = [host EXCEPT ![q].stage = "succeeded"]
  BY <1>8 DEF CompleteSucceeded
<1>9. ASSUME Boot \/ BootDone \/ Edit \/ Tick \/ UNCHANGED vars PROVE host' = host
  BY <1>9 DEF Boot, BootDone, Edit, Tick, vars
<1> QED
  BY <1>2, <1>3, <1>4, <1>5, <1>6, <1>7, <1>8, <1>9 DEF Next

\* What no crash has met is booked: a request is lost before it comes undone.
LEMMA StepEven ==
  ASSUME KeyCalls = 1 PROVE WInv /\ Even /\ [Next]_vars => Even'
<1> SUFFICES ASSUME WInv, Even, [Next]_vars, NEW r \in Requests, host'[r].stage # "lost"
             PROVE  Booked(r)'
  BY DEF Even
<1>1. /\ host[r].stage # "lost" /\ Booked(r)
      /\ Crash => host[r].stage = "new"
  BY LostStays DEF Even, WInv, QInv, BInv
<1>2. CASE ~Crash
  BY <1>1, <1>2, StepBooked DEF StayBooked
<1>3. CASE Crash
  <2>1. ASSUME NEW t \in Slots PROVE Off(r, call[t])
    <3>1. Work(call[t], resv, host, periodEnd, now) /\ Row(r, resv[r], host[r].stage)
      BY DEF WInv, Works
    <3> QED
      BY <1>1, <1>3, <3>1
         DEF Work, Row, NoResv, Off, Inserting, Marking, HoldPcs, RefundPcs, ReleasePcs
  <2> QED
    BY <1>1, <1>3, <2>1, CrashBooked
<1> QED
  BY <1>2, <1>3

\* While the host runs the calls of a key one after another, every wallet hold in
\* the ledger has its row and exactly the refunds the row's status calls for,
\* whatever overflows, late usage, edits and crashes come between; the requests
\* a crash has met are left out by the property (WalletHoldsReconcile: Hold,
\* Settle, Charge, Release, Boot).
THEOREM SerialHoldsReconcile ==
  ASSUME KeyCalls = 1 PROVE Spec => []WalletHoldsReconcile
<1>1. WInv /\ Even => WalletHoldsReconcile
  <2> SUFFICES ASSUME WInv, Even, NEW r \in Requests, Quiet(KeyOf[r]),
                      host[r].stage # "lost"
               PROVE  LET held     == -Ledgered("hold", r)
                          returned == Ledgered("settle", r) + Ledgered("release", r)
                          row      == resv[r]
                      IN /\ held = IF row.source = "wallet" THEN row.hold ELSE 0
                         /\ row.status = "open" => returned = 0
                         /\ row.status = "released" => returned = held
                         /\ returned <= held
    BY DEF WalletHoldsReconcile
  <2>1. \A tag : Ledgered(tag, r) = Moved(ledger, tag, r)
    BY DEF Ledgered, LedgerRows, Moved, MovedRows
  <2>2. BooksOf(r, Idle, resv[r], ledger)
    <3>1. \A s \in Slots : ~WorksOn(call[s], KeyOf[r])
      BY DEF Quiet, InFlight, WorksOn
    <3> QED
      BY <3>1 DEF Even, Booked
  <2>3. resv[r] \in ResvRow
    BY DEF WInv, QInv, BInv, TypeOK
  <2>4. Books(r, Idle, resv[r], -Ledgered("hold", r),
              Ledgered("settle", r) + Ledgered("release", r))
    BY <2>1, <2>2 DEF BooksOf, HeldIn, BackIn
  <2> QED
    BY <2>3, <2>4, OffIdle DEF Books, Off, ResvRow
<1> QED
  BY <1>1, InitWorks, StepWorks, InitEven, StepEven, PTL DEF Spec

-----------------------------------------------------------------------------
(***************************************************************************)
(* What a request key has spent, with one call per key at a time.          *)
(***************************************************************************)

\* Whoever is charged, and whoever has a usage record, has begun.
Served ==
  /\ \A s \in Slots : call[s].pc \in ChargePcs =>
                        host[call[s].req].stage \notin {"new", "lost"}
  /\ \A i \in DOMAIN usage : host[usage[i].req].stage # "new"

\* A usage record names its request.
LEMMA RecordedFor ==
  ASSUME TypeOK PROVE \A i \in DOMAIN usage : usage[i].req \in Requests
<1>1. \A i \in DOMAIN usage : usage[i] \in UsageRow
  BY DEF TypeOK
<1> QED
  BY <1>1 DEF UsageRow

\* A slot moves on; the stages of the requests only advance.
LEMMA ServedNext ==
  ASSUME TypeOK, TypeOK', Served, NEW s \in Slots, NEW d, Set(s, d),
         \A r \in Requests :
           /\ host[r].stage # "new" => host'[r].stage # "new"
           /\ host[r].stage \notin {"new", "lost"} => host'[r].stage \notin {"new", "lost"},
         d.pc \in ChargePcs => host'[d.req].stage \notin {"new", "lost"},
         \/ usage' = usage
         \/ \E row \in UsageRow : /\ usage' = Append(usage, row)
                                  /\ host[row.req].stage # "new"
  PROVE  Served'
<1>1. ASSUME NEW t \in Slots, call'[t].pc \in ChargePcs
      PROVE  host'[call'[t].req].stage \notin {"new", "lost"}
  <2>1. CASE t = s
    BY <1>1, <2>1 DEF Set, TypeOK
  <2>2. CASE t # s
    <3>1. call'[t] = call[t] /\ call[t] \in ProperCall
      BY <2>2 DEF Set, TypeOK
    <3>2. call[t].req \in Requests
      BY <1>1, <3>1 DEF ProperCall, ChargePcs
    <3> QED
      BY <1>1, <3>1, <3>2 DEF Served
  <2> QED
    BY <2>1, <2>2
<1>2. ASSUME NEW i \in DOMAIN usage' PROVE host'[usage'[i].req].stage # "new"
  <2>0. \A j \in DOMAIN usage : usage[j].req \in Requests /\ host[usage[j].req].stage # "new"
    BY RecordedFor DEF Served
  <2>1. CASE usage' = usage
    BY <2>0, <2>1
  <2>2. CASE \E row \in UsageRow : /\ usage' = Append(usage, row)
                                   /\ host[row.req].stage # "new"
    <3>1. PICK row \in UsageRow : /\ usage' = Append(usage, row)
                                  /\ host[row.req].stage # "new"
      BY <2>2
    <3>2. \/ usage'[i] = row
          \/ i \in DOMAIN usage /\ usage'[i] = usage[i]
      <4>1. usage \in Seq(UsageRow)
        BY DEF TypeOK
      <4> HIDE DEF UsageRow
      <4> QED
        BY <3>1, <4>1
    <3>3. row.req \in Requests
      BY DEF UsageRow
    <3> QED
      BY <2>0, <3>1, <3>2, <3>3
  <2> QED
    BY <2>1, <2>2
<1> QED
  BY <1>1, <1>2 DEF Served

\* The request a call is charged for stays the same from statement to statement.
LEMMA ChargeCallKeeps ==
  ASSUME NEW s \in Slots, call[s] \in Call, call[s].req \in Requests,
         \/ ChargePeriod(s) \/ ChargeCount(s) \/ ChargeOwn(s) \/ SettlePick(s)
         \/ SettleRefund(s) \/ SettleMark(s) \/ ExtraCheck(s) \/ ExtraDebit(s)
         \/ ChargeQuota(s) \/ OverCheck(s) \/ OverDebit(s) \/ Record(s)
  PROVE  \E d : Set(s, d) /\ (d.pc \in ChargePcs => d.req = call[s].req)
<1> DEFINE c == call[s]
<1>1. ASSUME NEW d, Set(s, d), d = Idle \/ d.req = c.req
      PROVE  \E e : Set(s, e) /\ (e.pc \in ChargePcs => e.req = c.req)
  BY <1>1 DEF Idle, ChargePcs
<1>2. CASE ChargePeriod(s)
  <2>1. UnitRoute([c EXCEPT !.used = 0, !.at = 0]).req = c.req
    BY DEF UnitRoute, Call
  <2> QED
    BY <1>1, <1>2, <2>1 DEF ChargePeriod
<1>3. CASE ChargeCount(s)
  <2>1. \A n : [c EXCEPT !.unit = n, !.pc = "charge_own"].req = c.req
    BY DEF Call
  <2>2. \E n : Set(s, [c EXCEPT !.unit = n, !.pc = "charge_own"])
    BY <1>3 DEF ChargeCount
  <2> QED
    BY <1>1, <2>1, <2>2
<1>4. CASE ChargeOwn(s)
  <2>1. \A o : [c EXCEPT !.pc = "settle_pick", !.own = o].req = c.req
    BY DEF Call
  <2>2. \E o : Set(s, [c EXCEPT !.pc = "settle_pick", !.own = o])
    BY <1>4 DEF ChargeOwn
  <2> QED
    BY <1>1, <2>1, <2>2
<1>5. CASE SettlePick(s)
  <2>1. ASSUME Set(s, ChargeRoute([c EXCEPT !.amt = c.unit]))
        PROVE  \E e : Set(s, e) /\ (e.pc \in ChargePcs => e.req = c.req)
    <3> DEFINE d == [c EXCEPT !.amt = c.unit]
    <3>1. d \in Call /\ d.req = c.req
      BY DEF Call
    <3> HIDE DEF d
    <3>2. ChargeRoute(d).req = c.req
      BY <3>1, RoutesBare
    <3> QED
      BY <1>1, <2>1, <3>2 DEF d
  <2>2. \A q, pc, h : [c EXCEPT !.res = q, !.pc = pc, !.amt = h].req = c.req
    BY DEF Call
  <2>3. \/ Set(s, ChargeRoute([c EXCEPT !.amt = c.unit]))
        \/ \E q, pc, h : Set(s, [c EXCEPT !.res = q, !.pc = pc, !.amt = h])
    BY <1>5 DEF SettlePick
  <2>4. ASSUME NEW q, NEW pc, NEW h, Set(s, [c EXCEPT !.res = q, !.pc = pc, !.amt = h])
        PROVE  \E e : Set(s, e) /\ (e.pc \in ChargePcs => e.req = c.req)
    <3> DEFINE d == [c EXCEPT !.res = q, !.pc = pc, !.amt = h]
    <3>1. Set(s, d) /\ d.req = c.req
      BY <2>2, <2>4
    <3> HIDE DEF d
    <3> QED
      BY <1>1, <3>1
  <2> QED
    BY <2>1, <2>3, <2>4
<1>6. CASE SettleMark(s)
  <2> DEFINE d == [c EXCEPT !.amt = Larger(0, Actual(c) - c.amt)]
  <2>1. d \in Call /\ d.req = c.req
    <3>1. c.amt \in Nat /\ Actual(c) \in Nat
      BY ActualNat DEF Call
    <3>2. Larger(0, Actual(c) - c.amt) \in Nat
      BY <3>1 DEF Larger
    <3> QED
      BY <3>2 DEF Call
  <2>2. Set(s, AfterSettle(d))
    BY <1>6 DEF SettleMark
  <2> HIDE DEF d
  <2>3. AfterSettle(d).req = c.req
    BY <2>1, RoutesBare
  <2> QED
    BY <1>1, <2>2, <2>3
<1>7. CASE \/ SettleRefund(s) \/ ExtraCheck(s) \/ ExtraDebit(s) \/ ChargeQuota(s)
           \/ OverCheck(s) \/ OverDebit(s) \/ Record(s)
  <2>1. \A pc : /\ [c EXCEPT !.pc = pc].req = c.req
                /\ \A src : [c EXCEPT !.pc = pc, !.src = src].req = c.req
    BY DEF Call
  <2>2. \/ \E pc : Set(s, [c EXCEPT !.pc = pc])
        \/ \E pc, src : Set(s, [c EXCEPT !.pc = pc, !.src = src])
        \/ Set(s, Idle)
    BY <1>7 DEF SettleRefund, ExtraCheck, ExtraDebit, ChargeQuota, OverCheck, OverDebit,
                Record, DebitOwner
  <2> QED
    BY <1>1, <2>1, <2>2
<1> QED
  BY <1>2, <1>3, <1>4, <1>5, <1>6, <1>7

\* A call stays the kind of call it is: Charge never follows Hold or Release.
LEMMA StepKind ==
  ASSUME BInv, NEW s \in Slots, Step(s)
  PROVE  /\ host' = host /\ call[s].pc # "idle"
         /\ \E d : /\ Set(s, d)
                   /\ d.pc \in ChargePcs =>
                        call[s].pc \in ChargePcs /\ d.req = call[s].req
         /\ \/ usage' = usage
            \/ call[s].pc \in ChargePcs /\
               \E row \in UsageRow : usage' = Append(usage, row) /\ row.req = call[s].req
<1> DEFINE c == call[s]
<1>1. host' = host /\ c.pc # "idle"
  BY DEF Step, HoldPeriod, HoldQuota, HoldCheck, HoldDebit, HoldInsert, ChargePeriod,
         ChargeCount, ChargeOwn, SettlePick, SettleRefund, SettleMark, ExtraCheck,
         ExtraDebit, ChargeQuota, OverCheck, OverDebit, Record, ReleaseRefund,
         ReleaseMark, DebitOwner
<1>2. c \in Call /\ c.req \in Requests
  BY <1>1, BusyCall DEF BInv
<1>3. CASE \/ HoldPeriod(s) \/ HoldQuota(s) \/ HoldCheck(s) \/ HoldDebit(s)
           \/ HoldInsert(s) \/ ReleaseRefund(s) \/ ReleaseMark(s)
  <2>1. \A pc \in {"hold_insert", "hold_debit", "release_mark"} :
          [c EXCEPT !.pc = pc].pc \notin ChargePcs
    BY <1>2 DEF Call, ChargePcs
  <2>2. Idle.pc \notin ChargePcs
    BY DEF Idle, ChargePcs
  <2>3. HoldRoute([c EXCEPT !.used = 0, !.at = 0]).pc \notin ChargePcs
    <3> DEFINE d == [c EXCEPT !.used = 0, !.at = 0]
    <3>1. d \in Call
      BY <1>2 DEF Call
    <3> HIDE DEF d
    <3>2. HoldRoute(d).pc \in HoldPcs \cup {"idle"}
      BY <3>1 DEF HoldRoute, Idle, Call, HoldPcs
    <3> QED
      BY <3>2 DEF ChargePcs, HoldPcs, d
  <2>4. usage' = usage
    BY <1>3 DEF HoldPeriod, HoldQuota, HoldCheck, HoldDebit, HoldInsert, ReleaseRefund,
                ReleaseMark
  <2>5. \/ Set(s, HoldRoute([c EXCEPT !.used = 0, !.at = 0])) \/ Set(s, Idle)
        \/ \E pc \in {"hold_insert", "hold_debit", "release_mark"} :
             Set(s, [c EXCEPT !.pc = pc])
    BY <1>3 DEF HoldPeriod, HoldQuota, HoldCheck, HoldDebit, HoldInsert, ReleaseRefund,
                ReleaseMark
  <2> QED
    BY <1>1, <2>1, <2>2, <2>3, <2>4, <2>5
<1>4. CASE \/ ChargePeriod(s) \/ ChargeCount(s) \/ ChargeOwn(s) \/ SettlePick(s)
           \/ SettleRefund(s) \/ SettleMark(s) \/ ExtraCheck(s) \/ ExtraDebit(s)
           \/ ChargeQuota(s) \/ OverCheck(s) \/ OverDebit(s) \/ Record(s)
  <2>1. c.pc \in ChargePcs
    BY <1>4 DEF ChargePeriod, ChargeCount, ChargeOwn, SettlePick, SettleRefund,
         SettleMark, ExtraCheck, ExtraDebit, ChargeQuota, OverCheck, OverDebit, Record,
         ChargePcs
  <2>2. \E d : Set(s, d) /\ (d.pc \in ChargePcs => d.req = c.req)
    BY <1>2, <1>4, ChargeCallKeeps
  <2>3. CASE Record(s)
    <3> DEFINE row == [req |-> c.req, src |-> c.src, tokens |-> c.use.tokens,
                       cost |-> IF c.src = "none" THEN 0 ELSE BillableCost(c.use)]
    <3>1. usage' = Append(usage, row) /\ row.req = c.req
      BY <2>3 DEF Record
    <3>2. row \in UsageRow
      BY <1>2, BillableNat DEF Call, UsageRow, Usage, Sources
    <3> QED
      BY <1>1, <2>1, <2>2, <3>1, <3>2
  <2>4. CASE ~Record(s)
    <3>1. usage' = usage
      BY <1>4, <2>4 DEF ChargePeriod, ChargeCount, ChargeOwn, SettlePick, SettleRefund,
         SettleMark, ExtraCheck, ExtraDebit, ChargeQuota, OverCheck, OverDebit, DebitOwner
    <3> QED
      BY <1>1, <2>1, <2>2, <3>1
  <2> QED
    BY <2>3, <2>4
<1> QED
  BY <1>3, <1>4 DEF Step

\* Calls begin for requests that have begun, and a crash ends every call.
LEMMA StepServed == BInv /\ Served /\ [Next]_vars => Served'
<1> SUFFICES ASSUME BInv, Served, [Next]_vars PROVE Served'
  OBVIOUS
<1>1. TypeOK /\ TypeOK' /\ host \in [Requests -> Host]
  BY StepInv DEF BInv, TypeOK
<1>2. ASSUME NEW s \in Slots, Step(s) PROVE Served'
  <2>1. PICK d : /\ Set(s, d)
                 /\ d.pc \in ChargePcs => call[s].pc \in ChargePcs /\ d.req = call[s].req
    BY <1>2, StepKind
  <2>2. d.pc \in ChargePcs => host[d.req].stage \notin {"new", "lost"}
    BY <2>1 DEF Served
  <2>3. \/ usage' = usage
        \/ \E row \in UsageRow : /\ usage' = Append(usage, row)
                                 /\ host[row.req].stage # "new"
    BY <1>2, StepKind DEF Served
  <2>4. host' = host
    BY <1>2, StepKind
  <2> QED
    BY <1>1, <2>1, <2>2, <2>3, <2>4, ServedNext
<1>3. ASSUME NEW s \in Slots, Begin(s) PROVE Served'
  <2>1. PICK r \in Requests : \/ HoldBegin(s, r)
                              \/ \E use \in Uses : ChargeBegin(s, r, use)
                              \/ CompleteFailed(s, r)
                              \/ BootRelease(s, r)
    BY <1>3 DEF Begin
  <2>2. usage' = usage
    BY <2>1 DEF HoldBegin, ChargeBegin, CompleteFailed, BootRelease
  <2>3. \A q \in Requests :
          /\ host[q].stage # "new" => host'[q].stage # "new"
          /\ host[q].stage \notin {"new", "lost"} => host'[q].stage \notin {"new", "lost"}
    <3>1. CASE HoldBegin(s, r)
      BY <1>1, <3>1 DEF HoldBegin, Host
    <3>2. CASE \E use \in Uses : ChargeBegin(s, r, use)
      BY <1>1, <3>2 DEF ChargeBegin, Host
    <3>3. CASE CompleteFailed(s, r)
      BY <1>1, <3>3 DEF CompleteFailed, Host
    <3>4. CASE BootRelease(s, r)
      BY <3>4 DEF BootRelease
    <3> QED
      BY <2>1, <3>1, <3>2, <3>3, <3>4
  <2>4. \E d : Set(s, d) /\ (d.pc \in ChargePcs => host'[d.req].stage \notin {"new", "lost"})
    <3>1. CASE CompleteFailed(s, r) \/ BootRelease(s, r)
      <4>1. Set(s, ReleaseCall(r)) \/ Set(s, Idle)
        BY <3>1 DEF CompleteFailed, BootRelease, ReadRelease
      <4>2. ReleaseCall(r).pc \notin ChargePcs /\ Idle.pc \notin ChargePcs
        BY DEF ReleaseCall, Idle, ChargePcs
      <4> QED
        BY <4>1, <4>2
    <3>2. CASE HoldBegin(s, r)
      <4> DEFINE c == [Idle EXCEPT !.req = r, !.used = used[KeyOf[r]]]
                 d == [c EXCEPT !.pc = "hold_period", !.at = now]
      <4>1. c \in Call
        BY <1>1, PlanOf DEF Idle, NoUse, Call, Usage, Sources, TypeOK
      <4>2. d.pc = "hold_period"
        BY <4>1 DEF Call
      <4>3. Set(s, d) \/ Set(s, HoldRoute(c))
        BY <3>2 DEF HoldBegin
      <4> HIDE DEF c, d
      <4>4. HoldRoute(c).pc \in HoldPcs \cup {"idle"}
        BY <4>1 DEF HoldRoute, Idle, Call, HoldPcs
      <4>5. d.pc \notin ChargePcs /\ HoldRoute(c).pc \notin ChargePcs
        BY <4>2, <4>4 DEF ChargePcs, HoldPcs
      <4> QED
        BY <4>3, <4>5
    <3>3. ASSUME NEW use \in Uses, ChargeBegin(s, r, use)
          PROVE  \E d : /\ Set(s, d)
                        /\ d.pc \in ChargePcs => host'[d.req].stage \notin {"new", "lost"}
      <4> DEFINE c == [Idle EXCEPT !.req = r, !.use = use, !.used = used[KeyOf[r]]]
                 d == [c EXCEPT !.pc = "charge_period", !.at = now]
                 e == [c EXCEPT !.pc = "record"]
      <4>1. c \in Call /\ c.req = r
        BY <1>1, PlanOf DEF Idle, Call, Usage, Sources, TypeOK
      <4>2. d.req = r /\ e.req = r /\ UnitRoute(c).req = r
        BY <4>1 DEF Call, UnitRoute
      <4>3. Set(s, d) \/ Set(s, e) \/ Set(s, UnitRoute(c))
        BY <3>3 DEF ChargeBegin
      <4>4. host'[r].stage \notin {"new", "lost"}
        BY <1>1, <3>3 DEF ChargeBegin, Host
      <4> HIDE DEF c, d, e
      <4> QED
        BY <4>2, <4>3, <4>4
    <3> QED
      BY <2>1, <3>1, <3>2, <3>3
  <2> QED
    BY <1>1, <2>2, <2>3, <2>4, ServedNext
<1>4. CASE Crash
  <2>1. /\ \A t \in Slots : call'[t].pc \notin ChargePcs
        /\ usage' = usage
        /\ \A r \in Requests : host[r].stage # "new" => host'[r].stage # "new"
    BY <1>4 DEF Crash, Idle, ChargePcs
  <2>2. \A i \in DOMAIN usage : usage[i].req \in Requests
    BY <1>1, RecordedFor
  <2> QED
    BY <2>1, <2>2 DEF Served
<1>5. ASSUME NEW r \in Requests, CompleteSucceeded(r) PROVE Served'
  <2>1. /\ usage' = usage /\ call' = call
        /\ host' = [host EXCEPT ![r].stage = "succeeded"]
    BY <1>5 DEF CompleteSucceeded
  <2>2. \A q \in Requests :
          /\ host[q].stage # "new" => host'[q].stage # "new"
          /\ host[q].stage \notin {"new", "lost"} => host'[q].stage \notin {"new", "lost"}
    BY <1>1, <2>1 DEF Host
  <2>3. /\ \A i \in DOMAIN usage : usage[i].req \in Requests
        /\ \A t \in Slots : call[t].pc \in ChargePcs => call[t].req \in Requests
    <3>1. \A t \in Slots : call[t] \in ProperCall
      BY <1>1 DEF TypeOK
    <3> QED
      BY <1>1, <3>1, RecordedFor DEF ProperCall, ChargePcs
  <2> QED
    BY <2>1, <2>2, <2>3 DEF Served
<1>6. CASE Boot \/ BootDone \/ Edit \/ Tick \/ UNCHANGED vars
  <2>1. UNCHANGED <<call, host, usage>>
    BY <1>6 DEF Boot, BootDone, Edit, Tick, vars
  <2> QED
    BY <2>1 DEF Served
<1> QED
  BY <1>2, <1>3, <1>4, <1>5, <1>6 DEF Next

-----------------------------------------------------------------------------
(* The sets whose sizes are compared.                                      *)

Begun(k, hs)     == {r \in Requests : KeyOf[r] = k /\ hs[r].stage # "new"}
CountedIn(r, us) == \E i \in DOMAIN us : us[i].req = r /\ us[i].src # "none"
Opened(k, rs)    == {r \in Requests : KeyOf[r] = k /\ rs[r].status = "open"}

\* Requests that need no further unit: a record stands for them, or a crash has
\* met them, and nobody is charged for them again.
Spent(k, hs, us) ==
  {r \in Requests : KeyOf[r] = k /\ (hs[r].stage = "lost" \/ CountedIn(r, us))}

\* As many requests have begun as the key was sold: then the quota is the bound.
Enough(k, hs) == Plan[k].amount <= Cardinality(Begun(k, hs))

\* Until then every reservation of a request key is one unit of its quota.
Uniform(k, rs) ==
  \A r \in Requests :
    KeyOf[r] = k => rs[r] = NoResv \/ (rs[r].hold = 1 /\ rs[r].source = "key_quota")

WalletPcs  == {"hold_check", "hold_debit", "extra_check", "extra_debit",
               "over_check", "over_debit"}
CountedPcs == ChargePcs \ {"charge_period", "charge_count"}

\* And every call takes its unit from the quota, once for a request.
Routine(k, c, spent) ==
  /\ c.used < Plan[k].amount /\ c.own # "wallet" /\ c.unit \in {0, 1}
  /\ c.pc \notin WalletPcs
  /\ c.pc \in {"hold_quota", "hold_insert"} => c.src = "key_quota" /\ c.amt = 1
  /\ c.pc \in CountedPcs /\ c.unit = 1 => c.req \notin spent
  /\ c.pc \in RefundPcs => c.amt = 1
  /\ c.pc = "settle_refund" => c.unit = 0
  /\ c.pc = "charge_quota" => c.unit = 1 /\ c.amt = 1 /\ c.src = "key_quota"
  /\ c.pc = "record" /\ c.unit = 1 => c.src = "key_quota"

\* The unit a call is about to take, or has given back while the row is open.
Ahead(c) ==
  IF \/ c.pc \in {"hold_period", "hold_quota", "charge_quota", "release_mark"}
     \/ c.pc = "settle_mark" /\ c.unit = 0
  THEN 1 ELSE 0

\* The unit for which a call is going to write a row.
Due(c) ==
  IF \/ c.pc \in {"hold_period", "hold_quota", "hold_insert", "charge_quota"}
     \/ c.pc = "record" /\ c.unit = 1
  THEN 1 ELSE 0

\* The counter u is covered by the b requests begun, and by the n requests spent,
\* the h open reservations and what c is going to write.
Covered(c, u, b, n, h) == u + Ahead(c) <= b /\ u + Ahead(c) <= n + h + Due(c)

Count(k, c, u, hs, rs, us) ==
  \/ Enough(k, hs)
  \/ /\ Uniform(k, rs) /\ Routine(k, c, Spent(k, hs, us))
     /\ Covered(c, u, Cardinality(Begun(k, hs)), Cardinality(Spent(k, hs, us)),
             Cardinality(Opened(k, rs)))

\* The call that works on a request key, or the idle slot, keeps count.
Counts ==
  \A k \in Keys : Plan[k].kind = "request" =>
    /\ IsFiniteSet(Begun(k, host))
    /\ \A s \in Slots :
         WorksOn(call[s], k) => Count(k, call[s], used[k], host, resv, usage)
    /\ (\A s \in Slots : ~WorksOn(call[s], k)) =>
         Count(k, Idle, used[k], host, resv, usage)

CInv == WInv /\ Served /\ Counts

\* Only requests that have begun are spent or hold anything.
LEMMA SetSizes ==
  WInv /\ Served => \A k : IsFiniteSet(Begun(k, host)) =>
    /\ Spent(k, host, usage) \subseteq Begun(k, host)
    /\ Opened(k, resv) \subseteq Begun(k, host)
    /\ IsFiniteSet(Spent(k, host, usage)) /\ IsFiniteSet(Opened(k, resv))
    /\ Cardinality(Begun(k, host)) \in Nat
    /\ Cardinality(Spent(k, host, usage)) \in Nat
    /\ Cardinality(Opened(k, resv)) \in Nat
    /\ Cardinality(Opened(k, resv)) <= Cardinality(Begun(k, host))
<1> SUFFICES ASSUME WInv, Served, NEW k, IsFiniteSet(Begun(k, host))
             PROVE  /\ Spent(k, host, usage) \subseteq Begun(k, host)
                    /\ Opened(k, resv) \subseteq Begun(k, host)
                    /\ IsFiniteSet(Spent(k, host, usage)) /\ IsFiniteSet(Opened(k, resv))
                    /\ Cardinality(Begun(k, host)) \in Nat
                    /\ Cardinality(Spent(k, host, usage)) \in Nat
                    /\ Cardinality(Opened(k, resv)) \in Nat
                    /\ Cardinality(Opened(k, resv)) <= Cardinality(Begun(k, host))
  OBVIOUS
<1>1. Spent(k, host, usage) \subseteq Begun(k, host)
  BY DEF Spent, Begun, CountedIn, Served
<1>2. Opened(k, resv) \subseteq Begun(k, host)
  BY DEF WInv, Works, Row, NoResv, Opened, Begun
<1> QED
  BY <1>1, <1>2, FS_Subset, FS_CardinalityType

\* The same after a step.
LEMMA SetSizesNext ==
  WInv' /\ Served' => (\A k : IsFiniteSet(Begun(k, host)) =>
    /\ Spent(k, host, usage) \subseteq Begun(k, host)
    /\ Opened(k, resv) \subseteq Begun(k, host)
    /\ IsFiniteSet(Spent(k, host, usage)) /\ IsFiniteSet(Opened(k, resv))
    /\ Cardinality(Begun(k, host)) \in Nat
    /\ Cardinality(Spent(k, host, usage)) \in Nat
    /\ Cardinality(Opened(k, resv)) \in Nat
    /\ Cardinality(Opened(k, resv)) <= Cardinality(Begun(k, host)))'
  BY SetSizes, PTL

\* What the only slot that may work on a key counts.
LEMMA CountAlone ==
  ASSUME Counts, NEW s \in Slots, NEW k \in Keys, Alone(s, k), Plan[k].kind = "request",
         call[s].pc # "idle" => KeyOf[call[s].req] = k,
         NEW c, c = IF call[s].pc = "idle" THEN Idle ELSE call[s]
  PROVE  IsFiniteSet(Begun(k, host)) /\ Count(k, c, used[k], host, resv, usage)
  BY DEF Counts, Alone, WorksOn

\* When slot s moves on alone on key k, the other keys count what they counted.
LEMMA CountNext ==
  ASSUME WInv, Counts, NEW s \in Slots, NEW k \in Keys, Alone(s, k), NEW d, Set(s, d),
         call[s].pc # "idle" => KeyOf[call[s].req] = k,
         d.pc # "idle" => KeyOf[d.req] = k,
         d.pc = "idle" => d = Idle,
         NEW c, c = IF call[s].pc = "idle" THEN Idle ELSE call[s],
         \A q \in Keys : q # k => used'[q] = used[q],
         \A r \in Requests : KeyOf[r] # k =>
           /\ host'[r].stage = host[r].stage /\ resv'[r] = resv[r]
           /\ CountedIn(r, usage') <=> CountedIn(r, usage),
         Plan[k].kind = "request" /\ IsFiniteSet(Begun(k, host))
           /\ Count(k, c, used[k], host, resv, usage)
         => /\ IsFiniteSet(Begun(k, host'))
            /\ Count(k, d, used'[k], host', resv', usage')
  PROVE  Counts'
<1>1. call'[s] = d /\ \A t \in Slots \ {s} : call'[t] = call[t]
  BY DEF WInv, QInv, BInv, TypeOK, Set
<1>2. ASSUME Plan[k].kind = "request"
      PROVE  /\ IsFiniteSet(Begun(k, host'))
             /\ \A t \in Slots : WorksOn(call'[t], k) =>
                  Count(k, call'[t], used'[k], host', resv', usage')
             /\ (\A t \in Slots : ~WorksOn(call'[t], k)) =>
                  Count(k, Idle, used'[k], host', resv', usage')
  <2>1. IsFiniteSet(Begun(k, host')) /\ Count(k, d, used'[k], host', resv', usage')
    BY <1>2, CountAlone
  <2>2. \A t \in Slots : WorksOn(call'[t], k) => t = s
    BY <1>1 DEF Alone, WorksOn
  <2>3. ~WorksOn(d, k) => d = Idle
    BY DEF WorksOn
  <2> QED
    BY <1>1, <2>1, <2>2, <2>3
<1>3. ASSUME NEW q \in Keys, q # k, Plan[q].kind = "request"
      PROVE  /\ IsFiniteSet(Begun(q, host'))
             /\ \A t \in Slots : WorksOn(call'[t], q) =>
                  Count(q, call'[t], used'[q], host', resv', usage')
             /\ (\A t \in Slots : ~WorksOn(call'[t], q)) =>
                  Count(q, Idle, used'[q], host', resv', usage')
  <2>1. /\ Begun(q, host') = Begun(q, host)
        /\ Spent(q, host', usage') = Spent(q, host, usage)
        /\ Opened(q, resv') = Opened(q, resv)
        /\ Uniform(q, resv') <=> Uniform(q, resv)
        /\ used'[q] = used[q]
    BY <1>3 DEF Begun, Spent, Opened, Uniform
  <2>2. \A e : Count(q, e, used'[q], host', resv', usage')
                 <=> Count(q, e, used[q], host, resv, usage)
    BY <2>1 DEF Count, Enough
  <2>3. ~WorksOn(call[s], q) /\ ~WorksOn(call'[s], q)
    BY <1>1, <1>3 DEF WorksOn
  <2>4. /\ IsFiniteSet(Begun(q, host))
        /\ \A t \in Slots : WorksOn(call[t], q) =>
             Count(q, call[t], used[q], host, resv, usage)
        /\ (\A t \in Slots : ~WorksOn(call[t], q)) =>
             Count(q, Idle, used[q], host, resv, usage)
    BY <1>3 DEF Counts
  <2>5. \A t \in Slots : t # s => call'[t] = call[t]
    BY <1>1
  <2> QED
    BY <2>1, <2>2, <2>3, <2>4, <2>5
<1> QED
  BY <1>2, <1>3 DEF Counts

\* What slot s relies on while it executes c for a key that is not sold out: B, N
\* and H are the requests begun, spent and holding.
Tally(k, c, u, hs, rs, us, b, n, h) ==
  /\ Plan[k].kind = "request" /\ Plan[k].amount \in Nat /\ ~Enough(k, hs)
  /\ Uniform(k, rs) /\ Routine(k, c, Spent(k, hs, us)) /\ Covered(c, u, b, n, h)
  /\ b = Cardinality(Begun(k, hs)) /\ IsFiniteSet(Begun(k, hs))
  /\ n = Cardinality(Spent(k, hs, us)) /\ Spent(k, hs, us) \subseteq Begun(k, hs)
  /\ h = Cardinality(Opened(k, rs)) /\ IsFiniteSet(Opened(k, rs)) /\ h <= b

\* What the next statement has to establish, whatever the numbers are.
Tallied(k, d, u, hs, rs, us, b) ==
  /\ Uniform(k, rs) /\ Routine(k, d, Spent(k, hs, us))
  /\ Covered(d, u, b, Cardinality(Spent(k, hs, us)), Cardinality(Opened(k, rs)))

\* The next statement of a call keeps count if it does on a key not sold out.
LEMMA CountStep ==
  ASSUME CInv, WInv', Served', NEW s \in Slots, NEW c, c = call[s], c.pc # "idle",
         NEW k, k = KeyOf[c.req], NEW d, Set(s, d), d = Idle \/ d.req = c.req,
         d.pc = "idle" => d = Idle, host' = host,
         \A q \in Keys : q # k => used'[q] = used[q],
         \A r \in Requests : KeyOf[r] # k =>
           resv'[r] = resv[r] /\ (CountedIn(r, usage') <=> CountedIn(r, usage)),
         \A b, n, h \in Nat :
           /\ Tally(k, c, used[k], host, resv, usage, b, n, h)
           /\ IsFiniteSet(Spent(k, host, usage'))
           => Tallied(k, d, used'[k], host, resv', usage', b)
  PROVE  Counts'
<1>1. /\ Alone(s, k) /\ k \in Keys /\ WInv /\ Served /\ Counts
      /\ Plan[k].amount \in Nat /\ c.req \in Requests
  <2>1. WInv /\ Served /\ Counts
    BY DEF CInv
  <2>2. Alone(s, k) /\ k \in Keys /\ c.req \in Requests
    BY <2>1, Working
  <2> QED
    BY <2>1, <2>2, PlanOf
<1>2. ASSUME Plan[k].kind = "request", IsFiniteSet(Begun(k, host)),
             Count(k, c, used[k], host, resv, usage)
      PROVE  Count(k, d, used'[k], host', resv', usage')
  <2>1. CASE Enough(k, host)
    BY <2>1 DEF Count
  <2>2. CASE ~Enough(k, host)
    <3>1. /\ Spent(k, host, usage) \subseteq Begun(k, host)
          /\ IsFiniteSet(Opened(k, resv))
          /\ Cardinality(Begun(k, host)) \in Nat
          /\ Cardinality(Spent(k, host, usage)) \in Nat
          /\ Cardinality(Opened(k, resv)) \in Nat
          /\ Cardinality(Opened(k, resv)) <= Cardinality(Begun(k, host))
      BY <1>1, <1>2, SetSizes
    <3>2. IsFiniteSet(Spent(k, host', usage'))
      BY <1>2, SetSizesNext
    <3>3. /\ Uniform(k, resv) /\ Routine(k, c, Spent(k, host, usage))
          /\ Covered(c, used[k], Cardinality(Begun(k, host)),
                  Cardinality(Spent(k, host, usage)), Cardinality(Opened(k, resv)))
      BY <1>2, <2>2 DEF Count
    <3>4. Tally(k, c, used[k], host, resv, usage, Cardinality(Begun(k, host)),
                Cardinality(Spent(k, host, usage)), Cardinality(Opened(k, resv)))
      BY <1>1, <1>2, <2>2, <3>1, <3>3 DEF Tally
    <3>5. Tallied(k, d, used'[k], host, resv', usage', Cardinality(Begun(k, host)))
      BY <3>1, <3>2, <3>4
    <3> QED
      BY <3>5 DEF Count, Tallied
  <2> QED
    BY <2>1, <2>2
<1>3. /\ call[s].pc # "idle" => KeyOf[call[s].req] = k
      /\ d.pc # "idle" => KeyOf[d.req] = k
      /\ c = IF call[s].pc = "idle" THEN Idle ELSE call[s]
      /\ \A r \in Requests : KeyOf[r] # k =>
           /\ host'[r].stage = host[r].stage /\ resv'[r] = resv[r]
           /\ CountedIn(r, usage') <=> CountedIn(r, usage)
      /\ Plan[k].kind = "request" /\ IsFiniteSet(Begun(k, host))
           /\ Count(k, c, used[k], host, resv, usage)
         => /\ IsFiniteSet(Begun(k, host'))
            /\ Count(k, d, used'[k], host', resv', usage')
  BY <1>2 DEF Idle
<1> QED
  BY <1>1, <1>3, CountNext

\* The same for a statement that writes no row: the counter and the call.
LEMMA CountSame ==
  ASSUME CInv, WInv', Served', NEW s \in Slots, NEW c, c = call[s], c.pc # "idle",
         NEW k, k = KeyOf[c.req], NEW d, Set(s, d), d = Idle \/ d.req = c.req,
         d.pc = "idle" => d = Idle, UNCHANGED <<host, resv, usage>>,
         \A q \in Keys : q # k => used'[q] = used[q],
         \A b, n, h \in Nat :
           Tally(k, c, used[k], host, resv, usage, b, n, h)
           => Routine(k, d, Spent(k, host, usage)) /\ Covered(d, used'[k], b, n, h)
  PROVE  Counts'
<1>1. host' = host /\ resv' = resv /\ usage' = usage
  OBVIOUS
<1>2. \A b, n, h \in Nat :
        /\ Tally(k, c, used[k], host, resv, usage, b, n, h)
        /\ IsFiniteSet(Spent(k, host, usage'))
        => Tallied(k, d, used'[k], host, resv', usage', b)
  BY <1>1 DEF Tally, Tallied
<1>3. \A r \in Requests : KeyOf[r] # k =>
        resv'[r] = resv[r] /\ (CountedIn(r, usage') <=> CountedIn(r, usage))
  BY <1>1
<1> QED
  BY <1>1, <1>2, <1>3, CountStep

\* Hold takes one unit of a request key that is not sold out.
LEMMA HoldRouteUnit ==
  ASSUME NEW c \in Call, c.req \in Requests, Plan[KeyOf[c.req]].kind = "request",
         c.used < Plan[KeyOf[c.req]].amount
  PROVE  LET d == HoldRoute(c) IN
         /\ d.pc = "hold_quota" /\ d.src = "key_quota" /\ d.amt = 1
         /\ d.used = c.used /\ d.unit = c.unit /\ d.own = c.own /\ d.req = c.req
<1> DEFINE k   == KeyOf[c.req]
           rem == QuotaRemaining(k, c.used)
<1>1. Plan[k].amount \in Nat /\ c.used \in Nat
  BY PlanOf DEF Call
<1>2. rem \in Nat /\ rem > 0
  BY <1>1 DEF QuotaRemaining
<1> DEFINE amt == CappedHold(Plan[k].kind, rem)
<1>3. amt = 1
  <2> HIDE DEF rem
  <2> QED
    BY <1>2 DEF CappedHold, HoldAmount, Smaller
<1>4. Plan[k].kind # "unlimited" /\ HasQuota(k, c.used)
  BY DEF HasQuota
<1>5. HoldRoute(c) = [c EXCEPT !.src = "key_quota",
            !.pc = IF amt > 0 THEN "hold_quota" ELSE "hold_insert", !.amt = amt]
  BY <1>4 DEF HoldRoute
<1> HIDE DEF amt
<1> QED
  BY <1>3, <1>5 DEF Call

\* Charge takes the unit it owes from a request key that is not sold out.
LEMMA ChargeRouteUnit ==
  ASSUME NEW c \in Call, c.req \in Requests, Plan[KeyOf[c.req]].kind = "request",
         c.used < Plan[KeyOf[c.req]].amount, c.amt \in {0, 1}
  PROVE  LET d == ChargeRoute(c) IN
         /\ d.pc = IF c.amt = 0 THEN "record" ELSE "charge_quota"
         /\ d.src = "key_quota" /\ d.amt = c.amt
         /\ d.used = c.used /\ d.unit = c.unit /\ d.own = c.own /\ d.req = c.req
<1> DEFINE k == KeyOf[c.req]
<1>1. Plan[k].amount \in Nat /\ c.used \in Nat
  BY PlanOf DEF Call
<1>2. CASE c.amt = 0
  <2>1. ChargeRoute(c) = [c EXCEPT !.pc = "record", !.src = "key_quota"]
    BY <1>2 DEF ChargeRoute
  <2> QED
    BY <1>2, <2>1 DEF Call
<1>3. CASE c.amt = 1
  <2>1. HasQuota(k, c.used) /\ QuotaRemaining(k, c.used) >= c.amt /\ c.amt > 0
    BY <1>1, <1>3 DEF HasQuota, QuotaRemaining
  <2>2. ChargeRoute(c) = [[c EXCEPT !.pc = "record", !.src = "key_quota"]
                            EXCEPT !.pc = "charge_quota"]
    BY <1>3, <2>1 DEF ChargeRoute
  <2> QED
    BY <1>3, <2>2 DEF Call
<1> QED
  BY <1>2, <1>3

-----------------------------------------------------------------------------
(* The statements of the calls keep count.                                 *)

\* Hold takes its unit before it writes the row that stands for it.
LEMMA CountHold ==
  ASSUME CInv, WInv', Served', NEW s \in Slots,
         \/ HoldPeriod(s) \/ HoldQuota(s) \/ HoldCheck(s) \/ HoldDebit(s) \/ HoldInsert(s)
  PROVE  Counts'
<1> DEFINE c == call[s]
           k == KeyOf[c.req]
<1>0. c.pc \in HoldPcs /\ c.pc # "idle"
  BY DEF HoldPeriod, HoldQuota, HoldCheck, HoldDebit, HoldInsert, HoldPcs
<1>1. /\ c \in Call /\ c.req \in Requests /\ k \in Keys
      /\ Work(c, resv, host, periodEnd, now) /\ resv \in [Requests -> ResvRow]
      /\ used \in [Keys -> Nat] /\ used[k] \in Nat
  BY <1>0, Working DEF CInv, WInv, QInv, BInv, TypeOK
<1>2. host' = host /\ usage' = usage
  BY DEF HoldPeriod, HoldQuota, HoldCheck, HoldDebit, HoldInsert
<1>3. CASE HoldPeriod(s)
  <2> DEFINE e == [c EXCEPT !.used = 0, !.at = 0]
             d == HoldRoute(e)
  <2>1. /\ c.pc = "hold_period" /\ Set(s, d) /\ resv' = resv
        /\ used' = [used EXCEPT ![k] = 0]
    BY <1>3 DEF HoldPeriod, ResetPeriod
  <2>2. /\ e \in Call /\ e.req = c.req /\ e.used = 0 /\ e.own = c.own
        /\ e.unit = c.unit /\ e.amt = 0
    BY <1>1, <2>1 DEF Call, Work
  <2> HIDE DEF e
  <2>3. /\ d = Idle \/ d.req = c.req
        /\ d.pc = "idle" => d = Idle
    BY <1>1, <2>2 DEF HoldRoute, Call, Idle
  <2>4. ASSUME NEW b \in Nat, NEW n \in Nat, NEW h \in Nat,
               Tally(k, c, used[k], host, resv, usage, b, n, h)
        PROVE  Routine(k, d, Spent(k, host, usage)) /\ Covered(d, used'[k], b, n, h)
    <3>1. /\ Plan[k].kind = "request" /\ Plan[k].amount \in Nat /\ c.used < Plan[k].amount
          /\ c.own # "wallet" /\ c.unit \in {0, 1} /\ Covered(c, used[k], b, n, h)
      BY <2>4 DEF Tally, Routine
    <3>2. 0 < Plan[k].amount
      BY <1>1, <3>1 DEF Call
    <3>3. /\ d.pc = "hold_quota" /\ d.src = "key_quota" /\ d.amt = 1
          /\ d.used = 0 /\ d.unit = c.unit /\ d.own = c.own
      BY <1>1, <2>2, <3>1, <3>2, HoldRouteUnit
    <3>4. used'[k] = 0
      BY <1>1, <2>1
    <3> HIDE DEF d, c, k
    <3>5. Routine(k, d, Spent(k, host, usage))
      BY <3>1, <3>2, <3>3 DEF Routine, WalletPcs, CountedPcs, ChargePcs, RefundPcs, ReleasePcs
    <3> QED
      BY <1>1, <2>1, <3>1, <3>3, <3>4, <3>5 DEF Covered, Ahead, Due
  <2> QED
    BY <1>0, <1>1, <1>2, <2>1, <2>3, <2>4, CountSame
<1>4. CASE HoldQuota(s)
  <2> DEFINE d == [c EXCEPT !.pc = "hold_insert"]
  <2>1. /\ c.pc = "hold_quota" /\ Set(s, d) /\ resv' = resv /\ ConsumeQuota(k, c.amt)
    BY <1>4 DEF HoldQuota
  <2>2. /\ d.pc = "hold_insert" /\ d.req = c.req /\ d.src = c.src /\ d.amt = c.amt
        /\ d.used = c.used /\ d.own = c.own /\ d.unit = c.unit
    BY <1>1 DEF Call
  <2> HIDE DEF d
  <2>3. c.amt \in Nat /\ used' = [used EXCEPT ![k] = @ + c.amt]
    BY <1>1, <2>1 DEF ConsumeQuota, Call
  <2>4. ASSUME NEW b \in Nat, NEW n \in Nat, NEW h \in Nat,
               Tally(k, c, used[k], host, resv, usage, b, n, h)
        PROVE  Routine(k, d, Spent(k, host, usage)) /\ Covered(d, used'[k], b, n, h)
    <3>1. Routine(k, c, Spent(k, host, usage)) /\ Covered(c, used[k], b, n, h)
      BY <2>4 DEF Tally
    <3>2. c.amt = 1 /\ c.src = "key_quota"
      BY <2>1, <3>1 DEF Routine
    <3>3. used'[k] = used[k] + 1
      BY <1>1, <2>3, <3>2
    <3>4. Routine(k, d, Spent(k, host, usage))
      BY <2>1, <2>2, <3>1, <3>2
         DEF Routine, WalletPcs, CountedPcs, ChargePcs, RefundPcs, ReleasePcs
    <3> QED
      BY <1>1, <2>1, <2>2, <3>1, <3>3, <3>4 DEF Covered, Ahead, Due
  <2> QED
    BY <1>0, <1>1, <1>2, <2>1, <2>2, <2>3, <2>4, CountSame
<1>5. CASE HoldCheck(s) \/ HoldDebit(s)
  <2>1. c.pc \in WalletPcs /\ UNCHANGED <<used, resv>>
    BY <1>5 DEF HoldCheck, HoldDebit, WalletPcs, keyVars
  <2>2. \A b, n, h : ~Tally(k, c, used[k], host, resv, usage, b, n, h)
    BY <2>1 DEF Tally, Routine
  <2>3. \A pc : [c EXCEPT !.pc = pc].req = c.req
    BY <1>1 DEF Call
  <2>4. \A pc \in {"hold_debit", "hold_insert"} : [c EXCEPT !.pc = pc].pc # "idle"
    BY <1>1 DEF Call
  <2>5. \/ \E pc \in {"hold_debit", "hold_insert"} : Set(s, [c EXCEPT !.pc = pc])
        \/ Set(s, Idle)
    BY <1>5 DEF HoldCheck, HoldDebit
  <2>6. PICK d : /\ Set(s, d)
                 /\ d = Idle \/ d.req = c.req
                 /\ d.pc = "idle" => d = Idle
    BY <2>3, <2>4, <2>5
  <2> QED
    BY <1>0, <1>2, <2>1, <2>2, <2>6, CountSame
<1>6. CASE HoldInsert(s)
  <2> DEFINE row == [status |-> "open", hold |-> c.amt, source |-> c.src, at |-> now]
  <2>1. /\ c.pc = "hold_insert" /\ Set(s, Idle) /\ used' = used
        /\ resv' = [resv EXCEPT ![c.req] = row]
    BY <1>6 DEF HoldInsert, keyVars
  <2>2. resv[c.req].status # "open" /\ resv'[c.req] = row
        /\ \A r \in Requests : r # c.req => resv'[r] = resv[r]
    BY <1>0, <1>1, <2>1 DEF Work, NoResv
  <2>3. ASSUME NEW b \in Nat, NEW n \in Nat, NEW h \in Nat,
               Tally(k, c, used[k], host, resv, usage, b, n, h)
        PROVE  Tallied(k, Idle, used'[k], host, resv', usage', b)
    <3>1. /\ Routine(k, c, Spent(k, host, usage)) /\ Covered(c, used[k], b, n, h)
          /\ Uniform(k, resv) /\ h = Cardinality(Opened(k, resv))
          /\ n = Cardinality(Spent(k, host, usage)) /\ IsFiniteSet(Opened(k, resv))
          /\ Plan[k].amount \in Nat
      BY <2>3 DEF Tally
    <3>2. c.amt = 1 /\ c.src = "key_quota" /\ 0 < Plan[k].amount
      BY <1>1, <2>1, <3>1 DEF Routine, Call
    <3>3. Uniform(k, resv')
      BY <2>2, <3>1, <3>2 DEF Uniform
    <3>4. Routine(k, Idle, Spent(k, host, usage'))
      BY <3>2
         DEF Idle, Routine, WalletPcs, CountedPcs, ChargePcs, RefundPcs, ReleasePcs
    <3>5. Cardinality(Opened(k, resv')) = h + 1
      <4> DEFINE T == Opened(k, resv)
                 q == c.req
      <4>1. Opened(k, resv') = T \cup {q} /\ q \notin T
        BY <1>1, <2>2 DEF Opened
      <4>2. IsFiniteSet(T) /\ h = Cardinality(T)
        BY <3>1
      <4> HIDE DEF T, q
      <4>3. Cardinality(T \cup {q}) = Cardinality(T) + 1
        BY <4>1, <4>2, FS_AddElement
      <4> QED
        BY <4>1, <4>2, <4>3
    <3>6. Covered(Idle, used'[k], b, n, h + 1)
      BY <1>1, <2>1, <3>1 DEF Covered, Ahead, Due, Idle
    <3> QED
      BY <1>2, <3>1, <3>3, <3>4, <3>5, <3>6 DEF Tallied
  <2>4. \A r \in Requests : KeyOf[r] # k =>
          resv'[r] = resv[r] /\ (CountedIn(r, usage') <=> CountedIn(r, usage))
    BY <1>2, <2>2
  <2> QED
    BY <1>0, <1>2, <2>1, <2>3, <2>4, CountStep
<1> QED
  BY <1>3, <1>4, <1>5, <1>6

\* A request key has at most the one unit of a hold to give back; it is given
\* back before the row is closed.
LEMMA CountRefund ==
  ASSUME CInv, WInv', Served', NEW s \in Slots, NEW c, c = call[s],
         c.pc \in {"settle_refund", "release_refund"}, NEW d, Set(s, d),
         d.pc = IF c.pc = "settle_refund" THEN "settle_mark" ELSE "release_mark",
         d.req = c.req, d.amt = c.amt, d.used = c.used, d.own = c.own, d.unit = c.unit,
         d.src = c.src, UNCHANGED <<host, resv, usage>>, NEW n \in Nat,
         n = IF c.pc = "settle_refund" THEN c.amt - Actual(c) ELSE c.amt,
         used' = [used EXCEPT ![KeyOf[c.res]] =
                    IF resv[c.res].source = "key_quota" /\ @ >= n THEN @ - n ELSE @]
  PROVE  Counts'
<1> DEFINE k == KeyOf[c.req]
<1>1. /\ c \in Call /\ c.req \in Requests /\ k \in Keys
      /\ c.res \in Requests /\ KeyOf[c.res] = k /\ resv[c.res].status = "open"
      /\ used \in [Keys -> Nat] /\ used[k] \in Nat
  <2>1. call[s].pc # "idle" /\ call[s].pc \in RefundPcs /\ WInv
    BY DEF RefundPcs, ReleasePcs, CInv
  <2> QED
    BY <2>1, Working DEF Work
<1>2. ASSUME NEW b \in Nat, NEW m \in Nat, NEW h \in Nat,
             Tally(k, c, used[k], host, resv, usage, b, m, h)
      PROVE  Routine(k, d, Spent(k, host, usage)) /\ Covered(d, used'[k], b, m, h)
  <2>1. /\ Routine(k, c, Spent(k, host, usage)) /\ Covered(c, used[k], b, m, h)
        /\ Uniform(k, resv) /\ h = Cardinality(Opened(k, resv)) /\ h <= b
        /\ IsFiniteSet(Opened(k, resv))
    BY <1>2 DEF Tally
  <2>2. /\ c.own # "wallet" /\ c.amt = 1 /\ c.unit \in {0, 1}
        /\ c.pc = "settle_refund" => c.unit = 0
    BY <2>1 DEF Routine, RefundPcs, ReleasePcs
  <2>3. n = 1
    BY <2>2 DEF Actual
  <2>4. resv[c.res].source = "key_quota"
    BY <1>1, <2>1 DEF Uniform, NoResv
  <2>5. used'[k] = IF used[k] >= 1 THEN used[k] - 1 ELSE used[k]
    BY <1>1, <2>3, <2>4
  <2>6. h >= 1
    <3>1. c.res \in Opened(k, resv)
      BY <1>1 DEF Opened
    <3> QED
      BY <2>1, <3>1, FS_EmptySet
  <2>7. Routine(k, d, Spent(k, host, usage))
    BY <2>1, <2>2 DEF Routine, WalletPcs, CountedPcs, ChargePcs, RefundPcs, ReleasePcs
  <2>8. Ahead(c) = 0 /\ Due(c) = 0 /\ Ahead(d) = 1 /\ Due(d) = 0
    BY <2>2 DEF Ahead, Due
  <2>9. Covered(d, used'[k], b, m, h)
    BY <1>1, <2>1, <2>5, <2>6, <2>8 DEF Covered
  <2> QED
    BY <2>7, <2>9
<1>3. /\ c.pc # "idle" /\ (d.pc = "idle" => d = Idle)
      /\ \A q \in Keys : q # k => used'[q] = used[q]
  BY <1>1
<1> QED
  BY <1>2, <1>3, CountSame

\* A row is closed: its unit has been given back, or a record is going to stand
\* for it.
LEMMA CountMark ==
  ASSUME CInv, WInv', Served', NEW s \in Slots, NEW c, c = call[s],
         c.pc \in {"settle_mark", "release_mark"}, NEW d, Set(s, d),
         d = Idle \/ d.req = c.req, d.pc = "idle" => d = Idle,
         UNCHANGED <<host, used, usage>>, NEW status \in {"settled", "released"},
         resv' = [resv EXCEPT ![c.res].status = status],
         \A spent : /\ Plan[KeyOf[c.req]].kind = "request"
                    /\ Routine(KeyOf[c.req], c, spent)
                    => /\ Routine(KeyOf[c.req], d, spent)
                       /\ Ahead(d) = 0 /\ (Due(d) = 1 <=> Ahead(c) = 0) /\ Due(c) = 0
  PROVE  Counts'
<1> DEFINE k == KeyOf[c.req]
<1>1. /\ c \in Call /\ c.req \in Requests /\ k \in Keys /\ used[k] \in Nat
      /\ c.res \in Requests /\ KeyOf[c.res] = k /\ resv[c.res].status = "open"
      /\ resv \in [Requests -> ResvRow] /\ c.pc # "idle"
  <2>1. call[s].pc # "idle" /\ call[s].pc \in RefundPcs /\ WInv
    BY DEF RefundPcs, ReleasePcs, CInv
  <2> QED
    BY <2>1, Working DEF Work, WInv, QInv, BInv, TypeOK
<1>2. /\ \A r \in Requests : r # c.res => resv'[r] = resv[r]
      /\ resv'[c.res] = [resv[c.res] EXCEPT !.status = status]
  BY <1>1
<1>3. /\ resv'[c.res].status = status /\ resv'[c.res].hold = resv[c.res].hold
      /\ resv'[c.res].source = resv[c.res].source
  BY <1>1, <1>2 DEF ResvRow
<1>4. ASSUME NEW b \in Nat, NEW n \in Nat, NEW h \in Nat,
             Tally(k, c, used[k], host, resv, usage, b, n, h)
      PROVE  Tallied(k, d, used'[k], host, resv', usage', b)
  <2>1. /\ Routine(k, c, Spent(k, host, usage)) /\ Covered(c, used[k], b, n, h)
        /\ Uniform(k, resv) /\ h = Cardinality(Opened(k, resv)) /\ h <= b
        /\ IsFiniteSet(Opened(k, resv)) /\ n = Cardinality(Spent(k, host, usage))
        /\ Plan[k].kind = "request"
    BY <1>4 DEF Tally
  <2>2. /\ Routine(k, d, Spent(k, host, usage))
        /\ Ahead(d) = 0 /\ (Due(d) = 1 <=> Ahead(c) = 0) /\ Due(c) = 0
    BY <2>1
  <2>3. Uniform(k, resv')
    BY <1>1, <1>2, <1>3, <2>1 DEF Uniform, NoResv
  <2>4. Cardinality(Opened(k, resv')) = h - 1
    <3> DEFINE T == Opened(k, resv)
               q == c.res
    <3>1. Opened(k, resv') = T \ {q} /\ q \in T
      BY <1>1, <1>2, <1>3 DEF Opened
    <3>2. IsFiniteSet(T) /\ h = Cardinality(T)
      BY <2>1
    <3> HIDE DEF T, q
    <3>3. Cardinality(T \ {q}) = Cardinality(T) - 1
      BY <3>1, <3>2, FS_RemoveElement
    <3> QED
      BY <3>1, <3>2, <3>3
  <2>5. Ahead(c) \in {0, 1} /\ Due(d) \in {0, 1}
    BY DEF Ahead, Due
  <2>6. Covered(d, used[k], b, n, h - 1)
    BY <1>1, <2>1, <2>2, <2>5 DEF Covered
  <2> QED
    BY <2>1, <2>2, <2>3, <2>4, <2>6 DEF Tallied
<1>5. \A r \in Requests : KeyOf[r] # k =>
        resv'[r] = resv[r] /\ (CountedIn(r, usage') <=> CountedIn(r, usage))
  BY <1>1, <1>2
<1> QED
  BY <1>1, <1>4, <1>5, CountStep

\* Release gives the unit back, then closes the row.
LEMMA CountRelease ==
  ASSUME CInv, WInv', Served', NEW s \in Slots, ReleaseRefund(s) \/ ReleaseMark(s)
  PROVE  Counts'
<1> DEFINE c == call[s]
<1>0. c.pc # "idle" /\ WInv
  BY DEF ReleaseRefund, ReleaseMark, CInv
<1>1. /\ c \in Call /\ c.req \in Requests /\ c.amt \in Nat /\ c.used \in Nat
      /\ c.pc \in RefundPcs => c.res \in Requests
      /\ TypeOK
  BY <1>0, Working DEF Call
<1>2. CASE ReleaseRefund(s)
  <2> DEFINE d == [c EXCEPT !.pc = "release_mark"]
  <2>1. /\ c.pc = "release_refund" /\ Refund(c.res, c.amt, "release") /\ Set(s, d)
        /\ UNCHANGED <<host, resv, usage>>
    BY <1>2 DEF ReleaseRefund
  <2>2. /\ d.pc = "release_mark" /\ d.req = c.req /\ d.amt = c.amt /\ d.used = c.used
        /\ d.own = c.own /\ d.unit = c.unit /\ d.src = c.src
    BY <1>1 DEF Call
  <2> HIDE DEF d
  <2>3. PICK n \in Nat : n = c.amt
    BY <1>1
  <2>4. used' = [used EXCEPT ![KeyOf[c.res]] =
                   IF resv[c.res].source = "key_quota" /\ @ >= n THEN @ - n ELSE @]
    <3>1. c.res \in Requests
      BY <1>1, <2>1 DEF RefundPcs, ReleasePcs
    <3> QED
      BY <1>1, <2>1, <2>3, <3>1, RefundMoves
  <2> QED
    BY <2>1, <2>2, <2>3, <2>4, CountRefund
<1>3. CASE ReleaseMark(s)
  <2>1. /\ c.pc = "release_mark" /\ Set(s, Idle) /\ UNCHANGED <<host, used, usage>>
        /\ resv' = [resv EXCEPT ![c.res].status = "released"]
    BY <1>3 DEF ReleaseMark, keyVars
  <2>2. ASSUME NEW spent, Routine(KeyOf[c.req], c, spent)
        PROVE  Routine(KeyOf[c.req], Idle, spent) /\ Ahead(Idle) = 0
               /\ (Due(Idle) = 1 <=> Ahead(c) = 0) /\ Due(c) = 0
    <3>1. 0 < Plan[KeyOf[c.req]].amount
      BY <1>1, <2>2, PlanOf DEF Routine
    <3>2. Routine(KeyOf[c.req], Idle, spent)
      BY <3>1
         DEF Idle, Routine, WalletPcs, CountedPcs, ChargePcs, RefundPcs, ReleasePcs
    <3> QED
      BY <2>1, <3>2 DEF Ahead, Due, Idle
  <2> QED
    BY <2>1, <2>2, CountMark
<1> QED
  BY <1>2, <1>3

\* Settle finds the unit that was held, or nothing is open: then Charge takes one,
\* and the request it stands for makes room for it.
LEMMA CountPick ==
  ASSUME CInv, WInv', Served', NEW s \in Slots, SettlePick(s) PROVE Counts'
<1> DEFINE c == call[s]
           k == KeyOf[c.req]
<1>0. c.pc = "settle_pick" /\ UNCHANGED <<host, used, resv, usage>> /\ WInv /\ Served
  BY DEF SettlePick, keyVars, CInv
<1>1. /\ c \in Call /\ c.req \in Requests /\ k \in Keys
      /\ resv \in [Requests -> ResvRow] /\ used[k] \in Nat /\ c.unit \in Nat
      /\ host[c.req].stage \notin {"new", "lost"}
  BY <1>0, Working DEF Served, Call, ChargePcs, WInv, QInv, BInv, TypeOK
<1>2. ASSUME OpenOf(k) = {}, Set(s, ChargeRoute([c EXCEPT !.amt = c.unit])) PROVE Counts'
  <2> DEFINE e == [c EXCEPT !.amt = c.unit]
             d == ChargeRoute(e)
  <2>1. /\ e \in Call /\ e.req = c.req /\ e.amt = c.unit /\ e.used = c.used
        /\ e.own = c.own /\ e.unit = c.unit
    BY <1>1 DEF Call
  <2>2. Set(s, d)
    BY <1>2
  <2> HIDE DEF e
  <2>3. d.req = c.req /\ d.pc # "idle"
    BY <1>1, <2>1 DEF ChargeRoute, Call
  <2>4. ASSUME NEW b \in Nat, NEW n \in Nat, NEW h \in Nat,
               Tally(k, c, used[k], host, resv, usage, b, n, h)
        PROVE  Routine(k, d, Spent(k, host, usage)) /\ Covered(d, used'[k], b, n, h)
    <3>1. /\ Routine(k, c, Spent(k, host, usage)) /\ Covered(c, used[k], b, n, h)
          /\ Plan[k].kind = "request" /\ h = Cardinality(Opened(k, resv))
          /\ b = Cardinality(Begun(k, host)) /\ IsFiniteSet(Begun(k, host))
          /\ n = Cardinality(Spent(k, host, usage))
          /\ Spent(k, host, usage) \subseteq Begun(k, host)
      BY <2>4 DEF Tally
    <3>2. /\ c.used < Plan[k].amount /\ c.unit \in {0, 1} /\ c.own # "wallet"
          /\ c.unit = 1 => c.req \notin Spent(k, host, usage)
      BY <1>0, <3>1 DEF Routine, CountedPcs, ChargePcs
    <3>3. /\ d.pc = IF c.unit = 0 THEN "record" ELSE "charge_quota"
          /\ d.src = "key_quota" /\ d.amt = c.unit
          /\ d.used = c.used /\ d.unit = c.unit /\ d.own = c.own
      BY <1>1, <2>1, <3>1, <3>2, ChargeRouteUnit
    <3> HIDE DEF d
    <3>4. h = 0
      <4>1. Opened(k, resv) = {}
        BY <1>2 DEF Opened, OpenOf
      <4> QED
        BY <3>1, <4>1, FS_EmptySet
    <3>5. c.unit = 1 => n + 1 <= b
      <4>1. SUFFICES ASSUME c.unit = 1 PROVE n + 1 <= b
        OBVIOUS
      <4>2. c.req \in Begun(k, host)
        BY <1>1 DEF Begun
      <4>3. Spent(k, host, usage) \subseteq Begun(k, host) \ {c.req}
        BY <3>1, <3>2, <4>1
      <4>4. /\ IsFiniteSet(Begun(k, host) \ {c.req})
            /\ Cardinality(Begun(k, host) \ {c.req}) = b - 1
        <5> DEFINE T == Begun(k, host)
                   r == c.req
        <5>1. IsFiniteSet(T) /\ r \in T /\ b = Cardinality(T)
          BY <3>1, <4>2
        <5> HIDE DEF T, r
        <5>2. IsFiniteSet(T \ {r}) /\ Cardinality(T \ {r}) = Cardinality(T) - 1
          BY <5>1, FS_RemoveElement
        <5> QED
          BY <5>1, <5>2 DEF T, r
      <4>5. n <= Cardinality(Begun(k, host) \ {c.req})
        BY <3>1, <4>3, <4>4, FS_Subset
      <4> QED
        BY <4>4, <4>5
    <3>6. Routine(k, d, Spent(k, host, usage))
      BY <2>3, <3>2, <3>3
         DEF Routine, WalletPcs, CountedPcs, ChargePcs, RefundPcs, ReleasePcs
    <3>7. /\ Ahead(c) = 0 /\ Due(c) = 0
          /\ Ahead(d) = c.unit /\ Due(d) = c.unit
      BY <1>0, <3>2, <3>3 DEF Ahead, Due
    <3> QED
      BY <1>0, <1>1, <3>1, <3>2, <3>4, <3>5, <3>6, <3>7 DEF Covered
  <2> QED
    BY <1>0, <2>2, <2>3, <2>4, CountSame
<1>3. ASSUME NEW q \in OpenOf(k),
             Set(s, [c EXCEPT !.res = q,
                       !.pc = IF resv[q].hold > Actual(c)
                                THEN "settle_refund" ELSE "settle_mark",
                       !.amt = resv[q].hold])
      PROVE  Counts'
  <2> DEFINE h0 == resv[q].hold
             d == [c EXCEPT !.res = q,
                     !.pc = IF h0 > Actual(c) THEN "settle_refund" ELSE "settle_mark",
                     !.amt = h0]
  <2>1. /\ d.req = c.req /\ d.used = c.used /\ d.unit = c.unit /\ d.own = c.own
        /\ d.amt = h0
        /\ d.pc = IF h0 > Actual(c) THEN "settle_refund" ELSE "settle_mark"
        /\ Set(s, d)
    BY <1>1, <1>3 DEF Call
  <2> HIDE DEF d
  <2>2. ASSUME NEW b \in Nat, NEW n \in Nat, NEW h \in Nat,
               Tally(k, c, used[k], host, resv, usage, b, n, h)
        PROVE  Routine(k, d, Spent(k, host, usage)) /\ Covered(d, used'[k], b, n, h)
    <3>1. /\ Routine(k, c, Spent(k, host, usage)) /\ Covered(c, used[k], b, n, h)
          /\ Uniform(k, resv)
      BY <2>2 DEF Tally
    <3>2. c.own # "wallet" /\ c.unit \in {0, 1} /\ c.used < Plan[k].amount
          /\ (c.unit = 1 => c.req \notin Spent(k, host, usage))
      BY <1>0, <3>1 DEF Routine, CountedPcs, ChargePcs
    <3>3. h0 = 1
      BY <1>3, <3>1 DEF Uniform, OpenOf, NoResv
    <3>4. d.pc = IF c.unit = 0 THEN "settle_refund" ELSE "settle_mark"
      BY <2>1, <3>2, <3>3 DEF Actual
    <3> HIDE DEF h0
    <3>5. Routine(k, d, Spent(k, host, usage))
      BY <2>1, <3>2, <3>3, <3>4
         DEF Routine, WalletPcs, CountedPcs, ChargePcs, RefundPcs, ReleasePcs
    <3>6. Ahead(c) = 0 /\ Due(c) = 0 /\ Ahead(d) = 0 /\ Due(d) = 0
      BY <1>0, <2>1, <3>2, <3>4 DEF Ahead, Due
    <3> QED
      BY <1>0, <3>1, <3>5, <3>6 DEF Covered
  <2>3. d.pc # "idle"
    BY <2>1
  <2> QED
    BY <1>0, <2>1, <2>2, <2>3, CountSame
<1> QED
  BY <1>2, <1>3 DEF SettlePick

\* The unit of the row Settle closes goes to the record that is going to be written.
LEMMA CountSettled ==
  ASSUME CInv, WInv', Served', NEW s \in Slots, SettleMark(s) PROVE Counts'
<1> DEFINE c == call[s]
           e == [c EXCEPT !.amt = Larger(0, Actual(c) - c.amt)]
           d == AfterSettle(e)
<1>1. /\ c.pc = "settle_mark" /\ Set(s, d) /\ UNCHANGED <<host, used, usage>>
      /\ resv' = [resv EXCEPT ![c.res].status = "settled"]
  BY DEF SettleMark, keyVars
<1>2. c \in Call /\ c.req \in Requests
  BY <1>1, Working DEF CInv
<1>3. /\ e \in Call /\ e.req = c.req /\ e.used = c.used /\ e.own = c.own
      /\ e.unit = c.unit /\ e.amt = Larger(0, Actual(c) - c.amt)
  <2>1. c.amt \in Nat /\ Actual(c) \in Nat
    BY <1>2, ActualNat DEF Call
  <2>2. Larger(0, Actual(c) - c.amt) \in Nat
    BY <2>1 DEF Larger
  <2> QED
    BY <1>2, <2>2 DEF Call
<1> HIDE DEF e
<1>4. d.req = c.req /\ d.pc # "idle"
  BY <1>2, <1>3 DEF AfterSettle, ChargeRoute, Call
<1>5. ASSUME NEW spent, Plan[KeyOf[c.req]].kind = "request", Routine(KeyOf[c.req], c, spent)
      PROVE  /\ Routine(KeyOf[c.req], d, spent)
             /\ Ahead(d) = 0 /\ (Due(d) = 1 <=> Ahead(c) = 0) /\ Due(c) = 0
  <2>1. /\ c.own # "wallet" /\ c.amt = 1 /\ c.unit \in {0, 1}
        /\ c.used < Plan[KeyOf[c.req]].amount
        /\ c.unit = 1 => c.req \notin spent
    BY <1>1, <1>5 DEF Routine, RefundPcs, CountedPcs, ChargePcs
  <2>2. e.amt = 0
    BY <1>3, <2>1 DEF Actual, Larger
  <2>3. /\ d.pc = "record" /\ d.src = "key_quota" /\ d.used = c.used
        /\ d.unit = c.unit /\ d.own = c.own
    BY <1>2, <1>3, <1>5, <2>1, <2>2, ChargeRouteUnit DEF AfterSettle
  <2> HIDE DEF d
  <2>4. Routine(KeyOf[c.req], d, spent)
    BY <1>4, <2>1, <2>3
       DEF Routine, WalletPcs, CountedPcs, ChargePcs, RefundPcs, ReleasePcs
  <2> QED
    BY <1>1, <2>1, <2>3, <2>4 DEF Ahead, Due
<1> QED
  BY <1>1, <1>4, <1>5, CountMark

\* A new record spends its request, once.
LEMMA CountRecord ==
  ASSUME CInv, WInv', Served', NEW s \in Slots, Record(s) PROVE Counts'
<1> DEFINE c == call[s]
           k == KeyOf[c.req]
           row == [req |-> c.req, src |-> c.src, tokens |-> c.use.tokens,
                   cost |-> IF c.src = "none" THEN 0 ELSE BillableCost(c.use)]
<1>1. /\ c.pc = "record" /\ Set(s, Idle) /\ UNCHANGED <<host, used, resv>>
      /\ usage' = Append(usage, row)
  BY DEF Record, keyVars
<1>2. /\ c \in Call /\ c.req \in Requests /\ k \in Keys /\ used[k] \in Nat /\ TypeOK
      /\ c.used \in Nat
  BY <1>1, Working DEF CInv, Call, TypeOK
<1>3. \A r : CountedIn(r, usage') <=> CountedIn(r, usage) \/ (r = c.req /\ c.src # "none")
  <2>1. /\ DOMAIN usage' = DOMAIN usage \cup {Len(usage) + 1}
        /\ usage'[Len(usage) + 1] = row
        /\ \A i \in DOMAIN usage : usage'[i] = usage[i]
    BY <1>1, <1>2 DEF TypeOK
  <2>2. row.req = c.req /\ row.src = c.src
    OBVIOUS
  <2> HIDE DEF row
  <2> QED
    BY <2>1, <2>2 DEF CountedIn
<1> HIDE DEF row
<1>4. ASSUME NEW b \in Nat, NEW n \in Nat, NEW h \in Nat,
             Tally(k, c, used[k], host, resv, usage, b, n, h),
             IsFiniteSet(Spent(k, host, usage'))
      PROVE  Tallied(k, Idle, used'[k], host, resv', usage', b)
  <2>1. /\ Routine(k, c, Spent(k, host, usage)) /\ Covered(c, used[k], b, n, h)
        /\ Uniform(k, resv) /\ h = Cardinality(Opened(k, resv))
        /\ n = Cardinality(Spent(k, host, usage)) /\ Plan[k].amount \in Nat
        /\ IsFiniteSet(Begun(k, host)) /\ Spent(k, host, usage) \subseteq Begun(k, host)
    BY <1>4 DEF Tally
  <2>2. /\ c.unit \in {0, 1} /\ 0 < Plan[k].amount
        /\ c.unit = 1 => c.src = "key_quota" /\ c.req \notin Spent(k, host, usage)
    BY <1>1, <1>2, <2>1 DEF Routine, CountedPcs, ChargePcs
  <2>3. Routine(k, Idle, Spent(k, host, usage'))
    BY <2>2 DEF Idle, Routine, WalletPcs, CountedPcs, ChargePcs, RefundPcs, ReleasePcs
  <2> DEFINE m == Cardinality(Spent(k, host, usage'))
  <2>4. m \in Nat /\ n + Due(c) <= m
    <3>1. Spent(k, host, usage) \subseteq Spent(k, host, usage')
      BY <1>3 DEF Spent
    <3>2. m \in Nat /\ n <= m
      BY <1>4, <2>1, <3>1, FS_Subset, FS_CardinalityType
    <3>3. CASE c.unit = 1
      <4>1. Spent(k, host, usage') = Spent(k, host, usage) \cup {c.req}
        BY <1>2, <1>3, <2>2, <3>3 DEF Spent
      <4>2. IsFiniteSet(Spent(k, host, usage))
        BY <2>1, FS_Subset
      <4>3. Cardinality(Spent(k, host, usage) \cup {c.req})
              = Cardinality(Spent(k, host, usage)) + 1
        BY <2>2, <3>3, <4>2, FS_AddElement
      <4> QED
        BY <1>1, <2>1, <3>2, <3>3, <4>1, <4>3 DEF Due
    <3>4. CASE c.unit = 0
      BY <1>1, <3>2, <3>4 DEF Due
    <3> QED
      BY <2>2, <3>3, <3>4
  <2> HIDE DEF m
  <2>5. Covered(Idle, used[k], b, m, h)
    <3>1. Ahead(c) = 0 /\ Ahead(Idle) = 0 /\ Due(Idle) = 0 /\ Due(c) \in {0, 1}
      BY <1>1 DEF Ahead, Due, Idle
    <3> QED
      BY <1>2, <2>1, <2>4, <3>1 DEF Covered
  <2> QED
    BY <1>1, <2>1, <2>3, <2>5 DEF Tallied, m
<1>5. /\ \A r \in Requests : KeyOf[r] # k =>
           resv'[r] = resv[r] /\ (CountedIn(r, usage') <=> CountedIn(r, usage))
      /\ c.pc # "idle" /\ (\A q \in Keys : q # k => used'[q] = used[q])
  BY <1>1, <1>3
<1> QED
  BY <1>1, <1>4, <1>5, CountStep

\* Charge owes one unit for a request nothing stands for yet; the unit is the
\* one that was held, or is taken when no row is open and one is left.
LEMMA CountCharge ==
  ASSUME CInv, WInv', Served', NEW s \in Slots,
         \/ ChargePeriod(s) \/ ChargeCount(s) \/ ChargeOwn(s) \/ SettlePick(s)
         \/ SettleRefund(s) \/ SettleMark(s) \/ ExtraCheck(s) \/ ExtraDebit(s)
         \/ ChargeQuota(s) \/ OverCheck(s) \/ OverDebit(s) \/ Record(s)
  PROVE  Counts'
<1> DEFINE c == call[s]
           k == KeyOf[c.req]
<1>0. c.pc # "idle" /\ c.pc \in ChargePcs /\ WInv /\ Served
  BY DEF ChargePeriod, ChargeCount, ChargeOwn, SettlePick, SettleRefund, SettleMark,
         ExtraCheck, ExtraDebit, ChargeQuota, OverCheck, OverDebit, Record, ChargePcs, CInv
<1>1. /\ c \in Call /\ c.req \in Requests /\ k \in Keys /\ TypeOK
      /\ Work(c, resv, host, periodEnd, now) /\ resv \in [Requests -> ResvRow]
      /\ used \in [Keys -> Nat] /\ used[k] \in Nat /\ c.used \in Nat /\ c.amt \in Nat
      /\ host[c.req].stage \notin {"new", "lost"}
  BY <1>0, Working DEF Served, Call, TypeOK
<1>2. host' = host
  BY DEF ChargePeriod, ChargeCount, ChargeOwn, SettlePick, SettleRefund, SettleMark,
         ExtraCheck, ExtraDebit, ChargeQuota, OverCheck, OverDebit, Record, DebitOwner
<1>3. CASE ChargePeriod(s)
  <2> DEFINE d == UnitRoute([c EXCEPT !.used = 0, !.at = 0])
  <2>1. /\ c.pc = "charge_period" /\ Set(s, d) /\ UNCHANGED <<resv, usage>>
        /\ used' = [used EXCEPT ![k] = 0]
    BY <1>3 DEF ChargePeriod, ResetPeriod
  <2>2. /\ d.req = c.req /\ d.used = 0 /\ d.own = c.own
        /\ d.pc = IF Plan[k].kind = "request" THEN "charge_count" ELSE "charge_own"
        /\ Plan[k].kind = "request" => d.unit = 1
    BY <1>1 DEF UnitRoute, UnitSpend, Call
  <2> HIDE DEF d
  <2>3. ASSUME NEW b \in Nat, NEW n \in Nat, NEW h \in Nat,
               Tally(k, c, used[k], host, resv, usage, b, n, h)
        PROVE  Routine(k, d, Spent(k, host, usage)) /\ Covered(d, used'[k], b, n, h)
    <3>1. /\ Routine(k, c, Spent(k, host, usage)) /\ Plan[k].kind = "request"
          /\ Plan[k].amount \in Nat
      BY <2>3 DEF Tally
    <3>2. used'[k] = 0 /\ 0 < Plan[k].amount
      BY <1>1, <2>1, <3>1 DEF Routine
    <3>3. Routine(k, d, Spent(k, host, usage))
      BY <2>2, <3>1, <3>2
         DEF Routine, WalletPcs, CountedPcs, ChargePcs, RefundPcs, ReleasePcs
    <3> QED
      BY <2>2, <3>1, <3>2, <3>3 DEF Covered, Ahead, Due
  <2> QED
    BY <1>0, <1>1, <1>2, <2>1, <2>2, <2>3, CountSame
<1>4. CASE ChargeCount(s)
  <2> DEFINE unit == IF CountedIn(c.req, usage) THEN 0 ELSE 1
             d    == [c EXCEPT !.unit = unit, !.pc = "charge_own"]
  <2>1. /\ c.pc = "charge_count" /\ Set(s, d) /\ UNCHANGED <<used, resv, usage>>
    BY <1>4 DEF ChargeCount, keyVars, CountedIn
  <2>2. /\ d.pc = "charge_own" /\ d.req = c.req /\ d.used = c.used /\ d.own = c.own
        /\ d.unit = unit
    BY <1>1 DEF Call
  <2> HIDE DEF d
  <2>3. unit = 1 => c.req \notin Spent(k, host, usage)
    BY <1>1 DEF Spent
  <2>4. unit \in {0, 1}
    OBVIOUS
  <2> HIDE DEF unit
  <2>5. ASSUME NEW b \in Nat, NEW n \in Nat, NEW h \in Nat,
               Tally(k, c, used[k], host, resv, usage, b, n, h)
        PROVE  Routine(k, d, Spent(k, host, usage)) /\ Covered(d, used'[k], b, n, h)
    <3>1. Routine(k, c, Spent(k, host, usage)) /\ Covered(c, used[k], b, n, h)
      BY <2>5 DEF Tally
    <3>2. Routine(k, d, Spent(k, host, usage))
      BY <2>2, <2>3, <2>4, <3>1
         DEF Routine, WalletPcs, CountedPcs, ChargePcs, RefundPcs, ReleasePcs
    <3> QED
      BY <1>1, <2>1, <2>2, <3>1, <3>2 DEF Covered, Ahead, Due
  <2> QED
    BY <1>0, <1>1, <1>2, <2>1, <2>2, <2>5, CountSame
<1>5. CASE ChargeOwn(s)
  <2> DEFINE own == IF resv[c.req].status = "open" THEN resv[c.req].source ELSE "none"
             d   == [c EXCEPT !.pc = "settle_pick", !.own = own]
  <2>1. /\ c.pc = "charge_own" /\ Set(s, d) /\ UNCHANGED <<used, resv, usage>>
    BY <1>5 DEF ChargeOwn, keyVars
  <2>2. /\ d.pc = "settle_pick" /\ d.req = c.req /\ d.used = c.used /\ d.own = own
        /\ d.unit = c.unit
    BY <1>1 DEF Call
  <2> HIDE DEF d
  <2>3. Uniform(k, resv) => own # "wallet"
    BY <1>1 DEF Uniform, NoResv
  <2> HIDE DEF own
  <2>4. ASSUME NEW b \in Nat, NEW n \in Nat, NEW h \in Nat,
               Tally(k, c, used[k], host, resv, usage, b, n, h)
        PROVE  Routine(k, d, Spent(k, host, usage)) /\ Covered(d, used'[k], b, n, h)
    <3>1. /\ Routine(k, c, Spent(k, host, usage)) /\ Covered(c, used[k], b, n, h)
          /\ Uniform(k, resv)
      BY <2>4 DEF Tally
    <3>2. Routine(k, d, Spent(k, host, usage))
      BY <2>1, <2>2, <2>3, <3>1
         DEF Routine, WalletPcs, CountedPcs, ChargePcs, RefundPcs, ReleasePcs
    <3> QED
      BY <1>1, <2>1, <2>2, <3>1, <3>2 DEF Covered, Ahead, Due
  <2> QED
    BY <1>0, <1>1, <1>2, <2>1, <2>2, <2>4, CountSame
<1>6. CASE SettlePick(s)
  BY <1>0, <1>6, CountPick
<1>7. CASE SettleRefund(s)
  <2> DEFINE d == [c EXCEPT !.pc = "settle_mark"]
  <2>1. /\ c.pc = "settle_refund" /\ Refund(c.res, c.amt - Actual(c), "settle") /\ Set(s, d)
        /\ UNCHANGED <<resv, usage>>
    BY <1>7 DEF SettleRefund
  <2>2. Actual(c) \in Nat /\ Actual(c) <= c.amt
    BY <1>0, <1>1, <2>1, Working, ActualNat DEF Fine
  <2>3. /\ d.pc = "settle_mark" /\ d.req = c.req /\ d.amt = c.amt /\ d.used = c.used
        /\ d.own = c.own /\ d.unit = c.unit /\ d.src = c.src
    BY <1>1 DEF Call
  <2> HIDE DEF d
  <2>4. PICK n \in Nat : n = c.amt - Actual(c)
    BY <1>1, <2>2
  <2>5. used' = [used EXCEPT ![KeyOf[c.res]] =
                   IF resv[c.res].source = "key_quota" /\ @ >= n THEN @ - n ELSE @]
    <3>1. c.res \in Requests
      BY <1>0, <2>1, Working DEF RefundPcs
    <3> QED
      BY <1>1, <2>1, <2>4, <3>1, RefundMoves
  <2> QED
    BY <1>2, <2>1, <2>3, <2>4, <2>5, CountRefund
<1>8. CASE SettleMark(s)
  BY <1>0, <1>8, CountSettled
<1>9. CASE ExtraCheck(s) \/ ExtraDebit(s) \/ OverCheck(s) \/ OverDebit(s)
  <2>1. c.pc \in WalletPcs /\ UNCHANGED <<used, resv, usage>>
    BY <1>9 DEF ExtraCheck, ExtraDebit, OverCheck, OverDebit, DebitOwner, WalletPcs, keyVars
  <2>2. \A b, n, h : ~Tally(k, c, used[k], host, resv, usage, b, n, h)
    BY <2>1 DEF Tally, Routine
  <2>3. \A pc : /\ [c EXCEPT !.pc = pc].req = c.req /\ [c EXCEPT !.pc = pc].pc = pc
                /\ \A src : /\ [c EXCEPT !.pc = pc, !.src = src].req = c.req
                            /\ [c EXCEPT !.pc = pc, !.src = src].pc = pc
    BY <1>1 DEF Call
  <2>4. \/ \E pc \in {"extra_debit", "over_debit", "record"} : Set(s, [c EXCEPT !.pc = pc])
        \/ \E pc \in {"extra_debit", "over_debit", "record"}, src \in Sources :
             Set(s, [c EXCEPT !.pc = pc, !.src = src])
        \/ Set(s, Idle)
    BY <1>9 DEF ExtraCheck, ExtraDebit, OverCheck, OverDebit, DebitOwner, Sources
  <2>5. PICK d : /\ Set(s, d)
                 /\ d = Idle \/ d.req = c.req
                 /\ d.pc = "idle" => d = Idle
    <3>1. CASE Set(s, Idle)
      BY <3>1
    <3>2. ASSUME NEW pc \in {"extra_debit", "over_debit", "record"},
                 Set(s, [c EXCEPT !.pc = pc])
          PROVE  \E d : /\ Set(s, d)
                        /\ d = Idle \/ d.req = c.req
                        /\ d.pc = "idle" => d = Idle
      BY <2>3, <3>2
    <3>3. ASSUME NEW pc \in {"extra_debit", "over_debit", "record"}, NEW src,
                 Set(s, [c EXCEPT !.pc = pc, !.src = src])
          PROVE  \E d : /\ Set(s, d)
                        /\ d = Idle \/ d.req = c.req
                        /\ d.pc = "idle" => d = Idle
      <4> DEFINE e == [c EXCEPT !.pc = pc, !.src = src]
      <4>1. e.req = c.req /\ e.pc = pc
        BY <1>1 DEF Call
      <4>2. Set(s, e)
        BY <3>3
      <4> HIDE DEF e
      <4> QED
        BY <4>1, <4>2
    <3> QED
      BY <2>4, <3>1, <3>2, <3>3
  <2> QED
    BY <1>0, <1>2, <2>1, <2>2, <2>5, CountSame
<1>10. CASE ChargeQuota(s)
  <2> DEFINE d == [c EXCEPT !.pc = "record"]
  <2>1. /\ c.pc = "charge_quota" /\ ConsumeQuota(k, c.amt) /\ Set(s, d)
        /\ UNCHANGED <<resv, usage>>
    BY <1>10 DEF ChargeQuota
  <2>2. /\ d.pc = "record" /\ d.req = c.req /\ d.src = c.src /\ d.amt = c.amt
        /\ d.used = c.used /\ d.own = c.own /\ d.unit = c.unit
    BY <1>1 DEF Call
  <2> HIDE DEF d
  <2>3. used' = [used EXCEPT ![k] = @ + c.amt]
    BY <1>1, <2>1 DEF ConsumeQuota
  <2>4. ASSUME NEW b \in Nat, NEW n \in Nat, NEW h \in Nat,
               Tally(k, c, used[k], host, resv, usage, b, n, h)
        PROVE  Routine(k, d, Spent(k, host, usage)) /\ Covered(d, used'[k], b, n, h)
    <3>1. Routine(k, c, Spent(k, host, usage)) /\ Covered(c, used[k], b, n, h)
      BY <2>4 DEF Tally
    <3>2. c.amt = 1 /\ c.unit = 1 /\ c.src = "key_quota"
      BY <2>1, <3>1 DEF Routine
    <3>3. used'[k] = used[k] + 1
      BY <1>1, <2>3, <3>2
    <3>4. Routine(k, d, Spent(k, host, usage))
      BY <2>1, <2>2, <3>1, <3>2
         DEF Routine, WalletPcs, CountedPcs, ChargePcs, RefundPcs, ReleasePcs
    <3> QED
      BY <1>1, <2>1, <2>2, <3>1, <3>2, <3>3, <3>4 DEF Covered, Ahead, Due
  <2> QED
    BY <1>0, <1>1, <1>2, <2>1, <2>2, <2>3, <2>4, CountSame
<1>11. CASE Record(s)
  BY <1>0, <1>11, CountRecord
<1> QED
  BY <1>3, <1>4, <1>5, <1>6, <1>7, <1>8, <1>9, <1>10, <1>11

\* A hold begins its request; a charge or a release begins none.
LEMMA CountBegin ==
  ASSUME KeyCalls = 1, CInv, NEW s \in Slots, NEW r \in Requests,
         \/ HoldBegin(s, r)
         \/ \E use \in Uses : ChargeBegin(s, r, use)
         \/ CompleteFailed(s, r)
         \/ BootRelease(s, r)
  PROVE  Counts'
<1> DEFINE k == KeyOf[r]
<1>1. /\ WInv /\ Served /\ Counts /\ TypeOK /\ k \in Keys /\ Alone(s, k) /\ now \in Nat
      /\ used[k] \in Nat /\ host \in [Requests -> Host] /\ resv \in [Requests -> ResvRow]
      /\ Plan[k].amount \in Nat
  BY PlanOf, BeginAlone DEF CInv, WInv, QInv, BInv, TypeOK
<1>2. UNCHANGED <<used, resv, usage>> /\ call[s].pc = "idle"
  BY DEF HoldBegin, ChargeBegin, CompleteFailed, BootRelease, keyVars, Free
<1>3. \A q \in Requests : q # r => host'[q] = host[q]
  BY <1>1 DEF HoldBegin, ChargeBegin, CompleteFailed, BootRelease
<1>4. ASSUME NEW d, Set(s, d), d.pc # "idle" => d.req = r, d.pc = "idle" => d = Idle,
             ASSUME Plan[k].kind = "request", IsFiniteSet(Begun(k, host)),
                    Count(k, Idle, used[k], host, resv, usage)
             PROVE  /\ IsFiniteSet(Begun(k, host'))
                    /\ Count(k, d, used[k], host', resv, usage)
      PROVE  Counts'
  <2>1. /\ d.pc # "idle" => KeyOf[d.req] = k
        /\ Idle = IF call[s].pc = "idle" THEN Idle ELSE call[s]
        /\ call[s].pc # "idle" => KeyOf[call[s].req] = k
        /\ \A q \in Keys : q # k => used'[q] = used[q]
        /\ \A q \in Requests : KeyOf[q] # k =>
             /\ host'[q].stage = host[q].stage /\ resv'[q] = resv[q]
             /\ CountedIn(q, usage') <=> CountedIn(q, usage)
    BY <1>2, <1>3, <1>4
  <2>2. Plan[k].kind = "request" /\ IsFiniteSet(Begun(k, host))
          /\ Count(k, Idle, used[k], host, resv, usage)
        => /\ IsFiniteSet(Begun(k, host'))
           /\ Count(k, d, used'[k], host', resv', usage')
    BY <1>2, <1>4
  <2> HIDE DEF k
  <2> QED
    BY <1>1, <1>4, <2>1, <2>2, CountNext
<1>5. ASSUME HoldBegin(s, r) PROVE Counts'
  <2> DEFINE c == [Idle EXCEPT !.req = r, !.used = used[k]]
             e == [c EXCEPT !.pc = "hold_period", !.at = now]
             d == IF PeriodOver(k) THEN e ELSE HoldRoute(c)
  <2>1. /\ c \in Call /\ c.req = r /\ c.amt = 0 /\ c.used = used[k] /\ c.own = "none"
        /\ c.unit = 0
    BY <1>1 DEF Idle, NoUse, Call, Usage, Sources
  <2>2. /\ e.pc = "hold_period" /\ e.req = r /\ e.used = used[k] /\ e.own = "none"
        /\ e.unit = 0
    BY <2>1 DEF Call
  <2>3. Set(s, d) /\ host[r].stage = "new" /\ host' = [host EXCEPT ![r].stage = "running"]
    BY <1>5 DEF HoldBegin
  <2> HIDE DEF c, e
  <2>4. HoldRoute(c).req = r \/ HoldRoute(c) = Idle
    BY <2>1 DEF HoldRoute, Call
  <2>5. /\ d.pc # "idle" => d.req = r
        /\ d.pc = "idle" => d = Idle
    BY <2>1, <2>2, <2>4 DEF Idle, HoldRoute, Call
  <2>6. host'[r].stage = "running"
    BY <1>1, <2>3 DEF Host
  <2>7. /\ Begun(k, host') = Begun(k, host) \cup {r} /\ r \notin Begun(k, host)
        /\ Spent(k, host', usage) = Spent(k, host, usage)
    BY <1>3, <2>3, <2>6 DEF Begun, Spent
  <2>8. ASSUME Plan[k].kind = "request", IsFiniteSet(Begun(k, host)),
               Count(k, Idle, used[k], host, resv, usage)
        PROVE  /\ IsFiniteSet(Begun(k, host'))
               /\ Count(k, d, used[k], host', resv, usage)
    <3> DEFINE b == Cardinality(Begun(k, host))
               n == Cardinality(Spent(k, host, usage))
               h == Cardinality(Opened(k, resv))
    <3>1. b \in Nat /\ n \in Nat /\ h \in Nat
      BY <1>1, <2>8, SetSizes
    <3>2. IsFiniteSet(Begun(k, host')) /\ Cardinality(Begun(k, host')) = b + 1
      <4> DEFINE T == Begun(k, host)
      <4>1. IsFiniteSet(T) /\ r \notin T /\ Begun(k, host') = T \cup {r} /\ b = Cardinality(T)
        BY <2>7, <2>8
      <4> HIDE DEF T, b
      <4>2. IsFiniteSet(T \cup {r}) /\ Cardinality(T \cup {r}) = Cardinality(T) + 1
        BY <4>1, FS_AddElement
      <4> QED
        BY <4>1, <4>2
    <3> HIDE DEF b, n, h
    <3>3. CASE Enough(k, host)
      <4>1. Enough(k, host')
        BY <1>1, <3>1, <3>2, <3>3 DEF Enough, b
      <4> QED
        BY <3>2, <4>1 DEF Count
    <3>4. CASE ~Enough(k, host)
      <4>1. /\ Uniform(k, resv) /\ Covered(Idle, used[k], b, n, h)
        BY <2>8, <3>4 DEF Count, b, n, h
      <4>2. used[k] <= b /\ used[k] <= n + h
        BY <1>1, <3>1, <4>1 DEF Covered, Ahead, Due, Idle
      <4>3. used[k] < Plan[k].amount
        BY <1>1, <3>1, <3>4, <4>2 DEF Enough, b
      <4>4. ~PeriodOver(k) => /\ d.pc = "hold_quota" /\ d.src = "key_quota" /\ d.amt = 1
                              /\ d.used = used[k] /\ d.unit = 0 /\ d.own = "none"
        BY <2>1, <2>8, <4>3, HoldRouteUnit
      <4>5. /\ d.pc \in {"hold_period", "hold_quota"}
            /\ d.pc = "hold_quota" => d.src = "key_quota" /\ d.amt = 1
            /\ d.used = used[k] /\ d.unit = 0 /\ d.own = "none"
        BY <2>2, <4>4
      <4> HIDE DEF d
      <4>6. Routine(k, d, Spent(k, host', usage))
        BY <4>3, <4>5
           DEF Routine, WalletPcs, CountedPcs, ChargePcs, RefundPcs, ReleasePcs
      <4>7. Covered(d, used[k], b + 1, n, h)
        BY <1>1, <3>1, <4>2, <4>5 DEF Covered, Ahead, Due
      <4> QED
        BY <2>7, <3>2, <4>1, <4>6, <4>7 DEF Count, n, h
    <3> QED
      BY <3>3, <3>4
  <2> HIDE DEF d
  <2> QED
    BY <1>4, <2>3, <2>5, <2>8
<1>6. ASSUME NEW d, Set(s, d), d.pc # "idle" => d.req = r, d.pc = "idle" => d = Idle,
             \A q \in Requests : /\ host'[q].stage = "new" <=> host[q].stage = "new"
                                 /\ host'[q].stage = "lost" <=> host[q].stage = "lost",
             /\ Plan[k].kind = "request" /\ Uniform(k, resv) /\ used[k] < Plan[k].amount
             => /\ Ahead(d) = 0 /\ Due(d) = 0
                /\ \A spent : Routine(k, d, spent)
      PROVE  Counts'
  <2>1. Begun(k, host') = Begun(k, host) /\ Spent(k, host', usage) = Spent(k, host, usage)
    BY <1>6 DEF Begun, Spent
  <2>2. ASSUME Plan[k].kind = "request", IsFiniteSet(Begun(k, host)),
               Count(k, Idle, used[k], host, resv, usage)
        PROVE  /\ IsFiniteSet(Begun(k, host'))
               /\ Count(k, d, used[k], host', resv, usage)
    <3> DEFINE b == Cardinality(Begun(k, host))
               n == Cardinality(Spent(k, host, usage))
               h == Cardinality(Opened(k, resv))
    <3>1. b \in Nat /\ n \in Nat /\ h \in Nat
      BY <1>1, <2>2, SetSizes
    <3> HIDE DEF b, n, h
    <3>2. CASE Enough(k, host)
      BY <2>1, <2>2, <3>2 DEF Count, Enough
    <3>3. CASE ~Enough(k, host)
      <4>1. Uniform(k, resv) /\ Covered(Idle, used[k], b, n, h)
        BY <2>2, <3>3 DEF Count, b, n, h
      <4>2. used[k] <= b /\ used[k] <= n + h
        BY <1>1, <3>1, <4>1 DEF Covered, Ahead, Due, Idle
      <4>3. used[k] < Plan[k].amount
        BY <1>1, <3>1, <3>3, <4>2 DEF Enough, b
      <4>4. Ahead(d) = 0 /\ Due(d) = 0 /\ Routine(k, d, Spent(k, host', usage))
        BY <1>6, <2>2, <4>1, <4>3
      <4>5. Covered(d, used[k], b, n, h)
        BY <1>1, <3>1, <4>2, <4>4 DEF Covered
      <4> QED
        BY <2>1, <2>2, <4>1, <4>4, <4>5 DEF Count, b, n, h
    <3> QED
      BY <3>2, <3>3
  <2> QED
    BY <1>4, <1>6, <2>2
<1>7. ASSUME NEW use \in Uses, ChargeBegin(s, r, use) PROVE Counts'
  <2> DEFINE c == [Idle EXCEPT !.req = r, !.use = use, !.used = used[k]]
             e == [c EXCEPT !.pc = "charge_period", !.at = now]
             f == [c EXCEPT !.pc = "record"]
             g == UnitRoute(c)
  <2>1. /\ c \in Call /\ c.req = r /\ c.used = used[k] /\ c.own = "none" /\ c.unit = 0
    BY <1>1 DEF Idle, Call, Usage, Sources
  <2>2. /\ e.pc = "charge_period" /\ e.req = r /\ e.used = used[k] /\ e.own = "none"
        /\ e.unit = 0
        /\ f.pc = "record" /\ f.req = r /\ f.used = used[k] /\ f.own = "none"
        /\ f.unit = 0
    BY <2>1 DEF Call
  <2>3. /\ g.req = r /\ g.used = used[k] /\ g.own = "none"
        /\ g.pc = IF Plan[k].kind = "request" THEN "charge_count" ELSE "charge_own"
        /\ Plan[k].kind = "request" => g.unit = 1
    BY <2>1 DEF UnitRoute, UnitSpend, Call
  <2>4. PICK d \in {e, f, g} : Set(s, d)
    BY <1>7 DEF ChargeBegin
  <2> HIDE DEF c, e, f, g
  <2>5. /\ d.req = r /\ d.used = used[k] /\ d.own = "none" /\ d.pc # "idle"
        /\ Plan[k].kind = "request" =>
             \/ d.pc \in {"charge_period", "record"} /\ d.unit = 0
             \/ d.pc = "charge_count" /\ d.unit = 1
    BY <2>2, <2>3
  <2>6. \A q \in Requests : /\ host'[q].stage = "new" <=> host[q].stage = "new"
                            /\ host'[q].stage = "lost" <=> host[q].stage = "lost"
    <3>1. host'[r].stage = host[r].stage
      BY <1>1, <1>7 DEF ChargeBegin, Host
    <3> QED
      BY <1>3, <3>1
  <2>7. ASSUME Plan[k].kind = "request", used[k] < Plan[k].amount
        PROVE  Ahead(d) = 0 /\ Due(d) = 0 /\ \A spent : Routine(k, d, spent)
    BY <2>5, <2>7 DEF Ahead, Due, Routine, WalletPcs, CountedPcs, ChargePcs,
                      RefundPcs, ReleasePcs
  <2> QED
    BY <1>6, <2>4, <2>5, <2>6, <2>7
<1>8. ASSUME CompleteFailed(s, r) \/ BootRelease(s, r) PROVE Counts'
  <2> DEFINE c == ReleaseCall(r)
             d == IF resv[r].status = "open" /\ resv[r].hold > 0 THEN c ELSE Idle
  <2>1. Set(s, d)
    BY <1>8 DEF CompleteFailed, BootRelease, ReadRelease
  <2>2. /\ c.pc = "release_refund" /\ c.req = r /\ c.amt = resv[r].hold /\ c.used = 0
        /\ c.own = "none" /\ c.unit = 0
    BY DEF ReleaseCall, Idle
  <2>3. /\ Idle.pc = "idle" /\ Idle.used = 0 /\ Idle.own = "none" /\ Idle.unit = 0
    BY DEF Idle
  <2>4. \A q \in Requests : /\ host'[q].stage = "new" <=> host[q].stage = "new"
                            /\ host'[q].stage = "lost" <=> host[q].stage = "lost"
    <3>1. CASE BootRelease(s, r)
      BY <3>1 DEF BootRelease
    <3>2. CASE CompleteFailed(s, r)
      <4>1. host[r].stage = "running" /\ host'[r].stage = "failed"
        BY <1>1, <3>2 DEF CompleteFailed, Host
      <4> QED
        BY <1>3, <4>1
    <3> QED
      BY <1>8, <3>1, <3>2
  <2> HIDE DEF c
  <2>5. ASSUME Uniform(k, resv), used[k] < Plan[k].amount
        PROVE  Ahead(d) = 0 /\ Due(d) = 0 /\ \A spent : Routine(k, d, spent)
    <3>1. 0 < Plan[k].amount
      BY <1>1, <2>5
    <3>2. resv[r].status = "open" => resv[r].hold = 1
      BY <2>5 DEF Uniform, NoResv
    <3>3. /\ d.pc = "idle" \/ (d.pc = "release_refund" /\ d.amt = 1)
          /\ d.used = 0 /\ d.own = "none" /\ d.unit = 0
      BY <2>2, <2>3, <3>2
    <3> HIDE DEF d
    <3> QED
      BY <3>1, <3>3 DEF Ahead, Due, Routine, WalletPcs, CountedPcs, ChargePcs,
                        RefundPcs, ReleasePcs
  <2>6. /\ d.pc # "idle" => d.req = r
        /\ d.pc = "idle" => d = Idle
    BY <2>2, <2>3
  <2> HIDE DEF d
  <2> QED
    BY <1>6, <2>1, <2>4, <2>5, <2>6
<1> QED
  BY <1>5, <1>7, <1>8

\* A crash spends every request that has begun; a switch empties the counter.
LEMMA CountProcess ==
  ASSUME CInv,
         \/ \E r \in Requests : CompleteSucceeded(r)
         \/ Crash \/ Boot \/ BootDone \/ Edit \/ Tick \/ UNCHANGED vars
  PROVE  Counts'
<1>1. /\ WInv /\ Served /\ Counts /\ TypeOK /\ host \in [Requests -> Host]
      /\ used \in [Keys -> Nat]
  BY DEF CInv, WInv, QInv, BInv, TypeOK
<1>2. CASE Crash
  <2>1. /\ UNCHANGED <<used, resv, usage>> /\ \A t \in Slots : call'[t] = Idle
        /\ \A r \in Requests : /\ host'[r].stage = "new" <=> host[r].stage = "new"
                               /\ host'[r].stage = "lost" <=> host[r].stage # "new"
    BY <1>1, <1>2 DEF Crash, keyVars, Host
  <2>2. \A t \in Slots : \A k : ~WorksOn(call'[t], k)
    BY <2>1 DEF WorksOn, Idle
  <2>3. ASSUME NEW k \in Keys, Plan[k].kind = "request"
        PROVE  IsFiniteSet(Begun(k, host')) /\ Count(k, Idle, used[k], host', resv, usage)
    <3>1. Begun(k, host') = Begun(k, host) /\ Spent(k, host', usage) = Begun(k, host)
      BY <1>1, <2>1 DEF Begun, Spent, Served, CountedIn
    <3>2. PICK c : Count(k, c, used[k], host, resv, usage) /\ c.used \in Nat
      <4>1. CASE \E t \in Slots : WorksOn(call[t], k)
        <5>1. PICK t \in Slots : WorksOn(call[t], k)
          BY <4>1
        <5>2. call[t].used \in Nat
          BY <1>1, <5>1, BusyCall DEF WorksOn
        <5>3. Count(k, call[t], used[k], host, resv, usage)
          BY <1>1, <2>3, <5>1 DEF Counts
        <5> QED
          BY <5>2, <5>3
      <4>2. CASE \A t \in Slots : ~WorksOn(call[t], k)
        BY <1>1, <2>3, <4>2 DEF Counts, Idle
      <4> QED
        BY <4>1, <4>2
    <3>3. IsFiniteSet(Begun(k, host))
      BY <1>1, <2>3 DEF Counts
    <3> DEFINE b == Cardinality(Begun(k, host))
               n == Cardinality(Spent(k, host, usage))
               h == Cardinality(Opened(k, resv))
    <3>4. b \in Nat /\ n \in Nat /\ h \in Nat
      BY <1>1, <3>3, SetSizes
    <3> HIDE DEF b, n, h
    <3>5. CASE Enough(k, host)
      BY <3>1, <3>3, <3>5 DEF Count, Enough
    <3>6. CASE ~Enough(k, host)
      <4>1. /\ Uniform(k, resv) /\ c.used < Plan[k].amount /\ Covered(c, used[k], b, n, h)
        BY <3>2, <3>6 DEF Count, Routine, b, n, h
      <4>2. 0 < Plan[k].amount
        BY <3>2, <4>1
      <4>3. \A spent : Routine(k, Idle, spent)
        BY <4>2
           DEF Idle, Routine, WalletPcs, CountedPcs, ChargePcs, RefundPcs, ReleasePcs
      <4>4. used[k] \in Nat /\ Ahead(c) \in Nat /\ Ahead(Idle) = 0 /\ Due(Idle) = 0
        BY <1>1 DEF Ahead, Due, Idle
      <4>5. Covered(Idle, used[k], b, b, h)
        BY <3>4, <4>1, <4>4 DEF Covered
      <4> QED
        BY <3>1, <3>3, <4>1, <4>3, <4>5 DEF Count, b, h
    <3> QED
      BY <3>5, <3>6
  <2> QED
    BY <2>1, <2>2, <2>3 DEF Counts
<1>3. ASSUME NEW r \in Requests, CompleteSucceeded(r) PROVE Counts'
  <2>1. /\ UNCHANGED <<used, resv, usage, call>>
        /\ host[r].stage = "running" /\ host' = [host EXCEPT ![r].stage = "succeeded"]
    BY <1>3 DEF CompleteSucceeded, keyVars
  <2>2. \A q \in Requests : /\ host'[q].stage = "new" <=> host[q].stage = "new"
                            /\ host'[q].stage = "lost" <=> host[q].stage = "lost"
    BY <1>1, <2>1 DEF Host
  <2>3. \A k : /\ Begun(k, host') = Begun(k, host)
               /\ Spent(k, host', usage) = Spent(k, host, usage)
    BY <2>2 DEF Begun, Spent
  <2>4. \A k, c : Count(k, c, used[k], host', resv, usage)
                    <=> Count(k, c, used[k], host, resv, usage)
    BY <2>3 DEF Count, Enough
  <2> QED
    BY <1>1, <2>1, <2>3, <2>4 DEF Counts
<1>4. CASE Edit
  <2>1. /\ UNCHANGED <<resv, usage, call, host>>
        /\ \A k \in Keys : used'[k] \in {0, used[k]}
    BY <1>1, <1>4 DEF Edit, Switch, EditTerms, keyVars
  <2>2. ASSUME NEW k \in Keys, IsFiniteSet(Begun(k, host)), NEW c,
               Count(k, c, used[k], host, resv, usage)
        PROVE  Count(k, c, used'[k], host, resv, usage)
    <3> DEFINE b == Cardinality(Begun(k, host))
               n == Cardinality(Spent(k, host, usage))
               h == Cardinality(Opened(k, resv))
    <3>1. b \in Nat /\ n \in Nat /\ h \in Nat
      BY <1>1, <2>2, SetSizes
    <3>2. used[k] \in Nat /\ Ahead(c) \in Nat /\ Due(c) \in Nat
      BY <1>1 DEF Ahead, Due
    <3> HIDE DEF b, n, h
    <3>3. Covered(c, used[k], b, n, h) => Covered(c, used'[k], b, n, h)
      BY <2>1, <3>1, <3>2 DEF Covered
    <3> QED
      BY <2>2, <3>3 DEF Count, b, n, h
  <2> QED
    BY <1>1, <2>1, <2>2 DEF Counts
<1>5. CASE Boot \/ BootDone \/ Tick \/ UNCHANGED vars
  <2>1. UNCHANGED <<used, resv, usage, call, host>>
    BY <1>5 DEF Boot, BootDone, Tick, vars, keyVars
  <2> QED
    BY <1>1, <2>1 DEF Counts
<1> QED
  BY <1>2, <1>3, <1>4, <1>5

\* Nothing has begun.
LEMMA InitCounts == Init => Served /\ Counts
<1> SUFFICES ASSUME Init PROVE Served /\ Counts
  OBVIOUS
<1>1. /\ \A s \in Slots : call[s] = Idle
      /\ \A r \in Requests : resv[r] = NoResv /\ host[r].stage = "new"
      /\ \A k \in Keys : used[k] = 0
      /\ usage = <<>>
  BY DEF Init
<1>2. Served
  BY <1>1 DEF Served, Idle, ChargePcs
<1>3. ASSUME NEW k \in Keys, Plan[k].kind = "request"
      PROVE  IsFiniteSet(Begun(k, host)) /\ Count(k, Idle, used[k], host, resv, usage)
  <2>1. /\ Begun(k, host) = {} /\ Spent(k, host, usage) = {} /\ Opened(k, resv) = {}
        /\ Uniform(k, resv)
    BY <1>1 DEF Begun, Spent, Opened, CountedIn, NoResv, Uniform
  <2>2. IsFiniteSet({}) /\ Cardinality({}) = 0
    BY FS_EmptySet
  <2>3. Plan[k].amount \in Nat
    OBVIOUS
  <2>4. Covered(Idle, used[k], 0, 0, 0)
    BY <1>1 DEF Covered, Ahead, Due, Idle
  <2>5. CASE Plan[k].amount = 0
    BY <2>1, <2>2, <2>5 DEF Count, Enough
  <2>6. CASE Plan[k].amount # 0
    <3>1. Routine(k, Idle, {})
      BY <2>3, <2>6
         DEF Idle, Routine, WalletPcs, CountedPcs, ChargePcs, RefundPcs, ReleasePcs
    <3> QED
      BY <2>1, <2>2, <2>4, <3>1 DEF Count
  <2> QED
    BY <2>5, <2>6
<1>4. \A s \in Slots : \A k : ~WorksOn(call[s], k)
  BY <1>1 DEF WorksOn, Idle
<1> QED
  BY <1>2, <1>3, <1>4 DEF Counts

\* Every step keeps count.
LEMMA StepCounts ==
  ASSUME KeyCalls = 1 PROVE CInv /\ [Next]_vars => CInv'
<1> SUFFICES ASSUME CInv, [Next]_vars PROVE CInv'
  OBVIOUS
<1>1. WInv' /\ Served'
  BY StepWorks, StepServed DEF CInv, WInv, QInv
<1>2. ASSUME NEW s \in Slots, Step(s) PROVE Counts'
  BY <1>1, <1>2, CountHold, CountCharge, CountRelease DEF Step
<1>3. ASSUME NEW s \in Slots, Begin(s) PROVE Counts'
  BY <1>3, CountBegin DEF Begin
<1>4. Counts'
  BY <1>2, <1>3, CountProcess DEF Next
<1> QED
  BY <1>1, <1>4 DEF CInv

\* While the host runs the calls of a key one after another, a request key spends
\* at most one unit on a client request: a hold, a second attempt that is already
\* counted, a charge for a request that holds nothing, a refund, a crash and Boot
\* never make it two (RequestCountedOnce: Hold, Charge, Settle, Release).
THEOREM SerialRequestsCounted ==
  ASSUME KeyCalls = 1 PROVE Spec => []RequestCountedOnce
<1>1. CInv => RequestCountedOnce
  <2> SUFFICES ASSUME CInv, NEW k \in Keys, Plan[k].kind = "request"
               PROVE  used[k] <= Cardinality(Begun(k, host))
    BY DEF RequestCountedOnce, Begun
  <2>1. /\ WInv /\ Served /\ Counts /\ used[k] \in Nat /\ used[k] <= Plan[k].amount
        /\ Plan[k].amount \in Nat
    BY DEF CInv, WInv, QInv, BInv, TypeOK, Serial, NeverOversold
  <2>2. IsFiniteSet(Begun(k, host)) /\ \E c : Count(k, c, used[k], host, resv, usage)
    BY <2>1 DEF Counts
  <2>3. Cardinality(Begun(k, host)) \in Nat
    BY <2>2, FS_CardinalityType
  <2>4. CASE Enough(k, host)
    BY <2>1, <2>3, <2>4 DEF Enough
  <2>5. CASE ~Enough(k, host)
    <3>1. PICK c : used[k] + Ahead(c) <= Cardinality(Begun(k, host))
      BY <2>2, <2>5 DEF Count, Covered
    <3>2. Ahead(c) \in Nat
      BY DEF Ahead
    <3> QED
      BY <2>1, <2>3, <3>1, <3>2
  <2> QED
    BY <2>4, <2>5
<1>2. Init => CInv
  BY InitWorks, InitCounts DEF CInv
<1> QED
  BY <1>1, <1>2, StepCounts, PTL DEF Spec

-----------------------------------------------------------------------------
(***************************************************************************)
(* What crashes lose, still with one call per key at a time.  A request is *)
(* undone when the ledger, its row and the call at work no longer agree on *)
(* it; a crash undoes at most one request for each slot it interrupts, or  *)
(* leaves one debit unrecorded, and no other step does either.             *)
(***************************************************************************)

Undone == {r \in Requests : ~Booked(r)}

Debits(rows) == {i \in DOMAIN rows : rows[i].reason = "usage"}
Records(us)  == {i \in DOMAIN us : us[i].src = "wallet"}

AtRecord(c)   == c.pc = "record" /\ c.src = "wallet"
Recorders(cs) == {s \in Slots : AtRecord(cs[s])}

\* The debits no usage record and no call accounts for, less the records that
\* took nothing beyond the hold.
Debt(rows, us, cs) ==
  Cardinality(Debits(rows)) - Cardinality(Records(us)) - Cardinality(Recorders(cs))

\* Nothing is given back to a request without a row.
Rowless ==
  \A r \in Requests : resv[r].status = "none" =>
    BackIn(ledger, r) = 0 /\ HeldIn(ledger, r) >= 0

Losses ==
  /\ IsFiniteSet(Undone)
  /\ Cardinality(Undone) + Larger(0, Debt(ledger, usage, call))
       <= crashes * Cardinality(Slots)
  /\ Rowless

\* One more row is one more debit, or none.
LEMMA DebitsGrow ==
  ASSUME NEW rows \in Seq(LedgerRow), NEW row \in LedgerRow
  PROVE  /\ Cardinality(Debits(rows)) \in Nat
         /\ Cardinality(Debits(Append(rows, row))) = Cardinality(Debits(rows)) +
              (IF row.reason = "usage" THEN 1 ELSE 0)
<1> DEFINE S == Debits(rows)
           T == Debits(Append(rows, row))
           k == Len(rows) + 1
<1>1. /\ DOMAIN rows = 1..Len(rows) /\ Len(rows) \in Nat /\ k \notin DOMAIN rows
      /\ DOMAIN Append(rows, row) = 1..k
      /\ \A i \in 1..Len(rows) : Append(rows, row)[i] = rows[i]
      /\ Append(rows, row)[k] = row
  BY AppendedRows
<1>2. IsFiniteSet(S) /\ Cardinality(S) \in Nat
  <2>1. IsFiniteSet(1..Len(rows)) /\ S \subseteq 1..Len(rows)
    BY <1>1, FS_Interval DEF Debits
  <2> QED
    BY <2>1, FS_Subset, FS_CardinalityType
<1>3. k \notin S /\ T = IF row.reason = "usage" THEN S \cup {k} ELSE S
  <2>1. \A i \in 1..k : i \in 1..Len(rows) \/ i = k
    BY <1>1
  <2> QED
    BY <1>1, <2>1 DEF Debits
<1> HIDE DEF S, T, k
<1>4. Cardinality(S \cup {k}) = Cardinality(S) + 1
  BY <1>2, <1>3, FS_AddElement
<1> QED
  BY <1>2, <1>3, <1>4 DEF S, T

\* The same of the usage records paid from the wallet.
LEMMA RecordsGrow ==
  ASSUME NEW us \in Seq(UsageRow), NEW row \in UsageRow
  PROVE  /\ Cardinality(Records(us)) \in Nat
         /\ Cardinality(Records(Append(us, row))) = Cardinality(Records(us)) +
              (IF row.src = "wallet" THEN 1 ELSE 0)
<1> DEFINE S == Records(us)
           T == Records(Append(us, row))
           k == Len(us) + 1
<1>1. /\ DOMAIN us = 1..Len(us) /\ Len(us) \in Nat /\ k \notin DOMAIN us
      /\ DOMAIN Append(us, row) = 1..k
      /\ \A i \in 1..Len(us) : Append(us, row)[i] = us[i]
      /\ Append(us, row)[k] = row
  BY AppendedRows
<1>2. IsFiniteSet(S) /\ Cardinality(S) \in Nat
  <2>1. IsFiniteSet(1..Len(us)) /\ S \subseteq 1..Len(us)
    BY <1>1, FS_Interval DEF Records
  <2> QED
    BY <2>1, FS_Subset, FS_CardinalityType
<1>3. k \notin S /\ T = IF row.src = "wallet" THEN S \cup {k} ELSE S
  <2>1. \A i \in 1..k : i \in 1..Len(us) \/ i = k
    BY <1>1
  <2> QED
    BY <1>1, <2>1 DEF Records
<1> HIDE DEF S, T, k
<1>4. Cardinality(S \cup {k}) = Cardinality(S) + 1
  BY <1>2, <1>3, FS_AddElement
<1> QED
  BY <1>2, <1>3, <1>4 DEF S, T

\* A slot moves on: the others record what they recorded.
LEMMA RecordersNext ==
  ASSUME TypeOK, NEW s \in Slots, NEW d, Set(s, d)
  PROVE  /\ Cardinality(Recorders(call)) \in Nat
         /\ Cardinality(Recorders(call')) = Cardinality(Recorders(call))
              - (IF AtRecord(call[s]) THEN 1 ELSE 0) + (IF AtRecord(d) THEN 1 ELSE 0)
<1> DEFINE S == Recorders(call)
           R == S \ {s}
           T == Recorders(call')
<1>1. call'[s] = d /\ \A t \in Slots \ {s} : call'[t] = call[t]
  BY DEF TypeOK, Set
<1>2. /\ T = IF AtRecord(d) THEN R \cup {s} ELSE R
      /\ s \in S <=> AtRecord(call[s])
      /\ s \notin R
  BY <1>1 DEF Recorders
<1>3. IsFiniteSet(S) /\ Cardinality(S) \in Nat
  <2>1. S \subseteq Slots
    BY DEF Recorders
  <2> QED
    BY <2>1, FS_Subset, FS_CardinalityType
<1> HIDE DEF S, T
<1>4. /\ IsFiniteSet(R)
      /\ Cardinality(R) = IF s \in S THEN Cardinality(S) - 1 ELSE Cardinality(S)
  BY <1>3, FS_RemoveElement
<1> HIDE DEF R
<1>5. Cardinality(R \cup {s}) = Cardinality(R) + 1
  BY <1>2, <1>4, FS_AddElement
<1> QED
  BY <1>2, <1>3, <1>4, <1>5 DEF S, T

\* What the next statement of a call writes to the ledger.
LEMMA LedgerStep ==
  ASSUME WInv, NEW s \in Slots, Step(s)
  PROVE  \/ ledger' = ledger
         \/ \E u \in Users, n \in Nat :
              /\ resv' = resv
              /\ call[s].req \in Requests
              /\ AdjustBalance(u, -n, "hold", <<"hold", call[s].req>>, "system")
         \/ \E u \in Users, n \in Nat, tag \in {"settle", "release"} :
              /\ resv' = resv
              /\ call[s].res \in Requests /\ resv[call[s].res].status = "open"
              /\ AdjustBalance(u, n, "refund", <<tag, call[s].res>>, "system")
         \/ \E u \in Users, n \in Nat :
              /\ resv' = resv
              /\ call[s].pc # "record"
              /\ usage' = usage
              /\ Set(s, [call[s] EXCEPT !.pc = "record", !.src = "wallet"])
              /\ AdjustBalance(u, -n, "usage", <<"usage", NoReq>>, "system")
<1> DEFINE c == call[s]
           u == Owner[KeyOf[c.req]]
<1>1. CASE HoldDebit(s)
  <2>1. c.pc = "hold_debit" /\ resv' = resv
    BY <1>1 DEF HoldDebit
  <2>2. c.req \in Requests /\ u \in Users /\ c.amt \in Nat
    BY <2>1, Working DEF Call
  <2>3. \/ ledger' = ledger
        \/ AdjustBalance(u, -c.amt, "hold", <<"hold", c.req>>, "system")
    BY <1>1 DEF HoldDebit, walletVars
  <2> HIDE DEF u, c
  <2>4. CASE AdjustBalance(u, -c.amt, "hold", <<"hold", c.req>>, "system")
    BY <2>1, <2>2, <2>4 DEF c
  <2> QED
    BY <2>3, <2>4
<1>2. CASE SettleRefund(s) \/ ReleaseRefund(s)
  <2>1. c.pc \in {"settle_refund", "release_refund"} /\ resv' = resv
    BY <1>2 DEF SettleRefund, ReleaseRefund
  <2>2. /\ c.res \in Requests /\ KeyOf[c.res] = KeyOf[c.req] /\ u \in Users /\ c \in Call
        /\ Fine(c, used) /\ Work(c, resv, host, periodEnd, now) /\ c.req \in Requests
    BY <2>1, Working DEF RefundPcs, ReleasePcs
  <2>3. resv[c.res].status = "open" /\ c.amt \in Nat /\ Actual(c) \in Nat
    BY <2>1, <2>2, ActualNat DEF Work, RefundPcs, ReleasePcs, Call
  <2>4. \E n \in Nat, tag \in {"settle", "release"} : Refund(c.res, n, tag)
    <3>1. CASE SettleRefund(s)
      <4>1. c.pc = "settle_refund" /\ Refund(c.res, c.amt - Actual(c), "settle")
        BY <3>1 DEF SettleRefund
      <4>2. c.amt - Actual(c) \in Nat
        BY <2>2, <2>3, <4>1 DEF Fine
      <4> QED
        BY <4>1, <4>2
    <3>2. CASE ReleaseRefund(s)
      BY <2>3, <3>2 DEF ReleaseRefund
    <3> QED
      BY <1>2, <3>1, <3>2
  <2>5. PICK n \in Nat, tag \in {"settle", "release"} : Refund(c.res, n, tag)
    BY <2>4
  <2>6. ledger' = ledger \/ AdjustBalance(u, n, "refund", <<tag, c.res>>, "system")
    BY <2>2, <2>5 DEF Refund, walletVars
  <2> HIDE DEF u, c
  <2> QED
    BY <2>1, <2>2, <2>3, <2>6 DEF c
<1>3. CASE ExtraDebit(s) \/ OverDebit(s)
  <2>1. PICK n \in {c.amt, BillableCost(c.use)} : DebitOwner(s, n)
    BY <1>3 DEF ExtraDebit, OverDebit
  <2>2. c.pc \in {"extra_debit", "over_debit"} /\ UNCHANGED <<resv, usage>>
    BY <1>3, <2>1 DEF ExtraDebit, OverDebit, DebitOwner
  <2>3. u \in Users /\ n \in Nat
    <3>1. u \in Users /\ c \in Call
      BY <2>2, Working
    <3>2. c.amt \in Nat /\ BillableCost(c.use) \in Nat
      BY <3>1, BillableNat DEF Call
    <3> QED
      BY <3>1, <3>2
  <2>4. \/ ledger' = ledger
        \/ /\ AdjustBalance(u, -n, "usage", <<"usage", NoReq>>, "system")
           /\ Set(s, [c EXCEPT !.pc = "record", !.src = "wallet"])
    BY <2>1 DEF DebitOwner, walletVars
  <2> HIDE DEF u, c
  <2> QED
    BY <2>2, <2>3, <2>4 DEF c
<1>4. CASE ~ \/ HoldDebit(s) \/ SettleRefund(s) \/ ReleaseRefund(s)
             \/ ExtraDebit(s) \/ OverDebit(s)
  BY <1>4 DEF Step, HoldPeriod, HoldQuota, HoldCheck, HoldInsert, ChargePeriod,
         ChargeCount, ChargeOwn, SettlePick, SettleMark, ExtraCheck,
         ChargeQuota, OverCheck, Record, ReleaseMark, ConsumeQuota, walletVars
<1> QED
  BY <1>1, <1>2, <1>3, <1>4


\* AdjustBalance adds a debit, or none.
LEMMA DebitWritten ==
  ASSUME TypeOK, NEW u \in Users, NEW delta \in Int, NEW reason \in Reasons,
         NEW ref \in Refs, AdjustBalance(u, delta, reason, ref, "system")
  PROVE  Cardinality(Debits(ledger')) = Cardinality(Debits(ledger)) +
           (IF reason = "usage" THEN 1 ELSE 0)
<1> DEFINE row == [user |-> u, delta |-> delta, reason |-> reason, ref |-> ref,
                   channel |-> "system", after |-> users[u].balance + delta]
<1>1. ledger' = Append(ledger, row) /\ row \in LedgerRow /\ ledger \in Seq(LedgerRow)
  <2>1. users[u].balance + delta \in Int /\ ledger \in Seq(LedgerRow)
    BY DEF TypeOK, WalletTypeOK, WalletRow
  <2>2. ref \in Refs \cup {NoRef} /\ "system" \in Channels
    BY DEF Channels
  <2> QED
    BY <2>1, <2>2 DEF AdjustBalance, LedgerRow
<1>2. row.reason = reason
  OBVIOUS
<1> HIDE DEF row
<1>3. Cardinality(Debits(Append(ledger, row))) = Cardinality(Debits(ledger)) +
        (IF row.reason = "usage" THEN 1 ELSE 0)
  BY <1>1, DebitsGrow
<1> QED
  BY <1>1, <1>2, <1>3

\* The three counts are numbers.
LEMMA CountsNat ==
  ASSUME TypeOK
  PROVE  /\ Cardinality(Debits(ledger)) \in Nat /\ Cardinality(Records(usage)) \in Nat
         /\ Cardinality(Recorders(call)) \in Nat
<1>1. IsFiniteSet(Debits(ledger))
  <2>1. ledger \in Seq(LedgerRow)
    BY DEF TypeOK, WalletTypeOK
  <2>2. Debits(ledger) \subseteq 1..Len(ledger) /\ Len(ledger) \in Nat
    BY <2>1 DEF Debits
  <2>3. IsFiniteSet(1..Len(ledger))
    BY <2>2, FS_Interval
  <2> QED
    BY <2>2, <2>3, FS_Subset
<1>2. IsFiniteSet(Records(usage))
  <2>1. usage \in Seq(UsageRow)
    BY DEF TypeOK
  <2>2. Records(usage) \subseteq 1..Len(usage) /\ Len(usage) \in Nat
    BY <2>1 DEF Records
  <2>3. IsFiniteSet(1..Len(usage))
    BY <2>2, FS_Interval
  <2> QED
    BY <2>2, <2>3, FS_Subset
<1>3. IsFiniteSet(Recorders(call))
  <2>1. Recorders(call) \subseteq Slots
    BY DEF Recorders
  <2> QED
    BY <2>1, FS_Subset
<1> QED
  BY <1>1, <1>2, <1>3, FS_CardinalityType

\* A debit goes with the call that will record it, and a record with its call.
LEMMA StepDebt ==
  ASSUME WInv, NEW s \in Slots, Step(s)
  PROVE  Debt(ledger', usage', call') <= Debt(ledger, usage, call)
<1> DEFINE c == call[s]
<1>1. /\ BInv /\ TypeOK /\ c \in Call /\ c.req \in Requests
      /\ usage \in Seq(UsageRow) /\ c.pc # "idle"
  BY StepKind, Working DEF WInv, QInv, BInv, TypeOK
<1>2. /\ Cardinality(Debits(ledger)) \in Nat /\ Cardinality(Records(usage)) \in Nat
      /\ Cardinality(Recorders(call)) \in Nat
  BY <1>1, CountsNat
<1>3. PICK d : Set(s, d)
  BY <1>1, StepKind
<1>4. Cardinality(Recorders(call')) = Cardinality(Recorders(call))
        - (IF AtRecord(c) THEN 1 ELSE 0) + (IF AtRecord(d) THEN 1 ELSE 0)
  BY <1>1, <1>3, RecordersNext
<1>5. CASE c.pc = "record"
  <2>1. Record(s)
    BY <1>5 DEF Step, HoldPeriod, HoldQuota, HoldCheck, HoldDebit, HoldInsert,
         ChargePeriod, ChargeCount, ChargeOwn, SettlePick, SettleRefund, SettleMark,
         ExtraCheck, ExtraDebit, ChargeQuota, OverCheck, OverDebit, ReleaseRefund,
         ReleaseMark
  <2> DEFINE row == [req |-> c.req, src |-> c.src, tokens |-> c.use.tokens,
                     cost |-> IF c.src = "none" THEN 0 ELSE BillableCost(c.use)]
  <2>2. usage' = Append(usage, row) /\ row.src = c.src /\ ledger' = ledger
    BY <2>1 DEF Record, walletVars
  <2>3. row \in UsageRow
    BY <1>1, BillableNat DEF Call, UsageRow, Usage, Sources
  <2> HIDE DEF row
  <2>4. Cardinality(Records(usage')) = Cardinality(Records(usage)) +
          (IF AtRecord(c) THEN 1 ELSE 0)
    <3>1. Cardinality(Records(Append(usage, row))) = Cardinality(Records(usage)) +
            (IF row.src = "wallet" THEN 1 ELSE 0)
      BY <1>1, <2>3, RecordsGrow
    <3> QED
      BY <1>5, <2>2, <3>1 DEF AtRecord
  <2>5. Cardinality(Debits(ledger')) = Cardinality(Debits(ledger))
    BY <2>2
  <2> QED
    BY <1>2, <1>4, <2>4, <2>5 DEF Debt
<1>6. CASE c.pc # "record"
  <2>1. usage' = usage
    BY <1>6 DEF Step, HoldPeriod, HoldQuota, HoldCheck, HoldDebit, HoldInsert,
         ChargePeriod, ChargeCount, ChargeOwn, SettlePick, SettleRefund, SettleMark,
         ExtraCheck, ExtraDebit, ChargeQuota, OverCheck, OverDebit, Record,
         ReleaseRefund, ReleaseMark, DebitOwner
  <2>2. Cardinality(Records(usage')) = Cardinality(Records(usage)) /\ ~AtRecord(c)
    BY <1>6, <2>1 DEF AtRecord
  <2>3. ASSUME Cardinality(Debits(ledger')) = Cardinality(Debits(ledger))
        PROVE  Debt(ledger', usage', call') <= Debt(ledger, usage, call)
    BY <1>2, <1>4, <2>2, <2>3 DEF Debt
  <2>4. ASSUME NEW u \in Users, NEW n \in Nat, NEW reason \in {"hold", "refund"},
               NEW tag \in {"hold", "settle", "release"}, NEW r \in Requests,
               NEW delta \in {n, -n},
               AdjustBalance(u, delta, reason, <<tag, r>>, "system")
        PROVE  Debt(ledger', usage', call') <= Debt(ledger, usage, call)
    <3>1. /\ TypeOK /\ u \in Users /\ delta \in Int /\ reason \in Reasons
          /\ <<tag, r>> \in Refs /\ AdjustBalance(u, delta, reason, <<tag, r>>, "system")
      BY <1>1, <2>4 DEF Reasons, Tags
    <3>2. Cardinality(Debits(ledger')) = Cardinality(Debits(ledger)) +
            (IF reason = "usage" THEN 1 ELSE 0)
      BY ONLY <3>1, DebitWritten
    <3> QED
      BY <1>2, <2>3, <3>2
  <2>5. ASSUME NEW u \in Users, NEW n \in Nat,
               Set(s, [c EXCEPT !.pc = "record", !.src = "wallet"]),
               AdjustBalance(u, -n, "usage", <<"usage", NoReq>>, "system")
        PROVE  Debt(ledger', usage', call') <= Debt(ledger, usage, call)
    <3> DEFINE e == [c EXCEPT !.pc = "record", !.src = "wallet"]
               delta == -n
    <3>1. Set(s, e) /\ AtRecord(e)
      BY <1>1, <2>5 DEF Call, AtRecord
    <3> HIDE DEF e
    <3>2. Cardinality(Recorders(call')) = Cardinality(Recorders(call)) + 1
      <4>1. Cardinality(Recorders(call')) = Cardinality(Recorders(call))
              - (IF AtRecord(c) THEN 1 ELSE 0) + (IF AtRecord(e) THEN 1 ELSE 0)
        BY <1>1, <3>1, RecordersNext
      <4> QED
        BY <1>2, <2>2, <3>1, <4>1
    <3>3. /\ TypeOK /\ u \in Users /\ delta \in Int /\ "usage" \in Reasons
          /\ <<"usage", NoReq>> \in Refs
          /\ AdjustBalance(u, delta, "usage", <<"usage", NoReq>>, "system")
      BY <1>1, <2>5 DEF Reasons, Tags
    <3> HIDE DEF delta
    <3>4. Cardinality(Debits(ledger')) = Cardinality(Debits(ledger)) + 1
      <4>1. Cardinality(Debits(ledger')) = Cardinality(Debits(ledger)) +
              (IF "usage" = "usage" THEN 1 ELSE 0)
        BY ONLY <3>3, DebitWritten
      <4> QED
        BY <4>1
    <3> QED
      BY <1>2, <2>2, <3>2, <3>4 DEF Debt
  <2>6. CASE ledger' = ledger
    BY <2>3, <2>6
  <2>7. CASE \E u \in Users, n \in Nat :
               /\ c.req \in Requests
               /\ AdjustBalance(u, -n, "hold", <<"hold", c.req>>, "system")
    BY <2>4, <2>7
  <2>8. CASE \E u \in Users, n \in Nat, tag \in {"settle", "release"} :
               /\ c.res \in Requests
               /\ AdjustBalance(u, n, "refund", <<tag, c.res>>, "system")
    BY <2>4, <2>8
  <2>9. CASE \E u \in Users, n \in Nat :
               /\ Set(s, [c EXCEPT !.pc = "record", !.src = "wallet"])
               /\ AdjustBalance(u, -n, "usage", <<"usage", NoReq>>, "system")
    BY <2>5, <2>9
  <2> QED
    BY <2>6, <2>7, <2>8, <2>9, LedgerStep
<1> QED
  BY <1>5, <1>6

\* What a call that begins, the host and the other process steps leave alone.
LEMMA BeginDebt ==
  ASSUME WInv, [Next]_vars, ~Crash, \A s \in Slots : ~Step(s)
  PROVE  /\ UNCHANGED <<ledger, usage, resv>>
         /\ Debt(ledger', usage', call') <= Debt(ledger, usage, call)
<1>1. TypeOK
  BY DEF WInv, QInv, BInv
<1>2. /\ Cardinality(Debits(ledger)) \in Nat /\ Cardinality(Records(usage)) \in Nat
      /\ Cardinality(Recorders(call)) \in Nat
  BY <1>1, CountsNat
<1>3. CASE UNCHANGED <<ledger, usage, resv, call>>
  BY <1>2, <1>3 DEF Debt
<1>4. ASSUME NEW s \in Slots, NEW d, Set(s, d), call[s].pc = "idle",
             UNCHANGED <<ledger, usage, resv>>
      PROVE  Debt(ledger', usage', call') <= Debt(ledger, usage, call)
  <2>1. Cardinality(Recorders(call')) = Cardinality(Recorders(call))
          - (IF AtRecord(call[s]) THEN 1 ELSE 0) + (IF AtRecord(d) THEN 1 ELSE 0)
    BY <1>1, <1>4, RecordersNext
  <2>2. ~AtRecord(call[s])
    BY <1>4 DEF AtRecord
  <2> QED
    BY <1>2, <1>4, <2>1, <2>2 DEF Debt
<1>5. ASSUME NEW s \in Slots, Begin(s)
      PROVE  /\ UNCHANGED <<ledger, usage, resv>> /\ call[s].pc = "idle"
             /\ \E d : Set(s, d)
  <2>1. PICK r \in Requests : \/ HoldBegin(s, r)
                              \/ \E use \in Uses : ChargeBegin(s, r, use)
                              \/ CompleteFailed(s, r)
                              \/ BootRelease(s, r)
    BY <1>5 DEF Begin
  <2> QED
    BY <2>1 DEF HoldBegin, ChargeBegin, CompleteFailed, BootRelease, Free, ReadRelease,
                walletVars
<1>6. ASSUME \/ \E r \in Requests : CompleteSucceeded(r)
             \/ Boot \/ BootDone \/ Edit \/ Tick \/ UNCHANGED vars
      PROVE  UNCHANGED <<ledger, usage, resv, call>>
  BY <1>6 DEF CompleteSucceeded, Boot, BootDone, Edit, Switch, EditTerms, UpdateMode,
              UpdateLimit, Tick, vars, walletVars
<1> QED
  BY <1>3, <1>4, <1>5, <1>6 DEF Next


\* A row once inserted stays.
LEMMA RowsStay ==
  ASSUME WInv, NEW s \in Slots, Step(s), NEW r \in Requests, resv'[r].status = "none"
  PROVE  resv[r].status = "none"
<1> DEFINE c == call[s]
<1>1. resv \in [Requests -> ResvRow]
  BY DEF WInv, QInv, BInv, TypeOK
<1>2. CASE HoldInsert(s)
  BY <1>1, <1>2 DEF HoldInsert
<1>3. CASE SettleMark(s) \/ ReleaseMark(s)
  <2>1. \E status \in {"settled", "released"} :
          resv' = [resv EXCEPT ![c.res].status = status]
    BY <1>3 DEF SettleMark, ReleaseMark
  <2> QED
    BY <1>1, <2>1 DEF ResvRow
<1>4. CASE ~(HoldInsert(s) \/ SettleMark(s) \/ ReleaseMark(s))
  <2>1. resv' = resv
    BY <1>4 DEF Step, HoldPeriod, HoldQuota, HoldCheck, HoldDebit, ChargePeriod,
         ChargeCount, ChargeOwn, SettlePick, SettleRefund, ExtraCheck, ExtraDebit,
         ChargeQuota, OverCheck, OverDebit, Record, ReleaseRefund, DebitOwner
  <2> QED
    BY <2>1
<1> QED
  BY <1>2, <1>3, <1>4

\* Refunds are made for rows that are there.
LEMMA StepRowless ==
  ASSUME WInv, Rowless, NEW s \in Slots, Step(s)
  PROVE  Rowless'
<1> SUFFICES ASSUME NEW r \in Requests, resv'[r].status = "none"
             PROVE  BackIn(ledger', r) = 0 /\ HeldIn(ledger', r) >= 0
  BY DEF Rowless
<1>1. resv[r].status = "none" /\ BackIn(ledger, r) = 0 /\ HeldIn(ledger, r) >= 0
  BY RowsStay DEF Rowless
<1>2. TypeOK /\ r \in Requests
  BY DEF WInv, QInv, BInv
<1> DEFINE c == call[s]
<1>3. CASE ledger' = ledger
  BY <1>1, <1>3
<1>4. ASSUME NEW u \in Users, NEW n \in Nat, c.req \in Requests,
             AdjustBalance(u, -n, "hold", <<"hold", c.req>>, "system")
      PROVE  BackIn(ledger', r) = 0 /\ HeldIn(ledger', r) >= 0
  <2>1. PICK q \in Requests : q = c.req
    BY <1>4
  <2>2. /\ TypeOK /\ u \in Users /\ n \in Nat /\ q \in Requests /\ r \in Requests
        /\ AdjustBalance(u, -n, "hold", <<"hold", q>>, "system")
    BY <1>2, <1>4, <2>1
  <2>3. /\ HeldIn(ledger, r) \in Int /\ BackIn(ledger, r) \in Int
        /\ HeldIn(ledger', r) = HeldIn(ledger, r) + (IF q = r THEN n ELSE 0)
        /\ BackIn(ledger', r) = BackIn(ledger, r)
    BY ONLY <2>2, HoldWritten
  <2> QED
    BY <1>1, <2>3
<1>5. ASSUME NEW u \in Users, NEW n \in Nat, NEW tag \in {"settle", "release"},
             c.res \in Requests, resv[c.res].status = "open",
             AdjustBalance(u, n, "refund", <<tag, c.res>>, "system")
      PROVE  BackIn(ledger', r) = 0 /\ HeldIn(ledger', r) >= 0
  <2>1. PICK q \in Requests : q = c.res
    BY <1>5
  <2>2. /\ TypeOK /\ u \in Users /\ n \in Nat /\ q \in Requests /\ r \in Requests
        /\ tag \in {"settle", "release"}
        /\ AdjustBalance(u, n, "refund", <<tag, q>>, "system")
    BY <1>2, <1>5, <2>1
  <2>3. /\ HeldIn(ledger, r) \in Int /\ BackIn(ledger, r) \in Int
        /\ HeldIn(ledger', r) = HeldIn(ledger, r)
        /\ BackIn(ledger', r) = BackIn(ledger, r) + (IF q = r THEN n ELSE 0)
    BY ONLY <2>2, RefundWritten, ZenonT(60)
  <2>4. q # r
    BY <1>1, <1>5, <2>1
  <2> QED
    BY <1>1, <2>3, <2>4
<1>6. ASSUME NEW u \in Users, NEW n \in Nat,
             AdjustBalance(u, -n, "usage", <<"usage", NoReq>>, "system")
      PROVE  BackIn(ledger', r) = 0 /\ HeldIn(ledger', r) >= 0
  <2>2. /\ TypeOK /\ u \in Users /\ n \in Nat /\ r \in Requests
        /\ AdjustBalance(u, -n, "usage", <<"usage", NoReq>>, "system")
    BY <1>2, <1>6
  <2>3. HeldIn(ledger', r) = HeldIn(ledger, r) /\ BackIn(ledger', r) = BackIn(ledger, r)
    BY ONLY <2>2, UsageWritten
  <2> QED
    BY <1>1, <2>3
<1>7. \/ ledger' = ledger
      \/ \E u \in Users, n \in Nat :
           /\ c.req \in Requests
           /\ AdjustBalance(u, -n, "hold", <<"hold", c.req>>, "system")
      \/ \E u \in Users, n \in Nat, tag \in {"settle", "release"} :
           /\ c.res \in Requests /\ resv[c.res].status = "open"
           /\ AdjustBalance(u, n, "refund", <<tag, c.res>>, "system")
      \/ \E u \in Users, n \in Nat :
           AdjustBalance(u, -n, "usage", <<"usage", NoReq>>, "system")
  BY LedgerStep
<1> QED
  BY <1>3, <1>4, <1>5, <1>6, <1>7

\* The request of which a crash leaves a debit without its row, or a refund
\* without its mark.
HalfDone(c) == c.pc \in {"hold_insert", "settle_mark", "release_mark"}
Victim(c)   == IF c.pc = "hold_insert" THEN c.req ELSE c.res

\* A crash undoes one request for each slot that is half done.
LEMMA CrashUndoes ==
  ASSUME WInv, IsFiniteSet(Undone), Crash,
         NEW H, H = {s \in Slots : HalfDone(call[s])}
  PROVE  /\ IsFiniteSet(Undone')
         /\ Cardinality(Undone') <= Cardinality(Undone) + Cardinality(H)
<1> DEFINE V == {Victim(call[s]) : s \in H}
           f == [s \in H |-> Victim(call[s])]
<1>1. IsFiniteSet(H) /\ Cardinality(H) \in Nat
  <2>1. H \subseteq Slots
    OBVIOUS
  <2> QED
    BY <2>1, FS_Subset, FS_CardinalityType
<1>2. IsFiniteSet(V) /\ Cardinality(V) <= Cardinality(H) /\ Cardinality(V) \in Nat
  <2>1. f \in Surjection(H, V)
    BY DEF Surjection
  <2> HIDE DEF f, V
  <2> QED
    BY <1>1, <2>1, FS_Surjection, FS_CardinalityType
<1>3. Undone' \subseteq Undone \cup V
  <2>1. ASSUME NEW r \in Requests, Booked(r), r \notin V PROVE Booked(r)'
    <3>1. ASSUME NEW t \in Slots PROVE Off(r, call[t])
      <4>1. HalfDone(call[t]) => Victim(call[t]) # r
        BY <2>1
      <4> QED
        BY <4>1 DEF HalfDone, Victim, Off, Inserting, Marking
    <3> QED
      BY <2>1, <3>1, CrashBooked
  <2> HIDE DEF V
  <2> QED
    BY <2>1 DEF Undone
<1> HIDE DEF V, f
<1>4. /\ IsFiniteSet(Undone \cup V)
      /\ Cardinality(Undone \cup V) =
           Cardinality(Undone) + Cardinality(V) - Cardinality(Undone \cap V)
      /\ IsFiniteSet(Undone \cap V)
  BY <1>2, FS_Union, FS_Intersection
<1>5. Cardinality(Undone) \in Nat /\ Cardinality(Undone \cap V) \in Nat
  BY <1>4, FS_CardinalityType
<1>6. /\ IsFiniteSet(Undone') /\ Cardinality(Undone') <= Cardinality(Undone \cup V)
      /\ Cardinality(Undone') \in Nat
  BY <1>3, <1>4, FS_Subset, FS_CardinalityType
<1> QED
  BY <1>1, <1>2, <1>4, <1>5, <1>6

\* A crash loses one thing at most for each slot.
LEMMA CrashLosses ==
  ASSUME WInv, Losses, Crash
  PROVE  Losses'
<1> DEFINE H == {s \in Slots : HalfDone(call[s])}
           R == Recorders(call)
           N == Cardinality(Slots)
<1>1. /\ TypeOK /\ IsFiniteSet(Undone) /\ Rowless /\ N \in Nat /\ crashes \in Nat
      /\ Cardinality(Undone) + Larger(0, Debt(ledger, usage, call)) <= crashes * N
  BY FS_CardinalityType DEF Losses, WInv, QInv, BInv, TypeOK
<1>2. UNCHANGED <<ledger, resv, usage>> /\ crashes' = crashes + 1
      /\ call' = [s \in Slots |-> Idle]
  BY DEF Crash, walletVars
<1>3. /\ Cardinality(Debits(ledger)) \in Nat /\ Cardinality(Records(usage)) \in Nat
      /\ Cardinality(R) \in Nat
  BY <1>1, CountsNat
<1>4. Cardinality(H) + Cardinality(R) <= N /\ Cardinality(H) \in Nat
  <2>1. H \cup R \subseteq Slots /\ H \cap R = {}
    BY DEF Recorders, HalfDone, AtRecord
  <2> HIDE DEF H, R
  <2>2. IsFiniteSet(H) /\ IsFiniteSet(R) /\ Cardinality(H \cup R) <= N
    BY <2>1, FS_Subset
  <2>3. Cardinality(H \cup R) = Cardinality(H) + Cardinality(R) - Cardinality(H \cap R)
    BY <2>2, FS_Union
  <2>4. Cardinality(H \cap R) = 0
    BY <2>1, FS_EmptySet
  <2> QED
    BY <1>3, <2>2, <2>3, <2>4, FS_CardinalityType
<1>5. /\ IsFiniteSet(Undone') /\ Cardinality(Undone') \in Nat
      /\ Cardinality(Undone') <= Cardinality(Undone) + Cardinality(H)
  BY <1>1, CrashUndoes, FS_CardinalityType
<1>6. Cardinality(Recorders(call')) = 0
  <2>1. Recorders(call') = {}
    BY <1>2 DEF Recorders, AtRecord, Idle
  <2> QED
    BY <2>1, FS_EmptySet
<1>7. Debt(ledger', usage', call') = Debt(ledger, usage, call) + Cardinality(R)
  BY <1>2, <1>3, <1>6 DEF Debt
<1>8. Larger(0, Debt(ledger', usage', call'))
        <= Larger(0, Debt(ledger, usage, call)) + Cardinality(R)
  BY <1>3, <1>7 DEF Larger, Debt
<1>9. Larger(0, Debt(ledger, usage, call)) \in Nat
      /\ Larger(0, Debt(ledger', usage', call')) \in Nat
  BY <1>3, <1>7 DEF Larger, Debt
<1>10. Cardinality(Undone) \in Nat
  BY <1>1, FS_CardinalityType
<1>11. crashes' * N = crashes * N + N /\ crashes * N \in Nat
  BY <1>1, <1>2
<1>12. Cardinality(Undone') + Larger(0, Debt(ledger', usage', call')) <= crashes' * N
  <2> HIDE DEF H, R, N
  <2> QED
    BY <1>1, <1>3, <1>4, <1>5, <1>8, <1>9, <1>10, <1>11
<1>13. Rowless'
  BY <1>1, <1>2 DEF Rowless
<1> QED
  BY <1>5, <1>12, <1>13 DEF Losses

\* No other step loses anything.
LEMMA StepLosses ==
  ASSUME KeyCalls = 1 PROVE WInv /\ Losses /\ [Next]_vars => Losses'
<1> SUFFICES ASSUME WInv, Losses, [Next]_vars PROVE Losses'
  OBVIOUS
<1>1. CASE Crash
  BY <1>1, CrashLosses
<1>2. CASE ~Crash
  <2>1. IsFiniteSet(Undone') /\ Cardinality(Undone') <= Cardinality(Undone)
        /\ Cardinality(Undone') \in Nat /\ Cardinality(Undone) \in Nat
    <3>1. Undone' \subseteq Undone
      BY <1>2, StepBooked DEF StayBooked, Undone
    <3>2. IsFiniteSet(Undone)
      BY DEF Losses
    <3> QED
      BY <3>1, <3>2, FS_Subset, FS_CardinalityType
  <2>2. crashes' = crashes
    <3>1. ASSUME NEW s \in Slots, Step(s) PROVE crashes' = crashes
      BY <3>1 DEF Step, HoldPeriod, HoldQuota, HoldCheck, HoldDebit, HoldInsert,
           ChargePeriod, ChargeCount, ChargeOwn, SettlePick, SettleRefund, SettleMark,
           ExtraCheck, ExtraDebit, ChargeQuota, OverCheck, OverDebit, Record,
           ReleaseRefund, ReleaseMark, DebitOwner, procVars
    <3>2. ASSUME NEW s \in Slots, Begin(s) PROVE crashes' = crashes
      BY <3>2 DEF Begin, HoldBegin, ChargeBegin, CompleteFailed, BootRelease, procVars
    <3>3. ASSUME NEW r \in Requests, CompleteSucceeded(r) PROVE crashes' = crashes
      BY <3>3 DEF CompleteSucceeded, procVars
    <3>4. ASSUME Boot \/ BootDone \/ Edit \/ Tick \/ UNCHANGED vars
          PROVE  crashes' = crashes
      BY <3>4 DEF Boot, BootDone, Edit, Tick, procVars, vars
    <3> QED
      BY <1>2, <3>1, <3>2, <3>3, <3>4 DEF Next
  <2>3. /\ Debt(ledger', usage', call') <= Debt(ledger, usage, call)
        /\ Rowless'
    <3>1. CASE \E s \in Slots : Step(s)
      BY <3>1, StepDebt, StepRowless DEF Losses
    <3>2. CASE \A s \in Slots : ~Step(s)
      <4>1. /\ UNCHANGED <<ledger, usage, resv>>
            /\ Debt(ledger', usage', call') <= Debt(ledger, usage, call)
        BY <1>2, <3>2, BeginDebt
      <4>2. Rowless'
        BY <4>1 DEF Losses, Rowless
      <4> QED
        BY <4>1, <4>2
    <3> QED
      BY <3>1, <3>2
  <2>4. /\ Debt(ledger, usage, call) \in Int /\ Debt(ledger', usage', call') \in Int
    <3>1. TypeOK /\ TypeOK'
      BY StepWorks DEF WInv, QInv, BInv
    <3>2. /\ Cardinality(Debits(ledger)) \in Nat /\ Cardinality(Records(usage)) \in Nat
          /\ Cardinality(Recorders(call)) \in Nat
      BY <3>1, CountsNat
    <3>3. (/\ Cardinality(Debits(ledger)) \in Nat /\ Cardinality(Records(usage)) \in Nat
           /\ Cardinality(Recorders(call)) \in Nat)'
      BY <3>1, CountsNat, PTL
    <3> QED
      BY <3>2, <3>3 DEF Debt
  <2>5. Larger(0, Debt(ledger', usage', call')) <= Larger(0, Debt(ledger, usage, call))
    BY <2>3, <2>4 DEF Larger
  <2>6. /\ Larger(0, Debt(ledger', usage', call')) \in Int
        /\ Larger(0, Debt(ledger, usage, call)) \in Int
        /\ crashes * Cardinality(Slots) \in Int
    <3>1. Cardinality(Slots) \in Nat /\ crashes \in Int
      BY FS_CardinalityType DEF WInv, QInv, BInv, TypeOK
    <3> QED
      BY <2>4, <3>1 DEF Larger
  <2> QED
    BY <2>1, <2>2, <2>3, <2>5, <2>6 DEF Losses
<1> QED
  BY <1>1, <1>2


\* The wallets as the recharges left them have lost nothing.
LEMMA InitLosses == Init => Losses
<1> SUFFICES ASSUME Init PROVE Losses
  OBVIOUS
<1>1. Undone = {}
  <2>1. \A r \in Requests : Booked(r)
    BY InitEven DEF Even, Init
  <2> QED
    BY <2>1 DEF Undone
<1>2. IsFiniteSet(Undone) /\ Cardinality(Undone) = 0
  BY <1>1, FS_EmptySet
<1>3. Debt(ledger, usage, call) <= 0 /\ Debt(ledger, usage, call) \in Int
  <2>1. Debits(ledger) = {}
    BY OpeningAssumption DEF Init, Debits
  <2>2. Records(usage) = {} /\ Recorders(call) = {}
    BY DEF Init, Records, Recorders, AtRecord, Idle
  <2> QED
    BY <2>1, <2>2, FS_EmptySet DEF Debt
<1>4. Cardinality(Slots) \in Nat /\ crashes = 0
  BY FS_CardinalityType DEF Init
<1>5. Larger(0, Debt(ledger, usage, call)) = 0 /\ crashes * Cardinality(Slots) = 0
  BY <1>3, <1>4 DEF Larger
<1>6. Rowless
  <2>1. ASSUME NEW r \in Requests PROVE BackIn(ledger, r) = 0 /\ HeldIn(ledger, r) = 0
    <3>1. BooksOf(r, Idle, resv[r], ledger) /\ resv[r] = NoResv
      <4>1. Booked(r) /\ \A s \in Slots : ~WorksOn(call[s], KeyOf[r])
        BY <1>1 DEF Undone, Init, WorksOn, Idle
      <4> QED
        BY <4>1 DEF Booked, Init
    <3> QED
      BY <3>1, OffIdle DEF BooksOf, Books, Off, NoResv
  <2> QED
    BY <2>1 DEF Rowless
<1> QED
  BY <1>2, <1>5, <1>6 DEF Losses

\* What a request on which all agree has been given back is no more than was held.
LEMMA BookedHolds ==
  ASSUME WInv, NEW r \in Requests, Booked(r)
  PROVE  /\ BackIn(ledger, r) <= HeldIn(ledger, r)
         /\ resv[r].status = "none" /\ HeldIn(ledger, r) # 0 =>
              \E s \in Slots : call[s].req = r /\ call[s].pc = "hold_insert"
<1>1. PICK c : /\ BooksOf(r, c, resv[r], ledger)
               /\ c = Idle \/ \E s \in Slots : c = call[s] /\ c.pc # "idle"
  BY DEF Booked, WorksOn
<1>2. /\ resv[r] \in ResvRow /\ Row(r, resv[r], host[r].stage)
      /\ c.amt \in Nat
      /\ Marking(r, c) => resv[r].status = "open" /\ resv[r].hold = c.amt
      /\ Inserting(r, c) => resv[r] = NoResv
      /\ Actual(c) \in Nat \/ c = Idle
  <2>1. resv[r] \in ResvRow /\ Row(r, resv[r], host[r].stage)
    BY DEF WInv, QInv, BInv, TypeOK, Works
  <2>2. CASE c = Idle
    BY <2>1, <2>2 DEF Idle, Marking, Inserting
  <2>3. ASSUME NEW s \in Slots, c = call[s], c.pc # "idle"
        PROVE  /\ c.amt \in Nat /\ Actual(c) \in Nat
               /\ Marking(r, c) => resv[r].status = "open" /\ resv[r].hold = c.amt
               /\ Inserting(r, c) => resv[r] = NoResv
    <3>1. c \in Call /\ c.req \in Requests /\ Work(c, resv, host, periodEnd, now)
      BY <2>3, Working
    <3>2. c.amt \in Nat /\ Actual(c) \in Nat
      BY <3>1, ActualNat DEF Call
    <3> QED
      BY <3>1, <3>2 DEF Work, Marking, Inserting, RefundPcs, ReleasePcs, HoldPcs
  <2> QED
    BY <1>1, <2>1, <2>2, <2>3
<1>3. BackIn(ledger, r) <= HeldIn(ledger, r)
  <2>1. CASE Inserting(r, c)
    <3>1. ~Marking(r, c) /\ resv[r].status = "none"
      BY <1>2, <2>1 DEF Inserting, Marking, NoResv
    <3> QED
      BY <1>1, <1>2, <2>1, <3>1 DEF BooksOf, Books
  <2>2. CASE Marking(r, c) /\ resv[r].source = "wallet"
    <3>1. ~Inserting(r, c) /\ c # Idle
      BY <2>2 DEF Inserting, Marking, Idle
    <3>2. \A m, n \in Nat : Larger(0, m - n) <= m
      BY DEF Larger
    <3>3. HeldIn(ledger, r) = c.amt
      BY <1>1, <1>2, <2>2, <3>1 DEF BooksOf, Books
    <3> QED
      BY <1>1, <1>2, <2>2, <3>1, <3>2, <3>3 DEF BooksOf, Books
  <2>3. CASE ~Inserting(r, c) /\ ~(Marking(r, c) /\ resv[r].source = "wallet")
    <3>1. HeldIn(ledger, r) >= 0 /\ HeldIn(ledger, r) \in Int
      BY <1>1, <1>2, <2>3 DEF BooksOf, Books, ResvRow
    <3> QED
      BY <1>1, <1>2, <2>3, <3>1 DEF BooksOf, Books, ResvRow
  <2> QED
    BY <2>1, <2>2, <2>3
<1>4. ASSUME resv[r].status = "none", HeldIn(ledger, r) # 0 PROVE Inserting(r, c)
  <2>1. resv[r] = NoResv
    BY <1>2, <1>4 DEF Row
  <2> QED
    BY <1>1, <1>4, <2>1 DEF BooksOf, Books, NoResv
<1>5. Inserting(r, c) => \E s \in Slots : call[s].req = r /\ call[s].pc = "hold_insert"
  BY <1>1 DEF Inserting, Idle
<1> QED
  BY <1>3, <1>4, <1>5

\* While the host runs the calls of a key one after another, each crash leaves at
\* most one thing wrong for each call it interrupts: a debited hold without its
\* reservation, a hold refunded twice, a debit without its usage record; neither
\* Boot, which releases what is stale, nor any later call, retry or edit makes it
\* more (CrashLosesAtMost: Hold, Settle, Charge, Release, ReleaseStale).
THEOREM SerialCrashLoses ==
  ASSUME KeyCalls = 1 PROVE Spec => []CrashLosesAtMost
<1>1. WInv /\ Losses => CrashLosesAtMost
  <2> SUFFICES ASSUME WInv, Losses PROVE CrashLosesAtMost
    OBVIOUS
  <2> DEFINE O == Orphans
             P == Overpaid
  <2>1. \A tag, r : Ledgered(tag, r) = Moved(ledger, tag, r)
    BY DEF Ledgered, LedgerRows, Moved, MovedRows
  <2>2. \A r \in O : /\ r \in Requests /\ resv[r].status = "none"
                     /\ HeldIn(ledger, r) # 0
                     /\ \A s \in Slots : call[s].req = r => call[s].pc # "hold_insert"
    <3> SUFFICES ASSUME NEW r \in O
                 PROVE  /\ r \in Requests /\ resv[r].status = "none"
                        /\ HeldIn(ledger, r) # 0
                        /\ \A s \in Slots : call[s].req = r => call[s].pc # "hold_insert"
      OBVIOUS
    <3>1. /\ r \in Requests /\ resv[r].status = "none" /\ Ledgered("hold", r) # 0
          /\ \A s \in Slots : call[s].req = r => call[s].pc # "hold_insert"
      BY DEF Orphans
    <3>2. Moved(ledger, "hold", r) \in Int
      <4>1. ledger \in Seq(LedgerRow)
        BY DEF WInv, QInv, BInv, TypeOK, WalletTypeOK
      <4> QED
        BY <4>1, MovedInt
    <3>3. Moved(ledger, "hold", r) # 0
      BY <2>1, <3>1
    <3>4. HeldIn(ledger, r) # 0
      <4>1. \A m \in Int : m # 0 => -m # 0
        OBVIOUS
      <4> QED
        BY <3>2, <3>3, <4>1 DEF HeldIn
    <3> QED
      BY <3>1, <3>4
  <2>3. \A r \in P : r \in Requests /\ BackIn(ledger, r) > HeldIn(ledger, r)
    BY <2>1 DEF Overpaid, BackIn, HeldIn
  <2> HIDE DEF O, P
  <2>4. O \subseteq Undone /\ P \subseteq Undone
    <3>1. ASSUME NEW r \in O PROVE r \in Undone
      BY <2>2, BookedHolds DEF Undone
    <3>2. ASSUME NEW r \in P PROVE r \in Undone
      <4>1. r \in Requests /\ BackIn(ledger, r) > HeldIn(ledger, r)
        BY <2>3
      <4>2. ledger \in Seq(LedgerRow)
        BY DEF WInv, QInv, BInv, TypeOK, WalletTypeOK
      <4>3. BackIn(ledger, r) \in Int /\ HeldIn(ledger, r) \in Int
        BY <4>2, MovedInt DEF BackIn, HeldIn
      <4>4. Booked(r) => BackIn(ledger, r) <= HeldIn(ledger, r)
        BY <4>1, BookedHolds
      <4> QED
        BY <4>1, <4>3, <4>4 DEF Undone
    <3> QED
      BY <3>1, <3>2
  <2>5. O \cap P = {}
    <3>1. ASSUME NEW r \in O, r \in P PROVE FALSE
      <4>1. BackIn(ledger, r) = 0 /\ HeldIn(ledger, r) >= 0
        BY <2>2 DEF Losses, Rowless
      <4>2. BackIn(ledger, r) > HeldIn(ledger, r)
        BY <2>3, <3>1
      <4>3. HeldIn(ledger, r) \in Int
        <5>1. ledger \in Seq(LedgerRow)
          BY DEF WInv, QInv, BInv, TypeOK, WalletTypeOK
        <5> QED
          BY <5>1, MovedInt DEF HeldIn
      <4> QED
        BY <4>1, <4>2, <4>3
    <3> QED
      BY <3>1
  <2>6. Cardinality(O) + Cardinality(P) <= Cardinality(Undone)
        /\ Cardinality(O) \in Nat /\ Cardinality(P) \in Nat /\ Cardinality(Undone) \in Nat
    <3>1. IsFiniteSet(Undone) /\ O \cup P \subseteq Undone
      BY <2>4 DEF Losses
    <3>2. /\ IsFiniteSet(O) /\ IsFiniteSet(P)
          /\ Cardinality(O \cup P) <= Cardinality(Undone)
      BY <3>1, FS_Subset
    <3>3. Cardinality(O \cup P) = Cardinality(O) + Cardinality(P) - Cardinality(O \cap P)
      BY <3>2, FS_Union
    <3>4. Cardinality(O \cap P) = 0
      BY <2>5, FS_EmptySet
    <3> QED
      BY <3>1, <3>2, <3>3, <3>4, FS_CardinalityType
  <2>7. Unrecorded = Larger(0, Debt(ledger, usage, call))
    BY DEF Unrecorded, Debt, Debits, Records, Recorders, AtRecord
  <2>8. Debt(ledger, usage, call) \in Int
    <3>1. TypeOK
      BY DEF WInv, QInv, BInv
    <3> QED
      BY <3>1, CountsNat DEF Debt
  <2>9. /\ Cardinality(Undone) + Unrecorded <= crashes * Cardinality(Slots)
        /\ Unrecorded \in Int
    BY <2>7, <2>8 DEF Losses, Larger
  <2>10. crashes * Cardinality(Slots) \in Int
    <3>1. crashes \in Int /\ Cardinality(Slots) \in Int
      BY FS_CardinalityType DEF WInv, QInv, BInv, TypeOK
    <3> QED
      BY <3>1
  <2> QED
    BY <2>6, <2>9, <2>10 DEF CrashLosesAtMost, O, P
<1> QED
  BY <1>1, InitWorks, StepWorks, InitLosses, StepLosses, PTL DEF Spec

-----------------------------------------------------------------------------
(***************************************************************************)
(* The counter of a key is what its open reservations hold plus what its   *)
(* billed records spent, while the host runs the calls of a key one after  *)
(* another, nothing was interrupted and nobody switched the quota.         *)
(*                                                                         *)
(* A call is ahead of the tables by a known amount: it has taken what it   *)
(* has not written yet, or given back what is still marked open.  So the   *)
(* invariant states the equation with that amount in it, and each          *)
(* statement moves the amount or one of the three tables.                  *)
(***************************************************************************)

\* A key that has no period to end and no wallet behind its quota.
PlainKey(k) == ~Plan[k].windowed /\ ~Plan[k].overflow

HeldRows(k, rows) ==
  {r \in Requests : /\ KeyOf[r] = k /\ rows[r].status = "open"
                    /\ rows[r].source = "key_quota"}
HeldBy(k, rows) == SumFunctionOnSet([r \in Requests |-> rows[r].hold], HeldRows(k, rows))

PaidRows(k, us) == {i \in DOMAIN us : KeyOf[us[i].req] = k /\ us[i].src = "key_quota"}
BilledBy(k, us) ==
  CASE Plan[k].kind = "credit"    ->
         SumFunctionOnSet([i \in DOMAIN us |-> us[i].cost], PaidRows(k, us))
    [] Plan[k].kind = "token"     ->
         SumFunctionOnSet([i \in DOMAIN us |-> us[i].tokens], PaidRows(k, us))
    [] Plan[k].kind = "request"   -> Cardinality({us[i].req : i \in PaidRows(k, us)})
    [] Plan[k].kind = "unlimited" -> 0

\* Every record of the key that used tokens was billed: none found too little left.
AllBilled(k, us) ==
  \A i \in DOMAIN us : KeyOf[us[i].req] = k /\ us[i].tokens # 0 => us[i].src # "none"

\* What the record of call c is going to add to what is billed.
Worth(k, c, us) ==
  CASE Plan[k].kind = "credit"    -> BillableCost(c.use)
    [] Plan[k].kind = "token"     -> c.use.tokens
    [] Plan[k].kind = "request"   -> IF CountedIn(c.req, us) THEN 0 ELSE 1
    [] Plan[k].kind = "unlimited" -> 0

PricedPcs == {"charge_own", "settle_pick", "settle_refund", "settle_mark", "charge_quota"}

\* The calls of a plain key leave the wallet alone, and know their price.
OnQuota(k, c, us) ==
  /\ c.pc \notin WalletPcs \cup {"hold_period", "charge_period"}
  /\ c.own # "wallet"
  /\ c.pc = "charge_count" => Plan[k].kind = "request"
  /\ c.pc = "charge_quota" => c.src = "key_quota"
  /\ c.pc \in {"hold_insert", "record"} => c.src # "wallet"
  /\ c.pc \in PricedPcs \cup {"charge_count"} => c.use.tokens # 0
  /\ c.pc \in PricedPcs \/ (c.pc = "record" /\ c.src = "key_quota") =>
       c.unit = Worth(k, c, us)

\* How far the counter is ahead of the tables.
Lead(c) ==
  CASE c.pc = "hold_insert"  -> c.amt
    [] c.pc = "settle_mark"  -> -Larger(0, c.amt - c.unit)
    [] c.pc = "release_mark" -> -c.amt
    [] c.pc = "charge_quota" -> c.unit - c.amt
    [] c.pc = "record" /\ c.src = "key_quota" -> c.unit
    [] OTHER -> 0

\* A call that is going to write a record it could not bill.
Unbilled(c) == c.pc = "record" /\ c.src = "none" /\ c.use.tokens # 0

Agree(k, c, u, h, b, all) ==
  /\ h + b + Lead(c) <= u
  /\ all /\ ~Unbilled(c) => u = h + b + Lead(c)

Tables(k, rows, us) ==
  /\ IsFiniteSet(HeldRows(k, rows))
  /\ \A r \in Requests : KeyOf[r] = k => rows[r].source # "wallet"
  /\ \A i \in DOMAIN us : KeyOf[us[i].req] = k => us[i].src # "wallet"

Match(k, c, u, rows, us) ==
  /\ Tables(k, rows, us)
  /\ OnQuota(k, c, us)
  /\ Agree(k, c, u, HeldBy(k, rows), BilledBy(k, us), AllBilled(k, us))

\* The call that works on a plain key, or the idle slot, accounts for the counter.
Matched ==
  \A k \in Keys : PlainKey(k) =>
    /\ \A s \in Slots : WorksOn(call[s], k) => Match(k, call[s], used[k], resv, usage)
    /\ (\A s \in Slots : ~WorksOn(call[s], k)) => Match(k, Idle, used[k], resv, usage)

Undisturbed == crashes = 0 /\ edits = 0


-----------------------------------------------------------------------------
(* The tables.                                                             *)

\* What is held is a number, no row of it holds more, and only the rows matter.
LEMMA HeldNat ==
  ASSUME NEW k, NEW rows \in [Requests -> ResvRow], IsFiniteSet(HeldRows(k, rows))
  PROVE  /\ HeldBy(k, rows) \in Nat
         /\ \A r \in HeldRows(k, rows) : rows[r].hold <= HeldBy(k, rows)
<1> DEFINE f == [r \in Requests |-> rows[r].hold]
           S == HeldRows(k, rows)
<1>1. S \subseteq Requests /\ \A r \in S : f[r] \in Nat /\ f[r] = rows[r].hold
  BY DEF HeldRows, ResvRow
<1>2. HeldBy(k, rows) = SumFunctionOnSet(f, S)
  BY DEF HeldBy
<1> HIDE DEF f, S
<1>3. SumFunctionOnSet(f, S) \in Nat /\ IsFiniteSet(S)
  BY <1>1, SumParts DEF S
<1>4. ASSUME NEW r \in S PROVE f[r] <= SumFunctionOnSet(f, S)
  <2>1. \A y \in S : f[y] \in Nat
    BY <1>1
  <2> QED
    BY ONLY <1>3, <2>1, r \in S, SumAtLeast
<1> QED
  BY <1>1, <1>2, <1>3, <1>4 DEF S

\* A new row adds what it holds (Hold).
LEMMA HeldOpens ==
  ASSUME NEW k, NEW rows \in [Requests -> ResvRow], IsFiniteSet(HeldRows(k, rows)),
         NEW r \in Requests, KeyOf[r] = k, rows[r].status # "open",
         NEW row \in ResvRow, row.status = "open", row.source = "key_quota",
         NEW next, next = [rows EXCEPT ![r] = row]
  PROVE  /\ IsFiniteSet(HeldRows(k, next))
         /\ HeldBy(k, next) = HeldBy(k, rows) + row.hold
<1> DEFINE f == [q \in Requests |-> rows[q].hold]
           g == [q \in Requests |-> next[q].hold]
           S == HeldRows(k, rows)
<1>1. /\ next[r] = row /\ \A q \in Requests : q # r => next[q] = rows[q]
  OBVIOUS
<1>2. /\ HeldRows(k, next) = S \cup {r} /\ r \notin S /\ S \subseteq Requests
      /\ \A q \in S : f[q] \in Int /\ g[q] = f[q]
      /\ g[r] = row.hold /\ g[r] \in Int
  BY <1>1 DEF HeldRows, ResvRow
<1>3. /\ HeldBy(k, rows) = SumFunctionOnSet(f, S)
      /\ HeldBy(k, next) = SumFunctionOnSet(g, S \cup {r})
  BY <1>2 DEF HeldBy
<1> HIDE DEF f, g, S
<1>4. IsFiniteSet(S) /\ IsFiniteSet(S \cup {r})
  BY FS_AddElement DEF S
<1>5. SumFunctionOnSet(g, S \cup {r}) = SumFunctionOnSet(f, S) + g[r]
  BY <1>2, <1>4, SumGrows
<1> QED
  BY <1>2, <1>3, <1>4, <1>5

\* A row that is marked takes what it held along (Settle, Release).
LEMMA HeldCloses ==
  ASSUME NEW k, NEW rows \in [Requests -> ResvRow], IsFiniteSet(HeldRows(k, rows)),
         NEW r \in HeldRows(k, rows), NEW status \in {"settled", "released"},
         NEW next, next = [rows EXCEPT ![r].status = status]
  PROVE  /\ IsFiniteSet(HeldRows(k, next))
         /\ HeldBy(k, next) = HeldBy(k, rows) - rows[r].hold
<1> DEFINE f == [q \in Requests |-> rows[q].hold]
           g == [q \in Requests |-> next[q].hold]
           S == HeldRows(k, rows)
<1>0. r \in Requests
  BY DEF HeldRows
<1>1. next[r].status = status /\ \A q \in Requests : q # r => next[q] = rows[q]
  BY <1>0 DEF ResvRow
<1>2. /\ HeldRows(k, next) = S \ {r} /\ S \subseteq Requests
      /\ \A q \in S : f[q] \in Int
      /\ \A q \in S \ {r} : g[q] = f[q]
      /\ f[r] = rows[r].hold
  BY <1>0, <1>1 DEF HeldRows, ResvRow
<1>3. /\ HeldBy(k, rows) = SumFunctionOnSet(f, S)
      /\ HeldBy(k, next) = SumFunctionOnSet(g, S \ {r})
  BY <1>2 DEF HeldBy
<1> HIDE DEF f, g, S
<1>4. IsFiniteSet(S) /\ IsFiniteSet(S \ {r}) /\ r \in S
  BY FS_RemoveElement DEF S
<1>5. SumFunctionOnSet(g, S \ {r}) = SumFunctionOnSet(f, S) - f[r]
  <2>1. SumFunctionOnSet(f, S \ {r}) = SumFunctionOnSet(f, S) - f[r]
    BY <1>2, <1>4, SumRemove
  <2>2. SumFunctionOnSet(g, S \ {r}) = SumFunctionOnSet(f, S \ {r})
    BY <1>2, <1>4, SumSame
  <2> QED
    BY <2>1, <2>2
<1> QED
  BY <1>2, <1>3, <1>4, <1>5

\* The rows of other keys do not count.
LEMMA HeldElsewhere ==
  ASSUME NEW k, NEW rows \in [Requests -> ResvRow], NEW next,
         next \in [Requests -> ResvRow],
         \A r \in Requests : KeyOf[r] = k => next[r] = rows[r]
  PROVE  /\ HeldRows(k, next) = HeldRows(k, rows)
         /\ IsFiniteSet(HeldRows(k, rows)) => HeldBy(k, next) = HeldBy(k, rows)
<1>1. HeldRows(k, next) = HeldRows(k, rows)
  BY DEF HeldRows
<1>2. ASSUME IsFiniteSet(HeldRows(k, rows)) PROVE HeldBy(k, next) = HeldBy(k, rows)
  <2> DEFINE f == [q \in Requests |-> rows[q].hold]
             g == [q \in Requests |-> next[q].hold]
             S == HeldRows(k, rows)
  <2>1. \A q \in S : f[q] = g[q]
    BY DEF HeldRows
  <2> HIDE DEF f, g, S
  <2>2. SumFunctionOnSet(f, S) = SumFunctionOnSet(g, S)
    BY <1>2, <2>1, SumSame DEF S
  <2> QED
    BY <1>1, <2>2 DEF HeldBy, f, g, S
<1> QED
  BY <1>1, <1>2

\* What one more row is billed at.
Price(k, us, row) ==
  CASE Plan[k].kind = "credit"    -> row.cost
    [] Plan[k].kind = "token"     -> row.tokens
    [] Plan[k].kind = "request"   ->
         IF row.req \in {us[i].req : i \in PaidRows(k, us)} THEN 0 ELSE 1
    [] Plan[k].kind = "unlimited" -> 0

\* A row that is appended leaves the others where they are.
LEMMA PaidGrow ==
  ASSUME NEW us \in Seq(UsageRow), NEW row \in UsageRow, NEW next, next = Append(us, row),
         NEW k
  PROVE  /\ \A i \in DOMAIN us : next[i] = us[i]
         /\ DOMAIN next = DOMAIN us \cup {Len(us) + 1} /\ next[Len(us) + 1] = row
         /\ Len(us) + 1 \notin DOMAIN us
         /\ IsFiniteSet(PaidRows(k, us)) /\ PaidRows(k, us) \subseteq DOMAIN us
<1>1. /\ \A i \in DOMAIN us : next[i] = us[i]
      /\ DOMAIN next = DOMAIN us \cup {Len(us) + 1} /\ next[Len(us) + 1] = row
      /\ Len(us) + 1 \notin DOMAIN us
  OBVIOUS
<1>2. IsFiniteSet(PaidRows(k, us)) /\ PaidRows(k, us) \subseteq DOMAIN us
  <2>1. IsFiniteSet(1..Len(us)) /\ PaidRows(k, us) \subseteq 1..Len(us)
    <3>1. DOMAIN us = 1..Len(us) /\ Len(us) \in Int /\ 1 \in Int
      OBVIOUS
    <3> QED
      BY <3>1, FS_Interval DEF PaidRows
  <2> QED
    BY <2>1, FS_Subset
<1> QED
  BY <1>1, <1>2

\* A record of the key that is paid from its quota adds its price to what is
\* billed, any other record nothing (recordUsage).
LEMMA BilledGrows ==
  ASSUME NEW us \in Seq(UsageRow), NEW row \in UsageRow, NEW next, next = Append(us, row),
         NEW k \in Keys
  PROVE  /\ BilledBy(k, us) \in Nat
         /\ KeyOf[row.req] = k /\ row.src = "key_quota" =>
              BilledBy(k, next) = BilledBy(k, us) + Price(k, us, row)
         /\ ~(KeyOf[row.req] = k /\ row.src = "key_quota") =>
              BilledBy(k, next) = BilledBy(k, us)
<1> DEFINE P == PaidRows(k, us)
           n == Len(us) + 1
           paid == KeyOf[row.req] = k /\ row.src = "key_quota"
<1>1. /\ \A i \in DOMAIN us : next[i] = us[i]
      /\ DOMAIN next = DOMAIN us \cup {n} /\ next[n] = row /\ n \notin DOMAIN us
      /\ PaidRows(k, next) = IF paid THEN P \cup {n} ELSE P
      /\ IsFiniteSet(P) /\ P \subseteq DOMAIN us
  <2>1. /\ \A i \in DOMAIN us : next[i] = us[i]
        /\ DOMAIN next = DOMAIN us \cup {n} /\ next[n] = row /\ n \notin DOMAIN us
    BY PaidGrow
  <2>2. PaidRows(k, next) = IF paid THEN P \cup {n} ELSE P
    BY <2>1 DEF PaidRows
  <2>3. IsFiniteSet(P) /\ P \subseteq DOMAIN us
    BY PaidGrow
  <2> QED
    BY <2>1, <2>2, <2>3, Zenon
<1>2. \A i \in DOMAIN us : us[i].cost \in Nat /\ us[i].tokens \in Nat
  <2>1. \A i \in DOMAIN us : us[i] \in UsageRow
    OBVIOUS
  <2> QED
    BY <2>1 DEF UsageRow
<1>3. row.cost \in Nat /\ row.tokens \in Nat
  BY DEF UsageRow
<1>4. Plan[k].kind \in Kinds
  OBVIOUS
<1>5. ASSUME NEW f, NEW g, \A i \in P : f[i] \in Nat /\ g[i] = f[i], g[n] \in Nat
      PROVE  /\ SumFunctionOnSet(f, P) \in Nat
             /\ SumFunctionOnSet(g, PaidRows(k, next))
                  = SumFunctionOnSet(f, P) + IF paid THEN g[n] ELSE 0
  <2> HIDE DEF P, n, paid
  <2>1. SumFunctionOnSet(f, P) \in Nat
    BY <1>1, <1>5, SumParts
  <2>2. CASE paid
    <3>1. n \notin P /\ IsFiniteSet(P)
      BY <1>1
    <3>2. (\A i \in P : f[i] \in Int /\ g[i] = f[i]) /\ g[n] \in Int
      BY <1>5
    <3>3. SumFunctionOnSet(g, P \cup {n}) = SumFunctionOnSet(f, P) + g[n]
      BY <3>1, <3>2, SumGrows
    <3> QED
      BY <1>1, <2>1, <2>2, <3>3
  <2>3. CASE ~paid
    <3>1. SumFunctionOnSet(f, P) = SumFunctionOnSet(g, P)
      BY <1>1, <1>5, SumSame
    <3> QED
      BY <1>1, <2>1, <2>3, <3>1
  <2> QED
    BY <2>1, <2>2, <2>3
<1>6. CASE Plan[k].kind = "credit"
  <2> DEFINE f == [i \in DOMAIN us |-> us[i].cost]
             g == [i \in DOMAIN next |-> next[i].cost]
  <2>1. (\A i \in P : f[i] \in Nat /\ g[i] = f[i]) /\ g[n] = row.cost
    BY <1>1, <1>2
  <2>2. /\ BilledBy(k, us) = SumFunctionOnSet(f, P)
        /\ BilledBy(k, next) = SumFunctionOnSet(g, PaidRows(k, next))
        /\ Price(k, us, row) = row.cost
    BY <1>6, <1>4 DEF BilledBy, Price
  <2> HIDE DEF f, g, n, P, paid
  <2>3. /\ SumFunctionOnSet(f, P) \in Nat
        /\ SumFunctionOnSet(g, PaidRows(k, next))
             = SumFunctionOnSet(f, P) + IF paid THEN g[n] ELSE 0
    BY <1>3, <1>5, <2>1
  <2> QED
    BY <2>1, <2>2, <2>3 DEF paid
<1>7. CASE Plan[k].kind = "token"
  <2> DEFINE f == [i \in DOMAIN us |-> us[i].tokens]
             g == [i \in DOMAIN next |-> next[i].tokens]
  <2>1. (\A i \in P : f[i] \in Nat /\ g[i] = f[i]) /\ g[n] = row.tokens
    BY <1>1, <1>2
  <2>2. /\ BilledBy(k, us) = SumFunctionOnSet(f, P)
        /\ BilledBy(k, next) = SumFunctionOnSet(g, PaidRows(k, next))
        /\ Price(k, us, row) = row.tokens
    BY <1>7, <1>4 DEF BilledBy, Price
  <2> HIDE DEF f, g, n, P, paid
  <2>3. /\ SumFunctionOnSet(f, P) \in Nat
        /\ SumFunctionOnSet(g, PaidRows(k, next))
             = SumFunctionOnSet(f, P) + IF paid THEN g[n] ELSE 0
    BY <1>3, <1>5, <2>1
  <2> QED
    BY <2>1, <2>2, <2>3 DEF paid
<1>8. CASE Plan[k].kind = "request"
  <2> DEFINE R == {us[i].req : i \in P}
             Q == {next[i].req : i \in PaidRows(k, next)}
  <2>1. Q = IF paid THEN R \cup {row.req} ELSE R
    BY <1>1
  <2>2. /\ BilledBy(k, us) = Cardinality(R) /\ BilledBy(k, next) = Cardinality(Q)
        /\ Price(k, us, row) = IF row.req \in R THEN 0 ELSE 1
    BY <1>8 DEF BilledBy, Price
  <2>3. IsFiniteSet(R)
    <3> DEFINE h == [i \in P |-> us[i].req]
    <3>1. h \in Surjection(P, R)
      BY DEF Surjection
    <3> QED
      BY <1>1, <3>1, FS_Surjection
  <2> HIDE DEF R, Q, paid
  <2>4. /\ Cardinality(R) \in Nat
        /\ Cardinality(R \cup {row.req})
             = IF row.req \in R THEN Cardinality(R) ELSE Cardinality(R) + 1
    BY <2>3, FS_AddElement, FS_CardinalityType
  <2>5. CASE paid
    BY <2>1, <2>2, <2>4, <2>5 DEF paid
  <2>6. CASE ~paid
    BY <2>1, <2>2, <2>4, <2>6 DEF paid
  <2> QED
    BY <2>5, <2>6
<1>9. CASE Plan[k].kind = "unlimited"
  BY <1>9 DEF BilledBy, Price
<1> QED
  BY <1>4, <1>6, <1>7, <1>8, <1>9 DEF Kinds

\* What is billed is a number.
LEMMA BilledNat ==
  ASSUME NEW us \in Seq(UsageRow), NEW k \in Keys
  PROVE  BilledBy(k, us) \in Nat
<1> DEFINE P == PaidRows(k, us)
           f == [i \in DOMAIN us |-> us[i].cost]
           g == [i \in DOMAIN us |-> us[i].tokens]
           R == {us[i].req : i \in P}
<1>1. IsFiniteSet(P) /\ P \subseteq DOMAIN us
  <2>1. DOMAIN us = 1..Len(us) /\ Len(us) \in Int /\ 1 \in Int /\ P \subseteq DOMAIN us
    BY DEF PaidRows
  <2> QED
    BY <2>1, FS_Interval, FS_Subset
<1>2. \A i \in P : f[i] \in Nat /\ g[i] \in Nat
  <2>1. \A i \in P : us[i] \in UsageRow
    BY <1>1
  <2> QED
    BY <1>1, <2>1 DEF UsageRow
<1>3. Cardinality(R) \in Nat
  <2> DEFINE h == [i \in P |-> us[i].req]
  <2>1. h \in Surjection(P, R)
    BY DEF Surjection
  <2> QED
    BY <1>1, <2>1, FS_Surjection, FS_CardinalityType
<1>4. SumFunctionOnSet(f, P) \in Nat /\ SumFunctionOnSet(g, P) \in Nat
  <2> HIDE DEF f, g, P
  <2> QED
    BY <1>1, <1>2, SumParts
<1>5. Plan[k].kind \in Kinds
  OBVIOUS
<1> QED
  BY <1>3, <1>4, <1>5 DEF BilledBy, Kinds

\* What a row that is appended changes of what is asked of the records.
LEMMA AppendAsked ==
  ASSUME NEW us \in Seq(UsageRow), NEW row \in UsageRow, NEW next, next = Append(us, row)
  PROVE  /\ \A r : CountedIn(r, next) <=> CountedIn(r, us) \/ (r = row.req /\ row.src # "none")
         /\ \A k : AllBilled(k, next) <=>
              /\ AllBilled(k, us)
              /\ KeyOf[row.req] = k /\ row.tokens # 0 => row.src # "none"
         /\ \A k : (\A i \in DOMAIN next : KeyOf[next[i].req] = k => next[i].src # "wallet")
              <=> /\ \A i \in DOMAIN us : KeyOf[us[i].req] = k => us[i].src # "wallet"
                  /\ KeyOf[row.req] = k => row.src # "wallet"
<1>1. /\ \A i \in DOMAIN us : next[i] = us[i]
      /\ DOMAIN next = DOMAIN us \cup {Len(us) + 1} /\ next[Len(us) + 1] = row
  BY PaidGrow
<1> QED
  BY <1>1 DEF CountedIn, AllBilled

-----------------------------------------------------------------------------
(* Steps.                                                                  *)

\* A record that is not paid from the quota of a key does not bill it.
LEMMA BilledElsewhere ==
  ASSUME NEW us \in Seq(UsageRow), NEW row \in UsageRow, NEW k \in Keys,
         KeyOf[row.req] # k \/ row.src # "key_quota"
  PROVE  BilledBy(k, Append(us, row)) = BilledBy(k, us)
<1>1. PICK next : next = Append(us, row)
  OBVIOUS
<1>2. ~(KeyOf[row.req] = k /\ row.src = "key_quota")
  OBVIOUS
<1>3. BilledBy(k, next) = BilledBy(k, us)
  BY ONLY <1>1, <1>2, us \in Seq(UsageRow), row \in UsageRow, k \in Keys, BilledGrows
<1> QED
  BY <1>1, <1>3

\* A call of another key, or the idle slot, finds what it found.
LEMMA OthersMatch ==
  ASSUME TypeOK, TypeOK', NEW k \in Keys, NEW q \in Keys, q # k,
         \A r \in Requests : KeyOf[r] # k => resv'[r] = resv[r],
         \/ usage' = usage
         \/ \E row \in UsageRow : KeyOf[row.req] = k /\ usage' = Append(usage, row),
         NEW e, e.pc # "idle" => KeyOf[e.req] = q,
         NEW u, Match(q, e, u, resv, usage)
  PROVE  Match(q, e, u, resv', usage')
<1>1. /\ resv \in [Requests -> ResvRow] /\ resv' \in [Requests -> ResvRow]
      /\ usage \in Seq(UsageRow)
  BY DEF TypeOK
<1>2. Tables(q, resv, usage) /\ OnQuota(q, e, usage)
      /\ Agree(q, e, u, HeldBy(q, resv), BilledBy(q, usage), AllBilled(q, usage))
  BY DEF Match
<1>3. HeldRows(q, resv') = HeldRows(q, resv) /\ HeldBy(q, resv') = HeldBy(q, resv)
  <2>1. \A r \in Requests : KeyOf[r] = q => resv'[r] = resv[r]
    OBVIOUS
  <2> QED
    BY <1>1, <1>2, <2>1, HeldElsewhere DEF Tables
<1>4. /\ BilledBy(q, usage') = BilledBy(q, usage)
      /\ AllBilled(q, usage') <=> AllBilled(q, usage)
      /\ \A r : KeyOf[r] = q => (CountedIn(r, usage') <=> CountedIn(r, usage))
      /\ \A i \in DOMAIN usage' : KeyOf[usage'[i].req] = q => usage'[i].src # "wallet"
  <2>1. CASE usage' = usage
    BY <1>2, <2>1 DEF Tables
  <2>2. ASSUME NEW row \in UsageRow, KeyOf[row.req] = k, usage' = Append(usage, row)
        PROVE  /\ BilledBy(q, usage') = BilledBy(q, usage)
               /\ AllBilled(q, usage') <=> AllBilled(q, usage)
               /\ \A r : KeyOf[r] = q => (CountedIn(r, usage') <=> CountedIn(r, usage))
               /\ \A i \in DOMAIN usage' :
                    KeyOf[usage'[i].req] = q => usage'[i].src # "wallet"
    <3>1. BilledBy(q, usage') = BilledBy(q, usage)
      BY <1>1, <2>2, BilledElsewhere
    <3>2. AllBilled(q, usage') <=> AllBilled(q, usage)
      BY <1>1, <2>2, AppendAsked
    <3>3. ASSUME NEW r, KeyOf[r] = q
          PROVE  CountedIn(r, usage') <=> CountedIn(r, usage)
      <4>1. r # row.req
        BY <2>2, <3>3
      <4>2. CountedIn(r, usage') <=> CountedIn(r, usage) \/ (r = row.req /\ row.src # "none")
        BY <1>1, <2>2, AppendAsked, Zenon
      <4> QED
        BY <4>1, <4>2
    <3>4. \A i \in DOMAIN usage' :
            KeyOf[usage'[i].req] = q => usage'[i].src # "wallet"
      BY <1>1, <1>2, <2>2, AppendAsked DEF Tables
    <3> QED
      BY <3>1, <3>2, <3>3, <3>4
  <2> QED
    BY <2>1, <2>2
<1>5. Tables(q, resv', usage')
  <2>1. \A r \in Requests : KeyOf[r] = q => resv'[r].source # "wallet"
    BY <1>2 DEF Tables
  <2> QED
    BY <1>2, <1>3, <1>4, <2>1 DEF Tables
<1>6. OnQuota(q, e, usage')
  <2>1. e.pc # "idle" => Worth(q, e, usage') = Worth(q, e, usage)
    BY <1>4 DEF Worth
  <2> QED
    BY <1>2, <2>1 DEF OnQuota, PricedPcs
<1>7. Agree(q, e, u, HeldBy(q, resv'), BilledBy(q, usage'), AllBilled(q, usage'))
  BY <1>2, <1>3, <1>4 DEF Agree
<1> QED
  BY <1>5, <1>6, <1>7 DEF Match

\* What the only slot that may work on a key accounts for.
LEMMA MatchAlone ==
  ASSUME Matched, NEW s \in Slots, NEW k \in Keys, Alone(s, k), PlainKey(k),
         call[s].pc # "idle" => KeyOf[call[s].req] = k,
         NEW c, c = IF call[s].pc = "idle" THEN Idle ELSE call[s]
  PROVE  Match(k, c, used[k], resv, usage)
  BY DEF Matched, Alone, WorksOn

\* When slot s moves on alone on key k, the other keys are left alone.
LEMMA MatchNext ==
  ASSUME WInv, TypeOK', Matched, NEW s \in Slots, NEW k \in Keys, Alone(s, k),
         NEW d, Set(s, d),
         call[s].pc # "idle" => KeyOf[call[s].req] = k,
         d.pc # "idle" => KeyOf[d.req] = k,
         d.pc = "idle" => d = Idle,
         NEW c, c = IF call[s].pc = "idle" THEN Idle ELSE call[s],
         \A q \in Keys : q # k => used'[q] = used[q],
         \A r \in Requests : KeyOf[r] # k => resv'[r] = resv[r],
         \/ usage' = usage
         \/ \E row \in UsageRow : KeyOf[row.req] = k /\ usage' = Append(usage, row),
         PlainKey(k) /\ Match(k, c, used[k], resv, usage)
           => Match(k, d, used'[k], resv', usage')
  PROVE  Matched'
<1>0. TypeOK
  BY DEF WInv, QInv, BInv
<1>1. call'[s] = d /\ \A t \in Slots \ {s} : call'[t] = call[t]
  BY <1>0 DEF TypeOK, Set
<1>2. ASSUME PlainKey(k)
      PROVE  /\ \A t \in Slots : WorksOn(call'[t], k) =>
                  Match(k, call'[t], used'[k], resv', usage')
             /\ (\A t \in Slots : ~WorksOn(call'[t], k)) =>
                  Match(k, Idle, used'[k], resv', usage')
  <2>1. Match(k, d, used'[k], resv', usage')
    BY <1>2, MatchAlone
  <2>2. \A t \in Slots : WorksOn(call'[t], k) => t = s
    BY <1>1 DEF Alone, WorksOn
  <2>3. ~WorksOn(d, k) => d = Idle
    BY DEF WorksOn
  <2> QED
    BY <1>1, <2>1, <2>2, <2>3
<1>3. ASSUME NEW q \in Keys, q # k, PlainKey(q)
      PROVE  /\ \A t \in Slots : WorksOn(call'[t], q) =>
                  Match(q, call'[t], used'[q], resv', usage')
             /\ (\A t \in Slots : ~WorksOn(call'[t], q)) =>
                  Match(q, Idle, used'[q], resv', usage')
  <2>1. used'[q] = used[q]
    BY <1>3
  <2>2. \A e : /\ e.pc # "idle" => KeyOf[e.req] = q
               /\ Match(q, e, used[q], resv, usage)
               => Match(q, e, used[q], resv', usage')
    BY <1>0, <1>3, OthersMatch
  <2>3. ~WorksOn(call[s], q) /\ ~WorksOn(call'[s], q)
    BY <1>1, <1>3 DEF WorksOn
  <2>4. /\ \A t \in Slots : WorksOn(call[t], q) =>
             Match(q, call[t], used[q], resv, usage)
        /\ (\A t \in Slots : ~WorksOn(call[t], q)) =>
             Match(q, Idle, used[q], resv, usage)
    BY <1>3 DEF Matched
  <2>5. \A t \in Slots : t # s => call'[t] = call[t]
    BY <1>1
  <2>6. ASSUME NEW t \in Slots, WorksOn(call'[t], q)
        PROVE  Match(q, call'[t], used'[q], resv', usage')
    <3>1. t # s /\ call'[t] = call[t] /\ WorksOn(call[t], q)
      BY <2>3, <2>5, <2>6
    <3> QED
      BY <2>1, <2>2, <2>4, <3>1 DEF WorksOn
  <2>7. ASSUME \A t \in Slots : ~WorksOn(call'[t], q)
        PROVE  Match(q, Idle, used'[q], resv', usage')
    <3>1. \A t \in Slots : ~WorksOn(call[t], q)
      BY <2>3, <2>5, <2>7
    <3>2. Idle.pc = "idle"
      BY DEF Idle
    <3> QED
      BY <2>1, <2>2, <2>4, <3>1, <3>2
  <2> QED
    BY <2>6, <2>7
<1> QED
  BY <1>2, <1>3 DEF Matched

\* What a call of a plain key may use when it moves on: u, h, b and all are the
\* counter, what is held, what is billed, and whether every record was billed.
Known(k, c, u, h, b, all) ==
  /\ PlainKey(k) /\ Tables(k, resv, usage) /\ OnQuota(k, c, usage)
  /\ Agree(k, c, u, h, b, all)
  /\ h \in Nat /\ b \in Nat /\ all \in BOOLEAN
  /\ \A r \in HeldRows(k, resv) : resv[r].hold <= h

\* The common case: the tables stay, the counter and the call move on.
LEMMA MatchSame ==
  ASSUME WInv, TypeOK', Matched, NEW s \in Slots, NEW k \in Keys, Alone(s, k),
         NEW d, Set(s, d),
         call[s].pc # "idle" => KeyOf[call[s].req] = k,
         d.pc # "idle" => KeyOf[d.req] = k,
         d.pc = "idle" => d = Idle,
         NEW c, c = IF call[s].pc = "idle" THEN Idle ELSE call[s],
         \A q \in Keys : q # k => used'[q] = used[q], UNCHANGED <<resv, usage>>,
         \A h, b, all : Known(k, c, used[k], h, b, all)
           => OnQuota(k, d, usage) /\ Agree(k, d, used'[k], h, b, all)
  PROVE  Matched'
<1>0. TypeOK /\ resv' = resv /\ usage' = usage
  BY DEF WInv, QInv, BInv
<1>1. resv \in [Requests -> ResvRow] /\ usage \in Seq(UsageRow)
  BY <1>0 DEF TypeOK
<1>2. ASSUME PlainKey(k), Match(k, c, used[k], resv, usage)
      PROVE  Match(k, d, used'[k], resv', usage')
  <2>1. /\ Tables(k, resv, usage) /\ OnQuota(k, c, usage)
        /\ Agree(k, c, used[k], HeldBy(k, resv), BilledBy(k, usage), AllBilled(k, usage))
    BY <1>2 DEF Match
  <2>2. /\ HeldBy(k, resv) \in Nat
        /\ \A r \in HeldRows(k, resv) : resv[r].hold <= HeldBy(k, resv)
    BY <1>1, <2>1, HeldNat DEF Tables
  <2>3. BilledBy(k, usage) \in Nat
    BY <1>1, BilledNat
  <2>4. AllBilled(k, usage) \in BOOLEAN
    BY DEF AllBilled
  <2>5. Known(k, c, used[k], HeldBy(k, resv), BilledBy(k, usage), AllBilled(k, usage))
    BY <1>2, <2>1, <2>2, <2>3, <2>4 DEF Known
  <2>6. /\ OnQuota(k, d, usage)
        /\ Agree(k, d, used'[k], HeldBy(k, resv), BilledBy(k, usage), AllBilled(k, usage))
    BY <2>5
  <2> QED
    BY <1>0, <2>1, <2>6 DEF Match
<1> QED
  BY <1>0, <1>2, MatchNext

\* The next statement of a call that writes no row.
LEMMA MatchStep ==
  ASSUME WInv, TypeOK', Matched, NEW s \in Slots, NEW c, c = call[s], c.pc # "idle",
         NEW k, k = KeyOf[c.req], NEW d, Set(s, d), d = Idle \/ d.req = c.req,
         d.pc = "idle" => d = Idle, UNCHANGED <<resv, usage>>,
         \A q \in Keys : q # k => used'[q] = used[q],
         \A h, b, all : Known(k, c, used[k], h, b, all)
           => OnQuota(k, d, usage) /\ Agree(k, d, used'[k], h, b, all)
  PROVE  Matched'
<1>1. Alone(s, k) /\ k \in Keys
  BY Working
<1>2. /\ call[s].pc # "idle" => KeyOf[call[s].req] = k
      /\ d.pc # "idle" => KeyOf[d.req] = k
      /\ c = IF call[s].pc = "idle" THEN Idle ELSE call[s]
  BY DEF Idle
<1> QED
  BY <1>1, <1>2, MatchSame

\* The next statement of a call that writes a row of its key.
LEMMA MatchWrite ==
  ASSUME WInv, TypeOK', Matched, NEW s \in Slots, NEW c, c = call[s], c.pc # "idle",
         NEW k, k = KeyOf[c.req], NEW d, Set(s, d), d = Idle \/ d.req = c.req,
         d.pc = "idle" => d = Idle, used' = used,
         \A r \in Requests : KeyOf[r] # k => resv'[r] = resv[r],
         \/ usage' = usage
         \/ \E row \in UsageRow : KeyOf[row.req] = k /\ usage' = Append(usage, row),
         \A h, b, all :
           /\ Known(k, c, used[k], h, b, all)
           /\ h = HeldBy(k, resv) /\ b = BilledBy(k, usage) /\ all = AllBilled(k, usage)
           => Match(k, d, used[k], resv', usage')
  PROVE  Matched'
<1>0. TypeOK /\ used' = used
  BY DEF WInv, QInv, BInv
<1>1. Alone(s, k) /\ k \in Keys /\ resv \in [Requests -> ResvRow] /\ usage \in Seq(UsageRow)
  BY <1>0, Working DEF TypeOK
<1>2. /\ call[s].pc # "idle" => KeyOf[call[s].req] = k
      /\ d.pc # "idle" => KeyOf[d.req] = k
      /\ c = IF call[s].pc = "idle" THEN Idle ELSE call[s]
      /\ \A q \in Keys : q # k => used'[q] = used[q]
  BY <1>0 DEF Idle
<1>3. ASSUME PlainKey(k), Match(k, c, used[k], resv, usage)
      PROVE  Match(k, d, used'[k], resv', usage')
  <2>1. /\ Tables(k, resv, usage) /\ OnQuota(k, c, usage)
        /\ Agree(k, c, used[k], HeldBy(k, resv), BilledBy(k, usage), AllBilled(k, usage))
    BY <1>3 DEF Match
  <2>2. /\ HeldBy(k, resv) \in Nat
        /\ \A r \in HeldRows(k, resv) : resv[r].hold <= HeldBy(k, resv)
    BY <1>1, <2>1, HeldNat DEF Tables
  <2>3. BilledBy(k, usage) \in Nat
    BY <1>1, BilledNat
  <2>4. AllBilled(k, usage) \in BOOLEAN
    BY DEF AllBilled
  <2>5. Known(k, c, used[k], HeldBy(k, resv), BilledBy(k, usage), AllBilled(k, usage))
    BY <1>3, <2>1, <2>2, <2>3, <2>4 DEF Known
  <2>6. Match(k, d, used[k], resv', usage')
    BY <2>5
  <2> QED
    BY <1>0, <2>6
<1> QED
  BY <1>1, <1>2, <1>3, MatchNext

\* A statement of the wallet, or of a new period, is none of a plain key.
LEMMA MatchNever ==
  ASSUME WInv, TypeOK', Matched, NEW s \in Slots, NEW c, c = call[s],
         c.pc \in WalletPcs \cup {"hold_period", "charge_period"},
         NEW d, Set(s, d), d = Idle \/ d.req = c.req, d.pc = "idle" => d = Idle,
         UNCHANGED <<resv, usage>>,
         \A q \in Keys : q # KeyOf[c.req] => used'[q] = used[q]
  PROVE  Matched'
<1>1. c.pc # "idle"
  BY DEF WalletPcs
<1>2. \A h, b, all : ~Known(KeyOf[c.req], c, used[KeyOf[c.req]], h, b, all)
  BY DEF Known, OnQuota
<1> QED
  BY <1>1, <1>2, MatchStep

\* The idle call is ahead of nothing.
LEMMA IdleMatches ==
  ASSUME NEW k, NEW us
  PROVE  /\ OnQuota(k, Idle, us)
         /\ \A u, h, b \in Int : \A all : Agree(k, Idle, u, h, b, all) <=>
              h + b <= u /\ (all => u = h + b)
  BY DEF Idle, OnQuota, Agree, Lead, Unbilled, WalletPcs, PricedPcs

\* Hold takes from the quota what it writes into the row that follows.
LEMMA MatchHold ==
  ASSUME WInv, TypeOK', Matched, NEW s \in Slots,
         \/ HoldPeriod(s) \/ HoldQuota(s) \/ HoldCheck(s) \/ HoldDebit(s) \/ HoldInsert(s)
  PROVE  Matched'
<1> DEFINE c == call[s]
           k == KeyOf[c.req]
<1>0. c.pc \in HoldPcs /\ c.pc # "idle"
  BY DEF HoldPeriod, HoldQuota, HoldCheck, HoldDebit, HoldInsert, HoldPcs
<1>1. /\ c \in Call /\ c.req \in Requests /\ k \in Keys
      /\ Work(c, resv, host, periodEnd, now) /\ resv \in [Requests -> ResvRow]
      /\ used \in [Keys -> Nat] /\ used[k] \in Nat /\ c.amt \in Nat /\ now \in Nat
  BY <1>0, Working DEF WInv, QInv, BInv, TypeOK, Call
<1>2. usage' = usage
  BY DEF HoldPeriod, HoldQuota, HoldCheck, HoldDebit, HoldInsert
<1>3. CASE HoldPeriod(s)
  <2> DEFINE e == [c EXCEPT !.used = 0, !.at = 0]
             d == HoldRoute(e)
  <2>1. /\ c.pc = "hold_period" /\ Set(s, d) /\ resv' = resv
        /\ used' = [used EXCEPT ![k] = 0]
    BY <1>3 DEF HoldPeriod, ResetPeriod
  <2>2. e \in Call /\ e.req = c.req
    BY <1>1 DEF Call
  <2> HIDE DEF e
  <2>3. /\ d = Idle \/ d.req = c.req
        /\ d.pc = "idle" => d = Idle
    BY <1>1, <2>2 DEF HoldRoute, Call, Idle
  <2>4. \A q \in Keys : q # k => used'[q] = used[q]
    BY <1>1, <2>1
  <2> QED
    BY <1>2, <2>1, <2>3, <2>4, MatchNever
<1>4. CASE HoldQuota(s)
  <2> DEFINE d == [c EXCEPT !.pc = "hold_insert"]
  <2>1. /\ c.pc = "hold_quota" /\ Set(s, d) /\ resv' = resv /\ ConsumeQuota(k, c.amt)
    BY <1>4 DEF HoldQuota
  <2>2. /\ d.pc = "hold_insert" /\ d.req = c.req /\ d.src = c.src /\ d.amt = c.amt
        /\ d.use = c.use /\ d.own = c.own /\ d.unit = c.unit
    BY <1>1 DEF Call
  <2> HIDE DEF d
  <2>3. used' = [used EXCEPT ![k] = @ + c.amt] /\ used'[k] = used[k] + c.amt
    BY <1>1, <2>1 DEF ConsumeQuota
  <2>4. ASSUME NEW h, NEW b, NEW all, Known(k, c, used[k], h, b, all)
        PROVE  OnQuota(k, d, usage) /\ Agree(k, d, used'[k], h, b, all)
    <3>1. /\ OnQuota(k, c, usage) /\ Agree(k, c, used[k], h, b, all)
          /\ h \in Nat /\ b \in Nat
      BY <2>4 DEF Known
    <3>2. c.src = "key_quota"
      BY <1>1, <2>1 DEF Work
    <3>3. OnQuota(k, d, usage)
      BY <2>1, <2>2, <3>1, <3>2 DEF OnQuota, WalletPcs, PricedPcs
    <3>4. Lead(c) = 0 /\ Lead(d) = c.amt /\ ~Unbilled(c) /\ ~Unbilled(d)
      BY <2>1, <2>2 DEF Lead, Unbilled
    <3> QED
      BY <1>1, <2>3, <3>1, <3>3, <3>4 DEF Agree
  <2>5. \A q \in Keys : q # k => used'[q] = used[q]
    BY <1>1, <2>3
  <2> QED
    BY <1>0, <1>2, <2>1, <2>2, <2>4, <2>5, MatchStep
<1>5. CASE HoldCheck(s) \/ HoldDebit(s)
  <2>1. c.pc \in WalletPcs /\ UNCHANGED <<used, resv>>
    BY <1>5 DEF HoldCheck, HoldDebit, WalletPcs, keyVars
  <2>2. \A pc : [c EXCEPT !.pc = pc].req = c.req
    BY <1>1 DEF Call
  <2>3. \A pc \in {"hold_debit", "hold_insert"} : [c EXCEPT !.pc = pc].pc # "idle"
    BY <1>1 DEF Call
  <2>4. \/ \E pc \in {"hold_debit", "hold_insert"} : Set(s, [c EXCEPT !.pc = pc])
        \/ Set(s, Idle)
    BY <1>5 DEF HoldCheck, HoldDebit
  <2>5. PICK d : /\ Set(s, d)
                 /\ d = Idle \/ d.req = c.req
                 /\ d.pc = "idle" => d = Idle
    BY <2>2, <2>3, <2>4
  <2> QED
    BY <1>2, <2>1, <2>5, MatchNever
<1>6. CASE HoldInsert(s)
  <2> DEFINE row == [status |-> "open", hold |-> c.amt, source |-> c.src, at |-> now]
  <2>1. /\ c.pc = "hold_insert" /\ Set(s, Idle) /\ used' = used
        /\ resv' = [resv EXCEPT ![c.req] = row]
    BY <1>6 DEF HoldInsert, keyVars
  <2>2. resv[c.req].status # "open" /\ resv'[c.req] = row
        /\ \A r \in Requests : r # c.req => resv'[r] = resv[r]
    BY <1>0, <1>1, <2>1 DEF Work, NoResv
  <2>3. row \in ResvRow /\ row.status = "open" /\ row.source = c.src /\ row.hold = c.amt
    BY <1>1 DEF ResvRow, Call
  <2> HIDE DEF row
  <2>4. ASSUME NEW h, NEW b, NEW all, Known(k, c, used[k], h, b, all),
               h = HeldBy(k, resv), b = BilledBy(k, usage), all = AllBilled(k, usage)
        PROVE  Match(k, Idle, used[k], resv', usage')
    <3>1. /\ OnQuota(k, c, usage) /\ Agree(k, c, used[k], h, b, all)
          /\ h \in Nat /\ b \in Nat /\ Tables(k, resv, usage)
      BY <2>4 DEF Known
    <3>2. c.src = "key_quota"
      BY <1>1, <2>1, <3>1 DEF Work, OnQuota
    <3>3. /\ IsFiniteSet(HeldRows(k, resv'))
          /\ HeldBy(k, resv') = HeldBy(k, resv) + c.amt
      <4>1. PICK next : next = resv'
        OBVIOUS
      <4>2. /\ next = [resv EXCEPT ![c.req] = row] /\ KeyOf[c.req] = k
            /\ IsFiniteSet(HeldRows(k, resv)) /\ row.source = "key_quota"
        BY <2>1, <2>3, <3>1, <3>2, <4>1 DEF Tables
      <4>3. /\ IsFiniteSet(HeldRows(k, next))
            /\ HeldBy(k, next) = HeldBy(k, resv) + row.hold
        <5> HIDE DEF c, k
        <5> QED
          BY ONLY <1>1, <2>2, <2>3, <4>2, HeldOpens
      <4> QED
        BY <2>3, <4>1, <4>3
    <3>4. Tables(k, resv', usage')
      BY <1>2, <2>2, <2>3, <3>1, <3>2, <3>3 DEF Tables
    <3>5. Lead(c) = c.amt /\ ~Unbilled(c)
      BY <2>1 DEF Lead, Unbilled
    <3>6. h + c.amt + b <= used[k] /\ (all => used[k] = h + c.amt + b)
      BY <1>1, <3>1, <3>5 DEF Agree
    <3>7. Agree(k, Idle, used[k], h + c.amt, b, all)
      <4>1. h + c.amt \in Int /\ b \in Int /\ used[k] \in Int
        BY <1>1, <3>1
      <4> QED
        BY <3>6, <4>1, IdleMatches
    <3>8. Agree(k, Idle, used[k], HeldBy(k, resv'), BilledBy(k, usage'), AllBilled(k, usage'))
      BY <1>2, <2>4, <3>3, <3>7
    <3> QED
      BY <3>4, <3>8, IdleMatches DEF Match
  <2>5. \A r \in Requests : KeyOf[r] # k => resv'[r] = resv[r]
    BY <2>2
  <2> QED
    BY <1>0, <1>2, <2>1, <2>4, <2>5, MatchWrite
<1> QED
  BY <1>3, <1>4, <1>5, <1>6

\* What Charge still owes goes to the quota, or the record stays unbilled.
LEMMA ChargeRoutePlain ==
  ASSUME NEW c \in Call, c.req \in Requests, ~Plan[KeyOf[c.req]].overflow,
         NEW d, d = ChargeRoute(c)
  PROVE  /\ d.req = c.req /\ d.use = c.use /\ d.unit = c.unit /\ d.own = c.own
         /\ d.amt = c.amt
         /\ \/ d.pc = "record" /\ d.src = "key_quota"
               /\ (Plan[KeyOf[c.req]].kind = "unlimited" \/ c.amt = 0)
            \/ d.pc = "charge_quota" /\ d.src = "key_quota"
            \/ d.pc = "record" /\ d.src = "none"
<1> DEFINE k == KeyOf[c.req]
           fits == HasQuota(k, c.used) /\ QuotaRemaining(k, c.used) >= c.amt
<1>1. c.amt \in Nat
  BY DEF Call
<1>2. CASE Plan[k].kind = "unlimited" \/ c.amt <= 0
  <2>1. d = [c EXCEPT !.pc = "record", !.src = "key_quota"]
    BY <1>1, <1>2 DEF ChargeRoute
  <2> QED
    BY <1>1, <1>2, <2>1 DEF Call
<1>3. CASE Plan[k].kind # "unlimited" /\ c.amt > 0 /\ fits
  <2>1. d = [[c EXCEPT !.pc = "record", !.src = "key_quota"] EXCEPT !.pc = "charge_quota"]
    BY <1>1, <1>3 DEF ChargeRoute
  <2> QED
    BY <2>1 DEF Call
<1>4. CASE Plan[k].kind # "unlimited" /\ c.amt > 0 /\ ~fits
  <2>1. d = [c EXCEPT !.pc = "record", !.src = "none"]
    BY <1>1, <1>4 DEF ChargeRoute
  <2> QED
    BY <2>1 DEF Call
<1> QED
  BY <1>1, <1>2, <1>3, <1>4

\* A row that a plain key gives back from was taken from its quota, and the
\* counter still has what it holds.
LEMMA OpenIsHeld ==
  ASSUME WInv, NEW k \in Keys, NEW c, NEW h, NEW b, NEW all,
         Known(k, c, used[k], h, b, all),
         NEW r \in Requests, KeyOf[r] = k, resv[r].status = "open"
  PROVE  r \in HeldRows(k, resv) /\ resv[r].source = "key_quota" /\ resv[r].hold <= h
<1>1. Tables(k, resv, usage) /\ \A q \in HeldRows(k, resv) : resv[q].hold <= h
  BY DEF Known
<1>2. Row(r, resv[r], host[r].stage)
  BY DEF WInv, Works
<1>3. resv[r].source = "key_quota"
  BY <1>1, <1>2 DEF Row, NoResv, Tables
<1>4. r \in HeldRows(k, resv)
  BY <1>3 DEF HeldRows
<1> QED
  BY <1>1, <1>3, <1>4

\* What is given back leaves the counter before its row is marked.
LEMMA MatchRefund ==
  ASSUME WInv, TypeOK', Matched, NEW s \in Slots, NEW c, c = call[s],
         c.pc \in {"settle_refund", "release_refund"}, NEW d, Set(s, d),
         d.pc = IF c.pc = "settle_refund" THEN "settle_mark" ELSE "release_mark",
         d.req = c.req, d.use = c.use, d.amt = c.amt, d.own = c.own, d.unit = c.unit,
         d.src = c.src, UNCHANGED <<resv, usage>>, NEW n \in Nat,
         n = IF c.pc = "settle_refund" THEN c.amt - Actual(c) ELSE c.amt,
         used' = [used EXCEPT ![KeyOf[c.res]] =
                    IF resv[c.res].source = "key_quota" /\ @ >= n THEN @ - n ELSE @]
  PROVE  Matched'
<1> DEFINE k == KeyOf[c.req]
<1>1. /\ c \in Call /\ c.req \in Requests /\ k \in Keys /\ c.amt \in Nat /\ c.unit \in Nat
      /\ c.res \in Requests /\ KeyOf[c.res] = k /\ resv[c.res].status = "open"
      /\ resv[c.res].hold = c.amt /\ used \in [Keys -> Nat] /\ used[k] \in Nat
      /\ Fine(c, used)
  <2>1. call[s].pc # "idle" /\ call[s].pc \in RefundPcs
    BY DEF RefundPcs, ReleasePcs
  <2> QED
    BY <2>1, Working DEF Work, Call
<1>2. ASSUME NEW h, NEW b, NEW all, Known(k, c, used[k], h, b, all)
      PROVE  OnQuota(k, d, usage) /\ Agree(k, d, used'[k], h, b, all)
  <2>1. /\ OnQuota(k, c, usage) /\ Agree(k, c, used[k], h, b, all)
        /\ h \in Nat /\ b \in Nat
    BY <1>2 DEF Known
  <2>2. resv[c.res].source = "key_quota" /\ c.amt <= h
    BY <1>1, <1>2, OpenIsHeld
  <2>3. Lead(c) = 0 /\ ~Unbilled(c) /\ ~Unbilled(d)
    BY DEF Lead, Unbilled
  <2>4. h + b <= used[k] /\ (all => used[k] = h + b)
    BY <1>1, <2>1, <2>3 DEF Agree
  <2>5. n <= c.amt /\ Lead(d) = -n
    <3>1. CASE c.pc = "settle_refund"
      <4>1. Actual(c) = c.unit /\ c.unit <= c.amt /\ d.pc = "settle_mark"
        BY <1>1, <2>1, <3>1 DEF OnQuota, Actual, Fine
      <4>2. Larger(0, d.amt - d.unit) = n
        BY <1>1, <3>1, <4>1 DEF Larger
      <4>3. Lead(d) = -Larger(0, d.amt - d.unit)
        BY <4>1 DEF Lead
      <4> QED
        BY <1>1, <3>1, <4>1, <4>2, <4>3
    <3>2. CASE c.pc = "release_refund"
      BY <1>1, <3>2 DEF Lead
    <3> QED
      BY <3>1, <3>2
  <2>6. used'[k] = used[k] - n
    BY <1>1, <2>1, <2>2, <2>4, <2>5
  <2>7. OnQuota(k, d, usage)
    BY <2>1 DEF OnQuota, WalletPcs, PricedPcs, Worth
  <2>8. Agree(k, d, used'[k], h, b, all)
    BY <1>1, <2>1, <2>3, <2>4, <2>5, <2>6 DEF Agree
  <2> QED
    BY <2>7, <2>8
<1>3. /\ c.pc # "idle" /\ (d.pc = "idle" => d = Idle)
      /\ \A q \in Keys : q # k => used'[q] = used[q]
  BY <1>1
<1> QED
  BY <1>2, <1>3, MatchStep

\* A row that is marked takes along what it held: less what has been given back,
\* the record is going to stand for it.
LEMMA MatchMark ==
  ASSUME WInv, TypeOK', Matched, NEW s \in Slots, NEW c, c = call[s],
         c.pc \in {"settle_mark", "release_mark"}, NEW d, Set(s, d),
         d = Idle \/ d.req = c.req, d.pc = "idle" => d = Idle,
         UNCHANGED <<used, usage>>, NEW status \in {"settled", "released"},
         resv' = [resv EXCEPT ![c.res].status = status],
         PlainKey(KeyOf[c.req]) /\ OnQuota(KeyOf[c.req], c, usage)
           => /\ OnQuota(KeyOf[c.req], d, usage) /\ Lead(d) \in Int
              /\ Lead(d) <= Lead(c) + c.amt
              /\ ~Unbilled(d) => Lead(d) = Lead(c) + c.amt
  PROVE  Matched'
<1> DEFINE k == KeyOf[c.req]
<1>1. /\ c \in Call /\ c.req \in Requests /\ k \in Keys /\ used[k] \in Nat
      /\ c.amt \in Nat /\ c.unit \in Nat
      /\ c.res \in Requests /\ KeyOf[c.res] = k /\ resv[c.res].status = "open"
      /\ resv[c.res].hold = c.amt /\ resv \in [Requests -> ResvRow] /\ c.pc # "idle"
      /\ resv[c.res] \in ResvRow
  <2>1. call[s].pc # "idle" /\ call[s].pc \in RefundPcs
    BY DEF RefundPcs, ReleasePcs
  <2> QED
    BY <2>1, Working DEF Work, WInv, QInv, BInv, TypeOK, Call
<1>2. /\ \A r \in Requests : r # c.res => resv'[r] = resv[r]
      /\ resv'[c.res] = [resv[c.res] EXCEPT !.status = status]
      /\ usage' = usage
  BY <1>1
<1>3. resv'[c.res].source = resv[c.res].source
  BY <1>1, <1>2 DEF ResvRow
<1>4. ASSUME NEW h, NEW b, NEW all, Known(k, c, used[k], h, b, all),
             h = HeldBy(k, resv), b = BilledBy(k, usage), all = AllBilled(k, usage)
      PROVE  Match(k, d, used[k], resv', usage')
  <2>1. /\ OnQuota(k, c, usage) /\ Agree(k, c, used[k], h, b, all)
        /\ h \in Nat /\ b \in Nat /\ Tables(k, resv, usage) /\ PlainKey(k)
    BY <1>4 DEF Known
  <2>2. c.res \in HeldRows(k, resv)
    BY <1>1, <1>4, OpenIsHeld
  <2>3. /\ IsFiniteSet(HeldRows(k, resv'))
        /\ HeldBy(k, resv') = HeldBy(k, resv) - c.amt
    <3>1. PICK next : next = resv'
      OBVIOUS
    <3>2. /\ next = [resv EXCEPT ![c.res].status = status]
          /\ IsFiniteSet(HeldRows(k, resv)) /\ status \in {"settled", "released"}
      BY <2>1, <3>1 DEF Tables
    <3>3. /\ IsFiniteSet(HeldRows(k, next))
          /\ HeldBy(k, next) = HeldBy(k, resv) - resv[c.res].hold
      <4> HIDE DEF k
      <4> QED
        BY ONLY <1>1, <2>2, <3>2, HeldCloses
    <3> QED
      BY <1>1, <3>1, <3>3
  <2>4. Tables(k, resv', usage')
    BY <1>1, <1>2, <1>3, <2>1, <2>3 DEF Tables
  <2>5. /\ OnQuota(k, d, usage) /\ Lead(d) \in Int
        /\ Lead(d) <= Lead(c) + c.amt
        /\ ~Unbilled(d) => Lead(d) = Lead(c) + c.amt
    BY <2>1
  <2>6. Lead(c) \in Int /\ ~Unbilled(c)
    BY <1>1 DEF Lead, Larger, Unbilled
  <2>7. h - c.amt + b + Lead(d) <= used[k]
    BY <1>1, <2>1, <2>5, <2>6 DEF Agree
  <2>8. all /\ ~Unbilled(d) => used[k] = h - c.amt + b + Lead(d)
    BY <1>1, <2>1, <2>5, <2>6 DEF Agree
  <2>9. Agree(k, d, used[k], HeldBy(k, resv'), BilledBy(k, usage'), AllBilled(k, usage'))
    BY <1>2, <1>4, <2>3, <2>7, <2>8 DEF Agree
  <2> QED
    BY <1>2, <2>4, <2>5, <2>9 DEF Match
<1>5. /\ \A r \in Requests : KeyOf[r] # k => resv'[r] = resv[r]
      /\ used' = used /\ usage' = usage /\ c.pc # "idle"
  BY <1>1, <1>2
<1> QED
  BY <1>4, <1>5, MatchWrite

\* Release gives back what was held, then closes the row.
LEMMA MatchRelease ==
  ASSUME WInv, TypeOK', Matched, NEW s \in Slots, ReleaseRefund(s) \/ ReleaseMark(s)
  PROVE  Matched'
<1> DEFINE c == call[s]
<1>0. c.pc # "idle"
  BY DEF ReleaseRefund, ReleaseMark
<1>1. /\ c \in Call /\ c.req \in Requests /\ c.amt \in Nat
      /\ c.pc \in RefundPcs => c.res \in Requests
      /\ TypeOK
  BY <1>0, Working DEF Call
<1>2. CASE ReleaseRefund(s)
  <2> DEFINE d == [c EXCEPT !.pc = "release_mark"]
  <2>1. /\ c.pc = "release_refund" /\ Refund(c.res, c.amt, "release") /\ Set(s, d)
        /\ UNCHANGED <<resv, usage>>
    BY <1>2 DEF ReleaseRefund
  <2>2. /\ d.pc = "release_mark" /\ d.req = c.req /\ d.use = c.use /\ d.amt = c.amt
        /\ d.own = c.own /\ d.unit = c.unit /\ d.src = c.src
    BY <1>1 DEF Call
  <2> HIDE DEF d
  <2>3. PICK n \in Nat : n = c.amt
    BY <1>1
  <2>4. used' = [used EXCEPT ![KeyOf[c.res]] =
                   IF resv[c.res].source = "key_quota" /\ @ >= n THEN @ - n ELSE @]
    <3>1. c.res \in Requests
      BY <1>1, <2>1 DEF RefundPcs, ReleasePcs
    <3> QED
      BY <1>1, <2>1, <2>3, <3>1, RefundMoves
  <2> QED
    BY <2>1, <2>2, <2>3, <2>4, MatchRefund
<1>3. CASE ReleaseMark(s)
  <2>1. /\ c.pc = "release_mark" /\ Set(s, Idle) /\ UNCHANGED <<used, usage>>
        /\ resv' = [resv EXCEPT ![c.res].status = "released"]
    BY <1>3 DEF ReleaseMark, keyVars
  <2>2. Lead(c) = -c.amt /\ Lead(Idle) = 0
    BY <2>1 DEF Lead, Idle
  <2>3. /\ OnQuota(KeyOf[c.req], Idle, usage) /\ Lead(Idle) \in Int
        /\ Lead(Idle) <= Lead(c) + c.amt /\ Lead(Idle) = Lead(c) + c.amt
    BY <1>1, <2>2, IdleMatches
  <2>4. PICK status \in {"settled", "released"} :
          resv' = [resv EXCEPT ![c.res].status = status]
    BY <2>1
  <2> QED
    BY <2>1, <2>3, <2>4, MatchMark
<1> QED
  BY <1>2, <1>3

\* Settle finds a row, or the whole unit spend is owed.
LEMMA MatchPick ==
  ASSUME WInv, TypeOK', Matched, NEW s \in Slots, SettlePick(s) PROVE Matched'
<1> DEFINE c == call[s]
           k == KeyOf[c.req]
<1>0. c.pc = "settle_pick" /\ c.pc # "idle" /\ UNCHANGED <<used, resv, usage>>
  BY DEF SettlePick, keyVars
<1>1. /\ c \in Call /\ c.req \in Requests /\ k \in Keys
      /\ resv \in [Requests -> ResvRow] /\ used[k] \in Nat /\ c.unit \in Nat
  BY <1>0, Working DEF Call, WInv, QInv, BInv, TypeOK
<1>2. ASSUME OpenOf(k) = {}, Set(s, ChargeRoute([c EXCEPT !.amt = c.unit])) PROVE Matched'
  <2> DEFINE e == [c EXCEPT !.amt = c.unit]
  <2>1. /\ e \in Call /\ e.req = c.req /\ e.amt = c.unit /\ e.use = c.use
        /\ e.own = c.own /\ e.unit = c.unit
    BY <1>1 DEF Call
  <2>2. PICK d : d = ChargeRoute(e) /\ Set(s, d)
    BY <1>2
  <2> HIDE DEF e
  <2>3. d.req = c.req /\ d.pc # "idle"
    BY <1>1, <2>1, <2>2 DEF ChargeRoute, Call
  <2>4. ASSUME NEW h, NEW b, NEW all, Known(k, c, used[k], h, b, all)
        PROVE  OnQuota(k, d, usage) /\ Agree(k, d, used'[k], h, b, all)
    <3>1. /\ OnQuota(k, c, usage) /\ Agree(k, c, used[k], h, b, all)
          /\ h \in Nat /\ b \in Nat /\ ~Plan[k].overflow
      BY <2>4 DEF Known, PlainKey
    <3>2. /\ d.use = c.use /\ d.unit = c.unit /\ d.own = c.own /\ d.amt = c.unit
          /\ \/ d.pc = "record" /\ d.src = "key_quota"
                /\ (Plan[k].kind = "unlimited" \/ c.unit = 0)
             \/ d.pc = "charge_quota" /\ d.src = "key_quota"
             \/ d.pc = "record" /\ d.src = "none"
      BY <1>1, <2>1, <2>2, <3>1, ChargeRoutePlain
    <3>3. /\ c.use.tokens # 0 /\ c.unit = Worth(k, c, usage) /\ c.own # "wallet"
      BY <1>0, <3>1 DEF OnQuota, PricedPcs
    <3>4. Worth(k, d, usage) = Worth(k, c, usage)
      BY <2>3, <3>2 DEF Worth
    <3>5. Plan[k].kind = "unlimited" => c.unit = 0
      BY <3>3 DEF Worth
    <3>6. OnQuota(k, d, usage)
      BY <3>2, <3>3, <3>4 DEF OnQuota, WalletPcs, PricedPcs
    <3>7. Lead(c) = 0 /\ ~Unbilled(c) /\ Lead(d) = 0
      BY <1>0, <1>1, <3>2, <3>5 DEF Lead, Unbilled
    <3> QED
      BY <1>0, <1>1, <3>1, <3>6, <3>7 DEF Agree
  <2> QED
    BY <1>0, <2>2, <2>3, <2>4, MatchStep
<1>3. ASSUME NEW q \in OpenOf(k),
             Set(s, [c EXCEPT !.res = q,
                       !.pc = IF resv[q].hold > Actual(c)
                                THEN "settle_refund" ELSE "settle_mark",
                       !.amt = resv[q].hold])
      PROVE  Matched'
  <2> DEFINE n == resv[q].hold
             d == [c EXCEPT !.res = q,
                     !.pc = IF n > Actual(c) THEN "settle_refund" ELSE "settle_mark",
                     !.amt = n]
  <2>1. /\ d.req = c.req /\ d.use = c.use /\ d.unit = c.unit /\ d.own = c.own
        /\ d.amt = n /\ d.src = c.src
        /\ d.pc = IF n > Actual(c) THEN "settle_refund" ELSE "settle_mark"
        /\ Set(s, d)
    BY <1>1, <1>3 DEF Call
  <2>2. n \in Nat
    BY <1>1 DEF OpenOf, ResvRow
  <2> HIDE DEF d, n
  <2>3. ASSUME NEW h, NEW b, NEW all, Known(k, c, used[k], h, b, all)
        PROVE  OnQuota(k, d, usage) /\ Agree(k, d, used'[k], h, b, all)
    <3>1. /\ OnQuota(k, c, usage) /\ Agree(k, c, used[k], h, b, all)
      BY <2>3 DEF Known
    <3>2. c.use.tokens # 0 /\ c.unit = Worth(k, c, usage) /\ c.own # "wallet"
      BY <1>0, <3>1 DEF OnQuota, PricedPcs
    <3>3. Worth(k, d, usage) = Worth(k, c, usage)
      BY <2>1 DEF Worth
    <3>4. OnQuota(k, d, usage)
      BY <2>1, <3>2, <3>3 DEF OnQuota, WalletPcs, PricedPcs
    <3>5. Actual(c) = c.unit
      BY <3>2 DEF Actual
    <3>6. Lead(c) = 0 /\ ~Unbilled(c) /\ Lead(d) = 0 /\ ~Unbilled(d)
      <4>1. d.pc = "settle_mark" => Larger(0, d.amt - d.unit) = 0
        BY <1>1, <2>1, <2>2, <3>5 DEF Larger
      <4> QED
        BY <1>0, <2>1, <4>1 DEF Lead, Unbilled
    <3> QED
      BY <1>0, <3>1, <3>4, <3>6 DEF Agree
  <2>4. d.pc # "idle"
    BY <2>1
  <2> QED
    BY <1>0, <2>1, <2>3, <2>4, MatchStep
<1> QED
  BY <1>2, <1>3 DEF SettlePick

\* What the row that Settle closes held goes to the record, up to its price.
LEMMA MatchSettled ==
  ASSUME WInv, TypeOK', Matched, NEW s \in Slots, SettleMark(s) PROVE Matched'
<1> DEFINE c == call[s]
           k == KeyOf[c.req]
           e == [c EXCEPT !.amt = Larger(0, Actual(c) - c.amt)]
<1>1. /\ c.pc = "settle_mark" /\ Set(s, AfterSettle(e)) /\ UNCHANGED <<used, usage>>
      /\ resv' = [resv EXCEPT ![c.res].status = "settled"]
  BY DEF SettleMark, keyVars
<1>2. c \in Call /\ c.req \in Requests /\ c.amt \in Nat /\ c.unit \in Nat /\ k \in Keys
  BY <1>1, Working DEF Call
<1>3. /\ e \in Call /\ e.req = c.req /\ e.use = c.use /\ e.own = c.own
      /\ e.unit = c.unit /\ e.amt = Larger(0, Actual(c) - c.amt)
  <2>1. c.amt \in Nat /\ Actual(c) \in Nat
    BY <1>2, ActualNat DEF Call
  <2>2. Larger(0, Actual(c) - c.amt) \in Nat
    BY <2>1 DEF Larger
  <2> QED
    BY <1>2, <2>2 DEF Call
<1> HIDE DEF e
<1>4. PICK d : d = AfterSettle(e) /\ Set(s, d)
  BY <1>1
<1>5. d.req = c.req /\ d.pc # "idle"
  BY <1>2, <1>3, <1>4 DEF AfterSettle, ChargeRoute, Call
<1>6. ASSUME PlainKey(k), OnQuota(k, c, usage)
      PROVE  /\ OnQuota(k, d, usage) /\ Lead(d) \in Int
             /\ Lead(d) <= Lead(c) + c.amt
             /\ ~Unbilled(d) => Lead(d) = Lead(c) + c.amt
  <2>1. c.use.tokens # 0 /\ c.unit = Worth(k, c, usage) /\ c.own # "wallet"
        /\ ~Plan[k].overflow
    BY <1>1, <1>6 DEF OnQuota, PricedPcs, PlainKey
  <2>2. d = ChargeRoute(e)
    BY <1>3, <1>4, <2>1 DEF AfterSettle
  <2>3. /\ d.use = c.use /\ d.unit = c.unit /\ d.own = c.own /\ d.amt = e.amt
        /\ \/ d.pc = "record" /\ d.src = "key_quota"
              /\ (Plan[k].kind = "unlimited" \/ e.amt = 0)
           \/ d.pc = "charge_quota" /\ d.src = "key_quota"
           \/ d.pc = "record" /\ d.src = "none"
    BY <1>2, <1>3, <2>1, <2>2, ChargeRoutePlain
  <2>4. e.amt = Larger(0, c.unit - c.amt)
    BY <1>3, <2>1 DEF Actual
  <2>5. Worth(k, d, usage) = Worth(k, c, usage)
    BY <1>5, <2>3 DEF Worth
  <2>6. Plan[k].kind = "unlimited" => c.unit = 0
    BY <2>1 DEF Worth
  <2>7. OnQuota(k, d, usage)
    BY <2>1, <2>3, <2>5 DEF OnQuota, WalletPcs, PricedPcs
  <2>8. Lead(c) + c.amt = Smaller(c.amt, c.unit)
    BY <1>1, <1>2 DEF Lead, Larger, Smaller
  <2>9. \/ Lead(d) = Smaller(c.amt, c.unit)
        \/ Unbilled(d) /\ Lead(d) = 0
    <3>1. CASE d.pc = "record" /\ d.src = "key_quota"
      <4>1. Lead(d) = c.unit
        BY <2>3, <3>1 DEF Lead
      <4>2. c.unit <= c.amt
        BY <1>2, <2>3, <2>4, <2>6, <3>1 DEF Larger
      <4> QED
        BY <1>2, <4>1, <4>2 DEF Smaller
    <3>2. CASE d.pc = "charge_quota" /\ d.src = "key_quota"
      <4>1. Lead(d) = c.unit - e.amt
        BY <2>3, <3>2 DEF Lead
      <4> QED
        BY <1>2, <2>4, <4>1 DEF Smaller, Larger
    <3>3. CASE d.pc = "record" /\ d.src = "none"
      BY <2>1, <2>3, <3>3 DEF Lead, Unbilled
    <3> QED
      BY <2>3, <3>1, <3>2, <3>3
  <2>10. Smaller(c.amt, c.unit) \in Nat
    BY <1>2 DEF Smaller
  <2> QED
    BY <2>7, <2>8, <2>9, <2>10
<1>7. PICK status \in {"settled", "released"} :
        resv' = [resv EXCEPT ![c.res].status = status]
  BY <1>1
<1>8. /\ c.pc \in {"settle_mark", "release_mark"} /\ Set(s, d)
      /\ d = Idle \/ d.req = c.req
      /\ d.pc = "idle" => d = Idle
      /\ UNCHANGED <<used, usage>>
      /\ PlainKey(KeyOf[c.req]) /\ OnQuota(KeyOf[c.req], c, usage)
           => /\ OnQuota(KeyOf[c.req], d, usage) /\ Lead(d) \in Int
              /\ Lead(d) <= Lead(c) + c.amt
              /\ ~Unbilled(d) => Lead(d) = Lead(c) + c.amt
  BY <1>1, <1>4, <1>5, <1>6
<1> QED
  BY <1>7, <1>8, MatchMark

\* A record adds to what is billed what its call was ahead, or is the one that
\* could not be billed.
LEMMA MatchRecord ==
  ASSUME WInv, TypeOK', Matched, NEW s \in Slots, Record(s) PROVE Matched'
<1> DEFINE c == call[s]
           k == KeyOf[c.req]
           row == [req |-> c.req, src |-> c.src, tokens |-> c.use.tokens,
                   cost |-> IF c.src = "none" THEN 0 ELSE BillableCost(c.use)]
<1>1. /\ c.pc = "record" /\ c.pc # "idle" /\ Set(s, Idle) /\ UNCHANGED <<used, resv>>
      /\ usage' = Append(usage, row)
  BY DEF Record, keyVars
<1>2. /\ c \in Call /\ c.req \in Requests /\ k \in Keys /\ used[k] \in Nat
      /\ c.unit \in Nat /\ c.use \in Usage /\ c.src \in Sources /\ usage \in Seq(UsageRow)
  BY <1>1, Working DEF Call, TypeOK
<1>3. row \in UsageRow
  <2>1. c.use.tokens \in Nat /\ BillableCost(c.use) \in Nat
    BY <1>2 DEF Usage, BillableCost
  <2> QED
    BY <1>2, <2>1 DEF UsageRow
<1>4. /\ row.req = c.req /\ row.src = c.src /\ row.tokens = c.use.tokens
      /\ c.src # "none" => row.cost = BillableCost(c.use)
  OBVIOUS
<1> HIDE DEF row
<1>5. ASSUME NEW h, NEW b, NEW all, Known(k, c, used[k], h, b, all),
             h = HeldBy(k, resv), b = BilledBy(k, usage), all = AllBilled(k, usage)
      PROVE  Match(k, Idle, used[k], resv', usage')
  <2>1. /\ OnQuota(k, c, usage) /\ Agree(k, c, used[k], h, b, all)
        /\ h \in Nat /\ b \in Nat /\ all \in BOOLEAN /\ Tables(k, resv, usage)
    BY <1>5 DEF Known
  <2>2. c.src # "wallet"
    BY <1>1, <2>1 DEF OnQuota
  <2>3. AllBilled(k, usage') <=> all /\ ~Unbilled(c)
    <3>1. AllBilled(k, usage') <=>
            /\ AllBilled(k, usage)
            /\ KeyOf[row.req] = k /\ row.tokens # 0 => row.src # "none"
      <4>1. PICK next : next = Append(usage, row)
        OBVIOUS
      <4>2. AllBilled(k, next) <=>
              /\ AllBilled(k, usage)
              /\ KeyOf[row.req] = k /\ row.tokens # 0 => row.src # "none"
        <5> HIDE DEF c, k
        <5> QED
          BY ONLY <1>2, <1>3, <4>1, AppendAsked
      <4> QED
        BY <1>1, <4>1, <4>2
    <3> QED
      BY <1>1, <1>4, <1>5, <3>1 DEF Unbilled
  <2>4. BilledBy(k, usage') \in Nat /\ BilledBy(k, usage') = b + Lead(c)
    <3>1. CASE c.src = "key_quota"
      <4>1. PICK next : next = Append(usage, row)
        OBVIOUS
      <4>2. KeyOf[row.req] = k /\ row.src = "key_quota"
        BY <1>4, <3>1
      <4>3. BilledBy(k, next) = BilledBy(k, usage) + Price(k, usage, row)
        <5> HIDE DEF c, k
        <5> QED
          BY ONLY <1>2, <1>3, <4>1, <4>2, BilledGrows
      <4>4. c.unit = Worth(k, c, usage)
        BY <1>1, <2>1, <3>1 DEF OnQuota
      <4>5. Price(k, usage, row) = Worth(k, c, usage)
        <5>1. CountedIn(c.req, usage)
                <=> row.req \in {usage[i].req : i \in PaidRows(k, usage)}
          <6>1. \A i \in DOMAIN usage : usage[i] \in UsageRow
            BY <1>2
          <6>2. \A i \in DOMAIN usage : usage[i].req = c.req /\ usage[i].src # "none"
                  <=> i \in PaidRows(k, usage) /\ usage[i].req = c.req
            BY <2>1, <6>1 DEF Tables, PaidRows, UsageRow, Sources
          <6>3. PaidRows(k, usage) \subseteq DOMAIN usage
            BY DEF PaidRows
          <6> QED
            BY <1>4, <6>2, <6>3 DEF CountedIn
        <5>2. Plan[k].kind \in Kinds
          BY <1>2
        <5> QED
          BY <1>4, <3>1, <5>1, <5>2 DEF Price, Worth, Kinds
      <4>6. Lead(c) = c.unit
        BY <1>1, <3>1 DEF Lead
      <4> QED
        BY <1>1, <1>2, <1>5, <2>1, <4>1, <4>3, <4>4, <4>5, <4>6
    <3>2. CASE c.src = "none"
      <4>1. BilledBy(k, usage') = b
        BY <1>1, <1>2, <1>3, <1>4, <1>5, <3>2, BilledElsewhere
      <4>2. Lead(c) = 0
        BY <1>1, <3>2 DEF Lead
      <4> QED
        BY <2>1, <4>1, <4>2
    <3> QED
      BY <1>2, <2>2, <3>1, <3>2 DEF Sources
  <2>5. Tables(k, resv', usage')
    <3>1. \A i \in DOMAIN usage' : KeyOf[usage'[i].req] = k => usage'[i].src # "wallet"
      BY <1>1, <1>2, <1>3, <1>4, <2>1, <2>2, AppendAsked DEF Tables
    <3> QED
      BY <1>1, <2>1, <3>1 DEF Tables
  <2>6. Agree(k, Idle, used[k], h, BilledBy(k, usage'), AllBilled(k, usage'))
    <3> DEFINE m == BilledBy(k, usage')
    <3>1. h + m <= used[k] /\ (AllBilled(k, usage') => used[k] = h + m)
      <4>1. Lead(c) \in Int
        BY <1>1, <1>2 DEF Lead
      <4>2. h + b + Lead(c) <= used[k] /\ (all /\ ~Unbilled(c) => used[k] = h + b + Lead(c))
        BY <2>1 DEF Agree
      <4>3. h + m = h + b + Lead(c)
        BY <2>1, <2>4, <4>1
      <4> QED
        BY <2>3, <4>2, <4>3
    <3>2. h \in Int /\ m \in Int /\ used[k] \in Int
      BY <1>2, <2>1, <2>4
    <3> HIDE DEF m
    <3> QED
      BY <3>1, <3>2, IdleMatches DEF m
  <2> QED
    BY <1>1, <1>5, <2>5, <2>6, IdleMatches DEF Match
<1>6. /\ \A r \in Requests : KeyOf[r] # k => resv'[r] = resv[r]
      /\ used' = used
      /\ \E line \in UsageRow : KeyOf[line.req] = k /\ usage' = Append(usage, line)
  BY <1>1, <1>3, <1>4
<1> QED
  BY <1>1, <1>5, <1>6, MatchWrite

\* Charge: the statements before the settlement only learn the price, and what
\* is not covered by a row is taken from the counter before it is recorded.
LEMMA MatchCharge ==
  ASSUME WInv, TypeOK', Matched, NEW s \in Slots,
         \/ ChargePeriod(s) \/ ChargeCount(s) \/ ChargeOwn(s) \/ SettlePick(s)
         \/ SettleRefund(s) \/ SettleMark(s) \/ ExtraCheck(s) \/ ExtraDebit(s)
         \/ ChargeQuota(s) \/ OverCheck(s) \/ OverDebit(s) \/ Record(s)
  PROVE  Matched'
<1> DEFINE c == call[s]
           k == KeyOf[c.req]
<1>0. c.pc # "idle" /\ c.pc \in ChargePcs
  BY DEF ChargePeriod, ChargeCount, ChargeOwn, SettlePick, SettleRefund, SettleMark,
         ExtraCheck, ExtraDebit, ChargeQuota, OverCheck, OverDebit, Record, ChargePcs
<1>1. /\ c \in Call /\ c.req \in Requests /\ k \in Keys /\ TypeOK
      /\ Work(c, resv, host, periodEnd, now) /\ resv \in [Requests -> ResvRow]
      /\ used \in [Keys -> Nat] /\ used[k] \in Nat /\ c.amt \in Nat /\ c.unit \in Nat
  BY <1>0, Working DEF Call, TypeOK
<1>2. CASE ChargePeriod(s)
  <2> DEFINE d == UnitRoute([c EXCEPT !.used = 0, !.at = 0])
  <2>1. /\ c.pc = "charge_period" /\ Set(s, d) /\ UNCHANGED <<resv, usage>>
        /\ used' = [used EXCEPT ![k] = 0]
    BY <1>2 DEF ChargePeriod, ResetPeriod
  <2>2. d.req = c.req /\ d.pc # "idle"
    BY <1>1 DEF UnitRoute, UnitSpend, Call
  <2> HIDE DEF d
  <2>3. \A q \in Keys : q # k => used'[q] = used[q]
    BY <1>1, <2>1
  <2> QED
    BY <2>1, <2>2, <2>3, MatchNever
<1>3. CASE ChargeCount(s)
  <2> DEFINE unit == IF CountedIn(c.req, usage) THEN 0 ELSE 1
             d    == [c EXCEPT !.unit = unit, !.pc = "charge_own"]
  <2>1. /\ c.pc = "charge_count" /\ Set(s, d) /\ UNCHANGED <<used, resv, usage>>
    BY <1>3 DEF ChargeCount, keyVars, CountedIn
  <2>2. /\ d.pc = "charge_own" /\ d.req = c.req /\ d.use = c.use /\ d.own = c.own
        /\ d.unit = unit
    BY <1>1 DEF Call
  <2> HIDE DEF d
  <2>3. ASSUME NEW h, NEW b, NEW all, Known(k, c, used[k], h, b, all)
        PROVE  OnQuota(k, d, usage) /\ Agree(k, d, used'[k], h, b, all)
    <3>1. OnQuota(k, c, usage) /\ Agree(k, c, used[k], h, b, all)
      BY <2>3 DEF Known
    <3>2. c.use.tokens # 0 /\ Plan[k].kind = "request" /\ c.own # "wallet"
      BY <2>1, <3>1 DEF OnQuota
    <3>3. d.unit = Worth(k, d, usage)
      BY <2>2, <3>2 DEF Worth
    <3>4. OnQuota(k, d, usage)
      BY <2>2, <3>2, <3>3 DEF OnQuota, WalletPcs, PricedPcs
    <3>5. Lead(c) = 0 /\ Lead(d) = 0 /\ ~Unbilled(c) /\ ~Unbilled(d)
      BY <2>1, <2>2 DEF Lead, Unbilled
    <3> QED
      BY <2>1, <3>1, <3>4, <3>5 DEF Agree
  <2>4. d.pc # "idle"
    BY <2>2
  <2> QED
    BY <1>0, <2>1, <2>2, <2>3, <2>4, MatchStep
<1>4. CASE ChargeOwn(s)
  <2> DEFINE own == IF resv[c.req].status = "open" THEN resv[c.req].source ELSE "none"
             d   == [c EXCEPT !.pc = "settle_pick", !.own = own]
  <2>1. /\ c.pc = "charge_own" /\ Set(s, d) /\ UNCHANGED <<used, resv, usage>>
    BY <1>4 DEF ChargeOwn, keyVars
  <2>2. /\ d.pc = "settle_pick" /\ d.req = c.req /\ d.use = c.use /\ d.own = own
        /\ d.unit = c.unit
    BY <1>1 DEF Call
  <2> HIDE DEF d
  <2>3. ASSUME NEW h, NEW b, NEW all, Known(k, c, used[k], h, b, all)
        PROVE  OnQuota(k, d, usage) /\ Agree(k, d, used'[k], h, b, all)
    <3>1. OnQuota(k, c, usage) /\ Agree(k, c, used[k], h, b, all) /\ Tables(k, resv, usage)
      BY <2>3 DEF Known
    <3>2. c.use.tokens # 0 /\ c.unit = Worth(k, c, usage)
      BY <2>1, <3>1 DEF OnQuota, PricedPcs
    <3>3. own # "wallet"
      BY <1>1, <3>1 DEF Tables
    <3>4. Worth(k, d, usage) = Worth(k, c, usage)
      BY <2>2 DEF Worth
    <3> HIDE DEF own
    <3>5. OnQuota(k, d, usage)
      BY <2>2, <3>2, <3>3, <3>4 DEF OnQuota, WalletPcs, PricedPcs
    <3>6. Lead(c) = 0 /\ Lead(d) = 0 /\ ~Unbilled(c) /\ ~Unbilled(d)
      BY <2>1, <2>2 DEF Lead, Unbilled
    <3> QED
      BY <2>1, <3>1, <3>5, <3>6 DEF Agree
  <2>4. d.pc # "idle"
    BY <2>2
  <2> QED
    BY <1>0, <2>1, <2>2, <2>3, <2>4, MatchStep
<1>5. CASE SettleRefund(s)
  <2> DEFINE d == [c EXCEPT !.pc = "settle_mark"]
  <2>1. /\ c.pc = "settle_refund" /\ Refund(c.res, c.amt - Actual(c), "settle") /\ Set(s, d)
        /\ UNCHANGED <<resv, usage>>
    BY <1>5 DEF SettleRefund
  <2>2. Actual(c) \in Nat /\ Actual(c) <= c.amt
    BY <1>0, <1>1, <2>1, Working, ActualNat DEF Fine
  <2>3. /\ d.pc = "settle_mark" /\ d.req = c.req /\ d.use = c.use /\ d.amt = c.amt
        /\ d.own = c.own /\ d.unit = c.unit /\ d.src = c.src
    BY <1>1 DEF Call
  <2> HIDE DEF d
  <2>4. PICK n \in Nat : n = c.amt - Actual(c)
    BY <1>1, <2>2
  <2>5. used' = [used EXCEPT ![KeyOf[c.res]] =
                   IF resv[c.res].source = "key_quota" /\ @ >= n THEN @ - n ELSE @]
    <3>1. c.res \in Requests
      BY <1>0, <2>1, Working DEF RefundPcs
    <3> QED
      BY <1>1, <2>1, <2>4, <3>1, RefundMoves
  <2> QED
    BY <2>1, <2>3, <2>4, <2>5, MatchRefund
<1>6. CASE ExtraCheck(s) \/ ExtraDebit(s) \/ OverCheck(s) \/ OverDebit(s)
  <2>1. c.pc \in WalletPcs /\ UNCHANGED <<used, resv, usage>>
    BY <1>6 DEF ExtraCheck, ExtraDebit, OverCheck, OverDebit, DebitOwner, WalletPcs, keyVars
  <2>2. \/ \E pc \in {"extra_debit", "over_debit", "record"} : Set(s, [c EXCEPT !.pc = pc])
        \/ \E pc \in {"extra_debit", "over_debit", "record"}, src \in Sources :
             Set(s, [c EXCEPT !.pc = pc, !.src = src])
        \/ Set(s, Idle)
    BY <1>6 DEF ExtraCheck, ExtraDebit, OverCheck, OverDebit, DebitOwner, Sources
  <2>3. PICK d : /\ Set(s, d)
                 /\ d = Idle \/ d.req = c.req
                 /\ d.pc = "idle" => d = Idle
    <3>1. CASE Set(s, Idle)
      BY <3>1
    <3>2. ASSUME NEW pc \in {"extra_debit", "over_debit", "record"}, NEW e,
                 e = [c EXCEPT !.pc = pc] \/ \E src : e = [c EXCEPT !.pc = pc, !.src = src],
                 Set(s, e)
          PROVE  \E d : /\ Set(s, d)
                        /\ d = Idle \/ d.req = c.req
                        /\ d.pc = "idle" => d = Idle
      <4>1. e.req = c.req /\ e.pc = pc
        BY <1>1, <3>2 DEF Call
      <4> QED
        BY <3>2, <4>1
    <3> QED
      BY <2>2, <3>1, <3>2
  <2> QED
    BY <2>1, <2>3, MatchNever
<1>7. CASE ChargeQuota(s)
  <2> DEFINE d == [c EXCEPT !.pc = "record"]
  <2>1. /\ c.pc = "charge_quota" /\ ConsumeQuota(k, c.amt) /\ Set(s, d)
        /\ UNCHANGED <<resv, usage>>
    BY <1>7 DEF ChargeQuota
  <2>2. /\ d.pc = "record" /\ d.req = c.req /\ d.src = c.src /\ d.use = c.use
        /\ d.own = c.own /\ d.unit = c.unit
    BY <1>1 DEF Call
  <2> HIDE DEF d
  <2>3. used' = [used EXCEPT ![k] = @ + c.amt] /\ used'[k] = used[k] + c.amt
    BY <1>1, <2>1 DEF ConsumeQuota
  <2>4. ASSUME NEW h, NEW b, NEW all, Known(k, c, used[k], h, b, all)
        PROVE  OnQuota(k, d, usage) /\ Agree(k, d, used'[k], h, b, all)
    <3>1. /\ OnQuota(k, c, usage) /\ Agree(k, c, used[k], h, b, all)
          /\ h \in Nat /\ b \in Nat
      BY <2>4 DEF Known
    <3>2. /\ c.src = "key_quota" /\ c.own # "wallet" /\ c.unit = Worth(k, c, usage)
      BY <2>1, <3>1 DEF OnQuota, PricedPcs
    <3>3. Worth(k, d, usage) = Worth(k, c, usage)
      BY <2>2 DEF Worth
    <3>4. OnQuota(k, d, usage)
      BY <2>2, <3>2, <3>3 DEF OnQuota, WalletPcs, PricedPcs
    <3>5. Lead(c) = c.unit - c.amt /\ Lead(d) = c.unit /\ ~Unbilled(c) /\ ~Unbilled(d)
      BY <2>1, <2>2, <3>2 DEF Lead, Unbilled
    <3> QED
      BY <1>1, <2>3, <3>1, <3>4, <3>5 DEF Agree
  <2>5. /\ \A q \in Keys : q # k => used'[q] = used[q]
        /\ d.pc # "idle"
    BY <1>1, <2>2, <2>3
  <2> QED
    BY <1>0, <2>1, <2>2, <2>4, <2>5, MatchStep
<1> QED
  BY <1>2, <1>3, <1>4, <1>5, <1>6, <1>7, MatchPick, MatchSettled, MatchRecord

\* A call that begins is ahead of nothing yet.
LEMMA MatchBegin ==
  ASSUME KeyCalls = 1, WInv, TypeOK', Matched, NEW s \in Slots, NEW r \in Requests,
         \/ HoldBegin(s, r)
         \/ \E use \in Uses : ChargeBegin(s, r, use)
         \/ CompleteFailed(s, r)
         \/ BootRelease(s, r)
  PROVE  Matched'
<1> DEFINE k == KeyOf[r]
<1>1. /\ TypeOK /\ k \in Keys /\ Alone(s, k) /\ now \in Nat
      /\ used[k] \in Nat /\ resv \in [Requests -> ResvRow] /\ Plan[k].amount \in Nat
      /\ Plan[k].kind \in Kinds
  BY PlanOf, BeginAlone DEF WInv, QInv, BInv, TypeOK
<1>2. UNCHANGED <<used, resv, usage>> /\ call[s].pc = "idle"
  BY DEF HoldBegin, ChargeBegin, CompleteFailed, BootRelease, keyVars, Free
<1>3. ASSUME NEW d, Set(s, d), d.pc # "idle" => d.req = r, d.pc = "idle" => d = Idle,
             PlainKey(k) => OnQuota(k, d, usage) /\ Lead(d) = 0 /\ ~Unbilled(d)
      PROVE  Matched'
  <2>1. PICK c : c = Idle
    OBVIOUS
  <2>2. \A h, b, all : Known(k, c, used[k], h, b, all)
          => OnQuota(k, d, usage) /\ Agree(k, d, used'[k], h, b, all)
    <3> SUFFICES ASSUME NEW h, NEW b, NEW all, Known(k, c, used[k], h, b, all)
                 PROVE  OnQuota(k, d, usage) /\ Agree(k, d, used'[k], h, b, all)
      OBVIOUS
    <3>1. /\ Agree(k, c, used[k], h, b, all) /\ PlainKey(k)
      BY DEF Known
    <3>2. Lead(c) = 0 /\ ~Unbilled(c)
      BY <2>1 DEF Lead, Unbilled, Idle
    <3> QED
      BY <1>2, <1>3, <3>1, <3>2 DEF Agree
  <2>3. /\ call[s].pc # "idle" => KeyOf[call[s].req] = k
        /\ d.pc # "idle" => KeyOf[d.req] = k
        /\ c = IF call[s].pc = "idle" THEN Idle ELSE call[s]
        /\ \A q \in Keys : q # k => used'[q] = used[q]
    BY <1>2, <1>3, <2>1
  <2> HIDE DEF k
  <2> QED
    BY <1>1, <1>2, <1>3, <2>2, <2>3, MatchSame
<1>4. ASSUME HoldBegin(s, r) PROVE Matched'
  <2> DEFINE c == [Idle EXCEPT !.req = r, !.used = used[k]]
             e == [c EXCEPT !.pc = "hold_period", !.at = now]
             d == IF PeriodOver(k) THEN e ELSE HoldRoute(c)
  <2>1. /\ c \in Call /\ c.req = r /\ c.amt = 0 /\ c.used = used[k] /\ c.own = "none"
        /\ c.unit = 0
    BY <1>1 DEF Idle, NoUse, Call, Usage, Sources
  <2>2. e.pc = "hold_period" /\ e.req = r
    BY <2>1 DEF Call
  <2>3. Set(s, d)
    BY <1>4 DEF HoldBegin
  <2> HIDE DEF c, e
  <2>4. /\ HoldRoute(c).req = r \/ HoldRoute(c) = Idle
        /\ HoldRoute(c).pc = "idle" => HoldRoute(c) = Idle
    BY <2>1 DEF HoldRoute, Call, Idle
  <2>5. /\ d.pc # "idle" => d.req = r
        /\ d.pc = "idle" => d = Idle
    BY <2>2, <2>4 DEF Idle
  <2>6. ASSUME PlainKey(k)
        PROVE  OnQuota(k, d, usage) /\ Lead(d) = 0 /\ ~Unbilled(d)
    <3>1. ~PeriodOver(k) /\ ~Plan[k].overflow /\ d = HoldRoute(c)
      BY <2>6 DEF PlainKey, PeriodOver
    <3> DEFINE amt == CappedHold(Plan[k].kind, QuotaRemaining(k, c.used))
    <3>2. \/ d = [[c EXCEPT !.src = "key_quota"] EXCEPT !.pc = "hold_insert"]
          \/ /\ HasQuota(k, c.used) /\ Plan[k].kind # "unlimited"
             /\ d = [c EXCEPT !.src = "key_quota",
                       !.pc = IF amt > 0 THEN "hold_quota" ELSE "hold_insert", !.amt = amt]
          \/ d = Idle
      <4>1. CASE Plan[k].kind = "unlimited"
        BY <2>1, <3>1, <4>1 DEF HoldRoute, HasQuota
      <4>2. CASE Plan[k].kind # "unlimited" /\ HasQuota(k, c.used)
        BY <2>1, <3>1, <4>2 DEF HoldRoute
      <4>3. CASE Plan[k].kind # "unlimited" /\ ~HasQuota(k, c.used)
        BY <2>1, <3>1, <4>3 DEF HoldRoute
      <4> QED
        BY <4>1, <4>2, <4>3
    <3>3. HasQuota(k, c.used) /\ Plan[k].kind # "unlimited" => amt \in Nat
      <4> SUFFICES ASSUME HasQuota(k, c.used), Plan[k].kind # "unlimited" PROVE amt \in Nat
        OBVIOUS
      <4>1. QuotaRemaining(k, c.used) \in Nat
        BY <1>1, <2>1 DEF HasQuota, QuotaRemaining
      <4> QED
        BY <1>1, <4>1, CappedHoldNat
    <3> HIDE DEF amt, d
    <3>4. \/ d.pc = "hold_quota" /\ d.own = "none"
          \/ d.pc = "hold_insert" /\ d.src = "key_quota" /\ d.amt = 0 /\ d.own = "none"
          \/ d = Idle
      <4>1. CASE d = [[c EXCEPT !.src = "key_quota"] EXCEPT !.pc = "hold_insert"]
        BY <2>1, <4>1 DEF Call
      <4>2. CASE /\ amt \in Nat
                 /\ d = [c EXCEPT !.src = "key_quota",
                           !.pc = IF amt > 0 THEN "hold_quota" ELSE "hold_insert",
                           !.amt = amt]
        BY <2>1, <4>2 DEF Call
      <4> QED
        BY <3>2, <3>3, <4>1, <4>2
    <3>5. CASE d = Idle
      BY <3>5, IdleMatches DEF Idle, Lead, Unbilled
    <3>6. CASE d.pc \in {"hold_quota", "hold_insert"}
      BY <3>4, <3>6 DEF OnQuota, WalletPcs, PricedPcs, Lead, Unbilled, Idle
    <3> QED
      BY <3>4, <3>5, <3>6
  <2> HIDE DEF d
  <2> QED
    BY <1>3, <2>3, <2>5, <2>6
<1>5. ASSUME NEW use \in Uses, ChargeBegin(s, r, use) PROVE Matched'
  <2> DEFINE c == [Idle EXCEPT !.req = r, !.use = use, !.used = used[k]]
             e == [c EXCEPT !.pc = "charge_period", !.at = now]
             f == [c EXCEPT !.pc = "record"]
             g == UnitRoute(c)
  <2>1. /\ c \in Call /\ c.req = r /\ c.use = use /\ c.own = "none" /\ c.src = "none"
    BY <1>1 DEF Idle, Call, Usage, Sources
  <2>2. /\ e.pc = "charge_period" /\ e.req = r
        /\ f.pc = "record" /\ f.req = r /\ f.own = "none" /\ f.src = "none" /\ f.use = use
    BY <2>1 DEF Call
  <2>3. /\ g.req = r /\ g.own = "none" /\ g.use = use /\ g.src = "none"
        /\ g.pc = IF Plan[k].kind = "request" THEN "charge_count" ELSE "charge_own"
        /\ g.unit = UnitSpend(k, use)
    BY <2>1 DEF UnitRoute, Call
  <2>4. PICK d : /\ Set(s, d)
                 /\ \/ use.tokens = 0 /\ d = f
                    \/ PeriodOver(k) /\ d = e
                    \/ use.tokens # 0 /\ d = g
    BY <1>5 DEF ChargeBegin
  <2> HIDE DEF c, e, f, g
  <2>5. d.req = r /\ d.pc # "idle"
    BY <2>2, <2>3, <2>4
  <2>6. ASSUME PlainKey(k)
        PROVE  OnQuota(k, d, usage) /\ Lead(d) = 0 /\ ~Unbilled(d)
    <3>1. ~PeriodOver(k)
      BY <2>6 DEF PlainKey, PeriodOver
    <3>2. CASE use.tokens = 0 /\ d = f
      BY <2>2, <3>2 DEF OnQuota, WalletPcs, PricedPcs, Lead, Unbilled
    <3>3. CASE use.tokens # 0 /\ d = g
      <4>1. g.pc = "charge_own" => g.unit = Worth(k, g, usage)
        BY <1>1, <2>3 DEF UnitSpend, Worth, Kinds
      <4> QED
        BY <2>3, <3>3, <4>1 DEF OnQuota, WalletPcs, PricedPcs, Lead, Unbilled
    <3> QED
      BY <2>4, <3>1, <3>2, <3>3
  <2> QED
    BY <1>3, <2>4, <2>5, <2>6
<1>6. ASSUME CompleteFailed(s, r) \/ BootRelease(s, r) PROVE Matched'
  <2> DEFINE c == ReleaseCall(r)
             d == IF resv[r].status = "open" /\ resv[r].hold > 0 THEN c ELSE Idle
  <2>1. Set(s, d)
    BY <1>6 DEF CompleteFailed, BootRelease, ReadRelease
  <2>2. c.pc = "release_refund" /\ c.req = r /\ c.own = "none"
    BY DEF ReleaseCall, Idle
  <2> HIDE DEF c
  <2>3. /\ d.pc # "idle" => d.req = r
        /\ d.pc = "idle" => d = Idle
    BY <2>2 DEF Idle
  <2>4. OnQuota(k, d, usage) /\ Lead(d) = 0 /\ ~Unbilled(d)
    <3>1. OnQuota(k, c, usage) /\ Lead(c) = 0 /\ ~Unbilled(c)
      BY <2>2 DEF OnQuota, WalletPcs, PricedPcs, Lead, Unbilled
    <3>2. OnQuota(k, Idle, usage) /\ Lead(Idle) = 0 /\ ~Unbilled(Idle)
      BY IdleMatches DEF Lead, Unbilled, Idle
    <3> QED
      BY <3>1, <3>2
  <2> HIDE DEF d
  <2> QED
    BY <1>3, <2>1, <2>3, <2>4
<1> QED
  BY <1>4, <1>5, <1>6

\* The process moves no table; a crash, and an edit, are what disturbs.
LEMMA MatchProcess ==
  ASSUME TypeOK, Matched,
         \/ \E r \in Requests : CompleteSucceeded(r)
         \/ Boot \/ BootDone \/ Tick \/ UNCHANGED vars
  PROVE  Matched'
<1>1. UNCHANGED <<used, resv, usage, call>>
  BY DEF CompleteSucceeded, Boot, BootDone, Tick, vars, keyVars
<1> QED
  BY <1>1 DEF Matched

\* At the start nothing is held, billed or taken.
LEMMA InitMatches == Init => Matched
<1> SUFFICES ASSUME Init PROVE Matched
  OBVIOUS
<1>1. /\ \A s \in Slots : call[s] = Idle
      /\ \A r \in Requests : resv[r] = NoResv
      /\ \A k \in Keys : used[k] = 0
      /\ usage = <<>>
  BY DEF Init
<1>2. ASSUME NEW k \in Keys, PlainKey(k) PROVE Match(k, Idle, used[k], resv, usage)
  <2>1. HeldRows(k, resv) = {} /\ PaidRows(k, usage) = {} /\ DOMAIN usage = {}
    BY <1>1 DEF HeldRows, PaidRows, NoResv
  <2>2. IsFiniteSet({}) /\ Cardinality({}) = 0
    BY FS_EmptySet
  <2>3. HeldBy(k, resv) = 0
    BY <2>1, SumEmpty DEF HeldBy
  <2>4. BilledBy(k, usage) = 0
    <3>1. {usage[i].req : i \in PaidRows(k, usage)} = {}
      BY <2>1
    <3>2. Plan[k].kind \in Kinds
      OBVIOUS
    <3> QED
      BY <2>1, <2>2, <3>1, <3>2, SumEmpty DEF BilledBy, Kinds
  <2>5. Tables(k, resv, usage)
    BY <1>1, <2>1, <2>2 DEF Tables, NoResv
  <2>6. Agree(k, Idle, 0, 0, 0, AllBilled(k, usage))
    <3>1. Lead(Idle) = 0
      BY DEF Lead, Idle
    <3> QED
      BY <3>1 DEF Agree
  <2> QED
    BY <1>1, <2>3, <2>4, <2>5, <2>6, IdleMatches DEF Match
<1>3. \A s \in Slots : \A k : ~WorksOn(call[s], k)
  BY <1>1 DEF WorksOn, Idle
<1> QED
  BY <1>2, <1>3 DEF Matched

RInv == WInv /\ (Undisturbed => Matched)

\* Every step that does not disturb keeps the equation.
LEMMA StepMatches ==
  ASSUME KeyCalls = 1 PROVE RInv /\ [Next]_vars => RInv'
<1> SUFFICES ASSUME RInv, [Next]_vars PROVE RInv'
  OBVIOUS
<1>1. WInv /\ WInv' /\ TypeOK /\ TypeOK'
  <2>1. WInv /\ WInv'
    BY StepWorks DEF RInv, WInv, QInv
  <2> QED
    BY <2>1 DEF WInv, QInv, BInv
<1>2. ASSUME Undisturbed' PROVE Matched'
  <2>1. crashes \in Nat /\ edits \in Nat /\ crashes' = 0 /\ edits' = 0
    BY <1>1, <1>2 DEF TypeOK, Undisturbed
  <2>2. CASE Crash
    BY <2>1, <2>2 DEF Crash
  <2>3. CASE Edit
    BY <2>1, <2>3 DEF Edit
  <2>4. ASSUME NEW s \in Slots, Step(s) PROVE Matched'
    <3>1. UNCHANGED <<crashes, edits>>
      BY <2>4 DEF Step, HoldPeriod, HoldQuota, HoldCheck, HoldDebit, HoldInsert,
         ChargePeriod, ChargeCount, ChargeOwn, SettlePick, SettleRefund, SettleMark,
         ExtraCheck, ExtraDebit, ChargeQuota, OverCheck, OverDebit, Record, DebitOwner,
         ReleaseRefund, ReleaseMark, procVars
    <3>2. Matched
      BY <2>1, <3>1 DEF RInv, Undisturbed
    <3> QED
      BY <1>1, <2>4, <3>2, MatchHold, MatchCharge, MatchRelease DEF Step
  <2>5. ASSUME NEW s \in Slots, Begin(s) PROVE Matched'
    <3>1. UNCHANGED <<crashes, edits>>
      BY <2>5 DEF Begin, HoldBegin, ChargeBegin, CompleteFailed, BootRelease, procVars
    <3>2. Matched
      BY <2>1, <3>1 DEF RInv, Undisturbed
    <3> QED
      BY <1>1, <2>5, <3>2, MatchBegin DEF Begin
  <2>6. CASE \/ \E r \in Requests : CompleteSucceeded(r)
             \/ Boot \/ BootDone \/ Tick \/ UNCHANGED vars
    <3>1. UNCHANGED <<crashes, edits>>
      BY <2>6 DEF CompleteSucceeded, Boot, BootDone, Tick, vars, procVars
    <3>2. Matched
      BY <2>1, <3>1 DEF RInv, Undisturbed
    <3> QED
      BY <1>1, <2>6, <3>2, MatchProcess
  <2> QED
    BY <2>2, <2>3, <2>4, <2>5, <2>6 DEF Next
<1> QED
  BY <1>1, <1>2 DEF RInv

\* What the invariant says of a key nobody works on.
LEMMA QuietMatches ==
  ASSUME RInv, Undisturbed, NEW k \in Keys, PlainKey(k), Quiet(k)
  PROVE  /\ Held(k) + Billed(k) <= used[k]
         /\ AllBilled(k, usage) => used[k] = Held(k) + Billed(k)
<1>1. /\ WInv /\ Matched /\ TypeOK /\ resv \in [Requests -> ResvRow]
      /\ usage \in Seq(UsageRow) /\ used[k] \in Nat
  BY DEF RInv, WInv, QInv, BInv, TypeOK
<1>2. Match(k, Idle, used[k], resv, usage)
  <2>1. \A s \in Slots : ~WorksOn(call[s], k)
    BY DEF Quiet, InFlight, WorksOn
  <2> QED
    BY <1>1, <2>1 DEF Matched
<1>3. Held(k) = HeldBy(k, resv)
  <2>1. {r \in OpenOf(k) : resv[r].source = "key_quota"} = HeldRows(k, resv)
    BY DEF OpenOf, HeldRows
  <2> QED
    BY <2>1 DEF Held, HeldBy
<1>4. Billed(k) = BilledBy(k, usage)
  <2>1. BilledRows(k) = PaidRows(k, usage)
    BY DEF BilledRows, PaidRows
  <2> QED
    BY <2>1 DEF Billed, BilledBy
<1>5. HeldBy(k, resv) \in Nat /\ BilledBy(k, usage) \in Nat
  BY <1>1, <1>2, HeldNat, BilledNat DEF Match, Tables
<1>6. Agree(k, Idle, used[k], HeldBy(k, resv), BilledBy(k, usage), AllBilled(k, usage))
  BY <1>2 DEF Match
<1>7. Lead(Idle) = 0 /\ ~Unbilled(Idle)
  BY DEF Lead, Unbilled, Idle
<1> QED
  BY <1>1, <1>3, <1>4, <1>5, <1>6, <1>7 DEF Agree

\* While the host runs the calls of a key one after another, the counter of a key
\* without a period and without a wallet behind it covers what its open
\* reservations hold and what its records billed, and is no more than that when
\* every record could be billed (Hold, Settle, Charge, Release, recordUsage).
THEOREM CounterCoversTables ==
  ASSUME KeyCalls = 1
  PROVE  Spec => [](Undisturbed => \A k \in Keys : PlainKey(k) /\ Quiet(k) =>
                      /\ Held(k) + Billed(k) <= used[k]
                      /\ AllBilled(k, usage) => used[k] = Held(k) + Billed(k))
<1>1. RInv => (Undisturbed => \A k \in Keys : PlainKey(k) /\ Quiet(k) =>
                 /\ Held(k) + Billed(k) <= used[k]
                 /\ AllBilled(k, usage) => used[k] = Held(k) + Billed(k))
  BY QuietMatches
<1>2. Init => RInv
  BY InitWorks, InitMatches DEF RInv
<1> QED
  BY <1>1, <1>2, StepMatches, PTL DEF Spec

\* With such keys only, the tables reconcile (QuotaReconciles) until a crash, a
\* switch, or a record that found too little left.
THEOREM SerialQuotaReconciles ==
  ASSUME KeyCalls = 1, \A k \in Keys : PlainKey(k)
  PROVE  Spec => []((Undisturbed /\ \A k \in Keys : AllBilled(k, usage))
                       => QuotaReconciles)
<1>1. RInv => ((Undisturbed /\ \A k \in Keys : AllBilled(k, usage)) => QuotaReconciles)
  BY QuietMatches DEF QuotaReconciles
<1>2. Init => RInv
  BY InitWorks, InitMatches DEF RInv
<1> QED
  BY <1>1, <1>2, StepMatches, PTL DEF Spec

=============================================================================
