------------------------------ MODULE Billing -------------------------------
(***************************************************************************)
(* internal/billing as the host drives it: intercept_before places a Hold, *)
(* every upstream attempt ends in a usage.handle call (Charge, with Settle *)
(* inside), request.complete Releases the hold of a request that did not   *)
(* succeed, and Boot releases the stale holds of a crash.                  *)
(*                                                                         *)
(* The calls run on the host's threads, and outside AdjustBalance every    *)
(* SQL statement commits on its own.  So a call is a small process: one    *)
(* action per statement, with what it has read kept in its slot in between *)
(* (pc names the next statement).  Pure computation between two statements *)
(* belongs to the action of the first.                                     *)
(*                                                                         *)
(* Data: a usage record is its token count and its price; a unit stands    *)
(* for thousands of tokens or micro-credits.                               *)
(***************************************************************************)
EXTENDS Wallet, FiniteSets

CONSTANTS
  Keys, Requests, NoReq,   \* rows of the keys table; client requests
  Slots,                   \* host threads calling the plugin
  KeyOf, Owner,            \* [Requests -> Keys], [Keys -> Users]
  Plan,                    \* [Keys -> kind, windowed, amount, overflow]
  Uses,                    \* usage records the host may report
  HoldTokens, HoldMicro,   \* DefaultHoldTokens; DefaultHoldMicro * multiplier
  StartUsers, StartLedger, \* the wallets as recharges left them
  MaxUses,                 \* bound: usage.handle calls per request
  KeyRequests,             \* bound: requests of a key in progress at once
  KeyCalls,                \* bound: plugin calls of a key in flight at once
  LateUsage,               \* may usage.handle arrive after request.complete
  MaxCrashes,              \* bound: crashes of the host process
  MaxTime,                 \* bound: the clock
  Limits,                  \* values the administrator gives credit_limit
  MaxEdits,                \* bound: changes made by the administrator
  PeriodLen, StaleAge      \* quota window; age of a reservation Boot frees

Kinds   == {"credit", "token", "request", "unlimited"}
Sources == {"none", "key_quota", "wallet"}
Usage   == [tokens : Nat, cost : Nat]
Tags    == {"hold", "settle", "release", "usage"}

ASSUME BillingAssumption ==
  /\ NoReq \notin Requests /\ IsFiniteSet(Slots)
  /\ Tags \X (Requests \cup {NoReq}) \subseteq Refs
  /\ KeyOf \in [Requests -> Keys] /\ Owner \in [Keys -> Users]
  /\ Plan \in [Keys -> [kind : Kinds, windowed : BOOLEAN, amount : Nat,
                        overflow : BOOLEAN]]
  /\ Uses \subseteq Usage
  /\ HoldTokens \in Nat /\ HoldMicro \in Nat /\ MaxUses \in Nat
  /\ MaxCrashes \in Nat /\ PeriodLen \in Nat
  /\ Limits \subseteq Int /\ MaxEdits \in Nat

\* No request has been made, and no usage paid, when the wallets are as the
\* recharges left them.
ASSUME OpeningAssumption ==
  \A i \in DOMAIN StartLedger :
    /\ StartLedger[i].ref \notin Tags \X Requests
    /\ StartLedger[i].reason # "usage"

VARIABLES
  used,       \* keys.quota_used
  periodEnd,  \* keys.period_end, 0 before the first period
  resv,       \* reservations: the row of each request, status "none" if absent
  usage,      \* usage_records, in insertion order
  host,       \* the host's side of each request: stage and usage calls made
  call,       \* what each slot is executing
  phase,      \* "up", "down" or "booting"
  stale,      \* ids Boot has read and not yet released
  now,        \* the clock
  crashes,
  edits       \* changes the administrator has made

keyVars  == <<used, periodEnd>>
procVars == <<phase, stale, crashes, edits>>
vars     == <<users, ledger, used, periodEnd, resv, usage, host, call, phase,
              stale, now, crashes, edits>>

NoUse  == [tokens |-> 0, cost |-> 0]
Idle   == [pc |-> "idle", req |-> NoReq, use |-> NoUse, used |-> 0, unit |-> 0,
           own |-> "none", res |-> NoReq, amt |-> 0, src |-> "none", at |-> 0]
NoResv == [status |-> "none", hold |-> 0, source |-> "none", at |-> 0]

HoldPcs    == {"hold_period", "hold_quota", "hold_check", "hold_debit", "hold_insert"}
ChargePcs  == {"charge_period", "charge_count", "charge_own", "settle_pick",
               "settle_refund", "settle_mark", "extra_check", "extra_debit",
               "charge_quota", "over_check", "over_debit", "record"}
ReleasePcs == {"release_refund", "release_mark"}
RefundPcs  == ReleasePcs \cup {"settle_refund", "settle_mark"}

Init ==
  /\ users = StartUsers /\ ledger = StartLedger
  /\ WalletTypeOK /\ LedgerExplainsBalance /\ TelegramRefOnce
  /\ used = [k \in Keys |-> 0] /\ periodEnd = [k \in Keys |-> 0]
  /\ resv = [r \in Requests |-> NoResv]
  /\ usage = <<>>
  /\ host = [r \in Requests |-> [stage |-> "new", uses |-> 0]]
  /\ call = [s \in Slots |-> Idle]
  /\ phase = "up" /\ stale = {}
  /\ now = 1 /\ crashes = 0 /\ edits = 0

-----------------------------------------------------------------------------
(* Computations shared by the calls.                                       *)

Larger(a, b)  == IF a > b THEN a ELSE b
Smaller(a, b) == IF a < b THEN a ELSE b

HoldAmount(kind) ==
  CASE kind = "unlimited" -> 0
    [] kind = "token"     -> HoldTokens
    [] kind = "request"   -> 1
    [] kind = "credit"    -> HoldMicro

\* Faulty variant: the hold is not capped at what remains.
UncappedHold(kind, rem) == HoldAmount(kind)

\* Reserve the estimate, but never more than what remains of the quota.
CappedHold(kind, rem) == Smaller(HoldAmount(kind), rem)

\* ComputeCost floored: a price of zero charges one micro-credit per token.
BillableCost(use) == IF use.cost <= 0 THEN use.tokens ELSE use.cost

HasQuota(k, u)       == Plan[k].kind = "unlimited" \/ u < Plan[k].amount
QuotaRemaining(k, u) == Plan[k].amount - u

\* Faulty variant: every call starts a new period.
PeriodAlwaysOver(k) == Plan[k].windowed

\* EnsurePeriod's test on the row just read.
PeriodOver(k) == Plan[k].windowed /\ (periodEnd[k] = 0 \/ now >= periodEnd[k])

\* The UPDATE that follows, with the time of the test.
ResetPeriod(k, t) ==
  /\ used' = [used EXCEPT ![k] = 0]
  /\ periodEnd' = [periodEnd EXCEPT ![k] = t + PeriodLen]

\* Faulty variant: the table without its CHECK constraint.
ConsumeQuotaUnchecked(k, delta) ==
  /\ used' = [used EXCEPT ![k] = @ + delta]
  /\ UNCHANGED periodEnd

\* ConsumeQuota does not enforce the limit; CHECK (quota_used >= 0) refuses a
\* refund that would make the counter negative.
ConsumeQuota(k, delta) ==
  /\ used' = IF used[k] + delta >= 0 THEN [used EXCEPT ![k] = @ + delta] ELSE used
  /\ UNCHANGED periodEnd

OpenOf(k) == {r \in Requests : KeyOf[r] = k /\ resv[r].status = "open"}

InFlight(k)   == {s \in Slots : call[s].pc # "idle" /\ KeyOf[call[s].req] = k}
InProgress(k) == {r \in Requests : KeyOf[r] = k /\ host[r].stage = "running"}
Holding(r)    == \E s \in Slots : call[s].req = r /\ call[s].pc \in HoldPcs

\* Slot s continues as c.
Set(s, c) == call' = [call EXCEPT ![s] = c]

\* A slot takes a new call of request r.
Free(s, r) ==
  /\ phase = "up" /\ call[s].pc = "idle"
  /\ Cardinality(InFlight(KeyOf[r])) < KeyCalls

-----------------------------------------------------------------------------
(* Hold (intercept_before, once per client request).                       *)

\* Where Hold goes once it knows the key row: reserve out of the quota, capped
\* at what remains; else out of the wallet if overflow is on; else no hold.
HoldRoute(c) ==
  LET k    == KeyOf[c.req]
      amt  == CappedHold(Plan[k].kind, QuotaRemaining(k, c.used))
      quota == [c EXCEPT !.src = "key_quota"]
  IN CASE Plan[k].kind = "unlimited" -> [quota EXCEPT !.pc = "hold_insert"]
       [] Plan[k].kind # "unlimited" /\ HasQuota(k, c.used) ->
            [quota EXCEPT !.pc = IF amt > 0 THEN "hold_quota" ELSE "hold_insert",
                          !.amt = amt]
       [] ~HasQuota(k, c.used) /\ Plan[k].overflow ->
            [c EXCEPT !.pc = "hold_check", !.src = "wallet", !.amt = HoldMicro]
       [] OTHER -> Idle

\* The key row is read; EnsurePeriod looks at it.
HoldBegin(s, r) ==
  LET k == KeyOf[r]
      c == [Idle EXCEPT !.req = r, !.used = used[k]]
  IN
  /\ Free(s, r) /\ host[r].stage = "new"
  /\ Cardinality(InProgress(k)) < KeyRequests
  /\ host' = [host EXCEPT ![r].stage = "running"]
  /\ Set(s, IF PeriodOver(k) THEN [c EXCEPT !.pc = "hold_period", !.at = now]
            ELSE HoldRoute(c))
  /\ UNCHANGED <<walletVars, keyVars, resv, usage, procVars, now>>

HoldPeriod(s) ==
  /\ call[s].pc = "hold_period"
  /\ ResetPeriod(KeyOf[call[s].req], call[s].at)
  /\ Set(s, HoldRoute([call[s] EXCEPT !.used = 0, !.at = 0]))
  /\ UNCHANGED <<walletVars, resv, usage, host, procVars, now>>

HoldQuota(s) ==
  /\ call[s].pc = "hold_quota"
  /\ ConsumeQuota(KeyOf[call[s].req], call[s].amt)
  /\ Set(s, [call[s] EXCEPT !.pc = "hold_insert"])
  /\ UNCHANGED <<walletVars, resv, usage, host, procVars, now>>

HoldCheck(s) ==
  LET u == Owner[KeyOf[call[s].req]] IN
  /\ call[s].pc = "hold_check"
  /\ Set(s, IF CanSpend(users[u], call[s].amt)
              THEN [call[s] EXCEPT !.pc = "hold_debit"] ELSE Idle)
  /\ UNCHANGED <<walletVars, keyVars, resv, usage, host, procVars, now>>

\* Faulty variant: the debit is taken and the row forgotten.
HoldDebitOnly(s) ==
  LET c == call[s]
      u == Owner[KeyOf[c.req]]
  IN
  /\ c.pc = "hold_debit"
  /\ \/ AdjustBalance(u, -c.amt, "hold", <<"hold", c.req>>, "system")
     \/ /\ AdjustReply(u, -c.amt, <<"hold", c.req>>, "system") # "ok"
        /\ UNCHANGED walletVars
  /\ Set(s, Idle)
  /\ UNCHANGED <<keyVars, resv, usage, host, procVars, now>>

\* AdjustBalance looks at the balance again; when it refuses there is no hold.
HoldDebit(s) ==
  LET c == call[s]
      u == Owner[KeyOf[c.req]]
  IN
  /\ c.pc = "hold_debit"
  /\ \/ /\ AdjustBalance(u, -c.amt, "hold", <<"hold", c.req>>, "system")
        /\ Set(s, [c EXCEPT !.pc = "hold_insert"])
     \/ /\ AdjustReply(u, -c.amt, <<"hold", c.req>>, "system") # "ok"
        /\ UNCHANGED walletVars
        /\ Set(s, Idle)
  /\ UNCHANGED <<keyVars, resv, usage, host, procVars, now>>

HoldInsert(s) ==
  LET c == call[s] IN
  /\ c.pc = "hold_insert"
  /\ resv' = [resv EXCEPT ![c.req] = [status |-> "open", hold |-> c.amt,
                                      source |-> c.src, at |-> now]]
  /\ Set(s, Idle)
  /\ UNCHANGED <<walletVars, keyVars, usage, host, procVars, now>>

-----------------------------------------------------------------------------
(* Charge (usage.handle, once per upstream attempt).                       *)

\* The unit the key's quota counts in; ChargeCount decides for a request key.
UnitSpend(k, use) ==
  CASE Plan[k].kind = "credit"    -> BillableCost(use)
    [] Plan[k].kind = "token"     -> use.tokens
    [] Plan[k].kind = "request"   -> 1
    [] Plan[k].kind = "unlimited" -> 0

UnitRoute(c) ==
  LET k == KeyOf[c.req] IN
  [c EXCEPT !.unit = UnitSpend(k, c.use),
            !.pc = IF Plan[k].kind = "request" THEN "charge_count" ELSE "charge_own"]

\* A record without tokens is only written down; any other reads the key row.
ChargeBegin(s, r, use) ==
  LET k == KeyOf[r]
      c == [Idle EXCEPT !.req = r, !.use = use, !.used = used[k]]
  IN
  /\ Free(s, r) /\ ~Holding(r)
  /\ \/ host[r].stage = "running"
     \/ LateUsage /\ host[r].stage \in {"succeeded", "failed"}
  /\ host[r].uses < MaxUses
  /\ host' = [host EXCEPT ![r].uses = @ + 1]
  /\ Set(s, IF use.tokens = 0 THEN [c EXCEPT !.pc = "record"]
            ELSE IF PeriodOver(k) THEN [c EXCEPT !.pc = "charge_period", !.at = now]
            ELSE UnitRoute(c))
  /\ UNCHANGED <<walletVars, keyVars, resv, usage, procVars, now>>

ChargePeriod(s) ==
  /\ call[s].pc = "charge_period"
  /\ ResetPeriod(KeyOf[call[s].req], call[s].at)
  /\ Set(s, UnitRoute([call[s] EXCEPT !.used = 0, !.at = 0]))
  /\ UNCHANGED <<walletVars, resv, usage, host, procVars, now>>

\* Faulty variant: every attempt of a client request counts.
ChargeCountAttempts(s) ==
  /\ call[s].pc = "charge_count"
  /\ Set(s, [call[s] EXCEPT !.unit = 1, !.pc = "charge_own"])
  /\ UNCHANGED <<walletVars, keyVars, resv, usage, host, procVars, now>>

\* Rule 2: a request key counts a client request once, however many attempts.
ChargeCount(s) ==
  LET c       == call[s]
      counted == \E i \in DOMAIN usage : usage[i].req = c.req /\ usage[i].src # "none"
  IN
  /\ c.pc = "charge_count"
  /\ Set(s, [c EXCEPT !.unit = IF counted THEN 0 ELSE 1, !.pc = "charge_own"])
  /\ UNCHANGED <<walletVars, keyVars, resv, usage, host, procVars, now>>

\* The source of the request's own open reservation decides in which unit
\* Settle is asked to settle.
ChargeOwn(s) ==
  LET c == call[s] IN
  /\ c.pc = "charge_own"
  /\ Set(s, [c EXCEPT !.pc = "settle_pick",
                      !.own = IF resv[c.req].status = "open"
                                THEN resv[c.req].source ELSE "none"])
  /\ UNCHANGED <<walletVars, keyVars, resv, usage, host, procVars, now>>

Actual(c) == IF c.own = "wallet" THEN BillableCost(c.use) ELSE c.unit

\* After the hold: what is still owed (amt) goes to the quota, to the wallet at
\* the full price, or nowhere.  c.used is the row read when the call began.
ChargeRoute(c) ==
  LET k    == KeyOf[c.req]
      paid == [c EXCEPT !.pc = "record", !.src = "key_quota"]
  IN CASE Plan[k].kind = "unlimited" \/ c.amt <= 0 -> paid
       [] /\ Plan[k].kind # "unlimited" /\ c.amt > 0
          /\ HasQuota(k, c.used) /\ QuotaRemaining(k, c.used) >= c.amt ->
            [paid EXCEPT !.pc = "charge_quota"]
       [] /\ Plan[k].kind # "unlimited" /\ c.amt > 0 /\ Plan[k].overflow
          /\ ~(HasQuota(k, c.used) /\ QuotaRemaining(k, c.used) >= c.amt) ->
            [c EXCEPT !.pc = "over_check"]
       [] OTHER -> [c EXCEPT !.pc = "record", !.src = "none"]

\* Where Charge goes when Settle returned; amt is the extra still owed.
AfterSettle(c) ==
  IF c.own = "wallet"
    THEN [c EXCEPT !.pc = IF c.amt > 0 THEN "extra_check" ELSE "record",
                   !.src = "wallet"]
    ELSE ChargeRoute(c)

\* Settle takes the oldest open reservation of the KEY; without one the whole
\* unit spend is owed.
SettlePick(s) ==
  LET c == call[s]
      k == KeyOf[c.req]
  IN
  /\ c.pc = "settle_pick"
  /\ \/ /\ OpenOf(k) = {}
        /\ Set(s, ChargeRoute([c EXCEPT !.amt = c.unit]))
     \/ \E r \in OpenOf(k) :
          /\ \A q \in OpenOf(k) : resv[r].at <= resv[q].at
          /\ Set(s, [c EXCEPT !.res = r,
                       !.pc = IF resv[r].hold > Actual(c)
                                THEN "settle_refund" ELSE "settle_mark",
                       !.amt = resv[r].hold])
  /\ UNCHANGED <<walletVars, keyVars, resv, usage, host, procVars, now>>

\* Give amount back to the source a reservation was taken from.
Refund(r, amount, tag) ==
  LET k == KeyOf[r] IN
  \/ /\ resv[r].source = "wallet"
     /\ AdjustBalance(Owner[k], amount, "refund", <<tag, r>>, "system")
     /\ UNCHANGED keyVars
  \/ /\ resv[r].source = "key_quota"
     /\ ConsumeQuota(k, -amount)
     /\ UNCHANGED walletVars

SettleRefund(s) ==
  LET c == call[s] IN
  /\ c.pc = "settle_refund"
  /\ Refund(c.res, c.amt - Actual(c), "settle")
  /\ Set(s, [c EXCEPT !.pc = "settle_mark"])
  /\ UNCHANGED <<resv, usage, host, procVars, now>>

SettleMark(s) ==
  LET c == call[s] IN
  /\ c.pc = "settle_mark"
  /\ resv' = [resv EXCEPT ![c.res].status = "settled"]
  /\ Set(s, AfterSettle([c EXCEPT !.amt = Larger(0, Actual(c) - c.amt)]))
  /\ UNCHANGED <<walletVars, keyVars, usage, host, procVars, now>>

ExtraCheck(s) ==
  LET c == call[s] IN
  /\ c.pc = "extra_check"
  /\ Set(s, [c EXCEPT !.pc = IF CanSpend(users[Owner[KeyOf[c.req]]], c.amt)
                               THEN "extra_debit" ELSE "record"])
  /\ UNCHANGED <<walletVars, keyVars, resv, usage, host, procVars, now>>

\* Debit the owner: recorded as a wallet charge, or Charge returns an error
\* before anything is recorded.
DebitOwner(s, amount) ==
  LET c == call[s]
      u == Owner[KeyOf[c.req]]
  IN
  /\ \/ /\ AdjustBalance(u, -amount, "usage", <<"usage", NoReq>>, "system")
        /\ Set(s, [c EXCEPT !.pc = "record", !.src = "wallet"])
     \/ /\ AdjustReply(u, -amount, <<"usage", NoReq>>, "system") # "ok"
        /\ UNCHANGED walletVars
        /\ Set(s, Idle)
  /\ UNCHANGED <<keyVars, resv, usage, host, procVars, now>>

ExtraDebit(s) == call[s].pc = "extra_debit" /\ DebitOwner(s, call[s].amt)

ChargeQuota(s) ==
  LET c == call[s] IN
  /\ c.pc = "charge_quota"
  /\ ConsumeQuota(KeyOf[c.req], c.amt)
  /\ Set(s, [c EXCEPT !.pc = "record"])
  /\ UNCHANGED <<walletVars, resv, usage, host, procVars, now>>

OverCheck(s) ==
  LET c == call[s] IN
  /\ c.pc = "over_check"
  /\ Set(s, IF CanSpend(users[Owner[KeyOf[c.req]]], BillableCost(c.use))
              THEN [c EXCEPT !.pc = "over_debit"]
              ELSE [c EXCEPT !.pc = "record", !.src = "none"])
  /\ UNCHANGED <<walletVars, keyVars, resv, usage, host, procVars, now>>

OverDebit(s) ==
  call[s].pc = "over_debit" /\ DebitOwner(s, BillableCost(call[s].use))

\* recordUsage: an unbilled row has source NULL and cost 0.
Record(s) ==
  LET c == call[s] IN
  /\ c.pc = "record"
  /\ usage' = Append(usage, [req |-> c.req, src |-> c.src, tokens |-> c.use.tokens,
                cost |-> IF c.src = "none" THEN 0 ELSE BillableCost(c.use)])
  /\ Set(s, Idle)
  /\ UNCHANGED <<walletVars, keyVars, resv, host, procVars, now>>

-----------------------------------------------------------------------------
(* Release (request.complete with an outcome other than "succeeded").      *)

CompleteSucceeded(r) ==
  /\ phase = "up" /\ host[r].stage = "running" /\ ~Holding(r)
  /\ host' = [host EXCEPT ![r].stage = "succeeded"]
  /\ UNCHANGED <<walletVars, keyVars, resv, usage, call, procVars, now>>

ReleaseCall(r) == [Idle EXCEPT !.pc = "release_refund", !.req = r, !.res = r,
                               !.amt = resv[r].hold]

\* Faulty variants: the status is not looked at; only wallet holds are released.
ReadReleaseAny(s, r) == Set(s, IF resv[r].hold > 0 THEN ReleaseCall(r) ELSE Idle)
ReadReleaseWallet(s, r) ==
  Set(s, IF resv[r].status = "open" /\ resv[r].source = "wallet"
           THEN ReleaseCall(r) ELSE Idle)

\* The row is read once; nothing to do unless it is open with something held.
ReadRelease(s, r) ==
  Set(s, IF resv[r].status = "open" /\ resv[r].hold > 0
           THEN ReleaseCall(r) ELSE Idle)

CompleteFailed(s, r) ==
  /\ Free(s, r) /\ host[r].stage = "running" /\ ~Holding(r)
  /\ host' = [host EXCEPT ![r].stage = "failed"]
  /\ ReadRelease(s, r)
  /\ UNCHANGED <<walletVars, keyVars, resv, usage, procVars, now>>

ReleaseRefund(s) ==
  LET c == call[s] IN
  /\ c.pc = "release_refund"
  /\ Refund(c.res, c.amt, "release")
  /\ Set(s, [c EXCEPT !.pc = "release_mark"])
  /\ UNCHANGED <<resv, usage, host, procVars, now>>

ReleaseMark(s) ==
  LET c == call[s] IN
  /\ c.pc = "release_mark"
  /\ resv' = [resv EXCEPT ![c.res].status = "released"]
  /\ Set(s, Idle)
  /\ UNCHANGED <<walletVars, keyVars, usage, host, procVars, now>>

-----------------------------------------------------------------------------
(* The process: the plugin lives in the host's address space, so a crash   *)
(* ends every call and every request in progress.  Boot reads the stale    *)
(* reservations and releases them one after the other before it serves.    *)

Crash ==
  /\ phase \in {"up", "booting"} /\ crashes < MaxCrashes
  /\ crashes' = crashes + 1 /\ phase' = "down" /\ stale' = {}
  /\ call' = [s \in Slots |-> Idle]
  /\ host' = [r \in Requests |-> IF host[r].stage = "new" THEN host[r]
                                 ELSE [stage |-> "lost", uses |-> MaxUses]]
  /\ UNCHANGED <<walletVars, keyVars, resv, usage, now, edits>>

\* Faulty variant: the age is compared the wrong way round.
FreshReservations ==
  {r \in Requests : resv[r].status = "open" /\ resv[r].at >= now - StaleAge}

\* ReleaseStale's query.
StaleReservations ==
  {r \in Requests : resv[r].status = "open" /\ resv[r].at < now - StaleAge}

Boot ==
  /\ phase = "down" /\ phase' = "booting" /\ stale' = StaleReservations
  /\ UNCHANGED <<walletVars, keyVars, resv, usage, host, call, crashes, now, edits>>

BootRelease(s, r) ==
  /\ phase = "booting" /\ r \in stale /\ \A t \in Slots : call[t].pc = "idle"
  /\ stale' = stale \ {r}
  /\ ReadRelease(s, r)
  /\ UNCHANGED <<walletVars, keyVars, resv, usage, host, phase, crashes, now, edits>>

BootDone ==
  /\ phase = "booting" /\ stale = {} /\ \A t \in Slots : call[t].pc = "idle"
  /\ phase' = "up"
  /\ UNCHANGED <<walletVars, keyVars, resv, usage, host, call, stale, crashes, now,
                 edits>>

(* The administrator, between any two statements.                          *)

\* mgmtSwitchQuota keeping kind and amount: quota_used starts again at 0, while
\* the reservations taken from it stay open and the period runs on.
Switch(k) ==
  /\ used' = [used EXCEPT ![k] = 0]
  /\ UNCHANGED <<periodEnd, walletVars>>

EditTerms(u) ==
  /\ \/ \E m \in Modes \ {users[u].mode} : UpdateMode(u, m)
     \/ \E l \in Limits \ {users[u].limit} : UpdateLimit(u, l)
  /\ UNCHANGED keyVars

\* An edit that would change nothing is left out.
Edit ==
  /\ phase = "up" /\ edits < MaxEdits /\ edits' = edits + 1
  /\ (\E k \in Keys : used[k] > 0 /\ Switch(k)) \/ (\E u \in Users : EditTerms(u))
  /\ UNCHANGED <<resv, usage, host, call, phase, stale, crashes, now>>

Tick ==
  /\ now < MaxTime /\ now' = now + 1
  /\ UNCHANGED <<walletVars, keyVars, resv, usage, host, call, procVars>>

-----------------------------------------------------------------------------

\* The next statement of the call in slot s.
Step(s) ==
  \/ HoldPeriod(s) \/ HoldQuota(s) \/ HoldCheck(s) \/ HoldDebit(s) \/ HoldInsert(s)
  \/ ChargePeriod(s) \/ ChargeCount(s) \/ ChargeOwn(s) \/ SettlePick(s)
  \/ SettleRefund(s) \/ SettleMark(s) \/ ExtraCheck(s) \/ ExtraDebit(s)
  \/ ChargeQuota(s) \/ OverCheck(s) \/ OverDebit(s) \/ Record(s)
  \/ ReleaseRefund(s) \/ ReleaseMark(s)

\* The host starts a call.
Begin(s) ==
  \E r \in Requests :
    \/ HoldBegin(s, r)
    \/ \E use \in Uses : ChargeBegin(s, r, use)
    \/ CompleteFailed(s, r)
    \/ BootRelease(s, r)

Next ==
  \/ \E s \in Slots : Step(s) \/ Begin(s)
  \/ \E r \in Requests : CompleteSucceeded(r)
  \/ Crash \/ Boot \/ BootDone \/ Edit \/ Tick

Spec == Init /\ [][Next]_vars

\* A call that has started is executed to its end; the host owes no call.
FairSpec == Spec /\ \A s \in Slots : WF_vars(Step(s))

\* The operator starts the process again after a crash, and Boot, a plain
\* sequence of statements, runs to its end.
BootSpec ==
  /\ FairSpec
  /\ WF_vars(Boot) /\ WF_vars(BootDone)
  /\ WF_vars(\E s \in Slots, r \in Requests : BootRelease(s, r))

-----------------------------------------------------------------------------

Call == [pc : {"idle"} \cup HoldPcs \cup ChargePcs \cup ReleasePcs,
         req : Requests \cup {NoReq}, use : Usage, used : Nat, unit : Nat,
         own : Sources, res : Requests \cup {NoReq}, amt : Nat, src : Sources, at : Nat]

\* A call in progress has a request, and one that refunds a reservation.
ProperCall == {c \in Call : /\ c.pc # "idle" => c.req \in Requests
                            /\ c.pc \in RefundPcs => c.res \in Requests}

ResvRow  == [status : {"none", "open", "settled", "released"}, hold : Nat,
             source : Sources, at : Nat]
UsageRow == [req : Requests, src : Sources, tokens : Nat, cost : Nat]
Host     == [stage : {"new", "running", "succeeded", "failed", "lost"},
             uses : 0..MaxUses]

\* The shapes of every table and slot.
TypeOK ==
  /\ WalletTypeOK
  /\ used \in [Keys -> Nat] /\ periodEnd \in [Keys -> Nat]
  /\ resv \in [Requests -> ResvRow]
  /\ usage \in Seq(UsageRow)
  /\ host \in [Requests -> Host]
  /\ call \in [Slots -> ProperCall]
  /\ phase \in {"up", "down", "booting"} /\ stale \subseteq Requests
  /\ now \in Nat /\ crashes \in 0..MaxCrashes /\ edits \in 0..MaxEdits
=============================================================================
