-------------------------- MODULE BillingAccounts ---------------------------
(***************************************************************************)
(* What the billing tables promise each other.  Three tables record the    *)
(* same money: the counters (keys.quota_used, users.balance), the          *)
(* reservations, and what was written about the past (usage_records,       *)
(* credit_ledger).  The properties reconcile them whenever no call of the  *)
(* key is half way.                                                        *)
(***************************************************************************)
EXTENDS Billing, FiniteSetsExt, Functions

Quiet(k) == InFlight(k) = {} /\ phase = "up"

-----------------------------------------------------------------------------
(* The wallet side.                                                        *)

LedgerRows(tag, r) == {i \in DOMAIN ledger : ledger[i].ref = <<tag, r>>}
Ledgered(tag, r)   == SumFunction([i \in LedgerRows(tag, r) |-> ledger[i].delta])

\* Each wallet hold in the ledger has its reservation row and the refunds that
\* row's status calls for: none while open, all of it when released, at most
\* the hold when settled (Hold, Settle and Release together).  A request that a
\* crash interrupted is the business of CrashLosesAtMost.
WalletHoldsReconcile ==
  \A r \in Requests : Quiet(KeyOf[r]) /\ host[r].stage # "lost" =>
    LET held     == -Ledgered("hold", r)
        returned == Ledgered("settle", r) + Ledgered("release", r)
        row      == resv[r]
    IN /\ held = IF row.source = "wallet" THEN row.hold ELSE 0
       /\ row.status = "open" => returned = 0
       /\ row.status = "released" => returned = held
       /\ returned <= held

\* What a crash may leave behind: a hold that was debited and never inserted, a
\* reservation refunded again because the first refund was not yet marked, a
\* usage debit that was not recorded.
Orphans ==
  {r \in Requests : /\ Ledgered("hold", r) # 0 /\ resv[r].status = "none"
                    /\ \A s \in Slots : call[s].req = r => call[s].pc # "hold_insert"}
Overpaid ==
  {r \in Requests : Ledgered("settle", r) + Ledgered("release", r) > -Ledgered("hold", r)}
Unrecorded ==
  Larger(0, Cardinality({i \in DOMAIN ledger : ledger[i].reason = "usage"})
            - Cardinality({i \in DOMAIN usage : usage[i].src = "wallet"})
            - Cardinality({s \in Slots : call[s].pc = "record" /\ call[s].src = "wallet"}))

\* Hold, Settle, Charge and Release leave money out of line only through a
\* crash, and a crash at most once for every call it interrupts: nothing that
\* Boot or a later call does makes it worse.
CrashLosesAtMost ==
  Cardinality(Orphans) + Cardinality(Overpaid) + Unrecorded
    <= crashes * Cardinality(Slots)

-----------------------------------------------------------------------------
(* The quota side.                                                         *)

Held(k) ==
  SumFunctionOnSet([r \in Requests |-> resv[r].hold],
                   {r \in OpenOf(k) : resv[r].source = "key_quota"})

\* The quota units the usage records of a key stand for.
BilledRows(k) ==
  {i \in DOMAIN usage : KeyOf[usage[i].req] = k /\ usage[i].src = "key_quota"}
Billed(k) ==
  CASE Plan[k].kind = "credit"    ->
         SumFunctionOnSet([i \in DOMAIN usage |-> usage[i].cost], BilledRows(k))
    [] Plan[k].kind = "token"     ->
         SumFunctionOnSet([i \in DOMAIN usage |-> usage[i].tokens], BilledRows(k))
    [] Plan[k].kind = "request"   -> Cardinality({usage[i].req : i \in BilledRows(k)})
    [] Plan[k].kind = "unlimited" -> 0

\* The counter of a key is what its open reservations hold plus what its billed
\* usage records spent; for a request key a client request counts once.
QuotaReconciles ==
  \A k \in Keys : Quiet(k) => used[k] = Held(k) + Billed(k)

\* Hold caps what it takes at what remains, and Charge takes an extra only when
\* it remains: a key never spends more than it was sold.
NeverOversold ==
  \A k \in Keys : Plan[k].kind # "unlimited" => used[k] <= Plan[k].amount

\* Rule 2: however many attempts a client request makes, a request key spends
\* at most one unit on it.
RequestCountedOnce ==
  \A k \in Keys : Plan[k].kind = "request" =>
    used[k] <= Cardinality({r \in Requests : KeyOf[r] = k /\ host[r].stage # "new"})

-----------------------------------------------------------------------------
(* Periods.                                                                *)

\* What was taken from a running period stays taken: the counter goes down only
\* by a refund, by the administrator's switch, or when the period it belongs to
\* is over (EnsurePeriod).
PeriodRunsOut ==
  [][\A k \in Keys : used'[k] < used[k] =>
       \/ periodEnd[k] = 0 \/ now >= periodEnd[k] \/ edits' # edits
       \/ \E s \in InFlight(k) : call[s].pc \in {"settle_refund", "release_refund"}
                                 /\ call'[s] # call[s]]_vars

-----------------------------------------------------------------------------
(* Hold, Settle and Release implement QuotaAccount.  Each of its steps is  *)
(* the statement that moves the counter; the INSERT or UPDATE of the row   *)
(* that follows catches up with what has been reserved or given back.      *)

\* The hold of r has reached the counter and not yet the table.
Reserving(r) ==
  {s \in Slots : /\ call[s].req = r /\ call[s].pc = "hold_insert"
                 /\ call[s].src = "key_quota" /\ call[s].amt > 0}

\* What a call has given back of the reservation r that is still marked open.
Returned(r) ==
  LET at(pc) == {s \in Slots : call[s].res = r /\ call[s].pc = pc} IN
  CASE at("settle_mark") # {} ->
         LET c == call[CHOOSE s \in at("settle_mark") : TRUE]
         IN Larger(0, c.amt - Actual(c))
    [] at("release_mark") # {} -> resv[r].hold
    [] OTHER -> 0

QuotaState(r) ==
  CASE Reserving(r) # {} -> "open"
    [] Reserving(r) = {} /\ resv[r].source # "key_quota" -> "none"
    [] Reserving(r) = {} /\ resv[r].source = "key_quota" ->
         IF resv[r].status = "open" THEN "open" ELSE "closed"

QuotaHeld(r) ==
  CASE Reserving(r) # {} -> call[CHOOSE s \in Reserving(r) : TRUE].amt
    [] Reserving(r) = {} /\ QuotaState(r) = "open" -> resv[r].hold - Returned(r)
    [] OTHER -> 0

Account == INSTANCE QuotaAccount WITH
  Limit     <- [k \in Keys |-> Plan[k].amount],
  committed <- used,
  held      <- [r \in Requests |-> QuotaHeld(r)],
  state     <- [r \in Requests |-> QuotaState(r)]

\* Statement by statement, the calls of a key do what QuotaAccount does in one
\* step, also when a period ends or the administrator resets the counter while
\* reservations are open: no reservation is closed twice, none gives back more
\* than it took, and nothing is committed beyond what was sold.
ImplementsAccount == Account!Spec

-----------------------------------------------------------------------------
(* Liveness, under the fairness of FairSpec and BootSpec.                  *)

\* A request that failed does not keep its hold (request.complete), unless the
\* process dies before the release is done.
FailedHoldFreed ==
  \A r \in Requests :
    host[r].stage = "failed"
      ~> resv[r].status # "open" \/ resv[r].hold = 0 \/ host[r].stage = "lost"

\* A reservation that was stale when the process went down is released once it
\* is back.
StaleHoldFreed ==
  \A r \in Requests :
    (/\ phase = "down" /\ resv[r].status = "open" /\ resv[r].hold > 0
     /\ resv[r].at < now - StaleAge)
      ~> resv[r].status # "open"

\* A debit never crosses the wallet's floor, although CanSpend was asked long
\* before and other calls spent in between.
FloorHolds == [][DebitsRespectFloor]_vars
=============================================================================
