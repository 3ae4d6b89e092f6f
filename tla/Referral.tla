------------------------------ MODULE Referral ------------------------------
(***************************************************************************)
(* internal/referral on top of Recharge: what a recharge by the admin      *)
(* route sets off.  OnRecharge runs after AdjustBalance has committed, one *)
(* statement after the other, so rewards of two recharges interleave and   *)
(* the process may die between an earning and its credit.  The webhook     *)
(* pays no reward.  To the wallet a reward is the Credit of Recharge.      *)
(***************************************************************************)
EXTENDS Recharge, FiniteSetsExt

CONSTANTS NoUser,
          Slots,        \* host threads that run mgmtRecharge
          StartUpline,  \* who had invited whom at the start
          Newcomers,    \* users who may still arrive with a referral code
          Paid,         \* amounts the administrator recharges
          Tiers,        \* referral_tiers: percent of each tier, 1 is direct
          Fixed,        \* referral_fixed_credit
          Qualify,      \* referral_qualify_recharge
          MaxEdits, MaxCrashes      \* bounds: settings edited, restarts

Reward(amount, tier) == (amount * Tiers[tier]) \div 100

ASSUME ReferralAssumption ==
  /\ NoUser \notin Users /\ IsFiniteSet(Slots)
  /\ StartUpline \in [Users -> Users \cup {NoUser}] /\ Newcomers \subseteq Users
  /\ Paid \subseteq Amounts
  /\ Tiers \in Seq(Nat) /\ Fixed \in Nat /\ Qualify \in Nat
  /\ Fixed > 0 => Fixed \in Amounts
  /\ \A a \in Paid, i \in DOMAIN Tiers : Reward(a, i) \in Amounts \cup {0}
  /\ MaxEdits \in Nat /\ MaxCrashes \in Nat

VARIABLES upline,       \* users.referred_by
          earnings,     \* rows of referral_earnings, in insertion order
          payMode,      \* referral_mode
          call,         \* what each slot is executing
          edits, crashes

payVars      == <<upline, earnings, payMode, call>>
bounds       == <<edits, crashes>>
referralVars == <<vars, payVars, bounds>>

PayModes == {"percent", "fixed"}
Earning  == [user : Users, from : Users, tier : Nat \ {0}, mode : PayModes,
             base : Nat, reward : Nat \ {0}]
Idle     == [pc |-> "idle"]

ReferralInit ==
  /\ Init
  /\ upline = StartUpline /\ earnings = <<>>
  /\ payMode \in PayModes
  /\ call = [s \in Slots |-> Idle]
  /\ edits = 0 /\ crashes = 0

Step(s, pc) == call[s].pc = pc
Set(s, c)   == call' = [call EXCEPT ![s] = c]
InFlight    == {s \in Slots : ~Step(s, "idle")}

\* What the ledger says a user has recharged so far (up to row i).
RechargedBy(u, i) ==
  LET rows == {j \in 1..i : /\ ledger[j].user = u /\ ledger[j].reason = "recharge"
                            /\ ledger[j].delta > 0}
  IN SumFunction([j \in rows |-> ledger[j].delta])

-----------------------------------------------------------------------------

\* A recharge is entered by hand, or is the administrator's copy of a transaction.
Sources == {<<NoRef, "dashboard">>} \cup Txs \X {"telegram"}

\* attachReferral: the code of another user, written only into an empty column.
Attach(u, r) ==
  /\ r # u /\ upline[u] = NoUser
  /\ upline' = [upline EXCEPT ![u] = r]

\* handleTelegramLogin with a referral code creates u: nobody names it yet and
\* nothing has moved in its wallet.
TelegramLogin(u, r) ==
  /\ u \in Newcomers /\ RowsOf(u) = {} /\ \A v \in Users : upline[v] # u
  /\ Attach(u, r)
  /\ UNCHANGED <<vars, earnings, payMode, call, bounds>>

\* Faulty variant: a duplicate that AdjustBalance refused is rewarded too.
RechargePaysRefused(s, u, amount, ref, channel) ==
  /\ Step(s, "idle")
  /\ IF AdjustReply(u, amount, ref, channel) = "ok"
       THEN MgmtRecharge(u, amount, ref, channel) ELSE UNCHANGED vars
  /\ Set(s, [pc |-> "user", from |-> u, amount |-> amount])
  /\ UNCHANGED <<upline, earnings, payMode, bounds>>

\* mgmtRecharge with a positive amount: the wallet first, then OnRecharge.
RechargeAndPay(s, u, amount, ref, channel) ==
  /\ Step(s, "idle")
  /\ MgmtRecharge(u, amount, ref, channel)
  /\ Set(s, [pc |-> "user", from |-> u, amount |-> amount])
  /\ UNCHANGED <<upline, earnings, payMode, bounds>>

\* OnRecharge reads the user and the mode.
OnRecharge(s) ==
  LET c == call[s] IN
  /\ Step(s, "user")
  /\ Set(s, CASE upline[c.from] = NoUser -> Idle
              [] upline[c.from] # NoUser /\ payMode = "percent" ->
                   [pc |-> "tier", from |-> c.from, amount |-> c.amount, tier |-> 1,
                    to |-> upline[c.from], visited |-> {c.from}]
              [] OTHER -> [pc |-> "total", from |-> c.from, to |-> upline[c.from]])
  /\ UNCHANGED <<vars, upline, earnings, payMode, bounds>>

\* The next round of payPercent's loop (parentOf included).
Climb(c) == [pc |-> "tier", from |-> c.from, amount |-> c.amount,
             tier |-> c.tier + 1, to |-> upline[c.to],
             visited |-> c.visited \cup {c.to}]

Earn(user, c, tier, mode, base, reward) ==
  earnings' = Append(earnings, [user |-> user, from |-> c.from, tier |-> tier,
                                mode |-> mode, base |-> base, reward |-> reward])

\* One round of payPercent's loop: a tier that earns nothing is passed over.
PayTier(s) ==
  LET c     == call[s]
      ended == c.tier > Len(Tiers) \/ c.to = NoUser \/ c.to \in c.visited
  IN
  /\ Step(s, "tier")
  /\ \/ /\ ended
        /\ Set(s, Idle) /\ UNCHANGED earnings
     \/ /\ ~ended /\ Reward(c.amount, c.tier) = 0
        /\ Set(s, Climb(c)) /\ UNCHANGED earnings
     \/ /\ ~ended /\ Reward(c.amount, c.tier) > 0
        /\ Earn(c.to, c, c.tier, "percent", c.amount, Reward(c.amount, c.tier))
        /\ Set(s, [pc |-> "credit", to |-> c.to, reward |-> Reward(c.amount, c.tier),
                   then |-> Climb(c)])
  /\ UNCHANGED <<vars, upline, payMode, bounds>>

\* Faulty variant: the threshold has to be passed, not reached.
QualifiedAbove(u) == Qualify = 0 \/ RechargedBy(u, Len(ledger)) > Qualify

Qualified(u) == Qualify = 0 \/ RechargedBy(u, Len(ledger)) >= Qualify

\* payFixed sums the recharges of the invitee.
PayFixed(s) ==
  LET c == call[s] IN
  /\ Step(s, "total")
  /\ Set(s, IF Qualified(c.from) /\ Fixed > 0
              THEN [pc |-> "fixed", from |-> c.from, to |-> c.to] ELSE Idle)
  /\ UNCHANGED <<vars, upline, earnings, payMode, bounds>>

\* Faulty variant: the unique index is missing.
NeverRewarded(user, from) == FALSE

\* The partial unique index idx_ref_earn_fixed_once.
Rewarded(user, from) ==
  \E i \in DOMAIN earnings :
    earnings[i].mode = "fixed" /\ earnings[i].user = user /\ earnings[i].from = from

\* Faulty variant: the credit is given although the row was refused.
GrantFixedAnyway(s) ==
  LET c == call[s] IN
  /\ Step(s, "fixed")
  /\ IF Rewarded(c.to, c.from) THEN UNCHANGED earnings
                               ELSE Earn(c.to, c, 1, "fixed", 0, Fixed)
  /\ Set(s, [pc |-> "credit", to |-> c.to, reward |-> Fixed, then |-> Idle])
  /\ UNCHANGED <<vars, upline, payMode, bounds>>

\* grant in fixed mode: the row is refused when the pair was rewarded before.
GrantFixed(s) ==
  LET c == call[s] IN
  /\ Step(s, "fixed")
  /\ IF Rewarded(c.to, c.from)
       THEN Set(s, Idle) /\ UNCHANGED earnings
       ELSE /\ Earn(c.to, c, 1, "fixed", 0, Fixed)
            /\ Set(s, [pc |-> "credit", to |-> c.to, reward |-> Fixed, then |-> Idle])
  /\ UNCHANGED <<vars, upline, payMode, bounds>>

\* Faulty variant: the wallet is credited outside the ledger.
GrantUnledgered(s) ==
  LET c == call[s] IN
  /\ Step(s, "credit")
  /\ users' = [users EXCEPT ![c.to].balance = @ + c.reward]
  /\ Set(s, c.then)
  /\ UNCHANGED <<ledger, seen, upline, earnings, payMode, bounds>>

\* grant, the second half: the upline's wallet.
GrantCredit(s) ==
  LET c == call[s] IN
  /\ Step(s, "credit")
  /\ Credit(c.to, c.reward, "referral_bonus")
  /\ Set(s, c.then)
  /\ UNCHANGED <<upline, earnings, payMode, bounds>>

-----------------------------------------------------------------------------

\* mgmtPutReferralConfig.
SetReferralMode(m) ==
  /\ edits < MaxEdits /\ edits' = edits + 1
  /\ payMode' = m /\ payMode # m
  /\ UNCHANGED <<vars, upline, earnings, call, crashes>>

\* What Recharge does besides: the webhook, corrections by the administrator,
\* purchases.
Elsewhere ==
  /\ \/ \E t \in Txs : HandleWebhookRecharge(t)
     \/ \E u \in Users, a \in Paid : MgmtRecharge(u, -a, NoRef, "dashboard")
     \/ \E u \in Users, a \in Paid : Debit(u, a, "purchase")
  /\ UNCHANGED <<payVars, bounds>>

Crash ==
  /\ crashes < MaxCrashes /\ crashes' = crashes + 1
  /\ call' = [s \in Slots |-> Idle]
  /\ UNCHANGED <<vars, upline, earnings, payMode, edits>>

ReferralNext ==
  \/ \E u, r \in Users : TelegramLogin(u, r)
  \/ \E s \in Slots :
       \/ \E u \in Users, a \in Paid, source \in Sources :
            RechargeAndPay(s, u, a, source[1], source[2])
       \/ OnRecharge(s) \/ PayTier(s) \/ PayFixed(s) \/ GrantFixed(s) \/ GrantCredit(s)
  \/ \E m \in PayModes : SetReferralMode(m)
  \/ Elsewhere \/ Crash

ReferralSpec == ReferralInit /\ [][ReferralNext]_referralVars

-----------------------------------------------------------------------------

\* Shapes of the tables, and of the calls as far as a row depends on them.
ReferralTypeOK ==
  /\ TypeOK
  /\ upline \in [Users -> Users \cup {NoUser}] /\ payMode \in PayModes
  /\ earnings \in Seq(Earning)
  /\ \A s \in Slots : Step(s, "credit") => /\ call[s].to \in Users
                                          /\ call[s].reward \in Amounts

\* "one-time credit per qualified invite": however recharges of an invitee
\* overlap or are repeated, a pair of users has at most one fixed earning.
FixedOncePerPair ==
  \A i, j \in DOMAIN earnings :
    /\ earnings[i].mode = "fixed" /\ earnings[j].mode = "fixed"
    /\ earnings[i].user = earnings[j].user /\ earnings[i].from = earnings[j].from
    => i = j

\* What a wallet was given as referral bonus is what its earnings say, apart
\* from credits on their way and from those a crash swallowed.
EarningsReconcile ==
  \A u \in Users :
    LET earnedRows == {i \in DOMAIN earnings : earnings[i].user = u}
        givenRows  == {i \in RowsOf(u) : ledger[i].reason = "referral_bonus"}
        crediting  == {s \in Slots : Step(s, "credit") /\ call[s].to = u}
        earned == SumFunction([i \in earnedRows |-> earnings[i].reward])
        given  == SumFunction([i \in givenRows |-> ledger[i].delta])
        coming == SumFunction([s \in crediting |-> call[s].reward])
    IN /\ given + coming <= earned
       /\ crashes = 0 => given + coming = earned

\* "Rewards are only ever paid on REAL money recharged": a percent earning of a
\* tier has a committed recharge of the user it comes from, of its base amount,
\* that no other earning of the tier is paid for.
EarningsHaveRecharges ==
  \A i \in DOMAIN earnings : earnings[i].mode = "percent" =>
    LET same == {j \in DOMAIN earnings : earnings[j].mode = "percent" /\
                   \A f \in {"from", "tier", "base"} : earnings[j][f] = earnings[i][f]}
    IN Cardinality(same) <=
         Cardinality({j \in RowsOf(earnings[i].from) :
           ledger[j].reason = "recharge" /\ ledger[j].delta = earnings[i].base})

\* The reward of an invitee whose recharges reach the threshold is not missed,
\* however its recharges overlap: each sums what is committed when it comes to
\* pay, its own included.  (Settings left alone, no crash, calls finished.)
ThresholdPays ==
  InFlight = {} /\ edits = 0 /\ crashes = 0 /\ payMode = "fixed" /\ Fixed > 0 =>
    \A i \in DOMAIN ledger :
      LET u == ledger[i].user IN
      /\ ledger[i].channel = "dashboard" /\ ledger[i].delta > 0
      /\ upline[u] # NoUser /\ RechargedBy(u, i) >= Qualify
      => Rewarded(upline[u], u)

\* To the wallet, rewards are credits like any other: Recharge, with what it
\* promises, is implemented.
ImplementsRecharge == Spec
=============================================================================
