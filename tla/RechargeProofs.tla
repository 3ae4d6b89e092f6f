--------------------------- MODULE RechargeProofs ---------------------------
(***************************************************************************)
(* The wallet invariants as theorems of the recharge specification, for    *)
(* any users, transactions, amounts and limits.  Each invariant is         *)
(* inductive given the types: rows are appended and never rewritten.       *)
(***************************************************************************)
EXTENDS Referral, WalletProofs, FiniteSetTheorems

IInv == TypeOK /\ WalletInv /\ AcceptedMeansCredited

\* The initial wallets are empty and so is the ledger.
LEMMA InitInv == Init => IInv
<1> SUFFICES ASSUME Init PROVE IInv
  OBVIOUS
<1>1. ledger = <<>> /\ DOMAIN ledger = {} /\ ledger \in Seq(LedgerRow)
  BY DEF Init, WalletInit
<1>2. users \in [Users -> WalletRow]
  BY DEF Init, WalletInit, WalletRow, Modes
<1>3. \A u \in Users : users[u].balance = 0
  BY DEF Init, WalletInit
<1>4. seen \in [Txs -> Answers]
  BY DEF Init, Answers
<1>5. AcceptedMeansCredited
  BY DEF Init, AcceptedMeansCredited
<1> QED
  BY <1>1, <1>2, <1>3, <1>4, <1>5
     DEF IInv, TypeOK, WalletTypeOK, LedgerExplainsBalance, TelegramRefOnce,
         WalletInv

\* Rows stay where they are, so what the bot was told stays true.
LEMMA AppendKeepsAccepted ==
  ASSUME AcceptedMeansCredited, WalletTypeOK,
         NEW u \in Users, NEW delta \in Int, NEW reason \in Reasons,
         NEW ref \in Refs \cup {NoRef}, NEW channel \in Channels,
         AdjustBalance(u, delta, reason, ref, channel),
         \A t \in Txs : seen'[t] = "ok" =>
           \/ seen[t] = "ok"
           \/ /\ t = ref /\ channel = "telegram"
              /\ u = Deposit[t].user /\ delta = Deposit[t].amount
  PROVE  AcceptedMeansCredited'
<1> DEFINE row == [user |-> u, delta |-> delta, reason |-> reason, ref |-> ref,
                   channel |-> channel, after |-> users[u].balance + delta]
<1>1. ledger' = Append(ledger, row) /\ ledger \in Seq(LedgerRow) /\ row \in LedgerRow
  BY DEF AdjustBalance, WalletTypeOK, LedgerRow, WalletRow
<1>2. /\ DOMAIN ledger = 1..Len(ledger) /\ DOMAIN ledger' = 1..(Len(ledger) + 1)
      /\ \A i \in 1..Len(ledger) : ledger'[i] = ledger[i]
      /\ ledger'[Len(ledger) + 1] = row /\ Len(ledger) \in Nat
  BY <1>1, AppendedRows
<1> QED
  BY <1>2 DEF AcceptedMeansCredited

\* Every step keeps the invariant and respects the floor.
LEMMA StepInv == IInv /\ [Next]_vars => IInv' /\ DebitsRespectFloor
<1> SUFFICES ASSUME IInv, [Next]_vars PROVE IInv' /\ DebitsRespectFloor
  OBVIOUS
<1> USE RechargeAssumption
<1>0. /\ users \in [Users -> WalletRow] /\ seen \in [Txs -> Answers]
      /\ WalletTypeOK /\ WalletInv /\ AcceptedMeansCredited
  BY DEF IInv, TypeOK, WalletTypeOK
<1>1. ASSUME NEW t \in Txs, HandleWebhookRecharge(t)
      PROVE  IInv' /\ DebitsRespectFloor
  <2> DEFINE good == /\ Deposit[t].amount > 0
                     /\ AdjustReply(Deposit[t].user, Deposit[t].amount, t,
                                    "telegram") = "ok"
  <2>1. seen' \in [Txs -> Answers]
    BY <1>0, <1>1 DEF HandleWebhookRecharge, Answers
  <2>2. CASE ~good
    <3>1. /\ UNCHANGED walletVars
          /\ \A q \in Txs : seen'[q] = "ok" => seen[q] = "ok"
      BY <1>0, <1>1, <2>2 DEF HandleWebhookRecharge
    <3>2. AcceptedMeansCredited'
      BY <1>0, <3>1 DEF AcceptedMeansCredited, walletVars
    <3> QED
      BY <1>0, <2>1, <3>1, <3>2, StillWallet DEF walletVars, IInv, TypeOK, WalletInv
  <2>3. CASE good
    <3>1. /\ Deposit[t].user \in Users /\ Deposit[t].amount \in Int
          /\ t \in Refs \cup {NoRef}
          /\ "recharge" \in Reasons /\ "telegram" \in Channels
      BY DEF Reasons, Channels
    <3>2. /\ AdjustBalance(Deposit[t].user, Deposit[t].amount, "recharge", t, "telegram")
          /\ \A q \in Txs : seen'[q] = "ok" => seen[q] = "ok" \/ q = t
      BY <1>0, <1>1, <2>3 DEF HandleWebhookRecharge
    <3>3. AcceptedMeansCredited'
      BY <1>0, <3>1, <3>2, AppendKeepsAccepted
    <3> QED
      BY <1>0, <2>1, <3>1, <3>2, <3>3, MoveKeepsWallet DEF IInv, TypeOK, WalletInv
  <2> QED
    BY <2>2, <2>3
<1>2. ASSUME NEW u \in Users, NEW delta \in Int, NEW reason \in Reasons,
             NEW ref \in Refs \cup {NoRef}, NEW channel \in Channels,
             AdjustBalance(u, delta, reason, ref, channel), UNCHANGED seen
      PROVE  IInv' /\ DebitsRespectFloor
  <2>1. AcceptedMeansCredited'
    BY <1>0, <1>2, AppendKeepsAccepted
  <2> QED
    BY <1>0, <1>2, <2>1, MoveKeepsWallet DEF IInv, TypeOK, WalletInv
<1>3. ASSUME NEW u \in Users, NEW a \in Amounts, NEW sign \in {1, -1},
             NEW r \in Txs \cup {NoRef}, NEW c \in {"dashboard", "telegram"},
             MgmtRecharge(u, sign * a, r, c)
      PROVE  IInv' /\ DebitsRespectFloor
  <2>1. /\ sign * a \in Int /\ r \in Refs \cup {NoRef}
        /\ "recharge" \in Reasons /\ c \in Channels
    BY DEF Reasons, Channels
  <2> QED
    BY <1>2, <1>3, <2>1 DEF MgmtRecharge
<1>4. ASSUME NEW u \in Users, NEW a \in Amounts \cup {0}, Debit(u, a, "purchase")
      PROVE  IInv' /\ DebitsRespectFloor
  <2>1. -a \in Int /\ "purchase" \in Reasons /\ "system" \in Channels
    BY DEF Reasons, Channels
  <2> QED
    BY <1>2, <1>4, <2>1 DEF Debit
<1>5. ASSUME NEW u \in Users, NEW a \in Amounts,
             NEW reason \in {"refund", "referral_bonus"}, Credit(u, a, reason)
      PROVE  IInv' /\ DebitsRespectFloor
  <2>1. a \in Int /\ reason \in Reasons /\ "system" \in Channels
    BY DEF Reasons, Channels
  <2> QED
    BY <1>2, <1>5, <2>1 DEF Credit
<1>6. ASSUME UNCHANGED <<ledger, seen>>, users' \in [Users -> WalletRow],
             \A v \in Users : users'[v].balance = users[v].balance
      PROVE  IInv' /\ DebitsRespectFloor
  <2>1. AcceptedMeansCredited'
    BY <1>0, <1>6 DEF AcceptedMeansCredited
  <2> QED
    BY <1>0, <1>6, <2>1, StillWallet DEF IInv, TypeOK, WalletInv
<1>7. ASSUME NEW u \in Users, NEW m \in Modes, SetMode(u, m)
      PROVE  IInv' /\ DebitsRespectFloor
  BY <1>0, <1>6, <1>7 DEF SetMode, UpdateMode, WalletRow
<1>8. ASSUME NEW u \in Users, NEW l \in Limits, SetLimit(u, l)
      PROVE  IInv' /\ DebitsRespectFloor
  BY <1>0, <1>6, <1>8 DEF SetLimit, UpdateLimit, WalletRow
<1>9. CASE UNCHANGED vars
  BY <1>0, <1>6, <1>9 DEF vars
<1> QED
  BY <1>1, <1>3, <1>4, <1>5, <1>7, <1>8, <1>9 DEF Next

-----------------------------------------------------------------------------

\* The tables keep their shapes: mode and limit changes, replays and lost
\* answers included (all of Recharge).
THEOREM TypeCorrect == Spec => []TypeOK
  BY InitInv, StepInv, PTL DEF Spec, IInv, WalletInv

\* Every balance is explained row by row by the ledger, whatever the order of
\* recharges, webhook replays, purchases and refunds (AdjustBalance).
THEOREM BooksBalance == Spec => []LedgerExplainsBalance
  BY InitInv, StepInv, PTL DEF Spec, IInv, WalletInv

\* A telegram transaction is credited at most once, across users and across
\* the two routes that can carry its id (idx_ledger_tx).
THEOREM TelegramOnce == Spec => []TelegramRefOnce
  BY InitInv, StepInv, PTL DEF Spec, IInv, WalletInv

\* A transaction answered with 200 is in the ledger, for its user and amount,
\* whatever is replayed, lost or moved in between (handleWebhookRecharge).
THEOREM AcceptedIsCredited == Spec => []AcceptedMeansCredited
  BY InitInv, StepInv, PTL DEF Spec, IInv

\* No debit ends below the floor in force, however mode and limit move
\* between the debits (AdjustBalance).
THEOREM FloorNeverCrossed == Spec => FloorHolds
  BY InitInv, StepInv, PTL DEF Spec, FloorHolds

-----------------------------------------------------------------------------
(***************************************************************************)
(* For any users, chains of invitations, tiers and settings: rewards are   *)
(* moves Recharge already knows, so every theorem above holds              *)
(* with referral switched on, and a pair is rewarded once.  The first      *)
(* needs to know what a call carries when it comes to credit: an upline    *)
(* that exists and a reward that is positive.                              *)
(***************************************************************************)
UserCalls   == [pc : {"user"}, from : Users, amount : Paid]
TierCalls   == [pc : {"tier"}, from : Users, amount : Paid, tier : Nat \ {0},
                to : Users \cup {NoUser}, visited : SUBSET Users]
TotalCalls  == [pc : {"total"}, from : Users, to : Users]
FixedCalls  == [pc : {"fixed"}, from : Users, to : Users]
CreditCalls == [pc : {"credit"}, to : Users, reward : Amounts,
                then : {Idle} \cup TierCalls]
Calls       == {Idle} \cup UserCalls \cup TierCalls \cup TotalCalls
                \cup FixedCalls \cup CreditCalls

\* The strengthening: every call has the shape of its pc, and one that is about
\* to grant a fixed reward has one to grant.
Chains ==
  /\ upline \in [Users -> Users \cup {NoUser}] /\ payMode \in PayModes
  /\ earnings \in Seq(Earning)
  /\ call \in [Slots -> Calls]
  /\ \A s \in Slots : Step(s, "fixed") => Fixed > 0

RInv == IInv /\ Chains /\ FixedOncePerPair

\* A call is what its pc says (OnRecharge, payPercent, payFixed, grant).
LEMMA Shape ==
  ASSUME NEW c \in Calls
  PROVE  /\ c.pc = "user"   => c \in UserCalls
         /\ c.pc = "tier"   => c \in TierCalls
         /\ c.pc = "total"  => c \in TotalCalls
         /\ c.pc = "fixed"  => c \in FixedCalls
         /\ c.pc = "credit" => c \in CreditCalls
<1>1. CASE c = Idle
  BY <1>1 DEF Idle
<1>2. CASE c \in UserCalls
  BY <1>2 DEF UserCalls
<1>3. CASE c \in TierCalls
  BY <1>3 DEF TierCalls
<1>4. CASE c \in TotalCalls
  BY <1>4 DEF TotalCalls
<1>5. CASE c \in FixedCalls
  BY <1>5 DEF FixedCalls
<1>6. CASE c \in CreditCalls
  BY <1>6 DEF CreditCalls
<1> QED
  BY <1>1, <1>2, <1>3, <1>4, <1>5, <1>6 DEF Calls

\* The next round of the climb is a round of the climb (parentOf).
LEMMA ClimbIsTier ==
  ASSUME NEW c \in TierCalls, c.to \in Users,
         upline \in [Users -> Users \cup {NoUser}]
  PROVE  Climb(c) \in TierCalls
  BY DEF Climb, TierCalls

\* A reward that is paid is a move Recharge allows (payPercent).
LEMMA TierReward ==
  ASSUME NEW c \in TierCalls, c.tier <= Len(Tiers), Reward(c.amount, c.tier) > 0
  PROVE  Reward(c.amount, c.tier) \in Amounts
<1>1. Tiers \in Seq(Nat) /\ c.tier \in Nat \ {0} /\ c.amount \in Paid
  BY ReferralAssumption DEF TierCalls
<1>2. c.tier \in DOMAIN Tiers
  BY <1>1
<1>3. Reward(c.amount, c.tier) \in Amounts \cup {0}
  BY <1>1, <1>2, ReferralAssumption
<1> QED
  BY <1>3

\* A slot moves on, everything else stays (the statements of one call).
LEMMA SetKeepsCalls ==
  ASSUME Chains, NEW s \in Slots, NEW c \in Calls, Set(s, c),
         c.pc = "fixed" => Fixed > 0
  PROVE  /\ call' \in [Slots -> Calls]
         /\ \A q \in Slots : Step(q, "fixed")' => Fixed > 0
<1>1. call' = [call EXCEPT ![s] = c] /\ call \in [Slots -> Calls]
  BY DEF Chains, Set
<1>2. \A q \in Slots : call'[q] = IF q = s THEN c ELSE call[q]
  BY <1>1
<1>3. ASSUME NEW q \in Slots, Step(q, "fixed")' PROVE Fixed > 0
  <2>1. CASE q = s
    BY <1>2, <1>3, <2>1 DEF Step
  <2>2. CASE q # s
    BY <1>2, <1>3, <2>2 DEF Step, Chains
  <2> QED
    BY <2>1, <2>2
<1> QED
  BY <1>1, <1>3

\* A row of referral_earnings, refused when it is the second of its pair (grant).
LEMMA EarnKeepsOnce ==
  ASSUME Chains, FixedOncePerPair,
         NEW user \in Users, NEW c, c.from \in Users, NEW tier \in Nat \ {0},
         NEW mode \in PayModes, NEW base \in Nat, NEW reward \in Nat \ {0},
         mode = "fixed" => ~Rewarded(user, c.from),
         Earn(user, c, tier, mode, base, reward)
  PROVE  earnings' \in Seq(Earning) /\ FixedOncePerPair'
<1> DEFINE row == [user |-> user, from |-> c.from, tier |-> tier, mode |-> mode,
                   base |-> base, reward |-> reward]
<1>1. /\ earnings' = Append(earnings, row) /\ row \in Earning
      /\ earnings \in Seq(Earning)
  BY DEF Earn, Earning, Chains
<1>2. /\ earnings' \in Seq(Earning) /\ Len(earnings) \in Nat
      /\ DOMAIN earnings = 1..Len(earnings)
      /\ DOMAIN earnings' = 1..(Len(earnings) + 1)
      /\ \A i \in 1..Len(earnings) : earnings'[i] = earnings[i]
      /\ earnings'[Len(earnings) + 1] = row
  BY <1>1, AppendedRows
<1>3. ASSUME NEW i \in DOMAIN earnings', NEW j \in DOMAIN earnings',
             earnings'[i].mode = "fixed", earnings'[j].mode = "fixed",
             earnings'[i].user = earnings'[j].user,
             earnings'[i].from = earnings'[j].from, i < j
      PROVE  FALSE
  <2>1. i \in 1..Len(earnings) /\ earnings'[i] = earnings[i]
    BY <1>2, <1>3
  <2>2. CASE j \in 1..Len(earnings)
    BY <1>2, <1>3, <2>1, <2>2 DEF FixedOncePerPair
  <2>3. CASE j = Len(earnings) + 1
    BY <1>2, <1>3, <2>1, <2>3 DEF Rewarded
  <2> QED
    BY <1>2, <2>2, <2>3
<1>4. FixedOncePerPair'
  <2>1. \A i, j \in DOMAIN earnings' : i = j \/ i < j \/ j < i
    BY <1>2
  <2> QED
    BY <1>3, <2>1 DEF FixedOncePerPair
<1> QED
  BY <1>2, <1>4

\* Every step is a step of Recharge or leaves its tables alone, and keeps the
\* shapes of the calls and the pairs.
LEMMA ReferralStep == RInv /\ [ReferralNext]_referralVars => RInv' /\ [Next]_vars
<1> SUFFICES ASSUME RInv, [ReferralNext]_referralVars
             PROVE  Chains' /\ FixedOncePerPair' /\ [Next]_vars
  BY StepInv DEF RInv
<1> USE ReferralAssumption, RechargeAssumption
<1>0. /\ Chains /\ FixedOncePerPair
      /\ upline \in [Users -> Users \cup {NoUser}] /\ call \in [Slots -> Calls]
  BY DEF RInv, Chains
<1> DEFINE Goal == Chains' /\ FixedOncePerPair' /\ [Next]_vars
<1>a. ASSUME UNCHANGED <<upline, payMode, earnings>>, call' \in [Slots -> Calls],
             \A q \in Slots : Step(q, "fixed")' => Fixed > 0
      PROVE  Chains' /\ FixedOncePerPair'
  BY <1>0, <1>a DEF Chains, FixedOncePerPair
<1>b. ASSUME UNCHANGED call
      PROVE  call' \in [Slots -> Calls] /\ \A q \in Slots : Step(q, "fixed")' => Fixed > 0
  BY <1>0, <1>b DEF Chains, Step
<1>1. ASSUME NEW u \in Users, NEW r \in Users, TelegramLogin(u, r) PROVE Goal
  <2>1. /\ upline' \in [Users -> Users \cup {NoUser}]
        /\ UNCHANGED <<vars, payMode, earnings, call>>
    BY <1>0, <1>1 DEF TelegramLogin, Attach, payVars
  <2> QED
    BY <1>0, <1>b, <2>1 DEF Chains, FixedOncePerPair
<1>2. ASSUME NEW s \in Slots, NEW u \in Users, NEW a \in Paid, NEW source \in Sources,
             RechargeAndPay(s, u, a, source[1], source[2])
      PROVE  Goal
  <2> DEFINE c == [pc |-> "user", from |-> u, amount |-> a]
  <2>1. c \in Calls /\ Set(s, c) /\ c.pc # "fixed"
    BY <1>2 DEF RechargeAndPay, Calls, UserCalls
  <2>2. /\ a \in Amounts /\ a = 1 * a
        /\ source[1] \in Txs \cup {NoRef} /\ source[2] \in {"dashboard", "telegram"}
    BY DEF Sources
  <2>3. MgmtRecharge(u, 1 * a, source[1], source[2])
    BY <1>2, <2>2 DEF RechargeAndPay
  <2>4. Next
    BY <2>2, <2>3 DEF Next
  <2> QED
    BY <1>0, <1>2, <1>a, <2>1, <2>4, SetKeepsCalls DEF RechargeAndPay
<1>3. ASSUME NEW s \in Slots, OnRecharge(s) PROVE Goal
  <2> DEFINE c == call[s]
  <2>1. c \in UserCalls /\ UNCHANGED <<vars, upline, payMode, earnings>>
    BY <1>0, <1>3, Shape DEF OnRecharge, Step
  <2>2. CASE upline[c.from] = NoUser
    <3>1. Set(s, Idle) /\ Idle \in Calls /\ Idle.pc # "fixed"
      BY <1>3, <2>2 DEF OnRecharge, Calls, Idle
    <3> QED
      BY <1>0, <1>a, <2>1, <3>1, SetKeepsCalls
  <2>3. CASE upline[c.from] # NoUser /\ payMode = "percent"
    <3> DEFINE d == [pc |-> "tier", from |-> c.from, amount |-> c.amount, tier |-> 1,
                     to |-> upline[c.from], visited |-> {c.from}]
    <3>1. Set(s, d)
      BY <1>3, <2>3 DEF OnRecharge
    <3>2. d \in Calls /\ d.pc # "fixed"
      BY <1>0, <2>1 DEF Calls, TierCalls, UserCalls
    <3> QED
      BY <1>0, <1>a, <2>1, <3>1, <3>2, SetKeepsCalls
  <2>4. CASE upline[c.from] # NoUser /\ payMode # "percent"
    <3> DEFINE d == [pc |-> "total", from |-> c.from, to |-> upline[c.from]]
    <3>1. Set(s, d)
      BY <1>3, <2>4 DEF OnRecharge
    <3>2. d \in Calls /\ d.pc # "fixed"
      BY <1>0, <2>1, <2>4 DEF Calls, TotalCalls, UserCalls
    <3> QED
      BY <1>0, <1>a, <2>1, <3>1, <3>2, SetKeepsCalls
  <2> QED
    BY <2>2, <2>3, <2>4
<1>4. ASSUME NEW s \in Slots, PayTier(s) PROVE Goal
  <2> DEFINE c     == call[s]
             ended == c.tier > Len(Tiers) \/ c.to = NoUser \/ c.to \in c.visited
             d     == [pc |-> "credit", to |-> c.to, reward |-> Reward(c.amount, c.tier),
                       then |-> Climb(c)]
  <2>1. c \in TierCalls /\ UNCHANGED <<vars, upline, payMode>>
    BY <1>0, <1>4, Shape DEF PayTier, Step
  <2>2. CASE ended
    <3>1. Set(s, Idle) /\ UNCHANGED earnings /\ Idle \in Calls /\ Idle.pc # "fixed"
      BY <1>4, <2>2 DEF PayTier, Calls, Idle
    <3> QED
      BY <1>0, <1>a, <2>1, <3>1, SetKeepsCalls
  <2>3. ASSUME ~ended PROVE c.to \in Users /\ Climb(c) \in TierCalls /\ Climb(c).pc # "fixed"
    <3>1. c.to \in Users
      BY <2>1, <2>3 DEF TierCalls
    <3> QED
      BY <1>0, <2>1, <3>1, ClimbIsTier DEF TierCalls
  <2>4. CASE ~ended /\ Reward(c.amount, c.tier) = 0
    <3>1. Set(s, Climb(c)) /\ UNCHANGED earnings
      BY <1>4, <2>4 DEF PayTier
    <3> QED
      BY <1>0, <1>a, <2>1, <2>3, <2>4, <3>1, SetKeepsCalls DEF Calls
  <2>5. CASE ~ended /\ Reward(c.amount, c.tier) > 0
    <3>1. /\ Earn(c.to, c, c.tier, "percent", c.amount, Reward(c.amount, c.tier))
          /\ Set(s, d)
      BY <1>4, <2>5 DEF PayTier
    <3>2. /\ Reward(c.amount, c.tier) \in Amounts /\ Reward(c.amount, c.tier) \in Nat \ {0}
          /\ c.tier \in Nat \ {0} /\ c.amount \in Nat /\ c.from \in Users
      <4>1. ~(c.tier > Len(Tiers)) /\ c.tier \in Nat \ {0} /\ Len(Tiers) \in Nat
        BY <2>1, <2>5 DEF TierCalls
      <4>2. Reward(c.amount, c.tier) \in Amounts
        BY <2>1, <2>5, <4>1, TierReward
      <4> QED
        BY <2>1, <4>1, <4>2 DEF TierCalls
    <3>3. d \in Calls /\ d.pc # "fixed"
      BY <2>3, <2>5, <3>2 DEF Calls, CreditCalls
    <3>4. call' \in [Slots -> Calls] /\ \A q \in Slots : Step(q, "fixed")' => Fixed > 0
      BY <1>0, <3>1, <3>3, SetKeepsCalls
    <3>5. earnings' \in Seq(Earning) /\ FixedOncePerPair'
      BY <1>0, <2>3, <2>5, <3>1, <3>2, EarnKeepsOnce DEF PayModes
    <3> QED
      BY <1>0, <2>1, <3>4, <3>5 DEF Chains
  <2>6. ended \/ Reward(c.amount, c.tier) = 0 \/ Reward(c.amount, c.tier) > 0
    BY <1>4 DEF PayTier
  <2> QED
    BY <2>2, <2>4, <2>5, <2>6
<1>5. ASSUME NEW s \in Slots, PayFixed(s) PROVE Goal
  <2> DEFINE c == call[s]
             d == [pc |-> "fixed", from |-> c.from, to |-> c.to]
  <2>1. c \in TotalCalls /\ UNCHANGED <<vars, upline, payMode, earnings>>
    BY <1>0, <1>5, Shape DEF PayFixed, Step
  <2>2. CASE Qualified(c.from) /\ Fixed > 0
    <3>1. Set(s, d)
      BY <1>5, <2>2 DEF PayFixed
    <3>2. d \in Calls
      BY <2>1 DEF Calls, FixedCalls, TotalCalls
    <3> QED
      BY <1>0, <1>a, <2>1, <2>2, <3>1, <3>2, SetKeepsCalls
  <2>3. CASE ~(Qualified(c.from) /\ Fixed > 0)
    <3>1. Set(s, Idle) /\ Idle \in Calls /\ Idle.pc # "fixed"
      BY <1>5, <2>3 DEF PayFixed, Calls, Idle
    <3> QED
      BY <1>0, <1>a, <2>1, <3>1, SetKeepsCalls
  <2> QED
    BY <2>2, <2>3
<1>6. ASSUME NEW s \in Slots, GrantFixed(s) PROVE Goal
  <2> DEFINE c == call[s]
             d == [pc |-> "credit", to |-> c.to, reward |-> Fixed, then |-> Idle]
  <2>1. c \in FixedCalls /\ UNCHANGED <<vars, upline, payMode>> /\ Fixed > 0
    BY <1>0, <1>6, Shape DEF GrantFixed, Step, Chains
  <2>2. CASE Rewarded(c.to, c.from)
    <3>1. Set(s, Idle) /\ UNCHANGED earnings /\ Idle \in Calls /\ Idle.pc # "fixed"
      BY <1>6, <2>2 DEF GrantFixed, Calls, Idle
    <3> QED
      BY <1>0, <1>a, <2>1, <3>1, SetKeepsCalls
  <2>3. CASE ~Rewarded(c.to, c.from)
    <3>1. Earn(c.to, c, 1, "fixed", 0, Fixed) /\ Set(s, d)
      BY <1>6, <2>3 DEF GrantFixed
    <3>2. /\ c.to \in Users /\ c.from \in Users /\ Fixed \in Amounts
          /\ Fixed \in Nat \ {0} /\ 1 \in Nat \ {0} /\ 0 \in Nat
      BY <2>1 DEF FixedCalls
    <3>3. d \in Calls /\ d.pc # "fixed"
      BY <3>2 DEF Calls, CreditCalls
    <3>4. call' \in [Slots -> Calls] /\ \A q \in Slots : Step(q, "fixed")' => Fixed > 0
      BY <1>0, <3>1, <3>3, SetKeepsCalls
    <3>5. earnings' \in Seq(Earning) /\ FixedOncePerPair'
      BY <1>0, <2>3, <3>1, <3>2, EarnKeepsOnce DEF PayModes
    <3> QED
      BY <1>0, <2>1, <3>4, <3>5 DEF Chains
  <2> QED
    BY <2>2, <2>3
<1>7. ASSUME NEW s \in Slots, GrantCredit(s) PROVE Goal
  <2> DEFINE c == call[s]
  <2>1. c \in CreditCalls /\ UNCHANGED <<upline, payMode, earnings>> /\ Set(s, c.then)
    BY <1>0, <1>7, Shape DEF GrantCredit, Step
  <2>2. c.then \in Calls /\ c.then.pc # "fixed"
    BY <2>1 DEF Calls, CreditCalls, TierCalls, Idle
  <2>3. Credit(c.to, c.reward, "referral_bonus") /\ c.to \in Users /\ c.reward \in Amounts
    BY <1>7, <2>1 DEF GrantCredit, CreditCalls
  <2>4. Next
    BY <2>3 DEF Next
  <2> QED
    BY <1>0, <1>a, <2>1, <2>2, <2>4, SetKeepsCalls
<1>8. ASSUME NEW m \in PayModes, SetReferralMode(m) PROVE Goal
  BY <1>0, <1>8, <1>b DEF SetReferralMode, Chains, FixedOncePerPair
<1>9. CASE Elsewhere
  <2>1. UNCHANGED <<upline, payMode, earnings, call>>
    BY <1>9 DEF Elsewhere, payVars
  <2>2. Next
    <3>1. CASE \E t \in Txs : HandleWebhookRecharge(t)
      BY <3>1 DEF Next
    <3>2. ASSUME NEW u \in Users, NEW a \in Paid, MgmtRecharge(u, -a, NoRef, "dashboard")
          PROVE  Next
      <4>1. a \in Amounts /\ -a = (-1) * a /\ -1 \in {1, -1}
        OBVIOUS
      <4>2. MgmtRecharge(u, (-1) * a, NoRef, "dashboard")
        BY <3>2, <4>1
      <4> QED
        BY <4>1, <4>2, Zenon DEF Next
    <3>3. ASSUME NEW u \in Users, NEW a \in Paid, Debit(u, a, "purchase") PROVE Next
      BY <3>3 DEF Next
    <3> QED
      BY <1>9, <3>1, <3>2, <3>3 DEF Elsewhere
  <2> QED
    BY <1>a, <1>b, <2>1, <2>2
<1>10. CASE Crash
  <2>1. /\ call' \in [Slots -> Calls] /\ UNCHANGED <<vars, upline, payMode, earnings>>
        /\ \A q \in Slots : ~Step(q, "fixed")'
    BY <1>10 DEF Crash, Calls, Step, Idle
  <2> QED
    BY <1>a, <2>1
<1>11. CASE UNCHANGED referralVars
  <2>1. UNCHANGED <<vars, upline, payMode, earnings, call>>
    BY <1>11 DEF referralVars, payVars
  <2> QED
    BY <1>a, <1>b, <2>1
<1> QED
  BY <1>1, <1>2, <1>3, <1>4, <1>5, <1>6, <1>7, <1>8, <1>9, <1>10, <1>11 DEF ReferralNext

\* Nobody has been rewarded and no call is under way at the start.
LEMMA ReferralStart == ReferralInit => RInv /\ Init
<1> SUFFICES ASSUME ReferralInit PROVE Chains /\ FixedOncePerPair
  BY InitInv DEF RInv, ReferralInit
<1>1. earnings = <<>> /\ DOMAIN earnings = {} /\ earnings \in Seq(Earning)
  BY DEF ReferralInit
<1>2. call \in [Slots -> Calls] /\ \A s \in Slots : ~Step(s, "fixed")
  BY DEF ReferralInit, Calls, Step, Idle
<1>3. upline \in [Users -> Users \cup {NoUser}] /\ payMode \in PayModes
  BY ReferralAssumption DEF ReferralInit
<1> QED
  BY <1>1, <1>2, <1>3 DEF Chains, FixedOncePerPair

\* The invariant says what the type invariant of the runs says.
LEMMA InvImplies == RInv => ReferralTypeOK
<1> SUFFICES ASSUME RInv PROVE ReferralTypeOK
  OBVIOUS
<1>1. ASSUME NEW s \in Slots, Step(s, "credit")
      PROVE  call[s].to \in Users /\ call[s].reward \in Amounts
  <2>1. call[s] \in CreditCalls
    BY <1>1, Shape DEF RInv, Chains, Step
  <2> QED
    BY <2>1 DEF CreditCalls
<1> QED
  BY <1>1 DEF RInv, IInv, Chains, ReferralTypeOK

-----------------------------------------------------------------------------

\* The tables of referral keep their shapes, and a reward on its way has a
\* wallet to go to, whatever calls overlap and wherever the process dies.
THEOREM ReferralTypeCorrect == ReferralSpec => []ReferralTypeOK
  BY ReferralStart, ReferralStep, InvImplies, PTL DEF ReferralSpec

\* One fixed reward per pair of users, however recharges of the invitee overlap
\* (grant, idx_ref_earn_fixed_once).
THEOREM RewardedOnce == ReferralSpec => []FixedOncePerPair
  BY ReferralStart, ReferralStep, PTL DEF ReferralSpec, RInv

\* Referral implements Recharge: rewards add nothing the wallet could not see
\* before (OnRecharge reaches the wallet through AdjustBalance only).
THEOREM RewardsAreRecharges == ReferralSpec => ImplementsRecharge
  BY ReferralStart, ReferralStep, PTL DEF ReferralSpec, ImplementsRecharge, Spec

\* So, with referral on and through a crash, the ledger explains every balance ...
THEOREM ReferralBooksBalance == ReferralSpec => []LedgerExplainsBalance
  BY RewardsAreRecharges, BooksBalance DEF ImplementsRecharge

\* ... and no debit crosses the floor.
THEOREM ReferralFloorNeverCrossed == ReferralSpec => FloorHolds
  BY RewardsAreRecharges, FloorNeverCrossed DEF ImplementsRecharge

-----------------------------------------------------------------------------
(***************************************************************************)
(* Rewards are paid on money that was recharged.  At most one slot for     *)
(* each recharge can still write a given earning, so the invariant counts  *)
(* what was earned together with what may still be.                        *)
(***************************************************************************)

\* Call c may still write an earning of tier t for a recharge of b by u.
Pays(c, u, t, b) ==
  \/ c.pc = "user" /\ c.from = u /\ c.amount = b
  \/ c.pc = "tier" /\ c.from = u /\ c.amount = b /\ c.tier <= t
  \/ /\ c.pc = "credit" /\ c.then.pc = "tier"
     /\ c.then.from = u /\ c.then.amount = b /\ c.then.tier <= t

MayEarn(calls, u, t, b) == {s \in Slots : Pays(calls[s], u, t, b)}

PercentRows(es, u, t, b) ==
  {i \in DOMAIN es : /\ es[i].mode = "percent" /\ es[i].from = u
                     /\ es[i].tier = t /\ es[i].base = b}

RechargeRows(rows, u, b) ==
  {i \in DOMAIN rows : /\ rows[i].user = u /\ rows[i].reason = "recharge"
                       /\ rows[i].delta = b}

Covered ==
  \A u \in Users, t \in Nat \ {0}, b \in Nat :
    Cardinality(PercentRows(earnings, u, t, b)) + Cardinality(MayEarn(call, u, t, b))
      <= Cardinality(RechargeRows(ledger, u, b))

\* The rows of a table that were selected are finitely many.
LEMMA FiniteRows ==
  ASSUME NEW T, NEW rows \in Seq(T), NEW S \in SUBSET DOMAIN rows
  PROVE  IsFiniteSet(S) /\ Cardinality(S) \in Nat
<1>1. IsFiniteSet(1..Len(rows)) /\ DOMAIN rows = 1..Len(rows)
  BY FS_Interval
<1>2. IsFiniteSet(S)
  BY <1>1, FS_Subset
<1> QED
  BY <1>2, FS_CardinalityType

\* What may still be earned is counted over the slots.
LEMMA FiniteSlots ==
  ASSUME NEW S \in SUBSET Slots
  PROVE  IsFiniteSet(S) /\ Cardinality(S) \in Nat
<1>1. IsFiniteSet(S)
  BY ReferralAssumption, FS_Subset
<1> QED
  BY <1>1, FS_CardinalityType

\* A row that is appended adds at most itself, and itself when it is selected.
LEMMA AppendedRecharge ==
  ASSUME NEW T, NEW rows \in Seq(T), NEW row \in T, NEW u, NEW b
  PROVE  LET old == RechargeRows(rows, u, b)
             new == RechargeRows(Append(rows, row), u, b)
         IN /\ Cardinality(old) \in Nat /\ Cardinality(new) \in Nat
            /\ Cardinality(old) <= Cardinality(new)
            /\ row.user = u /\ row.reason = "recharge" /\ row.delta = b
                 => Cardinality(new) = Cardinality(old) + 1
<1> DEFINE old == RechargeRows(rows, u, b)
           new == RechargeRows(Append(rows, row), u, b)
           k   == Len(rows) + 1
<1>1. /\ Append(rows, row) \in Seq(T) /\ k \notin DOMAIN rows
      /\ DOMAIN rows = 1..Len(rows) /\ Len(rows) \in Nat
      /\ DOMAIN Append(rows, row) = 1..k
      /\ \A i \in 1..Len(rows) : Append(rows, row)[i] = rows[i]
      /\ Append(rows, row)[k] = row
  BY AppendedRows
<1>2. old \in SUBSET DOMAIN rows /\ new \in SUBSET DOMAIN Append(rows, row)
  BY DEF RechargeRows
<1>3. IsFiniteSet(old) /\ Cardinality(old) \in Nat
  BY <1>2, FiniteRows
<1>4. IsFiniteSet(new) /\ Cardinality(new) \in Nat
  BY <1>1, <1>2, FiniteRows
<1>5. old \subseteq new
  BY <1>1 DEF RechargeRows
<1>6. Cardinality(old) <= Cardinality(new)
  BY <1>4, <1>5, FS_Subset
<1>7. ASSUME row.user = u, row.reason = "recharge", row.delta = b
      PROVE  Cardinality(new) = Cardinality(old) + 1
  <2>1. new = old \cup {k} /\ k \notin old
    BY <1>1, <1>7 DEF RechargeRows
  <2> HIDE DEF old, new, k
  <2> QED
    BY <1>3, <2>1, FS_AddElement
<1> QED
  BY <1>3, <1>4, <1>6, <1>7

\* The same of referral_earnings; a row of another kind adds nothing.
LEMMA AppendedEarning ==
  ASSUME NEW T, NEW es \in Seq(T), NEW e \in T, NEW u, NEW t, NEW b
  PROVE  LET old == PercentRows(es, u, t, b)
             new == PercentRows(Append(es, e), u, t, b)
         IN /\ Cardinality(old) \in Nat
            /\ IF e.mode = "percent" /\ e.from = u /\ e.tier = t /\ e.base = b
                 THEN Cardinality(new) = Cardinality(old) + 1
                 ELSE new = old
<1> DEFINE old == PercentRows(es, u, t, b)
           new == PercentRows(Append(es, e), u, t, b)
           k   == Len(es) + 1
           own == e.mode = "percent" /\ e.from = u /\ e.tier = t /\ e.base = b
<1>1. /\ k \notin DOMAIN es /\ DOMAIN es = 1..Len(es) /\ Len(es) \in Nat
      /\ DOMAIN Append(es, e) = 1..k
      /\ \A i \in 1..Len(es) : Append(es, e)[i] = es[i]
      /\ Append(es, e)[k] = e
  BY AppendedRows
<1>2. old \in SUBSET DOMAIN es
  BY DEF PercentRows
<1>3. IsFiniteSet(old) /\ Cardinality(old) \in Nat
  BY <1>2, FiniteRows
<1>4. ASSUME ~own PROVE new = old
  BY <1>1, <1>4 DEF PercentRows
<1>5. ASSUME own PROVE Cardinality(new) = Cardinality(old) + 1
  <2>1. new = old \cup {k} /\ k \notin old
    BY <1>1, <1>5 DEF PercentRows
  <2> HIDE DEF old, new, k, own
  <2> QED
    BY <1>3, <2>1, FS_AddElement
<1> QED
  BY <1>3, <1>4, <1>5

\* Every step appends to the ledger or leaves it alone (all of Recharge).
LEMMA LedgerGrows ==
  ASSUME IInv, [Next]_vars
  PROVE  ledger' = ledger \/ \E row \in LedgerRow : ledger' = Append(ledger, row)
<1> USE RechargeAssumption
<1>0. users \in [Users -> WalletRow] /\ ledger \in Seq(LedgerRow)
  BY DEF IInv, TypeOK, WalletTypeOK
<1>1. ASSUME NEW u \in Users, NEW delta \in Int, NEW reason \in Reasons,
             NEW ref \in Refs \cup {NoRef}, NEW channel \in Channels,
             AdjustBalance(u, delta, reason, ref, channel)
      PROVE  \E row \in LedgerRow : ledger' = Append(ledger, row)
  <2> DEFINE row == [user |-> u, delta |-> delta, reason |-> reason, ref |-> ref,
                     channel |-> channel, after |-> users[u].balance + delta]
  <2>1. ledger' = Append(ledger, row) /\ row \in LedgerRow
    BY <1>0, <1>1 DEF AdjustBalance, LedgerRow, WalletRow
  <2> QED
    BY <2>1
<1>2. ASSUME NEW t \in Txs, HandleWebhookRecharge(t), ledger' # ledger
      PROVE  \E row \in LedgerRow : ledger' = Append(ledger, row)
  <2>1. /\ Deposit[t].user \in Users /\ Deposit[t].amount \in Int
        /\ t \in Refs \cup {NoRef}
        /\ "recharge" \in Reasons /\ "telegram" \in Channels
    BY DEF Reasons, Channels
  <2>2. AdjustBalance(Deposit[t].user, Deposit[t].amount, "recharge", t, "telegram")
    BY <1>2 DEF HandleWebhookRecharge, walletVars
  <2> QED
    BY <1>1, <2>1, <2>2
<1>3. ASSUME NEW u \in Users, NEW a \in Amounts, NEW sign \in {1, -1},
             NEW r \in Txs \cup {NoRef}, NEW c \in {"dashboard", "telegram"},
             MgmtRecharge(u, sign * a, r, c)
      PROVE  \E row \in LedgerRow : ledger' = Append(ledger, row)
  <2>1. /\ sign * a \in Int /\ r \in Refs \cup {NoRef}
        /\ "recharge" \in Reasons /\ c \in Channels
    BY DEF Reasons, Channels
  <2> QED
    BY <1>1, <1>3, <2>1 DEF MgmtRecharge
<1>4. ASSUME NEW u \in Users, NEW a \in Amounts \cup {0}, Debit(u, a, "purchase")
      PROVE  \E row \in LedgerRow : ledger' = Append(ledger, row)
  <2>1. -a \in Int /\ "purchase" \in Reasons /\ "system" \in Channels
    BY DEF Reasons, Channels
  <2> QED
    BY <1>1, <1>4, <2>1 DEF Debit
<1>5. ASSUME NEW u \in Users, NEW a \in Amounts,
             NEW reason \in {"refund", "referral_bonus"}, Credit(u, a, reason)
      PROVE  \E row \in LedgerRow : ledger' = Append(ledger, row)
  <2>1. a \in Int /\ reason \in Reasons /\ "system" \in Channels
    BY DEF Reasons, Channels
  <2> QED
    BY <1>1, <1>5, <2>1 DEF Credit
<1> QED
  BY <1>2, <1>3, <1>4, <1>5 DEF Next, SetMode, SetLimit, UpdateMode, UpdateLimit, vars

\* Recharges stay in the ledger, so their number never falls.
LEMMA RechargesStay ==
  ASSUME IInv, [Next]_vars, NEW u, NEW b
  PROVE  /\ Cardinality(RechargeRows(ledger, u, b)) \in Nat
         /\ Cardinality(RechargeRows(ledger', u, b)) \in Nat
         /\ Cardinality(RechargeRows(ledger, u, b))
              <= Cardinality(RechargeRows(ledger', u, b))
<1>1. ledger \in Seq(LedgerRow)
  BY DEF IInv, TypeOK, WalletTypeOK
<1>2. CASE ledger' = ledger
  <2>1. RechargeRows(ledger, u, b) \in SUBSET DOMAIN ledger
    BY DEF RechargeRows
  <2>2. Cardinality(RechargeRows(ledger, u, b)) \in Nat
    BY <1>1, <2>1, FiniteRows
  <2> QED
    BY <1>2, <2>2
<1>3. CASE \E row \in LedgerRow : ledger' = Append(ledger, row)
  BY <1>1, <1>3, AppendedRecharge
<1> QED
  BY <1>2, <1>3, LedgerGrows

\* A call that moves on without a new claim adds no slot that may earn.
LEMMA MovesOn ==
  ASSUME Chains, NEW s \in Slots, NEW d, Set(s, d), NEW u, NEW t, NEW b,
         Pays(d, u, t, b) => Pays(call[s], u, t, b)
  PROVE  MayEarn(call', u, t, b) \subseteq MayEarn(call, u, t, b)
<1>1. call' = [call EXCEPT ![s] = d] /\ call \in [Slots -> Calls]
  BY DEF Chains, Set
<1>2. \A q \in Slots : call'[q] = IF q = s THEN d ELSE call[q]
  BY <1>1
<1>3. ASSUME NEW q \in Slots, Pays(call'[q], u, t, b) PROVE Pays(call[q], u, t, b)
  <2>1. CASE q = s
    BY <1>2, <1>3, <2>1
  <2>2. CASE q # s
    BY <1>2, <1>3, <2>2
  <2> QED
    BY <2>1, <2>2
<1> QED
  BY <1>3 DEF MayEarn

\* Every step keeps the count: a recharge brings the slot that may earn from it
\* (RechargeAndPay), an earning uses its slot up (PayTier).
LEMMA ReferralCovers ==
  RInv /\ Covered /\ [ReferralNext]_referralVars => Covered'
<1> SUFFICES ASSUME RInv, Covered, [ReferralNext]_referralVars,
                    NEW u \in Users, NEW t \in Nat \ {0}, NEW b \in Nat
             PROVE  Cardinality(PercentRows(earnings', u, t, b))
                      + Cardinality(MayEarn(call', u, t, b))
                      <= Cardinality(RechargeRows(ledger', u, b))
  BY DEF Covered
<1> DEFINE May       == MayEarn(call, u, t, b)
           newMay    == MayEarn(call', u, t, b)
           Earned    == PercentRows(earnings, u, t, b)
           newEarned == PercentRows(earnings', u, t, b)
           E    == Cardinality(Earned)
           M    == Cardinality(May)
           R    == Cardinality(RechargeRows(ledger, u, b))
           newE == Cardinality(newEarned)
           newM == Cardinality(newMay)
           newR == Cardinality(RechargeRows(ledger', u, b))
<1>0. /\ Chains /\ IInv /\ earnings \in Seq(Earning) /\ call \in [Slots -> Calls]
      /\ ledger \in Seq(LedgerRow)
  BY DEF RInv, Chains, IInv, TypeOK, WalletTypeOK
<1>a. R \in Nat /\ newR \in Nat /\ R <= newR
  BY <1>0, RechargesStay, ReferralStep
<1>b. IsFiniteSet(May) /\ M \in Nat /\ IsFiniteSet(newMay) /\ newM \in Nat
  BY FiniteSlots DEF MayEarn
<1>c. E \in Nat /\ E + M <= R
  <2>1. Earned \in SUBSET DOMAIN earnings
    BY DEF PercentRows
  <2>2. E \in Nat
    BY <1>0, <2>1, FiniteRows
  <2> QED
    BY <2>2 DEF Covered
<1>d. ASSUME newEarned = Earned, newMay \subseteq May PROVE newE + newM <= newR
  <2>1. newM <= M
    BY <1>b, <1>d, FS_Subset
  <2>2. newE = E
    BY <1>d
  <2> HIDE DEF E, M, R, newE, newM, newR
  <2> QED
    BY <1>a, <1>b, <1>c, <2>1, <2>2
<1>1. ASSUME NEW s \in Slots, NEW v \in Users, NEW a \in Paid, NEW source \in Sources,
             RechargeAndPay(s, v, a, source[1], source[2])
      PROVE  newE + newM <= newR
  <2> DEFINE d   == [pc |-> "user", from |-> v, amount |-> a]
             row == [user |-> v, delta |-> a, reason |-> "recharge", ref |-> source[1],
                     channel |-> source[2], after |-> users[v].balance + a]
  <2>1. Set(s, d) /\ Step(s, "idle") /\ earnings' = earnings
    BY <1>1 DEF RechargeAndPay
  <2>2. CASE v = u /\ a = b
    <3>1. ledger' = Append(ledger, row)
      BY <1>1 DEF RechargeAndPay, MgmtRecharge, AdjustBalance
    <3>2. row \in LedgerRow
      <4>1. /\ source[1] \in Refs \cup {NoRef} /\ source[2] \in Channels
            /\ a \in Int /\ "recharge" \in Reasons
        BY ReferralAssumption, RechargeAssumption DEF Sources, Channels, Reasons
      <4>2. users[v].balance \in Int
        BY <1>0 DEF IInv, TypeOK, WalletTypeOK, WalletRow
      <4> QED
        BY <4>1, <4>2 DEF LedgerRow
    <3>3. row.user = u /\ row.reason = "recharge" /\ row.delta = b
      BY <2>2
    <3> HIDE DEF row
    <3>4. newR = R + 1
      BY <1>0, <3>1, <3>2, <3>3, AppendedRecharge
    <3>5. newMay \subseteq May \cup {s} /\ s \notin May
      <4>1. call' = [call EXCEPT ![s] = d]
        BY <2>1 DEF Set
      <4>2. \A q \in Slots : q # s => call'[q] = call[q]
        BY <1>0, <4>1
      <4>3. ~Pays(call[s], u, t, b)
        BY <2>1 DEF Step, Pays
      <4> QED
        BY <4>2, <4>3 DEF MayEarn
    <3>6. IsFiniteSet(May \cup {s}) /\ Cardinality(May \cup {s}) = M + 1
      <4> HIDE DEF May, newMay
      <4> QED
        BY <1>b, <3>5, FS_AddElement
    <3>7. newM <= M + 1
      BY <3>5, <3>6, FS_Subset
    <3>8. newE = E
      BY <2>1
    <3> HIDE DEF E, M, R, newE, newM, newR
    <3> QED
      BY <1>a, <1>b, <1>c, <3>4, <3>7, <3>8
  <2>3. CASE ~(v = u /\ a = b)
    <3>1. ~Pays(d, u, t, b)
      BY <2>3 DEF Pays
    <3>2. newMay \subseteq May
      BY <1>0, <2>1, <3>1, MovesOn
    <3> QED
      BY <1>d, <2>1, <3>2
  <2> QED
    BY <2>2, <2>3
<1>2. ASSUME NEW s \in Slots, NEW d, Set(s, d), newEarned = Earned,
             Pays(d, u, t, b) => Pays(call[s], u, t, b)
      PROVE  newE + newM <= newR
  <2>1. newMay \subseteq May
    BY <1>0, <1>2, MovesOn
  <2> QED
    BY <1>d, <1>2, <2>1
<1>3. ASSUME NEW s \in Slots, OnRecharge(s) PROVE newE + newM <= newR
  <2> DEFINE c == call[s]
  <2>1. c \in UserCalls /\ c.pc = "user" /\ earnings' = earnings
    BY <1>0, <1>3, Shape DEF OnRecharge, Step
  <2> DEFINE climb == [pc |-> "tier", from |-> c.from, amount |-> c.amount, tier |-> 1,
                       to |-> upline[c.from], visited |-> {c.from}]
             total == [pc |-> "total", from |-> c.from, to |-> upline[c.from]]
  <2>2. Set(s, Idle) \/ Set(s, climb) \/ Set(s, total)
    BY <1>3 DEF OnRecharge
  <2>3. /\ ~Pays(Idle, u, t, b) /\ ~Pays(total, u, t, b)
        /\ Pays(climb, u, t, b) => Pays(c, u, t, b)
    BY <2>1 DEF Pays, Idle
  <2> HIDE DEF climb, total, c
  <2> QED
    BY <1>2, <2>1, <2>2, <2>3 DEF c
<1>4. ASSUME NEW s \in Slots, PayTier(s) PROVE newE + newM <= newR
  <2> DEFINE c     == call[s]
             ended == c.tier > Len(Tiers) \/ c.to = NoUser \/ c.to \in c.visited
             reward == Reward(c.amount, c.tier)
             d     == [pc |-> "credit", to |-> c.to, reward |-> reward, then |-> Climb(c)]
             e     == [user |-> c.to, from |-> c.from, tier |-> c.tier,
                       mode |-> "percent", base |-> c.amount, reward |-> reward]
  <2>1. c \in TierCalls /\ c.pc = "tier" /\ c.tier \in Nat
    BY <1>0, <1>4, Shape DEF PayTier, Step, TierCalls
  <2>2. CASE Set(s, Idle) /\ earnings' = earnings
    BY <1>2, <2>2 DEF Idle, Pays
  <2>3. /\ Climb(c).pc = "tier" /\ Climb(c).from = c.from /\ Climb(c).amount = c.amount
        /\ Climb(c).tier = c.tier + 1
    BY DEF Climb
  <2>4. CASE Set(s, Climb(c)) /\ earnings' = earnings
    <3>1. Pays(Climb(c), u, t, b) => Pays(c, u, t, b)
      BY <2>1, <2>3 DEF Pays
    <3> QED
      BY <1>2, <2>4, <3>1
  <2>5. CASE ~ended /\ reward > 0 /\ Set(s, d) /\ earnings' = Append(earnings, e)
    <3>1. e \in Earning
      <4>1. c.to \in Users /\ c.from \in Users /\ c.tier \in Nat \ {0} /\ c.amount \in Nat
        BY <2>1, <2>5, ReferralAssumption, RechargeAssumption DEF TierCalls
      <4>2. ~(c.tier > Len(Tiers)) /\ Len(Tiers) \in Nat
        BY <2>5, ReferralAssumption
      <4>3. reward \in Amounts
        BY <2>1, <2>5, <4>1, <4>2, TierReward
      <4> QED
        BY <4>1, <4>3, RechargeAssumption DEF Earning, PayModes
    <3>2. Pays(d, u, t, b) => Pays(c, u, t, b)
      BY <2>1, <2>3 DEF Pays
    <3>3. CASE ~(c.from = u /\ c.tier = t /\ c.amount = b)
      <4>1. ~(e.mode = "percent" /\ e.from = u /\ e.tier = t /\ e.base = b)
        BY <3>3
      <4> HIDE DEF e
      <4>2. newEarned = Earned
        BY <1>0, <2>5, <3>1, <4>1, AppendedEarning
      <4> QED
        BY <1>2, <2>5, <3>2, <4>2
    <3>4. CASE c.from = u /\ c.tier = t /\ c.amount = b
      <4>1. e.mode = "percent" /\ e.from = u /\ e.tier = t /\ e.base = b
        BY <3>4
      <4>2. newE = E + 1
        <5> HIDE DEF e
        <5> QED
          BY <1>0, <2>5, <3>1, <4>1, AppendedEarning
      <4>3. s \in May
        BY <2>1, <3>4 DEF MayEarn, Pays
      <4>4. newMay \subseteq May \ {s}
        <5>1. newMay \subseteq May
          BY <1>0, <2>5, <3>2, MovesOn
        <5>2. call'[s] = d
          BY <1>0, <2>5 DEF Set
        <5>3. ~Pays(d, u, t, b)
          BY <2>1, <2>3, <3>4 DEF Pays
        <5> QED
          BY <5>1, <5>2, <5>3 DEF MayEarn
      <4>5. Cardinality(May \ {s}) = M - 1 /\ IsFiniteSet(May \ {s})
        <5> HIDE DEF May
        <5> QED
          BY <1>b, <4>3, FS_RemoveElement
      <4>6. newM <= M - 1
        BY <4>4, <4>5, FS_Subset
      <4> HIDE DEF E, M, R, newE, newM, newR
      <4> QED
        BY <1>a, <1>b, <1>c, <4>2, <4>6
    <3> QED
      BY <3>3, <3>4
  <2> QED
    BY <1>4, <2>2, <2>4, <2>5 DEF PayTier, Earn
<1>5. ASSUME NEW s \in Slots, PayFixed(s) PROVE newE + newM <= newR
  <2> DEFINE fixed == [pc |-> "fixed", from |-> call[s].from, to |-> call[s].to]
  <2>1. (Set(s, Idle) \/ Set(s, fixed)) /\ earnings' = earnings
    BY <1>5 DEF PayFixed
  <2>2. ~Pays(Idle, u, t, b) /\ ~Pays(fixed, u, t, b)
    BY DEF Pays, Idle
  <2> HIDE DEF fixed
  <2> QED
    BY <1>2, <2>1, <2>2
<1>6. ASSUME NEW s \in Slots, GrantFixed(s) PROVE newE + newM <= newR
  <2> DEFINE c == call[s]
             d == [pc |-> "credit", to |-> c.to, reward |-> Fixed, then |-> Idle]
             e == [user |-> c.to, from |-> c.from, tier |-> 1, mode |-> "fixed",
                   base |-> 0, reward |-> Fixed]
  <2>1. c \in FixedCalls /\ Fixed > 0
    BY <1>0, <1>6, Shape DEF GrantFixed, Step, Chains
  <2>2. CASE Set(s, Idle) /\ earnings' = earnings
    BY <1>2, <2>2 DEF Idle, Pays
  <2>3. CASE Set(s, d) /\ earnings' = Append(earnings, e)
    <3>1. e \in Earning /\ e.mode # "percent"
      BY <2>1, ReferralAssumption DEF Earning, PayModes, FixedCalls
    <3> HIDE DEF e
    <3>2. newEarned = Earned
      BY <1>0, <2>3, <3>1, AppendedEarning
    <3>3. ~Pays(d, u, t, b)
      BY DEF Pays, Idle
    <3> QED
      BY <1>2, <2>3, <3>2, <3>3
  <2> QED
    BY <1>6, <2>2, <2>3 DEF GrantFixed, Earn
<1>7. ASSUME NEW s \in Slots, GrantCredit(s) PROVE newE + newM <= newR
  <2> DEFINE c == call[s]
  <2>1. c \in CreditCalls /\ Set(s, c.then) /\ earnings' = earnings
    BY <1>0, <1>7, Shape DEF GrantCredit, Step
  <2>2. c.pc = "credit" /\ c.then \in {Idle} \cup TierCalls
    BY <2>1 DEF CreditCalls
  <2>3. c.then.pc \in {"idle", "tier"}
    BY <2>2 DEF Idle, TierCalls
  <2>4. Pays(c.then, u, t, b) => Pays(c, u, t, b)
    BY <2>2, <2>3 DEF Pays
  <2> QED
    BY <1>2, <2>1, <2>4
<1>8. CASE UNCHANGED <<earnings, call>>
  BY <1>8, <1>d
<1>9. CASE Crash
  <2>1. earnings' = earnings /\ newMay = {}
    BY <1>9 DEF Crash, MayEarn, Pays, Idle
  <2> QED
    BY <1>d, <2>1
<1> QED
  BY <1>1, <1>3, <1>4, <1>5, <1>6, <1>7, <1>8, <1>9
     DEF ReferralNext, TelegramLogin, SetReferralMode, Elsewhere, payVars, referralVars

\* Nothing is earned before a recharge, and no call is under way.
LEMMA ReferralUncovered == ReferralInit => Covered
<1> SUFFICES ASSUME ReferralInit, NEW u \in Users, NEW t \in Nat \ {0}, NEW b \in Nat
             PROVE  Cardinality(PercentRows(earnings, u, t, b))
                      + Cardinality(MayEarn(call, u, t, b))
                      <= Cardinality(RechargeRows(ledger, u, b))
  BY DEF Covered
<1>1. earnings = <<>> /\ ledger = <<>> /\ DOMAIN earnings = {} /\ DOMAIN ledger = {}
  BY DEF ReferralInit, Init, WalletInit
<1>2. \A s \in Slots : call[s].pc = "idle"
  BY DEF ReferralInit, Idle
<1>3. /\ PercentRows(earnings, u, t, b) = {} /\ RechargeRows(ledger, u, b) = {}
      /\ MayEarn(call, u, t, b) = {}
  BY <1>1, <1>2 DEF PercentRows, RechargeRows, MayEarn, Pays
<1>4. Cardinality({}) = 0
  BY FS_EmptySet
<1> QED
  BY <1>3, <1>4

\* The count says what the runs check.
LEMMA CoveredImplies == RInv /\ Covered => EarningsHaveRecharges
<1> SUFFICES ASSUME RInv, Covered, NEW i \in DOMAIN earnings,
                    earnings[i].mode = "percent"
             PROVE  LET e == earnings[i]
                        same == {j \in DOMAIN earnings : earnings[j].mode = "percent" /\
                                   \A f \in {"from", "tier", "base"} :
                                     earnings[j][f] = e[f]}
                    IN Cardinality(same) <=
                         Cardinality({j \in RowsOf(e.from) :
                           ledger[j].reason = "recharge" /\ ledger[j].delta = e.base})
  BY DEF EarningsHaveRecharges
<1> DEFINE e == earnings[i]
           same == {j \in DOMAIN earnings : earnings[j].mode = "percent" /\
                      \A f \in {"from", "tier", "base"} : earnings[j][f] = e[f]}
           paid == {j \in RowsOf(e.from) :
                      ledger[j].reason = "recharge" /\ ledger[j].delta = e.base}
<1>1. e \in Earning /\ earnings \in Seq(Earning) /\ ledger \in Seq(LedgerRow)
  BY DEF RInv, Chains, IInv, TypeOK, WalletTypeOK
<1>2. e.from \in Users /\ e.tier \in Nat \ {0} /\ e.base \in Nat
  BY <1>1 DEF Earning
<1>3. same = PercentRows(earnings, e.from, e.tier, e.base)
  BY DEF PercentRows
<1>4. paid = RechargeRows(ledger, e.from, e.base)
  BY DEF RechargeRows, RowsOf
<1>5. /\ Cardinality(PercentRows(earnings, e.from, e.tier, e.base))
           + Cardinality(MayEarn(call, e.from, e.tier, e.base))
           <= Cardinality(RechargeRows(ledger, e.from, e.base))
      /\ Cardinality(MayEarn(call, e.from, e.tier, e.base)) \in Nat
  BY <1>2, FiniteSlots DEF Covered, MayEarn
<1>6. /\ Cardinality(PercentRows(earnings, e.from, e.tier, e.base)) \in Nat
      /\ Cardinality(RechargeRows(ledger, e.from, e.base)) \in Nat
  <2>1. /\ PercentRows(earnings, e.from, e.tier, e.base) \in SUBSET DOMAIN earnings
        /\ RechargeRows(ledger, e.from, e.base) \in SUBSET DOMAIN ledger
    BY DEF PercentRows, RechargeRows
  <2> QED
    BY <1>1, <2>1, FiniteRows
<1> HIDE DEF e, same, paid
<1>7. Cardinality(same) <= Cardinality(paid)
  BY <1>3, <1>4, <1>5, <1>6
<1> QED
  BY <1>7 DEF e, same, paid

\* Rewards are only ever paid on money that was recharged, one earning of a tier
\* for one recharge, whatever calls overlap and wherever the process dies
\* (mgmtRecharge, OnRecharge, payPercent).
THEOREM RewardsHaveRecharges == ReferralSpec => []EarningsHaveRecharges
  BY ReferralStart, ReferralStep, ReferralUncovered, ReferralCovers, CoveredImplies, PTL
     DEF ReferralSpec

-----------------------------------------------------------------------------
(***************************************************************************)
(* What a wallet was given as referral bonus is what its earnings say.     *)
(* EarningsReconcile is inductive once the sums are known to move by what  *)
(* a step adds or takes: an earning and the call that will credit it come  *)
(* together, and the credit takes over from the call.                      *)
(***************************************************************************)
EarnedRows(es, u) == {i \in DOMAIN es : es[i].user = u}
EarnedBy(es, u)   == SumFunction([i \in EarnedRows(es, u) |-> es[i].reward])

Bonus(row, u)      == row.user = u /\ row.reason = "referral_bonus"
GivenRows(rows, u) == {i \in DOMAIN rows : Bonus(rows[i], u)}
GivenTo(rows, u)   == SumFunction([i \in GivenRows(rows, u) |-> rows[i].delta])

Crediting(calls, u) == {s \in Slots : calls[s].pc = "credit" /\ calls[s].to = u}
ComingTo(calls, u)  == SumFunction([s \in Crediting(calls, u) |-> calls[s].reward])

\* What one call is about to credit u.
Brings(c, u) == IF c.pc = "credit" /\ c.to = u THEN c.reward ELSE 0

\* The property in these terms.
Reconciled ==
  \A u \in Users :
    /\ GivenTo(ledger, u) + ComingTo(call, u) <= EarnedBy(earnings, u)
    /\ crashes = 0 => GivenTo(ledger, u) + ComingTo(call, u) = EarnedBy(earnings, u)

\* A move is one row of the ledger that says who, how much, why and by which
\* channel (AdjustBalance).
LEMMA MoveAppends ==
  ASSUME IInv, NEW u, NEW delta, NEW reason, NEW ref, NEW channel,
         u \in Users, delta \in Int, reason \in Reasons,
         ref \in Refs \cup {NoRef}, channel \in Channels,
         AdjustBalance(u, delta, reason, ref, channel)
  PROVE  \E row \in LedgerRow :
           /\ ledger' = Append(ledger, row) /\ row.user = u /\ row.delta = delta
           /\ row.reason = reason /\ row.channel = channel
<1> DEFINE row == [user |-> u, delta |-> delta, reason |-> reason, ref |-> ref,
                   channel |-> channel, after |-> users[u].balance + delta]
<1>1. users \in [Users -> WalletRow]
  BY DEF IInv, TypeOK, WalletTypeOK
<1>2. ledger' = Append(ledger, row) /\ row \in LedgerRow
  BY <1>1 DEF AdjustBalance, LedgerRow, WalletRow
<1> QED
  BY <1>2

\* An earning is added to what its user has earned.
LEMMA EarnedGrows ==
  ASSUME NEW es \in Seq(Earning), NEW e \in Earning, NEW u
  PROVE  /\ EarnedBy(es, u) \in Nat
         /\ EarnedBy(Append(es, e), u)
              = EarnedBy(es, u) + (IF e.user = u THEN e.reward ELSE 0)
<1> DEFINE S == EarnedRows(es, u)
           T == EarnedRows(Append(es, e), u)
           f == [i \in S |-> es[i].reward]
           g == [i \in T |-> Append(es, e)[i].reward]
           k == Len(es) + 1
<1>1. /\ k \notin DOMAIN es /\ DOMAIN es = 1..Len(es) /\ Len(es) \in Nat
      /\ DOMAIN Append(es, e) = 1..k
      /\ \A i \in 1..Len(es) : Append(es, e)[i] = es[i]
      /\ Append(es, e)[k] = e
  BY AppendedRows
<1>2. IsFiniteSet(S)
  BY FiniteRows DEF EarnedRows
<1>3. EarnedBy(es, u) = SumFunctionOnSet(f, S)
  BY DEF EarnedBy, SumFunction
<1>4. EarnedBy(Append(es, e), u) = SumFunctionOnSet(g, T)
  BY DEF EarnedBy, SumFunction
<1>5. \A i \in S : es[i] \in Earning /\ i \in T /\ Append(es, e)[i] = es[i]
  BY <1>1 DEF EarnedRows
<1>6. \A i \in S : f[i] \in Nat /\ g[i] = f[i]
  BY <1>5 DEF Earning
<1>7. SumFunctionOnSet(f, S) \in Nat
  <2> HIDE DEF f, S
  <2> QED
    BY <1>2, <1>6, SumParts
<1>8. CASE e.user = u
  <2>1. T = S \cup {k} /\ k \notin S /\ g[k] = e.reward
    BY <1>1, <1>8 DEF EarnedRows
  <2>2. e.reward \in Int
    BY DEF Earning
  <2> HIDE DEF f, g, S, T, k
  <2>3. SumFunctionOnSet(g, S \cup {k}) = SumFunctionOnSet(f, S) + g[k]
    BY <1>2, <1>6, <2>1, <2>2, SumGrows
  <2> QED
    BY <1>3, <1>4, <1>7, <1>8, <2>1, <2>3
<1>9. CASE e.user # u
  <2>1. T = S
    BY <1>1, <1>9 DEF EarnedRows
  <2> HIDE DEF f, g, S, T, k
  <2>2. SumFunctionOnSet(g, T) = SumFunctionOnSet(f, S)
    BY <1>2, <1>6, <2>1, SumSame
  <2> QED
    BY <1>3, <1>4, <1>7, <1>9, <2>2
<1> QED
  BY <1>8, <1>9

\* A bonus is added to what its user was given; other rows are no bonus.
LEMMA GivenGrows ==
  ASSUME NEW rows \in Seq(LedgerRow), NEW row \in LedgerRow, NEW u
  PROVE  /\ GivenTo(rows, u) \in Int
         /\ GivenTo(Append(rows, row), u) = GivenTo(rows, u) +
              (IF Bonus(row, u) THEN row.delta ELSE 0)
<1> DEFINE S == GivenRows(rows, u)
           T == GivenRows(Append(rows, row), u)
           f == [i \in S |-> rows[i].delta]
           g == [i \in T |-> Append(rows, row)[i].delta]
           k == Len(rows) + 1
<1>1. /\ k \notin DOMAIN rows /\ DOMAIN rows = 1..Len(rows) /\ Len(rows) \in Nat
      /\ DOMAIN Append(rows, row) = 1..k
      /\ \A i \in 1..Len(rows) : Append(rows, row)[i] = rows[i]
      /\ Append(rows, row)[k] = row
  BY AppendedRows
<1>2. IsFiniteSet(S)
  BY FiniteRows DEF GivenRows
<1>3. GivenTo(rows, u) = SumFunctionOnSet(f, S)
  BY DEF GivenTo, SumFunction
<1>4. GivenTo(Append(rows, row), u) = SumFunctionOnSet(g, T)
  BY DEF GivenTo, SumFunction
<1>5. \A i \in S : rows[i] \in LedgerRow /\ i \in T /\ Append(rows, row)[i] = rows[i]
  BY <1>1 DEF GivenRows
<1>6. \A i \in S : f[i] \in Int /\ g[i] = f[i]
  BY <1>5 DEF LedgerRow
<1>7. SumFunctionOnSet(f, S) \in Int
  <2> HIDE DEF f, S
  <2> QED
    BY <1>2, <1>6, SumSplit
<1>8. CASE Bonus(row, u)
  <2>1. T = S \cup {k} /\ k \notin S /\ g[k] = row.delta
    BY <1>1, <1>8 DEF GivenRows
  <2>2. row.delta \in Int
    BY DEF LedgerRow
  <2> HIDE DEF f, g, S, T, k
  <2>3. SumFunctionOnSet(g, S \cup {k}) = SumFunctionOnSet(f, S) + g[k]
    BY <1>2, <1>6, <2>1, <2>2, SumGrows
  <2> QED
    BY <1>3, <1>4, <1>7, <1>8, <2>1, <2>3
<1>9. CASE ~Bonus(row, u)
  <2>1. T = S
    BY <1>1, <1>9 DEF GivenRows
  <2> HIDE DEF f, g, S, T, k
  <2>2. SumFunctionOnSet(g, T) = SumFunctionOnSet(f, S)
    BY <1>2, <1>6, <2>1, SumSame
  <2> QED
    BY <1>3, <1>4, <1>7, <1>9, <2>2
<1> QED
  BY <1>8, <1>9

\* What comes to u is what slot s brings and what the others bring.
LEMMA ComingParts ==
  ASSUME NEW calls \in [Slots -> Calls], NEW s \in Slots, NEW u
  PROVE  LET Others == Crediting(calls, u) \ {s}
             others == SumFunctionOnSet([q \in Others |-> calls[q].reward], Others)
         IN /\ others \in Nat /\ Brings(calls[s], u) \in Nat
            /\ ComingTo(calls, u) = others + Brings(calls[s], u)
<1> DEFINE S == Crediting(calls, u)
           T == S \ {s}
           f == [q \in T |-> calls[q].reward]
           g == [q \in S |-> calls[q].reward]
<1>1. IsFiniteSet(T)
  BY FiniteSlots DEF Crediting
<1>2. ComingTo(calls, u) = SumFunctionOnSet(g, S)
  BY DEF ComingTo, SumFunction
<1>3. ASSUME NEW q \in S PROVE calls[q].reward \in Nat
  <2>1. calls[q] \in Calls /\ calls[q].pc = "credit"
    BY <1>3 DEF Crediting
  <2>2. calls[q] \in CreditCalls
    BY <2>1, Shape
  <2> QED
    BY <2>2, RechargeAssumption DEF CreditCalls
<1>4. \A q \in T : f[q] \in Nat /\ g[q] = f[q]
  BY <1>3
<1>5. SumFunctionOnSet(f, T) \in Nat
  <2> HIDE DEF f, T
  <2> QED
    BY <1>1, <1>4, SumParts
<1>6. CASE s \in S
  <2>1. S = T \cup {s} /\ s \notin T /\ g[s] = calls[s].reward /\ g[s] \in Nat
    BY <1>3, <1>6
  <2>2. Brings(calls[s], u) = g[s]
    BY <1>6, <2>1 DEF Brings, Crediting
  <2> HIDE DEF f, g, S, T
  <2>3. SumFunctionOnSet(g, T \cup {s}) = SumFunctionOnSet(f, T) + g[s]
    BY <1>1, <1>4, <2>1, SumGrows
  <2>4. ComingTo(calls, u) = SumFunctionOnSet(f, T) + Brings(calls[s], u)
    BY <1>2, <2>1, <2>2, <2>3
  <2> QED
    BY <1>5, <2>1, <2>2, <2>4 DEF f, T, S
<1>7. CASE s \notin S
  <2>1. S = T /\ Brings(calls[s], u) = 0
    BY <1>7 DEF Brings, Crediting
  <2> HIDE DEF f, g, S, T
  <2>2. SumFunctionOnSet(g, T) = SumFunctionOnSet(f, T)
    BY <1>1, <1>4, SumSame
  <2>3. ComingTo(calls, u) = SumFunctionOnSet(f, T) + Brings(calls[s], u)
    BY <1>2, <1>5, <2>1, <2>2
  <2> QED
    BY <1>5, <2>1, <2>3 DEF f, T, S
<1> QED
  BY <1>6, <1>7

\* When slot s goes on with c, what comes changes by what s brings.
LEMMA ComingMoves ==
  ASSUME Chains, NEW s \in Slots, NEW c \in Calls, Set(s, c), NEW u
  PROVE  /\ ComingTo(call, u) \in Nat /\ ComingTo(call', u) \in Nat
         /\ Brings(call[s], u) \in Nat /\ Brings(c, u) \in Nat
         /\ ComingTo(call', u) = ComingTo(call, u) - Brings(call[s], u) + Brings(c, u)
<1> DEFINE next   == [call EXCEPT ![s] = c]
           Old    == Crediting(call, u) \ {s}
           New    == Crediting(next, u) \ {s}
           f      == [q \in Old |-> call[q].reward]
           g      == [q \in New |-> next[q].reward]
<1>1. call' = next /\ call \in [Slots -> Calls] /\ next \in [Slots -> Calls]
  BY DEF Chains, Set
<1>2. next[s] = c /\ \A q \in Slots : q # s => next[q] = call[q]
  BY <1>1
<1>3. New = Old /\ \A q \in Old : g[q] = f[q]
  BY <1>2 DEF Crediting
<1>4. IsFiniteSet(Old)
  BY FiniteSlots DEF Crediting
<1>5. /\ SumFunctionOnSet(f, Old) \in Nat /\ Brings(call[s], u) \in Nat
      /\ ComingTo(call, u) = SumFunctionOnSet(f, Old) + Brings(call[s], u)
  BY <1>1, ComingParts
<1>6. /\ SumFunctionOnSet(g, New) \in Nat /\ Brings(next[s], u) \in Nat
      /\ ComingTo(next, u) = SumFunctionOnSet(g, New) + Brings(next[s], u)
  BY <1>1, ComingParts
<1> HIDE DEF Old, New, f, g, next
<1>7. SumFunctionOnSet(g, New) = SumFunctionOnSet(f, Old)
  BY <1>3, <1>4, SumSame
<1> QED
  BY <1>1, <1>2, <1>5, <1>6, <1>7

\* The three sums are numbers.
LEMMA EarnedIsNat == ASSUME NEW es \in Seq(Earning), NEW u PROVE EarnedBy(es, u) \in Nat
<1> DEFINE S == EarnedRows(es, u)
           f == [i \in S |-> es[i].reward]
<1>1. IsFiniteSet(S) /\ \A i \in S : es[i] \in Earning
  BY FiniteRows DEF EarnedRows
<1>2. \A i \in S : f[i] \in Nat
  BY <1>1 DEF Earning
<1>3. EarnedBy(es, u) = SumFunctionOnSet(f, S)
  BY DEF EarnedBy, SumFunction
<1> HIDE DEF f, S
<1> QED
  BY <1>1, <1>2, <1>3, SumParts

LEMMA GivenIsInt == ASSUME NEW rows \in Seq(LedgerRow), NEW u PROVE GivenTo(rows, u) \in Int
<1> DEFINE S == GivenRows(rows, u)
           f == [i \in S |-> rows[i].delta]
<1>1. IsFiniteSet(S) /\ \A i \in S : rows[i] \in LedgerRow
  BY FiniteRows DEF GivenRows
<1>2. \A i \in S : f[i] \in Int
  BY <1>1 DEF LedgerRow
<1>3. GivenTo(rows, u) = SumFunctionOnSet(f, S)
  BY DEF GivenTo, SumFunction
<1> HIDE DEF f, S
<1> QED
  BY <1>1, <1>2, <1>3, SumSplit

LEMMA ComingIsNat ==
  ASSUME NEW calls \in [Slots -> Calls], NEW u PROVE ComingTo(calls, u) \in Nat
<1> DEFINE S == Crediting(calls, u)
           f == [s \in S |-> calls[s].reward]
<1>1. IsFiniteSet(S) /\ \A s \in S : calls[s] \in CreditCalls
  BY FiniteSlots, Shape DEF Crediting
<1>2. \A s \in S : f[s] \in Nat
  BY <1>1, RechargeAssumption DEF CreditCalls
<1>3. ComingTo(calls, u) = SumFunctionOnSet(f, S)
  BY DEF ComingTo, SumFunction
<1> HIDE DEF f, S
<1> QED
  BY <1>1, <1>2, <1>3, SumParts

\* Settings edited and restarts are counted.
Counted == edits \in Nat /\ crashes \in Nat

LEMMA CountsStep == Counted /\ [ReferralNext]_referralVars => Counted'
<1> SUFFICES ASSUME Counted, [ReferralNext]_referralVars PROVE Counted'
  OBVIOUS
<1>1. CASE UNCHANGED bounds
  BY <1>1 DEF Counted, bounds
<1>2. ASSUME NEW m \in PayModes, SetReferralMode(m) PROVE Counted'
  BY <1>2 DEF Counted, SetReferralMode
<1>3. CASE Crash
  BY <1>3 DEF Counted, Crash
<1> QED
  BY <1>1, <1>2, <1>3
     DEF ReferralNext, referralVars, TelegramLogin, RechargeAndPay, OnRecharge, PayTier,
         PayFixed, GrantFixed, GrantCredit, Elsewhere

\* A recharge, a correction and a purchase are no bonus (RechargeAndPay, Elsewhere).
LEMMA OtherMoves ==
  ASSUME IInv,
         \/ \E t \in Txs : HandleWebhookRecharge(t)
         \/ \E u \in Users, a \in Int, source \in Sources :
              MgmtRecharge(u, a, source[1], source[2])
         \/ \E u \in Users, a \in Paid : Debit(u, a, "purchase")
  PROVE  \/ ledger' = ledger
         \/ \E row \in LedgerRow : /\ ledger' = Append(ledger, row)
                                   /\ row.reason # "referral_bonus"
<1> USE RechargeAssumption, ReferralAssumption
<1>1. ASSUME NEW t \in Txs, HandleWebhookRecharge(t), ledger' # ledger
      PROVE  \E row \in LedgerRow : /\ ledger' = Append(ledger, row)
                                    /\ row.reason # "referral_bonus"
  <2>1. /\ Deposit[t].user \in Users /\ Deposit[t].amount \in Int
        /\ t \in Refs \cup {NoRef}
        /\ "recharge" \in Reasons /\ "telegram" \in Channels
    BY DEF Reasons, Channels
  <2>2. AdjustBalance(Deposit[t].user, Deposit[t].amount, "recharge", t, "telegram")
    BY <1>1 DEF HandleWebhookRecharge, walletVars
  <2>3. PICK row \in LedgerRow : ledger' = Append(ledger, row) /\ row.reason = "recharge"
    BY <2>1, <2>2, MoveAppends
  <2> QED
    BY <2>3
<1>2. ASSUME NEW u \in Users, NEW a \in Int, NEW source \in Sources,
             MgmtRecharge(u, a, source[1], source[2])
      PROVE  \E row \in LedgerRow : /\ ledger' = Append(ledger, row)
                                    /\ row.reason # "referral_bonus"
  <2>1. /\ source[1] \in Refs \cup {NoRef} /\ source[2] \in Channels
        /\ "recharge" \in Reasons
    BY DEF Sources, Channels, Reasons
  <2>2. AdjustBalance(u, a, "recharge", source[1], source[2])
    BY <1>2 DEF MgmtRecharge
  <2>3. PICK row \in LedgerRow : ledger' = Append(ledger, row) /\ row.reason = "recharge"
    BY <1>2, <2>1, <2>2, MoveAppends
  <2> QED
    BY <2>3
<1>3. ASSUME NEW u \in Users, NEW a \in Paid, Debit(u, a, "purchase")
      PROVE  \E row \in LedgerRow : /\ ledger' = Append(ledger, row)
                                    /\ row.reason # "referral_bonus"
  <2>1. /\ -a \in Int /\ "purchase" \in Reasons /\ "system" \in Channels
        /\ NoRef \in Refs \cup {NoRef}
    BY DEF Reasons, Channels
  <2>2. AdjustBalance(u, -a, "purchase", NoRef, "system")
    BY <1>3 DEF Debit
  <2>3. PICK row \in LedgerRow : ledger' = Append(ledger, row) /\ row.reason = "purchase"
    BY <1>3, <2>1, <2>2, MoveAppends
  <2> QED
    BY <2>3
<1> QED
  BY <1>1, <1>2, <1>3

\* Every step keeps earnings and bonuses together, or is a crash and loses what
\* was on its way.
LEMMA ReferralReconciles ==
  RInv /\ Counted /\ Reconciled /\ [ReferralNext]_referralVars => Reconciled'
<1> SUFFICES ASSUME RInv, Counted, Reconciled, [ReferralNext]_referralVars, NEW u \in Users
             PROVE  /\ GivenTo(ledger', u) + ComingTo(call', u) <= EarnedBy(earnings', u)
                    /\ crashes' = 0 =>
                         GivenTo(ledger', u) + ComingTo(call', u) = EarnedBy(earnings', u)
  BY DEF Reconciled
<1> DEFINE G == GivenTo(ledger, u)
           C == ComingTo(call, u)
           E == EarnedBy(earnings, u)
           newG == GivenTo(ledger', u)
           newC == ComingTo(call', u)
           newE == EarnedBy(earnings', u)
           Goal == newG + newC <= newE /\ (crashes' = 0 => newG + newC = newE)
<1>0. /\ Chains /\ IInv /\ earnings \in Seq(Earning) /\ call \in [Slots -> Calls]
      /\ ledger \in Seq(LedgerRow)
  BY DEF RInv, Chains, IInv, TypeOK, WalletTypeOK
<1>a. G \in Int /\ E \in Nat /\ C \in Nat
  BY <1>0, GivenIsInt, EarnedIsNat, ComingIsNat
<1>b. G + C <= E /\ (crashes = 0 => G + C = E)
  BY DEF Reconciled
<1>c. ASSUME NEW s \in Slots, NEW d \in Calls, Set(s, d), crashes' = crashes,
             NEW g \in Int, newG = G + g, NEW e \in Nat, newE = E + e,
             g + Brings(d, u) = e + Brings(call[s], u)
      PROVE  Goal
  <2>1. /\ C \in Nat /\ newC = C - Brings(call[s], u) + Brings(d, u)
        /\ Brings(call[s], u) \in Nat /\ Brings(d, u) \in Nat
    BY <1>0, <1>c, ComingMoves
  <2> HIDE DEF G, C, E, newG, newC, newE
  <2> QED
    BY <1>a, <1>b, <1>c, <2>1
<1>d. ASSUME ledger' = ledger \/ \E row \in LedgerRow :
               ledger' = Append(ledger, row) /\ row.reason # "referral_bonus"
      PROVE  newG = G
  <2>1. CASE ledger' = ledger
    BY <2>1
  <2>2. ASSUME NEW row \in LedgerRow, ledger' = Append(ledger, row),
               row.reason # "referral_bonus"
        PROVE  newG = G
    <3>1. ~Bonus(row, u)
      BY <2>2 DEF Bonus
    <3>2. newG = G + 0
      BY <1>0, <2>2, <3>1, GivenGrows
    <3> HIDE DEF G, newG
    <3> QED
      BY <1>a, <3>2
  <2> QED
    BY <1>d, <2>1, <2>2
<1>e. ASSUME NEW s \in Slots, NEW d \in Calls, Set(s, d), crashes' = crashes, newG = G,
             earnings' = earnings, Brings(d, u) = 0, Brings(call[s], u) = 0
      PROVE  Goal
  <2>1. newE = E
    BY <1>e
  <2>2. newG = G + 0 /\ newE = E + 0 /\ 0 \in Int /\ 0 \in Nat
    <3> HIDE DEF G, E, newG, newE
    <3> QED
      BY <1>a, <1>e, <2>1
  <2>3. 0 + Brings(d, u) = 0 + Brings(call[s], u)
    BY <1>e
  <2> HIDE DEF G, C, E, newG, newC, newE, Goal
  <2> QED
    BY <1>c, <1>e, <2>2, <2>3
<1>f. ASSUME newG = G, earnings' = earnings, call' = call, crashes' = crashes PROVE Goal
  BY <1>b, <1>f
<1>g. /\ Idle \in Calls /\ Brings(Idle, u) = 0
      /\ \A d \in Calls : d.pc # "credit" => Brings(d, u) = 0
  BY DEF Brings, Calls, Idle
<1>1. ASSUME NEW s \in Slots, NEW v \in Users, NEW a \in Paid, NEW source \in Sources,
             RechargeAndPay(s, v, a, source[1], source[2])
      PROVE  Goal
  <2> DEFINE d == [pc |-> "user", from |-> v, amount |-> a]
  <2>1. /\ Set(s, d) /\ call[s].pc = "idle" /\ earnings' = earnings /\ crashes' = crashes
        /\ MgmtRecharge(v, a, source[1], source[2]) /\ d \in Calls /\ d.pc = "user"
    BY <1>1 DEF RechargeAndPay, Step, Calls, UserCalls, bounds
  <2>2. a \in Int
    BY ReferralAssumption, RechargeAssumption
  <2>3. newG = G
    BY <1>0, <1>d, <2>1, <2>2, OtherMoves
  <2> HIDE DEF d, G, newG, Goal
  <2> QED
    BY <1>0, <1>e, <1>g, <2>1, <2>3
<1>2. ASSUME NEW s \in Slots, NEW d \in Calls, Set(s, d), d.pc # "credit",
             call[s].pc # "credit", UNCHANGED <<vars, earnings, crashes>>
      PROVE  Goal
  <2>1. newG = G
    BY <1>2, <1>d DEF vars
  <2> HIDE DEF G, newG, Goal
  <2> QED
    BY <1>0, <1>2, <1>e, <1>g, <2>1
<1>3. ASSUME NEW s \in Slots, NEW d \in CreditCalls, Set(s, d), UNCHANGED <<vars, crashes>>,
             call[s].pc # "credit", NEW e \in Earning, earnings' = Append(earnings, e),
             e.user = d.to, e.reward = d.reward
      PROVE  Goal
  <2>1. newG = G
    BY <1>3, <1>d DEF vars
  <2>2. newE = E + (IF e.user = u THEN e.reward ELSE 0)
    BY <1>0, <1>3, EarnedGrows
  <2>3. /\ d \in Calls /\ d.pc = "credit" /\ Brings(call[s], u) = 0
        /\ e.reward \in Nat
    BY <1>0, <1>3, <1>g DEF Calls, CreditCalls, Earning
  <2>4. Brings(d, u) = IF e.user = u THEN e.reward ELSE 0
    BY <1>3, <2>3 DEF Brings
  <2>5. newG = G + 0 /\ 0 \in Int /\ Brings(d, u) \in Nat /\ newE = E + Brings(d, u)
    <3> HIDE DEF G, E, newG, newE
    <3> QED
      BY <1>a, <2>1, <2>2, <2>3, <2>4
  <2>6. 0 + Brings(d, u) = Brings(d, u) + Brings(call[s], u)
    BY <2>3, <2>5
  <2> HIDE DEF G, C, E, newG, newC, newE, Goal
  <2> QED
    BY <1>3, <1>c, <2>3, <2>5, <2>6
<1>4. ASSUME NEW s \in Slots, GrantCredit(s) PROVE Goal
  <2> DEFINE c == call[s]
  <2>1. /\ c \in CreditCalls /\ c.pc = "credit" /\ Set(s, c.then) /\ earnings' = earnings
        /\ crashes' = crashes /\ Credit(c.to, c.reward, "referral_bonus")
    BY <1>0, <1>4, Shape DEF GrantCredit, Step, bounds
  <2>2. /\ c.then \in Calls /\ c.then.pc # "credit" /\ c.to \in Users /\ c.reward \in Nat
    <3>1. c.then \in {Idle} \cup TierCalls /\ c.to \in Users /\ c.reward \in Amounts
      BY <2>1 DEF CreditCalls
    <3>2. c.then \in Calls
      BY <3>1 DEF Calls
    <3>3. c.then.pc \in {"idle", "tier"}
      BY <3>1 DEF Idle, TierCalls
    <3> QED
      BY <3>1, <3>2, <3>3, RechargeAssumption
  <2>3. /\ c.reward \in Int /\ "referral_bonus" \in Reasons /\ "system" \in Channels
        /\ NoRef \in Refs \cup {NoRef}
    BY <2>2 DEF Reasons, Channels
  <2>a. AdjustBalance(c.to, c.reward, "referral_bonus", NoRef, "system")
    BY <2>1 DEF Credit
  <2>4. PICK row \in LedgerRow :
          /\ ledger' = Append(ledger, row) /\ row.user = c.to /\ row.delta = c.reward
          /\ row.reason = "referral_bonus"
    <3> HIDE DEF c
    <3> QED
      BY <1>0, <2>a, <2>2, <2>3, MoveAppends
  <2>5. newG = G + (IF Bonus(row, u) THEN row.delta ELSE 0)
    BY <1>0, <2>4, GivenGrows
  <2>6. Brings(c, u) = (IF Bonus(row, u) THEN row.delta ELSE 0) /\ Brings(c.then, u) = 0
    BY <1>g, <2>1, <2>2, <2>4 DEF Brings, Bonus
  <2>7. Brings(c, u) \in Nat
    BY <2>1, <2>2 DEF Brings
  <2>8. /\ newG = G + Brings(c, u) /\ Brings(c, u) \in Int /\ newE = E + 0
        /\ Brings(c, u) + Brings(c.then, u) = 0 + Brings(c, u) /\ 0 \in Nat
    <3>1. newE = E
      BY <2>1
    <3> HIDE DEF G, E, newG, newE, c
    <3> QED
      BY <1>a, <2>5, <2>6, <2>7, <3>1
  <2> HIDE DEF G, C, E, newG, newC, newE, Goal
  <2> QED
    BY <1>c, <2>1, <2>2, <2>8
<1>5. ASSUME NEW s \in Slots, OnRecharge(s) PROVE Goal
  <2> DEFINE c == call[s]
             climb == [pc |-> "tier", from |-> c.from, amount |-> c.amount, tier |-> 1,
                       to |-> upline[c.from], visited |-> {c.from}]
             total == [pc |-> "total", from |-> c.from, to |-> upline[c.from]]
  <2>1. c \in UserCalls /\ c.pc = "user" /\ UNCHANGED <<vars, earnings, crashes>>
    BY <1>0, <1>5, Shape DEF OnRecharge, Step, bounds
  <2>2. \/ Set(s, Idle)
        \/ Set(s, climb)
        \/ Set(s, total) /\ upline[c.from] # NoUser
    BY <1>5 DEF OnRecharge
  <2>3. climb \in Calls /\ (upline[c.from] # NoUser => total \in Calls)
    BY <1>0, <2>1 DEF Calls, TierCalls, TotalCalls, UserCalls, Chains
  <2>4. climb.pc = "tier" /\ total.pc = "total" /\ Idle.pc = "idle"
    BY DEF Idle
  <2> HIDE DEF c, climb, total, Goal
  <2> QED
    BY <1>2, <1>g, <2>1, <2>2, <2>3, <2>4 DEF c
<1>6. ASSUME NEW s \in Slots, PayTier(s) PROVE Goal
  <2> DEFINE c     == call[s]
             ended == c.tier > Len(Tiers) \/ c.to = NoUser \/ c.to \in c.visited
             reward == Reward(c.amount, c.tier)
             d     == [pc |-> "credit", to |-> c.to, reward |-> reward, then |-> Climb(c)]
             e     == [user |-> c.to, from |-> c.from, tier |-> c.tier,
                       mode |-> "percent", base |-> c.amount, reward |-> reward]
  <2>1. c \in TierCalls /\ c.pc = "tier" /\ UNCHANGED <<vars, crashes>>
    BY <1>0, <1>6, Shape DEF PayTier, Step, bounds
  <2>2. CASE Set(s, Idle) /\ earnings' = earnings
    BY <1>2, <1>g, <2>1, <2>2 DEF Idle
  <2>3. ASSUME ~ended PROVE c.to \in Users /\ Climb(c) \in TierCalls
    <3>1. c.to \in Users
      BY <2>1, <2>3 DEF TierCalls
    <3> QED
      BY <1>0, <2>1, <3>1, ClimbIsTier DEF Chains
  <2>4. CASE ~ended /\ Set(s, Climb(c)) /\ earnings' = earnings
    <3>1. Climb(c) \in Calls /\ Climb(c).pc # "credit"
      BY <2>3, <2>4 DEF Calls, TierCalls
    <3> QED
      BY <1>2, <2>1, <2>4, <3>1
  <2>5. CASE ~ended /\ reward > 0 /\ Set(s, d) /\ earnings' = Append(earnings, e)
    <3>1. ~(c.tier > Len(Tiers)) /\ Len(Tiers) \in Nat
      BY <2>5, ReferralAssumption
    <3>2. c.to \in Users /\ c.from \in Users /\ c.tier \in Nat \ {0} /\ c.amount \in Nat
      BY <2>1, <2>3, <2>5, ReferralAssumption, RechargeAssumption DEF TierCalls
    <3>3. reward \in Amounts
      BY <2>1, <2>5, <3>1, <3>2, TierReward
    <3>4. e \in Earning /\ d \in CreditCalls
      BY <2>3, <2>5, <3>2, <3>3, RechargeAssumption DEF Earning, PayModes, CreditCalls
    <3>5. e.user = d.to /\ e.reward = d.reward
      OBVIOUS
    <3> HIDE DEF d, e, Goal
    <3> QED
      BY <1>3, <2>1, <2>5, <3>4, <3>5
  <2> QED
    BY <1>6, <2>2, <2>4, <2>5 DEF PayTier, Earn
<1>7. ASSUME NEW s \in Slots, PayFixed(s) PROVE Goal
  <2> DEFINE fixed == [pc |-> "fixed", from |-> call[s].from, to |-> call[s].to]
  <2>1. /\ Set(s, Idle) \/ Set(s, fixed)
        /\ UNCHANGED <<vars, earnings, crashes>> /\ call[s].pc = "total"
        /\ call[s] \in TotalCalls
    BY <1>0, <1>7, Shape DEF PayFixed, Step, bounds
  <2>2. fixed \in Calls /\ fixed.pc = "fixed" /\ Idle.pc = "idle"
    BY <2>1 DEF Calls, FixedCalls, TotalCalls, Idle
  <2> HIDE DEF fixed, Goal
  <2> QED
    BY <1>2, <1>g, <2>1, <2>2
<1>8. ASSUME NEW s \in Slots, GrantFixed(s) PROVE Goal
  <2> DEFINE c == call[s]
             d == [pc |-> "credit", to |-> c.to, reward |-> Fixed, then |-> Idle]
             e == [user |-> c.to, from |-> c.from, tier |-> 1, mode |-> "fixed",
                   base |-> 0, reward |-> Fixed]
  <2>1. c \in FixedCalls /\ c.pc = "fixed" /\ Fixed > 0 /\ UNCHANGED <<vars, crashes>>
    BY <1>0, <1>8, Shape DEF GrantFixed, Step, Chains, bounds
  <2>2. CASE Set(s, Idle) /\ earnings' = earnings
    BY <1>2, <1>g, <2>1, <2>2 DEF Idle
  <2>3. CASE Set(s, d) /\ earnings' = Append(earnings, e)
    <3>1. e \in Earning /\ d \in CreditCalls
      BY <2>1, ReferralAssumption DEF Earning, PayModes, FixedCalls, CreditCalls
    <3>2. e.user = d.to /\ e.reward = d.reward
      OBVIOUS
    <3> HIDE DEF d, e, Goal
    <3> QED
      BY <1>3, <2>1, <2>3, <3>1, <3>2
  <2> QED
    BY <1>8, <2>2, <2>3 DEF GrantFixed, Earn
<1>9. CASE Elsewhere
  <2>1. UNCHANGED <<earnings, call, crashes>>
    BY <1>9 DEF Elsewhere, payVars, bounds
  <2>2. newG = G
    <3>1. \A a \in Paid : -a \in Int
      BY ReferralAssumption, RechargeAssumption
    <3>2. <<NoRef, "dashboard">> \in Sources
      BY DEF Sources
    <3>3. \A v \in Users, a \in Paid : MgmtRecharge(v, -a, NoRef, "dashboard") =>
            \E source \in Sources : MgmtRecharge(v, -a, source[1], source[2])
      BY <3>2
    <3> HIDE DEF G, newG
    <3> QED
      BY <1>0, <1>9, <1>d, <3>1, <3>3, OtherMoves DEF Elsewhere
  <2> QED
    BY <1>f, <2>1, <2>2
<1>10. CASE Crash
  <2>1. /\ newE = E /\ crashes' = crashes + 1
    BY <1>10 DEF Crash
  <2>2. newG = G
    BY <1>10 DEF Crash, vars
  <2>3. newC = 0
    <3>1. Crediting(call', u) = {}
      BY <1>10 DEF Crash, Crediting, Idle
    <3> QED
      BY <3>1, SumEmpty DEF ComingTo, SumFunction
  <2>4. crashes \in Nat
    BY DEF Counted
  <2>5. Goal
    <3> HIDE DEF G, C, E, newG, newC, newE
    <3> QED
      BY <1>a, <1>b, <2>1, <2>2, <2>3, <2>4
  <2> QED
    BY <2>5
<1>11. CASE UNCHANGED <<vars, earnings, call, crashes>>
  BY <1>11, <1>f DEF vars
<1> QED
  BY <1>1, <1>4, <1>5, <1>6, <1>7, <1>8, <1>9, <1>10, <1>11
     DEF ReferralNext, TelegramLogin, SetReferralMode, referralVars, payVars, bounds

\* Nothing is earned, given or on its way before the first step.
LEMMA ReferralUnpaid == ReferralInit => Counted /\ Reconciled
<1>0. ReferralInit => Counted
  BY DEF ReferralInit, Counted
<1> SUFFICES ASSUME ReferralInit, NEW u \in Users
             PROVE  /\ GivenTo(ledger, u) = 0 /\ ComingTo(call, u) = 0
                    /\ EarnedBy(earnings, u) = 0
  BY <1>0 DEF Reconciled
<1>1. earnings = <<>> /\ ledger = <<>> /\ \A s \in Slots : call[s].pc = "idle"
  BY DEF ReferralInit, Init, WalletInit, Idle
<1>2. /\ EarnedRows(earnings, u) = {} /\ GivenRows(ledger, u) = {}
      /\ Crediting(call, u) = {}
  BY <1>1 DEF EarnedRows, GivenRows, Crediting
<1> QED
  BY <1>2, SumEmpty DEF EarnedBy, GivenTo, ComingTo, SumFunction

\* The sums are those of the property.
LEMMA ReconciledImplies == Reconciled => EarningsReconcile
<1> SUFFICES ASSUME Reconciled, NEW u \in Users
      PROVE  LET earnedRows == {i \in DOMAIN earnings : earnings[i].user = u}
                 givenRows  == {i \in RowsOf(u) : ledger[i].reason = "referral_bonus"}
                 crediting  == {s \in Slots : Step(s, "credit") /\ call[s].to = u}
                 earned == SumFunction([i \in earnedRows |-> earnings[i].reward])
                 given  == SumFunction([i \in givenRows |-> ledger[i].delta])
                 coming == SumFunction([s \in crediting |-> call[s].reward])
             IN /\ given + coming <= earned
                /\ crashes = 0 => given + coming = earned
  BY DEF EarningsReconcile
<1>1. GivenRows(ledger, u) = {i \in RowsOf(u) : ledger[i].reason = "referral_bonus"}
  BY DEF GivenRows, Bonus, RowsOf
<1>2. Crediting(call, u) = {s \in Slots : Step(s, "credit") /\ call[s].to = u}
  BY DEF Crediting, Step
<1>3. /\ GivenTo(ledger, u) + ComingTo(call, u) <= EarnedBy(earnings, u)
      /\ crashes = 0 => GivenTo(ledger, u) + ComingTo(call, u) = EarnedBy(earnings, u)
  BY DEF Reconciled
<1> QED
  BY <1>1, <1>2, <1>3, Zenon DEF EarnedBy, EarnedRows, GivenTo, ComingTo

\* A wallet is given as referral bonus what its earnings say, neither twice nor
\* for another user, and only a crash between an earning and its credit makes it
\* less (grant).
THEOREM BonusesAreEarned == ReferralSpec => []EarningsReconcile
<1>1. ReferralInit => RInv /\ Counted /\ Reconciled
  BY ReferralStart, ReferralUnpaid
<1>2. RInv /\ Counted /\ Reconciled /\ [ReferralNext]_referralVars
        => (RInv /\ Counted /\ Reconciled)'
  BY ReferralStep, CountsStep, ReferralReconciles
<1> QED
  BY <1>1, <1>2, ReconciledImplies, PTL DEF ReferralSpec

-----------------------------------------------------------------------------
(***************************************************************************)
(* A recharge by the admin route that takes the invitee to the threshold   *)
(* is rewarded, or a call is under way that will find it so: the call      *)
(* sums what is committed when it comes to pay, which is never less than   *)
(* what was committed when the recharge was.                               *)
(***************************************************************************)
DepositRows(rows, u, i) ==
  {j \in 1..i : rows[j].user = u /\ rows[j].reason = "recharge" /\ rows[j].delta > 0}
Deposited(rows, u, i) ==
  SumFunction([j \in DepositRows(rows, u, i) |-> rows[j].delta])

\* Row i is a recharge by hand with which its user has reached the threshold.
Entitled(rows, ups, i) ==
  /\ rows[i].channel = "dashboard" /\ rows[i].delta > 0
  /\ ups[rows[i].user] # NoUser /\ Deposited(rows, rows[i].user, i) >= Qualify

\* A call that will reward r for u when it comes to it.
WillPay(c, u, r) ==
  \/ c.pc = "user" /\ c.from = u
  \/ c.pc \in {"total", "fixed"} /\ c.from = u /\ c.to = r

PaidFor(es, r, u) ==
  \E i \in DOMAIN es : es[i].mode = "fixed" /\ es[i].user = r /\ es[i].from = u

Settled(es, calls, u, r) == PaidFor(es, r, u) \/ \E s \in Slots : WillPay(calls[s], u, r)

\* The strengthening of ThresholdPays.
Due ==
  edits = 0 /\ crashes = 0 /\ payMode = "fixed" /\ Fixed > 0 =>
    \A i \in DOMAIN ledger : Entitled(ledger, upline, i) =>
      Settled(earnings, call, ledger[i].user, upline[ledger[i].user])

\* What was deposited up to row i is a number that later rows leave alone, and
\* no more than what is deposited altogether (the SUM of payFixed).
LEMMA DepositsStay ==
  ASSUME NEW rows \in Seq(LedgerRow), NEW row \in LedgerRow, NEW u, NEW i \in DOMAIN rows
  PROVE  /\ Append(rows, row)[i] = rows[i]
         /\ Deposited(Append(rows, row), u, i) = Deposited(rows, u, i)
<1> DEFINE S == DepositRows(rows, u, i)
           T == DepositRows(Append(rows, row), u, i)
           f == [j \in S |-> rows[j].delta]
           g == [j \in T |-> Append(rows, row)[j].delta]
<1>1. /\ \A j \in 1..i : Append(rows, row)[j] = rows[j] /\ j \in DOMAIN rows
      /\ i \in 1..i
  BY AppendedRows
<1>2. T = S /\ \A j \in S : g[j] = f[j]
  BY <1>1 DEF DepositRows
<1>3. IsFiniteSet(S)
  <2>1. S \in SUBSET DOMAIN rows
    BY <1>1 DEF DepositRows
  <2> HIDE DEF S
  <2> QED
    BY <2>1, FiniteRows
<1>4. /\ Deposited(rows, u, i) = SumFunctionOnSet(f, S)
      /\ Deposited(Append(rows, row), u, i) = SumFunctionOnSet(g, T)
  BY DEF Deposited, SumFunction
<1> HIDE DEF f, g, S, T
<1>5. SumFunctionOnSet(g, T) = SumFunctionOnSet(f, S)
  BY <1>2, <1>3, SumSame
<1> QED
  BY <1>1, <1>4, <1>5

LEMMA DepositsGrow ==
  ASSUME NEW rows \in Seq(LedgerRow), NEW u, NEW i \in DOMAIN rows
  PROVE  /\ Deposited(rows, u, i) \in Nat /\ Deposited(rows, u, Len(rows)) \in Nat
         /\ Deposited(rows, u, i) <= Deposited(rows, u, Len(rows))
<1> DEFINE S == DepositRows(rows, u, i)
           T == DepositRows(rows, u, Len(rows))
           f == [j \in S |-> rows[j].delta]
           g == [j \in T |-> rows[j].delta]
<1>1. /\ T \in SUBSET DOMAIN rows /\ S \in SUBSET T
      /\ \A j \in T : rows[j] \in LedgerRow /\ rows[j].delta > 0
  BY DEF DepositRows
<1>2. (\A j \in T : g[j] \in Nat) /\ \A j \in S : f[j] = g[j]
  BY <1>1 DEF LedgerRow
<1>3. IsFiniteSet(T) /\ IsFiniteSet(S)
  <2>1. S \in SUBSET DOMAIN rows
    BY <1>1
  <2> HIDE DEF S, T
  <2> QED
    BY <1>1, <2>1, FiniteRows
<1>4. /\ Deposited(rows, u, i) = SumFunctionOnSet(f, S)
      /\ Deposited(rows, u, Len(rows)) = SumFunctionOnSet(g, T)
  BY DEF Deposited, SumFunction
<1> HIDE DEF f, g, S, T
<1>5. /\ SumFunctionOnSet(g, T) \in Nat /\ SumFunctionOnSet(g, S) \in Nat
      /\ SumFunctionOnSet(g, S) <= SumFunctionOnSet(g, T)
  BY <1>1, <1>2, <1>3, SumParts
<1>6. SumFunctionOnSet(f, S) = SumFunctionOnSet(g, S)
  BY <1>2, <1>3, SumSame
<1> QED
  BY <1>4, <1>5, <1>6

\* The webhook, a correction and a purchase are no recharge by hand.
LEMMA ElsewhereMoves ==
  ASSUME IInv, Elsewhere
  PROVE  \/ ledger' = ledger
         \/ \E row \in LedgerRow : /\ ledger' = Append(ledger, row)
                                   /\ row.channel = "dashboard" => ~(row.delta > 0)
<1> DEFINE Goal == \E row \in LedgerRow : /\ ledger' = Append(ledger, row)
                                          /\ row.channel = "dashboard" => ~(row.delta > 0)
<1> USE RechargeAssumption, ReferralAssumption
<1>1. ASSUME NEW t \in Txs, HandleWebhookRecharge(t), ledger' # ledger PROVE Goal
  <2>1. /\ Deposit[t].user \in Users /\ Deposit[t].amount \in Int
        /\ t \in Refs \cup {NoRef}
        /\ "recharge" \in Reasons /\ "telegram" \in Channels
    BY <1>1 DEF Reasons, Channels
  <2>2. AdjustBalance(Deposit[t].user, Deposit[t].amount, "recharge", t, "telegram")
    BY <1>1 DEF HandleWebhookRecharge, walletVars
  <2>3. PICK row \in LedgerRow : ledger' = Append(ledger, row) /\ row.channel = "telegram"
    BY <2>1, <2>2, MoveAppends
  <2> QED
    BY <2>3
<1>2. ASSUME NEW u \in Users, NEW a \in Paid, MgmtRecharge(u, -a, NoRef, "dashboard")
      PROVE  Goal
  <2>1. /\ -a \in Int /\ ~(-a > 0) /\ NoRef \in Refs \cup {NoRef}
        /\ "recharge" \in Reasons /\ "dashboard" \in Channels
    BY <1>2 DEF Reasons, Channels
  <2>2. AdjustBalance(u, -a, "recharge", NoRef, "dashboard")
    BY <1>2 DEF MgmtRecharge
  <2>3. PICK row \in LedgerRow : ledger' = Append(ledger, row) /\ row.delta = -a
    BY <1>2, <2>1, <2>2, MoveAppends
  <2> QED
    BY <2>1, <2>3
<1>3. ASSUME NEW u \in Users, NEW a \in Paid, Debit(u, a, "purchase") PROVE Goal
  <2>1. /\ -a \in Int /\ NoRef \in Refs \cup {NoRef}
        /\ "purchase" \in Reasons /\ "system" \in Channels
    BY <1>3 DEF Reasons, Channels
  <2>2. AdjustBalance(u, -a, "purchase", NoRef, "system")
    BY <1>3 DEF Debit
  <2>3. PICK row \in LedgerRow : ledger' = Append(ledger, row) /\ row.channel = "system"
    BY <1>3, <2>1, <2>2, MoveAppends
  <2> QED
    BY <2>3
<1> QED
  BY <1>1, <1>2, <1>3 DEF Elsewhere

\* A reward that was given or is under way stays so while one slot goes on, as
\* long as that slot does not give up what it would have paid.
LEMMA SettledStays ==
  ASSUME Chains, NEW s \in Slots, NEW d, Set(s, d), NEW u, NEW r,
         Settled(earnings, call, u, r),
         PaidFor(earnings, r, u) => PaidFor(earnings', r, u),
         WillPay(call[s], u, r) => WillPay(d, u, r) \/ PaidFor(earnings', r, u)
  PROVE  Settled(earnings', call', u, r)
<1>1. /\ call'[s] = d /\ \A q \in Slots : q # s => call'[q] = call[q]
  BY DEF Chains, Set
<1>2. CASE PaidFor(earnings, r, u)
  BY <1>2 DEF Settled
<1>3. ASSUME NEW q \in Slots, WillPay(call[q], u, r) PROVE Settled(earnings', call', u, r)
  <2>1. CASE q = s
    BY <1>1, <1>3, <2>1 DEF Settled
  <2>2. CASE q # s
    BY <1>1, <1>3, <2>2 DEF Settled
  <2> QED
    BY <2>1, <2>2
<1> QED
  BY <1>2, <1>3 DEF Settled

\* Earnings are never taken back (the rows of referral_earnings).
LEMMA PaidStays ==
  ASSUME NEW es \in Seq(Earning), NEW e \in Earning, NEW r, NEW u, PaidFor(es, r, u)
  PROVE  PaidFor(Append(es, e), r, u)
<1>1. PICK i \in DOMAIN es : es[i].mode = "fixed" /\ es[i].user = r /\ es[i].from = u
  BY DEF PaidFor
<1>2. i \in DOMAIN Append(es, e) /\ Append(es, e)[i] = es[i]
  BY AppendedRows
<1> QED
  BY <1>1, <1>2 DEF PaidFor

\* Every step keeps it, or edits the settings, or is a crash.
LEMMA DueStep == RInv /\ Counted /\ Due /\ [ReferralNext]_referralVars => Due'
<1> SUFFICES ASSUME RInv, Counted, Due, [ReferralNext]_referralVars,
                    edits' = 0, crashes' = 0, payMode' = "fixed", Fixed > 0,
                    NEW i \in DOMAIN ledger', Entitled(ledger', upline', i)
             PROVE  Settled(earnings', call', ledger'[i].user, upline'[ledger'[i].user])
  BY DEF Due
<1> DEFINE u == ledger'[i].user
           r == upline'[u]
           Goal == Settled(earnings', call', u, r)
<1>0. /\ Chains /\ IInv /\ earnings \in Seq(Earning) /\ call \in [Slots -> Calls]
      /\ ledger \in Seq(LedgerRow) /\ upline \in [Users -> Users \cup {NoUser}]
  BY DEF RInv, Chains, IInv, TypeOK, WalletTypeOK
\* While ledger and uplines stay as they are, the row was there before.
<1>a. ASSUME ledger' = ledger, upline' = upline, UNCHANGED <<payMode, bounds>>
      PROVE  Settled(earnings, call, u, r) /\ u \in Users /\ r # NoUser
             /\ Deposited(ledger, u, Len(ledger)) >= Qualify
  <2>1. i \in DOMAIN ledger /\ Entitled(ledger, upline, i)
    BY <1>a
  <2>2. Settled(earnings, call, u, r)
    BY <1>a, <2>1 DEF Due, bounds
  <2>3. u \in Users /\ r # NoUser /\ Deposited(ledger, u, i) >= Qualify
    <3>1. ledger[i] \in LedgerRow /\ u = ledger[i].user /\ r = upline[u]
      BY <1>0, <1>a, <2>1
    <3>2. u \in Users
      BY <3>1 DEF LedgerRow
    <3> HIDE DEF u, r
    <3> QED
      BY <2>1, <3>1, <3>2 DEF Entitled
  <2>4. /\ Deposited(ledger, u, i) \in Nat /\ Deposited(ledger, u, Len(ledger)) \in Nat
        /\ Deposited(ledger, u, i) <= Deposited(ledger, u, Len(ledger))
    BY <1>0, <2>1, DepositsGrow
  <2> HIDE DEF u, r
  <2> QED
    BY <2>2, <2>3, <2>4, ReferralAssumption
\* A row that is no recharge by hand owes nothing.
<1>b. ASSUME NEW row \in LedgerRow, ledger' = Append(ledger, row), upline' = upline,
             UNCHANGED <<payMode, bounds>>
      PROVE  \/ i = Len(ledger) + 1 /\ ledger'[i] = row
             \/ Settled(earnings, call, u, r)
  <2>1. i \in 1 .. Len(ledger) + 1 /\ ledger'[Len(ledger) + 1] = row
    BY <1>0, <1>b, AppendedRows
  <2>2. CASE i \in DOMAIN ledger
    <3>1. ledger'[i] = ledger[i] /\ Deposited(ledger', u, i) = Deposited(ledger, u, i)
      BY <1>0, <1>b, <2>2, DepositsStay
    <3>2. Entitled(ledger, upline, i)
      BY <1>b, <3>1 DEF Entitled
    <3> QED
      BY <1>b, <2>2, <3>1, <3>2 DEF Due, bounds
  <2>3. CASE i \notin DOMAIN ledger
    <3>1. i = Len(ledger) + 1
      BY <1>0, <2>1, <2>3
    <3> QED
      BY <2>1, <3>1
  <2> QED
    BY <2>2, <2>3
<1>1. ASSUME NEW v \in Users, NEW w \in Users, TelegramLogin(v, w) PROVE Goal
  <2>1. /\ ledger' = ledger /\ UNCHANGED <<earnings, payMode, call, bounds>>
        /\ upline' = [upline EXCEPT ![v] = w] /\ RowsOf(v) = {}
    BY <1>1 DEF TelegramLogin, Attach, vars
  <2>2. u # v /\ u \in Users
    <3>1. ledger[i] \in LedgerRow /\ u = ledger[i].user /\ i \in DOMAIN ledger
      BY <1>0, <2>1
    <3>2. u \in Users
      BY <3>1 DEF LedgerRow
    <3> HIDE DEF u
    <3> QED
      BY <2>1, <3>1, <3>2 DEF RowsOf
  <2>3. upline'[u] = upline[u] /\ i \in DOMAIN ledger
    BY <1>0, <2>1, <2>2
  <2>4. Entitled(ledger, upline, i)
    BY <2>1, <2>3 DEF Entitled
  <2> QED
    BY <2>1, <2>3, <2>4 DEF Due, bounds
<1>2. ASSUME NEW s \in Slots, NEW v \in Users, NEW a \in Paid, NEW source \in Sources,
             RechargeAndPay(s, v, a, source[1], source[2])
      PROVE  Goal
  <2> DEFINE d == [pc |-> "user", from |-> v, amount |-> a]
  <2>1. /\ Set(s, d) /\ call[s].pc = "idle" /\ upline' = upline /\ earnings' = earnings
        /\ UNCHANGED <<payMode, bounds>> /\ MgmtRecharge(v, a, source[1], source[2])
    BY <1>2 DEF RechargeAndPay, Step
  <2>2. /\ source[1] \in Refs \cup {NoRef} /\ source[2] \in Channels /\ a \in Int
        /\ "recharge" \in Reasons
    BY <1>2, RechargeAssumption, ReferralAssumption DEF Sources, Channels, Reasons
  <2>3. AdjustBalance(v, a, "recharge", source[1], source[2])
    BY <2>1 DEF MgmtRecharge
  <2>4. PICK row \in LedgerRow : ledger' = Append(ledger, row) /\ row.user = v
    BY <1>0, <1>2, <2>2, <2>3, MoveAppends
  <2>5. CASE i = Len(ledger) + 1 /\ ledger'[i] = row
    <3>1. call'[s] = d
      BY <1>0, <2>1 DEF Set
    <3>2. WillPay(call'[s], u, r)
      BY <2>4, <2>5, <3>1 DEF WillPay
    <3> QED
      BY <3>2 DEF Settled
  <2>6. CASE Settled(earnings, call, u, r)
    <3>1. ~WillPay(call[s], u, r)
      BY <2>1 DEF WillPay
    <3> HIDE DEF d, u, r
    <3>2. Settled(earnings', call', u, r)
      BY <1>0, <2>1, <2>6, <3>1, SettledStays
    <3> QED
      BY <3>2
  <2> QED
    BY <1>b, <2>1, <2>4, <2>5, <2>6
\* A call goes on, and wallets and uplines stay as they are.
<1>3. ASSUME NEW s \in Slots, NEW d, Set(s, d), UNCHANGED <<vars, upline, payMode, bounds>>,
             earnings' = earnings \/ \E e \in Earning : earnings' = Append(earnings, e),
             WillPay(call[s], u, r) => WillPay(d, u, r) \/ PaidFor(earnings', r, u)
      PROVE  Goal
  <2>1. Settled(earnings, call, u, r)
    BY <1>3, <1>a DEF vars
  <2>2. PaidFor(earnings, r, u) => PaidFor(earnings', r, u)
    BY <1>0, <1>3, PaidStays
  <2> HIDE DEF u, r
  <2>3. Settled(earnings', call', u, r)
    BY <1>0, <1>3, <2>1, <2>2, SettledStays
  <2> QED
    BY <2>3
<1>4. ASSUME NEW s \in Slots, OnRecharge(s) PROVE Goal
  <2> DEFINE c == call[s]
             climb == [pc |-> "tier", from |-> c.from, amount |-> c.amount, tier |-> 1,
                       to |-> upline[c.from], visited |-> {c.from}]
             total == [pc |-> "total", from |-> c.from, to |-> upline[c.from]]
  <2>1. /\ c.pc = "user" /\ UNCHANGED <<vars, earnings, upline, payMode, bounds>>
        /\ ledger' = ledger
    BY <1>4 DEF OnRecharge, Step, vars
  <2>2. payMode = "fixed" /\ r # NoUser /\ r = upline[u]
    BY <1>a, <2>1
  <2>3. CASE c.from = u
    <3>1. Set(s, total)
      BY <1>4, <2>2, <2>3 DEF OnRecharge
    <3>2. WillPay(total, u, r)
      BY <2>2, <2>3 DEF WillPay
    <3> HIDE DEF total, u, r, Goal
    <3> QED
      BY <1>3, <2>1, <3>1, <3>2
  <2>4. CASE c.from # u
    <3>1. ~WillPay(c, u, r)
      BY <2>1, <2>4 DEF WillPay
    <3>2. \E d : Set(s, d)
      BY <1>4 DEF OnRecharge
    <3> HIDE DEF u, r, Goal
    <3> QED
      BY <1>3, <2>1, <3>1, <3>2
  <2> QED
    BY <2>3, <2>4
<1>5. ASSUME NEW s \in Slots, PayTier(s) PROVE Goal
  <2> DEFINE c == call[s]
             reward == Reward(c.amount, c.tier)
             e     == [user |-> c.to, from |-> c.from, tier |-> c.tier,
                       mode |-> "percent", base |-> c.amount, reward |-> reward]
  <2>1. /\ c \in TierCalls /\ c.pc = "tier" /\ UNCHANGED <<vars, upline, payMode, bounds>>
    BY <1>0, <1>5, Shape DEF PayTier, Step
  <2>2. ~WillPay(c, u, r)
    BY <2>1 DEF WillPay
  <2>3. \E d : Set(s, d)
    BY <1>5 DEF PayTier
  <2>4. earnings' = earnings \/ \E x \in Earning : earnings' = Append(earnings, x)
    <3>1. CASE /\ ~(c.tier > Len(Tiers) \/ c.to = NoUser \/ c.to \in c.visited)
               /\ reward > 0 /\ earnings' = Append(earnings, e)
      <4>1. ~(c.tier > Len(Tiers)) /\ Len(Tiers) \in Nat
        BY <3>1, ReferralAssumption
      <4>2. /\ c.to \in Users /\ c.from \in Users /\ c.tier \in Nat \ {0}
            /\ c.amount \in Nat
        BY <2>1, <3>1, ReferralAssumption, RechargeAssumption DEF TierCalls
      <4>3. reward \in Amounts
        BY <2>1, <3>1, <4>1, <4>2, TierReward
      <4>4. e \in Earning
        BY <4>2, <4>3, RechargeAssumption DEF Earning, PayModes
      <4> HIDE DEF e
      <4> QED
        BY <3>1, <4>4
    <3> QED
      BY <1>5, <3>1 DEF PayTier, Earn
  <2> HIDE DEF u, r, Goal
  <2> QED
    BY <1>3, <2>1, <2>2, <2>3, <2>4
<1>6. ASSUME NEW s \in Slots, PayFixed(s) PROVE Goal
  <2> DEFINE c == call[s]
             fixed == [pc |-> "fixed", from |-> c.from, to |-> c.to]
  <2>1. /\ c.pc = "total" /\ UNCHANGED <<vars, earnings, upline, payMode, bounds>>
        /\ ledger' = ledger
    BY <1>6 DEF PayFixed, Step, vars
  <2>2. Deposited(ledger, u, Len(ledger)) >= Qualify
    BY <1>a, <2>1
  <2>3. Qualified(u)
    BY <2>2 DEF Qualified, RechargedBy, Deposited, DepositRows
  <2>4. CASE c.from = u
    <3>1. Set(s, fixed)
      BY <1>6, <2>3, <2>4 DEF PayFixed
    <3>2. WillPay(c, u, r) => WillPay(fixed, u, r)
      BY <2>1 DEF WillPay
    <3> HIDE DEF fixed, u, r, Goal
    <3> QED
      BY <1>3, <2>1, <3>1, <3>2
  <2>5. CASE c.from # u
    <3>1. ~WillPay(c, u, r)
      BY <2>1, <2>5 DEF WillPay
    <3>2. \E d : Set(s, d)
      BY <1>6 DEF PayFixed
    <3> HIDE DEF u, r, Goal
    <3> QED
      BY <1>3, <2>1, <3>1, <3>2
  <2> QED
    BY <2>4, <2>5
<1>7. ASSUME NEW s \in Slots, GrantFixed(s) PROVE Goal
  <2> DEFINE c == call[s]
             e == [user |-> c.to, from |-> c.from, tier |-> 1, mode |-> "fixed",
                   base |-> 0, reward |-> Fixed]
  <2>1. c \in FixedCalls /\ c.pc = "fixed" /\ UNCHANGED <<vars, upline, payMode, bounds>>
    BY <1>0, <1>7, Shape DEF GrantFixed, Step
  <2>2. \E d : Set(s, d)
    BY <1>7 DEF GrantFixed
  <2>3. CASE Rewarded(c.to, c.from) /\ earnings' = earnings
    <3>1. WillPay(c, u, r) => PaidFor(earnings', r, u)
      BY <2>1, <2>3 DEF WillPay, PaidFor, Rewarded
    <3> HIDE DEF u, r, Goal
    <3> QED
      BY <1>3, <2>1, <2>2, <2>3, <3>1
  <2>4. CASE earnings' = Append(earnings, e)
    <3>1. e \in Earning
      BY <2>1, ReferralAssumption DEF Earning, PayModes, FixedCalls
    <3>2. /\ Len(earnings) + 1 \in DOMAIN earnings'
          /\ earnings'[Len(earnings) + 1] = e
      <4> HIDE DEF e
      <4> QED
        BY <1>0, <2>4, <3>1
    <3>3. WillPay(c, u, r) => PaidFor(earnings', r, u)
      BY <2>1, <3>2 DEF WillPay, PaidFor
    <3> HIDE DEF u, r, Goal, e
    <3> QED
      BY <1>3, <2>1, <2>2, <2>4, <3>1, <3>3
  <2> QED
    BY <1>7, <2>3, <2>4 DEF GrantFixed, Earn
<1>8. ASSUME NEW s \in Slots, GrantCredit(s) PROVE Goal
  <2> DEFINE c == call[s]
  <2>1. /\ c \in CreditCalls /\ c.pc = "credit" /\ Set(s, c.then) /\ earnings' = earnings
        /\ upline' = upline /\ UNCHANGED <<payMode, bounds>>
        /\ Credit(c.to, c.reward, "referral_bonus")
    BY <1>0, <1>8, Shape DEF GrantCredit, Step
  <2>2. /\ c.to \in Users /\ c.reward \in Int /\ "referral_bonus" \in Reasons
        /\ "system" \in Channels /\ NoRef \in Refs \cup {NoRef}
    <3>1. c.to \in Users /\ c.reward \in Amounts
      BY <2>1 DEF CreditCalls
    <3>2. \A a \in Amounts : a \in Int
      BY RechargeAssumption
    <3>3. c.reward \in Int
      BY <3>1, <3>2
    <3> HIDE DEF c
    <3> QED
      BY <3>1, <3>3 DEF Reasons, Channels
  <2>3. AdjustBalance(c.to, c.reward, "referral_bonus", NoRef, "system")
    BY <2>1 DEF Credit
  <2>4. PICK row \in LedgerRow : ledger' = Append(ledger, row) /\ row.channel = "system"
    <3> HIDE DEF c
    <3> QED
      BY <1>0, <2>2, <2>3, MoveAppends
  <2>5. ~(i = Len(ledger) + 1 /\ ledger'[i] = row)
    BY <2>4 DEF Entitled
  <2>6. Settled(earnings, call, u, r)
    BY <1>b, <2>1, <2>4, <2>5
  <2>7. ~WillPay(c, u, r)
    BY <2>1 DEF WillPay
  <2> HIDE DEF u, r
  <2>8. Settled(earnings', call', u, r)
    BY <1>0, <2>1, <2>6, <2>7, SettledStays
  <2> QED
    BY <2>8
<1>9. ASSUME Elsewhere PROVE Goal
  <2>1. /\ UNCHANGED <<payMode, bounds>> /\ upline' = upline
        /\ earnings' = earnings /\ call' = call
    BY <1>9 DEF Elsewhere, payVars
  <2>2. CASE ledger' = ledger
    BY <1>a, <2>1, <2>2
  <2>3. ASSUME NEW row \in LedgerRow, ledger' = Append(ledger, row),
               row.channel = "dashboard" => ~(row.delta > 0)
        PROVE  Goal
    <3>1. ~(i = Len(ledger) + 1 /\ ledger'[i] = row)
      BY <2>3 DEF Entitled
    <3> QED
      BY <1>b, <2>1, <2>3, <3>1
  <2> QED
    BY <1>0, <1>9, <2>2, <2>3, ElsewhereMoves
<1>10. ~Crash /\ ~(\E m \in PayModes : SetReferralMode(m))
  BY DEF Crash, SetReferralMode, Counted
<1>11. CASE UNCHANGED referralVars
  BY <1>11, <1>a DEF referralVars, vars, payVars
<1> QED
  BY <1>1, <1>2, <1>4, <1>5, <1>6, <1>7, <1>8, <1>9, <1>10, <1>11 DEF ReferralNext

\* No call under way: the reward was given.
LEMMA DueImplies == Due => ThresholdPays
<1> SUFFICES ASSUME Due, InFlight = {}, edits = 0, crashes = 0, payMode = "fixed",
                    Fixed > 0, NEW i \in DOMAIN ledger, ledger[i].channel = "dashboard",
                    ledger[i].delta > 0, upline[ledger[i].user] # NoUser,
                    RechargedBy(ledger[i].user, i) >= Qualify
             PROVE  Rewarded(upline[ledger[i].user], ledger[i].user)
  BY DEF ThresholdPays
<1> DEFINE u == ledger[i].user
<1>1. Deposited(ledger, u, i) = RechargedBy(u, i)
  BY DEF Deposited, DepositRows, RechargedBy
<1>2. Entitled(ledger, upline, i)
  BY <1>1 DEF Entitled
<1>3. \A s \in Slots : call[s].pc = "idle"
  BY DEF InFlight, Step
<1>4. \A s \in Slots : ~WillPay(call[s], u, upline[u])
  BY <1>3 DEF WillPay
<1> QED
  BY <1>2, <1>4 DEF Due, Settled, PaidFor, Rewarded

\* An invitee who has recharged the threshold by hand has its reward as soon as
\* the calls are through, however they overlapped, unless the settings were
\* edited or the process died (OnRecharge, payFixed, grant).
THEOREM ThresholdIsPaid == ReferralSpec => []ThresholdPays
<1>1. ReferralInit => RInv /\ Counted /\ Due
  <2>1. ReferralInit => DOMAIN ledger = {}
    BY DEF ReferralInit, Init, WalletInit
  <2> QED
    BY <2>1, ReferralStart, ReferralUnpaid DEF Due
<1>2. RInv /\ Counted /\ Due /\ [ReferralNext]_referralVars => (RInv /\ Counted /\ Due)'
  BY ReferralStep, CountsStep, DueStep
<1> QED
  BY <1>1, <1>2, DueImplies, PTL DEF ReferralSpec

=============================================================================
