---------------------------- MODULE WalletProofs ----------------------------
(***************************************************************************)
(* What one AdjustBalance does to the wallet invariants, for any caller.   *)
(* The modules that call it cite these lemmas, once per action.  And what  *)
(* sums over tables need: how SumFunctionOnSet changes with its set.       *)
(***************************************************************************)
EXTENDS Wallet, Functions, FiniteSetTheorems, WellFoundedInduction, TLAPS

\* Appending a row keeps the earlier rows where they were (Append in AdjustBalance).
LEMMA AppendedRows ==
  ASSUME NEW S, NEW s \in Seq(S), NEW e \in S, NEW t, t = Append(s, e)
  PROVE  /\ t \in Seq(S) /\ Len(t) = Len(s) + 1
         /\ DOMAIN s = 1..Len(s) /\ DOMAIN t = 1..(Len(s) + 1)
         /\ \A i \in 1..Len(s) : t[i] = s[i]
         /\ t[Len(s) + 1] = e
  OBVIOUS

\* AdjustBalance writes a well-typed ledger row and an integer balance.
LEMMA AdjustKeepsType ==
  ASSUME WalletTypeOK, NEW u \in Users, NEW delta \in Int,
         NEW reason \in Reasons, NEW ref \in Refs \cup {NoRef},
         NEW channel \in Channels, AdjustBalance(u, delta, reason, ref, channel)
  PROVE  WalletTypeOK'
<1> DEFINE next == users[u].balance + delta
           row  == [user |-> u, delta |-> delta, reason |-> reason, ref |-> ref,
                    channel |-> channel, after |-> next]
<1>1. /\ users' = [users EXCEPT ![u].balance = next]
      /\ ledger' = Append(ledger, row)
  BY DEF AdjustBalance
<1>2. users \in [Users -> WalletRow] /\ ledger \in Seq(LedgerRow)
  BY DEF WalletTypeOK
<1>3. next \in Int
  BY <1>2 DEF WalletRow
<1>4. users' \in [Users -> WalletRow]
  BY <1>1, <1>2, <1>3 DEF WalletRow
<1>5. row \in LedgerRow
  BY <1>3 DEF LedgerRow
<1>6. ledger' \in Seq(LedgerRow)
  BY <1>1, <1>2, <1>5, AppendedRows
<1> QED
  BY <1>4, <1>6 DEF WalletTypeOK

\* A committed AdjustBalance keeps the ledger an explanation of the balances.
LEMMA AdjustKeepsBooks ==
  ASSUME WalletTypeOK, LedgerExplainsBalance,
         NEW u \in Users, NEW delta \in Int,
         NEW reason \in Reasons, NEW ref \in Refs \cup {NoRef},
         NEW channel \in Channels, AdjustBalance(u, delta, reason, ref, channel)
  PROVE  LedgerExplainsBalance'
<1> DEFINE next == users[u].balance + delta
           n    == Len(ledger)
           row  == [user |-> u, delta |-> delta, reason |-> reason, ref |-> ref,
                    channel |-> channel, after |-> next]
<1>1. /\ users' = [users EXCEPT ![u].balance = next]
      /\ ledger' = Append(ledger, row)
  BY DEF AdjustBalance
<1>2. users \in [Users -> WalletRow] /\ ledger \in Seq(LedgerRow)
  BY DEF WalletTypeOK
<1>3. next \in Int /\ row \in LedgerRow
  BY <1>2 DEF WalletRow, LedgerRow
<1>4. /\ n \in Nat /\ DOMAIN ledger = 1..n /\ DOMAIN ledger' = 1..(n + 1)
      /\ \A i \in 1..n : ledger'[i] = ledger[i]
      /\ ledger'[n + 1] = row
  BY <1>1, <1>2, <1>3, AppendedRows
<1>5. \A i \in 1..n : ledger[i].user \in Users
  <2>1. \A i \in 1..n : ledger[i] \in LedgerRow
    BY <1>2
  <2> QED
    BY <2>1 DEF LedgerRow
<1>6. \A v \in Users : v # u => users'[v] = users[v]
  BY <1>1, <1>2
<1>7. users'[u].balance = next
  BY <1>1, <1>2 DEF WalletRow
<1>8. \A v \in Users : RowsOf(v)' = IF v = u THEN RowsOf(v) \cup {n + 1} ELSE RowsOf(v)
  BY <1>4 DEF RowsOf
<1>9. \A v \in Users : RowsOf(v) \subseteq 1..n
  BY <1>4 DEF RowsOf
<1>10. ASSUME NEW i \in DOMAIN ledger'
       PROVE  /\ IsFirst(i)' => ledger'[i].after = ledger'[i].delta
              /\ \A j \in DOMAIN ledger' : Precedes(j, i)' =>
                   ledger'[i].after = ledger'[j].after + ledger'[i].delta
              /\ IsLast(i)' => users'[ledger'[i].user].balance = ledger'[i].after
  <2>1. CASE i = n + 1
    <3>1. ledger'[i] = row /\ row.user = u /\ row.after = next /\ row.delta = delta
      BY <2>1, <1>4
    <3>2. ASSUME IsFirst(i)' PROVE next = delta
      <4>1. RowsOf(u) = {}
        BY <3>1, <3>2, <2>1, <1>4, <1>8, <1>9 DEF IsFirst
      <4> QED
        BY <4>1, <1>2 DEF LedgerExplainsBalance, WalletRow
    <3>3. ASSUME NEW j \in DOMAIN ledger', Precedes(j, i)'
          PROVE  next = ledger'[j].after + delta
      <4>1. j \in RowsOf(u) /\ j \in 1..n
        BY <3>1, <3>3, <2>1, <1>4, <1>8, <1>9 DEF Precedes
      <4>2. \A m \in RowsOf(u) : m <= j
        BY <3>1, <3>3, <2>1, <1>4, <1>8, <1>9 DEF Precedes
      <4>3. ledger[j].user = u
        BY <4>1 DEF RowsOf
      <4>4. IsLast(j)
        BY <4>2, <4>3 DEF IsLast
      <4>5. users[u].balance = ledger[j].after
        BY <4>1, <4>3, <4>4, <1>4 DEF LedgerExplainsBalance
      <4> QED
        BY <4>1, <4>5, <1>4
    <3> QED
      BY <3>1, <3>2, <3>3, <1>7
  <2>2. CASE i \in 1..n
    <3>1. ledger'[i] = ledger[i] /\ ledger[i].user \in Users /\ i < n + 1
      BY <2>2, <1>4, <1>5
    <3>2. IsFirst(i)' => IsFirst(i)
      BY <3>1, <1>8 DEF IsFirst
    <3>3. \A j \in DOMAIN ledger' : Precedes(j, i)' =>
            j \in 1..n /\ Precedes(j, i) /\ ledger'[j] = ledger[j]
      BY <3>1, <2>2, <1>4, <1>8, <1>9 DEF Precedes
    <3>4. ASSUME IsLast(i)' PROVE IsLast(i) /\ ledger[i].user # u
      <4>1. \A j \in RowsOf(ledger[i].user)' : j <= i
        BY <3>1, <3>4 DEF IsLast, RowsOf
      <4>2. n + 1 \notin RowsOf(ledger[i].user)'
        BY <4>1, <3>1, <2>2, <1>4
      <4>3. ledger[i].user # u
        BY <4>2, <3>1, <1>4 DEF RowsOf
      <4>4. RowsOf(ledger[i].user) \subseteq RowsOf(ledger[i].user)'
        BY <3>1, <1>8
      <4> QED
        BY <4>1, <4>3, <4>4, <3>1 DEF IsLast, RowsOf
    <3> QED
      BY <3>1, <3>2, <3>3, <3>4, <2>2, <1>4, <1>6 DEF LedgerExplainsBalance
  <2> QED
    BY <2>1, <2>2, <1>4
<1>11. \A v \in Users : RowsOf(v)' = {} => users'[v].balance = 0
  BY <1>6, <1>8 DEF LedgerExplainsBalance
<1> QED
  BY <1>10, <1>11 DEF LedgerExplainsBalance

\* AdjustBalance refuses the second telegram row of a reference.
LEMMA AdjustKeepsRefOnce ==
  ASSUME WalletTypeOK, TelegramRefOnce,
         NEW u \in Users, NEW delta \in Int,
         NEW reason \in Reasons, NEW ref \in Refs \cup {NoRef},
         NEW channel \in Channels, AdjustBalance(u, delta, reason, ref, channel)
  PROVE  TelegramRefOnce'
<1> DEFINE n   == Len(ledger)
           row == [user |-> u, delta |-> delta, reason |-> reason, ref |-> ref,
                   channel |-> channel, after |-> users[u].balance + delta]
<1>1. ledger' = Append(ledger, row) /\ ~Replayed(ref, channel)
  BY DEF AdjustBalance, AdjustReply
<1>2. ledger \in Seq(LedgerRow) /\ row \in LedgerRow
  BY DEF WalletTypeOK, LedgerRow, WalletRow
<1>3. /\ n \in Nat /\ DOMAIN ledger = 1..n /\ DOMAIN ledger' = 1..(n + 1)
      /\ \A i \in 1..n : ledger'[i] = ledger[i]
      /\ ledger'[n + 1] = row
  BY <1>1, <1>2, AppendedRows
<1> QED
  BY <1>1, <1>3 DEF TelegramRefOnce, Replayed

\* AdjustBalance never lowers a balance below the floor in force.
LEMMA AdjustRespectsFloor ==
  ASSUME WalletTypeOK, NEW u \in Users, NEW delta \in Int,
         NEW reason, NEW ref, NEW channel,
         AdjustBalance(u, delta, reason, ref, channel)
  PROVE  DebitsRespectFloor
<1>1. users' = [users EXCEPT ![u].balance = users[u].balance + delta]
  BY DEF AdjustBalance
<1>2. delta >= 0 \/ users[u].balance + delta >= Floor(users[u])
  BY DEF AdjustBalance, AdjustReply, Floor, WalletTypeOK, WalletRow
<1> QED
  BY <1>1, <1>2 DEF DebitsRespectFloor, WalletTypeOK, WalletRow

-----------------------------------------------------------------------------

\* What every module that moves money keeps.
WalletInv == WalletTypeOK /\ LedgerExplainsBalance /\ TelegramRefOnce

\* One balance move by any caller keeps every wallet invariant.
LEMMA MoveKeepsWallet ==
  ASSUME WalletInv, NEW u \in Users, NEW delta \in Int, NEW reason \in Reasons,
         NEW ref \in Refs \cup {NoRef}, NEW channel \in Channels,
         AdjustBalance(u, delta, reason, ref, channel)
  PROVE  WalletInv' /\ DebitsRespectFloor
<1>1. WalletTypeOK /\ LedgerExplainsBalance /\ TelegramRefOnce
  BY DEF WalletInv
<1> QED
  BY <1>1, AdjustKeepsType, AdjustKeepsBooks, AdjustKeepsRefOnce,
     AdjustRespectsFloor DEF WalletInv

\* A step that leaves the balances alone keeps the books and the floor.
LEMMA StillWallet ==
  ASSUME WalletInv, UNCHANGED ledger, users' \in [Users -> WalletRow],
         \A v \in Users : users'[v].balance = users[v].balance
  PROVE  WalletInv' /\ DebitsRespectFloor
<1>1. WalletTypeOK'
  BY DEF WalletInv, WalletTypeOK
<1>2. \A i \in DOMAIN ledger : ledger[i].user \in Users
  <2>1. \A i \in DOMAIN ledger : ledger[i] \in LedgerRow
    BY DEF WalletInv, WalletTypeOK
  <2> QED
    BY <2>1 DEF LedgerRow
<1>3. LedgerExplainsBalance'
  <2>1. \A i, j : /\ IsFirst(i)' <=> IsFirst(i)
                  /\ IsLast(i)' <=> IsLast(i)
                  /\ Precedes(j, i)' <=> Precedes(j, i)
    BY DEF IsFirst, IsLast, Precedes, RowsOf
  <2>2. \A v \in Users : RowsOf(v)' = RowsOf(v)
    BY DEF RowsOf
  <2> QED
    BY <1>2, <2>1, <2>2 DEF WalletInv, LedgerExplainsBalance
<1>4. TelegramRefOnce'
  BY DEF WalletInv, TelegramRefOnce
<1>5. DebitsRespectFloor
  BY DEF DebitsRespectFloor, WalletInv, WalletTypeOK, WalletRow
<1> QED
  BY <1>1, <1>3, <1>4, <1>5 DEF WalletInv

-----------------------------------------------------------------------------
(* Sums over finite sets (SumFunctionOnSet), by smallest counterexample.   *)

\* A nonempty set of natural numbers has a least element.
LEMMA LeastNat ==
  ASSUME NEW T \in SUBSET Nat, T # {}
  PROVE  \E m \in T : \A n \in T : m <= n
<1> DEFINE R == OpToRel(<, Nat)
<1>1. \A x, y \in Nat : y < x => <<y, x>> \in R
  BY DEF OpToRel
<1>2. IsWellFoundedOn(R, Nat) /\ T \subseteq Nat
  BY NatLessThanWellFounded
<1> HIDE DEF R
<1>3. PICK m \in T : \A n \in T : ~ (<<n, m>> \in R)
  BY <1>2, WFMin
<1>4. \A n \in T : ~ (n < m)
  BY <1>1, <1>3
<1> QED
  BY <1>4

\* The element the library takes next, and what its recursion asks of g.
Foremost(s) == CHOOSE x \in s : TRUE
Sums(g, f, S) ==
  g = [s \in SUBSET S |-> IF s = {} THEN 0 ELSE f[Foremost(s)] + g[s \ {Foremost(s)}]]

\* A set with an element loses it and becomes smaller.
LEMMA LessOne ==
  ASSUME NEW s, IsFiniteSet(s), NEW x \in s
  PROVE  /\ IsFiniteSet(s \ {x}) /\ Cardinality(s \ {x}) = Cardinality(s) - 1
         /\ Cardinality(s) \in Nat /\ Cardinality(s \ {x}) \in Nat
<1>1. IsFiniteSet(s \ {x}) /\ Cardinality(s \ {x}) = Cardinality(s) - 1
  BY FS_RemoveElement
<1> QED
  BY <1>1, FS_CardinalityType

\* The element taken is an element.
LEMMA ForemostIsElement ==
  ASSUME NEW s, s # {}
  PROVE  Foremost(s) \in s
  BY DEF Foremost

\* The recursion has a solution: one that is right for sets of n elements makes
\* one that is right for n + 1.
LEMMA SumsExist ==
  ASSUME NEW f, NEW S, IsFiniteSet(S)
  PROVE  \E g : Sums(g, f, S)
<1> DEFINE Body(g, s) == IF s = {} THEN 0 ELSE f[Foremost(s)] + g[s \ {Foremost(s)}]
           Upto(n) == \E g : /\ g = [s \in SUBSET S |-> g[s]]
                             /\ \A s \in SUBSET S : Cardinality(s) <= n => g[s] = Body(g, s)
           Bad == {n \in Nat : ~Upto(n)}
<1>0. \A s \in SUBSET S : IsFiniteSet(s) /\ Cardinality(s) \in Nat
  BY FS_Subset, FS_CardinalityType
<1>1. Upto(0)
  <2> DEFINE g == [s \in SUBSET S |-> 0]
  <2>1. g = [s \in SUBSET S |-> g[s]]
    OBVIOUS
  <2>2. ASSUME NEW s \in SUBSET S, Cardinality(s) <= 0 PROVE g[s] = Body(g, s)
    <3>1. s = {}
      BY <1>0, <2>2, FS_EmptySet
    <3> QED
      BY <3>1
  <2> QED
    BY <2>1, <2>2
<1>2. ASSUME NEW n \in Nat, Upto(n) PROVE Upto(n + 1)
  <2>1. PICK g : \A s \in SUBSET S : Cardinality(s) <= n => g[s] = Body(g, s)
    BY <1>2
  <2> DEFINE h == [s \in SUBSET S |-> Body(g, s)]
  <2>2. h = [s \in SUBSET S |-> h[s]]
    OBVIOUS
  <2>3. ASSUME NEW s \in SUBSET S, Cardinality(s) <= n + 1 PROVE h[s] = Body(h, s)
    <3>1. CASE s = {}
      BY <3>1
    <3>2. CASE s # {}
      <4> DEFINE t == s \ {Foremost(s)}
      <4>1. /\ Cardinality(t) = Cardinality(s) - 1 /\ Cardinality(s) \in Nat
            /\ t \in SUBSET S
        BY <1>0, <3>2, ForemostIsElement, LessOne
      <4>2. Cardinality(t) <= n
        <5> HIDE DEF t
        <5> QED BY <2>3, <4>1
      <4>3. g[t] = Body(g, t)
        BY <2>1, <4>1, <4>2
      <4>4. h[t] = g[t]
        BY <4>1, <4>3
      <4> QED
        BY <3>2, <4>4
    <3> QED
      BY <3>1, <3>2
  <2> HIDE DEF h, Body
  <2> QED
    BY <2>2, <2>3
<1> HIDE DEF Upto
<1>3. Bad = {}
  <2> SUFFICES ASSUME Bad # {} PROVE FALSE
    OBVIOUS
  <2>1. PICK m \in Bad : \A n \in Bad : m <= n
    BY LeastNat
  <2>2. m \in Nat /\ ~Upto(m) /\ m # 0
    BY <1>1
  <2>3. m - 1 \in Nat /\ m - 1 \notin Bad
    BY <2>1, <2>2
  <2>4. Upto(m - 1)
    BY <2>3
  <2>5. Upto((m - 1) + 1)
    BY <1>2, <2>3, <2>4
  <2>6. (m - 1) + 1 = m
    BY <2>2
  <2> QED
    BY <2>2, <2>5, <2>6
<1>4. Upto(Cardinality(S))
  BY <1>0, <1>3
<1>5. PICK g : /\ g = [s \in SUBSET S |-> g[s]]
               /\ \A s \in SUBSET S : Cardinality(s) <= Cardinality(S) => g[s] = Body(g, s)
  BY <1>4 DEF Upto
<1>6. \A s \in SUBSET S : g[s] = Body(g, s)
  BY <1>0, <1>5, FS_Subset
<1> QED
  BY <1>5, <1>6 DEF Sums

\* What a solution says of a set depends on the values in that set only.
LEMMA SumsAgree ==
  ASSUME NEW f, NEW e, NEW S, NEW T, NEW g, NEW h, Sums(g, f, S), Sums(h, e, T),
         NEW U, IsFiniteSet(U), U \subseteq S, U \subseteq T, \A x \in U : f[x] = e[x]
  PROVE  g[U] = h[U]
<1> DEFINE Bad == {Cardinality(s) : s \in {s \in SUBSET U : g[s] # h[s]}}
<1>0. \A s \in SUBSET U : IsFiniteSet(s) /\ Cardinality(s) \in Nat
  BY FS_Subset, FS_CardinalityType
<1>a. ASSUME NEW s \in SUBSET U
      PROVE  /\ g[s] = IF s = {} THEN 0 ELSE f[Foremost(s)] + g[s \ {Foremost(s)}]
             /\ h[s] = IF s = {} THEN 0 ELSE e[Foremost(s)] + h[s \ {Foremost(s)}]
  <2>1. s \in SUBSET S /\ s \in SUBSET T
    OBVIOUS
  <2> QED
    BY <2>1 DEF Sums
<1> SUFFICES ASSUME Bad # {} PROVE FALSE
  OBVIOUS
<1>1. Bad \in SUBSET Nat
  BY <1>0
<1>2. PICK m \in Bad : \A n \in Bad : m <= n
  BY <1>1, LeastNat
<1>3. PICK s \in SUBSET U : g[s] # h[s] /\ m = Cardinality(s)
  BY <1>2
<1>4. s # {}
  BY <1>3, <1>a
<1> DEFINE t == s \ {Foremost(s)}
<1>5. Foremost(s) \in U /\ t \in SUBSET U
  BY <1>4, ForemostIsElement
<1>6. Cardinality(t) = m - 1 /\ m \in Nat /\ Cardinality(t) \in Nat
  BY <1>0, <1>3, <1>4, ForemostIsElement, LessOne
<1>7. Cardinality(t) \notin Bad
  <2> HIDE DEF t, Bad
  <2> QED
    BY <1>2, <1>6
<1>8. g[t] = h[t]
  BY <1>5, <1>7
<1> QED
  BY <1>3, <1>4, <1>5, <1>8, <1>a

\* SumFunctionOnSet is a solution.
LEMMA SumSolves ==
  ASSUME NEW f, NEW S, IsFiniteSet(S)
  PROVE  \E g : Sums(g, f, S) /\ SumFunctionOnSet(f, S) = g[S]
<1>1. SumFunctionOnSet(f, S) = (CHOOSE g : Sums(g, f, S))[S]
  BY DEF SumFunctionOnSet, FoldFunctionOnSet, MapThenFoldSet, Sums, Foremost
<1>2. Sums(CHOOSE g : Sums(g, f, S), f, S)
  BY SumsExist
<1> QED
  BY <1>1, <1>2

\* A sum depends on the values that are summed only.
LEMMA SumSame ==
  ASSUME NEW f, NEW e, NEW S, IsFiniteSet(S), \A x \in S : f[x] = e[x]
  PROVE  SumFunctionOnSet(f, S) = SumFunctionOnSet(e, S)
<1>1. PICK g : Sums(g, f, S) /\ SumFunctionOnSet(f, S) = g[S]
  BY SumSolves
<1>2. PICK h : Sums(h, e, S) /\ SumFunctionOnSet(e, S) = h[S]
  BY SumSolves
<1> QED
  BY <1>1, <1>2, SumsAgree

\* The sum over nothing.
LEMMA SumEmpty ==
  ASSUME NEW f
  PROVE  SumFunctionOnSet(f, {}) = 0
<1>1. PICK g : Sums(g, f, {}) /\ SumFunctionOnSet(f, {}) = g[{}]
  BY SumSolves, FS_EmptySet
<1> QED
  BY <1>1 DEF Sums

\* The element the library takes first can be split off.
LEMMA SumFirst ==
  ASSUME NEW f, NEW S, IsFiniteSet(S), S # {}
  PROVE  SumFunctionOnSet(f, S)
           = f[Foremost(S)] + SumFunctionOnSet(f, S \ {Foremost(S)})
<1> DEFINE T == S \ {Foremost(S)}
<1>0. IsFiniteSet(T) /\ T \in SUBSET S
  BY ForemostIsElement, LessOne
<1>1. PICK g : Sums(g, f, S) /\ SumFunctionOnSet(f, S) = g[S]
  BY SumSolves
<1>2. PICK h : Sums(h, f, T) /\ SumFunctionOnSet(f, T) = h[T]
  BY <1>0, SumSolves
<1>3. g[T] = h[T]
  BY <1>0, <1>1, <1>2, SumsAgree
<1>4. g[S] = f[Foremost(S)] + g[T]
  BY <1>1 DEF Sums
<1> QED
  BY <1>1, <1>2, <1>3, <1>4

\* Any element can be split off, since the numbers commute.
LEMMA SumSplit ==
  ASSUME NEW f, NEW U, IsFiniteSet(U), \A x \in U : f[x] \in Int
  PROVE  /\ SumFunctionOnSet(f, U) \in Int
         /\ \A x \in U : SumFunctionOnSet(f, U) = f[x] + SumFunctionOnSet(f, U \ {x})
<1> DEFINE Good(s) ==
      /\ SumFunctionOnSet(f, s) \in Int
      /\ \A x \in s : SumFunctionOnSet(f, s) = f[x] + SumFunctionOnSet(f, s \ {x})
           Bad == {Cardinality(s) : s \in {s \in SUBSET U : ~Good(s)}}
<1>0. \A s \in SUBSET U : IsFiniteSet(s) /\ Cardinality(s) \in Nat
  BY FS_Subset, FS_CardinalityType
<1> SUFFICES ASSUME Bad # {} PROVE FALSE
  OBVIOUS
<1>1. Bad \in SUBSET Nat
  BY <1>0
<1>2. PICK m \in Bad : \A n \in Bad : m <= n
  BY <1>1, LeastNat
<1> HIDE DEF Good
<1>3. PICK s \in SUBSET U : ~Good(s) /\ m = Cardinality(s)
  BY <1>2
<1>4. \A t \in SUBSET U : Cardinality(t) < m => Good(t)
  <2>1. m \in Nat
    BY <1>0, <1>3
  <2> QED
    BY <1>0, <1>2, <2>1
<1>5. \A x \in s : s \ {x} \in SUBSET U /\ Good(s \ {x})
  <2> TAKE x \in s
  <2>1. Cardinality(s \ {x}) = m - 1 /\ m \in Nat /\ Cardinality(s \ {x}) \in Nat
    BY <1>0, <1>3, LessOne
  <2> QED
    BY <1>4, <2>1
<1>6. s # {}
  BY <1>3, SumEmpty DEF Good
<1> DEFINE c == Foremost(s)
           Of(t) == SumFunctionOnSet(f, t)
<1>7. c \in s /\ Of(s) = f[c] + Of(s \ {c}) /\ f[c] \in Int
  BY <1>0, <1>6, ForemostIsElement, SumFirst
<1>8. Of(s) \in Int
  BY <1>5, <1>7 DEF Good
<1>9. ASSUME NEW x \in s PROVE Of(s) = f[x] + Of(s \ {x})
  <2>1. CASE x = c
    BY <1>7, <2>1
  <2>2. CASE x # c
    <3>1. x \in s \ {c} /\ c \in s \ {x} /\ (s \ {c}) \ {x} = (s \ {x}) \ {c}
      BY <1>7, <2>2
    <3>2. Of(s \ {c}) = f[x] + Of((s \ {c}) \ {x})
      BY <1>5, <1>7, <3>1 DEF Good
    <3>3. Of(s \ {x}) = f[c] + Of((s \ {x}) \ {c})
      BY <1>5, <3>1 DEF Good
    <3>4. Of((s \ {x}) \ {c}) \in Int
      <4>1. Good((s \ {x}) \ {c})
        <5>1. (s \ {x}) \ {c} \in SUBSET U
          OBVIOUS
        <5>2. /\ Cardinality(s \ {x}) = m - 1 /\ m \in Nat
              /\ IsFiniteSet(s \ {x}) /\ Cardinality(s \ {x}) \in Nat
          BY <1>0, <1>3, LessOne
        <5>3. Cardinality((s \ {x}) \ {c}) = Cardinality(s \ {x}) - 1
          BY <3>1, <5>2, LessOne
        <5> HIDE DEF c
        <5>4. Cardinality((s \ {x}) \ {c}) < m
          BY <5>2, <5>3
        <5> QED
          BY <1>4, <5>1, <5>4
      <4> QED
        BY <4>1 DEF Good
    <3>5. f[x] \in Int /\ f[c] \in Int
      BY <1>7
    <3>6. Of(s \ {c}) = f[x] + Of((s \ {x}) \ {c})
      BY <3>1, <3>2, Zenon
    <3> HIDE DEF c, Of
    <3> QED
      BY <1>7, <3>3, <3>4, <3>5, <3>6
  <2> QED
    BY <2>1, <2>2
<1> QED
  BY <1>3, <1>8, <1>9 DEF Good

\* A new element adds its value.
LEMMA SumAdd ==
  ASSUME NEW f, NEW S, IsFiniteSet(S), NEW x, x \notin S, f[x] \in Int,
         \A y \in S : f[y] \in Int
  PROVE  /\ SumFunctionOnSet(f, S) \in Int
         /\ SumFunctionOnSet(f, S \cup {x}) = SumFunctionOnSet(f, S) + f[x]
<1> DEFINE T == S \cup {x}
<1>1. IsFiniteSet(T) /\ T \ {x} = S /\ x \in T /\ \A y \in T : f[y] \in Int
  BY FS_AddElement
<1>2. SumFunctionOnSet(f, T) = f[x] + SumFunctionOnSet(f, T \ {x})
  <2> HIDE DEF T
  <2> QED BY <1>1, SumSplit
<1>3. SumFunctionOnSet(f, S) \in Int
  BY SumSplit
<1>4. SumFunctionOnSet(f, T) = f[x] + SumFunctionOnSet(f, S)
  BY <1>1, <1>2, Zenon
<1> QED
  BY <1>3, <1>4

\* Without an element, its value is missing.
LEMMA SumRemove ==
  ASSUME NEW f, NEW S, IsFiniteSet(S), NEW x \in S, \A y \in S : f[y] \in Int
  PROVE  /\ SumFunctionOnSet(f, S) \in Int /\ SumFunctionOnSet(f, S \ {x}) \in Int
         /\ SumFunctionOnSet(f, S \ {x}) = SumFunctionOnSet(f, S) - f[x]
<1>1. /\ SumFunctionOnSet(f, S) \in Int
      /\ SumFunctionOnSet(f, S) = f[x] + SumFunctionOnSet(f, S \ {x})
  BY SumSplit
<1>2. IsFiniteSet(S \ {x}) /\ \A y \in S \ {x} : f[y] \in Int
  BY FS_RemoveElement
<1>3. SumFunctionOnSet(f, S \ {x}) \in Int
  BY <1>2, SumSplit
<1> QED
  BY <1>1, <1>3

\* What is summed is not negative, nor is a part of it more than the whole.
LEMMA SumParts ==
  ASSUME NEW f, NEW S, IsFiniteSet(S), \A y \in S : f[y] \in Nat, NEW T \in SUBSET S
  PROVE  /\ SumFunctionOnSet(f, S) \in Nat /\ SumFunctionOnSet(f, T) \in Nat
         /\ SumFunctionOnSet(f, T) <= SumFunctionOnSet(f, S)
<1> DEFINE Of(s) == SumFunctionOnSet(f, s)
           Good(s) == Of(s) \in Nat /\ (T \subseteq s => Of(T) <= Of(s))
           Bad == {Cardinality(s) : s \in {s \in SUBSET S : ~Good(s)}}
<1>0. \A s \in SUBSET S : IsFiniteSet(s) /\ Cardinality(s) \in Nat
  BY FS_Subset, FS_CardinalityType
<1>1. Bad = {}
  <2> SUFFICES ASSUME Bad # {} PROVE FALSE
    OBVIOUS
  <2>1. Bad \in SUBSET Nat
    BY <1>0
  <2>2. PICK m \in Bad : \A n \in Bad : m <= n
    BY <2>1, LeastNat
  <2> HIDE DEF Good
  <2>3. PICK s \in SUBSET S : ~Good(s) /\ m = Cardinality(s)
    BY <2>2
  <2>4. \A x \in s : Good(s \ {x})
    <3> TAKE x \in s
    <3>1. Cardinality(s \ {x}) = m - 1 /\ m \in Nat /\ s \ {x} \in SUBSET S
      BY <1>0, <2>3, LessOne
    <3> QED
      BY <2>2, <3>1, <1>0
  <2>5. \A x \in s : Of(s) = f[x] + Of(s \ {x}) /\ f[x] \in Nat
    BY <1>0, <2>3, SumSplit
  <2>6. CASE s = {}
    <3>1. Of(s) = 0 /\ (T \subseteq s => T = s)
      BY <2>6, SumEmpty
    <3> QED
      BY <2>3, <3>1 DEF Good
  <2>7. ASSUME NEW x \in s, x \notin T PROVE FALSE
    <3>1. T \subseteq s => T \subseteq s \ {x}
      BY <2>7
    <3>2. Of(s \ {x}) \in Nat /\ (T \subseteq s => Of(T) <= Of(s \ {x}))
      BY <2>4, <2>7, <3>1 DEF Good
    <3>3. Of(s) = f[x] + Of(s \ {x}) /\ f[x] \in Nat
      BY <2>5, <2>7
    <3>4. CASE T \subseteq s
      <4>1. T \in SUBSET S /\ Of(T) \in Int
        BY <1>0, SumSplit
      <4> HIDE DEF Of
      <4>2. Of(s) \in Nat /\ Of(T) <= Of(s)
        BY <3>2, <3>3, <3>4, <4>1
      <4> QED
        BY <2>3, <4>2 DEF Good
    <3>5. CASE ~(T \subseteq s)
      <4> HIDE DEF Of
      <4>1. Of(s) \in Nat
        BY <3>2, <3>3
      <4> QED
        BY <2>3, <3>5, <4>1 DEF Good
    <3> QED
      BY <3>4, <3>5
  <2>8. CASE s # {} /\ s \subseteq T
    <3>1. PICK x \in s : TRUE
      BY <2>8
    <3>2. Of(s \ {x}) \in Nat
      BY <2>4, <3>1 DEF Good
    <3>3. Of(s) = f[x] + Of(s \ {x}) /\ f[x] \in Nat
      BY <2>5, <3>1
    <3>4. Of(s) \in Nat
      <4> HIDE DEF Of
      <4> QED
        BY <3>2, <3>3
    <3>5. T \subseteq s => T = s
      BY <2>8
    <3> QED
      BY <2>3, <3>4, <3>5 DEF Good
  <2> QED
    BY <2>6, <2>7, <2>8
<1>2. \A s \in SUBSET S : Good(s)
  BY <1>1
<1> QED
  BY <1>2

\* No value is more than the whole.
LEMMA SumAtLeast ==
  ASSUME NEW f, NEW S, IsFiniteSet(S), \A y \in S : f[y] \in Nat, NEW x \in S
  PROVE  f[x] <= SumFunctionOnSet(f, S)
<1>1. SumFunctionOnSet(f, S) = f[x] + SumFunctionOnSet(f, S \ {x})
  BY SumSplit
<1>2. SumFunctionOnSet(f, S \ {x}) \in Nat
  BY SumParts
<1> QED
  BY <1>1, <1>2

\* A set that grows by x, of which the values stay, adds the value of x.
LEMMA SumGrows ==
  ASSUME NEW f, NEW g, NEW S, IsFiniteSet(S), NEW x, x \notin S,
         \A y \in S : f[y] \in Int /\ g[y] = f[y], g[x] \in Int
  PROVE  /\ SumFunctionOnSet(f, S) \in Int
         /\ SumFunctionOnSet(g, S \cup {x}) = SumFunctionOnSet(f, S) + g[x]
<1>1. SumFunctionOnSet(g, S) = SumFunctionOnSet(f, S)
  BY SumSame
<1>2. \A y \in S : g[y] \in Int
  OBVIOUS
<1>3. /\ SumFunctionOnSet(g, S) \in Int
      /\ SumFunctionOnSet(g, S \cup {x}) = SumFunctionOnSet(g, S) + g[x]
  BY <1>2, SumAdd
<1> QED
  BY <1>1, <1>3

=============================================================================
