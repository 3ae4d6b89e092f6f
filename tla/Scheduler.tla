----------------------------- MODULE Scheduler ------------------------------
(***************************************************************************)
(* internal/scheduler: a key may be bound to upstream accounts, each with  *)
(* a share in percent, and HandlePick spreads the key's requests over the  *)
(* bound accounts among the host's candidates by a weighted round robin    *)
(* whose cursor is kept in memory, per key, under a mutex.                 *)
(***************************************************************************)
EXTENDS Integers, Sequences, FiniteSets

CONSTANTS Keys,
          Accounts,      \* account references of bindings
          Candidates,    \* candidate ids of the host
          Matching,      \* candidateMatches: <<candidate, reference>>
          Whole          \* 100 percent

VARIABLES bindings,      \* key_account_bindings, per key, in list order
          cursors        \* cursors: weighted picks made so far, per key

Binding == [account : Accounts, share : 0..Whole, enabled : BOOLEAN]

SchedulerInit(b) == bindings = b /\ cursors = [k \in Keys |-> 0]

\* The percents a list gives away, one by one: entry n has as many as its share.
Percents(list) == {p \in (DOMAIN list) \X (1..Whole) : p[2] <= list[p[1]].share}
ShareSum(list) == Cardinality(Percents(list))

\* SetBindings: the shares asked for may not exceed the whole, nor a reference
\* come twice; a share left at zero is stored as the whole.
SetBindings(k, list) ==
  /\ ShareSum(list) <= Whole
  /\ \A i, j \in DOMAIN list : list[i].account = list[j].account => i = j
  /\ bindings' = [bindings EXCEPT ![k] =
       [i \in DOMAIN list |-> [list[i] EXCEPT !.share = IF @ = 0 THEN Whole ELSE @]]]
  /\ UNCHANGED cursors

\* The places among the host's candidates that an enabled binding matches, each
\* with the share of the first that does, of at least one percent.
Eligible(list, candidates) ==
  LET match(c) == {i \in DOMAIN list : list[i].enabled /\ <<c, list[i].account>> \in Matching}
      first(c) == CHOOSE i \in match(c) : \A j \in match(c) : i <= j
      share(c) == list[first(c)].share
  IN [n \in {n \in DOMAIN candidates : match(candidates[n]) # {}} |->
       [candidate |-> candidates[n],
        share     |-> IF share(candidates[n]) = 0 THEN 1 ELSE share(candidates[n])]]

\* Faulty variant: the cursor goes round the places, not their shares.
SlotPerPlace(elig, cursor) ==
  LET before(n) == Cardinality({m \in DOMAIN elig : m < n})
  IN elig[CHOOSE n \in DOMAIN elig : before(n) = cursor % Cardinality(DOMAIN elig)].candidate

\* The candidate whose span of percents holds the cursor.
Slot(elig, cursor) ==
  LET before(n) == Cardinality({p \in Percents(elig) : p[1] < n})
      upTo(n)   == Cardinality({p \in Percents(elig) : p[1] <= n})
      slot      == cursor % ShareSum(elig)
  IN elig[CHOOSE n \in DOMAIN elig : before(n) <= slot /\ slot < upTo(n)].candidate

\* The critical section of a pick between several candidates.
NextCursor(k) == cursors' = [cursors EXCEPT ![k] = @ + 1] /\ UNCHANGED bindings
=============================================================================
