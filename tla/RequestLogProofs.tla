-------------------------- MODULE RequestLogProofs --------------------------
(***************************************************************************)
(* For any keys, requests, threads, modes, retentions and costs: what is   *)
(* logged stays private, bounded, complete and true, whatever the order of *)
(* the statements and wherever the process dies.  A row is computed some   *)
(* statements before it is inserted, and its cost is found out after that, *)
(* so the invariant says what a call carries between its statements.       *)
(***************************************************************************)
EXTENDS RequestLog, FiniteSetTheorems, WellFoundedInduction, TLAPS

Results == Costs \cup {NoRecord, ChargeError}

Calls ==
  {Idle}
    \cup [pc : {"capture", "error"}, req : Requests]
    \cup [pc : {"insert"}, req : Requests, result : Results, row : LogRow]
    \cup [pc : {"last", "charge"}, req : Requests, result : Results]
    \cup [pc : {"cost"}, req : Requests, result : Results, id : Nat]
    \cup [pc : {"update"}, req : Requests, result : Results, id : Nat, cost : Nat]
    \cup [pc : {"failure"}, req : Requests, key : Keys \cup {None}]
    \cup [pc : {"purge"}]

\* The types the other parts rest on.
Tables ==
  /\ mode \in [Keys -> Modes] /\ pending \subseteq Requests
  /\ logs \in Seq(LogRow) /\ usage \in Seq(UsageRow)
  /\ call \in [Slots -> Calls] /\ now \in Nat

\* Rows of the log belong to the key they were written for, so a call that is to
\* write a cost into a row knows whose it is.
OwnRow(c, rows, records) ==
  /\ c.id \in DOMAIN rows /\ rows[c.id].key = KeyOf[c.req]
  /\ c.pc = "update" /\ c.cost > 0 =>
       \E j \in DOMAIN records : /\ records[j].key = KeyOf[c.req]
                                 /\ records[j].cost = c.cost

Brief(row, time) == row.context => row.mode = "full" /\ row.purge \in 0..time + Retention

\* What call c carries from one statement to the next.
Carries(c, rows, records, time) ==
  /\ c.pc = "insert" => /\ Brief(c.row, time) /\ c.row.cost = 0
                        /\ c.row.req = c.req
  /\ c.pc \in {"cost", "update"} => OwnRow(c, rows, records)

Carried == \A s \in Slots : Carries(call[s], logs, usage, now)

\* Usage records of a request, its log rows, and the calls in between: a row is
\* there for each record and for each call that has not come to its own yet.
RecordsOf(r)  == {n \in DOMAIN usage : usage[n].req = r}
RowsOf(r)     == {j \in DOMAIN logs : logs[j].req = r}
BetweenPcs    == {"last", "cost", "update", "charge"}
Between(r)    == {s \in Slots : call[s].pc \in BetweenPcs /\ call[s].req = r}

Counted ==
  \A r \in Requests :
    Cardinality(RecordsOf(r)) + Cardinality(Between(r)) <= Cardinality(RowsOf(r))

Bounded == IsFiniteSet(pending) /\ PendingBounded

LogInv == Tables /\ ContextIsBrief /\ CostsAreBilled /\ Carried /\ Counted /\ Bounded

-----------------------------------------------------------------------------
(* Sequences and their last entries.                                       *)

\* A nonempty set of natural numbers has a least element.
LEMMA LeastNat ==
  ASSUME NEW T \in SUBSET Nat, T # {}
  PROVE  \E m \in T : \A n \in T : m <= n
<1> DEFINE R == OpToRel(<, Nat)
<1>1. \A x, y \in Nat : y < x => <<y, x>> \in R
  BY DEF OpToRel
<1>2. IsWellFoundedOn(R, Nat) /\ T \subseteq Nat
  BY NatLessThanWellFounded
<1> HIDE DEF R
<1>3. PICK m \in T : \A n \in T : ~ (<<n, m>> \in R)
  BY <1>2, WFMin
<1>4. \A n \in T : ~ (n < m)
  BY <1>1, <1>3
<1> QED
  BY <1>4

\* The newest of some rows is one of them (LastLog, LastCost).
LEMMA NewestIsThere ==
  ASSUME NEW n \in Nat, NEW S \in SUBSET (1..n), S # {}
  PROVE  Max(S) \in S
<1> DEFINE T == {n - i : i \in S}
<1>1. T \in SUBSET Nat /\ T # {}
  <2>1. \A i \in S : n - i \in Nat
    OBVIOUS
  <2>2. \A t \in T : t \in Nat
    BY <2>1
  <2> QED
    BY <2>2
<1>2. PICK m \in T : \A t \in T : m <= t
  BY <1>1, LeastNat
<1>3. \E x \in S : \A y \in S : x >= y
  <2>1. PICK x \in S : m = n - x
    BY <1>2
  <2> QED
    BY <1>2, <2>1
<1> QED
  BY <1>3 DEF Max

\* Appending a row keeps the earlier rows where they were.
LEMMA AppendedRows ==
  ASSUME NEW S, NEW q \in Seq(S), NEW e \in S, NEW t, t = Append(q, e)
  PROVE  /\ t \in Seq(S) /\ Len(q) \in Nat /\ Len(t) = Len(q) + 1
         /\ DOMAIN q = 1..Len(q) /\ DOMAIN t = 1..(Len(q) + 1)
         /\ \A i \in 1..Len(q) : t[i] = q[i]
         /\ t[Len(q) + 1] = e
  OBVIOUS

\* A table whose rows are replaced where they are is still a table.
LEMMA ReplacedRows ==
  ASSUME NEW S, NEW q \in Seq(S), NEW t, t \in [DOMAIN q -> S]
  PROVE  t \in Seq(S)
  OBVIOUS

-----------------------------------------------------------------------------
(* Calls and tables from one step to the next.                             *)

USE RequestLogAssumption

\* A call is what its pc says.
LEMMA Shape ==
  ASSUME NEW c \in Calls
  PROVE  /\ c.pc \in {"capture", "error"} => c.req \in Requests
         /\ c.pc = "insert" => /\ c.req \in Requests /\ c.result \in Results
                               /\ c.row \in LogRow
         /\ c.pc \in {"last", "charge", "cost", "update"} =>
              c.req \in Requests /\ c.result \in Results
         /\ c.pc \in {"cost", "update"} => c.id \in Nat
         /\ c.pc = "update" => c.cost \in Nat
         /\ c.pc = "failure" => c.req \in Requests /\ c.key \in Keys \cup {None}
  BY DEF Calls, Idle

\* Rows keep their key and request, records stay as they are.
Grows ==
  /\ logs' \in Seq(LogRow) /\ usage' \in Seq(UsageRow)
  /\ DOMAIN logs \subseteq DOMAIN logs' /\ DOMAIN usage \subseteq DOMAIN usage'
  /\ \A i \in DOMAIN logs : logs'[i].key = logs[i].key /\ logs'[i].req = logs[i].req
  /\ \A j \in DOMAIN usage : usage'[j] = usage[j]

\* One slot moves on to call d; what the others carry still holds.
LEMMA SlotMoves ==
  ASSUME Tables, Carried, Grows, now' \in Nat, now' >= now,
         NEW s \in Slots, NEW d \in Calls, Set(s, d), Carries(d, logs', usage', now')
  PROVE  /\ call' \in [Slots -> Calls] /\ Carried'
         /\ \A t \in Slots : call'[t] = IF t = s THEN d ELSE call[t]
<1>1. /\ call' \in [Slots -> Calls]
      /\ \A t \in Slots : call'[t] = IF t = s THEN d ELSE call[t]
  BY DEF Tables, Set
<1>2. ASSUME NEW t \in Slots, t # s PROVE Carries(call[t], logs', usage', now')
  <2> DEFINE c == call[t]
  <2>1. c \in Calls /\ Carries(c, logs, usage, now) /\ now \in Nat
    BY DEF Tables, Carried
  <2>2. ASSUME c.pc = "insert" PROVE Brief(c.row, now')
    <3>1. c.row \in LogRow /\ Brief(c.row, now)
      BY <2>1, <2>2, Shape DEF Carries
    <3> QED
      BY <2>1, <3>1 DEF Brief, LogRow
  <2>3. ASSUME c.pc \in {"cost", "update"} PROVE OwnRow(c, logs', usage')
    BY <2>1, <2>3 DEF Carries, OwnRow, Grows
  <2> QED
    BY <2>1, <2>2, <2>3 DEF Carries
<1>3. \A t \in Slots : Carries(call'[t], logs', usage', now')
  BY <1>1, <1>2
<1> QED
  BY <1>1, <1>3 DEF Carried

\* What is counted is finite.
LEMMA FiniteRows ==
  ASSUME NEW S, NEW q \in Seq(S), NEW R \in SUBSET DOMAIN q
  PROVE  IsFiniteSet(R) /\ Cardinality(R) \in Nat
<1>1. IsFiniteSet(1..Len(q)) /\ R \in SUBSET (1..Len(q))
  BY FS_Interval
<1> QED
  BY <1>1, FS_Subset, FS_CardinalityType

\* So are the calls in progress.
LEMMA FiniteSlots ==
  ASSUME NEW R \in SUBSET Slots
  PROVE  IsFiniteSet(R) /\ Cardinality(R) \in Nat
  BY FS_Subset, FS_CardinalityType

\* More rows and no more records or calls in between: the count still holds.
LEMMA QuietCount ==
  ASSUME Tables, Tables', Counted,
         \A r \in Requests : /\ RecordsOf(r)' \subseteq RecordsOf(r)
                             /\ Between(r)' \subseteq Between(r)
                             /\ RowsOf(r) \subseteq RowsOf(r)'
  PROVE  Counted'
<1> SUFFICES ASSUME NEW r \in Requests
             PROVE  Cardinality(RecordsOf(r)') + Cardinality(Between(r)')
                      <= Cardinality(RowsOf(r)')
  BY DEF Counted
<1>1. /\ IsFiniteSet(RecordsOf(r)) /\ Cardinality(RecordsOf(r)) \in Nat
      /\ IsFiniteSet(RecordsOf(r)') /\ Cardinality(RecordsOf(r)') \in Nat
  BY FiniteRows DEF Tables, RecordsOf
<1>2. /\ IsFiniteSet(RowsOf(r)) /\ Cardinality(RowsOf(r)) \in Nat
      /\ IsFiniteSet(RowsOf(r)') /\ Cardinality(RowsOf(r)') \in Nat
  BY FiniteRows DEF Tables, RowsOf
<1>3. /\ IsFiniteSet(Between(r)) /\ Cardinality(Between(r)) \in Nat
      /\ IsFiniteSet(Between(r)') /\ Cardinality(Between(r)') \in Nat
  BY FiniteSlots DEF Between
<1>4. /\ Cardinality(RecordsOf(r)') <= Cardinality(RecordsOf(r))
      /\ Cardinality(Between(r)') <= Cardinality(Between(r))
      /\ Cardinality(RowsOf(r)) <= Cardinality(RowsOf(r)')
  BY <1>1, <1>2, <1>3, FS_Subset
<1>5. Cardinality(RecordsOf(r)) + Cardinality(Between(r)) <= Cardinality(RowsOf(r))
  BY DEF Counted
<1> QED
  BY <1>1, <1>2, <1>3, <1>4, <1>5

\* Nothing is written: the tables keep what they promise, later too.
LEMMA TablesStill ==
  ASSUME LogInv, UNCHANGED <<logs, usage>>, now' \in Nat, now' >= now
  PROVE  /\ Grows /\ ContextIsBrief' /\ CostsAreBilled'
         /\ \A r : RowsOf(r)' = RowsOf(r) /\ RecordsOf(r)' = RecordsOf(r)
<1>1. /\ logs \in Seq(LogRow) /\ usage \in Seq(UsageRow) /\ now \in Nat
      /\ ContextIsBrief /\ CostsAreBilled
  BY DEF LogInv, Tables
<1>2. \A i \in DOMAIN logs : logs[i].purge \in Nat \cup {-1}
  <2>1. \A i \in DOMAIN logs : logs[i] \in LogRow
    BY <1>1
  <2> QED
    BY <2>1 DEF LogRow
<1>3. ContextIsBrief'
  BY <1>1, <1>2 DEF ContextIsBrief
<1>4. CostsAreBilled' /\ \A r : RowsOf(r)' = RowsOf(r) /\ RecordsOf(r)' = RecordsOf(r)
  BY <1>1 DEF CostsAreBilled, RowsOf, RecordsOf
<1> QED
  BY <1>1, <1>3, <1>4 DEF Grows

\* A row without cost is inserted, and context only in a row that will go.
LEMMA Inserted ==
  ASSUME LogInv, NEW row \in LogRow, Brief(row, now), row.cost = 0,
         logs' = Append(logs, row), UNCHANGED <<usage, now>>
  PROVE  /\ Grows /\ ContextIsBrief' /\ CostsAreBilled'
         /\ \A r : /\ RecordsOf(r)' = RecordsOf(r)
                   /\ Len(logs) + 1 \notin RowsOf(r)
                   /\ RowsOf(r)' = IF row.req = r THEN RowsOf(r) \cup {Len(logs) + 1}
                                   ELSE RowsOf(r)
<1>1. /\ logs \in Seq(LogRow) /\ usage \in Seq(UsageRow) /\ now \in Nat
      /\ ContextIsBrief /\ CostsAreBilled
  BY DEF LogInv, Tables
<1>2. /\ logs' \in Seq(LogRow) /\ Len(logs) \in Nat
      /\ DOMAIN logs = 1..Len(logs) /\ DOMAIN logs' = 1..(Len(logs) + 1)
      /\ \A i \in 1..Len(logs) : logs'[i] = logs[i]
      /\ logs'[Len(logs) + 1] = row
  BY <1>1, AppendedRows
<1>3. ContextIsBrief'
  BY <1>1, <1>2 DEF ContextIsBrief, Brief
<1>4. CostsAreBilled'
  BY <1>1, <1>2 DEF CostsAreBilled
<1>5. Grows
  BY <1>1, <1>2 DEF Grows
<1>6. ASSUME NEW r
      PROVE  /\ RecordsOf(r)' = RecordsOf(r) /\ Len(logs) + 1 \notin RowsOf(r)
             /\ RowsOf(r)' = IF row.req = r THEN RowsOf(r) \cup {Len(logs) + 1}
                             ELSE RowsOf(r)
  BY <1>1, <1>2 DEF RecordsOf, RowsOf
<1> QED
  BY <1>3, <1>4, <1>5, <1>6

\* A statement that writes no row and begins no span between row and record.
LEMMA QuietMove ==
  ASSUME LogInv, UNCHANGED <<mode, logs, usage, now>>,
         NEW s \in Slots, NEW d \in Calls, Set(s, d), Carries(d, logs, usage, now),
         d.pc \in BetweenPcs => call[s].pc \in BetweenPcs /\ d.req = call[s].req,
         pending' \subseteq Requests, Bounded'
  PROVE  LogInv'
<1>1. Tables /\ Carried /\ Counted /\ now \in Nat
  BY DEF LogInv, Tables
<1>2. /\ Grows /\ ContextIsBrief' /\ CostsAreBilled'
      /\ \A r : RowsOf(r)' = RowsOf(r) /\ RecordsOf(r)' = RecordsOf(r)
  BY <1>1, TablesStill
<1>3. /\ call' \in [Slots -> Calls] /\ Carried'
      /\ \A t \in Slots : call'[t] = IF t = s THEN d ELSE call[t]
  BY <1>1, <1>2, SlotMoves
<1>4. Tables'
  BY <1>1, <1>3 DEF Tables
<1>5. \A r \in Requests : Between(r)' \subseteq Between(r)
  BY <1>3 DEF Between
<1>6. Counted'
  BY <1>1, <1>2, <1>4, <1>5, QuietCount
<1> QED
  BY <1>2, <1>3, <1>4, <1>6 DEF LogInv

\* A call outside the span between row and record inserts a row, or none.
LEMMA RowMove ==
  ASSUME LogInv, UNCHANGED <<mode, pending, usage, now>>,
         NEW s \in Slots, NEW d \in Calls, Set(s, d), d.pc \in {"idle", "purge"},
         NEW row \in LogRow, Brief(row, now), row.cost = 0,
         logs' = Append(logs, row)
  PROVE  LogInv'
<1>1. Tables /\ Carried /\ Counted /\ now \in Nat /\ Bounded
  BY DEF LogInv, Tables
<1>2. /\ Grows /\ ContextIsBrief' /\ CostsAreBilled'
      /\ \A r : RowsOf(r) \subseteq RowsOf(r)' /\ RecordsOf(r)' = RecordsOf(r)
  BY Inserted
<1>3. /\ call' \in [Slots -> Calls] /\ Carried'
      /\ \A t \in Slots : call'[t] = IF t = s THEN d ELSE call[t]
  <2>1. Carries(d, logs', usage', now')
    BY DEF Carries
  <2> QED
    BY <1>1, <1>2, <2>1, SlotMoves
<1>4. Tables'
  BY <1>1, <1>2, <1>3 DEF Tables, Grows
<1>5. \A r \in Requests : Between(r)' \subseteq Between(r)
  BY <1>3 DEF Between, BetweenPcs
<1>6. Counted'
  BY <1>1, <1>2, <1>4, <1>5, QuietCount
<1>7. Bounded'
  BY <1>1 DEF Bounded, PendingBounded
<1> QED
  BY <1>2, <1>3, <1>4, <1>6, <1>7 DEF LogInv

-----------------------------------------------------------------------------
(* intercept_before and the reads of usage.handle and request.complete.    *)

\* A new row costs nothing yet, and with context it has a time to go.
LEMMA RowProper ==
  ASSUME Tables, NEW k \in Keys \cup {None}, NEW r \in Requests, NEW m \in Modes,
         NEW context \in BOOLEAN, context => m = "full"
  PROVE  /\ Row(k, r, m, context) \in LogRow /\ Brief(Row(k, r, m, context), now)
         /\ Row(k, r, m, context).cost = 0 /\ Row(k, r, m, context).req = r
  BY DEF Row, LogRow, Brief, Tables

\* What stays of the captured contexts is as bounded as before.
LEMMA FewerContexts ==
  ASSUME Tables, Bounded, pending' \subseteq pending
  PROVE  pending' \subseteq Requests /\ Bounded'
<1>1. /\ IsFiniteSet(pending) /\ Cardinality(pending) \in Nat
      /\ Cardinality(pending) <= MaxPending + 1
  BY FS_CardinalityType DEF Bounded, PendingBounded
<1>2. /\ IsFiniteSet(pending') /\ Cardinality(pending') \in Nat
      /\ Cardinality(pending') <= Cardinality(pending)
  BY <1>1, FS_Subset, FS_CardinalityType
<1> QED
  BY <1>1, <1>2 DEF Tables, Bounded, PendingBounded

\* CaptureRequest.
LEMMA CaptureStep ==
  ASSUME LogInv, NEW s \in Slots, Capture(s) \/ \E r \in Requests : CaptureRead(s, r)
  PROVE  LogInv'
<1>0. Tables /\ Bounded /\ call[s] \in Calls
  BY DEF LogInv, Tables
<1>1. ASSUME NEW r \in Requests, CaptureRead(s, r) PROVE LogInv'
  <2>1. PICK d : Set(s, d) /\ d \in {Idle, [pc |-> "capture", req |-> r]}
    BY <1>1 DEF CaptureRead
  <2>2. d \in Calls /\ Carries(d, logs, usage, now) /\ d.pc \notin BetweenPcs
    BY <2>1 DEF Calls, Idle, Carries, BetweenPcs
  <2>3. UNCHANGED <<mode, pending, logs, usage, now>>
    BY <1>1 DEF CaptureRead, bounds
  <2> QED
    BY <1>0, <2>1, <2>2, <2>3, QuietMove, FewerContexts
<1>2. CASE Capture(s)
  <2> DEFINE r    == call[s].req
             kept == IF Cardinality(pending) > MaxPending THEN {} ELSE pending
  <2>1. r \in Requests
    BY <1>0, <1>2, Shape DEF Capture, Step
  <2>2. pending' \subseteq Requests /\ Bounded'
    <3>1. CASE Keep(r)
      <4>1. /\ IsFiniteSet(kept) /\ Cardinality(kept) \in Nat
            /\ Cardinality(kept) <= MaxPending
        BY <1>0, FS_EmptySet, FS_CardinalityType DEF Bounded
      <4>2. /\ pending' = kept \cup {r} /\ IsFiniteSet(kept \cup {r})
            /\ Cardinality(kept \cup {r}) \in {Cardinality(kept), Cardinality(kept) + 1}
        BY <3>1, <4>1, FS_AddElement DEF Keep
      <4>3. pending' \subseteq Requests
        BY <1>0, <2>1, <3>1 DEF Tables, Keep
      <4> HIDE DEF kept
      <4> QED
        BY <4>1, <4>2, <4>3 DEF Bounded, PendingBounded
    <3>2. CASE UNCHANGED pending
      BY <1>0, <3>2, FewerContexts
    <3> QED
      BY <1>2, <3>1, <3>2 DEF Capture
  <2>3. Idle \in Calls /\ Carries(Idle, logs, usage, now) /\ Idle.pc \notin BetweenPcs
    BY DEF Calls, Idle, Carries, BetweenPcs
  <2> QED
    BY <1>2, <2>2, <2>3, QuietMove DEF Capture, bounds
<1> QED
  BY <1>1, <1>2

\* The rows are computed and what they are to say is read.
LEMMA ReadStep ==
  ASSUME LogInv, NEW s \in Slots,
         \/ LogLast(s) \/ LogCost(s)
         \/ \E r \in Requests :
              \/ \E result \in Results : UsageRead(s, r, result)
              \/ \E failed \in BOOLEAN, k \in Keys \cup {None} : Complete(s, r, failed, k)
  PROVE  LogInv'
<1> DEFINE c == call[s]
<1>0. /\ Tables /\ Bounded /\ c \in Calls /\ Carries(c, logs, usage, now)
      /\ mode \in [Keys -> Modes] /\ DOMAIN logs = 1..Len(logs) /\ Len(logs) \in Nat
      /\ DOMAIN usage = 1..Len(usage) /\ Len(usage) \in Nat
  BY DEF LogInv, Tables, Carried
<1>1. ASSUME NEW r \in Requests, NEW result \in Results, UsageRead(s, r, result)
      PROVE  LogInv'
  <2> DEFINE k       == KeyOf[r]
             context == mode[k] = "full" /\ r \in pending
             row     == Row(k, r, mode[k], context)
             d       == [pc |-> "insert", req |-> r, result |-> result, row |-> row]
  <2>1. /\ Set(s, d) /\ UNCHANGED <<mode, logs, usage, now>>
        /\ pending' \subseteq pending
    BY <1>1 DEF UsageRead, bounds
  <2>2. /\ row \in LogRow /\ Brief(row, now) /\ row.cost = 0 /\ row.req = r
    <3>1. /\ k \in Keys /\ mode[k] \in Modes /\ context \in BOOLEAN
          /\ context => mode[k] = "full"
      BY <1>0
    <3> HIDE DEF k, context
    <3> QED
      BY <1>0, <3>1, RowProper
  <2>3. d \in Calls /\ Carries(d, logs, usage, now) /\ d.pc \notin BetweenPcs
    <3> HIDE DEF row
    <3> QED
      BY <2>2 DEF Calls, Carries, BetweenPcs
  <2> QED
    BY <1>0, <2>1, <2>3, QuietMove, FewerContexts
<1>2. ASSUME NEW r \in Requests, NEW failed \in BOOLEAN, NEW k \in Keys \cup {None},
             Complete(s, r, failed, k)
      PROVE  LogInv'
  <2>1. PICK d : /\ Set(s, d)
                 /\ d \in {[pc |-> "failure", req |-> r, key |-> k], [pc |-> "purge"]}
    BY <1>2 DEF Complete
  <2>2. d \in Calls /\ Carries(d, logs, usage, now) /\ d.pc \notin BetweenPcs
    BY <2>1 DEF Calls, Carries, BetweenPcs
  <2>3. UNCHANGED <<mode, pending, logs, usage, now>>
    BY <1>2 DEF Complete, bounds
  <2> QED
    BY <1>0, <2>1, <2>2, <2>3, QuietMove, FewerContexts
<1>3. CASE LogLast(s)
  <2> DEFINE last == LastLog(KeyOf[c.req])
             none == [pc |-> "charge", req |-> c.req, result |-> c.result]
             some == [pc |-> "cost", req |-> c.req, result |-> c.result, id |-> last]
  <2>1. /\ c.req \in Requests /\ c.result \in Results /\ c.pc = "last"
        /\ UNCHANGED <<mode, pending, logs, usage, now>>
        /\ Set(s, IF last = 0 THEN none ELSE some)
    BY <1>0, <1>3, Shape DEF LogLast, Step, bounds
  <2>2. last # 0 => last \in DOMAIN logs /\ logs[last].key = KeyOf[c.req]
    <3> DEFINE rows == {i \in DOMAIN logs : logs[i].stored /\ logs[i].key = KeyOf[c.req]}
    <3>1. rows # {} => Max(rows) \in rows
      BY <1>0, NewestIsThere
    <3> QED
      BY <3>1 DEF LastLog
  <2>3. CASE last = 0
    <3>1. none \in Calls /\ Carries(none, logs, usage, now)
      BY <2>1 DEF Calls, Carries
    <3> QED
      BY <1>0, <2>1, <2>3, <3>1, QuietMove, FewerContexts DEF BetweenPcs
  <2>4. CASE last # 0
    <3>1. some \in Calls /\ Carries(some, logs, usage, now)
      <4> HIDE DEF last
      <4> QED
        BY <1>0, <2>1, <2>2, <2>4 DEF Calls, Carries, OwnRow
    <3> QED
      BY <1>0, <2>1, <2>4, <3>1, QuietMove, FewerContexts DEF BetweenPcs
  <2> QED
    BY <2>3, <2>4
<1>4. CASE LogCost(s)
  <2> DEFINE cost == LastCost(KeyOf[c.req])
             d    == [pc |-> "update", req |-> c.req, result |-> c.result, id |-> c.id,
                      cost |-> cost]
  <2>1. /\ c.req \in Requests /\ c.result \in Results /\ c.id \in Nat /\ c.pc = "cost"
        /\ UNCHANGED <<mode, pending, logs, usage, now>> /\ Set(s, d)
    BY <1>0, <1>4, Shape DEF LogCost, Step, bounds
  <2>2. /\ cost \in Nat
        /\ cost > 0 => \E j \in DOMAIN usage : /\ usage[j].key = KeyOf[c.req]
                                               /\ usage[j].cost = cost
    <3> DEFINE rows == {i \in DOMAIN usage : usage[i].key = KeyOf[c.req]}
    <3>1. CASE rows = {}
      BY <3>1 DEF LastCost
    <3>2. CASE rows # {}
      <4>1. Max(rows) \in rows /\ cost = usage[Max(rows)].cost
        BY <1>0, <3>2, NewestIsThere DEF LastCost
      <4>2. usage[Max(rows)] \in UsageRow
        BY <1>0, <4>1 DEF Tables
      <4> QED
        BY <4>1, <4>2 DEF UsageRow
    <3> QED
      BY <3>1, <3>2
  <2>3. d \in Calls /\ Carries(d, logs, usage, now)
    <3>1. OwnRow(c, logs, usage)
      BY <1>0, <2>1 DEF Carries
    <3> HIDE DEF cost
    <3> QED
      BY <2>1, <2>2, <3>1 DEF Calls, Carries, OwnRow
  <2> QED
    BY <1>0, <2>1, <2>3, QuietMove, FewerContexts DEF BetweenPcs
<1> QED
  BY <1>1, <1>2, <1>3, <1>4

-----------------------------------------------------------------------------
(* What is written.                                                        *)

\* From its row to its usage record a call makes up for the row.
LEMMA InsertStep ==
  ASSUME LogInv, NEW s \in Slots, LogInsert(s)
  PROVE  LogInv'
<1> DEFINE c == call[s]
           d == [pc |-> "last", req |-> c.req, result |-> c.result]
<1>0. /\ Tables /\ Carried /\ Counted /\ Bounded /\ now \in Nat
      /\ c \in Calls /\ Carries(c, logs, usage, now)
  BY DEF LogInv, Tables, Carried
<1>1. /\ c.pc = "insert" /\ logs' = Append(logs, c.row) /\ Set(s, d)
      /\ UNCHANGED <<mode, pending, usage, now>>
  BY DEF LogInsert, Insert, Step, bounds
<1>2. /\ c.req \in Requests /\ c.result \in Results /\ c.row \in LogRow
      /\ Brief(c.row, now) /\ c.row.cost = 0 /\ c.row.req = c.req
  BY <1>0, <1>1, Shape DEF Carries
<1>3. /\ Grows /\ ContextIsBrief' /\ CostsAreBilled'
      /\ \A r : /\ RecordsOf(r)' = RecordsOf(r)
                /\ Len(logs) + 1 \notin RowsOf(r)
                /\ RowsOf(r)' = IF c.req = r THEN RowsOf(r) \cup {Len(logs) + 1}
                                ELSE RowsOf(r)
  BY <1>1, <1>2, Inserted
<1>4. /\ call' \in [Slots -> Calls] /\ Carried'
      /\ \A t \in Slots : call'[t] = IF t = s THEN d ELSE call[t]
  <2>1. d \in Calls /\ Carries(d, logs', usage', now')
    BY <1>2 DEF Calls, Carries
  <2> QED
    BY <1>0, <1>1, <1>3, <2>1, SlotMoves
<1>5. Tables'
  BY <1>0, <1>1, <1>3, <1>4 DEF Tables, Grows
<1>6. Counted'
  <2> SUFFICES ASSUME NEW r \in Requests
               PROVE  Cardinality(RecordsOf(r)') + Cardinality(Between(r)')
                        <= Cardinality(RowsOf(r)')
    BY DEF Counted
  <2>1. /\ IsFiniteSet(RecordsOf(r)) /\ Cardinality(RecordsOf(r)) \in Nat
        /\ IsFiniteSet(RowsOf(r)) /\ Cardinality(RowsOf(r)) \in Nat
        /\ IsFiniteSet(Between(r)) /\ Cardinality(Between(r)) \in Nat
        /\ Cardinality(RecordsOf(r)) + Cardinality(Between(r)) <= Cardinality(RowsOf(r))
    BY <1>0, FiniteRows, FiniteSlots DEF Tables, RecordsOf, RowsOf, Between, Counted
  <2>2. CASE c.req = r
    <3>1. Between(r)' = Between(r) \cup {s} /\ s \notin Between(r)
      BY <1>1, <1>4, <2>2 DEF Between, BetweenPcs
    <3>2. /\ Cardinality(Between(r)') = Cardinality(Between(r)) + 1
          /\ Cardinality(RowsOf(r)') = Cardinality(RowsOf(r)) + 1
      BY <1>3, <2>1, <2>2, <3>1, FS_AddElement
    <3> QED
      BY <1>3, <2>1, <3>2
  <2>3. CASE c.req # r
    <3>1. Between(r)' = Between(r)
      BY <1>1, <1>4, <2>3 DEF Between, BetweenPcs
    <3> QED
      BY <1>3, <2>1, <2>3, <3>1
  <2> QED
    BY <2>2, <2>3
<1>7. Bounded'
  BY <1>0, <1>1 DEF Bounded, PendingBounded
<1> QED
  BY <1>3, <1>4, <1>5, <1>6, <1>7 DEF LogInv

\* The cost that was found goes into a row of the same key.
LEMMA UpdateStep ==
  ASSUME LogInv, NEW s \in Slots, LogUpdate(s)
  PROVE  LogInv'
<1> DEFINE c == call[s]
           d == [pc |-> "charge", req |-> c.req, result |-> c.result]
<1>0. /\ Tables /\ Carried /\ Counted /\ Bounded /\ now \in Nat /\ ContextIsBrief
      /\ CostsAreBilled /\ c \in Calls /\ Carries(c, logs, usage, now)
      /\ logs \in Seq(LogRow) /\ usage \in Seq(UsageRow)
  BY DEF LogInv, Tables, Carried
<1>1. /\ c.pc = "update" /\ Set(s, d) /\ UNCHANGED <<mode, pending, usage, now>>
      /\ logs' = logs \/ logs' = [logs EXCEPT ![c.id].cost = c.cost]
  BY DEF LogUpdate, Step, bounds
<1>2. /\ c.req \in Requests /\ c.result \in Results /\ c.cost \in Nat
      /\ OwnRow(c, logs, usage)
  BY <1>0, <1>1, Shape DEF Carries
<1>3. /\ logs' \in Seq(LogRow) /\ DOMAIN logs' = DOMAIN logs
      /\ \A i \in DOMAIN logs :
           \/ logs'[i] = logs[i]
           \/ i = c.id /\ logs'[i] = [logs[i] EXCEPT !.cost = c.cost]
  <2>1. CASE logs' = logs
    BY <1>0, <2>1
  <2>2. CASE logs' = [logs EXCEPT ![c.id].cost = c.cost]
    <3>1. c.id \in DOMAIN logs /\ logs[c.id] \in LogRow
      BY <1>0, <1>2 DEF OwnRow
    <3>2. [logs[c.id] EXCEPT !.cost = c.cost] \in LogRow
      BY <1>2, <3>1 DEF LogRow
    <3>3. logs' \in [DOMAIN logs -> LogRow]
      <4>1. logs \in [DOMAIN logs -> LogRow]
        BY <1>0
      <4> QED
        BY <2>2, <3>2, <4>1
    <3> QED
      BY <1>0, <2>2, <3>3, ReplacedRows
  <2> QED
    BY <1>1, <2>1, <2>2
<1>4. \A i \in DOMAIN logs :
        /\ logs'[i].key = logs[i].key /\ logs'[i].req = logs[i].req
        /\ logs'[i].context = logs[i].context /\ logs'[i].mode = logs[i].mode
        /\ logs'[i].purge = logs[i].purge
        /\ logs'[i].cost # logs[i].cost => i = c.id /\ logs'[i].cost = c.cost
  <2> SUFFICES ASSUME NEW i \in DOMAIN logs
               PROVE  /\ logs'[i].key = logs[i].key /\ logs'[i].req = logs[i].req
                      /\ logs'[i].context = logs[i].context
                      /\ logs'[i].mode = logs[i].mode /\ logs'[i].purge = logs[i].purge
                      /\ logs'[i].cost # logs[i].cost =>
                           i = c.id /\ logs'[i].cost = c.cost
    OBVIOUS
  <2>1. logs[i] \in LogRow
    BY <1>0
  <2>2. CASE logs'[i] = logs[i]
    BY <2>2
  <2>3. CASE i = c.id /\ logs'[i] = [logs[i] EXCEPT !.cost = c.cost]
    BY <2>1, <2>3 DEF LogRow
  <2> QED
    BY <1>3, <2>2, <2>3
<1>5. Grows
  BY <1>0, <1>1, <1>3, <1>4 DEF Grows
<1>6. ContextIsBrief'
  BY <1>0, <1>1, <1>3, <1>4 DEF ContextIsBrief
<1>7. CostsAreBilled'
  BY <1>0, <1>1, <1>2, <1>3, <1>4 DEF CostsAreBilled, OwnRow
<1>8. /\ call' \in [Slots -> Calls] /\ Carried'
      /\ \A t \in Slots : call'[t] = IF t = s THEN d ELSE call[t]
  <2>1. d \in Calls /\ Carries(d, logs', usage', now')
    BY <1>2 DEF Calls, Carries
  <2> QED
    BY <1>0, <1>1, <1>5, <2>1, SlotMoves
<1>9. Tables'
  BY <1>0, <1>1, <1>5, <1>8 DEF Tables, Grows
<1>10. Counted'
  <2>1. \A r \in Requests : /\ RecordsOf(r)' \subseteq RecordsOf(r)
                            /\ Between(r)' \subseteq Between(r)
                            /\ RowsOf(r) \subseteq RowsOf(r)'
    BY <1>1, <1>3, <1>4, <1>8 DEF RecordsOf, Between, BetweenPcs, RowsOf
  <2> QED
    BY <1>0, <1>9, <2>1, QuietCount
<1>11. Bounded'
  BY <1>0, <1>1 DEF Bounded, PendingBounded
<1> QED
  BY <1>6, <1>7, <1>8, <1>9, <1>10, <1>11 DEF LogInv

\* The usage record takes the place of the call in what its row makes up for.
LEMMA ChargeStep ==
  ASSUME LogInv, NEW s \in Slots, Charge(s)
  PROVE  LogInv'
<1> DEFINE c   == call[s]
           rec == [key |-> KeyOf[c.req], req |-> c.req, cost |-> c.result]
           new == Len(usage) + 1
<1>0. /\ Tables /\ Carried /\ Counted /\ Bounded /\ now \in Nat /\ ContextIsBrief
      /\ CostsAreBilled /\ c \in Calls /\ logs \in Seq(LogRow) /\ usage \in Seq(UsageRow)
  BY DEF LogInv, Tables
<1>1. /\ c.pc = "charge" /\ UNCHANGED <<mode, pending, logs, now>>
      /\ c.req \in Requests
      /\ usage' = usage \/ (c.result \in Costs /\ usage' = Append(usage, rec))
  BY <1>0, Shape DEF Charge, Step, bounds
<1>2. PICK d : Set(s, d) /\ d \in {Idle, [pc |-> "error", req |-> c.req]}
  BY DEF Charge
<1>3. d \in Calls /\ d.pc \notin BetweenPcs /\ d.pc \notin {"insert", "cost", "update"}
  BY <1>1, <1>2 DEF Calls, Idle, BetweenPcs
<1>4. /\ usage' \in Seq(UsageRow) /\ DOMAIN usage \subseteq DOMAIN usage'
      /\ \A j \in DOMAIN usage : usage'[j] = usage[j]
      /\ \A r : \/ RecordsOf(r)' = RecordsOf(r)
              \/ /\ c.req = r /\ RecordsOf(r)' = RecordsOf(r) \cup {new}
                 /\ new \notin RecordsOf(r)
  <2>1. CASE usage' = usage
    BY <1>0, <2>1 DEF RecordsOf
  <2>2. CASE c.result \in Costs /\ usage' = Append(usage, rec)
    <3>1. rec \in UsageRow /\ rec.req = c.req
      BY <1>1, <2>2 DEF UsageRow
    <3> HIDE DEF rec
    <3>2. /\ usage' \in Seq(UsageRow) /\ Len(usage) \in Nat
          /\ DOMAIN usage = 1..Len(usage) /\ DOMAIN usage' = 1..new
          /\ \A i \in 1..Len(usage) : usage'[i] = usage[i]
          /\ usage'[new] = rec
      BY <1>0, <2>2, <3>1, AppendedRows
    <3>3. \A r : /\ new \notin RecordsOf(r)
               /\ RecordsOf(r)' = IF c.req = r THEN RecordsOf(r) \cup {new}
                                  ELSE RecordsOf(r)
      BY <3>1, <3>2 DEF RecordsOf
    <3> QED
      BY <3>2, <3>3
  <2> QED
    BY <1>1, <2>1, <2>2
<1>5. Grows /\ ContextIsBrief' /\ CostsAreBilled' /\ \A r : RowsOf(r)' = RowsOf(r)
  <2>1. Grows
    BY <1>0, <1>1, <1>4 DEF Grows
  <2>2. ContextIsBrief' /\ \A r : RowsOf(r)' = RowsOf(r)
    BY <1>0, <1>1 DEF ContextIsBrief, RowsOf
  <2>3. CostsAreBilled'
    BY <1>0, <1>1, <1>4 DEF CostsAreBilled
  <2> QED
    BY <2>1, <2>2, <2>3
<1>6. /\ call' \in [Slots -> Calls] /\ Carried'
      /\ \A t \in Slots : call'[t] = IF t = s THEN d ELSE call[t]
  <2>1. Carries(d, logs', usage', now')
    BY <1>3 DEF Carries
  <2> QED
    BY <1>0, <1>1, <1>2, <1>3, <1>5, <2>1, SlotMoves
<1>7. Tables'
  BY <1>0, <1>1, <1>4, <1>6 DEF Tables
<1>8. Counted'
  <2> SUFFICES ASSUME NEW r \in Requests
               PROVE  Cardinality(RecordsOf(r)') + Cardinality(Between(r)')
                        <= Cardinality(RowsOf(r)')
    BY DEF Counted
  <2>1. /\ IsFiniteSet(RecordsOf(r)) /\ Cardinality(RecordsOf(r)) \in Nat
        /\ IsFiniteSet(RowsOf(r)) /\ Cardinality(RowsOf(r)) \in Nat
        /\ IsFiniteSet(Between(r)) /\ Cardinality(Between(r)) \in Nat
        /\ Cardinality(RecordsOf(r)) + Cardinality(Between(r)) <= Cardinality(RowsOf(r))
    BY <1>0, FiniteRows, FiniteSlots DEF Tables, RecordsOf, RowsOf, Between, Counted
  <2>2. CASE c.req = r
    <3>1. /\ Between(r)' = Between(r) \ {s} /\ s \in Between(r)
      BY <1>1, <1>3, <1>6, <2>2 DEF Between, BetweenPcs
    <3>2. Cardinality(Between(r)') = Cardinality(Between(r)) - 1
      BY <2>1, <3>1, FS_RemoveElement
    <3>3. Cardinality(RecordsOf(r)') \in {Cardinality(RecordsOf(r)),
                                         Cardinality(RecordsOf(r)) + 1}
      BY <1>4, <2>1, FS_AddElement
    <3> QED
      BY <1>5, <2>1, <3>2, <3>3
  <2>3. CASE c.req # r
    <3>1. Between(r)' = Between(r) /\ RecordsOf(r)' = RecordsOf(r)
      BY <1>1, <1>3, <1>4, <1>6, <2>3 DEF Between
    <3> QED
      BY <1>5, <2>1, <3>1
  <2> QED
    BY <2>2, <2>3
<1>9. Bounded'
  BY <1>0, <1>1 DEF Bounded, PendingBounded
<1> QED
  BY <1>5, <1>6, <1>7, <1>8, <1>9 DEF LogInv

\* Errors and failures are rows without context.
LEMMA FailureStep ==
  ASSUME LogInv, NEW s \in Slots, WriteError(s) \/ WriteFailure(s)
  PROVE  LogInv'
<1> DEFINE c == call[s]
<1>0. Tables /\ Bounded /\ c \in Calls /\ mode \in [Keys -> Modes]
  BY DEF LogInv, Tables
<1>1. CASE WriteError(s)
  <2> DEFINE row == Row(KeyOf[c.req], c.req, mode[KeyOf[c.req]], FALSE)
  <2>1. /\ c.req \in Requests /\ logs' = Append(logs, row) /\ Set(s, Idle)
        /\ UNCHANGED <<mode, pending, usage, now>>
    BY <1>0, <1>1, Shape DEF WriteError, Insert, Step, bounds
  <2>2. KeyOf[c.req] \in Keys /\ mode[KeyOf[c.req]] \in Modes
    BY <1>0, <2>1
  <2>3. row \in LogRow /\ Brief(row, now) /\ row.cost = 0
    BY <1>0, <2>1, <2>2, RowProper
  <2>4. Idle \in Calls /\ Idle.pc \in {"idle", "purge"}
    BY DEF Calls, Idle
  <2> HIDE DEF row
  <2> QED
    BY <2>1, <2>3, <2>4, RowMove
<1>2. CASE WriteFailure(s)
  <2> DEFINE d == [pc |-> "purge"]
  <2>1. /\ c.req \in Requests /\ c.key \in Keys \cup {None} /\ Set(s, d)
        /\ UNCHANGED <<mode, pending, usage, now>>
    BY <1>0, <1>2, Shape DEF WriteFailure, Step, bounds
  <2>2. d \in Calls /\ d.pc \in {"idle", "purge"} /\ d.pc \notin BetweenPcs
    BY DEF Calls, BetweenPcs
  <2>3. PICK m \in (IF c.key = None THEN Modes ELSE {mode[c.key]}) :
          logs' = IF m = "standard" THEN logs
                  ELSE Append(logs, [Row(c.key, c.req, m, FALSE) EXCEPT !.purge = -1])
    BY <1>2 DEF WriteFailure
  <2>4. m \in Modes
    BY <1>0, <2>1, <2>3
  <2>5. CASE logs' = logs
    <3>1. Carries(d, logs, usage, now)
      BY DEF Carries
    <3> QED
      BY <1>0, <2>1, <2>2, <2>5, <3>1, QuietMove, FewerContexts
  <2>6. CASE logs' = Append(logs, [Row(c.key, c.req, m, FALSE) EXCEPT !.purge = -1])
    <3> DEFINE row == [Row(c.key, c.req, m, FALSE) EXCEPT !.purge = -1]
    <3>1. row \in LogRow /\ Brief(row, now) /\ row.cost = 0
      BY <1>0, <2>1, <2>4 DEF Row, LogRow, Brief
    <3> HIDE DEF row
    <3> QED
      BY <2>1, <2>2, <2>6, <3>1, RowMove DEF row
  <2> QED
    BY <2>3, <2>5, <2>6
<1> QED
  BY <1>1, <1>2

\* A deleted row only stops being stored.
LEMMA PurgeStep ==
  ASSUME LogInv, NEW s \in Slots, Purge(s)
  PROVE  LogInv'
<1>0. /\ Tables /\ Carried /\ Counted /\ Bounded /\ now \in Nat /\ ContextIsBrief
      /\ CostsAreBilled /\ logs \in Seq(LogRow) /\ usage \in Seq(UsageRow)
  BY DEF LogInv, Tables
<1>1. /\ Set(s, Idle) /\ UNCHANGED <<mode, pending, usage, now>>
      /\ DOMAIN logs' = DOMAIN logs
      /\ \A i \in DOMAIN logs :
           logs'[i] = IF Overdue(logs[i]) THEN [logs[i] EXCEPT !.stored = FALSE]
                      ELSE logs[i]
  BY DEF Purge, bounds
<1>2. ASSUME NEW i \in DOMAIN logs
      PROVE  /\ logs'[i] \in LogRow
             /\ logs'[i].key = logs[i].key /\ logs'[i].req = logs[i].req
             /\ logs'[i].context = logs[i].context /\ logs'[i].mode = logs[i].mode
             /\ logs'[i].purge = logs[i].purge /\ logs'[i].cost = logs[i].cost
  <2>1. logs[i] \in LogRow
    BY <1>0
  <2>2. CASE logs'[i] = logs[i]
    BY <2>1, <2>2
  <2>3. CASE logs'[i] = [logs[i] EXCEPT !.stored = FALSE]
    BY <2>1, <2>3 DEF LogRow
  <2> QED
    BY <1>1, <2>2, <2>3
<1>3. logs' \in Seq(LogRow)
  <2>1. logs' = [i \in DOMAIN logs |-> logs'[i]]
    BY DEF Purge
  <2>2. logs' \in [DOMAIN logs -> LogRow]
    BY <1>2, <2>1
  <2> QED
    BY <1>0, <2>2, ReplacedRows
<1>4. Grows
  BY <1>0, <1>1, <1>2, <1>3 DEF Grows
<1>5. ContextIsBrief' /\ CostsAreBilled'
  BY <1>0, <1>1, <1>2 DEF ContextIsBrief, CostsAreBilled
<1>6. /\ call' \in [Slots -> Calls] /\ Carried'
      /\ \A t \in Slots : call'[t] = IF t = s THEN Idle ELSE call[t]
  <2>1. Idle \in Calls /\ Carries(Idle, logs', usage', now')
    BY DEF Calls, Idle, Carries
  <2> QED
    BY <1>0, <1>1, <1>4, <2>1, SlotMoves
<1>7. Tables'
  BY <1>0, <1>1, <1>3, <1>6 DEF Tables
<1>8. Counted'
  <2>1. \A r \in Requests : /\ RecordsOf(r)' \subseteq RecordsOf(r)
                            /\ Between(r)' \subseteq Between(r)
                            /\ RowsOf(r) \subseteq RowsOf(r)'
    BY <1>1, <1>2, <1>6 DEF RecordsOf, Between, BetweenPcs, RowsOf, Idle
  <2> QED
    BY <1>0, <1>7, <2>1, QuietCount
<1>9. Bounded'
  BY <1>0, <1>1 DEF Bounded, PendingBounded
<1> QED
  BY <1>5, <1>6, <1>7, <1>8, <1>9 DEF LogInv

-----------------------------------------------------------------------------
(* The invariant.                                                          *)

\* Edits, restarts and the clock.
LEMMA OtherStep ==
  ASSUME LogInv,
         \/ \E k \in Keys, m \in Modes : SetLogMode(k, m)
         \/ Crash \/ Tick \/ UNCHANGED vars
  PROVE  LogInv'
<1>0. Tables /\ Carried /\ Counted /\ Bounded /\ now \in Nat
  BY DEF LogInv, Tables
<1>1. UNCHANGED <<logs, usage>> /\ now' \in Nat /\ now' >= now
  BY <1>0 DEF SetLogMode, Crash, Tick, vars, bounds
<1>2. /\ Grows /\ ContextIsBrief' /\ CostsAreBilled'
      /\ \A r : RowsOf(r)' = RowsOf(r) /\ RecordsOf(r)' = RecordsOf(r)
  BY <1>1, TablesStill
<1>3. pending' \subseteq pending
  BY DEF SetLogMode, Crash, Tick, vars
<1>4. mode' \in [Keys -> Modes]
  BY <1>0 DEF Tables, SetLogMode, Crash, Tick, vars
<1>5. \A s \in Slots : call'[s] \in {call[s], Idle}
  BY <1>0 DEF SetLogMode, Crash, Tick, vars
<1>6. call' \in [Slots -> Calls]
  BY <1>0 DEF Tables, SetLogMode, Crash, Tick, vars, Calls
<1>7. Tables'
  BY <1>0, <1>1, <1>3, <1>4, <1>6, FewerContexts DEF Tables
<1>8. Carried'
  <2> SUFFICES ASSUME NEW s \in Slots PROVE Carries(call'[s], logs', usage', now')
    BY DEF Carried
  <2>1. CASE call'[s] = Idle
    BY <2>1 DEF Carries, Idle
  <2>2. CASE call'[s] = call[s]
    <3>1. call[s] \in Calls /\ Carries(call[s], logs, usage, now)
      BY <1>0 DEF Tables, Carried
    <3>2. ASSUME call[s].pc = "insert" PROVE Brief(call[s].row, now')
      <4>1. call[s].row \in LogRow /\ Brief(call[s].row, now)
        BY <3>1, <3>2, Shape DEF Carries
      <4> QED
        BY <1>0, <1>1, <4>1 DEF Brief, LogRow
    <3> QED
      BY <1>1, <2>2, <3>1, <3>2 DEF Carries
  <2> QED
    BY <1>5, <2>1, <2>2
<1>9. Counted'
  <2>1. \A r \in Requests : Between(r)' \subseteq Between(r)
    BY <1>5 DEF Between, BetweenPcs, Idle
  <2> QED
    BY <1>0, <1>2, <1>7, <2>1, QuietCount
<1> QED
  BY <1>0, <1>2, <1>3, <1>7, <1>8, <1>9, FewerContexts DEF LogInv

\* Every step keeps the invariant.
LEMMA StepKeepsLogInv ==
  ASSUME LogInv, [Next]_vars
  PROVE  LogInv'
<1>1. CASE \E s \in Slots : \/ Capture(s) \/ \E r \in Requests : CaptureRead(s, r)
  BY <1>1, CaptureStep
<1>2. CASE \E s \in Slots :
             \/ LogLast(s) \/ LogCost(s)
             \/ \E r \in Requests :
                  \/ \E result \in Results : UsageRead(s, r, result)
                  \/ \E failed \in BOOLEAN, k \in Keys \cup {None} :
                       Complete(s, r, failed, k)
  BY <1>2, ReadStep
<1>3. CASE \E s \in Slots : LogInsert(s)
  BY <1>3, InsertStep
<1>4. CASE \E s \in Slots : LogUpdate(s)
  BY <1>4, UpdateStep
<1>5. CASE \E s \in Slots : Charge(s)
  BY <1>5, ChargeStep
<1>6. CASE \E s \in Slots : WriteError(s) \/ WriteFailure(s)
  BY <1>6, FailureStep
<1>7. CASE \E s \in Slots : Purge(s)
  BY <1>7, PurgeStep
<1>8. CASE \/ \E k \in Keys, m \in Modes : SetLogMode(k, m)
           \/ Crash \/ Tick \/ UNCHANGED vars
  BY <1>8, OtherStep
<1> QED
  BY <1>1, <1>2, <1>3, <1>4, <1>5, <1>6, <1>7, <1>8 DEF Next, Results

\* At the start nothing is captured, logged or billed.
LEMMA InitLogInv ==
  ASSUME Init
  PROVE  LogInv
<1>1. /\ pending = {} /\ logs = <<>> /\ usage = <<>> /\ now = 1 /\ mode = StartModes
      /\ call = [s \in Slots |-> Idle]
  BY DEF Init
<1>2. Tables
  BY <1>1 DEF Tables, Calls
<1>3. ContextIsBrief /\ CostsAreBilled
  BY <1>1 DEF ContextIsBrief, CostsAreBilled
<1>4. Carried
  BY <1>1 DEF Carried, Carries, Idle
<1>5. Counted
  <2> SUFFICES ASSUME NEW r \in Requests
               PROVE  Cardinality(RecordsOf(r)) + Cardinality(Between(r))
                        <= Cardinality(RowsOf(r))
    BY DEF Counted
  <2>1. RecordsOf(r) = {} /\ RowsOf(r) = {} /\ Between(r) = {}
    BY <1>1 DEF RecordsOf, RowsOf, Between, BetweenPcs, Idle
  <2> QED
    BY <2>1, FS_EmptySet
<1>6. Bounded
  BY <1>1, FS_EmptySet DEF Bounded, PendingBounded
<1> QED
  BY <1>2, <1>3, <1>4, <1>5, <1>6 DEF LogInv

\* The invariant holds at every point of every run.
THEOREM LogInvariant == Spec => []LogInv
<1>1. Init => LogInv
  BY InitLogInv
<1>2. LogInv /\ [Next]_vars => LogInv'
  BY StepKeepsLogInv
<1> QED
  BY <1>1, <1>2, PTL DEF Spec

-----------------------------------------------------------------------------
(* What it gives.                                                          *)

\* Customer content is stored in full mode only and with a time to go, however the
\* mode is edited between capture, usage record and insertion.
THEOREM OnlyBriefContext == Spec => []ContextIsBrief
<1>1. LogInv => ContextIsBrief
  BY DEF LogInv
<1> QED
  BY <1>1, LogInvariant, PTL

\* The memory of captured contexts is bounded, whatever the host leaves unconsumed.
THEOREM BoundedContexts == Spec => []PendingBounded
<1>1. LogInv => PendingBounded
  BY DEF LogInv, Bounded
<1> QED
  BY <1>1, LogInvariant, PTL

\* A cost shown in the log is one that was billed to the same key.
THEOREM BilledCosts == Spec => []CostsAreBilled
<1>1. LogInv => CostsAreBilled
  BY DEF LogInv
<1> QED
  BY <1>1, LogInvariant, PTL

\* Whatever is billed is found in the log, in any mode and after any crash: a call
\* inserts its row before its record, and nothing takes a row's request away.
THEOREM LoggedUsage == Spec => []UsageIsLogged
<1>1. LogInv => UsageIsLogged
  <2> SUFFICES ASSUME LogInv, NEW i \in DOMAIN usage
               PROVE  Cardinality({n \in 1..i : usage[n].req = usage[i].req})
                        <= Cardinality({j \in DOMAIN logs : logs[j].req = usage[i].req})
    BY DEF UsageIsLogged
  <2> DEFINE r       == usage[i].req
             earlier == {n \in 1..i : usage[n].req = r}
  <2>1. /\ logs \in Seq(LogRow) /\ usage \in Seq(UsageRow) /\ Counted
        /\ DOMAIN usage = 1..Len(usage) /\ Len(usage) \in Nat
    BY DEF LogInv, Tables
  <2>2. r \in Requests
    <3>1. usage[i] \in UsageRow
      BY <2>1
    <3> QED
      BY <3>1 DEF UsageRow
  <2>3. /\ IsFiniteSet(RecordsOf(r)) /\ Cardinality(RecordsOf(r)) \in Nat
        /\ Cardinality(RowsOf(r)) \in Nat /\ Cardinality(Between(r)) \in Nat
    BY <2>1, FiniteRows, FiniteSlots DEF RecordsOf, RowsOf, Between
  <2>4. Cardinality(earlier) \in Nat /\ Cardinality(earlier) <= Cardinality(RecordsOf(r))
    <3>1. earlier \subseteq RecordsOf(r)
      BY <2>1 DEF RecordsOf
    <3> QED
      BY <2>3, <3>1, FS_Subset, FS_CardinalityType
  <2>5. Cardinality(RecordsOf(r)) + Cardinality(Between(r)) <= Cardinality(RowsOf(r))
    BY <2>1, <2>2 DEF Counted
  <2>6. Cardinality(earlier) <= Cardinality(RowsOf(r))
    BY <2>3, <2>4, <2>5
  <2> QED
    BY <2>6 DEF RowsOf
<1> QED
  BY <1>1, LogInvariant, PTL

-----------------------------------------------------------------------------
(* The purge.                                                              *)

\* The statements of a slot other than the purge.
Statement(s) ==
  \/ Capture(s) \/ LogInsert(s) \/ LogLast(s) \/ LogCost(s) \/ LogUpdate(s)
  \/ Charge(s) \/ WriteError(s) \/ WriteFailure(s)
  \/ \E r \in Requests :
       \/ CaptureRead(s, r)
       \/ \E result \in Results : UsageRead(s, r, result)
       \/ \E failed \in BOOLEAN, k \in Keys \cup {None} : Complete(s, r, failed, k)

\* They leave every stored row stored and no other slot's purge behind.
LEMMA OnlyPurgeDeletes ==
  ASSUME Tables, NEW s \in Slots, Statement(s)
  PROVE  /\ \A i \in DOMAIN logs : logs'[i].stored = logs[i].stored
         /\ \A t \in Slots : Step(t, "purge") => call'[t].pc = "purge"
<1>0. logs \in Seq(LogRow) /\ call \in [Slots -> Calls]
  BY DEF Tables
<1>1. \A i \in DOMAIN logs : logs'[i].stored = logs[i].stored
  <2>1. CASE logs' = logs
    BY <2>1
  <2>2. CASE \E row : logs' = Append(logs, row)
    BY <1>0, <2>2
  <2>3. CASE LogUpdate(s)
    <3>1. logs' = logs \/ logs' = [logs EXCEPT ![call[s].id].cost = call[s].cost]
      BY <2>3 DEF LogUpdate
    <3>2. \A i \in DOMAIN logs : logs[i] \in LogRow
      BY <1>0
    <3> QED
      BY <3>1, <3>2 DEF LogRow
  <2> QED
    BY <2>1, <2>2, <2>3 DEF Statement, Capture, LogInsert, LogLast, LogCost, Charge,
       WriteError, WriteFailure, CaptureRead, UsageRead, Complete, Insert
<1>2. ~Step(s, "purge")
  BY DEF Statement, Capture, LogInsert, LogLast, LogCost, LogUpdate, Charge, WriteError,
     WriteFailure, CaptureRead, UsageRead, Complete, Step
<1>3. \A t \in Slots : t # s => call'[t] = call[t]
  <2>1. \E d : Set(s, d)
    BY DEF Statement, Capture, LogInsert, LogLast, LogCost, LogUpdate, Charge, WriteError,
       WriteFailure, CaptureRead, UsageRead, Complete
  <2> QED
    BY <1>0, <2>1 DEF Set
<1> QED
  BY <1>1, <1>2, <1>3 DEF Step

CrashesCounted == crashes \in Nat

\* Restarts are counted.
LEMMA RestartsCounted == Spec => []CrashesCounted
<1>1. Init => CrashesCounted
  BY DEF Init, CrashesCounted
<1>2. CrashesCounted /\ [Next]_vars => CrashesCounted'
  <2>1. ASSUME CrashesCounted, NEW s \in Slots, Statement(s) \/ Purge(s)
        PROVE  CrashesCounted'
    BY <2>1 DEF CrashesCounted, bounds, Statement, Purge, Capture, LogInsert, LogLast,
       LogCost, LogUpdate, Charge, WriteError, WriteFailure, CaptureRead, UsageRead,
       Complete
  <2>2. ASSUME CrashesCounted, \/ \E k \in Keys, m \in Modes : SetLogMode(k, m)
                               \/ Crash \/ Tick \/ UNCHANGED vars
        PROVE  CrashesCounted'
    BY <2>2 DEF CrashesCounted, bounds, vars, SetLogMode, Crash, Tick
  <2> QED
    BY <2>1, <2>2 DEF Next, Statement, Results
<1> QED
  BY <1>1, <1>2, PTL DEF Spec

\* A stored row goes when its time has passed and no earlier, and no completed
\* purge leaves behind a row whose time has passed.
THEOREM TimelyPurge == Spec => PurgeOnTime
<1> DEFINE gone(i) == logs[i].stored /\ ~logs'[i].stored
           kept(i) == logs'[i].stored /\ Overdue(logs[i])
           done    == /\ \E s \in Slots : Step(s, "purge") /\ call'[s].pc = "idle"
                      /\ edits' = edits /\ crashes' = crashes
<1>1. ASSUME Tables, CrashesCounted, [Next]_vars, NEW i \in DOMAIN logs
      PROVE  /\ gone(i) => logs[i].purge # -1 /\ logs[i].purge < now
             /\ done => ~kept(i)
  <2>0. logs[i] \in LogRow /\ crashes # crashes + 1
    BY <1>1 DEF Tables, CrashesCounted
  <2>1. CASE \E s \in Slots : Statement(s)
    BY <1>1, <2>1, OnlyPurgeDeletes
  <2>2. CASE \E s \in Slots : Purge(s)
    <3>1. logs'[i] = IF Overdue(logs[i]) THEN [logs[i] EXCEPT !.stored = FALSE]
                     ELSE logs[i]
      BY <1>1, <2>2 DEF Purge
    <3> QED
      BY <2>0, <3>1 DEF Overdue, LogRow
  <2>3. CASE \/ \E k \in Keys, m \in Modes : SetLogMode(k, m)
             \/ Tick \/ UNCHANGED vars
    BY <2>3 DEF SetLogMode, Tick, vars, Step
  <2>4. CASE Crash
    BY <2>0, <2>4 DEF Crash
  <2> QED
    BY <1>1, <2>1, <2>2, <2>3, <2>4 DEF Next, Statement, Results
<1>2. Tables /\ CrashesCounted /\ [Next]_vars =>
        [\A i \in DOMAIN logs :
           /\ logs[i].stored /\ ~logs'[i].stored => logs[i].purge # -1 /\ logs[i].purge < now
           /\ (\E s \in Slots : Step(s, "purge") /\ call'[s].pc = "idle")
                /\ edits' = edits /\ crashes' = crashes
                => ~(logs'[i].stored /\ Overdue(logs[i]))]_vars
  BY <1>1
<1>3. LogInv => Tables
  BY DEF LogInv
<1> QED
  BY <1>2, <1>3, LogInvariant, RestartsCounted, PTL DEF Spec, PurgeOnTime
=============================================================================
