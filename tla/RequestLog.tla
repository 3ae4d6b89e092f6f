----------------------------- MODULE RequestLog -----------------------------
(***************************************************************************)
(* internal/logging, next to the usage records of internal/billing that it *)
(* reads: what intercept_before captures, what usage.handle writes, and    *)
(* what request.complete adds and purges.  A row carries the mode that was *)
(* in force; only a row of mode "full" carries the client's context, for a *)
(* limited time.  Statements of two host threads (slots) interleave; the   *)
(* captured contexts are memory, kept without a lock.                      *)
(***************************************************************************)
EXTENDS Integers, Sequences, FiniteSetsExt

CONSTANTS
  Keys, None,
  Requests, KeyOf,        \* client requests and the key of each
  Slots,
  Costs,                  \* what Charge may bill for an attempt (0: nothing)
  StartModes,             \* effective mode of each key at the start
  Retention,              \* full_log_retention_hours
  MaxPending,             \* 512: captured contexts that trigger a reset
  MaxAttempts,            \* bound: usage records per request
  MaxRows,                \* bound: rows of request_logs
  MaxEdits,               \* bound: mode changes
  MaxCrashes, MaxTime     \* bounds: restarts, the clock

Modes == {"full", "standard", "error_only"}

ASSUME RequestLogAssumption ==
  /\ None \notin Keys /\ KeyOf \in [Requests -> Keys] /\ IsFiniteSet(Slots)
  /\ StartModes \in [Keys -> Modes]
  /\ Costs \subseteq Nat /\ Retention \in Nat /\ MaxPending \in Nat

VARIABLES
  mode,        \* effective mode of each key: its own or the global one
  pending,     \* pendingContext: requests whose context is kept
  logs,        \* request_logs, in insertion order; a deleted row stays as a gap
  usage,       \* usage_records, in insertion order
  host,        \* stage and attempts of each client request
  call,        \* what each slot is executing
  edits, crashes, now

bounds == <<edits, crashes, now>>
vars   == <<mode, pending, logs, usage, host, call, bounds>>

LogRow   == [stored : BOOLEAN, key : Keys \cup {None}, req : Requests, mode : Modes,
             context : BOOLEAN, cost : Nat, purge : Nat \cup {-1}]
UsageRow == [key : Keys, req : Requests, cost : Nat]
Idle     == [pc |-> "idle"]

\* Results of Charge other than a usage record with its cost.
NoRecord    == -1
ChargeError == -2

Init ==
  /\ mode = StartModes
  /\ pending = {} /\ logs = <<>> /\ usage = <<>>
  /\ host = [r \in Requests |-> [stage |-> "new", attempts |-> 0]]
  /\ call = [s \in Slots |-> Idle]
  /\ edits = 0 /\ crashes = 0 /\ now = 1

Set(s, c)   == call' = [call EXCEPT ![s] = c]
Step(s, pc) == call[s].pc = pc
Busy        == {s \in Slots : ~Step(s, "idle")}

\* The newest stored row of a key, or 0.
LastLog(k) == LET rows == {i \in DOMAIN logs : logs[i].stored /\ logs[i].key = k}
              IN IF rows = {} THEN 0 ELSE Max(rows)

\* Faulty variant: the newest usage record of any key.
LastCostOfAny(k) == IF usage = <<>> THEN 0 ELSE usage[Len(usage)].cost

\* The cost of the newest usage record of a key, or 0.
LastCost(k) == LET rows == {i \in DOMAIN usage : usage[i].key = k}
               IN IF rows = {} THEN 0 ELSE usage[Max(rows)].cost

\* Only a full row carries context and is due to be purged.
Row(k, r, m, context) ==
  [stored |-> TRUE, key |-> k, req |-> r, mode |-> m, context |-> context, cost |-> 0,
   purge |-> IF m = "full" THEN now + Retention ELSE -1]

Insert(row) == logs' = Append(logs, row)

-----------------------------------------------------------------------------
(* intercept_before: CaptureRequest, for a request with an id and a body.  *)

CaptureRead(s, r) ==
  /\ Step(s, "idle") /\ host[r].stage = "new"
  /\ host' = [host EXCEPT ![r].stage = "open"]
  /\ Set(s, IF mode[KeyOf[r]] = "full" THEN [pc |-> "capture", req |-> r] ELSE Idle)
  /\ UNCHANGED <<mode, pending, logs, usage, bounds>>

\* Faulty variant: the map is never reset.
KeepAll(r) == pending' = pending \cup {r}

\* Too many contexts and all of them are dropped.
Keep(r) == pending' = (IF Cardinality(pending) > MaxPending THEN {} ELSE pending) \cup {r}

\* Two host threads in the map at once: a write may also be lost.
Capture(s) ==
  /\ Step(s, "capture")
  /\ \/ Keep(call[s].req)
     \/ (\E t \in Slots \ {s} : Step(t, "capture")) /\ UNCHANGED pending
  /\ Set(s, Idle)
  /\ UNCHANGED <<mode, logs, usage, host, bounds>>

-----------------------------------------------------------------------------
(* usage.handle: WriteUsage, then Charge.                                  *)

\* The mode is resolved, the context taken and the row's values are computed;
\* result is what Charge will do: a record of that cost, no record, an error.
UsageRead(s, r, result) ==
  LET k == KeyOf[r] IN
  /\ Step(s, "idle") /\ host[r].stage = "open" /\ host[r].attempts < MaxAttempts
  /\ Len(logs) + 2 * Cardinality(Busy) + 1 < MaxRows
  /\ host' = [host EXCEPT ![r].attempts = @ + 1]
  /\ pending' = IF mode[k] = "full" THEN pending \ {r} ELSE pending
  /\ Set(s, [pc |-> "insert", req |-> r, result |-> result,
             row |-> Row(k, r, mode[k], mode[k] = "full" /\ r \in pending)])
  /\ UNCHANGED <<mode, logs, usage, bounds>>

\* Faulty variant: the mode is resolved a second time.
LogInsertLate(s) ==
  LET c == call[s] IN
  /\ Step(s, "insert")
  /\ Insert([c.row EXCEPT !.mode = mode[KeyOf[c.req]]])
  /\ Set(s, [pc |-> "last", req |-> c.req, result |-> c.result])
  /\ UNCHANGED <<mode, pending, usage, host, bounds>>

\* Faulty variant: a mode for errors logs no usage at all.
LogInsertSkips(s) ==
  LET c == call[s] IN
  /\ Step(s, "insert")
  /\ IF c.row.mode = "error_only" THEN UNCHANGED logs ELSE Insert(c.row)
  /\ Set(s, [pc |-> "last", req |-> c.req, result |-> c.result])
  /\ UNCHANGED <<mode, pending, usage, host, bounds>>

LogInsert(s) ==
  LET c == call[s] IN
  /\ Step(s, "insert")
  /\ Insert(c.row)
  /\ Set(s, [pc |-> "last", req |-> c.req, result |-> c.result])
  /\ UNCHANGED <<mode, pending, usage, host, bounds>>

\* lastLogID.
LogLast(s) ==
  LET c    == call[s]
      last == LastLog(KeyOf[c.req])
  IN
  /\ Step(s, "last")
  /\ Set(s, IF last = 0 THEN [pc |-> "charge", req |-> c.req, result |-> c.result]
            ELSE [pc |-> "cost", req |-> c.req, result |-> c.result, id |-> last])
  /\ UNCHANGED <<mode, pending, logs, usage, host, bounds>>

LogCost(s) ==
  LET c == call[s] IN
  /\ Step(s, "cost")
  /\ Set(s, [pc |-> "update", req |-> c.req, result |-> c.result, id |-> c.id,
             cost |-> LastCost(KeyOf[c.req])])
  /\ UNCHANGED <<mode, pending, logs, usage, host, bounds>>

LogUpdate(s) ==
  LET c == call[s] IN
  /\ Step(s, "update")
  /\ logs' = IF logs[c.id].stored THEN [logs EXCEPT ![c.id].cost = c.cost] ELSE logs
  /\ Set(s, [pc |-> "charge", req |-> c.req, result |-> c.result])
  /\ UNCHANGED <<mode, pending, usage, host, bounds>>

\* HandleUsageJSON: recordUsage at the end of Charge, or an error.
Charge(s) ==
  LET c == call[s] IN
  /\ Step(s, "charge")
  /\ usage' = IF c.result \in Costs
                THEN Append(usage, [key |-> KeyOf[c.req], req |-> c.req, cost |-> c.result])
                ELSE usage
  /\ Set(s, IF c.result = ChargeError THEN [pc |-> "error", req |-> c.req] ELSE Idle)
  /\ UNCHANGED <<mode, pending, logs, host, bounds>>

\* logging.Write of the charge error: an entry without context.  (Its reads and
\* its INSERT are one step here; so are those of WriteFailure.)
WriteError(s) ==
  LET r == call[s].req IN
  /\ Step(s, "error")
  /\ Insert(Row(KeyOf[r], r, mode[KeyOf[r]], FALSE))
  /\ Set(s, Idle)
  /\ UNCHANGED <<mode, pending, usage, host, bounds>>

-----------------------------------------------------------------------------
(* request.complete: WriteFailure, then Purge.                             *)

\* k is the key of the request's reservation, None when it has none.
Complete(s, r, failed, k) ==
  /\ Step(s, "idle") /\ host[r].stage = "open"
  /\ host' = [host EXCEPT ![r].stage = "over"]
  /\ k \in {KeyOf[r], None}
  /\ Len(logs) + 2 * Cardinality(Busy) < MaxRows
  /\ Set(s, IF failed THEN [pc |-> "failure", req |-> r, key |-> k]
            ELSE [pc |-> "purge"])
  /\ UNCHANGED <<mode, pending, logs, usage, bounds>>

\* Without a key the global mode decides, whatever it is.  The row is never
\* given a time to be purged.
WriteFailure(s) ==
  LET c == call[s] IN
  /\ Step(s, "failure")
  /\ \E m \in IF c.key = None THEN Modes ELSE {mode[c.key]} :
       logs' = IF m = "standard" THEN logs
               ELSE Append(logs, [Row(c.key, c.req, m, FALSE) EXCEPT !.purge = -1])
  /\ Set(s, [pc |-> "purge"])
  /\ UNCHANGED <<mode, pending, usage, host, bounds>>

\* Faulty variant: a row goes as soon as its time has come.
OverdueEarly(row) == row.stored /\ row.purge # -1 /\ row.purge <= now

Overdue(row) == row.stored /\ row.purge # -1 /\ row.purge < now

Purge(s) ==
  /\ Step(s, "purge")
  /\ logs' = [i \in DOMAIN logs |->
       IF Overdue(logs[i]) THEN [logs[i] EXCEPT !.stored = FALSE] ELSE logs[i]]
  /\ Set(s, Idle)
  /\ UNCHANGED <<mode, pending, usage, host, bounds>>

-----------------------------------------------------------------------------

\* mgmtUpdateKey with a log mode, or the global setting.
SetLogMode(k, m) ==
  /\ edits < MaxEdits /\ edits' = edits + 1 /\ mode[k] # m
  /\ mode' = [mode EXCEPT ![k] = m]
  /\ UNCHANGED <<pending, logs, usage, host, call, crashes, now>>

\* The process dies; two unlocked writers of the map may be the reason.
Crash ==
  /\ crashes < MaxCrashes /\ crashes' = crashes + 1
  /\ pending' = {} /\ call' = [s \in Slots |-> Idle]
  /\ host' = [r \in Requests |-> IF host[r].stage = "new" THEN host[r]
                                 ELSE [host[r] EXCEPT !.stage = "over"]]
  /\ UNCHANGED <<mode, logs, usage, edits, now>>

Tick ==
  /\ now < MaxTime /\ now' = now + 1
  /\ UNCHANGED <<mode, pending, logs, usage, host, call, edits, crashes>>

Next ==
  \/ \E s \in Slots :
       \/ Capture(s) \/ LogInsert(s) \/ LogLast(s) \/ LogCost(s) \/ LogUpdate(s)
       \/ Charge(s) \/ WriteError(s) \/ WriteFailure(s) \/ Purge(s)
       \/ \E r \in Requests :
            \/ CaptureRead(s, r)
            \/ \E result \in Costs \cup {NoRecord, ChargeError} : UsageRead(s, r, result)
            \/ \E failed \in BOOLEAN, k \in Keys \cup {None} : Complete(s, r, failed, k)
  \/ \E k \in Keys, m \in Modes : SetLogMode(k, m)
  \/ Crash \/ Tick

Spec == Init /\ [][Next]_vars

-----------------------------------------------------------------------------

\* Shapes of the tables; a call in progress belongs to a request the host began.
TypeOK ==
  /\ mode \in [Keys -> Modes] /\ pending \subseteq Requests
  /\ logs \in Seq(LogRow) /\ usage \in Seq(UsageRow)
  /\ \A r \in Requests : /\ host[r].stage \in {"new", "open", "over"}
                         /\ host[r].attempts \in 0..MaxAttempts
  /\ \A s \in Busy \ {s \in Slots : Step(s, "purge")} : host[call[s].req].stage # "new"

\* "Only mode=full stores customer content, and only briefly": a row that holds
\* context is full and has a time to go, although the mode may be changed
\* between the capture, the usage record and the insertion.
ContextIsBrief ==
  \A i \in DOMAIN logs : logs[i].context =>
    logs[i].mode = "full" /\ logs[i].purge \in 0..now + Retention

\* "Small bounded map": however many requests are captured and never consumed,
\* the map holds at most one entry more than the size that triggers its reset.
PendingBounded == Cardinality(pending) <= MaxPending + 1

\* Whatever the mode, every usage record has a log row of its request, written
\* before it: what is billed can be looked up, even after a crash.
UsageIsLogged ==
  \A i \in DOMAIN usage :
    Cardinality({n \in 1..i : usage[n].req = usage[i].req})
      <= Cardinality({j \in DOMAIN logs : logs[j].req = usage[i].req})

\* The cost a row shows was billed to the key of the row, though not always for
\* the request of the row.
CostsAreBilled ==
  \A i \in DOMAIN logs : logs[i].cost > 0 =>
    \E j \in DOMAIN usage : usage[j].key = logs[i].key /\ usage[j].cost = logs[i].cost

\* A stored row disappears only when its retention has passed in full, and then
\* the first request to complete removes it.
PurgeOnTime ==
  [][\A i \in DOMAIN logs :
       /\ logs[i].stored /\ ~logs'[i].stored => logs[i].purge # -1 /\ logs[i].purge < now
       /\ (\E s \in Slots : Step(s, "purge") /\ call'[s].pc = "idle") /\ edits' = edits
            /\ crashes' = crashes => ~(logs'[i].stored /\ Overdue(logs[i]))]_vars
=============================================================================
