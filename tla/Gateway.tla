------------------------------ MODULE Gateway -------------------------------
(***************************************************************************)
(* What the host asks of the plugin before a request goes upstream:        *)
(* intercept_before (handleInterceptBefore: the allowlists, then CheckRPM) *)
(* and, for each attempt, scheduler.pick (HandlePick).  A slot is a host   *)
(* thread in such a call.  Windows and cursors are memory: a crash of the  *)
(* process starts them afresh.                                             *)
(***************************************************************************)
EXTENDS Integers, Sequences, FiniteSets

CONSTANTS
  Keys, Window,           \* the window of CheckRPM: 60 000 ms
  Accounts, Candidates,   \* account references; the host's candidates
  Matching, Whole,        \* which candidate a reference means; 100 percent
  Requests, KeyOf,        \* client requests and the key of each
  Slots,
  Limits,                 \* values the admin gives keys.rpm; <= 0: no limit
  BindingLists,           \* binding lists the admin may send
  CandidateLists,         \* candidate lists the host may offer
  StartBindings,
  MaxPicks,               \* bound: weighted picks per key
  MaxEdits,               \* bound: calls of the admin
  MaxCrashes,             \* bound: restarts of the process
  MaxTime                 \* bound: the clock

VARIABLES
  hits,        \* timestamps kept by CheckRPM
  bindings,    \* key_account_bindings
  cursors,     \* weighted picks made so far
  rpm,         \* keys.rpm
  stage,       \* where the host is with each client request
  call,        \* what each slot is executing
  edits, crashes, now,
  admitted,    \* history since the process started: requests CheckRPM let pass
  picked       \* history since the process started: weighted picks of each key

INSTANCE RateLimit
INSTANCE Scheduler

ASSUME GatewayAssumption ==
  /\ Window \in Nat /\ Whole \in Nat \ {0}
  /\ KeyOf \in [Requests -> Keys] /\ Limits \subseteq Int
  /\ IsFiniteSet(Slots) /\ Slots # {}
  /\ BindingLists \subseteq Seq(Binding) /\ CandidateLists \subseteq Seq(Candidates)
  /\ StartBindings \in [Keys -> Seq(Binding)]

memory == <<hits, cursors, admitted, picked>>
bounds == <<edits, crashes, now>>
vars   == <<memory, bindings, rpm, stage, call, bounds>>

Idle == [pc |-> "idle", req |-> "none"]

Init ==
  /\ RateInit /\ SchedulerInit(StartBindings)
  /\ rpm \in [Keys -> Limits]
  /\ stage = [r \in Requests |-> "new"]
  /\ call = [s \in Slots |-> Idle]
  /\ edits = 0 /\ crashes = 0 /\ now = 1
  /\ admitted = {} /\ picked = [k \in Keys |-> <<>>]

Set(s, c)      == call' = [call EXCEPT ![s] = c]
Stage(r, what) == stage' = [stage EXCEPT ![r] = what]

-----------------------------------------------------------------------------
(* intercept_before, once per client request.                              *)

\* What CheckModel, CheckProvider and CheckIP may say of a request.
Verdicts == {"allow", "deny"}

\* The key row is read and the model, provider and address lists are checked;
\* a key without a limit is through.
Intercept(s, r) ==
  LET limit == rpm[KeyOf[r]] IN
  /\ call[s].pc = "idle" /\ stage[r] = "new"
  /\ \E verdict \in Verdicts :
       \/ verdict = "deny" /\ Stage(r, "refused") /\ UNCHANGED call
       \/ verdict = "allow" /\ limit <= 0 /\ Stage(r, "open") /\ UNCHANGED call
       \/ /\ verdict = "allow" /\ limit > 0 /\ Stage(r, "gate")
          /\ Set(s, [pc |-> "clock", req |-> r, limit |-> limit])
  /\ UNCHANGED <<memory, bindings, rpm, bounds>>

ReadClock(s) ==
  /\ call[s].pc = "clock"
  /\ Set(s, [pc |-> "rpm", req |-> call[s].req, limit |-> call[s].limit, at |-> now])
  /\ UNCHANGED <<memory, bindings, rpm, stage, bounds>>

RpmDecision(s) ==
  LET c == call[s]
      k == KeyOf[c.req]
  IN
  /\ c.pc = "rpm"
  /\ CheckRPM(k, c.req, c.limit, c.at)
  /\ IF Allowed(k, c.limit, c.at)
       THEN /\ Stage(c.req, "open")
            /\ admitted' = admitted \cup {[req |-> c.req, at |-> c.at, limit |-> c.limit]}
       ELSE Stage(c.req, "refused") /\ UNCHANGED admitted
  /\ Set(s, Idle)
  /\ UNCHANGED <<cursors, picked, bindings, rpm, bounds>>

-----------------------------------------------------------------------------
(* scheduler.pick, once per attempt of an admitted request.                *)

\* The bindings are read and matched with the candidates.  With no binding, no
\* candidate or a single one the answer needs no cursor.
Pick(s, r) ==
  /\ call[s].pc = "idle" /\ stage[r] = "open" /\ Len(picked[KeyOf[r]]) < MaxPicks
  /\ \E candidates \in CandidateLists :
       LET elig == Eligible(bindings[KeyOf[r]], candidates) IN
       /\ Cardinality(DOMAIN elig) > 1
       /\ Set(s, [pc |-> "cursor", req |-> r, elig |-> elig])
  /\ UNCHANGED <<memory, bindings, rpm, stage, bounds>>

PickCursor(s) ==
  LET c == call[s]
      k == KeyOf[c.req]
  IN
  /\ c.pc = "cursor"
  /\ NextCursor(k)
  /\ picked' = [picked EXCEPT ![k] =
       Append(@, [elig |-> c.elig, candidate |-> Slot(c.elig, cursors[k])])]
  /\ Set(s, Idle)
  /\ UNCHANGED <<hits, admitted, rpm, stage, bounds>>

-----------------------------------------------------------------------------

\* mgmtUpdateKey with an rpm, mgmtSetBindings.
Edit == edits < MaxEdits /\ edits' = edits + 1 /\ UNCHANGED <<crashes, now, stage, call>>

SetRPM(k, limit) ==
  /\ Edit /\ rpm[k] # limit
  /\ rpm' = [rpm EXCEPT ![k] = limit]
  /\ UNCHANGED <<memory, bindings>>

MgmtSetBindings(k, list) ==
  /\ Edit
  /\ SetBindings(k, list)
  /\ UNCHANGED <<hits, admitted, picked, rpm>>

\* The process dies and starts again: the requests in progress are gone.
Restart ==
  /\ crashes < MaxCrashes /\ crashes' = crashes + 1
  /\ hits' = [k \in Keys |-> {}] /\ cursors' = [k \in Keys |-> 0]
  /\ admitted' = {} /\ picked' = [k \in Keys |-> <<>>]
  /\ call' = [s \in Slots |-> Idle]
  /\ stage' = [r \in Requests |-> IF stage[r] = "new" THEN "new" ELSE "refused"]
  /\ UNCHANGED <<bindings, rpm, edits, now>>

Tick ==
  /\ now < MaxTime /\ now' = now + 1
  /\ UNCHANGED <<memory, bindings, rpm, stage, call, edits, crashes>>

Next ==
  \/ \E s \in Slots :
       \/ ReadClock(s) \/ RpmDecision(s) \/ PickCursor(s)
       \/ \E r \in Requests : Intercept(s, r) \/ Pick(s, r)
  \/ \E k \in Keys :
       \/ \E limit \in Limits : SetRPM(k, limit)
       \/ \E list \in BindingLists : MgmtSetBindings(k, list)
  \/ Restart \/ Tick

Spec == Init /\ [][Next]_vars

-----------------------------------------------------------------------------

\* Shapes of the rows, the memory and the calls; timestamps are of the past.
TypeOK ==
  /\ hits \in [Keys -> SUBSET [at : 1..now, req : Requests]]
  /\ cursors \in [Keys -> Nat] /\ bindings \in [Keys -> Seq(Binding)]
  /\ rpm \in [Keys -> Limits]
  /\ stage \in [Requests -> {"new", "gate", "open", "refused"}]
  /\ \A s \in Slots : call[s].pc \in {"idle", "clock", "rpm", "cursor"}
  /\ \A s \in Slots : call[s].pc \in {"clock", "rpm"} => stage[call[s].req] = "gate"

\* The requests of key k that passed with a timestamp of the window up to t.
Passed(k, t) == {a \in admitted : KeyOf[a.req] = k /\ a.at \in (t - Window)..t}

\* No window holds more requests of a key than the limit one of them passed under,
\* and one more for each further thread: a call may hold a timestamp from before
\* another one pruned.
LimitKept ==
  \A b \in admitted :
    LET passed == Passed(KeyOf[b.req], b.at)
    IN \E a \in passed : Cardinality(passed) <= a.limit + Cardinality(Slots) - 1

\* What the places of one candidate have of the percents.
ShareOf(elig, c) == Cardinality({p \in Percents(elig) : elig[p[1]].candidate = c})

\* While the bindings and the candidates of a key stay the same, every run of
\* as many picks as the shares add up to gives each candidate exactly its share,
\* wherever the run starts and whichever threads pick.
SharesKept ==
  \A k \in Keys : \A i \in DOMAIN picked[k] :
    LET picks == picked[k]
        elig  == picks[i].elig
        last  == i + ShareSum(elig) - 1
    IN last <= Len(picks) /\ (\A j \in i..last : picks[j].elig = elig) =>
         \A c \in Candidates :
           Cardinality({j \in i..last : picks[j].candidate = c}) = ShareOf(elig, c)
=============================================================================
