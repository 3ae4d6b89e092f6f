---------------------------- MODULE GatewayProofs ----------------------------
(***************************************************************************)
(* For any keys, limits, threads and length of the window: the shapes, and *)
(* that no window holds more requests than the limit of one of them plus   *)
(* the other threads.  A window that has not closed counts every request   *)
(* that passed in it.  Once the clock is past its end a later call may     *)
(* prune it, but then only the calls that read the clock before its end    *)
(* can still add to it, and the pruning thread is not one of them.  And    *)
(* the weighted round robin: a round of the cursor means each percent of   *)
(* the bound accounts once.                                                *)
(***************************************************************************)
EXTENDS Gateway, FiniteSetTheorems, WellFoundedInduction, TLAPS

\* What a call carries, and that each request is in one call of CheckRPM at most.
CallsTyped ==
  /\ call = [s \in Slots |-> call[s]]
  /\ \A s \in Slots :
       /\ call[s].pc # "idle" => call[s].req \in Requests
       /\ call[s].pc \in {"clock", "rpm"} => call[s].limit \in Nat \ {0}
       /\ call[s].pc = "rpm" => call[s].at \in 1..now
  /\ \A s, t \in Slots :
       /\ call[s].pc \in {"clock", "rpm"} /\ call[t].pc \in {"clock", "rpm"}
       /\ call[s].req = call[t].req
       => s = t

Admitted == [req : Requests, at : 1..now, limit : Nat \ {0}]

\* A request passes once, and only a request that passed is on record.
AdmittedTyped ==
  /\ now \in Nat \ {0}
  /\ IsFiniteSet(admitted) /\ admitted \subseteq Admitted
  /\ \A a \in admitted : stage[a.req] = "open"
  /\ \A a, b \in admitted : a.req = b.req => a = b
  /\ \A k \in Keys : IsFiniteSet(hits[k])

\* Calls that have yet to decide for a timestamp up to t.
Late(t) == {s \in Slots : call[s].pc = "rpm" /\ call[s].at <= t}

\* The window up to t is on record in full and within a limit.
Recorded(k, t) ==
  /\ \A a \in Passed(k, t) : [at |-> a.at, req |-> a.req] \in hits[k]
  /\ Passed(k, t) # {} =>
       \E a \in Passed(k, t) : Cardinality(Passed(k, t)) <= a.limit

\* The window is closed but for the late calls.
Closing(k, t) ==
  /\ now > t
  /\ Passed(k, t) # {} =>
       \E a \in Passed(k, t) :
         Cardinality(Passed(k, t)) + Cardinality(Late(t)) <= a.limit + Cardinality(Slots) - 1

Windows == \A k \in Keys, t \in Int : Recorded(k, t) \/ Closing(k, t)

GatewayInv == TypeOK /\ CallsTyped /\ AdmittedTyped /\ Windows

-----------------------------------------------------------------------------
(* What is counted.                                                        *)

USE GatewayAssumption

\* The calls that are late are finitely many, and fewer without one of the threads.
LEMMA LateCount ==
  ASSUME NEW L \in SUBSET Slots
  PROVE  /\ IsFiniteSet(L) /\ Cardinality(L) \in Nat
         /\ Cardinality(Slots) \in Nat /\ Cardinality(Slots) >= 1
         /\ \A s \in Slots : s \notin L => Cardinality(L) <= Cardinality(Slots) - 1
<1>1. /\ IsFiniteSet(L) /\ Cardinality(L) \in Nat /\ Cardinality(Slots) \in Nat
      /\ Cardinality(Slots) # 0
  BY FS_Subset, FS_CardinalityType, FS_EmptySet
<1>2. ASSUME NEW s \in Slots, s \notin L PROVE Cardinality(L) <= Cardinality(Slots) - 1
  <2>1. /\ IsFiniteSet(Slots \ {s}) /\ Cardinality(Slots \ {s}) = Cardinality(Slots) - 1
        /\ L \subseteq Slots \ {s}
    BY <1>2, FS_RemoveElement
  <2> QED
    BY <2>1, FS_Subset
<1> QED
  BY <1>1, <1>2

\* So are the requests that passed.
LEMMA PassedCount ==
  ASSUME AdmittedTyped, NEW k, NEW t
  PROVE  /\ Passed(k, t) \subseteq admitted
         /\ IsFiniteSet(Passed(k, t)) /\ Cardinality(Passed(k, t)) \in Nat
  BY FS_Subset, FS_CardinalityType DEF AdmittedTyped, Passed

\* Requests on record are counted: each left a timestamp of its own.
LEMMA RecordedCount ==
  ASSUME AdmittedTyped, NEW P \in SUBSET admitted, NEW H, IsFiniteSet(H),
         \A a \in P : [at |-> a.at, req |-> a.req] \in H
  PROVE  Cardinality(P) <= Cardinality(H)
<1> DEFINE f == [a \in P |-> [at |-> a.at, req |-> a.req]]
<1>1. f \in [P -> H]
  OBVIOUS
<1>2. ASSUME NEW a \in P, NEW b \in P, f[a] = f[b] PROVE a = b
  <2>1. a.req = b.req
    BY <1>2
  <2> QED
    BY <2>1 DEF AdmittedTyped
<1>3. f \in Injection(P, H)
  <2> HIDE DEF f
  <2> QED
    BY <1>1, <1>2 DEF Injection, IsInjective
<1> QED
  BY <1>3, FS_Injection

\* One slot moves on, the others do not.
LEMMA SlotMoves ==
  ASSUME CallsTyped, NEW s \in Slots, NEW c, Set(s, c)
  PROVE  /\ call' = [t \in Slots |-> call'[t]]
         /\ \A t \in Slots : call'[t] = IF t = s THEN c ELSE call[t]
<1>1. call = [t \in Slots |-> call[t]]
  BY DEF CallsTyped
<1> QED
  BY <1>1 DEF Set

\* Nothing passes, and no call reads a time the clock is past: every window stays
\* as it is.
LEMMA QuietWindows ==
  ASSUME GatewayInv, UNCHANGED <<hits, admitted>>, now' \in Nat, now' >= now,
         \A t \in Int : now > t => Late(t)' \subseteq Late(t)
  PROVE  Windows'
<1> SUFFICES ASSUME NEW k \in Keys, NEW t \in Int
             PROVE  Recorded(k, t)' \/ Closing(k, t)'
  BY DEF Windows
<1>0. AdmittedTyped /\ now \in Nat /\ (Recorded(k, t) \/ Closing(k, t))
  BY DEF GatewayInv, AdmittedTyped, Windows
<1>1. Passed(k, t)' = Passed(k, t)
  BY DEF Passed
<1>2. CASE Recorded(k, t)
  BY <1>1, <1>2 DEF Recorded
<1>3. CASE Closing(k, t)
  <2>1. /\ IsFiniteSet(Late(t)) /\ Cardinality(Late(t)) \in Nat
        /\ Cardinality(Late(t)') \in Nat /\ Cardinality(Slots) \in Nat
    BY LateCount DEF Late
  <2>2. now > t /\ Late(t)' \subseteq Late(t)
    BY <1>3 DEF Closing
  <2>3. Cardinality(Late(t)') <= Cardinality(Late(t))
    BY <2>1, <2>2, FS_Subset
  <2>4. now' > t
    BY <1>0, <2>2
  <2>5. ASSUME NEW a \in Passed(k, t),
               Cardinality(Passed(k, t)) + Cardinality(Late(t))
                 <= a.limit + Cardinality(Slots) - 1
        PROVE  Cardinality(Passed(k, t)) + Cardinality(Late(t)')
                 <= a.limit + Cardinality(Slots) - 1
    <3>1. a.limit \in Nat /\ Cardinality(Passed(k, t)) \in Nat
      BY <1>0, PassedCount DEF AdmittedTyped, Admitted
    <3> QED
      BY <2>1, <2>3, <2>5, <3>1
  <2> QED
    BY <1>1, <1>3, <2>4, <2>5 DEF Closing
<1> QED
  BY <1>0, <1>2, <1>3

\* A list whose entries are replaced where they are is still a list.
LEMMA ReplacedRows ==
  ASSUME NEW S, NEW q \in Seq(S), NEW r, r \in [DOMAIN q -> S]
  PROVE  r \in Seq(S)
  OBVIOUS

-----------------------------------------------------------------------------
(* The steps.                                                              *)

\* The lists are checked, and a key with a limit goes on to CheckRPM.
LEMMA InterceptStep ==
  ASSUME GatewayInv, NEW s \in Slots, NEW r \in Requests, Intercept(s, r)
  PROVE  GatewayInv'
<1> DEFINE limit == rpm[KeyOf[r]]
           c     == [pc |-> "clock", req |-> r, limit |-> limit]
<1>0. /\ TypeOK /\ CallsTyped /\ AdmittedTyped /\ now \in Nat
      /\ call[s].pc = "idle" /\ stage[r] = "new" /\ limit \in Int
      /\ UNCHANGED <<hits, cursors, admitted, picked, bindings, rpm, now>>
  BY DEF GatewayInv, AdmittedTyped, TypeOK, Intercept, memory, bounds
<1>1. PICK what \in {"gate", "open", "refused"} :
        /\ stage' = [stage EXCEPT ![r] = what]
        /\ \/ UNCHANGED call
           \/ what = "gate" /\ limit > 0 /\ Set(s, c)
  BY DEF Intercept, Stage
<1>2. \A q \in Requests : stage'[q] = IF q = r THEN what ELSE stage[q]
  BY <1>0, <1>1 DEF TypeOK
<1>3. CASE UNCHANGED call
  <2>1. TypeOK'
    BY <1>0, <1>1, <1>2, <1>3 DEF TypeOK, CallsTyped
  <2>2. CallsTyped'
    BY <1>0, <1>3 DEF CallsTyped
  <2>3. AdmittedTyped'
    BY <1>0, <1>2 DEF AdmittedTyped, Admitted
  <2>4. Windows'
    BY <1>0, <1>3, QuietWindows DEF Late
  <2> QED
    BY <2>1, <2>2, <2>3, <2>4 DEF GatewayInv
<1>4. CASE what = "gate" /\ limit > 0 /\ Set(s, c)
  <2>1. /\ call' = [t \in Slots |-> call'[t]]
        /\ \A t \in Slots : call'[t] = IF t = s THEN c ELSE call[t]
    BY <1>0, <1>4, SlotMoves
  <2>2. \A t \in Slots : call[t].pc \in {"clock", "rpm"} => call[t].req # r
    BY <1>0 DEF TypeOK
  <2>3. TypeOK'
    <3>1. \A t \in Slots :
            /\ call'[t].pc \in {"idle", "clock", "rpm", "cursor"}
            /\ call'[t].pc \in {"clock", "rpm"} => stage'[call'[t].req] = "gate"
      <4>1. \A t \in Slots :
              /\ call[t].pc \in {"idle", "clock", "rpm", "cursor"}
              /\ call[t].pc \in {"clock", "rpm"} =>
                   call[t].req \in Requests /\ stage[call[t].req] = "gate"
        BY <1>0 DEF TypeOK, CallsTyped
      <4> QED
        BY <1>2, <1>4, <2>1, <2>2, <4>1
    <3>2. stage' \in [Requests -> {"new", "gate", "open", "refused"}]
      BY <1>0, <1>1 DEF TypeOK
    <3> QED
      BY <1>0, <3>1, <3>2 DEF TypeOK
  <2>4. CallsTyped'
    BY <1>0, <1>4, <2>1, <2>2 DEF CallsTyped
  <2>5. AdmittedTyped'
    BY <1>0, <1>2 DEF AdmittedTyped, Admitted
  <2>6. Windows'
    BY <1>0, <2>1, QuietWindows DEF Late
  <2> QED
    BY <2>3, <2>4, <2>5, <2>6 DEF GatewayInv
<1> QED
  BY <1>1, <1>3, <1>4

\* The clock is read: the call is late for no window the clock is past.
LEMMA ClockStep ==
  ASSUME GatewayInv, NEW s \in Slots, ReadClock(s)
  PROVE  GatewayInv'
<1> DEFINE c == [pc |-> "rpm", req |-> call[s].req, limit |-> call[s].limit, at |-> now]
<1>0. /\ TypeOK /\ CallsTyped /\ AdmittedTyped /\ now \in Nat /\ now >= 1
      /\ call[s].pc = "clock" /\ Set(s, c)
      /\ UNCHANGED <<hits, cursors, admitted, picked, bindings, rpm, stage, now>>
  BY DEF GatewayInv, AdmittedTyped, ReadClock, memory, bounds
<1>1. /\ call' = [t \in Slots |-> call'[t]]
      /\ \A t \in Slots : call'[t] = IF t = s THEN c ELSE call[t]
  BY <1>0, SlotMoves
<1>6. c.pc = "rpm" /\ c.req = call[s].req /\ c.limit = call[s].limit /\ c.at = now
  OBVIOUS
<1> HIDE DEF c
<1>2. TypeOK'
  <2>1. \A t \in Slots :
          /\ call'[t].pc \in {"idle", "clock", "rpm", "cursor"}
          /\ call'[t].pc \in {"clock", "rpm"} => stage[call'[t].req] = "gate"
    <3>1. \A t \in Slots :
            /\ call[t].pc \in {"idle", "clock", "rpm", "cursor"}
            /\ call[t].pc \in {"clock", "rpm"} => stage[call[t].req] = "gate"
      BY <1>0 DEF TypeOK
    <3>2. call[s].pc = "clock"
      BY <1>0
    <3> QED
      BY <1>1, <1>6, <3>1, <3>2
  <2> QED
    BY <1>0, <2>1 DEF TypeOK
<1>3. CallsTyped'
  <2>1. \A t \in Slots :
          /\ call'[t].pc # "idle" => call'[t].req \in Requests
          /\ call'[t].pc \in {"clock", "rpm"} => call'[t].limit \in Nat \ {0}
          /\ call'[t].pc = "rpm" => call'[t].at \in 1..now
    BY <1>0, <1>1, <1>6 DEF CallsTyped
  <2>2. \A t \in Slots : call'[t].pc \in {"clock", "rpm"} =>
          call[t].pc \in {"clock", "rpm"} /\ call'[t].req = call[t].req
    BY <1>0, <1>1, <1>6
  <2>3. \A t, q \in Slots :
          /\ call'[t].pc \in {"clock", "rpm"} /\ call'[q].pc \in {"clock", "rpm"}
          /\ call'[t].req = call'[q].req
          => t = q
    BY <1>0, <2>2 DEF CallsTyped
  <2> QED
    BY <1>0, <1>1, <2>1, <2>3 DEF CallsTyped
<1>4. AdmittedTyped'
  BY <1>0 DEF AdmittedTyped, Admitted
<1>5. Windows'
  BY <1>0, <1>1, <1>6, QuietWindows DEF Late
<1> QED
  BY <1>2, <1>3, <1>4, <1>5 DEF GatewayInv

\* Steps that decide nothing about windows: picks and edits.
LEMMA PickStep ==
  ASSUME GatewayInv, NEW s \in Slots,
         PickCursor(s) \/ \E r \in Requests : Pick(s, r)
  PROVE  GatewayInv'
<1>0. /\ TypeOK /\ CallsTyped /\ AdmittedTyped /\ now \in Nat
      /\ call[s].pc \notin {"clock", "rpm"}
      /\ UNCHANGED <<hits, admitted, bindings, rpm, stage, now>>
  BY DEF GatewayInv, AdmittedTyped, PickCursor, Pick, NextCursor, memory, bounds
<1>1. PICK c : /\ Set(s, c) /\ c.pc \in {"idle", "cursor"}
               /\ c.pc # "idle" => c.req \in Requests
  <2>1. CASE PickCursor(s)
    <3>1. Set(s, Idle) /\ Idle.pc = "idle"
      BY <2>1 DEF PickCursor, Idle
    <3> QED
      BY <3>1
  <2>2. ASSUME NEW r \in Requests, Pick(s, r)
        PROVE  \E c : Set(s, c) /\ c.pc = "cursor" /\ c.req = r
    <3>1. PICK elig : Set(s, [pc |-> "cursor", req |-> r, elig |-> elig])
      BY <2>2 DEF Pick
    <3> QED
      BY <3>1
  <2> QED
    BY <2>1, <2>2
<1>2. /\ call' = [t \in Slots |-> call'[t]]
      /\ \A t \in Slots : call'[t] = IF t = s THEN c ELSE call[t]
  BY <1>0, <1>1, SlotMoves
<1>3. cursors' \in [Keys -> Nat]
  <2>1. cursors \in [Keys -> Nat]
    BY <1>0 DEF TypeOK
  <2>2. CASE PickCursor(s)
    <3>1. PICK k : cursors' = [cursors EXCEPT ![k] = cursors[k] + 1]
      BY <2>2 DEF PickCursor, NextCursor
    <3>2. \A q \in Keys : cursors'[q] \in Nat
      BY <2>1, <3>1
    <3> QED
      BY <2>1, <3>1, <3>2
  <2>3. CASE \E r \in Requests : Pick(s, r)
    BY <2>1, <2>3 DEF Pick, memory
  <2> QED
    BY <2>2, <2>3
<1>4. TypeOK'
  BY <1>0, <1>1, <1>2, <1>3 DEF TypeOK
<1>5. CallsTyped'
  BY <1>0, <1>1, <1>2 DEF CallsTyped
<1>6. AdmittedTyped'
  BY <1>0 DEF AdmittedTyped, Admitted
<1>7. Windows'
  BY <1>0, <1>1, <1>2, QuietWindows DEF Late
<1> QED
  BY <1>4, <1>5, <1>6, <1>7 DEF GatewayInv

\* Binding lists the code accepts are stored with proper shares.
LEMMA EditStep ==
  ASSUME GatewayInv,
         \/ \E k \in Keys, limit \in Limits : SetRPM(k, limit)
         \/ \E k \in Keys, list \in BindingLists : MgmtSetBindings(k, list)
         \/ UNCHANGED vars
  PROVE  GatewayInv'
<1>0. /\ TypeOK /\ CallsTyped /\ AdmittedTyped /\ now \in Nat
      /\ UNCHANGED <<hits, admitted, stage, call, cursors, now>>
  BY DEF GatewayInv, AdmittedTyped, SetRPM, MgmtSetBindings, SetBindings, Edit, vars,
         memory, bounds
<1>1. rpm' \in [Keys -> Limits]
  BY <1>0 DEF TypeOK, SetRPM, MgmtSetBindings, vars
<1>2. bindings' \in [Keys -> Seq(Binding)]
  <2>1. ASSUME NEW k \in Keys, NEW list \in BindingLists, SetBindings(k, list)
        PROVE  bindings' \in [Keys -> Seq(Binding)]
    <3> DEFINE stored == [i \in DOMAIN list |->
                            [list[i] EXCEPT !.share = IF @ = 0 THEN Whole ELSE @]]
    <3>1. list \in Seq(Binding) /\ bindings' = [bindings EXCEPT ![k] = stored]
      BY <2>1 DEF SetBindings
    <3>2. stored \in [DOMAIN list -> Binding]
      <4> SUFFICES ASSUME NEW i \in DOMAIN list
                   PROVE  [list[i] EXCEPT !.share = IF @ = 0 THEN Whole ELSE @] \in Binding
        OBVIOUS
      <4>1. list[i] \in Binding /\ Whole \in 0..Whole
        BY <3>1
      <4> QED
        BY <4>1 DEF Binding
    <3>3. stored \in Seq(Binding)
      <4> HIDE DEF stored
      <4> QED
        BY <3>1, <3>2, ReplacedRows
    <3> HIDE DEF stored
    <3> QED
      BY <1>0, <3>1, <3>3 DEF TypeOK
  <2> QED
    BY <1>0, <2>1 DEF TypeOK, SetRPM, MgmtSetBindings, vars
<1>3. TypeOK'
  BY <1>0, <1>1, <1>2 DEF TypeOK
<1>4. CallsTyped' /\ AdmittedTyped'
  BY <1>0 DEF CallsTyped, AdmittedTyped, Admitted
<1>5. Windows'
  BY <1>0, QuietWindows DEF Late
<1> QED
  BY <1>3, <1>4, <1>5 DEF GatewayInv

\* Time passes: more windows are closed.
LEMMA TickStep ==
  ASSUME GatewayInv, Tick
  PROVE  GatewayInv'
<1>0. /\ TypeOK /\ CallsTyped /\ AdmittedTyped /\ now \in Nat /\ now' = now + 1
      /\ UNCHANGED <<hits, admitted, bindings, rpm, stage, call, cursors>>
  BY DEF GatewayInv, AdmittedTyped, Tick, memory
<1>1. 1..now \subseteq 1..now'
  BY <1>0
<1>2. TypeOK'
  BY <1>0, <1>1 DEF TypeOK
<1>3. CallsTyped'
  BY <1>0, <1>1 DEF CallsTyped
<1>4. AdmittedTyped'
  BY <1>0, <1>1 DEF AdmittedTyped, Admitted
<1>5. Windows'
  BY <1>0, QuietWindows DEF Late
<1> QED
  BY <1>2, <1>3, <1>4, <1>5 DEF GatewayInv

\* The memory starts afresh, and nothing was decided in it.
LEMMA RestartStep ==
  ASSUME GatewayInv, Restart
  PROVE  GatewayInv'
<1>0. /\ TypeOK /\ CallsTyped /\ AdmittedTyped /\ now \in Nat
      /\ UNCHANGED <<bindings, rpm, now>>
      /\ hits' = [k \in Keys |-> {}] /\ cursors' = [k \in Keys |-> 0]
      /\ admitted' = {} /\ call' = [s \in Slots |-> Idle]
      /\ stage' = [r \in Requests |-> IF stage[r] = "new" THEN "new" ELSE "refused"]
  BY DEF GatewayInv, AdmittedTyped, Restart
<1>1. TypeOK'
  BY <1>0 DEF TypeOK, Idle
<1>2. CallsTyped'
  BY <1>0 DEF CallsTyped, Idle
<1>3. AdmittedTyped'
  BY <1>0, FS_EmptySet DEF AdmittedTyped
<1>4. Windows'
  BY <1>0 DEF Windows, Recorded, Passed
<1> QED
  BY <1>1, <1>2, <1>3, <1>4 DEF GatewayInv

\* The critical section: what it does to the tables.
LEMMA DecisionTables ==
  ASSUME GatewayInv, NEW s \in Slots, RpmDecision(s)
  PROVE  TypeOK' /\ CallsTyped' /\ AdmittedTyped'
<1> DEFINE c     == call[s]
           r     == c.req
           k     == KeyOf[r]
           stamp == [at |-> c.at, req |-> r]
           a     == [req |-> r, at |-> c.at, limit |-> c.limit]
<1>0. /\ TypeOK /\ CallsTyped /\ AdmittedTyped /\ now \in Nat /\ c.pc = "rpm"
      /\ UNCHANGED <<cursors, picked, bindings, rpm, now>> /\ Set(s, Idle)
  BY DEF GatewayInv, AdmittedTyped, RpmDecision, bounds
<1>1. /\ r \in Requests /\ k \in Keys /\ c.limit \in Nat \ {0} /\ c.at \in 1..now
      /\ stage[r] = "gate"
  BY <1>0 DEF CallsTyped, TypeOK
<1>2. /\ hits' = [q \in Keys |-> hits'[q]]
      /\ \A q \in Keys : q # k => hits'[q] = hits[q]
      /\ hits'[k] \subseteq hits[k] \cup {stamp}
  BY <1>0, <1>1 DEF RpmDecision, CheckRPM, KeptHits, TypeOK
<1>3. /\ stage' \in [Requests -> {"new", "gate", "open", "refused"}]
      /\ \A q \in Requests : q # r => stage'[q] = stage[q]
      /\ \/ UNCHANGED admitted
         \/ stage'[r] = "open" /\ admitted' = admitted \cup {a}
  BY <1>0, <1>1 DEF RpmDecision, Stage, TypeOK
<1>4. /\ call' = [t \in Slots |-> call'[t]]
      /\ \A t \in Slots : call'[t] = IF t = s THEN Idle ELSE call[t]
  BY <1>0, SlotMoves
<1>5. \A t \in Slots : t # s /\ call[t].pc \in {"clock", "rpm"} => call[t].req # r
  BY <1>0 DEF CallsTyped
<1>6. \A b \in admitted : b.req # r /\ b.req \in Requests
  BY <1>0, <1>1 DEF AdmittedTyped, Admitted
<1>7. hits' \in [Keys -> SUBSET [at : 1..now, req : Requests]]
  <2>1. hits \in [Keys -> SUBSET [at : 1..now, req : Requests]]
    BY <1>0 DEF TypeOK
  <2>2. stamp \in [at : 1..now, req : Requests]
    BY <1>1
  <2>3. \A q \in Keys : hits'[q] \subseteq [at : 1..now, req : Requests]
    <3> HIDE DEF stamp
    <3> QED
      BY <1>1, <1>2, <2>1, <2>2
  <2> QED
    BY <1>2, <2>3
<1>8. TypeOK'
  <2>1. \A t \in Slots :
          /\ call'[t].pc \in {"idle", "clock", "rpm", "cursor"}
          /\ call'[t].pc \in {"clock", "rpm"} => stage'[call'[t].req] = "gate"
    <3>1. \A t \in Slots :
            /\ call[t].pc \in {"idle", "clock", "rpm", "cursor"}
            /\ call[t].pc \in {"clock", "rpm"} =>
                 call[t].req \in Requests /\ stage[call[t].req] = "gate"
      BY <1>0 DEF TypeOK, CallsTyped
    <3> QED
      BY <1>3, <1>4, <1>5, <3>1 DEF Idle
  <2> QED
    BY <1>0, <1>3, <1>7, <2>1 DEF TypeOK
<1>9. CallsTyped'
  BY <1>0, <1>4 DEF CallsTyped, Idle
<1>10. AdmittedTyped'
  <2>1. \A q \in Keys : IsFiniteSet(hits'[q])
    <3>1. IsFiniteSet(hits[k]) /\ IsFiniteSet(hits[k] \cup {stamp})
      BY <1>0, <1>1, FS_AddElement DEF AdmittedTyped
    <3>2. IsFiniteSet(hits'[k])
      BY <1>2, <3>1, FS_Subset
    <3>3. \A q \in Keys : q # k => hits'[q] = hits[q]
      BY <1>0, <1>2 DEF TypeOK
    <3> QED
      BY <1>0, <3>2, <3>3 DEF AdmittedTyped
  <2>2. CASE UNCHANGED admitted
    BY <1>0, <1>3, <1>6, <2>1, <2>2 DEF AdmittedTyped, Admitted
  <2>3. CASE stage'[r] = "open" /\ admitted' = admitted \cup {a}
    <3>1. IsFiniteSet(admitted')
      BY <1>0, <2>3, FS_AddElement DEF AdmittedTyped
    <3>2. a \in Admitted /\ a.req = r
      BY <1>1 DEF Admitted
    <3> HIDE DEF a
    <3>3. admitted \subseteq Admitted /\ Admitted' = Admitted
      BY <1>0 DEF AdmittedTyped, Admitted
    <3>4. admitted' \subseteq Admitted'
      BY <2>3, <3>2, <3>3
    <3>5. \A b \in admitted' : stage'[b.req] = "open"
      BY <1>0, <1>3, <1>6, <2>3, <3>2 DEF AdmittedTyped
    <3>6. \A b, d \in admitted' : b.req = d.req => b = d
      BY <1>0, <1>6, <2>3, <3>2 DEF AdmittedTyped
    <3> QED
      BY <1>0, <2>1, <3>1, <3>4, <3>5, <3>6 DEF AdmittedTyped
  <2> QED
    BY <1>3, <2>2, <2>3
<1> QED
  BY <1>8, <1>9, <1>10

\* A decision adds to a window that is on record only within its own limit, and to
\* one that is closing only as one of the calls that were late for it.
LEMMA DecisionWindows ==
  ASSUME GatewayInv, NEW s \in Slots, RpmDecision(s)
  PROVE  Windows'
<1> SUFFICES ASSUME NEW k \in Keys, NEW t \in Int
             PROVE  Recorded(k, t)' \/ Closing(k, t)'
  BY DEF Windows
<1> DEFINE c    == call[s]
           r    == c.req
           a    == [req |-> r, at |-> c.at, limit |-> c.limit]
           P    == Passed(k, t)
           N    == Cardinality(Slots)
           mine == KeyOf[r] = k /\ c.at \in (t - Window)..t
           kept == KeptHits(k, c.at)
<1>0. /\ TypeOK /\ CallsTyped /\ AdmittedTyped /\ now \in Nat /\ c.pc = "rpm"
      /\ (Recorded(k, t) \/ Closing(k, t)) /\ AdmittedTyped'
      /\ UNCHANGED now /\ Set(s, Idle) /\ Window \in Nat
  BY DecisionTables DEF GatewayInv, AdmittedTyped, Windows, RpmDecision, bounds
<1>1. /\ r \in Requests /\ c.limit \in Nat \ {0} /\ c.at \in 1..now
      /\ stage[r] = "gate"
  BY <1>0 DEF CallsTyped, TypeOK
<1>2. \A q \in Slots : call'[q] = IF q = s THEN Idle ELSE call[q]
  BY <1>0, SlotMoves
<1>3. /\ P \subseteq admitted /\ IsFiniteSet(P) /\ Cardinality(P) \in Nat
      /\ \A b \in P : b.limit \in Nat \ {0} /\ b.req # r /\ b.at \in (t - Window)..t
  <2>1. P \subseteq admitted /\ IsFiniteSet(P) /\ Cardinality(P) \in Nat
    BY <1>0, PassedCount
  <2>2. \A b \in P : b.at \in (t - Window)..t
    BY DEF Passed
  <2> QED
    BY <1>0, <1>1, <2>1, <2>2 DEF AdmittedTyped, Admitted
<1>4. /\ Cardinality(Late(t)) \in Nat /\ IsFiniteSet(Late(t)) /\ N \in Nat /\ N >= 1
      /\ Late(t)' = Late(t) \ {s} /\ Cardinality(Late(t)') \in Nat
      /\ Cardinality(Late(t)') <= Cardinality(Late(t))
      /\ Cardinality(Late(t)') <= N - 1
      /\ s \in Late(t) => Cardinality(Late(t)') = Cardinality(Late(t)) - 1
  <2>1. Late(t)' = Late(t) \ {s} /\ Late(t) \subseteq Slots
    BY <1>2 DEF Late, Idle
  <2>2. IsFiniteSet(Late(t)) /\ Cardinality(Late(t)) \in Nat
    BY <2>1, LateCount
  <2>3. /\ Cardinality(Late(t)') \in Nat /\ N \in Nat /\ N >= 1
        /\ Cardinality(Late(t)') <= N - 1
    BY <2>1, LateCount
  <2>4. Cardinality(Late(t)') <= Cardinality(Late(t))
    BY <2>1, <2>2, FS_Subset
  <2>5. s \in Late(t) => Cardinality(Late(t)') = Cardinality(Late(t)) - 1
    BY <2>1, <2>2, FS_RemoveElement
  <2> QED
    BY <2>1, <2>2, <2>3, <2>4, <2>5
<1>5. \/ Passed(k, t)' = P
      \/ /\ mine /\ Passed(k, t)' = P \cup {a} /\ Cardinality(kept) < c.limit
         /\ [at |-> c.at, req |-> r] \in hits'[k]
  <2>1. /\ \/ UNCHANGED admitted
           \/ /\ admitted' = admitted \cup {a} /\ Allowed(KeyOf[r], c.limit, c.at)
              /\ [at |-> c.at, req |-> r] \in hits'[KeyOf[r]]
    BY <1>0, <1>1 DEF RpmDecision, CheckRPM, TypeOK
  <2>2. CASE UNCHANGED admitted
    BY <2>2 DEF Passed
  <2>3. CASE mine /\ admitted' = admitted \cup {a}
    <3>1. Passed(k, t)' = P \cup {a}
      BY <2>3 DEF Passed
    <3> QED
      BY <2>1, <2>2, <2>3, <3>1 DEF Allowed
  <2>4. CASE ~mine /\ admitted' = admitted \cup {a}
    BY <2>4 DEF Passed
  <2> QED
    BY <2>1, <2>2, <2>3, <2>4
<1>6. a.req = r /\ a.at = c.at /\ a.limit = c.limit
  OBVIOUS
<1> HIDE DEF a
<1>7. /\ a \notin P
       /\ Cardinality(P \cup {a}) = Cardinality(P) + 1
  <2>1. a \notin P
    BY <1>3, <1>6
  <2> QED
    BY <1>3, <2>1, FS_AddElement
<1>8. CASE Recorded(k, t) /\ ~(KeyOf[r] = k /\ c.at > t)
  <2>1. \A b \in P : /\ [at |-> b.at, req |-> b.req] \in hits'[k]
                     /\ KeyOf[r] = k => [at |-> b.at, req |-> b.req] \in kept
    <3> SUFFICES ASSUME NEW b \in P
                 PROVE  /\ [at |-> b.at, req |-> b.req] \in hits'[k]
                        /\ KeyOf[r] = k => [at |-> b.at, req |-> b.req] \in kept
      OBVIOUS
    <3>1. [at |-> b.at, req |-> b.req] \in hits[k]
      BY <1>8 DEF Recorded
    <3>2. CASE KeyOf[r] # k
      BY <1>0, <3>1, <3>2 DEF RpmDecision, CheckRPM, TypeOK
    <3>3. CASE KeyOf[r] = k
      <4>1. b.at >= c.at - Window
        BY <1>0, <1>1, <1>3, <1>8, <3>3
      <4>2. [at |-> b.at, req |-> b.req] \in kept
        BY <3>1, <4>1 DEF KeptHits
      <4>3. kept \subseteq hits'[k]
        BY <1>0, <3>3 DEF RpmDecision, CheckRPM, TypeOK
      <4> QED
        BY <4>2, <4>3
    <3> QED
      BY <3>2, <3>3
  <2>2. CASE Passed(k, t)' = P
    BY <1>8, <2>1, <2>2 DEF Recorded
  <2>3. CASE /\ mine /\ Passed(k, t)' = P \cup {a} /\ Cardinality(kept) < c.limit
             /\ [at |-> c.at, req |-> r] \in hits'[k]
    <3>1. /\ a \notin P /\ a.limit = c.limit
          /\ Cardinality(P \cup {a}) = Cardinality(P) + 1
      BY <1>6, <1>7
    <3>2. Cardinality(P) <= Cardinality(kept) /\ Cardinality(kept) \in Nat
      <4>1. IsFiniteSet(kept) /\ Cardinality(kept) \in Nat
        <5>1. kept \subseteq hits[k] /\ IsFiniteSet(hits[k])
          BY <1>0 DEF KeptHits, AdmittedTyped
        <5> QED
          BY <5>1, FS_Subset, FS_CardinalityType
      <4> QED
        BY <1>0, <1>3, <2>1, <2>3, <4>1, RecordedCount
    <3>3. Cardinality(P \cup {a}) <= a.limit
      BY <1>1, <1>3, <2>3, <3>1, <3>2
    <3>4. \A b \in P \cup {a} : [at |-> b.at, req |-> b.req] \in hits'[k]
      BY <1>6, <2>1, <2>3
    <3> QED
      BY <2>3, <3>3, <3>4 DEF Recorded
  <2> QED
    BY <1>5, <2>2, <2>3
<1>9. CASE Recorded(k, t) /\ KeyOf[r] = k /\ c.at > t
  <2>1. Passed(k, t)' = P /\ now' > t
    BY <1>0, <1>1, <1>5, <1>9
  <2>2. ASSUME NEW b \in P, Cardinality(P) <= b.limit
        PROVE  Cardinality(P) + Cardinality(Late(t)') <= b.limit + N - 1
    BY <1>3, <1>4, <2>2
  <2> QED
    BY <1>9, <2>1, <2>2 DEF Recorded, Closing
<1>10. CASE Closing(k, t)
  <2>1. now' > t
    BY <1>0, <1>10 DEF Closing
  <2>2. CASE Passed(k, t)' = P
    <3>1. ASSUME NEW b \in P,
                 Cardinality(P) + Cardinality(Late(t)) <= b.limit + N - 1
          PROVE  Cardinality(P) + Cardinality(Late(t)') <= b.limit + N - 1
      BY <1>3, <1>4, <3>1
    <3> QED
      BY <1>10, <2>1, <2>2, <3>1 DEF Closing
  <2>3. CASE mine /\ Passed(k, t)' = P \cup {a}
    <3>1. /\ a \notin P /\ a.limit = c.limit
          /\ Cardinality(P \cup {a}) = Cardinality(P) + 1
      BY <1>6, <1>7
    <3>2. Cardinality(Late(t)') = Cardinality(Late(t)) - 1
      BY <1>0, <1>4, <2>3 DEF Late
    <3>3. CASE P = {}
      <4>1. Cardinality(P) = 0
        BY <3>3, FS_EmptySet
      <4>2. Cardinality(P \cup {a}) + Cardinality(Late(t)') <= a.limit + N - 1
        BY <1>1, <1>4, <3>1, <4>1
      <4> QED
        BY <2>1, <2>3, <4>2 DEF Closing
    <3>4. ASSUME NEW b \in P,
                 Cardinality(P) + Cardinality(Late(t)) <= b.limit + N - 1
          PROVE  Cardinality(P \cup {a}) + Cardinality(Late(t)') <= b.limit + N - 1
      BY <1>3, <1>4, <3>1, <3>2, <3>4
    <3> QED
      BY <1>10, <2>1, <2>3, <3>3, <3>4 DEF Closing
  <2> QED
    BY <1>5, <2>2, <2>3
<1> QED
  BY <1>0, <1>8, <1>9, <1>10

-----------------------------------------------------------------------------
(* The invariant.                                                          *)

\* Every step keeps the invariant.
LEMMA StepKeepsGatewayInv ==
  ASSUME GatewayInv, [Next]_vars
  PROVE  GatewayInv'
<1>1. CASE \E s \in Slots, r \in Requests : Intercept(s, r)
  BY <1>1, InterceptStep
<1>2. CASE \E s \in Slots : ReadClock(s)
  BY <1>2, ClockStep
<1>3. CASE \E s \in Slots : RpmDecision(s)
  BY <1>3, DecisionTables, DecisionWindows DEF GatewayInv
<1>4. CASE \E s \in Slots : PickCursor(s) \/ \E r \in Requests : Pick(s, r)
  BY <1>4, PickStep
<1>5. CASE \/ \E k \in Keys, limit \in Limits : SetRPM(k, limit)
           \/ \E k \in Keys, list \in BindingLists : MgmtSetBindings(k, list)
           \/ UNCHANGED vars
  BY <1>5, EditStep
<1>6. CASE Tick
  BY <1>6, TickStep
<1>7. CASE Restart
  BY <1>7, RestartStep
<1> QED
  BY <1>1, <1>2, <1>3, <1>4, <1>5, <1>6, <1>7 DEF Next

\* The invariant holds at every point of every run.
THEOREM GatewayInvariant == Spec => []GatewayInv
<1>1. Init => GatewayInv
  <2> SUFFICES ASSUME Init PROVE GatewayInv
    OBVIOUS
  <2>1. /\ hits = [k \in Keys |-> {}] /\ bindings = StartBindings
        /\ cursors = [k \in Keys |-> 0] /\ rpm \in [Keys -> Limits]
        /\ stage = [r \in Requests |-> "new"] /\ call = [s \in Slots |-> Idle]
        /\ now = 1 /\ admitted = {}
    BY DEF Init, RateInit, SchedulerInit
  <2>2. TypeOK
    BY <2>1 DEF TypeOK, Idle
  <2>3. CallsTyped
    BY <2>1 DEF CallsTyped, Idle
  <2>4. AdmittedTyped
    BY <2>1, FS_EmptySet DEF AdmittedTyped
  <2>5. Windows
    BY <2>1 DEF Windows, Recorded, Passed
  <2> QED
    BY <2>2, <2>3, <2>4, <2>5 DEF GatewayInv
<1>2. GatewayInv /\ [Next]_vars => GatewayInv'
  BY StepKeepsGatewayInv
<1> QED
  BY <1>1, <1>2, PTL DEF Spec

\* The windows, the bindings and the cursors keep their shapes, and no kept
\* timestamp is of the future.
THEOREM GatewayTypeCorrect == Spec => []TypeOK
<1>1. GatewayInv => TypeOK
  BY DEF GatewayInv
<1> QED
  BY <1>1, GatewayInvariant, PTL

\* However many threads read the clock before others prune, a window exceeds the
\* limit of one of its requests by less than their number.
THEOREM LimitsKept == Spec => []LimitKept
<1>1. GatewayInv => LimitKept
  <2> SUFFICES ASSUME GatewayInv, NEW b \in admitted
               PROVE  \E a \in Passed(KeyOf[b.req], b.at) :
                        Cardinality(Passed(KeyOf[b.req], b.at))
                          <= a.limit + Cardinality(Slots) - 1
    BY DEF LimitKept
  <2> DEFINE k == KeyOf[b.req]
             P == Passed(k, b.at)
             L == Late(b.at)
  <2>1. AdmittedTyped /\ k \in Keys /\ b.at \in Nat
    BY DEF GatewayInv, AdmittedTyped, Admitted
  <2>2. b \in P
    BY <2>1 DEF Passed
  <2>3. /\ Cardinality(P) \in Nat /\ \A a \in P : a.limit \in Nat
    BY <2>1, PassedCount DEF AdmittedTyped, Admitted
  <2>4. /\ Cardinality(L) \in Nat /\ Cardinality(Slots) \in Nat
        /\ Cardinality(Slots) >= 1
    BY LateCount DEF Late
  <2>5. PICK a \in P : \/ Cardinality(P) <= a.limit
                      \/ Cardinality(P) + Cardinality(L)
                           <= a.limit + Cardinality(Slots) - 1
    <3>1. Recorded(k, b.at) \/ Closing(k, b.at)
      BY <2>1 DEF GatewayInv, Windows
    <3> QED
      BY <2>2, <3>1 DEF Recorded, Closing
  <2>6. Cardinality(P) <= a.limit + Cardinality(Slots) - 1
    BY <2>3, <2>4, <2>5
  <2> QED
    BY <2>6
<1> QED
  BY <1>1, GatewayInvariant, PTL

-----------------------------------------------------------------------------
(* Shares: a round of the cursor.                                          *)

\* What Eligible returns: finitely many places of a list, each with some percents.
Shared(e) ==
  /\ e = [n \in DOMAIN e |-> e[n]]
  /\ IsFiniteSet(DOMAIN e) /\ DOMAIN e \subseteq Nat /\ DOMAIN e # {}
  /\ \A n \in DOMAIN e : e[n].candidate \in Candidates /\ e[n].share \in 1..Whole

\* The percents of the places before n, and with those of n itself.
Before(e, n) == {p \in Percents(e) : p[1] < n}
UpTo(e, n)   == {p \in Percents(e) : p[1] <= n}

\* The value of the cursor, modulo their number, that means a percent.
Place(e, p) == Cardinality(Before(e, p[1])) + p[2] - 1

\* Percents are finitely many, and there are some.
LEMMA PercentsCount ==
  ASSUME NEW e, Shared(e)
  PROVE  /\ IsFiniteSet(Percents(e)) /\ ShareSum(e) \in Nat \ {0}
         /\ ShareSum(e) = Cardinality(Percents(e))
         /\ \A S \in SUBSET Percents(e) :
              IsFiniteSet(S) /\ Cardinality(S) \in Nat /\ Cardinality(S) <= ShareSum(e)
<1> DEFINE D == DOMAIN e
           R == 1..Whole
<1>1. IsFiniteSet(D \X R)
  <2>1. IsFiniteSet(D)
    BY DEF Shared
  <2>2. IsFiniteSet(R)
    <3>1. 1 \in Int /\ Whole \in Int
      OBVIOUS
    <3> QED
      BY ONLY <3>1, FS_Interval DEF R
  <2> HIDE DEF D, R
  <2> QED
    BY <2>1, <2>2, FS_Product
<1>2. IsFiniteSet(Percents(e))
  <2>1. Percents(e) \subseteq D \X R
    BY DEF Percents
  <2> HIDE DEF D, R
  <2> QED
    BY <1>1, <2>1, FS_Subset
<1> HIDE DEF D, R
<1>3. PICK n : n \in DOMAIN e /\ e[n].share \in 1..Whole
  <2>1. PICK n : n \in DOMAIN e
    BY DEF Shared
  <2> QED
    BY <2>1 DEF Shared
<1>4. <<n, 1>> \in Percents(e)
  BY <1>3 DEF Percents
<1>5. ShareSum(e) \in Nat /\ ShareSum(e) # 0
  BY <1>2, <1>4, FS_EmptySet, FS_CardinalityType DEF ShareSum
<1>6. \A S \in SUBSET Percents(e) :
        IsFiniteSet(S) /\ Cardinality(S) \in Nat /\ Cardinality(S) <= ShareSum(e)
  BY <1>2, FS_Subset, FS_CardinalityType DEF ShareSum
<1> QED
  BY <1>2, <1>5, <1>6 DEF ShareSum

\* A place adds as many percents as its share.
LEMMA ShareAdds ==
  ASSUME NEW e, Shared(e), NEW n \in DOMAIN e
  PROVE  /\ Cardinality(Before(e, n)) \in Nat /\ Cardinality(UpTo(e, n)) \in Nat
         /\ Cardinality(UpTo(e, n)) = Cardinality(Before(e, n)) + e[n].share
         /\ Cardinality(UpTo(e, n)) <= ShareSum(e)
<1> DEFINE own == {p \in Percents(e) : p[1] = n}
           f   == [x \in 1..e[n].share |-> <<n, x>>]
<1>0. n \in Nat /\ e[n].share \in 1..Whole
  BY DEF Shared
<1>1. f \in Bijection(1..e[n].share, own)
  <2>1. f \in [1..e[n].share -> own]
    BY <1>0 DEF Percents
  <2>2. \A x, y \in 1..e[n].share : f[x] = f[y] => x = y
    OBVIOUS
  <2>3. \A p \in own : \E x \in 1..e[n].share : f[x] = p
    BY <1>0 DEF Percents
  <2> HIDE DEF f, own
  <2> QED
    BY <2>1, <2>2, <2>3 DEF Bijection, Injection, Surjection, IsInjective
<1>2. IsFiniteSet(own) /\ Cardinality(own) = e[n].share
  <2>1. IsFiniteSet(1..e[n].share) /\ Cardinality(1..e[n].share) = e[n].share
    <3>1. PICK m \in Nat \ {0} : m = e[n].share
      BY <1>0
    <3>2. IsFiniteSet(1..m) /\ Cardinality(1..m) = m
      BY ONLY m \in Nat \ {0}, FS_Interval
    <3> QED
      BY <3>1, <3>2
  <2> HIDE DEF f, own
  <2> QED
    BY <1>1, <2>1, FS_Bijection DEF ExistsBijection
<1>3. UpTo(e, n) = Before(e, n) \cup own /\ Before(e, n) \cap own = {}
  BY <1>0 DEF UpTo, Before, Percents, Shared
<1>4. /\ IsFiniteSet(Before(e, n)) /\ Cardinality(Before(e, n)) \in Nat
      /\ Cardinality(UpTo(e, n)) \in Nat /\ Cardinality(UpTo(e, n)) <= ShareSum(e)
  BY PercentsCount DEF Before, UpTo
<1> HIDE DEF own
<1>5. Cardinality(UpTo(e, n)) = Cardinality(Before(e, n)) + Cardinality(own) - 0
  BY <1>2, <1>3, <1>4, FS_Union, FS_EmptySet
<1> QED
  BY <1>0, <1>2, <1>4, <1>5

\* The percents of a place come after those of the places before it.
LEMMA PlacesApart ==
  ASSUME NEW e, Shared(e), NEW m \in DOMAIN e, NEW n \in DOMAIN e, m < n
  PROVE  Cardinality(UpTo(e, m)) <= Cardinality(Before(e, n))
<1>1. UpTo(e, m) \subseteq Before(e, n)
  BY DEF UpTo, Before, Percents, Shared
<1>2. IsFiniteSet(Before(e, n))
  BY PercentsCount DEF Before
<1> QED
  BY <1>1, <1>2, FS_Subset

\* Each value of the cursor means one percent, and each percent is meant by one.
LEMMA PlacesFill ==
  ASSUME NEW e, Shared(e)
  PROVE  /\ \A p \in Percents(e) : Place(e, p) \in 0..(ShareSum(e) - 1)
         /\ \A p, q \in Percents(e) : Place(e, p) = Place(e, q) => p = q
         /\ \A x \in 0..(ShareSum(e) - 1) : \E p \in Percents(e) : Place(e, p) = x
<1> DEFINE T == ShareSum(e)
           f == [p \in Percents(e) |-> Place(e, p)]
<1>1. \A p \in Percents(e) : /\ p = <<p[1], p[2]>> /\ p[1] \in DOMAIN e /\ p[1] \in Nat
                             /\ p[2] \in 1..e[p[1]].share
  BY DEF Percents, Shared
<1>2. ASSUME NEW p \in Percents(e)
      PROVE  /\ Place(e, p) \in 0..(T - 1)
             /\ Place(e, p) >= Cardinality(Before(e, p[1]))
             /\ Place(e, p) < Cardinality(UpTo(e, p[1]))
             /\ Cardinality(UpTo(e, p[1])) \in Nat /\ Cardinality(Before(e, p[1])) \in Nat
  <2>1. e[p[1]].share \in Nat
    BY <1>1 DEF Shared
  <2> QED
    BY <1>1, <2>1, ShareAdds, PercentsCount DEF Place
<1>3. ASSUME NEW p \in Percents(e), NEW q \in Percents(e), Place(e, p) = Place(e, q)
      PROVE  p = q
  <2>1. CASE p[1] = q[1]
    <3>1. p[2] = q[2]
      BY <1>1, <1>2, <1>3, <2>1 DEF Place
    <3> QED
      BY <1>1, <2>1, <3>1
  <2>2. ~(p[1] < q[1])
    BY <1>1, <1>2, <1>3, PlacesApart
  <2>3. ~(q[1] < p[1])
    BY <1>1, <1>2, <1>3, PlacesApart
  <2> QED
    BY <1>1, <2>1, <2>2, <2>3
<1>4. f \in Injection(Percents(e), 0..(T - 1))
  <2>1. f \in [Percents(e) -> 0..(T - 1)]
    BY <1>2
  <2>2. \A p, q \in Percents(e) : f[p] = f[q] => p = q
    BY <1>3
  <2> HIDE DEF f
  <2> QED
    BY <2>1, <2>2 DEF Injection, IsInjective
<1>5. f \in Surjection(Percents(e), 0..(T - 1))
  <2>1. /\ IsFiniteSet(0..(T - 1)) /\ Cardinality(0..(T - 1)) = T
        /\ T = Cardinality(Percents(e))
    BY PercentsCount, FS_Interval
  <2> HIDE DEF f, T
  <2> QED
    BY <1>4, <2>1, FS_Injection
<1>6. \A x \in 0..(T - 1) : \E p \in Percents(e) : Place(e, p) = x
  BY <1>5 DEF Surjection
<1> QED
  BY <1>2, <1>3, <1>6

\* Slot finds the place whose percent the cursor means.
LEMMA SlotOfPercent ==
  ASSUME NEW e, Shared(e), NEW c \in Nat, NEW p \in Percents(e),
         Place(e, p) = c % ShareSum(e)
  PROVE  Slot(e, c) = e[p[1]].candidate
<1> DEFINE slot == c % ShareSum(e)
           In(n) == Cardinality(Before(e, n)) <= slot /\ slot < Cardinality(UpTo(e, n))
<1>1. p[1] \in DOMAIN e /\ p[1] \in Nat /\ p[2] \in 1..e[p[1]].share
  BY DEF Percents, Shared
<1>2. In(p[1])
  <2>1. e[p[1]].share \in Nat
    BY <1>1 DEF Shared
  <2> QED
    BY <1>1, <2>1, ShareAdds DEF Place
<1>3. ASSUME NEW n \in DOMAIN e, In(n) PROVE n = p[1]
  <2>1. n \in Nat
    BY DEF Shared
  <2>2. /\ Cardinality(Before(e, n)) \in Nat /\ Cardinality(UpTo(e, n)) \in Nat
        /\ Cardinality(Before(e, p[1])) \in Nat /\ Cardinality(UpTo(e, p[1])) \in Nat
        /\ Place(e, p) \in Nat
    BY <1>1, ShareAdds, PlacesFill
  <2>3. ~(n < p[1])
    BY <1>1, <1>2, <1>3, <2>2, PlacesApart
  <2>4. ~(p[1] < n)
    BY <1>1, <1>2, <1>3, <2>2, PlacesApart
  <2> QED
    BY <1>1, <2>1, <2>3, <2>4
<1>4. Slot(e, c) = e[CHOOSE n \in DOMAIN e : In(n)].candidate
  BY DEF Slot, Before, UpTo
<1> HIDE DEF In
<1>5. (CHOOSE n \in DOMAIN e : In(n)) = p[1]
  BY <1>1, <1>2, <1>3
<1> QED
  BY <1>4, <1>5

\* As many cursors in a row as there are percents mean each of them once.
LEMMA CursorGoesRound ==
  ASSUME NEW T \in Nat \ {0}, NEW i \in Nat \ {0}
  PROVE  /\ \A j \in i..(i + T - 1) : (j - 1) % T \in 0..(T - 1)
         /\ \A j, k \in i..(i + T - 1) : (j - 1) % T = (k - 1) % T => j = k
         /\ \A x \in 0..(T - 1) : \E j \in i..(i + T - 1) : (j - 1) % T = x
<1> DEFINE I == i..(i + T - 1)
           f == [j \in I |-> (j - 1) % T]
<1>1. \A j \in I : (j - 1) % T \in 0..(T - 1)
  OBVIOUS
<1>2. ASSUME NEW j \in I, NEW k \in I, (j - 1) % T = (k - 1) % T PROVE j = k
  <2> DEFINE a == (j - 1) \div T
             b == (k - 1) \div T
             r == (j - 1) % T
  <2>1. /\ j - 1 = T * a + r /\ k - 1 = T * b + r
        /\ a \in Int /\ b \in Int /\ r \in Int
    BY <1>2
  <2> HIDE DEF a, b, r
  <2>2. j - k = T * (a - b)
    BY <2>1
  <2>3. j - k < T /\ k - j < T /\ j \in Int /\ k \in Int
    OBVIOUS
  <2>4. ~(a - b >= 1)
    BY <2>1, <2>2, <2>3
  <2>5. ~(b - a >= 1)
    BY <2>1, <2>2, <2>3
  <2>6. a = b
    BY <2>1, <2>4, <2>5
  <2> QED
    BY <2>1, <2>3, <2>6
<1>3. f \in Injection(I, 0..(T - 1))
  <2>1. f \in [I -> 0..(T - 1)]
    BY <1>1
  <2>2. \A j, k \in I : f[j] = f[k] => j = k
    BY <1>2
  <2> HIDE DEF f, I
  <2> QED
    BY <2>1, <2>2 DEF Injection, IsInjective
<1>4. f \in Surjection(I, 0..(T - 1))
  <2>1. /\ IsFiniteSet(I) /\ Cardinality(I) = T
        /\ IsFiniteSet(0..(T - 1)) /\ Cardinality(0..(T - 1)) = T
    BY FS_Interval
  <2> HIDE DEF f, I
  <2> QED
    BY <1>3, <2>1, FS_Injection
<1>5. \A x \in 0..(T - 1) : \E j \in I : (j - 1) % T = x
  BY <1>4 DEF Surjection
<1> QED
  BY <1>1, <1>2, <1>5

\* A round of picks gives each candidate its share.
LEMMA RoundIsFair ==
  ASSUME NEW e, Shared(e), NEW i \in Nat \ {0}, NEW picks, NEW c,
         \A j \in i..(i + ShareSum(e) - 1) : picks[j].candidate = Slot(e, j - 1)
  PROVE  Cardinality({j \in i..(i + ShareSum(e) - 1) : picks[j].candidate = c})
           = ShareOf(e, c)
<1> DEFINE T == ShareSum(e)
           I == i..(i + T - 1)
           J == {j \in I : picks[j].candidate = c}
           U == {p \in Percents(e) : e[p[1]].candidate = c}
           Meant(j) == CHOOSE p \in Percents(e) : Place(e, p) = (j - 1) % T
           f == [j \in J |-> Meant(j)]
<1>1. T \in Nat \ {0} /\ I \subseteq Nat \ {0}
  BY PercentsCount
<1> HIDE DEF T
<1>2. ASSUME NEW j \in I
      PROVE  /\ Meant(j) \in Percents(e) /\ Place(e, Meant(j)) = (j - 1) % T
             /\ picks[j].candidate = e[Meant(j)[1]].candidate
  <2>1. \E p \in Percents(e) : Place(e, p) = (j - 1) % T
    <3>1. (j - 1) % T \in 0..(T - 1)
      BY <1>1, CursorGoesRound
    <3> QED
      BY <3>1, PlacesFill DEF T
  <2>2. Meant(j) \in Percents(e) /\ Place(e, Meant(j)) = (j - 1) % T
    BY <2>1
  <2>3. j - 1 \in Nat
    BY <1>1
  <2>4. Slot(e, j - 1) = e[Meant(j)[1]].candidate
    <3> HIDE DEF Meant
    <3> QED
      BY <2>2, <2>3, SlotOfPercent DEF T
  <2> QED
    BY <2>2, <2>4 DEF T
<1>3. ASSUME NEW j \in I, NEW k \in I, Meant(j) = Meant(k) PROVE j = k
  <2>1. (j - 1) % T = (k - 1) % T
    BY <1>2, <1>3
  <2> QED
    BY <1>1, <2>1, CursorGoesRound
<1>4. ASSUME NEW p \in Percents(e) PROVE \E j \in I : Meant(j) = p
  <2>1. PICK j \in I : (j - 1) % T = Place(e, p)
    <3>1. Place(e, p) \in 0..(T - 1)
      BY PlacesFill DEF T
    <3> QED
      BY <1>1, <3>1, CursorGoesRound
  <2>2. Meant(j) \in Percents(e) /\ Place(e, Meant(j)) = Place(e, p)
    BY <1>2, <2>1
  <2> QED
    BY <2>2, PlacesFill
<1> HIDE DEF Meant
<1>5. f \in Bijection(J, U)
  <2>1. f \in [J -> U]
    BY <1>2
  <2>2. \A j, k \in J : f[j] = f[k] => j = k
    BY <1>3
  <2>3. \A p \in U : \E j \in J : f[j] = p
    BY <1>2, <1>4
  <2> HIDE DEF f, J, U
  <2> QED
    BY <2>1, <2>2, <2>3 DEF Bijection, Injection, Surjection, IsInjective
<1>6. IsFiniteSet(J)
  <2>1. IsFiniteSet(I)
    BY <1>1, FS_Interval
  <2> QED
    BY <2>1, FS_Subset
<1>7. Cardinality(J) = Cardinality(U)
  <2> HIDE DEF f, J, U
  <2> QED
    BY <1>5, <1>6, FS_Bijection DEF ExistsBijection
<1> QED
  BY <1>7 DEF ShareOf, T

-----------------------------------------------------------------------------
(* The picks of a key, in their order.                                     *)

\* What HandlePick may choose between.
Offered ==
  {e \in {Eligible(list, candidates) : list \in Seq(Binding), candidates \in CandidateLists} :
     Shared(e)}

\* The cursor counts the picks since the start, and each pick took its turn.
TurnsTaken ==
  /\ picked \in [Keys -> Seq([elig : Offered, candidate : Candidates])]
  /\ \A k \in Keys :
       /\ cursors[k] = Len(picked[k])
       /\ \A j \in 1..Len(picked[k]) :
            picked[k][j].candidate = Slot(picked[k][j].elig, j - 1)
  /\ \A s \in Slots : call[s].pc = "cursor" => call[s].elig \in Offered

\* A nonempty set of places of a list has a first one.
LEMMA FirstPlace ==
  ASSUME NEW S \in SUBSET Nat, S # {}
  PROVE  \E m \in S : \A n \in S : m <= n
<1> DEFINE R == OpToRel(<, Nat)
<1>1. \A x, y \in Nat : y < x => <<y, x>> \in R
  BY DEF OpToRel
<1>2. IsWellFoundedOn(R, Nat)
  BY NatLessThanWellFounded
<1> HIDE DEF R
<1>3. PICK m \in S : \A n \in S : ~(<<n, m>> \in R)
  BY <1>2, WFMin
<1>4. \A n \in S : ~(n < m)
  BY <1>1, <1>3
<1> QED
  BY <1>4

\* More places than one make a list to choose from: each has percents.
LEMMA EligibleShared ==
  ASSUME NEW list \in Seq(Binding), NEW candidates \in CandidateLists,
         Cardinality(DOMAIN Eligible(list, candidates)) > 1
  PROVE  Eligible(list, candidates) \in Offered
<1> DEFINE match(c) == {i \in DOMAIN list :
                          list[i].enabled /\ <<c, list[i].account>> \in Matching}
           first(c) == CHOOSE i \in match(c) : \A j \in match(c) : i <= j
           D == {n \in DOMAIN candidates : match(candidates[n]) # {}}
           e == Eligible(list, candidates)
<1>1. candidates \in Seq(Candidates) /\ DOMAIN candidates = 1..Len(candidates)
      /\ Len(candidates) \in Nat
  OBVIOUS
<1>2. e = [n \in D |-> [candidate |-> candidates[n],
             share |-> IF list[first(candidates[n])].share = 0 THEN 1
                       ELSE list[first(candidates[n])].share]]
  BY DEF Eligible
<1>3. ASSUME NEW n \in D PROVE list[first(candidates[n])].share \in 0..Whole
  <2>1. match(candidates[n]) \subseteq Nat /\ match(candidates[n]) # {}
    OBVIOUS
  <2>2. \E i \in match(candidates[n]) : \A j \in match(candidates[n]) : i <= j
    <3> HIDE DEF match
    <3> QED
      BY <2>1, FirstPlace
  <2>3. first(candidates[n]) \in match(candidates[n])
    <3> HIDE DEF match
    <3> QED
      BY <2>2
  <2>4. first(candidates[n]) \in DOMAIN list
    <3> HIDE DEF first
    <3> QED
      BY <2>3
  <2> HIDE DEF first
  <2>5. list[first(candidates[n])] \in Binding
    BY <2>4
  <2> QED
    BY <2>5 DEF Binding
<1> HIDE DEF first
<1>4. IsFiniteSet(D) /\ D \subseteq Nat
  <2>1. IsFiniteSet(1..Len(candidates))
    BY <1>1, FS_Interval
  <2>2. D \subseteq 1..Len(candidates)
    BY <1>1
  <2>3. D \subseteq Nat
    BY <1>1
  <2> HIDE DEF D
  <2> QED
    BY <2>1, <2>2, <2>3, FS_Subset
<1>5. DOMAIN e = D
  BY <1>2
<1>6. D # {}
  <2>1. PICK E : E = DOMAIN e
    OBVIOUS
  <2>2. Cardinality(E) > 1
    BY <2>1
  <2>3. E # {}
    BY ONLY <2>2, FS_EmptySet
  <2> QED
    BY <1>5, <2>1, <2>3
<1>7. \A n \in D : e[n].candidate \in Candidates /\ e[n].share \in 1..Whole
  <2> SUFFICES ASSUME NEW n \in D
               PROVE  e[n].candidate \in Candidates /\ e[n].share \in 1..Whole
    OBVIOUS
  <2>1. candidates[n] \in Candidates
    BY <1>1
  <2>2. e[n].candidate = candidates[n]
        /\ e[n].share = IF list[first(candidates[n])].share = 0 THEN 1
                        ELSE list[first(candidates[n])].share
    BY <1>2
  <2> QED
    BY <1>3, <2>1, <2>2
<1>8. e = [n \in DOMAIN e |-> e[n]]
  BY <1>2
<1>9. Shared(e)
  <2> HIDE DEF e, D
  <2> QED
    BY <1>4, <1>5, <1>6, <1>7, <1>8 DEF Shared
<1> QED
  BY <1>9 DEF Offered

\* The cursor always means a candidate.
LEMMA SlotIsCandidate ==
  ASSUME NEW e \in Offered, NEW c \in Nat
  PROVE  Slot(e, c) \in Candidates
<1>1. Shared(e)
  BY DEF Offered
<1>2. c % ShareSum(e) \in 0..(ShareSum(e) - 1)
  BY <1>1, PercentsCount
<1>3. PICK p \in Percents(e) : Place(e, p) = c % ShareSum(e)
  BY <1>1, <1>2, PlacesFill
<1>4. p[1] \in DOMAIN e
  BY DEF Percents
<1> QED
  BY <1>1, <1>3, <1>4, SlotOfPercent DEF Shared

\* The bindings are read and a list to choose from is drawn up.
LEMMA PickTurns ==
  ASSUME GatewayInv, TurnsTaken, NEW s \in Slots, NEW r \in Requests, Pick(s, r)
  PROVE  TurnsTaken'
<1>1. PICK candidates \in CandidateLists :
        LET elig == Eligible(bindings[KeyOf[r]], candidates) IN
        /\ Cardinality(DOMAIN elig) > 1
        /\ Set(s, [pc |-> "cursor", req |-> r, elig |-> elig])
  BY DEF Pick
<1> DEFINE elig == Eligible(bindings[KeyOf[r]], candidates)
<1>2. bindings[KeyOf[r]] \in Seq(Binding)
  BY DEF GatewayInv, TypeOK
<1>3. elig \in Offered
  BY <1>1, <1>2, EligibleShared
<1> HIDE DEF elig
<1>4. Set(s, [pc |-> "cursor", req |-> r, elig |-> elig])
  BY <1>1 DEF elig
<1>5. \A t \in Slots : call'[t] = IF t = s THEN [pc |-> "cursor", req |-> r, elig |-> elig]
                                  ELSE call[t]
  BY <1>4, SlotMoves DEF GatewayInv
<1>6. \A t \in Slots : call'[t].pc = "cursor" => call'[t].elig \in Offered
  <2>1. \A t \in Slots : call[t].pc = "cursor" => call[t].elig \in Offered
    BY DEF TurnsTaken
  <2> QED
    BY <1>3, <1>5, <2>1
<1>7. UNCHANGED <<picked, cursors>>
  BY DEF Pick, memory
<1> QED
  BY <1>6, <1>7 DEF TurnsTaken

\* The cursor is taken and moves on by one.
LEMMA CursorTurns ==
  ASSUME GatewayInv, TurnsTaken, NEW s \in Slots, PickCursor(s)
  PROVE  TurnsTaken'
<1> DEFINE k   == KeyOf[call[s].req]
           row == [elig |-> call[s].elig, candidate |-> Slot(call[s].elig, cursors[k])]
           Row == [elig : Offered, candidate : Candidates]
<1>1. /\ call[s].pc = "cursor" /\ k \in Keys /\ cursors \in [Keys -> Nat]
      /\ cursors' = [cursors EXCEPT ![k] = cursors[k] + 1]
      /\ picked' = [picked EXCEPT ![k] = Append(picked[k], row)]
      /\ Set(s, Idle)
  BY DEF PickCursor, NextCursor, GatewayInv, TypeOK, CallsTyped
<1>2. /\ row.elig \in Offered /\ row.candidate \in Candidates /\ row \in Row
      /\ row.candidate = Slot(row.elig, cursors[k])
  <2>1. call[s].elig \in Offered /\ cursors[k] \in Nat
    BY <1>1 DEF TurnsTaken
  <2>2. Slot(call[s].elig, cursors[k]) \in Candidates
    BY <2>1, SlotIsCandidate
  <2> DEFINE c == Slot(call[s].elig, cursors[k])
  <2>3. [elig |-> call[s].elig, candidate |-> c] \in Row
    <3> HIDE DEF c
    <3> QED
      BY <2>1, <2>2 DEF c
  <2> QED
    BY <2>1, <2>2, <2>3
<1>3. picked \in [Keys -> Seq(Row)] /\ cursors[k] = Len(picked[k])
  BY <1>1 DEF TurnsTaken
<1> HIDE DEF k, row, Row
<1>4. /\ Append(picked[k], row) \in Seq(Row)
      /\ Len(Append(picked[k], row)) = Len(picked[k]) + 1 /\ Len(picked[k]) \in Nat
      /\ \A j \in 1..Len(picked[k]) : Append(picked[k], row)[j] = picked[k][j]
      /\ Append(picked[k], row)[Len(picked[k]) + 1] = row
  <2>1. PICK q \in Seq(Row), x \in Row : q = picked[k] /\ x = row
    BY <1>1, <1>2, <1>3
  <2>2. /\ Append(q, x) \in Seq(Row)
        /\ Len(Append(q, x)) = Len(q) + 1 /\ Len(q) \in Nat
        /\ \A j \in 1..Len(q) : Append(q, x)[j] = q[j]
        /\ Append(q, x)[Len(q) + 1] = x
    BY ONLY q \in Seq(Row), x \in Row
  <2> QED
    BY <2>1, <2>2
<1>5. picked' \in [Keys -> Seq(Row)]
  BY <1>1, <1>3, <1>4
<1>6. \A q \in Keys : /\ picked'[q] = IF q = k THEN Append(picked[k], row) ELSE picked[q]
                      /\ cursors'[q] = IF q = k THEN cursors[k] + 1 ELSE cursors[q]
  BY <1>1, <1>3
<1>7. ASSUME NEW q \in Keys
      PROVE  /\ cursors'[q] = Len(picked'[q])
             /\ \A j \in 1..Len(picked'[q]) :
                  picked'[q][j].candidate = Slot(picked'[q][j].elig, j - 1)
  <2>0. /\ cursors[q] = Len(picked[q])
        /\ \A j \in 1..Len(picked[q]) :
             picked[q][j].candidate = Slot(picked[q][j].elig, j - 1)
    BY DEF TurnsTaken
  <2>1. CASE q # k
    BY <1>6, <2>0, <2>1
  <2>2. CASE q = k
    <3>1. /\ picked'[k] = Append(picked[k], row) /\ cursors'[k] = Len(picked'[k])
          /\ Len(picked'[k]) = Len(picked[k]) + 1
      BY <1>1, <1>3, <1>4, <1>6
    <3>2. ASSUME NEW j \in 1..Len(picked'[k])
          PROVE  picked'[k][j].candidate = Slot(picked'[k][j].elig, j - 1)
      <4>1. CASE j \in 1..Len(picked[k])
        BY <1>4, <2>0, <2>2, <3>1, <4>1
      <4>2. CASE j = Len(picked[k]) + 1
        <5>1. picked'[k][j] = row /\ j - 1 = cursors[k]
          BY <1>3, <1>4, <3>1, <4>2
        <5> QED
          BY <1>2, <5>1
      <4> QED
        BY <1>4, <3>1, <4>1, <4>2
    <3> QED
      BY <2>2, <3>1, <3>2
  <2> QED
    BY <2>1, <2>2
<1>8. \A t \in Slots : call'[t] = IF t = s THEN Idle ELSE call[t]
  BY <1>1, SlotMoves DEF GatewayInv
<1>9. \A t \in Slots : call'[t].pc = "cursor" => call'[t].elig \in Offered
  BY <1>8 DEF TurnsTaken, Idle
<1> QED
  BY <1>5, <1>7, <1>9 DEF TurnsTaken, Row

\* A restart forgets cursors and picks together.
LEMMA RestartTurns ==
  ASSUME Restart
  PROVE  TurnsTaken'
<1>1. /\ picked' = [k \in Keys |-> <<>>] /\ cursors' = [k \in Keys |-> 0]
      /\ call' = [s \in Slots |-> Idle]
  BY DEF Restart
<1>2. picked' \in [Keys -> Seq([elig : Offered, candidate : Candidates])]
  BY <1>1
<1> QED
  BY <1>1, <1>2 DEF TurnsTaken, Idle

\* No other step picks.
LEMMA OtherTurns ==
  ASSUME GatewayInv, TurnsTaken, UNCHANGED <<picked, cursors>>,
         \/ UNCHANGED call
         \/ \E s \in Slots : \E c : Set(s, c) /\ c.pc # "cursor"
  PROVE  TurnsTaken'
<1>1. \A t \in Slots : call'[t].pc = "cursor" => call'[t] = call[t]
  <2>1. CASE UNCHANGED call
    BY <2>1
  <2>2. ASSUME NEW s \in Slots, NEW c, Set(s, c), c.pc # "cursor"
        PROVE  \A t \in Slots : call'[t].pc = "cursor" => call'[t] = call[t]
    BY <2>2, SlotMoves DEF GatewayInv
  <2> QED
    BY <2>1, <2>2
<1>2. \A t \in Slots : call'[t].pc = "cursor" => call'[t].elig \in Offered
  BY <1>1 DEF TurnsTaken
<1> QED
  BY <1>2 DEF TurnsTaken

\* Every step keeps the turns.
LEMMA StepTurns ==
  ASSUME GatewayInv, TurnsTaken, [Next]_vars
  PROVE  TurnsTaken'
<1>1. ASSUME NEW s \in Slots, NEW r \in Requests, Intercept(s, r)
      PROVE  TurnsTaken'
  <2>1. UNCHANGED <<picked, cursors>>
    BY <1>1 DEF Intercept, memory
  <2>2. \/ UNCHANGED call
        \/ Set(s, [pc |-> "clock", req |-> r, limit |-> rpm[KeyOf[r]]])
    BY <1>1 DEF Intercept
  <2> QED
    BY <2>1, <2>2, OtherTurns
<1>2. ASSUME NEW s \in Slots, ReadClock(s) PROVE TurnsTaken'
  <2>1. /\ UNCHANGED <<picked, cursors>>
        /\ Set(s, [pc |-> "rpm", req |-> call[s].req, limit |-> call[s].limit, at |-> now])
    BY <1>2 DEF ReadClock, memory
  <2> QED
    BY <2>1, OtherTurns
<1>3. ASSUME NEW s \in Slots, RpmDecision(s) PROVE TurnsTaken'
  <2>1. UNCHANGED <<picked, cursors>> /\ Set(s, Idle) /\ Idle.pc # "cursor"
    BY <1>3 DEF RpmDecision, Idle
  <2> QED
    BY <2>1, OtherTurns
<1>4. ASSUME \/ \E k \in Keys, limit \in Limits : SetRPM(k, limit)
             \/ \E k \in Keys, list \in BindingLists : MgmtSetBindings(k, list)
             \/ Tick \/ UNCHANGED vars
      PROVE  TurnsTaken'
  <2>1. UNCHANGED <<picked, cursors, call>>
    BY <1>4 DEF SetRPM, MgmtSetBindings, SetBindings, Edit, Tick, vars, memory
  <2> QED
    BY <2>1, OtherTurns
<1> QED
  BY <1>1, <1>2, <1>3, <1>4, PickTurns, CursorTurns, RestartTurns DEF Next

\* Whichever threads pick and however long ago they read the bindings: as many
\* picks in a row from the same list as its shares add up to give each candidate
\* its share (HandlePick).
THEOREM SharesAreKept == Spec => []SharesKept
<1>1. Init => TurnsTaken
  <2> SUFFICES ASSUME Init PROVE TurnsTaken
    OBVIOUS
  <2>1. /\ picked = [k \in Keys |-> <<>>] /\ cursors = [k \in Keys |-> 0]
        /\ call = [s \in Slots |-> Idle]
    BY DEF Init, SchedulerInit
  <2>2. picked \in [Keys -> Seq([elig : Offered, candidate : Candidates])]
    BY <2>1
  <2> QED
    BY <2>1, <2>2 DEF TurnsTaken, Idle
<1>2. GatewayInv /\ TurnsTaken /\ [Next]_vars => TurnsTaken'
  BY StepTurns
<1>3. TurnsTaken => SharesKept
  <2> SUFFICES ASSUME TurnsTaken, NEW k \in Keys, NEW i \in DOMAIN picked[k],
                      NEW e, e = picked[k][i].elig,
                      i + ShareSum(e) - 1 <= Len(picked[k]),
                      \A j \in i..(i + ShareSum(e) - 1) : picked[k][j].elig = e,
                      NEW c \in Candidates
               PROVE  Cardinality({j \in i..(i + ShareSum(e) - 1) :
                                     picked[k][j].candidate = c}) = ShareOf(e, c)
    BY DEF SharesKept
  <2> DEFINE Row == [elig : Offered, candidate : Candidates]
  <2>0. picked[k] \in Seq(Row)
    BY DEF TurnsTaken
  <2>1. /\ DOMAIN picked[k] = 1..Len(picked[k]) /\ Len(picked[k]) \in Nat
        /\ picked[k][i] \in Row
    <3> HIDE DEF Row
    <3> QED
      BY <2>0
  <2>2. Shared(e) /\ i \in Nat \ {0}
    <3>1. picked[k][i] \in [elig : Offered, candidate : Candidates]
      BY <2>1
    <3>2. e \in Offered
      BY <3>1
    <3> QED
      BY <2>1, <3>2 DEF Offered
  <2>3. ShareSum(e) \in Nat \ {0}
    BY <2>2, PercentsCount
  <2>4. \A j \in i..(i + ShareSum(e) - 1) : picked[k][j].candidate = Slot(e, j - 1)
    <3>1. \A j \in i..(i + ShareSum(e) - 1) : j \in 1..Len(picked[k])
      BY <2>1, <2>2, <2>3
    <3> QED
      BY <3>1 DEF TurnsTaken
  <2> DEFINE picks == picked[k]
  <2>5. \A j \in i..(i + ShareSum(e) - 1) : picks[j].candidate = Slot(e, j - 1)
    BY <2>4
  <2>6. Cardinality({j \in i..(i + ShareSum(e) - 1) : picks[j].candidate = c})
          = ShareOf(e, c)
    <3> HIDE DEF picks
    <3> QED
      BY ONLY <2>2, <2>5, RoundIsFair
  <2> QED
    BY <2>6
<1> QED
  BY <1>1, <1>2, <1>3, GatewayInvariant, PTL DEF Spec
=============================================================================
