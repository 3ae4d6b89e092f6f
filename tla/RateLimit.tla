----------------------------- MODULE RateLimit ------------------------------
(***************************************************************************)
(* CheckRPM of internal/policy: a sliding window of timestamps per key, in *)
(* memory under one mutex.  The clock is read before the mutex is taken,   *)
(* so a call may arrive with a timestamp older than the last one kept.  A  *)
(* timestamp is kept with the request that left it, which the code does    *)
(* not do: only so are equal ones counted apart in a set.  Their order     *)
(* decides nothing but the hint of when to retry.                          *)
(***************************************************************************)
EXTENDS Integers, FiniteSets

CONSTANTS Keys,
          Window         \* length of the window: 60 000 ms

VARIABLE hits            \* rpm.seen: the timestamps kept for each key

RateInit == hits = [k \in Keys |-> {}]

\* What a call that read the clock at t keeps of a key's timestamps.
KeptHits(k, t) == {h \in hits[k] : h.at >= t - Window}

Allowed(k, limit, t) == Cardinality(KeptHits(k, t)) < limit

\* Faulty variant: the request that passes is not recorded.
CheckRPMUnrecorded(k, r, limit, t) == hits' = [hits EXCEPT ![k] = KeptHits(k, t)]

\* The critical section: prune, decide, record.
CheckRPM(k, r, limit, t) ==
  hits' = [hits EXCEPT ![k] = KeptHits(k, t) \cup
             (IF Allowed(k, limit, t) THEN {[at |-> t, req |-> r]} ELSE {})]
=============================================================================
