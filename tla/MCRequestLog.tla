---------------------------- MODULE MCRequestLog ----------------------------
(* Two requests of two keys, or of one, and two host threads.              *)
EXTENDS RequestLog, TLC

CONSTANTS k1, k2, r1, r2, s1, s2

OneEach == r1 :> k1 @@ r2 :> k2
FullAndStandard == k1 :> "full" @@ k2 :> "standard"
Interchangeable == Permutations(Slots)
=============================================================================
