---------------------------- MODULE MCPublication ----------------------------
(* An instance of Publication for TLC: two tenants that share a name, two  *)
(* requests at a time.  Tenants, requests and codes are interchangeable.   *)
EXTENDS Publication, TLC

Symmetric == Permutations(Tenants) \cup Permutations(Requests) \cup Permutations(Codes)
=============================================================================
