---------------------------- MODULE MCSiteSettings ----------------------------
(* Instances of SiteSettings for TLC.  Kinds, keys, requests and browsers are *)
(* only compared, and no liveness is checked.                                 *)
EXTENDS SiteSettings, TLC

Symmetry == Permutations(Kinds) \cup Permutations(Keys) \cup Permutations(Requests)
=============================================================================
