-------------------------- MODULE MCUploadAdmission --------------------------
(* Instances of UploadAdmission for TLC. *)
EXTENDS UploadAdmission, TLC

CONSTANTS r1, r2, r3, alice, bob, near, far

\* One user with two uploads from two addresses, another who shares one of them.
UserMap == r1 :> alice @@ r2 :> alice @@ r3 :> bob
AddressMap == r1 :> near @@ r2 :> far @@ r3 :> far
=============================================================================
