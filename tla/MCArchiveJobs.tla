---------------------------- MODULE MCArchiveJobs ----------------------------
(* Instances of ArchiveJobs for TLC, without symmetry: Ends names the jobs. *)
EXTENDS ArchiveJobs
=============================================================================
