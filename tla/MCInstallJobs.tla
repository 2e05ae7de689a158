--------------------------- MODULE MCInstallJobs ---------------------------
(* Small instances of InstallJobs for TLC. *)
EXTENDS InstallJobs

NoFaults  == {}
AllFaults == {"raise", "restart"}
=============================================================================
