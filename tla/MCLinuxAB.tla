----------------------------- MODULE MCLinuxAB -----------------------------
(* Small instances of LinuxAB: "good" is healthy, "crash" dies in falcon but *)
(* runs through proper, "bare" has no falcon.itb and no working u-boot.itb.  *)
EXTENDS LinuxAB

MCImages == {"good", "crash", "bare"}
MCFalconOk == {"good"}
MCFalconAbsent == {"bare"}
MCProperOk == {"good", "crash"}
MCHealthy == {"good"}

\* Without "bare", for the run with --force
MC2Images == {"good", "crash"}
MC2FalconAbsent == {}
=============================================================================
