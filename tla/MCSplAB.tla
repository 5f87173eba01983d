------------------------------ MODULE MCSplAB ------------------------------
(* A small instance of SplAB: "old" is the flashed version, "new" boots too, *)
(* "hang" does not.                                                          *)
EXTENDS SplAB

MCVersions == {"old", "new", "hang"}
MCBooting == {"old", "new"}
=============================================================================
