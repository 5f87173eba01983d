----------------------------- MODULE MCMcoreAB -----------------------------
(* Small instances of McoreAB: two firmwares that keep alive, one that is    *)
(* silent, one that resets the SoC.                                          *)
EXTENDS McoreAB

MCFirmwares == {"v1", "v2", "mute", "reset"}
MCAlive == {"v1", "v2"}
MCResetting == {"reset"}
=============================================================================
