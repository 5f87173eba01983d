------------------------------ MODULE M4Bench ------------------------------
(***************************************************************************)
(* The bench around the Cortex-M4: remoteproc loads one firmware after the    *)
(* other, each brings its devices on Linux and takes them with it; the        *)
(* console of the Teensy stays.                                             *)
(***************************************************************************)
EXTENDS M4Echo, M4CanSim, M4Console

benchVars == <<baseVars, echoVars, canVars, conVars>>

BenchInit == BaseInit /\ EchoInit /\ CanInit /\ ConInit

LoadImage == Load /\ EchoReset /\ CanReset /\ ConReset

BenchNext ==
  \/ LoadImage
  \/ ComesUp /\ UNCHANGED <<echoVars, canVars, conVars>>
  \/ EchoNext /\ UNCHANGED <<canVars, conVars>>
  \/ CanNext /\ UNCHANGED <<echoVars, conVars>>
  \/ ConNext /\ UNCHANGED <<echoVars, canVars>>

BenchSpec == BenchInit /\ [][BenchNext]_benchVars
=============================================================================
