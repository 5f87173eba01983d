------------------------------ MODULE MCParts ------------------------------
(***************************************************************************)
(* Five small parts of the system that know nothing of each other, checked    *)
(* one at a time: the libc of the M4 (M4Lib), its interrupts (M4Irq), the     *)
(* pictures of the Wayland clients (Pictures), the environment in two copies  *)
(* (EnvStore), and the two copies of the SPL (SplAB).                        *)
(***************************************************************************)
EXTENDS M4Lib, M4Irq, Pictures, EnvStore, MCSplAB

VARIABLE part

partVars == <<libVars, irqVars, picVars, vars, splVars, part>>

\* The others stay in one of their initial states
LibStill == LibInit /\ mem = [a \in Addr |-> 0]
PicStill == PicInit /\ prog = "splash-wl" /\ offered = Globals

PartsInit ==
  /\ IrqInit /\ Init /\ SplInit
  /\ \/ part = "libc" /\ LibInit /\ PicStill
     \/ part \in {"irq", "env", "spl"} /\ LibStill /\ PicStill
     \/ part = "pictures" /\ LibStill /\ PicInit

PartsNext ==
  /\ UNCHANGED part
  /\ \/ part = "libc" /\ LibNext /\ UNCHANGED <<irqVars, picVars, vars, splVars>>
     \/ part = "irq" /\ IrqNext /\ UNCHANGED <<libVars, picVars, vars, splVars>>
     \/ part = "pictures" /\ PicNext /\ UNCHANGED <<libVars, irqVars, vars, splVars>>
     \/ part = "env" /\ Next /\ UNCHANGED <<libVars, irqVars, picVars, splVars>>
     \/ part = "spl" /\ SplNext /\ UNCHANGED <<libVars, irqVars, picVars, vars>>

PartsSpec == PartsInit /\ [][PartsNext]_partVars

Irq(A) == A /\ part = "irq" /\ UNCHANGED <<libVars, picVars, vars, splVars, part>>
Spl(A) == A /\ part = "spl" /\ UNCHANGED <<libVars, irqVars, picVars, vars, part>>

\* The core runs, an interrupt is taken, the mailbox tries again; the ROM, the boot
\* service and a command of `ab spl` that has begun go on by themselves
FairParts ==
  /\ PartsSpec /\ WF_partVars(Irq(FirmMain)) /\ WF_partVars(Irq(Interrupt))
  /\ WF_partVars(Irq(MU_M4_IRQHandler)) /\ WF_partVars(Irq(LinuxKick))
  /\ WF_partVars(Spl(Rom)) /\ WF_partVars(Spl(SelfHeal)) /\ WF_partVars(Spl(Write))

\* A logo of two rows and three columns, not at the border of the panel
MCLogo == [x |-> 1, y |-> 1, w |-> 3, h |-> 2, bits |-> {0, 2, 4}]
MCPanel == [w |-> 5, h |-> 4]
MCFallback == [w |-> 4, h |-> 3]
MCImages == {[w |-> 2, h |-> 1], [w |-> 1, h |-> 3]}
=============================================================================
