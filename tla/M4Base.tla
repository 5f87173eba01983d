------------------------------- MODULE M4Base -------------------------------
(***************************************************************************)
(* The Cortex-M4 of the XPI with one of the bench firmwares that remoteproc  *)
(* loads: how each comes up, the clock gates it must open before it touches  *)
(* a peripheral, the bump allocator of its small libc, and the bread crumbs   *)
(* in TCMU that the A53 reads. What a firmware does then is in M4Echo,        *)
(* M4CanSim and M4Console.                                                   *)
(***************************************************************************)
EXTENDS Integers, FiniteSets

CONSTANTS
  Images,    (* the firmwares                                               *)
  Sizes,     (* what rpmsg-lite asks malloc for                             *)
  HeapSize,  (* 16 KiB on the board                                         *)
  Word,      (* size_t counts modulo it, 2^32                               *)
  Blocks,    (* how often rpmsg-lite calls malloc                           *)
  MaxLoads   (* bound: firmwares loaded                                     *)

ASSUME M4BaseAssumption ==
  /\ Images \subseteq {"echo", "can-sim", "hello", "uart-test", "clk-test"}
  /\ HeapSize \in Nat /\ HeapSize % 8 = 0 /\ Word \in Nat /\ Word % 8 = 0
  /\ Sizes \subseteq Nat \ {0} /\ \A s \in Sizes : s + 7 + HeapSize < Word
  /\ Blocks \in Nat /\ MaxLoads \in Nat

VARIABLES
  image,   (* the firmware that is loaded, or "none"                        *)
  pc,      (* where its main program is                                     *)
  crumb,   (* DBG[0]; it outlives the firmware                              *)
  gates,   (* clocks that the field of the M4's domain asks for             *)
  heap,    (* heap_off, and the blocks that malloc has returned             *)
  loads

baseVars == <<image, pc, crumb, gates, heap, loads>>

NoHeap == [off |-> 0, blocks |-> {}]

\* Linux keeps the gate of the messaging unit open
BaseInit ==
  /\ image = "none" /\ pc = "off" /\ crumb = "none"
  /\ gates = {"mu"} /\ heap = NoHeap /\ loads = 0

\* remoteproc stops the firmware wherever it is, and starts another one. The ELF
\* loader clears .bss; crumbs and gates stay.
Load ==
  /\ loads < MaxLoads /\ loads' = loads + 1
  /\ image' \in Images /\ pc' = "reset" /\ heap' = NoHeap
  /\ UNCHANGED <<crumb, gates>>
-----------------------------------------------------------------------------
(* Clocks. A register of CCGR has a field per domain; the one that the M4    *)
(* can write is in bits 5 and 4.                                            *)

\* Bug: the field of the A53
UartGateOfA53 == 3
\* 0x30
UartGate == 48
\* 0x3333
EcspiGate == 13107

Opened(gate, value) == IF (value \div 16) % 4 # 0 THEN gates \cup {gate} ELSE gates
\* An access to a peripheral without clock never ends
Touch(gate, next) == pc' = IF gate \in gates THEN next ELSE "stalled"

\* uart4_init up to the gate
OpenUart(step) ==
  /\ pc = "reset" /\ pc' = "uart" /\ crumb' = step /\ gates' = Opened("uart4", UartGate)
  /\ UNCHANGED <<image, heap, loads>>

\* The rest of it: pins, soft reset, polled 100000 times at most, and 115200 8N1
SetUpUart(next, step, more) ==
  /\ pc = "uart" /\ Touch("uart4", next)
  /\ crumb' = IF pc' = next THEN step ELSE crumb
  /\ gates' = gates \cup more
  /\ UNCHANGED <<image, heap, loads>>

HelloClock == image = "hello" /\ OpenUart("first")
HelloUart == image = "hello" /\ SetUpUart("main", "second", {})
UartTestClock == image = "uart-test" /\ OpenUart("first")
UartTestUart == image = "uart-test" /\ SetUpUart("main", "second", {})
EchoClock == image = "echo" /\ OpenUart(crumb)
\* It opens the gate of the messaging unit too
EchoUart == image = "echo" /\ SetUpUart("malloc", "first", {"mu"})

ClkTestGate ==
  /\ pc = "reset" /\ image = "clk-test" /\ pc' = "ccm" /\ crumb' = "first"
  /\ gates' = Opened("ecspi2", EcspiGate)
  /\ UNCHANGED <<image, heap, loads>>

ClkTestCcm ==
  /\ pc = "ccm" /\ pc' = "ecspi" /\ crumb' = "second"
  /\ UNCHANGED <<image, gates, heap, loads>>

\* The register is read again and again
ClkTestEcspi ==
  /\ image = "clk-test" /\ pc \in {"ecspi", "main"} /\ Touch("ecspi2", "main")
  /\ crumb' = IF pc' = "main" THEN "third" ELSE crumb
  /\ UNCHANGED <<image, gates, heap, loads>>
-----------------------------------------------------------------------------
(* malloc, as rpmsg_lite_remote_init calls it.                              *)

\* Bug: rounded down
RoundedDown(size) == (size \div 8) * 8
\* (size + 7) & ~7
Rounded(size) == (((size + 7) % Word) \div 8) * 8
Fits(h, size) == (h.off + Rounded(size)) % Word <= HeapSize

\* A block is where it starts and what was asked for
malloc(h, size) ==
  [off |-> (h.off + Rounded(size)) % Word, blocks |-> h.blocks \cup {<<h.off, size>>}]

CanSimStart ==
  /\ pc = "reset" /\ image = "can-sim" /\ pc' = "malloc" /\ crumb' = "first"
  /\ UNCHANGED <<image, gates, heap, loads>>

Malloc ==
  /\ pc = "malloc" /\ Cardinality(heap.blocks) < Blocks
  /\ \E size \in Sizes : Fits(heap, size) /\ heap' = malloc(heap, size)
  /\ UNCHANGED <<image, pc, crumb, gates, loads>>

\* A null pointer ends rpmsg_lite_remote_init: rpmsg-echo says so and stays there,
EchoInitFails ==
  /\ image = "echo" /\ pc = "malloc" /\ pc' = "failed"
  /\ Cardinality(heap.blocks) < Blocks /\ \E size \in Sizes : ~Fits(heap, size)
  /\ UNCHANGED <<image, crumb, gates, heap, loads>>

\* and can-sim leaves a crumb
CanSimInitFails ==
  /\ image = "can-sim" /\ pc = "malloc" /\ pc' = "failed" /\ crumb' = "dead"
  /\ Cardinality(heap.blocks) < Blocks /\ \E size \in Sizes : ~Fits(heap, size)
  /\ UNCHANGED <<image, gates, heap, loads>>

\* rpmsg_lite_wait_for_link_up
LinkUp ==
  /\ pc = "malloc" /\ Cardinality(heap.blocks) = Blocks /\ pc' = "link" /\ crumb' = "second"
  /\ UNCHANGED <<image, gates, heap, loads>>

\* The endpoint is there, messages are received
EptUp(next) ==
  /\ pc = "link" /\ pc' = next /\ crumb' = "third"
  /\ UNCHANGED <<image, gates, heap, loads>>

Uarts == HelloClock \/ HelloUart \/ UartTestClock \/ UartTestUart \/ EchoClock \/ EchoUart
ClkTest == ClkTestGate \/ ClkTestCcm \/ ClkTestEcspi
Rpmsg == CanSimStart \/ Malloc \/ EchoInitFails \/ CanSimInitFails \/ LinkUp
ComesUp == Uarts \/ ClkTest \/ Rpmsg
-----------------------------------------------------------------------------
(* Properties.                                                              *)

\* No firmware touches a peripheral whose clock its domain has not asked for.
NoBusStall == pc # "stalled"

\* The blocks of malloc lie within the heap and apart from each other.
BlocksApart ==
  /\ \A b \in heap.blocks : b[1] + b[2] <= HeapSize
  /\ \A b, c \in heap.blocks : b = c \/ b[1] + b[2] <= c[1] \/ c[1] + c[2] <= b[1]
=============================================================================
