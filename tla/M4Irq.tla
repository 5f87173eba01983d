------------------------------- MODULE M4Irq -------------------------------
(***************************************************************************)
(* How Linux gets the attention of a firmware of the M4: the resource table   *)
(* in the image tells it where the vrings are, a kick is a word in the         *)
(* messaging unit, and the vector table in the image leads the interrupt to    *)
(* rpmsg-lite. The port of rpmsg-lite and the kernel are external.            *)
(***************************************************************************)
EXTENDS Integers, Sequences

CONSTANTS
  Firmwares,   (* images that are loaded                                    *)
  MaxBoots,    (* bound: images loaded                                      *)
  MaxSends     (* bound: messages of Linux to one firmware                  *)

ASSUME M4IrqAssumption ==
  /\ Firmwares \subseteq {"echo", "can-sim", "clk-test", "uart-test", "hello"}
  /\ MaxBoots \in Nat /\ MaxSends \in Nat

VARIABLES
  firm,    (* the image                                                     *)
  main,    (* where its main program is                                     *)
  mode,    (* "thread", "isr", or "hung" in Default_Handler                  *)
  nvic,    (* enabled interrupts: bits of its words                         *)
  cr,      (* bits of the control register of the messaging unit, M4's side   *)
  rr,      (* its receive register RR[1], or Empty                          *)
  kicks,   (* words that Linux has not written yet                          *)
  ring,    (* which vrings have news for the M4, by address                 *)
  link,    (* rpmsg-lite has seen Linux                                     *)
  vdev,    (* Linux: messages sent through the virtio device, or NoVdev       *)
  boots

m4Vars == <<firm, main, mode, nvic, cr>>
irqVars == <<m4Vars, rr, kicks, ring, link, vdev, boots>>

Empty == -1
NoVdev == -1
\* Those that are linked with rpmsg-lite
Listeners == {"echo", "can-sim"}

\* Addresses in units of VRING_SIZE
VDEV0_VRING_BASE == 94208
SHMEM_BASE == 94208
Rings == {SHMEM_BASE, SHMEM_BASE + 1}

MU_M4_IRQn == 97
\* Bug: the 16 exceptions are forgotten
IrqAsVector == MU_M4_IRQn
MU_VEC == 16 + MU_M4_IRQn
-----------------------------------------------------------------------------
(* What is in the images.                                                   *)

Vectors(n, vec) ==
  [k \in 0..n - 1 |-> CASE k = 0 -> "_estack" [] k = 1 -> "Reset_Handler"
                        [] k = vec -> "MU_IRQ_Wrapper" [] OTHER -> "Default_Handler"]

\* The four with interrupts have the same start-up code
EchoVectors == Vectors(16 + 128, MU_VEC)
CanSimVectors == Vectors(16 + 128, MU_VEC)
ClkTestVectors == Vectors(16 + 128, MU_VEC)
UartTestVectors == Vectors(16 + 128, MU_VEC)
\* hello has no interrupts
HelloVectors == Vectors(4, 0)

VectorsOf(i) ==
  CASE i = "echo" -> EchoVectors [] i = "can-sim" -> CanSimVectors
    [] i = "clk-test" -> ClkTestVectors [] i = "uart-test" -> UartTestVectors
    [] i = "hello" -> HelloVectors

Vring(k, id) == [da |-> VDEV0_VRING_BASE + k, notifyid |-> id]
\* vring0 carries what the M4 sends, vring1 what Linux sends
EchoResources == <<Vring(0, 0), Vring(1, 1)>>
CanSimResources == <<Vring(0, 0), Vring(1, 1)>>
ClkTestResources == <<Vring(0, 0), Vring(1, 1)>>
UartTestResources == <<Vring(0, 0), Vring(1, 1)>>

\* hello has no table, so Linux makes no device for it
ResourcesOf(i) ==
  CASE i = "echo" -> EchoResources [] i = "can-sim" -> CanSimResources
    [] i = "clk-test" -> ClkTestResources [] i = "uart-test" -> UartTestResources
    [] i = "hello" -> <<>>
-----------------------------------------------------------------------------
(* Registers.                                                               *)

NVIC_EnableIRQ(irq) == nvic' = [nvic EXCEPT ![irq \div 32] = @ \cup {irq % 32}]
NVIC_DisableIRQ(irq) == nvic' = [nvic EXCEPT ![irq \div 32] = @ \ {irq % 32}]

\* Channel ch has bit 27 - ch: in CR its interrupt is enabled, in SR it has a word
Channel == 27 - 1
MU_Init == cr' = {}
MU_EnableInterrupts(bits) == cr' = cr \cup bits
MU_GetStatusFlags == IF rr = Empty THEN {} ELSE {Channel}
\* The word is taken out
MU_ReceiveMsgNonBlocking == rr' = Empty

IrqInit ==
  /\ firm = "none" /\ main = "off" /\ mode = "thread" /\ nvic = [w \in 0..3 |-> {}]
  /\ cr = {} /\ rr = Empty /\ kicks = <<>> /\ ring = [a \in Rings |-> FALSE]
  /\ link = FALSE /\ vdev = NoVdev /\ boots = 0

\* remoteproc: the core is reset, and with it the NVIC; the messaging unit is not
Boot ==
  /\ boots < MaxBoots /\ boots' = boots + 1
  /\ firm' \in Firmwares /\ main' = "reset" /\ mode' = "thread" /\ nvic' = [w \in 0..3 |-> {}]
  /\ kicks' = <<>> /\ ring' = [a \in Rings |-> FALSE] /\ link' = FALSE /\ vdev' = NoVdev
  /\ UNCHANGED <<cr, rr>>
-----------------------------------------------------------------------------
(* The M4. An interrupt is taken before the next step of main.              *)

Raised ==
  /\ mode = "thread" /\ MU_GetStatusFlags \cap cr # {}
  /\ MU_M4_IRQn % 32 \in nvic[MU_M4_IRQn \div 32]

MainStep(from, to) ==
  /\ mode = "thread" /\ ~Raised /\ main = from /\ main' = to
  /\ UNCHANGED <<firm, mode, rr, kicks, ring, link, vdev, boots>>

Reset_Handler == MainStep("reset", VectorsOf(firm)[1]) /\ UNCHANGED <<nvic, cr>>

\* rpmsg_lite_remote_init, as the port of the i.MX8MM does it
PlatformInit == firm \in Listeners /\ MainStep("Reset_Handler", "nvic") /\ MU_Init /\ UNCHANGED nvic
PlatformNvic == MainStep("nvic", "mu") /\ NVIC_EnableIRQ(MU_M4_IRQn) /\ UNCHANGED cr
PlatformMu == MainStep("mu", "up") /\ MU_EnableInterrupts({Channel}) /\ UNCHANGED nvic
\* Its critical sections
Lock == MainStep("up", "locked") /\ NVIC_DisableIRQ(MU_M4_IRQn) /\ UNCHANGED cr
Unlock == MainStep("locked", "up") /\ NVIC_EnableIRQ(MU_M4_IRQn) /\ UNCHANGED cr

\* Interrupt n of the M4 has vector 16 + n
Interrupt ==
  /\ Raised
  /\ mode' = IF VectorsOf(firm)[16 + MU_M4_IRQn] = "MU_IRQ_Wrapper" THEN "isr" ELSE "hung"
  /\ UNCHANGED <<firm, main, nvic, cr, rr, kicks, ring, link, vdev, boots>>

\* The word names a vring, which rpmsg-lite expects after the others in memory. The
\* first one tells it that Linux is there.
MU_M4_IRQHandler ==
  /\ mode = "isr" /\ mode' = "thread" /\ Channel \in MU_GetStatusFlags
  /\ MU_ReceiveMsgNonBlocking
  /\ ring' = [ring EXCEPT ![SHMEM_BASE + rr] = FALSE]
  /\ link' = (link \/ rr = 0)
  /\ UNCHANGED <<firm, main, nvic, cr, kicks, vdev, boots>>
-----------------------------------------------------------------------------
(* Linux.                                                                   *)

News(vring) ==
  /\ ring' = [ring EXCEPT ![vring.da] = TRUE] /\ kicks' = Append(kicks, vring.notifyid)
  /\ UNCHANGED <<m4Vars, rr, link, boots>>

\* The virtio device that the table asks for; its receive buffers are there
LinuxProbe ==
  /\ main # "off" /\ vdev = NoVdev /\ ResourcesOf(firm) # <<>>
  /\ vdev' = 0 /\ News(ResourcesOf(firm)[1])

\* A message to the endpoint that the firmware has announced
LinuxSend ==
  /\ link /\ vdev \in 0..MaxSends - 1 /\ vdev' = vdev + 1 /\ News(ResourcesOf(firm)[2])

\* The mailbox waits until the word before has been read. Until the firmware has seen
\* Linux that is one that the last firmware has left: written over after 100 ms.
LinuxKick ==
  /\ kicks # <<>> /\ (rr = Empty \/ ~link)
  /\ rr' = Head(kicks) /\ kicks' = Tail(kicks)
  /\ UNCHANGED <<m4Vars, ring, link, vdev, boots>>

FirmMain == Reset_Handler \/ PlatformInit \/ PlatformNvic \/ PlatformMu \/ Unlock
FirmNext == FirmMain \/ Lock \/ Interrupt \/ MU_M4_IRQHandler
LinuxNext == LinuxProbe \/ LinuxSend \/ LinuxKick
IrqNext == Boot \/ FirmNext \/ LinuxNext
-----------------------------------------------------------------------------
(* Properties.                                                              *)

\* A firmware with rpmsg-lite hears of whatever Linux puts into a vring, also when the
\* kick comes before its interrupt is enabled, in a critical section, or after a kick
\* that the last firmware has left.
KicksHandled ==
  \A a \in Rings :
    firm \in Listeners /\ ring[a] ~> ~ring[a]
=============================================================================
