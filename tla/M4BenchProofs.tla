--------------------------- MODULE M4BenchProofs ---------------------------
(***************************************************************************)
(* Proofs about the bench firmwares of the M4: gates before peripherals, the  *)
(* allocator, the counter that is read in halves, the echo, its round trips,  *)
(* and the console, for any sizes of heap, counter, vrings and buffers, and   *)
(* any order of loads and messages.                                         *)
(***************************************************************************)
EXTENDS M4Bench, TLAPS

EchoPcs == {"check", "doze", "wfi", "print", "send", "kick", "echoed"}
CanPcs == {"hi", "lo", "again", "batch"}

\* What the firmwares with rpmsg-lite, and what hello and uart-test leave alone.
LEMMA EchoBase ==
  EchoNext => image' = image /\ gates' = gates /\ heap' = heap /\ (pc' = pc \/ pc' \in EchoPcs)
<1>1. \A next : GoOn(next) => pc' = next /\ image' = image /\ gates' = gates /\ heap' = heap
  BY DEF GoOn
<1>2. Wakes => pc' \in {pc, "check"} /\ image' = image /\ gates' = gates /\ heap' = heap
  BY <1>1 DEF Wakes, Awake, baseVars
<1>3. Main => image' = image /\ gates' = gates /\ heap' = heap /\ pc' \in EchoPcs
  BY <1>1 DEF Main, Check, Doze, Log, uart4_puts, Send, MU_SendMsg, Echoed, EchoPcs
<1>4. Firmware => image' = image /\ gates' = gates /\ heap' = heap /\ (pc' = pc \/ pc' \in EchoPcs)
  BY <1>2, <1>3 DEF Firmware, EchoUp, EptUp, NoEndpoint, rx_cb, baseVars, EchoPcs
<1>5. Deliver => image' = image /\ gates' = gates /\ heap' = heap /\ (pc' = pc \/ pc' \in EchoPcs)
  BY <1>2 DEF Deliver, baseVars, EchoPcs
<1>6. Char \/ Tty => UNCHANGED baseVars
  BY DEF Char, CharStart, CharWarm, CharPing, CharRead, CharGivesUp, Tty, TtyStart, TtyRead, TtyPing, TtyEnds
<1> QED
  BY <1>4, <1>5, <1>6 DEF EchoNext, baseVars

LEMMA CanBase ==
  CanNext => image' = image /\ gates' = gates /\ heap' = heap /\ (pc' = pc \/ pc' \in CanPcs)
<1>1. \A next : Go(next) => pc' = next /\ image' = image /\ gates' = gates /\ heap' = heap
  BY DEF Go
<1>2. CanSim => image' = image /\ gates' = gates /\ heap' = heap /\ pc' \in CanPcs
  BY <1>1 DEF CanSim, CanUp, EptUp, ReadHi, ReadLo, ReadAgain, GotTime, SendFrame, CanPcs
<1> QED
  BY <1>2 DEF CanNext, Ticks, Received, HelloCb, baseVars

LEMMA ConBase == ConNext => UNCHANGED <<image, pc, gates, heap>>
  BY DEF ConNext, Hello, UartTest, Wire, Bridge, LookAtPort, pump, Discard, Host, OpenPort, ClosePort,
     HostRead, baseVars
-----------------------------------------------------------------------------
(* Gates.                                                                   *)

Gated ==
  /\ pc # "stalled"
  /\ pc = "uart" => "uart4" \in gates
  /\ image = "clk-test" /\ pc \in {"ccm", "ecspi", "main"} => "ecspi2" \in gates

LEMMA ComesUpGated == ASSUME Gated, ComesUp PROVE Gated'
<1>1. Opened("uart4", UartGate) = gates \cup {"uart4"}
  BY DEF Opened, UartGate
<1>2. Opened("ecspi2", EcspiGate) = gates \cup {"ecspi2"}
  BY DEF Opened, EcspiGate
<1>3. CASE HelloClock \/ UartTestClock \/ EchoClock
  BY <1>1, <1>3 DEF HelloClock, UartTestClock, EchoClock, OpenUart, Gated
<1>4. CASE HelloUart \/ UartTestUart \/ EchoUart
  BY <1>4 DEF HelloUart, UartTestUart, EchoUart, SetUpUart, Touch, Gated
<1>5. CASE ClkTest
  BY <1>2, <1>5 DEF ClkTest, ClkTestGate, ClkTestCcm, ClkTestEcspi, Touch, Gated
<1>6. CASE Rpmsg
  BY <1>6 DEF Rpmsg, CanSimStart, Malloc, EchoInitFails, CanSimInitFails, LinkUp, Gated
<1> QED
  BY <1>3, <1>4, <1>5, <1>6 DEF ComesUp, Uarts

LEMMA NextGated == Gated /\ [BenchNext]_benchVars => Gated'
<1> SUFFICES ASSUME Gated, [BenchNext]_benchVars PROVE Gated'
  OBVIOUS
<1>1. CASE LoadImage
  BY <1>1 DEF LoadImage, Load, Gated
<1>2. CASE EchoNext
  BY <1>2, EchoBase DEF Gated, EchoPcs
<1>3. CASE CanNext
  BY <1>3, CanBase DEF Gated, CanPcs
<1>4. CASE ConNext
  BY <1>4, ConBase DEF Gated
<1>5. CASE UNCHANGED benchVars
  BY <1>5 DEF benchVars, baseVars, Gated
<1> QED
  BY <1>1, <1>2, <1>3, <1>4, <1>5, ComesUpGated DEF BenchNext

\* Each firmware opens the gate of UART4, or of ECSPI2, before it touches it: an access
\* without clock would stop the bus (uart4_init of the firmwares, clk-test).
THEOREM GatesFirst == BenchSpec => []NoBusStall
<1>1. BenchInit => Gated
  BY DEF BenchInit, BaseInit, Gated
<1>2. Gated => NoBusStall
  BY DEF Gated, NoBusStall
<1> QED
  BY <1>1, <1>2, NextGated, PTL DEF BenchSpec
-----------------------------------------------------------------------------
(* The heap.                                                                *)

LEMMA ModIs == ASSUME NEW w \in Nat \ {0}, NEW n \in Nat, n < w PROVE n % w = n
  OBVIOUS

HeapSound ==
  /\ heap.off \in 0..HeapSize
  /\ \A b \in heap.blocks : b[1] \in Nat /\ b[2] \in Nat /\ b[1] + b[2] <= heap.off
  /\ \A b, c \in heap.blocks : b = c \/ b[1] + b[2] <= c[1] \/ c[1] + c[2] <= b[1]

\* A size is rounded up, and neither the size nor the sum wraps around: a block that
\* fits lies between the old end of the heap and the new one.
LEMMA NewBlock ==
  ASSUME HeapSound, NEW size \in Sizes, Fits(heap, size)
  PROVE  LET off == malloc(heap, size).off
         IN off \in 0..HeapSize /\ heap.off + size <= off /\ size \in Nat
<1> DEFINE r == ((size + 7) \div 8) * 8
<1>1. size \in Nat /\ HeapSize \in Nat /\ Word \in Nat \ {0} /\ size + 7 + HeapSize < Word
  BY M4BaseAssumption
<1>2. (size + 7) % Word = size + 7
  BY <1>1, ModIs
<1>3. r \in Nat /\ size <= r /\ r <= size + 7
  BY <1>1
<1>4. Rounded(size) = r
  BY <1>2 DEF Rounded
<1> HIDE DEF r
<1>5. heap.off + r \in Nat /\ heap.off + r < Word
  BY <1>1, <1>3 DEF HeapSound
<1>6. (heap.off + r) % Word = heap.off + r
  BY <1>1, <1>5, ModIs
<1>7. malloc(heap, size).off = heap.off + r
  BY <1>4, <1>6 DEF malloc
<1>8. heap.off + r <= HeapSize
  BY <1>4, <1>6 DEF Fits
<1> QED
  BY <1>1, <1>3, <1>5, <1>7, <1>8 DEF HeapSound

LEMMA MallocSound == ASSUME HeapSound, Malloc PROVE HeapSound'
<1>1. PICK size \in Sizes : Fits(heap, size) /\ heap' = malloc(heap, size)
  BY DEF Malloc
<1>2. heap'.off \in 0..HeapSize /\ heap.off + size <= heap'.off /\ size \in Nat /\ heap.off \in Nat
  BY <1>1, NewBlock DEF HeapSound
<1>3. heap'.blocks = heap.blocks \cup {<<heap.off, size>>}
  BY <1>1 DEF malloc
<1>4. \A b \in heap'.blocks : b[1] \in Nat /\ b[2] \in Nat /\ b[1] + b[2] <= heap'.off
  BY <1>2, <1>3 DEF HeapSound
<1>5. \A b, c \in heap'.blocks : b = c \/ b[1] + b[2] <= c[1] \/ c[1] + c[2] <= b[1]
  BY <1>2, <1>3 DEF HeapSound
<1> QED
  BY <1>2, <1>4, <1>5 DEF HeapSound

LEMMA NextSound == HeapSound /\ [BenchNext]_benchVars => HeapSound'
<1> SUFFICES ASSUME HeapSound, [BenchNext]_benchVars PROVE HeapSound'
  OBVIOUS
<1>1. CASE LoadImage
  BY <1>1, M4BaseAssumption DEF LoadImage, Load, NoHeap, HeapSound
<1>2. CASE Malloc
  BY <1>2, MallocSound
<1>3. CASE heap' = heap
  BY <1>3 DEF HeapSound
<1>4. ComesUp => Malloc \/ heap' = heap
  BY DEF ComesUp, Uarts, HelloClock, HelloUart, UartTestClock, UartTestUart, EchoClock, EchoUart,
     OpenUart, SetUpUart, ClkTest, ClkTestGate, ClkTestCcm, ClkTestEcspi, Rpmsg, CanSimStart,
     EchoInitFails, CanSimInitFails, LinkUp
<1>5. UNCHANGED benchVars => heap' = heap
  BY DEF benchVars, baseVars
<1> QED
  BY <1>1, <1>2, <1>3, <1>4, <1>5, EchoBase, CanBase, ConBase DEF BenchNext

\* The blocks that malloc of libc_min.c hands out never leave the heap nor overlap,
\* whatever sizes rpmsg-lite asks for.
THEOREM HeapBlocks == BenchSpec => []BlocksApart
<1>1. BenchInit => HeapSound
  BY M4BaseAssumption DEF BenchInit, BaseInit, NoHeap, HeapSound
<1>2. HeapSound => BlocksApart
  BY M4BaseAssumption DEF HeapSound, BlocksApart
<1> QED
  BY <1>1, <1>2, NextSound, PTL DEF BenchSpec
-----------------------------------------------------------------------------
(* The counter.                                                             *)

\* The halves are those of moments since the call began, in their order
HalvesReal ==
  /\ count \in Nat /\ DOMAIN read = {"hi", "lo", "next", "from"}
  /\ image = "can-sim" /\ pc \in {"lo", "again"} =>
       read.from \in Nat /\ read.from <= count /\ read.hi = read.from \div Half
  /\ image = "can-sim" /\ pc = "again" =>
       \E c \in Nat : read.from <= c /\ c <= count /\ read.lo = c % Half

LEMMA Halves ==
  ASSUME NEW n \in Nat
  PROVE  /\ n \div Half \in Nat /\ n % Half \in Nat
         /\ n = ((n \div Half) * Half) + (n % Half)
  BY M4CanSimAssumption

\* A number between two of the same high half has that half too.
LEMMA SameHigh ==
  ASSUME NEW m \in Nat, NEW c \in Nat, NEW n \in Nat, m <= c, c <= n, m \div Half = n \div Half
  PROVE  ((n \div Half) * Half) + (c % Half) = c
<1>1. m \div Half <= c \div Half /\ c \div Half <= n \div Half
  BY M4CanSimAssumption
<1>2. c \div Half = n \div Half
  BY <1>1, Halves
<1> QED
  BY <1>2, Halves

LEMMA CanHalves == ASSUME HalvesReal, CanNext PROVE HalvesReal'
<1> USE DEF HalvesReal
<1>1. CASE ReadHi
  <2>1. /\ read'.hi = count \div Half /\ read'.from = count /\ DOMAIN read' = DOMAIN read
        /\ pc' = "lo" /\ count' = count
    BY <1>1 DEF ReadHi, Go, CounterHi
  <2> QED
    BY <2>1
<1>2. CASE ReadLo
  <2>1. /\ read'.hi = read.hi /\ read'.lo = count % Half /\ read'.from = read.from
        /\ DOMAIN read' = DOMAIN read /\ pc' = "again" /\ count' = count
        /\ pc = "lo" /\ image = "can-sim"
    BY <1>2 DEF ReadLo, Go, CounterLo
  <2>2. pc = "lo" /\ image = "can-sim"
    BY <1>2 DEF ReadLo
  <2>3. read.from \in Nat /\ read.from <= count /\ read.hi = read.from \div Half
    BY <2>2
  <2> QED
    BY <2>1, <2>2, <2>3
<1>3. CASE Ticks
  <2>1. count' = count + 1 /\ UNCHANGED <<pc, image, read>>
    BY <1>3 DEF Ticks, baseVars
  <2> QED
    BY <2>1
<1>4. CASE CanUp \/ ReadAgain \/ GotTime \/ SendFrame
  <2>1. pc' \notin {"lo", "again"} /\ count' = count
    BY <1>4 DEF CanUp, EptUp, ReadAgain, GotTime, SendFrame, Go, canVars
  <2>2. DOMAIN read' = DOMAIN read
    BY <1>4 DEF CanUp, ReadAgain, GotTime, SendFrame, canVars
  <2> QED
    BY <2>1, <2>2
<1>5. CASE Received \/ \E p \in Peers : HelloCb(p)
  BY <1>5 DEF Received, HelloCb, baseVars
<1> QED
  BY <1>1, <1>2, <1>3, <1>4, <1>5 DEF CanNext, CanSim

LEMMA NextHalves == HalvesReal /\ [BenchNext]_benchVars => HalvesReal'
<1> SUFFICES ASSUME HalvesReal, [BenchNext]_benchVars PROVE HalvesReal'
  OBVIOUS
<1>1. CASE LoadImage
  BY <1>1 DEF LoadImage, Load, CanReset, ReadInit, HalvesReal
<1>2. CASE ComesUp /\ UNCHANGED canVars
  <2>1. pc' \notin {"lo", "again"} \/ (pc' = pc /\ image' = image)
    BY <1>2 DEF ComesUp, Uarts, HelloClock, HelloUart, UartTestClock, UartTestUart, EchoClock, EchoUart,
       OpenUart, SetUpUart, Touch, ClkTest, ClkTestGate, ClkTestCcm, ClkTestEcspi, Rpmsg, CanSimStart,
       Malloc, EchoInitFails, CanSimInitFails, LinkUp
  <2> QED
    BY <1>2, <2>1 DEF canVars, HalvesReal
<1>3. CASE EchoNext /\ UNCHANGED canVars
  BY <1>3, EchoBase DEF canVars, EchoPcs, HalvesReal
<1>4. CASE CanNext
  BY <1>4, CanHalves
<1>5. CASE ConNext /\ UNCHANGED canVars
  BY <1>5, ConBase DEF canVars, HalvesReal
<1>6. CASE UNCHANGED benchVars
  BY <1>6 DEF benchVars, baseVars, canVars, HalvesReal
<1> QED
  BY <1>1, <1>2, <1>3, <1>4, <1>5, <1>6 DEF BenchNext

\* When the high half has not changed it has not changed in between either, so the low
\* half belongs to it.
LEMMA HalvesNow == HalvesReal => NowIsReal
<1> SUFFICES ASSUME HalvesReal, image = "can-sim", pc = "again", read.hi = count \div Half
             PROVE  Now \in read.from..count
  BY DEF NowIsReal, Torn, CounterHi
<1>1. count \in Nat /\ read.from \in Nat /\ read.from <= count
  BY DEF HalvesReal
<1>2. read.hi = read.from \div Half
  BY DEF HalvesReal
<1>3. PICK c \in Nat : read.from <= c /\ c <= count /\ read.lo = c % Half
  BY DEF HalvesReal
<1>5. ((count \div Half) * Half) + (c % Half) = c
  BY <1>1, <1>2, <1>3, SameHigh
<1>6. Now = c
  BY <1>3, <1>5 DEF Now
<1> QED
  BY <1>1, <1>3, <1>6

\* sctr_now returns a time that the counter has had since the call, across any wrap of
\* the low half (can-sim).
THEOREM NowReal == BenchSpec => []NowIsReal
<1>1. BenchInit => HalvesReal
  BY DEF BenchInit, BaseInit, CanInit, ReadInit, HalvesReal
<1> QED
  BY <1>1, HalvesNow, NextHalves, PTL DEF BenchSpec
-----------------------------------------------------------------------------
(* The echo.                                                                *)

Pings == [from : Tools \cup {"none"}, id : Nat]

EchoTypes ==
  /\ toM \in Seq(Pings) /\ ready \in BOOLEAN /\ buf \in Pings
  /\ DOMAIN ehist = {"slow", "alone", "pings", "last", "garbled", "gaveUp", "stalled", "wrong"}
  /\ ehist.pings \in Nat /\ ehist.last \in Nat

\* Pings come in the order of their numbers, after the one in the buffer and the one
\* echoed last
Rising ==
  /\ \A k \in 1..Len(toM) :
       toM[k].id > buf.id /\ toM[k].id > ehist.last /\ toM[k].id <= ehist.pings
  /\ \A j, k \in 1..Len(toM) : j < k => toM[j].id < toM[k].id
  /\ buf.id <= ehist.pings /\ ehist.last <= ehist.pings

\* The buffer holds a new ping from its interrupt to its send
BufferIsNew ==
  /\ pc \notin EchoPcs => ~ready
  /\ pc \in {"check", "doze", "wfi"} /\ ready => buf.id > ehist.last
  /\ pc \in {"print", "send"} => ready /\ buf.id > ehist.last
  /\ pc = "send" => to = buf.from
  /\ pc \in {"kick", "echoed"} => ready /\ buf.id = ehist.last

EInv == EchoTypes /\ Rising /\ BufferIsNew /\ EchoIsWhatCame

LEMMA HistoryIs ==
  ASSUME NEW slow
  PROVE  LET h == NoHistory(slow)
         IN /\ DOMAIN h = {"slow", "alone", "pings", "last", "garbled", "gaveUp", "stalled", "wrong"}
            /\ h.pings = 0 /\ h.last = 0 /\ ~h.garbled
  BY DEF NoHistory

LEMMA WakesIs == Wakes => pc' = pc \/ (pc = "wfi" /\ pc' = "check")
<1>1. \A next : GoOn(next) => pc' = next
  BY DEF GoOn
<1>2. UNCHANGED baseVars => pc' = pc
  BY DEF baseVars
<1> QED
  BY <1>1, <1>2 DEF Wakes, Awake

\* What a vring holds, before and after its first message is taken.
LEMMA TailIs ==
  ASSUME NEW s \in Seq(Pings), s # <<>>
  PROVE  /\ Tail(s) \in Seq(Pings) /\ Len(s) \in Nat /\ Len(Tail(s)) = Len(s) - 1
         /\ \A k \in 1..Len(Tail(s)) : Tail(s)[k] = s[k + 1] /\ k + 1 \in 1..Len(s)
  OBVIOUS

\* and with one more.
LEMMA AppendIs ==
  ASSUME NEW s \in Seq(Pings), NEW m \in Pings
  PROVE  /\ Append(s, m) \in Seq(Pings) /\ Len(s) \in Nat /\ Len(Append(s, m)) = Len(s) + 1
         /\ Append(s, m)[Len(s) + 1] = m /\ \A k \in 1..Len(s) : Append(s, m)[k] = s[k]
  OBVIOUS

LEMMA IdsAreNat ==
  ASSUME NEW s \in Seq(Pings) PROVE \A k \in 1..Len(s) : s[k] \in Pings /\ s[k].id \in Nat
<1>1. \A k \in 1..Len(s) : s[k] \in Pings
  OBVIOUS
<1> QED
  BY <1>1 DEF Pings

\* A firmware that has just been loaded has no message.
LEMMA FreshInv ==
  ASSUME NEW slow, toM = <<>>, ready = FALSE, buf = NoPing, pc \notin EchoPcs, ehist = NoHistory(slow)
  PROVE  EInv
<1>1. buf.id = 0 /\ buf \in Pings
  BY DEF NoPing, Pings
<1>2. toM \in Seq(Pings) /\ 1..Len(toM) = {}
  OBVIOUS
<1>3. EchoTypes
  <2>1. ready \in BOOLEAN
    OBVIOUS
  <2>2. /\ DOMAIN ehist = {"slow", "alone", "pings", "last", "garbled", "gaveUp", "stalled", "wrong"}
        /\ ehist.pings \in Nat /\ ehist.last \in Nat
    BY HistoryIs
  <2> QED
    BY <1>1, <1>2, <2>1, <2>2 DEF EchoTypes
<1>4. Rising
  BY <1>1, <1>2, HistoryIs DEF Rising
<1>5. BufferIsNew /\ EchoIsWhatCame
  BY HistoryIs DEF BufferIsNew, EchoIsWhatCame, EchoPcs
<1> QED
  BY <1>3, <1>4, <1>5 DEF EInv

LEMMA FreshInvNext ==
  ASSUME NEW slow, toM' = <<>>, ready' = FALSE, buf' = NoPing, pc' \notin EchoPcs,
         ehist' = NoHistory(slow)
  PROVE  EInv'
<1>1. buf'.id = 0 /\ buf' \in Pings
  BY DEF NoPing, Pings
<1>2. toM' \in Seq(Pings) /\ 1..Len(toM') = {}
  OBVIOUS
<1>3. EchoTypes'
  <2>1. ready' \in BOOLEAN
    OBVIOUS
  <2>2. /\ DOMAIN ehist' = {"slow", "alone", "pings", "last", "garbled", "gaveUp", "stalled", "wrong"}
        /\ ehist'.pings \in Nat /\ ehist'.last \in Nat
    BY HistoryIs
  <2> QED
    BY <1>1, <1>2, <2>1, <2>2 DEF EchoTypes
<1>4. Rising'
  BY <1>1, <1>2, HistoryIs DEF Rising
<1>5. BufferIsNew' /\ EchoIsWhatCame'
  BY HistoryIs DEF BufferIsNew, EchoIsWhatCame, EchoPcs
<1> QED
  BY <1>3, <1>4, <1>5 DEF EInv

\* What moves neither messages nor the firmware.
LEMMA EchoStill ==
  ASSUME EInv, UNCHANGED <<toM, ready, buf, to, ehist>>, pc' = pc \/ {pc, pc'} \cap EchoPcs = {}
  PROVE  EInv'
<1>1. EchoTypes' /\ Rising' /\ EchoIsWhatCame'
  BY DEF EInv, EchoTypes, Rising, EchoIsWhatCame
<1>2. BufferIsNew'
  BY DEF EInv, BufferIsNew, EchoPcs
<1> QED
  BY <1>1, <1>2 DEF EInv

\* The interrupt handler: the first message of the vring goes to the buffer, or nowhere.
LEMMA RxCbInv == ASSUME EInv, rx_cb PROVE EInv'
<1>1. toM \in Seq(Pings) /\ toM # <<>> /\ toM' = Tail(toM) /\ ehist' = ehist /\ to' = to
  BY DEF rx_cb, EInv, EchoTypes
<1>2. /\ toM' \in Seq(Pings) /\ Len(toM') = Len(toM) - 1 /\ Len(toM) \in Nat
      /\ \A k \in 1..Len(toM') : toM'[k] = toM[k + 1] /\ k + 1 \in 1..Len(toM)
  BY <1>1, TailIs
<1>3. 1 \in 1..Len(toM) /\ Head(toM) = toM[1] /\ toM[1] \in Pings
  BY <1>1
<1>4. IF ready THEN UNCHANGED <<ready, buf>> ELSE ready' = TRUE /\ buf' = toM[1]
  BY <1>3 DEF rx_cb, Taken
<1>5. pc \in EchoPcs /\ (pc' = pc \/ (pc = "wfi" /\ pc' = "check"))
  BY WakesIs DEF rx_cb, Listening, EchoPcs
<1>6. EchoTypes'
  BY <1>1, <1>2, <1>3, <1>4 DEF EInv, EchoTypes
<1>7. Rising'
  <2>1. \A k \in 1..Len(toM) : toM[k] \in Pings /\ toM[k].id \in Nat
    BY <1>1, IdsAreNat
  <2>2. \A k \in 1..Len(toM') : toM'[k].id > toM[1].id
    BY <1>2, <1>3, <2>1 DEF EInv, Rising
  <2>3. \A k \in 1..Len(toM') :
          toM'[k].id > buf'.id /\ toM'[k].id > ehist'.last /\ toM'[k].id <= ehist'.pings
    BY <1>1, <1>2, <1>4, <2>2 DEF EInv, Rising
  <2>4. ASSUME NEW j \in 1..Len(toM'), NEW k \in 1..Len(toM'), j < k
        PROVE  toM'[j].id < toM'[k].id
    <3>1. j + 1 \in 1..Len(toM) /\ k + 1 \in 1..Len(toM) /\ j + 1 < k + 1
      BY <1>2, <2>4
    <3> QED
      BY <1>2, <3>1 DEF EInv, Rising
  <2>5. buf'.id <= ehist'.pings /\ ehist'.last <= ehist'.pings
    BY <1>1, <1>3, <1>4 DEF EInv, Rising
  <2> QED
    BY <2>3, <2>4, <2>5 DEF Rising
<1>8. BufferIsNew'
  <2>1. toM[1].id > ehist.last
    BY <1>3 DEF EInv, Rising
  <2> QED
    BY <1>1, <1>4, <1>5, <2>1 DEF EInv, BufferIsNew, EchoPcs
<1>9. EchoIsWhatCame'
  BY <1>1 DEF EInv, EchoIsWhatCame
<1> QED
  BY <1>6, <1>7, <1>8, <1>9 DEF EInv

\* A tool writes the next ping.
LEMMA WriteInv ==
  ASSUME EInv, NEW t \in Tools, NEW f, Write(t, f), UNCHANGED <<pc, ready, buf, to>>,
         DOMAIN ehist' = DOMAIN ehist, ehist'.pings = ehist.pings + 1, ehist'.last = ehist.last,
         ehist'.garbled = ehist.garbled
  PROVE  EInv'
<1> DEFINE ping == [from |-> t, id |-> ehist.pings + 1]
<1>0. ehist.pings \in Nat /\ ehist.last \in Nat
  BY DEF EInv, EchoTypes
<1>1. ping \in Pings /\ ping.id = ehist.pings + 1
  BY <1>0 DEF Pings
<1>2. toM \in Seq(Pings) /\ toM' = Append(toM, ping)
  BY DEF Write, EInv, EchoTypes
<1> HIDE DEF ping
<1>3. /\ toM' \in Seq(Pings) /\ Len(toM') = Len(toM) + 1 /\ Len(toM) \in Nat
      /\ toM'[Len(toM) + 1] = ping /\ \A k \in 1..Len(toM) : toM'[k] = toM[k]
  BY <1>1, <1>2, AppendIs
<1>4. buf.id \in Nat /\ \A k \in 1..Len(toM) : toM[k].id \in Nat
  BY <1>2, IdsAreNat DEF EInv, EchoTypes, Pings
<1>5. EchoTypes'
  BY <1>0, <1>3 DEF EInv, EchoTypes
<1>6. Rising'
  <2>1. \A k \in 1..Len(toM') :
          toM'[k].id > buf'.id /\ toM'[k].id > ehist'.last /\ toM'[k].id <= ehist'.pings
    BY <1>0, <1>1, <1>3, <1>4 DEF EInv, Rising
  <2>2. \A j, k \in 1..Len(toM') : j < k => toM'[j].id < toM'[k].id
    BY <1>0, <1>1, <1>3, <1>4 DEF EInv, Rising
  <2>3. buf'.id <= ehist'.pings /\ ehist'.last <= ehist'.pings
    BY <1>0, <1>4 DEF EInv, Rising
  <2> QED
    BY <2>1, <2>2, <2>3 DEF Rising
<1>7. BufferIsNew' /\ EchoIsWhatCame'
  BY DEF EInv, BufferIsNew, EchoIsWhatCame
<1> QED
  BY <1>5, <1>6, <1>7 DEF EInv

\* The main loop.
LEMMA MainInv == ASSUME EInv, Main PROVE EInv'
<1>1. \A next : GoOn(next) => pc' = next
  BY DEF GoOn
<1>2. CASE Check \/ Doze
  <2>1. UNCHANGED <<toM, ready, buf, to, ehist>> /\ (pc = "check" \/ pc = "doze")
        /\ pc' \in {"print", "doze", "wfi"} /\ (pc' = "print" => ready)
    BY <1>1, <1>2 DEF Check, Doze, echoVars, firmVars
  <2> QED
    BY <2>1 DEF EInv, EchoTypes, Rising, BufferIsNew, EchoIsWhatCame, EchoPcs
<1>3. CASE Log
  <2>1. UNCHANGED <<toM, ready, buf, ehist>> /\ pc = "print" /\ pc' = "send" /\ to' = buf.from
    BY <1>1, <1>3 DEF Log, uart4_puts
  <2> QED
    BY <2>1 DEF EInv, EchoTypes, Rising, BufferIsNew, EchoIsWhatCame, EchoPcs
<1>4. CASE Send
  <2>1. UNCHANGED <<toM, ready, buf, to>> /\ pc = "send" /\ pc' = "kick"
    BY <1>1, <1>4 DEF Send, firmVars
  <2>2. buf.id > ehist.last /\ to = buf.from /\ ready /\ ~ehist.garbled /\ buf.id \in Nat
        /\ ehist.last \in Nat
    BY <2>1 DEF EInv, EchoTypes, Pings, BufferIsNew, EchoIsWhatCame
  <2>3. ~(buf.id <= ehist.last \/ to # buf.from)
    BY <2>2
  <2>4. /\ DOMAIN ehist' = DOMAIN ehist /\ ehist'.pings = ehist.pings /\ ehist'.last = buf.id
        /\ ~ehist'.garbled
    BY <1>4, <2>2, <2>3 DEF Send, EInv, EchoTypes
  <2> QED
    BY <2>1, <2>2, <2>4 DEF EInv, EchoTypes, Rising, BufferIsNew, EchoIsWhatCame, EchoPcs
<1>5. CASE MU_SendMsg
  <2>1. UNCHANGED <<toM, ready, buf, to, ehist>> /\ pc = "kick" /\ pc' = "echoed"
    BY <1>1, <1>5 DEF MU_SendMsg, firmVars
  <2> QED
    BY <2>1 DEF EInv, EchoTypes, Rising, BufferIsNew, EchoIsWhatCame, EchoPcs
<1>6. CASE Echoed
  <2>1. UNCHANGED <<toM, buf, to, ehist>> /\ ready' = FALSE /\ pc = "echoed" /\ pc' = "check"
    BY <1>1, <1>6 DEF Echoed, uart4_puts
  <2> QED
    BY <2>1 DEF EInv, EchoTypes, Rising, BufferIsNew, EchoIsWhatCame, EchoPcs
<1> QED
  BY <1>2, <1>3, <1>4, <1>5, <1>6 DEF Main

LEMMA EchoInv == ASSUME EInv, EchoNext PROVE EInv'
<1>1. CASE rx_cb
  BY <1>1, RxCbInv
<1>2. CASE Main
  BY <1>2, MainInv
<1>3. CASE EchoUp
  <2>1. pc = "link" /\ pc' = "check" /\ UNCHANGED <<toM, ready, buf, to, ehist>>
    BY <1>3 DEF EchoUp, EptUp, echoVars, firmVars
  <2> QED
    BY <2>1 DEF EInv, EchoTypes, Rising, BufferIsNew, EchoIsWhatCame, EchoPcs
<1>4. CASE NoEndpoint
  <2>1. toM \in Seq(Pings) /\ toM # <<>> /\ toM' = Tail(toM) /\ UNCHANGED <<pc, ready, buf, to, ehist>>
    BY <1>4 DEF NoEndpoint, baseVars, firmVars, EInv, EchoTypes
  <2>2. /\ toM' \in Seq(Pings) /\ Len(toM') = Len(toM) - 1 /\ Len(toM) \in Nat
        /\ \A k \in 1..Len(toM') : toM'[k] = toM[k + 1] /\ k + 1 \in 1..Len(toM)
    BY <2>1, TailIs
  <2>3. Rising'
    BY <2>1, <2>2 DEF EInv, Rising
  <2> QED
    BY <2>1, <2>2, <2>3 DEF EInv, EchoTypes, BufferIsNew, EchoIsWhatCame
<1>5. CASE Deliver
  <2>1. UNCHANGED <<toM, ready, buf, to, ehist>> /\ (pc' = pc \/ (pc = "wfi" /\ pc' = "check"))
    BY <1>5, WakesIs DEF Deliver, baseVars, firmVars
  <2> QED
    BY <2>1 DEF EInv, EchoTypes, Rising, BufferIsNew, EchoIsWhatCame, EchoPcs
<1>6. CASE CharStart \/ CharPing \/ TtyStart \/ TtyPing
  <2>1. UNCHANGED <<pc, ready, buf, to>> /\ \E t \in Tools : \E f : Write(t, f)
    BY <1>6 DEF CharStart, CharPing, TtyStart, TtyPing, baseVars, firmVars, Tools
  <2>2. /\ DOMAIN ehist' = DOMAIN ehist /\ ehist'.pings = ehist.pings + 1
        /\ ehist'.last = ehist.last /\ ehist'.garbled = ehist.garbled
    BY <1>6 DEF CharStart, CharPing, TtyStart, TtyPing, Pinged, EInv, EchoTypes
  <2> QED
    BY <2>1, <2>2, WriteInv
<1>7. CASE CharWarm \/ CharRead \/ CharGivesUp \/ TtyRead \/ TtyEnds
  <2>1. UNCHANGED <<pc, toM, ready, buf, to>>
    BY <1>7 DEF CharWarm, CharRead, CharGivesUp, TtyRead, TtyEnds, baseVars, firmVars
  <2>2. /\ DOMAIN ehist' = DOMAIN ehist /\ ehist'.pings = ehist.pings
        /\ ehist'.last = ehist.last /\ ehist'.garbled = ehist.garbled
    BY <1>7 DEF CharWarm, CharRead, CharGivesUp, TtyRead, TtyEnds, EInv, EchoTypes
  <2> QED
    BY <2>1, <2>2 DEF EInv, EchoTypes, Rising, BufferIsNew, EchoIsWhatCame
<1> QED
  BY <1>1, <1>2, <1>3, <1>4, <1>5, <1>6, <1>7 DEF EchoNext, Firmware, Char, Tty

\* What the other firmwares do, and the start of each one, is not at the steps of
\* rpmsg-echo.
LEMMA Elsewhere ==
  ASSUME [BenchNext]_benchVars, ~LoadImage, ~EchoNext
  PROVE  {pc, pc'} \cap EchoPcs = {} \/ pc' = pc
<1>1. CASE ComesUp
  BY <1>1 DEF ComesUp, Uarts, HelloClock, HelloUart, UartTestClock, UartTestUart, EchoClock, EchoUart,
     OpenUart, SetUpUart, Touch, ClkTest, ClkTestGate, ClkTestCcm, ClkTestEcspi, Rpmsg, CanSimStart,
     Malloc, EchoInitFails, CanSimInitFails, LinkUp, EchoPcs
<1>2. CASE CanNext
  BY <1>2 DEF CanNext, CanSim, CanUp, EptUp, ReadHi, ReadLo, ReadAgain, GotTime, SendFrame, Go,
     Ticks, Received, HelloCb, baseVars, EchoPcs
<1>3. CASE ConNext
  BY <1>3, ConBase
<1>4. CASE UNCHANGED benchVars
  BY <1>4 DEF benchVars, baseVars
<1> QED
  BY <1>1, <1>2, <1>3, <1>4 DEF BenchNext

LEMMA NextEInv == EInv /\ [BenchNext]_benchVars => EInv'
<1> SUFFICES ASSUME EInv, [BenchNext]_benchVars PROVE EInv'
  OBVIOUS
<1>1. CASE LoadImage
  <2>1. toM' = <<>> /\ ready' = FALSE /\ buf' = NoPing /\ pc' = "reset"
        /\ ehist' = NoHistory(ehist.slow)
    BY <1>1 DEF LoadImage, Load, EchoReset
  <2> QED
    BY <2>1, FreshInvNext DEF EchoPcs
<1>2. CASE EchoNext
  BY <1>2, EchoInv
<1>3. CASE UNCHANGED echoVars /\ ~LoadImage /\ ~EchoNext
  BY <1>3, Elsewhere, EchoStill DEF echoVars, firmVars
<1> QED
  BY <1>1, <1>2, <1>3 DEF BenchNext, benchVars

LEMMA InitEInv == ASSUME BenchInit PROVE EInv
<1>1. /\ toM = <<>> /\ ready = FALSE /\ buf = NoPing /\ pc = "off"
      /\ \E slow \in BOOLEAN : ehist = NoHistory(slow)
  BY DEF BenchInit, BaseInit, EchoInit
<1> QED
  BY <1>1, FreshInv DEF EchoPcs

\* rpmsg-echo echoes each ping at most once, in their order, and to whoever sent it,
\* whatever its interrupt handler does between the steps of main.
THEOREM EchoesPings == BenchSpec => []EchoIsWhatCame
<1>1. EInv => EchoIsWhatCame
  BY DEF EInv
<1> QED
  BY <1>1, InitEInv, NextEInv, PTL DEF BenchSpec
-----------------------------------------------------------------------------
(* What rpmsg-char-rtt measures. Its echoes are in line after those it has    *)
(* been given; those, and what is still to be echoed of it, are its last ping, *)
(* as long as no run has given up.                                          *)

CharTypes ==
  /\ toL \in [Tools -> Seq(Pings)] /\ rx \in [Tools -> Seq(Pings)]
  /\ DOMAIN tool = Tools /\ DOMAIN tool["char"] = {"at", "ping", "n"}
  /\ At("char") \in {"off", "warm", "next", "poll"}

Echoes == rx["char"] \o toL["char"]

EchoesRise ==
  /\ \A k \in 1..Len(Echoes) : Echoes[k].id <= ehist.last
  /\ \A j, k \in 1..Len(Echoes) : j < k => Echoes[j].id < Echoes[k].id

Awaited(m) == At("char") \in {"warm", "poll"} /\ m.id = tool["char"].ping

OnlyAwaited ==
  ~ehist.gaveUp =>
    /\ \A k \in 1..Len(toM) : toM[k].from = "char" => Awaited(toM[k])
    /\ ready /\ pc \notin {"kick", "echoed"} /\ buf.from = "char" => Awaited(buf)
    /\ \A k \in 1..Len(Echoes) : Awaited(Echoes[k])

RttInv == CharTypes /\ EchoesRise /\ OnlyAwaited /\ RttIsOwnEcho

LEMMA ConcatIs ==
  ASSUME NEW s \in Seq(Pings), NEW t \in Seq(Pings)
  PROVE  /\ s \o t \in Seq(Pings) /\ Len(s) \in Nat /\ Len(t) \in Nat
         /\ Len(s \o t) = Len(s) + Len(t)
         /\ \A k \in 1..Len(s) : (s \o t)[k] = s[k]
         /\ \A k \in 1..Len(t) : (s \o t)[Len(s) + k] = t[k]
  OBVIOUS

\* What is in line when the first is read,
LEMMA TailConcat ==
  ASSUME NEW s \in Seq(Pings), NEW t \in Seq(Pings), s # <<>>
  PROVE  /\ Len(Tail(s) \o t) = Len(s \o t) - 1
         /\ \A k \in 1..Len(Tail(s) \o t) : (Tail(s) \o t)[k] = (s \o t)[k + 1]
  OBVIOUS

\* when another is sent,
LEMMA AppendConcat ==
  ASSUME NEW s \in Seq(Pings), NEW t \in Seq(Pings), NEW m \in Pings
  PROVE  s \o Append(t, m) = Append(s \o t, m)
<1>1. /\ s \o Append(t, m) \in Seq(Pings) /\ Len(s \o Append(t, m)) = Len(s) + Len(t) + 1
      /\ Append(s \o t, m) \in Seq(Pings) /\ Len(Append(s \o t, m)) = Len(s) + Len(t) + 1
  OBVIOUS
<1>2. \A k \in 1..Len(s) + Len(t) + 1 : (s \o Append(t, m))[k] = Append(s \o t, m)[k]
  OBVIOUS
<1> QED
  BY <1>1, <1>2

\* and when what was received is thrown away.
LEMMA EmptyConcat ==
  ASSUME NEW s \in Seq(Pings) PROVE s \o <<>> = s /\ <<>> \o s = s
  OBVIOUS

LEMMA NewTypes ==
  ASSUME CharTypes
  PROVE  /\ \A t \in Tools : \A f : Set(t, f) =>
              /\ DOMAIN tool' = Tools /\ tool'[t] = f
              /\ \A u \in Tools \ {t} : tool'[u] = tool[u]
         /\ \A t \in Tools : \A q \in Seq(Pings) : rx' = [rx EXCEPT ![t] = q] =>
              /\ rx' \in [Tools -> Seq(Pings)] /\ rx'[t] = q
              /\ \A u \in Tools \ {t} : rx'[u] = rx[u]
<1>1. ASSUME NEW t \in Tools, NEW f, Set(t, f)
      PROVE  /\ DOMAIN tool' = Tools /\ tool'[t] = f
             /\ \A u \in Tools \ {t} : tool'[u] = tool[u]
  BY <1>1 DEF Set, CharTypes
<1>2. ASSUME NEW t \in Tools, NEW q \in Seq(Pings), rx' = [rx EXCEPT ![t] = q]
      PROVE  /\ rx' \in [Tools -> Seq(Pings)] /\ rx'[t] = q
             /\ \A u \in Tools \ {t} : rx'[u] = rx[u]
  BY <1>2 DEF CharTypes
<1> QED
  BY <1>1, <1>2

LEMMA RttStill ==
  ASSUME EInv, RttInv, UNCHANGED <<toM, buf, rx, toL, tool, ehist>>,
         ready' /\ pc' \notin {"kick", "echoed"} => ready /\ pc \notin {"kick", "echoed"}
  PROVE  RttInv'
<1>1. CharTypes' /\ EchoesRise' /\ RttIsOwnEcho'
  BY DEF RttInv, CharTypes, At, EchoesRise, Echoes, RttIsOwnEcho
<1>2. OnlyAwaited'
  BY DEF RttInv, OnlyAwaited, Awaited, At, Echoes
<1> QED
  BY <1>1, <1>2 DEF RttInv

\* The first message of the vring goes to the buffer, or nowhere.
LEMMA RttTaken ==
  ASSUME EInv, RttInv, toM # <<>>, toM' = Tail(toM), UNCHANGED <<rx, toL, tool, ehist>>,
         IF ready THEN UNCHANGED <<ready, buf>> ELSE UNCHANGED <<ready, buf>> \/ buf' = Head(toM),
         pc' \notin {"kick", "echoed"} => pc \notin {"kick", "echoed"}
  PROVE  RttInv'
<1>1. toM \in Seq(Pings) /\ Head(toM) = toM[1] /\ 1 \in 1..Len(toM)
  BY DEF EInv, EchoTypes
<1>2. /\ Len(toM') = Len(toM) - 1 /\ Len(toM) \in Nat
      /\ \A k \in 1..Len(toM') : toM'[k] = toM[k + 1] /\ k + 1 \in 1..Len(toM)
  BY <1>1, TailIs
<1>3. CharTypes' /\ EchoesRise' /\ RttIsOwnEcho'
  BY DEF RttInv, CharTypes, At, EchoesRise, Echoes, RttIsOwnEcho
<1>4. \A k \in 1..Len(toM') : ~ehist.gaveUp /\ toM'[k].from = "char" => Awaited(toM'[k])
  BY <1>2 DEF RttInv, OnlyAwaited
<1>5. ~ehist.gaveUp /\ toM[1].from = "char" => Awaited(toM[1])
  BY <1>1 DEF RttInv, OnlyAwaited
<1>6. OnlyAwaited'
  BY <1>1, <1>2, <1>4, <1>5 DEF RttInv, OnlyAwaited, Awaited, At, Echoes
<1> QED
  BY <1>3, <1>6 DEF RttInv

\* The firmware echoes what is in its buffer.
LEMMA RttSend == ASSUME EInv, RttInv, Send PROVE RttInv'
<1>1. /\ pc = "send" /\ pc' = "kick" /\ toL' = [toL EXCEPT ![to] = Append(@, buf)]
      /\ UNCHANGED <<toM, ready, buf, rx, tool>>
  BY DEF Send, GoOn, firmVars, tools
<1>2. ready /\ to = buf.from /\ buf.id > ehist.last /\ buf \in Pings
  BY <1>1 DEF EInv, BufferIsNew, EchoTypes
<1>3. /\ ehist'.last = buf.id /\ ehist'.gaveUp = ehist.gaveUp /\ ehist'.wrong = ehist.wrong
      /\ ehist.last \in Nat /\ buf.id \in Nat
  BY <1>2 DEF Send, EInv, EchoTypes, Pings
<1>4. toL \in [Tools -> Seq(Pings)] /\ rx["char"] \in Seq(Pings) /\ toL["char"] \in Seq(Pings)
  BY DEF RttInv, CharTypes, Tools
<1>5. toL' \in [Tools -> Seq(Pings)]
  <2>1. CASE to \in Tools
    <3>1. Append(toL[to], buf) \in Seq(Pings)
      BY <1>2, <1>4, <2>1, AppendIs
    <3> QED
      BY <1>1, <1>4, <2>1, <3>1
  <2>2. CASE to \notin Tools
    <3>1. toL' = toL
      BY <1>1, <1>4, <2>2
    <3> QED
      BY <1>4, <3>1
  <2> QED
    BY <2>1, <2>2
<1>6. CharTypes' /\ RttIsOwnEcho'
  BY <1>1, <1>3, <1>5 DEF RttInv, CharTypes, At, RttIsOwnEcho
<1>7. CASE to # "char"
  <2>1. Echoes' = Echoes
    <3>1. toL'["char"] = toL["char"]
      BY <1>1, <1>4, <1>7 DEF Tools
    <3> QED
      BY <1>1, <3>1 DEF Echoes
  <2>2. Echoes \in Seq(Pings)
    BY <1>4, ConcatIs DEF Echoes
  <2>3. EchoesRise'
    BY <1>2, <1>3, <2>1, <2>2, IdsAreNat DEF RttInv, EchoesRise
  <2>4. OnlyAwaited'
    BY <1>1, <1>3, <2>1 DEF RttInv, OnlyAwaited, Awaited, At
  <2> QED
    BY <1>6, <2>3, <2>4 DEF RttInv
<1>8. CASE to = "char"
  <2>1. Echoes \in Seq(Pings)
    BY <1>4, ConcatIs DEF Echoes
  <2>2. Echoes' = Append(Echoes, buf)
    <3>1. toL'["char"] = Append(toL["char"], buf)
      BY <1>1, <1>4, <1>8 DEF Tools
    <3>2. Echoes' = rx["char"] \o Append(toL["char"], buf)
      BY <1>1, <3>1 DEF Echoes
    <3>3. rx["char"] \o Append(toL["char"], buf) = Append(rx["char"] \o toL["char"], buf)
      BY <1>2, <1>4, AppendConcat
    <3> QED
      BY <3>2, <3>3 DEF Echoes
  <2>3. /\ Len(Echoes') = Len(Echoes) + 1 /\ Len(Echoes) \in Nat /\ Echoes'[Len(Echoes) + 1] = buf
        /\ \A k \in 1..Len(Echoes) : Echoes'[k] = Echoes[k]
    BY <1>2, <2>1, <2>2, AppendIs
  <2>4. \A k \in 1..Len(Echoes) : Echoes[k].id \in Nat /\ Echoes[k].id <= ehist.last
    BY <2>1, IdsAreNat DEF RttInv, EchoesRise
  <2>5. EchoesRise'
    <3>1. \A k \in 1..Len(Echoes') : Echoes'[k].id <= ehist'.last
      BY <1>2, <1>3, <2>3, <2>4
    <3>2. \A j, k \in 1..Len(Echoes') : j < k => Echoes'[j].id < Echoes'[k].id
      BY <1>2, <1>3, <2>3, <2>4 DEF RttInv, EchoesRise
    <3> QED
      BY <3>1, <3>2 DEF EchoesRise
  <2>6. OnlyAwaited'
    <3>1. ~ehist.gaveUp => Awaited(buf) /\ \A k \in 1..Len(Echoes) : Awaited(Echoes[k])
      BY <1>1, <1>2, <1>8 DEF RttInv, OnlyAwaited
    <3>2. ~ehist.gaveUp => \A k \in 1..Len(Echoes') : Awaited(Echoes'[k])
      BY <2>3, <3>1
    <3> QED
      BY <1>1, <1>3, <3>2 DEF RttInv, OnlyAwaited, Awaited, At
  <2> QED
    BY <1>6, <2>5, <2>6 DEF RttInv
<1> QED
  BY <1>7, <1>8

\* Linux finds the echoes: they stay in line, or nobody listens.
LEMMA RttDeliver == ASSUME EInv, RttInv, Deliver PROVE RttInv'
<1>1. /\ UNCHANGED <<toM, ready, buf, tool, ehist>> /\ toL' = NothingFor
      /\ rx' = [t \in Tools |-> IF At(t) = "off" THEN <<>> ELSE rx[t] \o toL[t]]
      /\ (pc' = pc \/ (pc = "wfi" /\ pc' = "check"))
  BY WakesIs DEF Deliver, baseVars, firmVars
<1>2. \A t \in Tools : rx[t] \in Seq(Pings) /\ toL[t] \in Seq(Pings)
  BY DEF RttInv, CharTypes
<1>3. toL' \in [Tools -> Seq(Pings)] /\ toL'["char"] = <<>>
  BY <1>1 DEF NothingFor, Tools
<1>4. \A t \in Tools : rx[t] \o toL[t] \in Seq(Pings)
  BY <1>2, ConcatIs
<1>5. rx' \in [Tools -> Seq(Pings)]
  BY <1>1, <1>4
<1>6. CharTypes' /\ RttIsOwnEcho'
  BY <1>1, <1>3, <1>5 DEF RttInv, CharTypes, At, RttIsOwnEcho
<1>7. Echoes' = Echoes \/ Echoes' = <<>>
  <2>1. Echoes' = rx'["char"]
    <3>1. rx'["char"] \in Seq(Pings)
      BY <1>5 DEF Tools
    <3> QED
      BY <1>3, <3>1, EmptyConcat DEF Echoes
  <2> QED
    BY <1>1, <2>1 DEF Echoes, Tools
<1>8. EchoesRise'
  BY <1>1, <1>7 DEF RttInv, EchoesRise
<1>9. OnlyAwaited'
  BY <1>1, <1>7 DEF RttInv, OnlyAwaited, Awaited, At
<1> QED
  BY <1>6, <1>8, <1>9 DEF RttInv

\* Reading drops some of what is in line.
LEMMA DropConcat ==
  ASSUME NEW s \in Seq(Pings), NEW t \in Seq(Pings), s # <<>>, NEW u \in {Tail(s) \o t, t}
  PROVE  \E d \in 1..Len(s \o t) :
           /\ Len(u) = Len(s \o t) - d
           /\ \A k \in 1..Len(u) : u[k] = (s \o t)[k + d]
<1>1. Len(s) \in Nat /\ Len(s) >= 1 /\ Len(t) \in Nat /\ Len(s \o t) = Len(s) + Len(t)
  OBVIOUS
<1>2. CASE u = Tail(s) \o t
  <2>1. 1 \in 1..Len(s \o t)
    BY <1>1
  <2>2. Len(u) = Len(s \o t) - 1 /\ \A k \in 1..Len(u) : u[k] = (s \o t)[k + 1]
    BY <1>2, TailConcat
  <2> QED
    BY <2>1, <2>2
<1>3. CASE u = t
  <2>1. Len(s) \in 1..Len(s \o t)
    BY <1>1
  <2>2. Len(u) = Len(s \o t) - Len(s) /\ \A k \in 1..Len(u) : u[k] = (s \o t)[Len(s) + k]
    BY <1>1, <1>3, ConcatIs
  <2>3. \A k \in 1..Len(u) : Len(s) + k = k + Len(s)
    BY <1>1, <1>3
  <2>4. \A k \in 1..Len(u) : u[k] = (s \o t)[k + Len(s)]
    BY <2>2, <2>3
  <2> QED
    BY <2>1, <2>2, <2>4
<1> QED
  BY <1>2, <1>3

\* rpmsg-char-rtt reads the only echo there is, if no run has given up: all others
\* would be newer, and of the same ping.
LEMMA RttRead ==
  ASSUME EInv, RttInv, UNCHANGED <<pc, toM, ready, buf, toL>>, At("char") \in {"warm", "poll"},
         rx["char"] # <<>>, rx'["char"] \in {<<>>, Tail(rx["char"])},
         ehist'.last = ehist.last, ehist'.gaveUp = ehist.gaveUp
  PROVE  EchoesRise' /\ OnlyAwaited'
<1>1. rx["char"] \in Seq(Pings) /\ toL["char"] \in Seq(Pings)
  BY DEF RttInv, CharTypes, Tools
<1>2. Echoes \in Seq(Pings)
  BY <1>1, ConcatIs DEF Echoes
<1>3. Echoes' \in {Tail(rx["char"]) \o toL["char"], toL["char"]}
  <2>1. CASE rx'["char"] = Tail(rx["char"])
    BY <2>1 DEF Echoes
  <2>2. CASE rx'["char"] = <<>>
    BY <1>1, <2>2, EmptyConcat DEF Echoes
  <2> QED
    BY <2>1, <2>2
<1>4. PICK d \in 1..Len(Echoes) :
        /\ Len(Echoes') = Len(Echoes) - d
        /\ \A k \in 1..Len(Echoes') : Echoes'[k] = Echoes[k + d]
  BY <1>1, <1>3, DropConcat DEF Echoes
<1>5. d \in Nat /\ d >= 1 /\ Len(Echoes) \in Nat /\ Len(Echoes') \in Nat /\ 1 \in 1..Len(Echoes)
  BY <1>2, <1>4
<1>6. \A k \in 1..Len(Echoes') : k + d \in 1..Len(Echoes) /\ 1 < k + d
  BY <1>4, <1>5
<1>7. \A k \in 1..Len(Echoes) : Echoes[k].id \in Nat /\ Echoes[k].id <= ehist.last
  BY <1>2, IdsAreNat DEF RttInv, EchoesRise
<1>8. EchoesRise'
  <2>1. \A k \in 1..Len(Echoes') : Echoes'[k].id <= ehist'.last
    BY <1>4, <1>6, <1>7
  <2>2. ASSUME NEW j \in 1..Len(Echoes'), NEW k \in 1..Len(Echoes'), j < k
        PROVE  Echoes'[j].id < Echoes'[k].id
    <3>1. j + d \in 1..Len(Echoes) /\ k + d \in 1..Len(Echoes)
      BY <1>6
    <3>2. j \in Nat /\ k \in Nat /\ j + d < k + d
      BY <1>5, <2>2
    <3> QED
      BY <1>4, <3>1, <3>2 DEF RttInv, EchoesRise
  <2> QED
    BY <2>1, <2>2 DEF EchoesRise
<1>9. OnlyAwaited'
  <2> SUFFICES ASSUME ~ehist.gaveUp
               PROVE  /\ \A k \in 1..Len(toM) : toM[k].from # "char"
                      /\ ~(ready /\ pc \notin {"kick", "echoed"} /\ buf.from = "char")
                      /\ 1..Len(Echoes') = {}
    BY DEF OnlyAwaited
  <2>1. /\ \A k \in 1..Len(toM) : toM[k].from = "char" => toM[k].id = tool["char"].ping
        /\ ready /\ pc \notin {"kick", "echoed"} /\ buf.from = "char" => buf.id = tool["char"].ping
        /\ \A k \in 1..Len(Echoes) : Echoes[k].id = tool["char"].ping
    BY DEF RttInv, OnlyAwaited, Awaited
  <2>2. tool["char"].ping \in Nat /\ tool["char"].ping <= ehist.last /\ ehist.last \in Nat
    BY <1>5, <1>7, <2>1 DEF EInv, EchoTypes
  <2>3. \A k \in 1..Len(toM) : toM[k].from # "char"
    <3>1. \A k \in 1..Len(toM) : toM[k].id \in Nat
      BY IdsAreNat DEF EInv, EchoTypes
    <3>2. \A k \in 1..Len(toM) : toM[k].id > ehist.last
      BY DEF EInv, Rising
    <3> QED
      BY <2>1, <2>2, <3>1, <3>2
  <2>4. ~(ready /\ pc \notin {"kick", "echoed"} /\ buf.from = "char")
    <3>1. ready /\ pc \notin {"kick", "echoed"} => buf.id > ehist.last /\ buf.id \in Nat
      BY DEF EInv, EchoTypes, BufferIsNew, Pings, EchoPcs
    <3> QED
      BY <2>1, <2>2, <3>1
  <2>5. 1..Len(Echoes') = {}
    <3>1. SUFFICES ASSUME NEW k \in 1..Len(Echoes') PROVE FALSE
      OBVIOUS
    <3>2. Echoes[1].id < Echoes[k + d].id
      BY <1>5, <1>6 DEF RttInv, EchoesRise
    <3> QED
      BY <1>5, <1>6, <1>7, <2>1, <2>2, <3>2
  <2> QED
    BY <2>3, <2>4, <2>5
<1> QED
  BY <1>8, <1>9

\* The next ping of rpmsg-char-rtt is the only message of it on its way.
LEMMA RttPing ==
  ASSUME EInv, RttInv, NEW f, NEW s \in {"warm", "poll"}, At("char") \in {"off", "next"},
         Write("char", [f EXCEPT !.at = s]), DOMAIN f = {"at", "ping", "n"},
         UNCHANGED <<pc, ready, buf, rx, toL>>,
         ehist'.last = ehist.last, ehist'.gaveUp = ehist.gaveUp, ehist'.wrong = ehist.wrong
  PROVE  RttInv'
<1> DEFINE ping == [from |-> "char", id |-> ehist.pings + 1]
<1>0. ehist.pings \in Nat /\ "char" \in Tools
  BY DEF EInv, EchoTypes, Tools
<1>1. ping \in Pings /\ ping.id = ehist.pings + 1 /\ toM \in Seq(Pings) /\ toM' = Append(toM, ping)
  BY <1>0 DEF Pings, Tools, Write, EInv, EchoTypes
<1>2. /\ DOMAIN tool' = Tools /\ DOMAIN tool'["char"] = {"at", "ping", "n"}
      /\ tool'["char"].at = s /\ tool'["char"].ping = ehist.pings + 1
  <2>1. Set("char", [[f EXCEPT !.at = s] EXCEPT !.ping = ehist.pings + 1])
    BY DEF Write
  <2>2. /\ DOMAIN tool' = Tools
        /\ tool'["char"] = [[f EXCEPT !.at = s] EXCEPT !.ping = ehist.pings + 1]
    BY <1>0, <2>1, NewTypes DEF RttInv
  <2> QED
    BY <2>2
<1> HIDE DEF ping
<1>3. /\ Len(toM') = Len(toM) + 1 /\ Len(toM) \in Nat
      /\ toM'[Len(toM) + 1] = ping /\ \A k \in 1..Len(toM) : toM'[k] = toM[k]
  BY <1>1, AppendIs
<1>4. CharTypes' /\ EchoesRise' /\ RttIsOwnEcho'
  BY <1>2 DEF RttInv, CharTypes, At, EchoesRise, Echoes, RttIsOwnEcho
<1>5. OnlyAwaited'
  <2> SUFFICES ASSUME ~ehist.gaveUp
               PROVE  /\ \A k \in 1..Len(toM') :
                           toM'[k].from = "char" => toM'[k].id = tool'["char"].ping
                      /\ ~(ready /\ pc \notin {"kick", "echoed"} /\ buf.from = "char")
                      /\ 1..Len(Echoes') = {}
    BY <1>2 DEF OnlyAwaited, Awaited, At
  <2>1. /\ \A k \in 1..Len(toM) : toM[k].from # "char"
        /\ ~(ready /\ pc \notin {"kick", "echoed"} /\ buf.from = "char")
        /\ 1..Len(Echoes) = {}
    BY DEF RttInv, OnlyAwaited, Awaited
  <2>2. Echoes' = Echoes
    BY DEF Echoes
  <2>3. \A k \in 1..Len(toM') : toM'[k].from = "char" => toM'[k].id = tool'["char"].ping
    BY <1>1, <1>2, <1>3, <2>1
  <2> QED
    BY <2>1, <2>2, <2>3
<1> QED
  BY <1>4, <1>5 DEF RttInv

LEMMA CharRtt == ASSUME EInv, RttInv, Char PROVE RttInv'
<1>0. /\ DOMAIN ehist = {"slow", "alone", "pings", "last", "garbled", "gaveUp", "stalled", "wrong"}
      /\ "char" \in Tools /\ CharTypes /\ rx \in [Tools -> Seq(Pings)] /\ rx["char"] \in Seq(Pings)
      /\ DOMAIN tool["char"] = {"at", "ping", "n"} /\ DOMAIN ToolOff = {"at", "ping", "n"}
      /\ ToolOff.at = "off" /\ <<>> \in Seq(Pings) /\ (rx["char"] # <<>> => Tail(rx["char"]) \in Seq(Pings))
  BY DEF EInv, EchoTypes, RttInv, CharTypes, Tools, ToolOff
<1>1. CASE CharStart
  <2>1. /\ At("char") = "off" /\ Write("char", [ToolOff EXCEPT !.at = "warm"])
        /\ UNCHANGED <<pc, ready, buf, rx, toL>> /\ ehist' = [ehist EXCEPT !.pings = @ + 1]
    BY <1>1 DEF CharStart, Pinged, baseVars, firmVars
  <2>2. ehist'.last = ehist.last /\ ehist'.gaveUp = ehist.gaveUp /\ ehist'.wrong = ehist.wrong
    BY <1>0, <2>1
  <2> QED
    BY <1>0, <2>1, <2>2, RttPing
<1>2. CASE CharPing
  <2>1. /\ At("char") = "next" /\ Write("char", [tool["char"] EXCEPT !.at = "poll"])
        /\ UNCHANGED <<pc, ready, buf, rx, toL>> /\ ehist' = [ehist EXCEPT !.pings = @ + 1]
    BY <1>2 DEF CharPing, Pinged, baseVars, firmVars
  <2>2. ehist'.last = ehist.last /\ ehist'.gaveUp = ehist.gaveUp /\ ehist'.wrong = ehist.wrong
    BY <1>0, <2>1
  <2> QED
    BY <1>0, <2>1, <2>2, RttPing
<1>3. CASE CharWarm
  <2>1. /\ At("char") = "warm" /\ rx["char"] # <<>> /\ Set("char", [tool["char"] EXCEPT !.at = "next"])
        /\ rx' = [rx EXCEPT !["char"] = Tail(rx["char"])]
        /\ UNCHANGED <<pc, toM, ready, buf, toL, ehist>>
    BY <1>3 DEF CharWarm, Step, WarmRead, baseVars, firmVars
  <2>2. /\ DOMAIN tool' = Tools /\ tool'["char"] = [tool["char"] EXCEPT !.at = "next"]
        /\ rx' \in [Tools -> Seq(Pings)] /\ rx'["char"] = Tail(rx["char"])
    BY <1>0, <2>1, NewTypes
  <2>3. CharTypes' /\ RttIsOwnEcho'
    BY <1>0, <2>1, <2>2 DEF RttInv, CharTypes, At, RttIsOwnEcho
  <2>4. EchoesRise' /\ OnlyAwaited'
    BY <2>1, <2>2, RttRead
  <2> QED
    BY <2>3, <2>4 DEF RttInv
<1>4. CASE CharRead
  <2>1. /\ At("char") = "poll" /\ rx["char"] # <<>>
        /\ ehist' = [ehist EXCEPT !.wrong =
             @ \/ (~ehist.gaveUp /\ Head(rx["char"]).id # tool["char"].ping)]
        /\ UNCHANGED <<pc, toM, ready, buf, toL>>
    BY <1>4 DEF CharRead, baseVars, firmVars
  <2>2. /\ DOMAIN tool' = Tools /\ DOMAIN tool'["char"] = {"at", "ping", "n"}
        /\ tool'["char"].at \in {"off", "next"}
        /\ rx' \in [Tools -> Seq(Pings)] /\ rx'["char"] \in {<<>>, Tail(rx["char"])}
    <3>1. CASE tool["char"].n + 1 = Rounds
      <4>1. Set("char", ToolOff) /\ rx' = [rx EXCEPT !["char"] = <<>>]
        BY <1>4, <3>1 DEF CharRead, Finish
      <4> QED
        BY <1>0, <4>1, NewTypes
    <3>2. CASE tool["char"].n + 1 # Rounds
      <4>1. /\ Set("char", [tool["char"] EXCEPT !.at = "next", !.n = @ + 1])
            /\ rx' = [rx EXCEPT !["char"] = Tail(rx["char"])]
        BY <1>4, <3>2 DEF CharRead
      <4>2. /\ DOMAIN tool' = Tools
            /\ tool'["char"] = [tool["char"] EXCEPT !.at = "next", !.n = @ + 1]
            /\ rx' \in [Tools -> Seq(Pings)] /\ rx'["char"] = Tail(rx["char"])
        BY <1>0, <2>1, <4>1, NewTypes
      <4> QED
        BY <1>0, <4>2
    <3> QED
      BY <3>1, <3>2
  <2>3. ehist.gaveUp \/ Head(rx["char"]).id = tool["char"].ping
    <3>1. toL["char"] \in Seq(Pings)
      BY <1>0 DEF CharTypes
    <3>2. 1 \in 1..Len(Echoes) /\ Echoes[1] = Head(rx["char"])
      <4>1. 1 \in 1..Len(rx["char"]) /\ Head(rx["char"]) = rx["char"][1]
        BY <1>0, <2>1
      <4> QED
        BY <1>0, <3>1, <4>1, ConcatIs DEF Echoes
    <3> QED
      BY <3>2 DEF RttInv, OnlyAwaited, Awaited
  <2>4. ehist'.last = ehist.last /\ ehist'.gaveUp = ehist.gaveUp /\ ~ehist'.wrong
    <3>1. ~ehist.wrong
      BY DEF RttInv, RttIsOwnEcho
    <3> QED
      BY <1>0, <2>1, <2>3, <3>1
  <2>5. CharTypes' /\ RttIsOwnEcho'
    BY <1>0, <2>1, <2>2, <2>4 DEF RttInv, CharTypes, At, RttIsOwnEcho
  <2>6. EchoesRise' /\ OnlyAwaited'
    BY <2>1, <2>2, <2>4, RttRead
  <2> QED
    BY <2>5, <2>6 DEF RttInv
<1>5. CASE CharGivesUp
  <2>1. /\ rx["char"] = <<>> /\ Set("char", ToolOff) /\ rx' = [rx EXCEPT !["char"] = <<>>]
        /\ ehist' = [ehist EXCEPT !.gaveUp = TRUE, !.stalled = @ \/ At("char") = "poll"]
        /\ UNCHANGED <<pc, toM, ready, buf, toL>>
    BY <1>5 DEF CharGivesUp, Finish, baseVars, firmVars
  <2>2. /\ DOMAIN tool' = Tools /\ tool'["char"] = ToolOff
        /\ rx' \in [Tools -> Seq(Pings)] /\ rx'["char"] = rx["char"]
    BY <1>0, <2>1, NewTypes
  <2>3. ehist'.gaveUp /\ ehist'.last = ehist.last /\ ehist'.wrong = ehist.wrong
    BY <1>0, <2>1
  <2>4. CharTypes' /\ RttIsOwnEcho'
    BY <1>0, <2>1, <2>2, <2>3 DEF RttInv, CharTypes, At, RttIsOwnEcho
  <2>5. EchoesRise' /\ OnlyAwaited'
    BY <2>1, <2>2, <2>3 DEF RttInv, EchoesRise, Echoes, OnlyAwaited
  <2> QED
    BY <2>4, <2>5 DEF RttInv
<1> QED
  BY <1>1, <1>2, <1>3, <1>4, <1>5 DEF Char

\* What the tty does is not of that endpoint.
LEMMA TtyRtt == ASSUME EInv, RttInv, Tty PROVE RttInv'
<1>0. /\ DOMAIN ehist = {"slow", "alone", "pings", "last", "garbled", "gaveUp", "stalled", "wrong"}
      /\ ehist.pings \in Nat /\ "tty" \in Tools /\ "char" \in Tools \ {"tty"} /\ CharTypes
      /\ rx["tty"] \in Seq(Pings) /\ <<>> \in Seq(Pings)
      /\ (rx["tty"] # <<>> => Tail(rx["tty"]) \in Seq(Pings))
  BY DEF EInv, EchoTypes, RttInv, CharTypes, Tools
<1>1. /\ DOMAIN tool' = Tools /\ tool'["char"] = tool["char"] /\ UNCHANGED <<pc, ready, buf, toL>>
      /\ rx' \in [Tools -> Seq(Pings)] /\ rx'["char"] = rx["char"]
  <2>1. /\ \E f : Set("tty", f)
        /\ rx' \in {rx, [rx EXCEPT !["tty"] = <<>>]}
           \/ (rx["tty"] # <<>> /\ rx' = [rx EXCEPT !["tty"] = Tail(rx["tty"])])
        /\ UNCHANGED <<pc, ready, buf, toL>>
    BY DEF Tty, TtyStart, TtyRead, TtyPing, TtyEnds, Write, Finish, Step, baseVars, firmVars
  <2>2. rx \in [Tools -> Seq(Pings)]
    BY <1>0 DEF CharTypes
  <2> QED
    BY <1>0, <2>1, <2>2, NewTypes
<1>2. /\ ehist'.last = ehist.last /\ ehist'.gaveUp = ehist.gaveUp /\ ehist'.wrong = ehist.wrong
  BY <1>0 DEF Tty, TtyStart, TtyRead, TtyPing, TtyEnds, Pinged
<1>3. CharTypes' /\ EchoesRise' /\ RttIsOwnEcho'
  BY <1>1, <1>2 DEF RttInv, CharTypes, At, EchoesRise, Echoes, RttIsOwnEcho
<1>4. \A k \in 1..Len(toM') : toM'[k].from = "char" => k \in 1..Len(toM) /\ toM'[k] = toM[k]
  <2> DEFINE ping == [from |-> "tty", id |-> ehist.pings + 1]
  <2>1. toM \in Seq(Pings) /\ ping \in Pings /\ ping.from # "char"
    BY <1>0 DEF EInv, EchoTypes, Pings
  <2>2. toM' = toM \/ toM' = Append(toM, ping)
    BY DEF Tty, TtyStart, TtyRead, TtyPing, TtyEnds, Write
  <2> HIDE DEF ping
  <2> QED
    BY <2>1, <2>2, AppendIs
<1>5. OnlyAwaited'
  BY <1>1, <1>2, <1>4 DEF RttInv, OnlyAwaited, Awaited, At, Echoes
<1> QED
  BY <1>3, <1>5 DEF RttInv

\* The firmware moves a ping from its buffer to the line, or it keeps the buffer.
LEMMA FirmwareRtt == ASSUME EInv, RttInv, Firmware PROVE RttInv'
<1>1. \A next : GoOn(next) => pc' = next
  BY DEF GoOn
<1>2. CASE rx_cb
  <2>1. /\ toM # <<>> /\ toM' = Tail(toM) /\ UNCHANGED <<rx, toL, tool, ehist>>
        /\ IF ready THEN UNCHANGED <<ready, buf>> ELSE ready' = TRUE /\ buf' = Head(toM)
        /\ pc \in EchoPcs /\ (pc' = pc \/ (pc = "wfi" /\ pc' = "check"))
    BY <1>2, WakesIs DEF rx_cb, Taken, tools, Listening, EchoPcs
  <2> QED
    BY <2>1, RttTaken
<1>3. CASE NoEndpoint
  <2>1. /\ toM # <<>> /\ toM' = Tail(toM) /\ UNCHANGED <<pc, ready, buf, rx, toL, tool, ehist>>
    BY <1>3 DEF NoEndpoint, baseVars, firmVars, tools
  <2> QED
    BY <2>1, RttTaken
<1>4. CASE Send
  BY <1>4, RttSend
<1>5. CASE EchoUp \/ Check \/ Doze \/ Log \/ MU_SendMsg \/ Echoed
  <2>1. UNCHANGED <<toM, buf, rx, toL, tool, ehist>>
    BY <1>5 DEF EchoUp, Check, Doze, Log, MU_SendMsg, Echoed, echoVars, firmVars, tools
  <2>2. ready' /\ pc' \notin {"kick", "echoed"} => ready /\ pc \notin {"kick", "echoed"}
    BY <1>1, <1>5 DEF EchoUp, EptUp, Check, Doze, Log, MU_SendMsg, Echoed, uart4_puts, echoVars, firmVars
  <2> QED
    BY <2>1, <2>2, RttStill
<1> QED
  BY <1>2, <1>3, <1>4, <1>5 DEF Firmware, Main

LEMMA FreshRtt ==
  ASSUME NEW slow, toM' = <<>>, toL' = NothingFor, rx' = NothingFor, ready' = FALSE,
         tool' = [t \in Tools |-> ToolOff], ehist' = NoHistory(slow)
  PROVE  RttInv'
<1>1. <<>> \in Seq(Pings) /\ 1..Len(toM') = {} /\ "char" \in Tools
  BY DEF Tools
<1>2. CharTypes'
  BY <1>1 DEF CharTypes, At, NothingFor, ToolOff
<1>3. Echoes' = <<>>
  <2>1. rx'["char"] = <<>> /\ toL'["char"] = <<>>
    BY <1>1 DEF NothingFor
  <2> QED
    BY <1>1, <2>1, EmptyConcat DEF Echoes
<1>4. 1..Len(Echoes') = {}
  BY <1>3
<1>5. EchoesRise' /\ OnlyAwaited'
  BY <1>1, <1>4 DEF EchoesRise, OnlyAwaited
<1>6. RttIsOwnEcho'
  BY DEF NoHistory, RttIsOwnEcho
<1> QED
  BY <1>2, <1>5, <1>6 DEF RttInv

LEMMA FreshRttNow ==
  ASSUME NEW slow, toM = <<>>, toL = NothingFor, rx = NothingFor, ready = FALSE,
         tool = [t \in Tools |-> ToolOff], ehist = NoHistory(slow)
  PROVE  RttInv
<1>1. <<>> \in Seq(Pings) /\ 1..Len(toM) = {} /\ "char" \in Tools
  BY DEF Tools
<1>2. CharTypes
  BY <1>1 DEF CharTypes, At, NothingFor, ToolOff
<1>3. Echoes = <<>>
  <2>1. rx["char"] = <<>> /\ toL["char"] = <<>>
    BY <1>1 DEF NothingFor
  <2> QED
    BY <1>1, <2>1, EmptyConcat DEF Echoes
<1>4. 1..Len(Echoes) = {}
  BY <1>3
<1>5. EchoesRise /\ OnlyAwaited
  BY <1>1, <1>4 DEF EchoesRise, OnlyAwaited
<1>6. RttIsOwnEcho
  BY DEF NoHistory, RttIsOwnEcho
<1> QED
  BY <1>2, <1>5, <1>6 DEF RttInv

LEMMA NextRtt == ASSUME EInv, RttInv, [BenchNext]_benchVars PROVE RttInv'
<1>1. CASE LoadImage
  <2>1. /\ toM' = <<>> /\ toL' = NothingFor /\ rx' = NothingFor /\ ready' = FALSE
        /\ tool' = [t \in Tools |-> ToolOff] /\ ehist' = NoHistory(ehist.slow)
    BY <1>1 DEF LoadImage, EchoReset, CharBroken, TtyBroken
  <2> QED
    BY <2>1, FreshRtt
<1>2. CASE EchoNext
  BY <1>2, FirmwareRtt, RttDeliver, CharRtt, TtyRtt DEF EchoNext
<1>3. CASE UNCHANGED echoVars /\ ~LoadImage /\ ~EchoNext
  <2>1. UNCHANGED <<toM, ready, buf, rx, toL, tool, ehist>>
    BY <1>3 DEF echoVars, firmVars, tools
  <2>2. CASE pc' = pc \/ pc \notin {"kick", "echoed"}
    BY <2>1, <2>2, RttStill
  <2>3. CASE pc' # pc /\ pc \in {"kick", "echoed"}
    <3>1. {pc, pc'} \cap EchoPcs = {} \/ pc' = pc
      BY <1>3, Elsewhere
    <3> QED
      BY <2>3, <3>1 DEF EchoPcs
  <2> QED
    BY <2>2, <2>3
<1> QED
  BY <1>1, <1>2, <1>3 DEF BenchNext, benchVars

\* A round trip is measured with the echo of its own ping: up to the first run that
\* gives up, no other message of rpmsg-char-rtt is ever on its way or unread.
THEOREM OwnEcho == BenchSpec => []RttIsOwnEcho
<1>1. ASSUME BenchInit PROVE RttInv
  <2>1. /\ toM = <<>> /\ toL = NothingFor /\ rx = NothingFor /\ ready = FALSE
        /\ tool = [t \in Tools |-> ToolOff] /\ \E slow \in BOOLEAN : ehist = NoHistory(slow)
    BY <1>1 DEF BenchInit, EchoInit
  <2> QED
    BY <2>1, FreshRttNow
<1>2. RttInv => RttIsOwnEcho
  BY DEF RttInv
<1>3. BenchSpec => []EInv
  BY InitEInv, NextEInv, PTL DEF BenchSpec
<1> QED
  BY <1>1, <1>2, <1>3, NextRtt, PTL DEF BenchSpec
-----------------------------------------------------------------------------
(* Slow pings. A message that finds the firmware asleep is answered: its       *)
(* interrupt ends the wfi and fills the buffer, if it is not full already.    *)

OnlyChar ==
  ehist.alone =>
    /\ \A k \in 1..Len(toM) : toM[k].from = "char"
    /\ ready => buf.from = "char"
    /\ At("tty") = "off"

\* Once it has had an echo the firmware is at its main loop
Running ==
  At("char") \in {"next", "poll"} \/ rx["char"] # <<>> \/ toL["char"] # <<>> => Listening

EchoComes ==
  \/ rx["char"] # <<>> \/ toL["char"] # <<>>
  \/ ready /\ pc \in {"check", "print", "send"}
  \/ pc = "wfi" /\ toM # <<>> /\ ~kick

PollEnds == ehist.slow /\ ehist.alone /\ At("char") = "poll" => EchoComes

SlowInv == OnlyChar /\ Running /\ PollEnds /\ SlowPingsAnswered

\* Whoever listens goes on listening.
LEMMA StillListening == EchoNext /\ Listening => Listening'
  BY EchoBase DEF Listening, EchoPcs

\* Steps of others, while the firmware stays where it is or nobody waits for it.
LEMMA SlowStill ==
  ASSUME SlowInv, UNCHANGED <<toM, toL, kick, ready, buf, rx, tool, ehist>>,
         pc' = pc \/ {pc, pc'} \cap EchoPcs = {}, image' = image
  PROVE  SlowInv'
<1>1. OnlyChar' /\ SlowPingsAnswered'
  BY DEF SlowInv, OnlyChar, SlowPingsAnswered, At
<1>2. Running'
  BY DEF SlowInv, Running, At, Listening, EchoPcs
<1>3. PollEnds'
  BY DEF SlowInv, PollEnds, EchoComes, At, EchoPcs
<1> QED
  BY <1>1, <1>2, <1>3 DEF SlowInv

LEMMA FirmwareSlow == ASSUME EInv, RttInv, SlowInv, Firmware PROVE SlowInv'
<1>0. /\ toM \in Seq(Pings) /\ EchoNext
      /\ toL \in [Tools -> Seq(Pings)] /\ rx \in [Tools -> Seq(Pings)]
      /\ DOMAIN ehist = {"slow", "alone", "pings", "last", "garbled", "gaveUp", "stalled", "wrong"}
  BY DEF EInv, EchoTypes, RttInv, CharTypes, EchoNext
<1>1. \A next : GoOn(next) => pc' = next /\ image' = image
  BY DEF GoOn
<1>2. CASE rx_cb
  <2>1. /\ Listening /\ toM # <<>> /\ toM' = Tail(toM) /\ UNCHANGED <<toL, kick, rx, tool, ehist>>
        /\ IF ready THEN UNCHANGED <<ready, buf>> ELSE ready' = TRUE /\ buf' = Head(toM)
        /\ (pc = "wfi" => pc' = "check") /\ (pc # "wfi" => pc' = pc)
    BY <1>1, <1>2 DEF rx_cb, Taken, tools, Wakes, Awake, baseVars
  <2>2. /\ Head(toM) = toM[1] /\ 1 \in 1..Len(toM)
        /\ \A k \in 1..Len(toM') : toM'[k] = toM[k + 1] /\ k + 1 \in 1..Len(toM)
    BY <1>0, <2>1, TailIs
  <2>3. OnlyChar'
    BY <2>1, <2>2 DEF SlowInv, OnlyChar, At
  <2>4. Running'
    BY <1>0, <2>1, StillListening DEF SlowInv, Running
  <2>5. PollEnds'
    BY <2>1 DEF SlowInv, PollEnds, EchoComes, At
  <2> QED
    BY <2>1, <2>3, <2>4, <2>5 DEF SlowInv, SlowPingsAnswered
<1>3. CASE NoEndpoint
  <2>1. /\ pc = "link" /\ toM # <<>> /\ toM' = Tail(toM)
        /\ UNCHANGED <<image, pc, toL, kick, ready, buf, rx, tool, ehist>>
    BY <1>3 DEF NoEndpoint, baseVars, firmVars, tools
  <2>2. \A k \in 1..Len(toM') : toM'[k] = toM[k + 1] /\ k + 1 \in 1..Len(toM)
    BY <1>0, <2>1, TailIs
  <2>3. OnlyChar'
    BY <2>1, <2>2 DEF SlowInv, OnlyChar, At
  <2>4. Running' /\ PollEnds'
    BY <2>1 DEF SlowInv, Running, PollEnds, EchoComes, At, Listening
  <2> QED
    BY <2>1, <2>3, <2>4 DEF SlowInv, SlowPingsAnswered
<1>4. CASE EchoUp \/ Check \/ Doze \/ Log \/ MU_SendMsg \/ Echoed
  <2>1. UNCHANGED <<toM, toL, buf, rx, tool, ehist>>
    BY <1>4 DEF EchoUp, Check, Doze, Log, MU_SendMsg, Echoed, echoVars, firmVars, tools
  <2>2. /\ ready' => ready
        /\ pc \notin {"wfi", "send"}
        /\ ready /\ pc \in {"check", "print"} => ready' /\ pc' \in {"print", "send"}
    BY <1>1, <1>4 DEF EchoUp, EptUp, Check, Doze, Log, MU_SendMsg, Echoed, uart4_puts, echoVars, firmVars
  <2>3. OnlyChar'
    BY <2>1, <2>2 DEF SlowInv, OnlyChar, At
  <2>4. Running'
    <3>1. Listening => Listening'
      BY <1>0, StillListening
    <3> QED
      BY <2>1, <3>1 DEF SlowInv, Running, At
  <2>5. PollEnds'
    BY <2>1, <2>2 DEF SlowInv, PollEnds, EchoComes, At
  <2> QED
    BY <2>1, <2>3, <2>4, <2>5 DEF SlowInv, SlowPingsAnswered
<1>5. CASE Send
  <2>1. /\ pc = "send" /\ image = "echo" /\ toL' = [toL EXCEPT ![to] = Append(@, buf)]
        /\ UNCHANGED <<toM, ready, buf, rx, tool>>
        /\ ehist'.slow = ehist.slow /\ ehist'.alone = ehist.alone /\ ehist'.stalled = ehist.stalled
    BY <1>0, <1>5 DEF Send, firmVars, tools
  <2>2. Listening /\ Listening'
    BY <1>0, <2>1, StillListening DEF Listening
  <2>3. OnlyChar' /\ Running' /\ SlowPingsAnswered'
    BY <2>1, <2>2 DEF SlowInv, OnlyChar, Running, SlowPingsAnswered, At
  <2>4. ready /\ to = buf.from /\ buf \in Pings
    BY <2>1 DEF EInv, BufferIsNew, EchoTypes
  <2>5. CASE to = "char"
    <3>1. toL'["char"] = Append(toL["char"], buf) /\ toL["char"] \in Seq(Pings)
      BY <1>0, <2>1, <2>5 DEF Tools
    <3>2. toL'["char"] # <<>>
      BY <2>4, <3>1
    <3> QED
      BY <2>3, <3>2 DEF SlowInv, PollEnds, EchoComes
  <2>6. CASE to # "char"
    <3>1. ~ehist.alone
      BY <2>4, <2>6 DEF SlowInv, OnlyChar
    <3> QED
      BY <2>1, <2>3, <3>1 DEF SlowInv, PollEnds
  <2> QED
    BY <2>5, <2>6
<1> QED
  BY <1>2, <1>3, <1>4, <1>5 DEF Firmware, Main

LEMMA DeliverSlow == ASSUME EInv, RttInv, SlowInv, Deliver PROVE SlowInv'
<1>1. /\ UNCHANGED <<toM, ready, buf, tool, ehist>> /\ kick
      /\ toL' = NothingFor
      /\ rx' = [t \in Tools |-> IF At(t) = "off" THEN <<>> ELSE rx[t] \o toL[t]]
      /\ (pc' = pc \/ (pc = "wfi" /\ pc' = "check"))
  BY WakesIs DEF Deliver, baseVars, firmVars
<1>2. rx["char"] \in Seq(Pings) /\ toL["char"] \in Seq(Pings) /\ "char" \in Tools
  BY DEF RttInv, CharTypes, Tools
<1>3. toL'["char"] = <<>>
  BY <1>1, <1>2 DEF NothingFor
<1>4. rx'["char"] # <<>> => rx["char"] # <<>> \/ toL["char"] # <<>>
  BY <1>1, <1>2
<1>5. At("char") # "off" /\ (rx["char"] # <<>> \/ toL["char"] # <<>>) => rx'["char"] # <<>>
  BY <1>1, <1>2
<1>6. OnlyChar' /\ SlowPingsAnswered'
  BY <1>1 DEF SlowInv, OnlyChar, SlowPingsAnswered, At
<1>7. Running'
  <2>1. Listening => Listening'
    BY StillListening DEF EchoNext
  <2> QED
    BY <1>1, <1>3, <1>4, <2>1 DEF SlowInv, Running, At
<1>8. PollEnds'
  BY <1>1, <1>5 DEF SlowInv, PollEnds, EchoComes, At
<1> QED
  BY <1>6, <1>7, <1>8 DEF SlowInv

\* A tool writes or reads.
LEMMA CharSlow == ASSUME EInv, RttInv, SlowInv, Char PROVE SlowInv'
<1>0. /\ DOMAIN ehist = {"slow", "alone", "pings", "last", "garbled", "gaveUp", "stalled", "wrong"}
      /\ "char" \in Tools /\ "tty" \in Tools \ {"char"} /\ CharTypes
      /\ DOMAIN tool["char"] = {"at", "ping", "n"} /\ DOMAIN ToolOff = {"at", "ping", "n"}
      /\ ToolOff.at = "off" /\ <<>> \in Seq(Pings) /\ rx["char"] \in Seq(Pings)
      /\ (rx["char"] # <<>> => Tail(rx["char"]) \in Seq(Pings)) /\ ehist.pings \in Nat
  BY DEF EInv, EchoTypes, RttInv, CharTypes, Tools, ToolOff
<1>1. UNCHANGED <<image, pc, toL, kick, ready, buf>> /\ (Listening => Listening')
  BY DEF Char, CharStart, CharWarm, CharPing, CharRead, CharGivesUp, baseVars, firmVars, Listening
<1>2. \E f : Set("char", f)
  BY DEF Char, CharStart, CharWarm, CharPing, CharRead, CharGivesUp, Write, Step, Finish
<1>3. tool'["tty"] = tool["tty"]
  BY <1>0, <1>2, NewTypes
<1>4. /\ ehist'.slow = ehist.slow /\ ehist'.alone = ehist.alone
      /\ ~CharGivesUp => ehist'.stalled = ehist.stalled
  BY <1>0 DEF Char, CharStart, CharWarm, CharPing, CharRead, CharGivesUp, Pinged
<1>5. \A k \in 1..Len(toM') : toM'[k].from # "char" => k \in 1..Len(toM) /\ toM'[k] = toM[k]
  <2> DEFINE ping == [from |-> "char", id |-> ehist.pings + 1]
  <2>1. toM \in Seq(Pings) /\ ping \in Pings /\ ping.from = "char"
    BY <1>0 DEF EInv, EchoTypes, Pings, Tools
  <2>2. toM' = toM \/ toM' = Append(toM, ping)
    BY DEF Char, CharStart, CharWarm, CharPing, CharRead, CharGivesUp, Write, baseVars
  <2> HIDE DEF ping
  <2> QED
    BY <2>1, <2>2, AppendIs
<1>6. OnlyChar'
  BY <1>1, <1>3, <1>4, <1>5 DEF SlowInv, OnlyChar, At
<1>7. CASE CharStart
  <2>1. Write("char", [ToolOff EXCEPT !.at = "warm"]) /\ rx' = rx
    BY <1>7 DEF CharStart
  <2>2. tool'["char"].at = "warm"
    <3>1. Set("char", [[ToolOff EXCEPT !.at = "warm"] EXCEPT !.ping = ehist.pings + 1])
      BY <2>1 DEF Write
    <3>2. tool'["char"] = [[ToolOff EXCEPT !.at = "warm"] EXCEPT !.ping = ehist.pings + 1]
      BY <1>0, <3>1, NewTypes
    <3> QED
      BY <1>0, <3>2
  <2>3. Running' /\ PollEnds'
    BY <1>1, <2>1, <2>2 DEF SlowInv, Running, PollEnds, At
  <2> QED
    BY <1>4, <1>6, <1>7, <2>3 DEF SlowInv, SlowPingsAnswered, CharStart, CharGivesUp
<1>8. CASE CharPing
  <2>1. /\ At("char") = "next" /\ (ehist.slow => Quiet) /\ rx' = rx
        /\ toM' = Append(toM, [from |-> "char", id |-> ehist.pings + 1])
    BY <1>8 DEF CharPing, Pauses, Write
  <2>2. Listening
    BY <2>1 DEF SlowInv, Running
  <2>3. toM' # <<>>
    BY <2>1 DEF EInv, EchoTypes
  <2>4. ehist.slow => pc = "wfi" /\ ~kick
    BY <2>1, <2>2 DEF Quiet
  <2>5. Running' /\ PollEnds'
    BY <1>1, <1>4, <2>2, <2>3, <2>4 DEF Running, PollEnds, EchoComes
  <2>6. ~CharGivesUp
    BY <2>1 DEF CharGivesUp
  <2> QED
    BY <1>4, <1>6, <2>5, <2>6 DEF SlowInv, SlowPingsAnswered
<1>9. CASE CharWarm \/ CharRead
  <2>1. rx["char"] # <<>> /\ ~CharGivesUp
    BY <1>9 DEF CharWarm, CharRead, CharGivesUp
  <2>2. Listening'
    BY <1>1, <2>1 DEF SlowInv, Running
  <2>3. tool'["char"].at \in {"next", "off"}
    <3>1. \/ Set("char", [tool["char"] EXCEPT !.at = "next"])
          \/ Set("char", ToolOff)
          \/ Set("char", [tool["char"] EXCEPT !.at = "next", !.n = @ + 1])
      BY <1>9 DEF CharWarm, CharRead, Step, Finish
    <3>2. \/ tool'["char"] = [tool["char"] EXCEPT !.at = "next"]
          \/ tool'["char"] = ToolOff
          \/ tool'["char"] = [tool["char"] EXCEPT !.at = "next", !.n = @ + 1]
      BY <1>0, <3>1, NewTypes
    <3> QED
      BY <1>0, <3>2
  <2>4. Running' /\ PollEnds'
    BY <2>2, <2>3 DEF Running, PollEnds, At
  <2> QED
    BY <1>4, <1>6, <2>1, <2>4 DEF SlowInv, SlowPingsAnswered
<1>10. CASE CharGivesUp
  <2>1. /\ rx["char"] = <<>> /\ Quiet /\ Set("char", ToolOff) /\ rx' = [rx EXCEPT !["char"] = <<>>]
        /\ ehist' = [ehist EXCEPT !.gaveUp = TRUE, !.stalled = @ \/ At("char") = "poll"]
    BY <1>10 DEF CharGivesUp, Finish
  <2>2. tool'["char"].at = "off" /\ rx'["char"] = <<>>
    BY <1>0, <2>1, NewTypes
  <2>3. toL["char"] = <<>>
    BY <1>0, <2>1 DEF Quiet, NothingFor
  <2>4. Running' /\ PollEnds'
    BY <1>1, <2>2, <2>3 DEF Running, PollEnds, At
  <2>5. ehist.slow /\ ehist.alone => At("char") # "poll"
    <3>1. SUFFICES ASSUME EchoComes, At("char") = "poll" PROVE FALSE
      BY DEF SlowInv, PollEnds
    <3>2. Listening
      BY <3>1 DEF SlowInv, Running
    <3> QED
      BY <2>1, <2>3, <3>1, <3>2 DEF EchoComes, Quiet
  <2>6. ehist.slow /\ ehist.alone => ~ehist'.stalled
    <3>1. ehist.slow /\ ehist.alone => ~ehist.stalled
      BY DEF SlowInv, SlowPingsAnswered
    <3>2. ehist'.stalled = (ehist.stalled \/ At("char") = "poll")
      BY <1>0, <2>1
    <3> QED
      BY <2>5, <3>1, <3>2
  <2>7. SlowPingsAnswered'
    BY <1>4, <2>6 DEF SlowPingsAnswered
  <2> QED
    BY <1>6, <2>4, <2>7 DEF SlowInv
<1> QED
  BY <1>7, <1>8, <1>9, <1>10 DEF Char

LEMMA TtySlow == ASSUME EInv, RttInv, SlowInv, Tty PROVE SlowInv'
<1>0. /\ DOMAIN ehist = {"slow", "alone", "pings", "last", "garbled", "gaveUp", "stalled", "wrong"}
      /\ "tty" \in Tools /\ "char" \in Tools \ {"tty"} /\ CharTypes
      /\ rx \in [Tools -> Seq(Pings)]
  BY DEF EInv, EchoTypes, RttInv, CharTypes, Tools
<1>1. UNCHANGED <<image, pc, toL>> /\ (Listening => Listening')
  BY DEF Tty, TtyStart, TtyRead, TtyPing, TtyEnds, baseVars, Listening
<1>2. tool'["char"] = tool["char"] /\ rx'["char"] = rx["char"]
  <2>1. (\E f : Set("tty", f)) /\ (rx' = rx \/ \E q : rx' = [rx EXCEPT !["tty"] = q])
    BY DEF Tty, TtyStart, TtyRead, TtyPing, TtyEnds, Write, Finish, Step
  <2> QED
    BY <1>0, <2>1, NewTypes
<1>3. Running'
  BY <1>1, <1>2 DEF SlowInv, Running, At
<1>4. ~ehist'.alone
  <2>1. CASE TtyStart
    BY <1>0, <2>1 DEF TtyStart, Pinged
  <2>2. CASE ~TtyStart
    <3>1. ~ehist.alone
      BY <2>2 DEF Tty, TtyRead, TtyPing, TtyEnds, SlowInv, OnlyChar
    <3> QED
      BY <1>0, <2>2, <3>1 DEF Tty, TtyRead, TtyPing, TtyEnds, Pinged
  <2> QED
    BY <2>1, <2>2
<1> QED
  BY <1>3, <1>4 DEF SlowInv, OnlyChar, PollEnds, SlowPingsAnswered

LEMMA FreshSlow ==
  ASSUME NEW slow, toM' = <<>>, toL' = NothingFor, rx' = NothingFor, ready' = FALSE,
         tool' = [t \in Tools |-> ToolOff], ehist' = NoHistory(slow)
  PROVE  SlowInv'
<1>1. 1..Len(toM') = {} /\ \A t \in Tools : tool'[t].at = "off" /\ rx'[t] = <<>> /\ toL'[t] = <<>>
  BY DEF NothingFor, ToolOff
<1>2. ~ehist'.stalled
  BY DEF NoHistory
<1> QED
  BY <1>1, <1>2 DEF SlowInv, OnlyChar, Running, PollEnds, SlowPingsAnswered, At, Tools

LEMMA FreshSlowNow ==
  ASSUME NEW slow, toM = <<>>, toL = NothingFor, rx = NothingFor, ready = FALSE,
         tool = [t \in Tools |-> ToolOff], ehist = NoHistory(slow)
  PROVE  SlowInv
<1>1. 1..Len(toM) = {} /\ \A t \in Tools : tool[t].at = "off" /\ rx[t] = <<>> /\ toL[t] = <<>>
  BY DEF NothingFor, ToolOff
<1>2. ~ehist.stalled
  BY DEF NoHistory
<1> QED
  BY <1>1, <1>2 DEF SlowInv, OnlyChar, Running, PollEnds, SlowPingsAnswered, At, Tools

LEMMA NextSlow == ASSUME EInv, RttInv, SlowInv, [BenchNext]_benchVars PROVE SlowInv'
<1>1. CASE LoadImage
  <2>1. /\ toM' = <<>> /\ toL' = NothingFor /\ rx' = NothingFor /\ ready' = FALSE
        /\ tool' = [t \in Tools |-> ToolOff] /\ ehist' = NoHistory(ehist.slow)
    BY <1>1 DEF LoadImage, EchoReset, CharBroken, TtyBroken
  <2> QED
    BY <2>1, FreshSlow
<1>2. CASE EchoNext
  BY <1>2, FirmwareSlow, DeliverSlow, CharSlow, TtySlow DEF EchoNext
<1>3. CASE ~LoadImage /\ ~EchoNext
  <2>1. UNCHANGED echoVars /\ image' = image
    BY <1>3, CanBase, ConBase DEF BenchNext, benchVars, baseVars, ComesUp, Uarts, HelloClock, HelloUart,
       UartTestClock, UartTestUart, EchoClock, EchoUart, OpenUart, SetUpUart, ClkTest, ClkTestGate,
       ClkTestCcm, ClkTestEcspi, Rpmsg, CanSimStart, Malloc, EchoInitFails, CanSimInitFails, LinkUp
  <2> QED
    BY <1>3, <2>1, Elsewhere, SlowStill DEF echoVars, firmVars, tools
<1> QED
  BY <1>1, <1>2, <1>3

\* A lone rpmsg-char-rtt with RTT_SLOW never misses an echo: it pings when the firmware
\* is asleep and nothing is under way, so that the interrupt ends the wfi with the
\* buffer full. (rx_cb drops what comes meanwhile, and what comes between the check of
\* msg_ready and the wfi sleeps on.)
THEOREM SlowPings == BenchSpec => []SlowPingsAnswered
<1>1. ASSUME BenchInit PROVE RttInv /\ SlowInv
  <2>1. /\ toM = <<>> /\ toL = NothingFor /\ rx = NothingFor /\ ready = FALSE
        /\ tool = [t \in Tools |-> ToolOff] /\ \E slow \in BOOLEAN : ehist = NoHistory(slow)
    BY <1>1 DEF BenchInit, EchoInit
  <2> QED
    BY <2>1, FreshRttNow, FreshSlowNow
<1>2. SlowInv => SlowPingsAnswered
  BY DEF SlowInv
<1>3. BenchSpec => []EInv
  BY InitEInv, NextEInv, PTL DEF BenchSpec
<1>4. BenchSpec => []RttInv
  BY <1>1, <1>3, NextRtt, PTL DEF BenchSpec
<1> QED
  BY <1>1, <1>2, <1>3, <1>4, NextSlow, PTL DEF BenchSpec
-----------------------------------------------------------------------------
(* The console. What was printed and the host has not read is on its way, in   *)
(* its order, or was thrown away.                                           *)

Ascends(s) == \A j, k \in 1..Len(s) : j < k => s[j] < s[k]
Precede(S, T) == \A a \in S, b \in T : a < b

ConTypes ==
  /\ fifo \in Seq(Nat) /\ uart \in Seq(Nat) /\ pool \in Seq(Nat)
  /\ Len(fifo) <= FifoLen
  /\ DOMAIN chist = {"printed", "got", "lost", "hole"}
  /\ chist.printed \in Nat /\ chist.got \in Nat /\ chist.got <= chist.printed

InOrder ==
  /\ Ascends(pool) /\ Ascends(uart) /\ Ascends(fifo)
  /\ Precede(ToSet(pool), ToSet(uart)) /\ Precede(ToSet(pool), ToSet(fifo))
  /\ Precede(ToSet(uart), ToSet(fifo))
  /\ \A c \in ToSet(pool) \cup ToSet(uart) \cup ToSet(fifo) : chist.got < c /\ c <= chist.printed

NoGap ==
  \A c \in Nat : chist.got < c /\ c <= chist.printed =>
    c \in chist.lost \cup ToSet(pool) \cup ToSet(uart) \cup ToSet(fifo)

LineInv == ConTypes /\ InOrder /\ NoGap /\ NothingSlips

LEMMA CharsOf ==
  ASSUME NEW s \in Seq(Nat)
  PROVE  /\ ToSet(s) \subseteq Nat /\ Len(s) \in Nat
         /\ \A c : c \in ToSet(s) <=> \E k \in 1..Len(s) : s[k] = c
<1>1. DOMAIN s = 1..Len(s) /\ Len(s) \in Nat /\ \A k \in 1..Len(s) : s[k] \in Nat
  OBVIOUS
<1> QED
  BY <1>1 DEF ToSet

LEMMA NoChar == <<>> \in Seq(Nat) /\ ToSet(<<>>) = {} /\ Ascends(<<>>)
<1>1. <<>> \in Seq(Nat) /\ 1..Len(<<>>) = {}
  OBVIOUS
<1> QED
  BY <1>1, CharsOf DEF Ascends

LEMMA AppendChar ==
  ASSUME NEW s \in Seq(Nat), NEW c \in Nat, Ascends(s), \A a \in ToSet(s) : a < c
  PROVE  /\ Append(s, c) \in Seq(Nat) /\ Ascends(Append(s, c))
         /\ ToSet(Append(s, c)) = ToSet(s) \cup {c}
<1>1. /\ Append(s, c) \in Seq(Nat) /\ Len(s) \in Nat /\ Len(Append(s, c)) = Len(s) + 1
      /\ Append(s, c)[Len(s) + 1] = c /\ \A k \in 1..Len(s) : Append(s, c)[k] = s[k]
  OBVIOUS
<1>2. \A k \in 1..Len(s) : s[k] < c
  BY CharsOf
<1>3. Ascends(Append(s, c))
  BY <1>1, <1>2 DEF Ascends
<1>4. \A x : x \in ToSet(Append(s, c)) <=> x \in ToSet(s) \cup {c}
  <2>1. \A k \in 1..Len(s) + 1 : k \in 1..Len(s) \/ k = Len(s) + 1
    BY <1>1
  <2>2. Len(s) + 1 \in 1..Len(s) + 1 /\ 1..Len(s) \subseteq 1..Len(s) + 1
    BY <1>1
  <2>3. /\ \A x : x \in ToSet(s) <=> \E k \in 1..Len(s) : s[k] = x
        /\ \A x : x \in ToSet(Append(s, c)) <=> \E k \in 1..Len(s) + 1 : Append(s, c)[k] = x
    BY <1>1, CharsOf
  <2>4. \A x : x \in ToSet(Append(s, c)) => x \in ToSet(s) \cup {c}
    BY <1>1, <2>1, <2>3
  <2>5. \A x : x \in ToSet(s) \cup {c} => x \in ToSet(Append(s, c))
    BY <1>1, <2>2, <2>3
  <2> QED
    BY <2>4, <2>5
<1> QED
  BY <1>1, <1>3, <1>4

LEMMA TailChar ==
  ASSUME NEW s \in Seq(Nat), s # <<>>, Ascends(s)
  PROVE  /\ Tail(s) \in Seq(Nat) /\ Ascends(Tail(s)) /\ Head(s) \in Nat
         /\ ToSet(s) = {Head(s)} \cup ToSet(Tail(s)) /\ \A c \in ToSet(Tail(s)) : Head(s) < c
<1>1. /\ Tail(s) \in Seq(Nat) /\ Len(s) \in Nat /\ Len(s) >= 1 /\ Len(Tail(s)) = Len(s) - 1
      /\ Head(s) = s[1] /\ Head(s) \in Nat
      /\ \A k \in 1..Len(Tail(s)) : Tail(s)[k] = s[k + 1] /\ k + 1 \in 1..Len(s) /\ 1 < k + 1
  OBVIOUS
<1>2. Ascends(Tail(s))
  <2>1. ASSUME NEW j \in 1..Len(Tail(s)), NEW k \in 1..Len(Tail(s)), j < k
        PROVE  Tail(s)[j] < Tail(s)[k]
    <3>1. j + 1 \in 1..Len(s) /\ k + 1 \in 1..Len(s) /\ j + 1 < k + 1
      BY <1>1, <2>1
    <3> QED
      BY <1>1, <3>1 DEF Ascends
  <2> QED
    BY <2>1 DEF Ascends
<1>3. \A c \in ToSet(Tail(s)) : Head(s) < c
  <2>1. 1 \in 1..Len(s)
    BY <1>1
  <2>2. \A k \in 1..Len(Tail(s)) : Head(s) < Tail(s)[k]
    BY <1>1, <2>1 DEF Ascends
  <2> QED
    BY <1>1, <2>2, CharsOf
<1>4. \A c : c \in ToSet(s) <=> c \in {Head(s)} \cup ToSet(Tail(s))
  <2>1. \A k \in 1..Len(s) : k = 1 \/ (k - 1 \in 1..Len(Tail(s)) /\ (k - 1) + 1 = k)
    BY <1>1
  <2>2. 1 \in 1..Len(s)
    BY <1>1
  <2>3. \A k \in 1..Len(s) : s[k] = Head(s) \/ \E j \in 1..Len(Tail(s)) : Tail(s)[j] = s[k]
    BY <1>1, <2>1
  <2>0. /\ \A c : c \in ToSet(s) <=> \E k \in 1..Len(s) : s[k] = c
        /\ \A c : c \in ToSet(Tail(s)) <=> \E k \in 1..Len(Tail(s)) : Tail(s)[k] = c
    BY <1>1, CharsOf
  <2>4. \A c : c \in ToSet(s) => c \in {Head(s)} \cup ToSet(Tail(s))
    BY <2>0, <2>3
  <2>5. \A c : c \in {Head(s)} \cup ToSet(Tail(s)) => c \in ToSet(s)
    BY <1>1, <2>0, <2>2
  <2> QED
    BY <2>4, <2>5
<1> QED
  BY <1>1, <1>2, <1>3, <1>4

\* Two ends of a sequence
LEMMA CutChars ==
  ASSUME NEW s \in Seq(Nat), NEW m \in 0..Len(s), Ascends(s)
  PROVE  LET a == SubSeq(s, 1, m)
             b == SubSeq(s, m + 1, Len(s))
         IN /\ a \in Seq(Nat) /\ b \in Seq(Nat) /\ Len(a) = m /\ Ascends(a) /\ Ascends(b)
            /\ ToSet(s) = ToSet(a) \cup ToSet(b) /\ Precede(ToSet(a), ToSet(b))
<1> DEFINE a == SubSeq(s, 1, m)
           b == SubSeq(s, m + 1, Len(s))
<1>1. /\ Len(s) \in Nat /\ m \in Nat /\ m <= Len(s) /\ a \in Seq(Nat) /\ b \in Seq(Nat)
      /\ Len(a) = m /\ Len(b) = Len(s) - m
      /\ \A k \in 1..m : a[k] = s[k] /\ k \in 1..Len(s)
      /\ \A k \in 1..Len(s) - m : b[k] = s[k + m] /\ k + m \in 1..Len(s)
  OBVIOUS
<1> HIDE DEF a, b
<1>2. Ascends(a)
  BY <1>1 DEF Ascends
<1>3. Ascends(b)
  <2>1. ASSUME NEW j \in 1..Len(b), NEW k \in 1..Len(b), j < k PROVE b[j] < b[k]
    <3>1. j + m \in 1..Len(s) /\ k + m \in 1..Len(s) /\ j + m < k + m
      BY <1>1, <2>1
    <3> QED
      BY <1>1, <3>1 DEF Ascends
  <2> QED
    BY <2>1 DEF Ascends
<1>0. /\ \A c : c \in ToSet(s) <=> \E k \in 1..Len(s) : s[k] = c
      /\ \A c : c \in ToSet(a) <=> \E k \in 1..Len(a) : a[k] = c
      /\ \A c : c \in ToSet(b) <=> \E k \in 1..Len(b) : b[k] = c
  BY <1>1, CharsOf
<1>4. \A c : c \in ToSet(s) <=> c \in ToSet(a) \cup ToSet(b)
  <2>1. \A k \in 1..Len(s) : k \in 1..m \/ (k - m \in 1..Len(s) - m /\ (k - m) + m = k)
    BY <1>1
  <2>2. ASSUME NEW k \in 1..Len(s) PROVE s[k] \in ToSet(a) \cup ToSet(b)
    <3>1. CASE k \in 1..m
      <4>1. a[k] = s[k] /\ k \in 1..Len(a)
        BY <1>1, <3>1
      <4> QED
        BY <1>0, <4>1
    <3>2. CASE k \notin 1..m
      <4>1. b[k - m] = s[k] /\ k - m \in 1..Len(b)
        BY <1>1, <2>1, <3>2
      <4> QED
        BY <1>0, <4>1
    <3> QED
      BY <3>1, <3>2
  <2>3. \A c : c \in ToSet(s) => c \in ToSet(a) \cup ToSet(b)
    BY <1>0, <2>2
  <2>4. \A c : c \in ToSet(a) \cup ToSet(b) => c \in ToSet(s)
    <3>1. \A k \in 1..Len(a) : a[k] = s[k] /\ k \in 1..Len(s)
      BY <1>1
    <3>2. \A k \in 1..Len(b) : b[k] = s[k + m] /\ k + m \in 1..Len(s)
      BY <1>1
    <3> QED
      BY <1>0, <3>1, <3>2
  <2> QED
    BY <2>3, <2>4
<1>5. Precede(ToSet(a), ToSet(b))
  <2>1. \A j \in 1..m, k \in 1..Len(s) - m : j < k + m
    BY <1>1
  <2>2. \A j \in 1..Len(a), k \in 1..Len(b) : a[j] < b[k]
    BY <1>1, <2>1 DEF Ascends
  <2> QED
    BY <1>0, <2>2 DEF Precede
<1> QED
  BY <1>1, <1>2, <1>3, <1>4, <1>5 DEF a, b

LEMMA JoinChars ==
  ASSUME NEW s \in Seq(Nat), NEW t \in Seq(Nat), Ascends(s), Ascends(t), Precede(ToSet(s), ToSet(t))
  PROVE  /\ s \o t \in Seq(Nat) /\ Len(s \o t) = Len(s) + Len(t) /\ Ascends(s \o t)
         /\ ToSet(s \o t) = ToSet(s) \cup ToSet(t)
<1> DEFINE u == s \o t
<1>1. /\ u \in Seq(Nat) /\ Len(s) \in Nat /\ Len(t) \in Nat /\ Len(u) = Len(s) + Len(t)
      /\ \A k \in 1..Len(s) : u[k] = s[k] /\ k \in 1..Len(u)
      /\ \A k \in 1..Len(t) : u[Len(s) + k] = t[k] /\ Len(s) + k \in 1..Len(u)
  OBVIOUS
<1> HIDE DEF u
<1>2. \A k \in 1..Len(u) :
        \/ k \in 1..Len(s) /\ u[k] = s[k]
        \/ k > Len(s) /\ k - Len(s) \in 1..Len(t) /\ u[k] = t[k - Len(s)]
  <2>1. ASSUME NEW k \in 1..Len(u), k > Len(s)
        PROVE  k - Len(s) \in 1..Len(t) /\ Len(s) + (k - Len(s)) = k
    BY <1>1, <2>1
  <2>2. \A k \in 1..Len(u) : k > Len(s) \/ k \in 1..Len(s)
    BY <1>1
  <2> QED
    BY <1>1, <2>1, <2>2
<1>3. \A j \in 1..Len(s), k \in 1..Len(t) : s[j] < t[k]
  BY CharsOf DEF Precede
<1>4. Ascends(u)
  <2>1. ASSUME NEW j \in 1..Len(u), NEW k \in 1..Len(u), j < k PROVE u[j] < u[k]
    <3>1. CASE k \in 1..Len(s)
      <4>1. j \in 1..Len(s)
        BY <1>1, <2>1, <3>1
      <4> QED
        BY <1>1, <2>1, <3>1, <4>1 DEF Ascends
    <3>2. CASE k > Len(s) /\ j \in 1..Len(s)
      <4>1. k - Len(s) \in 1..Len(t) /\ u[k] = t[k - Len(s)]
        BY <1>1, <1>2, <3>2
      <4>2. u[j] = s[j]
        BY <1>1, <3>2
      <4> QED
        BY <1>3, <3>2, <4>1, <4>2
    <3>3. CASE k > Len(s) /\ j > Len(s)
      <4>1. j - Len(s) \in 1..Len(t) /\ k - Len(s) \in 1..Len(t) /\ j - Len(s) < k - Len(s)
            /\ u[j] = t[j - Len(s)] /\ u[k] = t[k - Len(s)]
        BY <1>1, <1>2, <2>1, <3>3
      <4> QED
        BY <4>1 DEF Ascends
    <3> QED
      BY <1>1, <3>1, <3>2, <3>3
  <2> QED
    BY <2>1 DEF Ascends
<1>5. \A c : c \in ToSet(u) <=> c \in ToSet(s) \cup ToSet(t)
  <2>0. /\ \A c : c \in ToSet(u) <=> \E k \in 1..Len(u) : u[k] = c
        /\ \A c : c \in ToSet(s) <=> \E k \in 1..Len(s) : s[k] = c
        /\ \A c : c \in ToSet(t) <=> \E k \in 1..Len(t) : t[k] = c
    BY <1>1, CharsOf
  <2>1. \A c : c \in ToSet(u) => c \in ToSet(s) \cup ToSet(t)
    BY <1>2, <2>0
  <2>2. \A c : c \in ToSet(s) \cup ToSet(t) => c \in ToSet(u)
    BY <1>1, <2>0
  <2> QED
    BY <2>1, <2>2
<1> QED
  BY <1>1, <1>4, <1>5 DEF u

LEMMA LeastOf3 ==
  ASSUME NEW a \in Int, NEW b \in Int, NEW d \in Int
  PROVE  LET n == Least({a, b, d}) IN n \in Int /\ n <= a /\ n <= b /\ n <= d
<1>1. \E n \in {a, b, d} : \A k \in {a, b, d} : n <= k
  <2>1. CASE a <= b /\ a <= d
    BY <2>1
  <2>2. CASE b <= a /\ b <= d
    BY <2>2
  <2>3. CASE d <= a /\ d <= b
    BY <2>3
  <2> QED
    BY <2>1, <2>2, <2>3
<1>2. Least({a, b, d}) \in {a, b, d} /\ \A k \in {a, b, d} : Least({a, b, d}) <= k
  BY <1>1 DEF Least
<1> QED
  BY <1>2

LEMMA LeastOf2 ==
  ASSUME NEW a \in Int, NEW b \in Int, a <= b
  PROVE  Least({a, b}) = a
<1>1. \E n \in {a, b} : \A k \in {a, b} : n <= k
  OBVIOUS
<1>2. Least({a, b}) \in {a, b} /\ \A k \in {a, b} : Least({a, b}) <= k
  BY <1>1 DEF Least
<1> QED
  BY <1>2

\* What is thrown away is lost, and nothing else.
LEMMA LosesIs ==
  ASSUME LineInv, NEW s, Loses(s)
  PROVE  /\ DOMAIN chist' = DOMAIN chist /\ chist'.printed = chist.printed /\ chist'.got = chist.got
         /\ chist'.hole = chist.hole /\ chist'.lost = chist.lost \cup ToSet(s)
  BY DEF LineInv, ConTypes, Loses

\* Nothing changes but which of the buffers the characters are in.
LEMMA LineStill == ASSUME LineInv, UNCHANGED <<fifo, uart, pool, chist>> PROVE LineInv'
<1>1. ConTypes' /\ InOrder' /\ NothingSlips'
  BY DEF LineInv, ConTypes, InOrder, NothingSlips
<1>2. NoGap'
  BY DEF LineInv, NoGap
<1> QED
  BY <1>1, <1>2 DEF LineInv

LEMMA EmptyLine ==
  ASSUME fifo' = <<>>, uart' = <<>>, pool' = <<>>, chist' = NoChars PROVE LineInv'
<1>1. DOMAIN chist' = {"printed", "got", "lost", "hole"} /\ chist'.printed = 0 /\ chist'.got = 0 /\ ~chist'.hole
      /\ Len(fifo') = 0 /\ FifoLen \in Nat
  BY M4ConsoleAssumption DEF NoChars
<1>2. ConTypes' /\ InOrder' /\ NothingSlips'
  BY <1>1, NoChar DEF ConTypes, InOrder, Precede, NothingSlips
<1>3. NoGap'
  BY <1>1 DEF NoGap
<1> QED
  BY <1>2, <1>3 DEF LineInv

LEMMA EmptyLineNow ==
  ASSUME fifo = <<>>, uart = <<>>, pool = <<>>, chist = NoChars PROVE LineInv
<1>1. DOMAIN chist = {"printed", "got", "lost", "hole"} /\ chist.printed = 0 /\ chist.got = 0 /\ ~chist.hole
      /\ Len(fifo) = 0 /\ FifoLen \in Nat
  BY M4ConsoleAssumption DEF NoChars
<1>2. ConTypes /\ InOrder /\ NothingSlips
  BY <1>1, NoChar DEF ConTypes, InOrder, Precede, NothingSlips
<1>3. NoGap
  BY <1>1 DEF NoGap
<1> QED
  BY <1>2, <1>3 DEF LineInv

\* The firmware is stopped with characters in the FIFO, or nobody watches any more.
LEMMA ResetLine == ASSUME LineInv, ConReset PROVE LineInv'
<1>1. CASE Prints(image) /\ Prints(image')
  <2>1. fifo' = <<>> /\ Loses(fifo) /\ UNCHANGED <<uart, pool>>
    BY <1>1 DEF ConReset
  <2>0. Len(fifo') <= FifoLen
    BY <2>1, M4ConsoleAssumption
  <2>2. ConTypes' /\ InOrder' /\ NothingSlips'
    BY <2>0, <2>1, LosesIs, NoChar DEF LineInv, ConTypes, InOrder, Precede, NothingSlips
  <2>3. NoGap'
    BY <2>1, LosesIs, NoChar DEF LineInv, NoGap
  <2> QED
    BY <2>2, <2>3 DEF LineInv
<1>2. CASE ~(Prints(image) /\ Prints(image'))
  BY <1>2, EmptyLine DEF ConReset
<1> QED
  BY <1>1, <1>2

\* A new character is behind all others.
LEMMA PutLine == ASSUME LineInv, uart4_putc PROVE LineInv'
<1> DEFINE c == chist.printed + 1
<1>1. /\ fifo \in Seq(Nat) /\ FifoLen \in Nat /\ chist.printed \in Nat /\ c \in Nat /\ chist.got \in Nat
      /\ DOMAIN chist = {"printed", "got", "lost", "hole"}
  BY M4ConsoleAssumption DEF LineInv, ConTypes
<1>2. chist' = [chist EXCEPT !.printed = @ + 1] /\ uart' = uart /\ pool' = pool
  BY DEF uart4_putc
<1>3. /\ DOMAIN chist' = DOMAIN chist /\ chist'.printed = c /\ chist'.got = chist.got
      /\ chist'.hole = chist.hole /\ chist'.lost = chist.lost
  BY <1>1, <1>2
<1>4. fifo' = Append(fifo, c)
  <2>1. Len(fifo) \in Nat /\ Len(fifo) <= FifoLen /\ Len(fifo) # FifoLen
    BY <1>1 DEF uart4_putc, TxFull, LineInv, ConTypes
  <2>2. Len(fifo) < FifoLen
    BY <1>1, <2>1
  <2> QED
    BY <2>2 DEF uart4_putc
<1> HIDE DEF c
<1>5. \A a \in ToSet(pool) \cup ToSet(uart) \cup ToSet(fifo) : a \in Nat /\ chist.got < a /\ a <= chist.printed
  BY CharsOf DEF LineInv, ConTypes, InOrder
<1>6. chist.printed < c /\ \A a \in Nat : a <= c => a <= chist.printed \/ a = c
  BY <1>1 DEF c
<1>7. /\ fifo' \in Seq(Nat) /\ Ascends(fifo') /\ ToSet(fifo') = ToSet(fifo) \cup {c}
      /\ Len(fifo') <= FifoLen
  <2>1. \A a \in ToSet(fifo) : a < c
    BY <1>1, <1>5, <1>6
  <2>2. Ascends(fifo)
    BY DEF LineInv, InOrder
  <2>3. Len(fifo') <= FifoLen
    BY <1>1, <1>4 DEF uart4_putc, TxFull, LineInv, ConTypes
  <2> QED
    BY <1>1, <1>4, <2>1, <2>2, <2>3, AppendChar
<1>8. ConTypes' /\ NothingSlips'
  BY <1>1, <1>2, <1>3, <1>6, <1>7 DEF LineInv, ConTypes, NothingSlips
<1>9. InOrder'
  <2>1. Precede(ToSet(pool), ToSet(fifo')) /\ Precede(ToSet(uart), ToSet(fifo'))
    BY <1>1, <1>5, <1>6, <1>7 DEF LineInv, InOrder, Precede
  <2>2. \A a \in ToSet(pool) \cup ToSet(uart) \cup ToSet(fifo') : chist.got < a /\ a <= c
    <3>1. chist.got < c
      BY <1>1, <1>6 DEF LineInv, ConTypes
    <3> QED
      BY <1>1, <1>5, <1>6, <1>7, <3>1
  <2> QED
    BY <1>2, <1>3, <1>7, <2>1, <2>2 DEF LineInv, InOrder
<1>10. NoGap'
  BY <1>2, <1>3, <1>6, <1>7 DEF LineInv, NoGap
<1> QED
  BY <1>8, <1>9, <1>10 DEF LineInv

\* A character is handed over, or thrown away.
LEMMA WireLine == ASSUME LineInv, Wire PROVE LineInv'
<1> DEFINE c == Head(fifo)
<1>1. fifo \in Seq(Nat) /\ fifo # <<>> /\ fifo' = Tail(fifo) /\ pool' = pool /\ uart \in Seq(Nat)
  BY DEF Wire, LineInv, ConTypes
<1>2. /\ fifo' \in Seq(Nat) /\ Ascends(fifo') /\ c \in Nat
      /\ ToSet(fifo) = {c} \cup ToSet(fifo') /\ \A a \in ToSet(fifo') : c < a
  BY <1>1, TailChar DEF LineInv, InOrder
<1>3. Len(fifo') <= FifoLen
  BY <1>1, M4ConsoleAssumption DEF LineInv, ConTypes
<1> HIDE DEF c
<1>4. CASE Len(uart) < RxLen
  <2>1. uart' = Append(uart, c) /\ chist' = chist
    BY <1>4 DEF Wire, c
  <2>2. Ascends(uart) /\ \A a \in ToSet(uart) : a < c
    BY <1>2 DEF LineInv, InOrder, Precede
  <2>3. uart' \in Seq(Nat) /\ Ascends(uart') /\ ToSet(uart') = ToSet(uart) \cup {c}
    BY <1>1, <1>2, <2>1, <2>2, AppendChar
  <2>4. ConTypes' /\ NothingSlips'
    BY <1>1, <1>2, <1>3, <2>1, <2>3 DEF LineInv, ConTypes, NothingSlips
  <2>5. InOrder'
    BY <1>1, <1>2, <2>1, <2>3 DEF LineInv, InOrder, Precede
  <2>6. NoGap'
    BY <1>1, <1>2, <2>1, <2>3 DEF LineInv, NoGap
  <2> QED
    BY <2>4, <2>5, <2>6 DEF LineInv
<1>5. CASE ~(Len(uart) < RxLen)
  <2>1. uart' = uart /\ Loses(<<c>>)
    BY <1>5 DEF Wire, c
  <2>2. ToSet(<<c>>) = {c}
    <3>1. <<c>> \in Seq(Nat) /\ Len(<<c>>) = 1 /\ <<c>>[1] = c
      BY <1>2
    <3>2. \A a : a \in ToSet(<<c>>) <=> \E k \in 1..1 : <<c>>[k] = a
      BY <3>1, CharsOf
    <3> QED
      BY <3>1, <3>2
  <2>3. ConTypes' /\ NothingSlips'
    BY <1>1, <1>2, <1>3, <2>1, LosesIs DEF LineInv, ConTypes, NothingSlips
  <2>4. InOrder'
    BY <1>1, <1>2, <2>1, LosesIs DEF LineInv, InOrder, Precede
  <2>5. NoGap'
    BY <1>1, <1>2, <2>1, <2>2, LosesIs DEF LineInv, NoGap
  <2> QED
    BY <2>3, <2>4, <2>5 DEF LineInv
<1> QED
  BY <1>4, <1>5

\* What the loop moves to USB fits there.
LEMMA PumpLine == ASSUME LineInv, pump PROVE LineInv'
<1> DEFINE m == Movable
           a == SubSeq(uart, 1, m)
           b == SubSeq(uart, m + 1, Len(uart))
<1>1. /\ uart \in Seq(Nat) /\ pool \in Seq(Nat) /\ Len(uart) \in Nat /\ Len(pool) \in Nat
      /\ PoolLen \in Nat /\ Chunk \in Nat
  BY M4ConsoleAssumption DEF LineInv, ConTypes
<1>2. m \in 0..Len(uart) /\ Len(pool) + m <= PoolLen
  <2>1. m \in Int /\ m <= Len(uart) /\ m <= PoolLen - Len(pool)
    <3>1. Len(uart) \in Int /\ PoolLen - Len(pool) \in Int /\ Chunk \in Int
      BY <1>1
    <3> QED
      BY <3>1, LeastOf3 DEF Movable
  <2>2. m > 0
    BY DEF pump
  <2> QED
    BY <1>1, <2>1, <2>2
<1>3. Ascends(uart) /\ Ascends(pool)
  BY DEF LineInv, InOrder
<1>4. /\ a \in Seq(Nat) /\ b \in Seq(Nat) /\ Len(a) = m /\ Ascends(a) /\ Ascends(b)
      /\ ToSet(uart) = ToSet(a) \cup ToSet(b) /\ Precede(ToSet(a), ToSet(b))
  BY <1>1, <1>2, <1>3, CutChars
<1>5. /\ uart' = b /\ fifo' = fifo /\ chist' = chist
      /\ pool' = SubSeq(pool \o a, 1, Least({Len(pool \o a), PoolLen}))
  BY DEF pump
<1> HIDE DEF a, b, m
<1>6. Precede(ToSet(pool), ToSet(a))
  BY <1>4 DEF LineInv, InOrder, Precede
<1>7. /\ pool \o a \in Seq(Nat) /\ Len(pool \o a) = Len(pool) + m /\ Ascends(pool \o a)
      /\ ToSet(pool \o a) = ToSet(pool) \cup ToSet(a)
  BY <1>1, <1>3, <1>4, <1>6, JoinChars
<1>8. pool' = pool \o a
  <2>1. Len(pool \o a) \in Int /\ Len(pool \o a) <= PoolLen
    BY <1>1, <1>2, <1>7
  <2>2. Least({Len(pool \o a), PoolLen}) = Len(pool \o a)
    BY <1>1, <2>1, LeastOf2
  <2>3. \A s \in Seq(Nat) : SubSeq(s, 1, Len(s)) = s
    OBVIOUS
  <2> QED
    BY <1>5, <1>7, <2>2, <2>3
<1>9. ConTypes' /\ NothingSlips'
  BY <1>4, <1>5, <1>7, <1>8 DEF LineInv, ConTypes, NothingSlips
<1>10. InOrder'
  BY <1>4, <1>5, <1>7, <1>8 DEF LineInv, InOrder, Precede
<1>11. NoGap'
  BY <1>4, <1>5, <1>7, <1>8 DEF LineInv, NoGap
<1> QED
  BY <1>9, <1>10, <1>11 DEF LineInv

LEMMA DiscardLine == ASSUME LineInv, Discard PROVE LineInv'
<1>1. uart' = <<>> /\ Loses(uart) /\ fifo' = fifo /\ pool' = pool
  BY DEF Discard
<1>2. ConTypes' /\ InOrder' /\ NothingSlips'
  BY <1>1, LosesIs, NoChar DEF LineInv, ConTypes, InOrder, Precede, NothingSlips
<1>3. NoGap'
  BY <1>1, LosesIs, NoChar DEF LineInv, NoGap
<1> QED
  BY <1>2, <1>3 DEF LineInv

\* The host reads the first that is left: all before it were read or thrown away.
LEMMA ReadLine == ASSUME LineInv, HostRead PROVE LineInv'
<1> DEFINE c == Head(pool)
<1>1. pool \in Seq(Nat) /\ pool # <<>> /\ pool' = Tail(pool) /\ fifo' = fifo /\ uart' = uart
  BY DEF HostRead, LineInv, ConTypes
<1>2. /\ pool' \in Seq(Nat) /\ Ascends(pool') /\ c \in Nat
      /\ ToSet(pool) = {c} \cup ToSet(pool') /\ \A a \in ToSet(pool') : c < a
  BY <1>1, TailChar DEF LineInv, InOrder
<1>3. chist' = [chist EXCEPT !.got = c, !.hole = @ \/ c <= chist.got
                  \/ \E d \in chist.got + 1 .. c - 1 : d \notin chist.lost]
  BY DEF HostRead
<1> HIDE DEF c
<1>4. chist.got \in Nat /\ chist.printed \in Nat /\ chist.got < c /\ c <= chist.printed
  BY <1>2 DEF LineInv, ConTypes, InOrder
<1>5. \A a \in ToSet(pool') \cup ToSet(uart) \cup ToSet(fifo) : c < a /\ a \in Nat /\ a <= chist.printed
  BY <1>1, <1>2, CharsOf DEF LineInv, ConTypes, InOrder, Precede
<1>6. \A d \in chist.got + 1 .. c - 1 : d \in chist.lost
  <2>1. SUFFICES ASSUME NEW d \in chist.got + 1 .. c - 1 PROVE d \in chist.lost
    OBVIOUS
  <2>2. d \in Nat /\ chist.got < d /\ d < c /\ d <= chist.printed
    BY <1>2, <1>4, <2>1
  <2>3. d \in chist.lost \cup ToSet(pool) \cup ToSet(uart) \cup ToSet(fifo)
    BY <2>2 DEF LineInv, NoGap
  <2> QED
    BY <1>2, <1>5, <2>2, <2>3
<1>7. /\ DOMAIN chist' = DOMAIN chist /\ chist'.printed = chist.printed /\ chist'.got = c
      /\ chist'.lost = chist.lost /\ ~chist'.hole
  <2>1. DOMAIN chist = {"printed", "got", "lost", "hole"} /\ ~chist.hole
    BY DEF LineInv, ConTypes, NothingSlips
  <2>2. ~(c <= chist.got)
    BY <1>2, <1>4
  <2>3. DOMAIN chist' = DOMAIN chist /\ chist'.printed = chist.printed /\ chist'.got = c
        /\ chist'.lost = chist.lost
    BY <1>3, <2>1
  <2>4. ~chist'.hole
    BY <1>3, <1>6, <2>1, <2>2
  <2> QED
    BY <2>3, <2>4
<1>8. ConTypes' /\ NothingSlips'
  BY <1>1, <1>2, <1>4, <1>7 DEF LineInv, ConTypes, NothingSlips
<1>9. InOrder'
  BY <1>1, <1>2, <1>5, <1>7 DEF LineInv, InOrder, Precede
<1>10. NoGap'
  <2>1. \A d \in Nat : c < d => chist.got < d /\ d # c
    BY <1>2, <1>4
  <2> QED
    BY <1>1, <1>2, <1>7, <2>1 DEF LineInv, NoGap
<1> QED
  BY <1>8, <1>9, <1>10 DEF LineInv

LEMMA NextLine == ASSUME LineInv, [BenchNext]_benchVars PROVE LineInv'
<1>1. CASE LoadImage
  BY <1>1, ResetLine DEF LoadImage
<1>2. CASE ConNext
  <2>1. CASE uart4_putc
    BY <2>1, PutLine
  <2>2. CASE UNCHANGED conVars \/ LookAtPort \/ OpenPort \/ ClosePort
    BY <2>2, LineStill DEF conVars, LookAtPort, OpenPort, ClosePort
  <2> QED
    BY <1>2, <2>1, <2>2, WireLine, PumpLine, DiscardLine, ReadLine
    DEF ConNext, Hello, UartTest, Bridge, Host, conVars
<1>3. CASE UNCHANGED conVars
  BY <1>3, LineStill DEF conVars
<1> QED
  BY <1>1, <1>2, <1>3 DEF BenchNext, benchVars

\* The host reads the text of a firmware in order, and misses only what the bridge
\* read while the port was closed, what its full buffer could not take, and what was
\* in the FIFO of a firmware that was stopped, for any sizes of the buffers.
THEOREM ConsoleInOrder == BenchSpec => []NothingSlips
<1>1. BenchInit => LineInv
  BY EmptyLineNow DEF BenchInit, ConInit
<1>2. LineInv => NothingSlips
  BY DEF LineInv
<1> QED
  BY <1>1, <1>2, NextLine, PTL DEF BenchSpec
=============================================================================
