----------------------------- MODULE M4Console -----------------------------
(***************************************************************************)
(* The text that hello and uart-test print on UART4, on its way to a          *)
(* terminal of the PC through the bridge on the Teensy: the FIFO of the UART,  *)
(* the receive buffer of the Teensy, its pool of USB packets, and a host that  *)
(* opens and closes the port. Characters are numbered; both ends have the      *)
(* same baud rate.                                                           *)
(***************************************************************************)
EXTENDS M4Base, Sequences, SequencesExt

CONSTANTS
  FifoLen,   (* transmit FIFO of the UART                                   *)
  RxLen,     (* receive buffer of the Teensy                                *)
  PoolLen,   (* its pool for USB                                            *)
  Chunk,     (* what pump moves at once                                     *)
  MaxChars,  (* bound: characters printed                                   *)
  MaxOpens   (* bound: times that the port is opened                        *)

ASSUME M4ConsoleAssumption ==
  /\ FifoLen \in Nat \ {0} /\ RxLen \in Nat \ {0} /\ PoolLen \in Nat \ {0}
  /\ Chunk \in Nat \ {0} /\ MaxChars \in Nat /\ MaxOpens \in Nat

VARIABLES
  fifo, uart, pool,  (* characters on their way, the first one first        *)
  port,              (* the host has opened it; the bridge has seen that, in  *)
                     (* this round of its loop; times opened                *)
  chist              (* history, see NoChars                                *)

conVars == <<fifo, uart, pool, port, chist>>

NoChars ==
  [printed |-> 0,   \* characters
   got |-> 0,       \* the host has read last
   lost |-> {},     \* thrown away: closed port, full buffer, stopped firmware
   hole |-> FALSE]  \* the host has missed others, or got one twice

Closed == [open |-> FALSE, seen |-> FALSE, opens |-> 0]

ConInit == fifo = <<>> /\ uart = <<>> /\ pool = <<>> /\ port = Closed /\ chist = NoChars

Loses(chars) == chist' = [chist EXCEPT !.lost = @ \cup ToSet(chars)]
Prints(i) == i \in {"hello", "uart-test"}

\* The UART is reset, the Teensy goes on; nobody watches a firmware without text
ConReset ==
  /\ fifo' = <<>>
  /\ IF Prints(image) /\ Prints(image')
     THEN Loses(fifo) /\ UNCHANGED <<uart, pool, port>>
     ELSE uart' = <<>> /\ pool' = <<>> /\ port' = Closed /\ chist' = NoChars
-----------------------------------------------------------------------------
(* The firmware.                                                            *)

\* Bug: it does not wait while TXFULL is set
NeverFull == FALSE
TxFull == Len(fifo) = FifoLen

uart4_putc ==
  /\ pc = "main" /\ ~TxFull /\ chist.printed < MaxChars
  /\ fifo' = IF Len(fifo) < FifoLen THEN Append(fifo, chist.printed + 1) ELSE fifo
  /\ chist' = [chist EXCEPT !.printed = @ + 1]
  /\ UNCHANGED <<uart, pool, port>>

\* A banner, then a tick per second; the crumb says when the banner is out
Hello ==
  /\ image = "hello"
  /\ \/ uart4_putc /\ UNCHANGED baseVars
     \/ /\ pc = "main" /\ crumb = "second" /\ chist.printed > 0 /\ crumb' = "third"
        /\ UNCHANGED <<image, pc, gates, heap, loads, conVars>>

UartTest == image = "uart-test" /\ uart4_putc /\ UNCHANGED baseVars

\* A character arrives at the Teensy, whose interrupt stores it if there is room
Wire ==
  /\ fifo # <<>> /\ fifo' = Tail(fifo)
  /\ IF Len(uart) < RxLen
     THEN uart' = Append(uart, Head(fifo)) /\ UNCHANGED chist
     ELSE UNCHANGED uart /\ Loses(<<Head(fifo)>>)
  /\ UNCHANGED <<baseVars, pool, port>>
-----------------------------------------------------------------------------
(* The loop of the bridge.                                                  *)

\* DTR is looked at, then the port is served
LookAtPort ==
  /\ port.seen # port.open /\ port' = [port EXCEPT !.seen = port.open]
  /\ UNCHANGED <<baseVars, fifo, uart, pool, chist>>

Least(S) == CHOOSE n \in S : \A k \in S : n <= k

Movable == Least({Len(uart), PoolLen - Len(pool), Chunk})

\* What does not fit into the pool, write would drop
pump ==
  /\ port.seen /\ Movable > 0
  /\ uart' = SubSeq(uart, Movable + 1, Len(uart))
  /\ pool' = LET all == pool \o SubSeq(uart, 1, Movable)
             IN SubSeq(all, 1, Least({Len(all), PoolLen}))
  /\ UNCHANGED <<baseVars, fifo, port, chist>>

\* Nobody listens: received characters are read and thrown away
Discard ==
  /\ ~port.seen /\ uart # <<>> /\ uart' = <<>> /\ Loses(uart)
  /\ UNCHANGED <<baseVars, fifo, pool, port>>
-----------------------------------------------------------------------------
(* The host.                                                                *)

OpenPort ==
  /\ ~port.open /\ port.opens < MaxOpens
  /\ port' = [port EXCEPT !.open = TRUE, !.opens = @ + 1]
  /\ UNCHANGED <<baseVars, fifo, uart, pool, chist>>

ClosePort ==
  /\ port.open /\ port' = [port EXCEPT !.open = FALSE]
  /\ UNCHANGED <<baseVars, fifo, uart, pool, chist>>

HostRead ==
  /\ port.open /\ pool # <<>> /\ pool' = Tail(pool)
  /\ chist' = [chist EXCEPT
       !.got = Head(pool),
       !.hole = @ \/ Head(pool) <= chist.got
                  \/ \E c \in chist.got + 1 .. Head(pool) - 1 : c \notin chist.lost]
  /\ UNCHANGED <<baseVars, fifo, uart, port>>

Bridge == LookAtPort \/ pump \/ Discard
Host == OpenPort \/ ClosePort \/ HostRead
ConNext == Hello \/ UartTest \/ (Prints(image) /\ (Wire \/ Bridge \/ Host))
-----------------------------------------------------------------------------
(* Properties.                                                              *)

\* The host reads what the firmware has printed, in order and without holes but for
\* what the bridge threw away while the port was closed or its buffer was full.
NothingSlips == ~chist.hole
=============================================================================
