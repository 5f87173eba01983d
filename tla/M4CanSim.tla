------------------------------ MODULE M4CanSim ------------------------------
(***************************************************************************)
(* The firmware can-sim: every 33 ms of the SoC's system counter it sends     *)
(* five CAN frames to whoever said hello last. The counter is read in two     *)
(* halves; hellos come by interrupt; a full vring drops frames.              *)
(***************************************************************************)
EXTENDS M4Base, Sequences

CONSTANTS
  Peers,     (* addresses of the program on Linux, one per start of it      *)
  Half,      (* a half of the counter counts modulo it, 2^32 on the board   *)
  Period,    (* ticks of the counter between batches                        *)
  MaxCount,  (* bound: ticks                                                *)
  TxLen      (* buffers of the vring                                        *)

ASSUME M4CanSimAssumption ==
  /\ Half \in Nat \ {0} /\ Period \in Nat \ {0} /\ MaxCount \in Nat /\ TxLen \in Nat

VARIABLES
  count,   (* the system counter, from a wrap of its low half before the start *)
  read,    (* hi and lo as read, next (or 0), and the counter when that began *)
  peer,    (* peer_addr, or "none" before peer_known                        *)
  frame,   (* frame of the batch that is sent next                          *)
  stream   (* what is in the vring: frames with their addresses             *)

canVars == <<count, read, peer, frame, stream>>

ReadInit == [hi |-> 0, lo |-> 0, next |-> 0, from |-> 0]

CanInit ==
  /\ count = 0 /\ read = ReadInit /\ peer = "none" /\ frame = 0
  /\ stream = <<>>

CanReset ==
  /\ read' = ReadInit /\ peer' = "none" /\ frame' = 0 /\ stream' = <<>>
  /\ count' = 0

Go(next) == pc' = next /\ UNCHANGED <<image, crumb, gates, heap, loads>>

CanUp == image = "can-sim" /\ EptUp("hi") /\ UNCHANGED canVars

Ticks ==
  /\ image = "can-sim" /\ count < MaxCount /\ count' = count + 1
  /\ UNCHANGED <<baseVars, read, peer, frame, stream>>
-----------------------------------------------------------------------------
(* sctr_now. Its first call sets next, the others are compared with it.      *)

CounterHi == count \div Half
CounterLo == count % Half

ReadHi ==
  /\ image = "can-sim" /\ pc = "hi" /\ Go("lo")
  /\ read' = [read EXCEPT !.hi = CounterHi, !.from = count]
  /\ UNCHANGED <<count, peer, frame, stream>>

ReadLo ==
  /\ image = "can-sim" /\ pc = "lo" /\ Go("again") /\ read' = [read EXCEPT !.lo = CounterLo]
  /\ UNCHANGED <<count, peer, frame, stream>>

\* Bug: the high half is not read again
NeverTorn == FALSE
Torn == read.hi # CounterHi
Now == read.hi * Half + read.lo

ReadAgain ==
  /\ image = "can-sim" /\ pc = "again" /\ Torn /\ Go("hi")
  /\ UNCHANGED canVars

peer_known == peer # "none"

\* The wait is over, or it is not; without a hello nothing is sent
GotTime ==
  /\ image = "can-sim" /\ pc = "again" /\ ~Torn
  /\ IF read.next = 0 THEN read' = [read EXCEPT !.next = Now + Period] /\ Go("hi")
     ELSE IF Now < read.next THEN UNCHANGED read /\ Go("hi")
     ELSE /\ read' = [read EXCEPT !.next = @ + Period]
          /\ Go(IF peer_known THEN "batch" ELSE "hi")
  /\ frame' = 0
  /\ UNCHANGED <<count, peer, stream>>

\* RL_DONT_BLOCK
send_frame(f) ==
  stream' = IF Len(stream) < TxLen THEN Append(stream, [to |-> peer, frame |-> f]) ELSE stream

SendFrame ==
  /\ image = "can-sim" /\ pc = "batch" /\ send_frame(frame)
  /\ frame' = (frame + 1) % 5 /\ Go(IF frame = 4 THEN "hi" ELSE "batch")
  /\ UNCHANGED <<count, read, peer>>

\* rx_cb, at any time
HelloCb(p) ==
  /\ image = "can-sim" /\ pc \in {"hi", "lo", "again", "batch"}
  /\ peer' = p
  /\ UNCHANGED <<baseVars, count, read, frame, stream>>

\* Linux takes a frame
Received ==
  /\ stream # <<>> /\ stream' = Tail(stream)
  /\ UNCHANGED <<baseVars, count, read, peer, frame>>

CanSim == CanUp \/ ReadHi \/ ReadLo \/ ReadAgain \/ GotTime \/ SendFrame
CanNext == CanSim \/ Ticks \/ Received \/ \E p \in Peers : HelloCb(p)
-----------------------------------------------------------------------------
(* Properties.                                                              *)

\* The time that sctr_now returns is one that the counter has had since the call, even
\* if the low half wraps in between.
NowIsReal == image = "can-sim" /\ pc = "again" /\ ~Torn => Now \in read.from..count
=============================================================================
