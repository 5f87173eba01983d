------------------------------- MODULE M4Echo -------------------------------
(***************************************************************************)
(* The firmware rpmsg-echo, whose interrupt handler hands one message at a    *)
(* time to a main loop that sleeps in wfi, and the two tools on Linux that    *)
(* measure its round trip: rpmsg-char-rtt, which gives up when an echo does   *)
(* not come, and rpmsg-rtt on the tty. What the firmware prints only takes    *)
(* time here.                                                               *)
(***************************************************************************)
EXTENDS M4Base, Sequences

CONSTANTS
  MaxPings,  (* bound: messages of the tools                                *)
  Rounds     (* round trips that a run of rpmsg-char-rtt measures           *)

ASSUME M4EchoAssumption == MaxPings \in Nat /\ Rounds \in Nat \ {0}

VARIABLES
  toM,       (* the vring of what is sent to the firmware and not handled yet *)
  toL,       (* the vring of echoes, each tool's in their order             *)
  kick,      (* the register of the messaging unit towards Linux is full    *)
  ready,     (* msg_ready                                                   *)
  buf,       (* msg_buf with msg_len, and msg_src                           *)
  to,        (* the address that the send under way has read from msg_src    *)
  rx,        (* what the driver of each tool has received                   *)
  tool,      (* each tool: where it is, its last ping, rounds measured      *)
  ehist      (* history, see NoHistory                                      *)

firmVars == <<ready, buf, to>>
tools == <<rx, tool>>
echoVars == <<toM, toL, kick, firmVars, tools, ehist>>

Tools == {"char", "tty"}
NoPing == [from |-> "none", id |-> 0]
NothingFor == [t \in Tools |-> <<>>]
ToolOff == [at |-> "off", ping |-> 0, n |-> 0]

NoHistory(slow) ==
  [slow |-> slow,      \* RTT_SLOW is set
   alone |-> TRUE,     \* only rpmsg-char-rtt has run
   pings |-> 0,
   last |-> 0,         \* ping that was echoed last
   garbled |-> FALSE,  \* an echo was not of a new ping, or went astray
   gaveUp |-> FALSE,   \* a run has ended without its echo,
   stalled |-> FALSE,  \* by STALL
   wrong |-> FALSE]    \* an echo was measured for another ping

EchoInit ==
  /\ toM = <<>> /\ toL = NothingFor /\ kick = FALSE /\ ready = FALSE /\ buf = NoPing /\ to = "none"
  /\ rx = NothingFor /\ tool = [t \in Tools |-> ToolOff]
  /\ \E slow \in BOOLEAN : ehist = NoHistory(slow)

\* Its poll or its write fails
CharBroken == ToolOff
\* Every read and write of the tty fails: 51 losses, and it ends
TtyBroken == ToolOff

\* With the firmware its devices go
EchoReset ==
  /\ toM' = <<>> /\ toL' = NothingFor /\ kick' = FALSE /\ ready' = FALSE /\ buf' = NoPing
  /\ to' = "none" /\ rx' = NothingFor
  /\ tool' = [t \in Tools |-> IF t = "char" THEN CharBroken ELSE TtyBroken]
  /\ ehist' = NoHistory(ehist.slow)
-----------------------------------------------------------------------------
(* The firmware. rx_cb is an interrupt handler: it runs between any two      *)
(* steps of main and ends a wfi; a wfi that begins after it sleeps on.       *)

Listening ==
  image = "echo" /\ pc \in {"check", "doze", "wfi", "print", "send", "kick", "echoed"}
GoOn(next) == pc' = next /\ UNCHANGED <<image, crumb, gates, heap, loads>>
\* Characters wait for room in the FIFO, one by one
uart4_puts(next) == GoOn(next)

Awake == "check"
Wakes == IF pc = "wfi" THEN GoOn(Awake) ELSE UNCHANGED baseVars

\* Bug: a message that comes while one is handled takes its place
Overwrites(m) == ready' = TRUE /\ buf' = m
\* Only one message at a time; what comes meanwhile is dropped
Taken(m) == IF ready THEN UNCHANGED <<ready, buf>> ELSE ready' = TRUE /\ buf' = m

rx_cb ==
  /\ Listening /\ toM # <<>> /\ toM' = Tail(toM)
  /\ Taken(Head(toM)) /\ Wakes
  /\ UNCHANGED <<toL, kick, to, tools, ehist>>

\* Before it has its endpoint rpmsg-lite gives the buffer back
NoEndpoint ==
  /\ image = "echo" /\ pc = "link" /\ toM # <<>> /\ toM' = Tail(toM)
  /\ UNCHANGED <<baseVars, toL, kick, firmVars, tools, ehist>>

EchoUp == image = "echo" /\ EptUp("check") /\ UNCHANGED echoVars

Check ==
  /\ image = "echo" /\ pc = "check" /\ GoOn(IF ready THEN "print" ELSE "doze")
  /\ UNCHANGED echoVars

Doze == image = "echo" /\ pc = "doze" /\ GoOn("wfi") /\ UNCHANGED echoVars

\* "rx: ..." is printed; the arguments of the send are read
Log ==
  /\ image = "echo" /\ pc = "print" /\ uart4_puts("send") /\ to' = buf.from
  /\ UNCHANGED <<toM, toL, kick, ready, buf, tools, ehist>>

\* rpmsg_lite_send copies msg_buf to a buffer, of which there are enough
Send ==
  /\ image = "echo" /\ pc = "send" /\ GoOn("kick")
  /\ toL' = [toL EXCEPT ![to] = Append(@, buf)]
  /\ ehist' = [ehist EXCEPT !.last = buf.id, !.garbled = @ \/ buf.id <= ehist.last \/ to # buf.from]
  /\ UNCHANGED <<toM, kick, firmVars, tools>>

\* and tells Linux, once it has read the register
MU_SendMsg ==
  /\ image = "echo" /\ pc = "kick" /\ ~kick /\ kick' = TRUE /\ GoOn("echoed")
  /\ UNCHANGED <<toM, toL, firmVars, tools, ehist>>

\* "echoed" is printed
Echoed ==
  /\ image = "echo" /\ pc = "echoed" /\ uart4_puts("check") /\ ready' = FALSE
  /\ UNCHANGED <<toM, toL, kick, buf, to, tools, ehist>>

Main == Check \/ Doze \/ Log \/ Send \/ MU_SendMsg \/ Echoed
-----------------------------------------------------------------------------
(* Linux. An endpoint that is closed loses what comes for it; a tool that is  *)
(* started again gets the address it had.                                   *)

At(t) == tool[t].at
Set(t, f) == tool' = [tool EXCEPT ![t] = f]

\* What the kernel finds in the vring goes to the tools; the buffers that it gives
\* back may interrupt the firmware
Deliver ==
  /\ kick /\ kick' = FALSE /\ toL' = NothingFor /\ (Wakes \/ UNCHANGED baseVars)
  /\ rx' = [t \in Tools |-> IF At(t) = "off" THEN <<>> ELSE rx[t] \o toL[t]]
  /\ UNCHANGED <<toM, firmVars, tool, ehist>>

\* A write goes out at once
Write(t, f) ==
  /\ ehist.pings < MaxPings /\ Set(t, [f EXCEPT !.ping = ehist.pings + 1])
  /\ toM' = Append(toM, [from |-> t, id |-> ehist.pings + 1])

Pinged(h) == [h EXCEPT !.pings = @ + 1]

Finish(t) == Set(t, ToolOff) /\ rx' = [rx EXCEPT ![t] = <<>>]
Step(t, at) == Set(t, [tool[t] EXCEPT !.at = at])

\* Nothing is on its way to a tool
Quiet == toL = NothingFor /\ ~kick /\ (Listening => toM = <<>> /\ pc = "wfi")

\* rpmsg-char-rtt makes an endpoint and opens it, and warms up
CharStart ==
  /\ image = "echo" /\ At("char") = "off" /\ Write("char", [ToolOff EXCEPT !.at = "warm"])
  /\ ehist' = Pinged(ehist)
  /\ UNCHANGED <<baseVars, toL, kick, firmVars, rx>>

\* Bug: the echo of the warm-up is left unread
WarmUnread(q) == q
WarmRead(q) == Tail(q)

CharWarm ==
  /\ At("char") = "warm" /\ rx["char"] # <<>> /\ Step("char", "next")
  /\ rx' = [rx EXCEPT !["char"] = WarmRead(@)]
  /\ UNCHANGED <<baseVars, toM, toL, kick, firmVars, ehist>>

\* Bug: only the first ping is slow
PausesOnce == ehist.slow /\ tool["char"].n = 0 => Quiet
\* RTT_SLOW: in 200 ms the firmware has printed and is asleep, and Linux has read
Pauses == ehist.slow => Quiet

CharPing ==
  /\ At("char") = "next" /\ Pauses /\ Write("char", [tool["char"] EXCEPT !.at = "poll"])
  /\ ehist' = Pinged(ehist)
  /\ UNCHANGED <<baseVars, toL, kick, firmVars, rx>>

\* A run measures so many rounds and ends
CharRead ==
  /\ At("char") = "poll" /\ rx["char"] # <<>>
  /\ ehist' = [ehist EXCEPT !.wrong = @ \/ (~ehist.gaveUp /\ Head(rx["char"]).id # tool["char"].ping)]
  /\ IF tool["char"].n + 1 = Rounds
     THEN Finish("char")
     ELSE /\ Set("char", [tool["char"] EXCEPT !.at = "next", !.n = @ + 1])
          /\ rx' = [rx EXCEPT !["char"] = Tail(@)]
  /\ UNCHANGED <<baseVars, toM, toL, kick, firmVars>>

\* No echo within 3 s, or 2 s, by when the firmware would have sent it
CharGivesUp ==
  /\ At("char") \in {"warm", "poll"} /\ rx["char"] = <<>> /\ Quiet /\ Finish("char")
  /\ ehist' = [ehist EXCEPT !.gaveUp = TRUE, !.stalled = @ \/ At("char") = "poll"]
  /\ UNCHANGED <<baseVars, toM, toL, kick, firmVars>>

\* rpmsg-rtt opens the tty, which the firmware has announced, and warms up
TtyStart ==
  /\ Listening /\ At("tty") = "off" /\ Write("tty", [ToolOff EXCEPT !.at = "read"])
  /\ ehist' = [Pinged(ehist) EXCEPT !.alone = FALSE]
  /\ UNCHANGED <<baseVars, toL, kick, firmVars, rx>>

\* The echo comes as a whole. VTIME would end a read that has begun, but VMIN is 16:
\* a read of nothing waits for ever
TtyRead ==
  /\ At("tty") = "read" /\ rx["tty"] # <<>> /\ Step("tty", "next")
  /\ rx' = [rx EXCEPT !["tty"] = Tail(@)]
  /\ UNCHANGED <<baseVars, toM, toL, kick, firmVars, ehist>>

TtyPing ==
  /\ At("tty") = "next" /\ Write("tty", [tool["tty"] EXCEPT !.at = "read"])
  /\ ehist' = Pinged(ehist)
  /\ UNCHANGED <<baseVars, toL, kick, firmVars, rx>>

\* It has its rounds, or somebody ends it
TtyEnds ==
  /\ At("tty") # "off" /\ Finish("tty")
  /\ UNCHANGED <<baseVars, toM, toL, kick, firmVars, ehist>>

Firmware == EchoUp \/ NoEndpoint \/ rx_cb \/ Main
Char == CharStart \/ CharWarm \/ CharPing \/ CharRead \/ CharGivesUp
Tty == TtyStart \/ TtyRead \/ TtyPing \/ TtyEnds
EchoNext == Firmware \/ Deliver \/ Char \/ Tty
-----------------------------------------------------------------------------
(* Properties.                                                              *)

\* Each echo is that of a ping not echoed before, and goes to who sent it, whatever
\* comes while the firmware prints or sends.
EchoIsWhatCame == ~ehist.garbled

\* A round trip is measured with the echo of its own ping, unless an earlier run gave
\* up: its endpoint had the same address, and its echo may come late.
RttIsOwnEcho == ~ehist.wrong

\* With RTT_SLOW a lone rpmsg-char-rtt never stalls: a message gets lost only while the
\* firmware is busy or falls asleep.
SlowPingsAnswered == ehist.slow /\ ehist.alone => ~ehist.stalled
=============================================================================
