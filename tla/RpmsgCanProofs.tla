--------------------------- MODULE RpmsgCanProofs ---------------------------
(***************************************************************************)
(* Proofs about RpmsgCan, for any bitrates, any length of the vrings and any *)
(* number of opens, bus errors and restarts of the M core.                  *)
(***************************************************************************)
EXTENDS RpmsgCan, TLAPS

-----------------------------------------------------------------------------
(* The inductive invariant. It speaks about the messages under way.         *)

\* Nothing of the hazards that BothEndsAgree excludes has happened
Clean == ~hist.dropped /\ ~hist.crossed

RateSettings == {<<"rate", r>> : r \in Rates}
ModeSettings == {<<"mode", m>> : m \in Modes}

\* Before it reads message k the gateway will have been stopped, and not started since
StoppedAt(k) ==
  \/ \E j \in 1..Len(toM) :
       /\ j < k /\ toM[j] = <<"stop">>
       /\ \A i \in 1..Len(toM) : j < i /\ i < k => toM[i] # <<"start">>
  \/ gw.state = "stopped" /\ \A i \in 1..Len(toM) : i < k => toM[i] # <<"start">>
\* After it has read everything
StoppedAtEnd ==
  \/ \E j \in 1..Len(toM) :
       toM[j] = <<"stop">> /\ \A i \in 1..Len(toM) : j < i => toM[i] # <<"start">>
  \/ gw.state = "stopped" /\ \A i \in 1..Len(toM) : toM[i] # <<"start">>

\* Only frames before message k
FramesBefore(k) == \A i \in 1..Len(toM) : i < k => toM[i] = Frame
NoControl == \A i \in 1..Len(toM) : toM[i] = Frame
StartIsLast ==
  \E k \in 1..Len(toM) :
    toM[k] = <<"start">> /\ \A j \in 1..Len(toM) : k < j => toM[j] = Frame

\* The value that the gateway will have once it has read everything
WillHave(set, v, now) ==
  \/ \E k \in 1..Len(toM) : toM[k] = v /\ \A j \in 1..Len(toM) : k < j => toM[j] \notin set
  \/ now = v /\ \A j \in 1..Len(toM) : toM[j] \notin set
RateArrives == WillHave(RateSettings, <<"rate", rate>>, <<"rate", gw.rate>>)
ModeArrives == WillHave(ModeSettings, <<"mode", mode>>, <<"mode", gw.mode>>)

\* The last event under way is the state of the gateway
Reported ==
  \E k \in 1..Len(toL) : toL[k] = gw.state /\ \A j \in 1..Len(toL) : k < j => toL[j] = Rx

\* What open has still to send, and what it has sent
Opening ==
  rtnl = "send" =>
    \/ todo = OpenMessages
    \/ /\ todo = <<<<"mode", mode>>, <<"start">>>>
       /\ ~hist.dropped => RateArrives
    \/ /\ todo = <<<<"start">>>>
       /\ ~hist.dropped => RateArrives /\ ModeArrives

\* The settings are there or on their way, whatever crosses
Configured == rtnl \in {"set", "up", "again"} /\ ~hist.dropped => RateArrives /\ ModeArrives

\* A gateway without a channel has stopped
Gone ==
  dev = "gone" => rtnl = "down" /\ toM = <<>> /\ toL = <<>> /\ gw.state = "stopped"

\* The restart work runs only while the interface is up and bus-off
WorkInv ==
  /\ work # "idle" => rtnl = "up" /\ auto /\ work # "rerun"
  /\ work = "pending" => state = "busoff"

\* Settings reach a gateway that has stopped, and a start one that reports it
Ordered ==
  \A k \in 1..Len(toM) :
    /\ toM[k] \in Setting => StoppedAt(k)
    /\ toM[k] = <<"start">> => StoppedAt(k) \/ (gw.state = "busoff" /\ FramesBefore(k))

\* An interface that is down, or not started yet
Downwards == rtnl \in {"down", "stop", "close", "send"} => StoppedAtEnd

\* An interface that has been started
Upwards ==
  rtnl \in {"set", "up", "again"} =>
    \/ StartIsLast
    \/ /\ NoControl /\ gw.state # "stopped"
       /\ rtnl # "up" => gw.state = "active"
       /\ \/ Reported
          \/ ~EventUnderWay /\ gw.state = state /\ rtnl = "up" /\ work # "running"

\* Events of an interface that is not up only tell of starts
OnlyActive == \A k \in 1..Len(toL) : toL[k] \in {Rx, "active"}
BusOffUnderWay == \E k \in 1..Len(toL) : toL[k] = "busoff"
BusOffLast ==
  \A k \in 1..Len(toL) : toL[k] = "busoff" => \A j \in 1..Len(toL) : k < j => toL[j] = Rx

\* Bus-off is over only when a start has been sent
BusOff ==
  /\ rtnl = "up" /\ work # "running" /\ state = "busoff" =>
       NoControl /\ gw.state = "busoff" /\ ~EventUnderWay
  /\ BusOffUnderWay => NoControl /\ gw.state = "busoff"
  /\ BusOffLast
  /\ rtnl # "up" => OnlyActive

CleanInv == WorkInv /\ Ordered /\ Downwards /\ Upwards /\ BusOff

CanInv == TypeOK /\ Gone /\ Opening /\ Configured /\ (Clean => CleanInv)

-----------------------------------------------------------------------------
(* Messages.                                                                *)

Messages == Control \cup {Frame}
Events == States \cup {Rx}

\* No message is of two kinds.
LEMMA Kinds ==
  /\ <<"start">> # <<"stop">> /\ <<"start">> # Frame /\ <<"stop">> # Frame
  /\ <<"start">> \notin Setting /\ <<"stop">> \notin Setting /\ Frame \notin Setting
  /\ Setting = RateSettings \cup ModeSettings
  /\ RateSettings \cap ModeSettings = {}
  /\ \A r, s : <<"rate", r>> = <<"rate", s>> => r = s
  /\ \A r, s : <<"mode", r>> = <<"mode", s>> => r = s
<1>1. <<"start">> # <<"stop">> /\ <<"start">> # Frame /\ <<"stop">> # Frame
  BY DEF Frame
<1>2. ASSUME NEW x, NEW a, NEW b PROVE <<x>> # <<a, b>>
  OBVIOUS
<1>3. \A r, s : <<"rate", r>> = <<"rate", s>> => r = s
  OBVIOUS
<1>4. \A r, s : <<"mode", r>> = <<"mode", s>> => r = s
  OBVIOUS
<1>5. \A r, s : <<"rate", r>> # <<"mode", s>>
  OBVIOUS
<1> QED
  BY <1>1, <1>2, <1>3, <1>4, <1>5 DEF Setting, RateSettings, ModeSettings, Frame

\* The sequence after a message has been put into a vring, and taken out of it.
LEMMA Appended ==
  ASSUME NEW S, NEW q \in Seq(S), NEW m \in S
  PROVE  /\ Append(q, m) \in Seq(S) /\ Len(Append(q, m)) = Len(q) + 1
         /\ Append(q, m)[Len(q) + 1] = m
         /\ \A k \in 1..Len(q) : Append(q, m)[k] = q[k]
  OBVIOUS

\* Every other message moves up by one.
LEMMA Taken ==
  ASSUME NEW S, NEW q \in Seq(S), q # <<>>
  PROVE  /\ Tail(q) \in Seq(S) /\ Len(q) \in Nat \ {0} /\ Len(Tail(q)) = Len(q) - 1
         /\ Head(q) = q[1] /\ Head(q) \in S
         /\ \A k \in 1..(Len(q) - 1) : Tail(q)[k] = q[k + 1]
  OBVIOUS

\* What Linux sends leaves what the gateway reads before it as it is.
LEMMA AppendToM ==
  ASSUME toM \in Seq(Messages), NEW m \in Messages, toM' = Append(toM, m), gw' = gw
  PROVE  /\ Len(toM') = Len(toM) + 1 /\ toM'[Len(toM) + 1] = m
         /\ \A k \in 1..Len(toM) : toM'[k] = toM[k]
         /\ \A k \in 1..Len(toM) :
              (StoppedAt(k) => StoppedAt(k)') /\ (FramesBefore(k) => FramesBefore(k)')
         /\ \A k \in Nat : k = Len(toM) + 1 => (StoppedAtEnd => StoppedAt(k)')
         /\ \A k \in Nat : k = Len(toM) + 1 => (NoControl => FramesBefore(k)')
         /\ NoControl' <=> NoControl /\ m = Frame
         /\ m = <<"start">> \/ (m = Frame /\ StartIsLast) => StartIsLast'
         /\ m = <<"stop">> \/ (m # <<"start">> /\ StoppedAtEnd) => StoppedAtEnd'
<1>1. /\ Len(toM) \in Nat /\ Len(toM') = Len(toM) + 1 /\ toM'[Len(toM) + 1] = m
      /\ \A k \in 1..Len(toM) : k \in 1..Len(toM') /\ toM'[k] = toM[k]
      /\ Len(toM) + 1 \in 1..Len(toM')
      /\ \A k \in 1..Len(toM') : k \in Nat /\ (k \in 1..Len(toM) \/ k = Len(toM) + 1)
  BY Appended
<1>2. ASSUME NEW k \in 1..(Len(toM) + 1)
      PROVE  /\ StoppedAt(k) => StoppedAt(k)'
             /\ FramesBefore(k) => FramesBefore(k)'
  <2>1. ASSUME gw.state = "stopped", \A i \in 1..Len(toM) : i < k => toM[i] # <<"start">>
        PROVE  StoppedAt(k)'
    <3>1. \A i \in 1..Len(toM') : i < k => toM'[i] # <<"start">>
      BY <1>1, <2>1
    <3> QED
      BY <1>1, <2>1, <3>1 DEF StoppedAt
  <2>2. ASSUME NEW j \in 1..Len(toM), j < k, toM[j] = <<"stop">>,
               \A i \in 1..Len(toM) : j < i /\ i < k => toM[i] # <<"start">>
        PROVE  StoppedAt(k)'
    <3>1. \A i \in 1..Len(toM') : j < i /\ i < k => toM'[i] # <<"start">>
      BY <1>1, <2>2
    <3>2. j \in 1..Len(toM') /\ toM'[j] = <<"stop">>
      BY <1>1, <2>2
    <3> QED
      BY <2>2, <3>1, <3>2 DEF StoppedAt
  <2>3. FramesBefore(k) => FramesBefore(k)'
    BY <1>1 DEF FramesBefore
  <2> QED
    BY <2>1, <2>2, <2>3 DEF StoppedAt
<1>3. ASSUME NEW k \in Nat, k = Len(toM) + 1
      PROVE  /\ StoppedAtEnd => StoppedAt(k)
             /\ NoControl => FramesBefore(k)
  <2>1. \A i \in 1..Len(toM) : i < k
    BY <1>1, <1>3
  <2>2. StoppedAtEnd => StoppedAt(k)
    BY <2>1 DEF StoppedAtEnd, StoppedAt
  <2> QED
    BY <2>1, <2>2 DEF NoControl, FramesBefore
<1>4. NoControl' <=> NoControl /\ m = Frame
  BY <1>1 DEF NoControl
<1>5. m = <<"start">> \/ (m = Frame /\ StartIsLast) => StartIsLast'
  BY <1>1 DEF StartIsLast
<1>6. m = <<"stop">> \/ (m # <<"start">> /\ StoppedAtEnd) => StoppedAtEnd'
  <2>1. ASSUME m = <<"stop">> PROVE StoppedAtEnd'
    <3>1. \A i \in 1..Len(toM') : ~(Len(toM) + 1 < i)
      BY <1>1
    <3> QED
      BY <1>1, <2>1, <3>1 DEF StoppedAtEnd
  <2>2. CASE m # <<"start">> /\ gw.state = "stopped" /\ \A i \in 1..Len(toM) : toM[i] # <<"start">>
    BY <1>1, <2>2 DEF StoppedAtEnd
  <2>3. ASSUME m # <<"start">>, NEW j \in 1..Len(toM), toM[j] = <<"stop">>,
               \A i \in 1..Len(toM) : j < i => toM[i] # <<"start">>
        PROVE  StoppedAtEnd'
    <3>1. \A i \in 1..Len(toM') : j < i => toM'[i] # <<"start">>
      BY <1>1, <2>3
    <3>2. j \in 1..Len(toM') /\ toM'[j] = <<"stop">>
      BY <1>1, <2>3
    <3> QED
      BY <3>1, <3>2 DEF StoppedAtEnd
  <2> QED
    BY <2>1, <2>2, <2>3 DEF StoppedAtEnd
<1>7. \A k \in 1..Len(toM) : (StoppedAt(k) => StoppedAt(k)') /\ (FramesBefore(k) => FramesBefore(k)')
  BY <1>1, <1>2
<1>8. ASSUME NEW k \in Nat, k = Len(toM) + 1
      PROVE  (StoppedAtEnd => StoppedAt(k)') /\ (NoControl => FramesBefore(k)')
  BY <1>1, <1>2, <1>3, <1>8
<1> QED
  BY <1>1, <1>4, <1>5, <1>6, <1>7, <1>8

\* Settings that arrive go on to arrive, whatever else is sent; one that is sent arrives.
LEMMA AppendSetting ==
  ASSUME toM \in Seq(Messages), NEW m \in Messages, toM' = Append(toM, m), gw' = gw,
         rate' = rate, mode' = mode
  PROVE  /\ m \notin RateSettings /\ RateArrives => RateArrives'
         /\ m \notin ModeSettings /\ ModeArrives => ModeArrives'
         /\ m = <<"rate", rate>> => RateArrives'
         /\ m = <<"mode", mode>> => ModeArrives'
<1> DEFINE n == Len(toM)
<1>1. /\ n \in Nat /\ Len(toM') = n + 1 /\ toM'[n + 1] = m
      /\ \A k \in 1..n : toM'[k] = toM[k]
  BY Appended
<1> HIDE DEF n
<1>2. ASSUME NEW S, NEW v, NEW x
      PROVE  /\ m \notin S /\ WillHave(S, v, x) =>
                  \/ \E k \in 1..(n + 1) : toM'[k] = v /\ \A j \in 1..(n + 1) : k < j => toM'[j] \notin S
                  \/ x = v /\ \A j \in 1..(n + 1) : toM'[j] \notin S
             /\ m = v =>
                  \E k \in 1..(n + 1) : toM'[k] = v /\ \A j \in 1..(n + 1) : k < j => toM'[j] \notin S
  BY <1>1 DEF WillHave, n
<1> QED
  BY <1>1, <1>2 DEF RateArrives, ModeArrives, WillHave

\* What a message does to the gateway.
LEMMA GwReads ==
  ASSUME TypeOK, GwReceive
  PROVE  /\ toM # <<>> /\ toM' = Tail(toM) /\ Head(toM) = toM[1]
         /\ gw' \in [state : States, rate : Rates, mode : Modes]
         /\ gw'.state = IF toM[1] = <<"start">> THEN "active"
                        ELSE IF toM[1] = <<"stop">> THEN "stopped" ELSE gw.state
         /\ IF toM[1] \in RateSettings THEN <<"rate", gw'.rate>> = toM[1] ELSE gw'.rate = gw.rate
         /\ IF toM[1] \in ModeSettings THEN <<"mode", gw'.mode>> = toM[1] ELSE gw'.mode = gw.mode
         /\ toL' = IF toM[1] = <<"start">> /\ gw.state # "active" THEN Sent(toL, "active") ELSE toL
         /\ hist' = [hist EXCEPT !.dropped = @ \/ (toM[1] = <<"start">> /\ Full(toL))]
<1>1. toM # <<>> /\ toM' = Tail(toM) /\ Head(toM) = toM[1]
  BY DEF GwReceive, TypeOK
<1>2. gw \in [state : States, rate : Rates, mode : Modes] /\ "active" \in States /\ "stopped" \in States
  BY DEF TypeOK, States
<1>3. CASE toM[1] \in RateSettings
  <2>1. toM[1] # <<"start">> /\ toM[1] # <<"stop">> /\ toM[1] # Frame /\ toM[1] \notin ModeSettings
    BY <1>3, Kinds
  <2>2. PICK r \in Rates : toM[1] = <<"rate", r>>
    BY <1>3 DEF RateSettings
  <2>3. gw' = [gw EXCEPT !.rate = r] /\ toL' = toL
    BY <1>1, <2>1, <2>2 DEF GwReceive
  <2> QED
    BY <1>1, <1>2, <1>3, <2>1, <2>2, <2>3 DEF GwReceive
<1>4. CASE toM[1] \in ModeSettings
  <2>1. toM[1] # <<"start">> /\ toM[1] # <<"stop">> /\ toM[1] # Frame /\ toM[1] \notin RateSettings
    BY <1>4, Kinds
  <2>2. PICK r \in Modes : toM[1] = <<"mode", r>>
    BY <1>4 DEF ModeSettings
  <2>3. gw' = [gw EXCEPT !.mode = r] /\ toL' = toL
    BY <1>1, <2>1, <2>2 DEF GwReceive
  <2> QED
    BY <1>1, <1>2, <1>4, <2>1, <2>2, <2>3 DEF GwReceive
<1>5. CASE toM[1] \notin Setting
  <2>1. toM[1] \notin RateSettings /\ toM[1] \notin ModeSettings
    BY <1>5, Kinds
  <2>2. CASE toM[1] = <<"start">>
    <3>1. gw' = [gw EXCEPT !.state = "active"] /\ Report("active")
      BY <1>1, <1>5, <2>2, Kinds DEF GwReceive
    <3> QED
      BY <1>1, <1>2, <2>1, <2>2, <3>1 DEF GwReceive, Report
  <2>3. CASE toM[1] = <<"stop">>
    <3>1. gw' = [gw EXCEPT !.state = "stopped"] /\ toL' = toL
      BY <1>1, <1>5, <2>3, Kinds DEF GwReceive
    <3> QED
      BY <1>1, <1>2, <2>1, <2>3, <3>1, Kinds DEF GwReceive
  <2>4. CASE toM[1] # <<"start">> /\ toM[1] # <<"stop">>
    <3>1. gw' = gw /\ toL' = toL
      BY <1>1, <1>5, <2>4 DEF GwReceive
    <3> QED
      BY <1>1, <1>2, <2>1, <2>4, <3>1 DEF GwReceive
  <2> QED
    BY <2>2, <2>3, <2>4
<1> QED
  BY <1>3, <1>4, <1>5, Kinds

\* What the gateway has still to read stays in its place when it reads a message.
LEMMA TakeFromM ==
  ASSUME TypeOK, GwReceive
  PROVE  /\ \A k \in 1..Len(toM') : k + 1 \in 1..Len(toM) /\ toM'[k] = toM[k + 1]
         /\ \A k \in 1..Len(toM') : StoppedAt(k + 1) => StoppedAt(k)'
         /\ \A k \in 1..Len(toM') : FramesBefore(k + 1) => FramesBefore(k)' /\ toM[1] = Frame
         /\ NoControl => NoControl' /\ toM[1] = Frame
         /\ StoppedAtEnd => StoppedAtEnd'
         /\ StartIsLast => StartIsLast' \/ (NoControl' /\ toM[1] = <<"start">>)
<1>1. /\ Len(toM) \in Nat \ {0} /\ Len(toM') = Len(toM) - 1
      /\ \A k \in 1..Len(toM') : k + 1 \in 1..Len(toM) /\ toM'[k] = toM[k + 1]
      /\ \A k \in 1..Len(toM) : k = 1 \/ (k - 1 \in 1..Len(toM') /\ toM'[k - 1] = toM[k])
      /\ 1 \in 1..Len(toM)
  BY GwReads, Taken DEF TypeOK
<1>2. ASSUME NEW k \in 1..Len(toM'), StoppedAt(k + 1) PROVE StoppedAt(k)'
  <2>1. CASE gw.state = "stopped" /\ \A i \in 1..Len(toM) : i < k + 1 => toM[i] # <<"start">>
    <3>0. toM[1] # <<"start">>
      BY <1>1, <2>1
    <3>1. gw'.state = "stopped"
      BY <2>1, <3>0, GwReads
    <3>2. ASSUME NEW i \in 1..Len(toM'), i < k PROVE toM'[i] # <<"start">>
      <4>1. i + 1 \in 1..Len(toM) /\ i + 1 < k + 1 /\ toM'[i] = toM[i + 1]
        BY <1>1, <3>2
      <4> QED
        BY <2>1, <4>1
    <3> QED
      BY <3>1, <3>2 DEF StoppedAt
  <2>2. ASSUME NEW j \in 1..Len(toM), j < k + 1, toM[j] = <<"stop">>,
               \A i \in 1..Len(toM) : j < i /\ i < k + 1 => toM[i] # <<"start">>
        PROVE  StoppedAt(k)'
    <3>1. CASE j = 1
      <4>1. gw'.state = "stopped"
        BY <2>2, <3>1, GwReads, Kinds
      <4>2. \A i \in 1..Len(toM') : i < k => toM'[i] # <<"start">>
        BY <1>1, <2>2, <3>1
      <4> QED
        BY <4>1, <4>2 DEF StoppedAt
    <3>2. CASE j # 1
      <4>1. j - 1 \in 1..Len(toM') /\ j - 1 < k /\ toM'[j - 1] = <<"stop">>
        BY <1>1, <2>2, <3>2
      <4>2. \A i \in 1..Len(toM') : j - 1 < i /\ i < k => toM'[i] # <<"start">>
        BY <1>1, <2>2, <3>2
      <4> QED
        BY <4>1, <4>2 DEF StoppedAt
    <3> QED
      BY <3>1, <3>2
  <2> QED
    BY <1>2, <2>1, <2>2 DEF StoppedAt
<1>3. ASSUME NEW k \in 1..Len(toM'), FramesBefore(k + 1)
      PROVE  FramesBefore(k)' /\ toM[1] = Frame
  <2>1. \A i \in 1..Len(toM') : i < k => toM'[i] = Frame
    BY <1>1, <1>3 DEF FramesBefore
  <2>2. toM[1] = Frame
    BY <1>1, <1>3 DEF FramesBefore
  <2> QED
    BY <2>1, <2>2 DEF FramesBefore
<1>4. NoControl => NoControl' /\ toM[1] = Frame
  BY <1>1 DEF NoControl
<1>5. ASSUME StoppedAtEnd PROVE StoppedAtEnd'
  <2>1. CASE gw.state = "stopped" /\ \A i \in 1..Len(toM) : toM[i] # <<"start">>
    <3>1. gw'.state = "stopped"
      BY <1>1, <2>1, GwReads
    <3>2. \A i \in 1..Len(toM') : toM'[i] # <<"start">>
      BY <1>1, <2>1
    <3> QED
      BY <3>1, <3>2 DEF StoppedAtEnd
  <2>2. ASSUME NEW j \in 1..Len(toM), toM[j] = <<"stop">>,
               \A i \in 1..Len(toM) : j < i => toM[i] # <<"start">>
        PROVE  StoppedAtEnd'
    <3>1. CASE j = 1
      <4>1. gw'.state = "stopped"
        BY <2>2, <3>1, GwReads, Kinds
      <4>2. \A i \in 1..Len(toM') : toM'[i] # <<"start">>
        BY <1>1, <2>2, <3>1
      <4> QED
        BY <4>1, <4>2 DEF StoppedAtEnd
    <3>2. CASE j # 1
      <4>1. j - 1 \in 1..Len(toM') /\ toM'[j - 1] = <<"stop">>
        BY <1>1, <2>2, <3>2
      <4>2. \A i \in 1..Len(toM') : j - 1 < i => toM'[i] # <<"start">>
        BY <1>1, <2>2, <3>2
      <4> QED
        BY <4>1, <4>2 DEF StoppedAtEnd
    <3> QED
      BY <3>1, <3>2
  <2> QED
    BY <1>5, <2>1, <2>2 DEF StoppedAtEnd
<1>6. ASSUME NEW k \in 1..Len(toM), toM[k] = <<"start">>,
             \A j \in 1..Len(toM) : k < j => toM[j] = Frame
      PROVE  StartIsLast' \/ (NoControl' /\ toM[1] = <<"start">>)
  <2>1. CASE k = 1
    BY <1>1, <1>6, <2>1 DEF NoControl
  <2>2. CASE k # 1
    <3>1. k - 1 \in 1..Len(toM') /\ toM'[k - 1] = <<"start">>
      BY <1>1, <1>6, <2>2
    <3>2. \A j \in 1..Len(toM') : k - 1 < j => toM'[j] = Frame
      BY <1>1, <1>6, <2>2
    <3> QED
      BY <3>1, <3>2 DEF StartIsLast
  <2> QED
    BY <2>1, <2>2
<1> QED
  BY <1>1, <1>2, <1>3, <1>4, <1>5, <1>6 DEF StartIsLast

\* A setting that the gateway reads has arrived.
LEMMA ReadSetting ==
  ASSUME TypeOK, GwReceive
  PROVE  (RateArrives => RateArrives') /\ (ModeArrives => ModeArrives')
<1>1. /\ Len(toM) \in Nat \ {0} /\ Len(toM') = Len(toM) - 1
      /\ \A k \in 1..Len(toM') : k + 1 \in 1..Len(toM) /\ toM'[k] = toM[k + 1]
      /\ \A k \in 1..Len(toM) : k = 1 \/ (k - 1 \in 1..Len(toM') /\ toM'[k - 1] = toM[k])
      /\ 1 \in 1..Len(toM)
  BY GwReads, Taken DEF TypeOK
<1>2. ASSUME NEW S, NEW v, NEW x, NEW y, WillHave(S, v, x), v \in S,
             IF toM[1] \in S THEN y = toM[1] ELSE y = x
      PROVE  \/ \E k \in 1..Len(toM') :
                  toM'[k] = v /\ \A j \in 1..Len(toM') : k < j => toM'[j] \notin S
             \/ y = v /\ \A j \in 1..Len(toM') : toM'[j] \notin S
  <2>1. CASE x = v /\ \A j \in 1..Len(toM) : toM[j] \notin S
    BY <1>1, <1>2, <2>1
  <2>2. ASSUME NEW k \in 1..Len(toM), toM[k] = v,
               \A j \in 1..Len(toM) : k < j => toM[j] \notin S
        PROVE  \/ \E i \in 1..Len(toM') :
                    toM'[i] = v /\ \A j \in 1..Len(toM') : i < j => toM'[j] \notin S
               \/ y = v /\ \A j \in 1..Len(toM') : toM'[j] \notin S
    <3>1. CASE k = 1
      BY <1>1, <1>2, <2>2, <3>1
    <3>2. CASE k # 1
      <4>1. k - 1 \in 1..Len(toM') /\ toM'[k - 1] = v
        BY <1>1, <2>2, <3>2
      <4>2. \A j \in 1..Len(toM') : k - 1 < j => toM'[j] \notin S
        BY <1>1, <2>2, <3>2
      <4> QED
        BY <4>1, <4>2
    <3> QED
      BY <3>1, <3>2
  <2> QED
    BY <1>2, <2>1, <2>2 DEF WillHave
<1>3. /\ IF toM[1] \in RateSettings THEN <<"rate", gw'.rate>> = toM[1]
         ELSE <<"rate", gw'.rate>> = <<"rate", gw.rate>>
      /\ IF toM[1] \in ModeSettings THEN <<"mode", gw'.mode>> = toM[1]
         ELSE <<"mode", gw'.mode>> = <<"mode", gw.mode>>
      /\ rate' = rate /\ mode' = mode
      /\ <<"rate", rate>> \in RateSettings /\ <<"mode", mode>> \in ModeSettings
  BY GwReads DEF GwReceive, settings, TypeOK, RateSettings, ModeSettings
<1>4. ASSUME RateArrives PROVE RateArrives'
  <2>1. WillHave(RateSettings, <<"rate", rate>>, <<"rate", gw.rate>>)
    BY <1>4 DEF RateArrives
  <2> DEFINE v == <<"rate", rate>>
             x == <<"rate", gw.rate>>
             y == <<"rate", gw'.rate>>
  <2>2. v \in RateSettings /\ IF toM[1] \in RateSettings THEN y = toM[1] ELSE y = x
    BY <1>3
  <2>3. WillHave(RateSettings, v, x)
    BY <2>1
  <2>4. y = <<"rate", gw'.rate>> /\ v = <<"rate", rate'>>
    BY <1>3
  <2> HIDE DEF v, x, y
  <2>5. \/ \E k \in 1..Len(toM') :
             toM'[k] = v /\ \A j \in 1..Len(toM') : k < j => toM'[j] \notin RateSettings
        \/ y = v /\ \A j \in 1..Len(toM') : toM'[j] \notin RateSettings
    BY <1>2, <2>2, <2>3
  <2> QED
    BY <2>4, <2>5 DEF RateArrives, WillHave, RateSettings
<1>5. ASSUME ModeArrives PROVE ModeArrives'
  <2>1. WillHave(ModeSettings, <<"mode", mode>>, <<"mode", gw.mode>>)
    BY <1>5 DEF ModeArrives
  <2> DEFINE v == <<"mode", mode>>
             x == <<"mode", gw.mode>>
             y == <<"mode", gw'.mode>>
  <2>2. v \in ModeSettings /\ IF toM[1] \in ModeSettings THEN y = toM[1] ELSE y = x
    BY <1>3
  <2>3. WillHave(ModeSettings, v, x)
    BY <2>1
  <2>4. y = <<"mode", gw'.mode>> /\ v = <<"mode", mode'>>
    BY <1>3
  <2> HIDE DEF v, x, y
  <2>5. \/ \E k \in 1..Len(toM') :
             toM'[k] = v /\ \A j \in 1..Len(toM') : k < j => toM'[j] \notin ModeSettings
        \/ y = v /\ \A j \in 1..Len(toM') : toM'[j] \notin ModeSettings
    BY <1>2, <2>2, <2>3
  <2> QED
    BY <2>4, <2>5 DEF ModeArrives, WillHave, ModeSettings
<1> QED
  BY <1>4, <1>5

\* The gateway's settings change only through messages, and the state by an error on the
\* bus only while it runs.
LEMMA SameMessages ==
  ASSUME toM' = toM, gw'.rate = gw.rate, gw'.mode = gw.mode, rate' = rate, mode' = mode
  PROVE  /\ NoControl' <=> NoControl
         /\ StartIsLast' <=> StartIsLast
         /\ \A k \in 1..Len(toM) : FramesBefore(k)' <=> FramesBefore(k)
         /\ RateArrives' <=> RateArrives
         /\ ModeArrives' <=> ModeArrives
         /\ gw'.state = gw.state => /\ StoppedAtEnd' <=> StoppedAtEnd
                                    /\ \A k \in 1..Len(toM) : StoppedAt(k)' <=> StoppedAt(k)
<1>1. ASSUME NEW k \in 1..Len(toM) PROVE FramesBefore(k)' <=> FramesBefore(k)
  BY DEF FramesBefore
<1>2. ASSUME NEW k \in 1..Len(toM), gw'.state = gw.state PROVE StoppedAt(k)' <=> StoppedAt(k)
  BY <1>2 DEF StoppedAt
<1>3. NoControl' <=> NoControl
  BY DEF NoControl
<1>4. StartIsLast' <=> StartIsLast
  BY DEF StartIsLast
<1>5. gw'.state = gw.state => (StoppedAtEnd' <=> StoppedAtEnd)
  BY DEF StoppedAtEnd
<1>6. RateArrives' <=> RateArrives
  BY DEF RateArrives, WillHave
<1>7. ModeArrives' <=> ModeArrives
  BY DEF ModeArrives, WillHave
<1> QED
  BY <1>1, <1>2, <1>3, <1>4, <1>5, <1>6, <1>7

\* A gateway that reports a state, or a frame, puts it behind what is under way.
LEMMA AppendToL ==
  ASSUME toL \in Seq(Events), NEW x \in Events, toL' = Append(toL, x)
  PROVE  /\ x = gw'.state \/ (x = Rx /\ gw'.state = gw.state /\ Reported) => Reported'
         /\ EventUnderWay' <=> EventUnderWay \/ x # Rx
         /\ OnlyActive' <=> OnlyActive /\ x \in {Rx, "active"}
         /\ BusOffUnderWay' <=> BusOffUnderWay \/ x = "busoff"
         /\ BusOffLast /\ (x = Rx \/ ~BusOffUnderWay) => BusOffLast'
<1>1. /\ Len(toL) \in Nat /\ Len(toL') = Len(toL) + 1 /\ toL'[Len(toL) + 1] = x
      /\ \A k \in 1..Len(toL) : k \in 1..Len(toL') /\ toL'[k] = toL[k]
      /\ Len(toL) + 1 \in 1..Len(toL')
      /\ \A k \in 1..Len(toL') : k \in Nat /\ (k \in 1..Len(toL) \/ k = Len(toL) + 1)
  BY Appended
<1>2. ASSUME x = gw'.state \/ (x = Rx /\ gw'.state = gw.state /\ Reported) PROVE Reported'
  <2>1. CASE x = gw'.state
    <3>1. \A i \in 1..Len(toL') : ~(Len(toL) + 1 < i)
      BY <1>1
    <3> QED
      BY <1>1, <2>1, <3>1 DEF Reported
  <2>2. CASE x = Rx /\ gw'.state = gw.state /\ Reported
    <3>1. PICK k \in 1..Len(toL) :
            toL[k] = gw.state /\ \A j \in 1..Len(toL) : k < j => toL[j] = Rx
      BY <2>2 DEF Reported
    <3>2. \A j \in 1..Len(toL') : k < j => toL'[j] = Rx
      BY <1>1, <2>2, <3>1
    <3> QED
      BY <1>1, <2>2, <3>1, <3>2 DEF Reported
  <2> QED
    BY <1>2, <2>1, <2>2
<1>3. EventUnderWay' <=> EventUnderWay \/ x # Rx
  BY <1>1 DEF EventUnderWay
<1>4. OnlyActive' <=> OnlyActive /\ x \in {Rx, "active"}
  BY <1>1 DEF OnlyActive
<1>5. BusOffUnderWay' <=> BusOffUnderWay \/ x = "busoff"
  BY <1>1 DEF BusOffUnderWay
<1>6. ASSUME BusOffLast, x = Rx \/ ~BusOffUnderWay PROVE BusOffLast'
  <2>1. ASSUME NEW k \in 1..Len(toL'), toL'[k] = "busoff", NEW j \in 1..Len(toL'), k < j
        PROVE  toL'[j] = Rx
    BY <1>1, <1>6, <2>1 DEF BusOffLast, BusOffUnderWay
  <2> QED
    BY <2>1 DEF BusOffLast
<1> QED
  BY <1>2, <1>3, <1>4, <1>5, <1>6

\* Linux takes the oldest one.
LEMMA TakeFromL ==
  ASSUME toL \in Seq(Events), toL # <<>>, toL' = Tail(toL), gw' = gw
  PROVE  /\ Head(toL) \in Events
         /\ Reported => Reported' \/ (Head(toL) = gw.state /\ ~EventUnderWay')
         /\ Head(toL) # Rx => EventUnderWay
         /\ EventUnderWay' => EventUnderWay
         /\ OnlyActive => OnlyActive' /\ Head(toL) \in {Rx, "active"}
         /\ BusOffUnderWay' => BusOffUnderWay
         /\ Head(toL) = "busoff" => BusOffUnderWay
         /\ BusOffLast => BusOffLast' /\ (Head(toL) = "busoff" => ~EventUnderWay')
<1>1. /\ Len(toL) \in Nat \ {0} /\ Len(toL') = Len(toL) - 1 /\ Head(toL) = toL[1]
      /\ \A k \in 1..Len(toL') : k + 1 \in 1..Len(toL) /\ toL'[k] = toL[k + 1]
      /\ \A k \in 1..Len(toL) : k = 1 \/ (k - 1 \in 1..Len(toL') /\ toL'[k - 1] = toL[k])
      /\ 1 \in 1..Len(toL) /\ Head(toL) \in Events
  BY Taken
<1>2. ASSUME NEW k \in 1..Len(toL), toL[k] = gw.state,
             \A j \in 1..Len(toL) : k < j => toL[j] = Rx
      PROVE  Reported' \/ (Head(toL) = gw.state /\ ~EventUnderWay')
  <2>1. CASE k = 1
    BY <1>1, <1>2, <2>1 DEF EventUnderWay
  <2>2. CASE k # 1
    <3>1. k - 1 \in 1..Len(toL') /\ toL'[k - 1] = gw'.state
      BY <1>1, <1>2, <2>2
    <3>2. \A j \in 1..Len(toL') : k - 1 < j => toL'[j] = Rx
      BY <1>1, <1>2, <2>2
    <3> QED
      BY <3>1, <3>2 DEF Reported
  <2> QED
    BY <2>1, <2>2
<1>3. (Head(toL) # Rx => EventUnderWay) /\ (EventUnderWay' => EventUnderWay)
  BY <1>1 DEF EventUnderWay
<1>4. OnlyActive => OnlyActive' /\ Head(toL) \in {Rx, "active"}
  BY <1>1 DEF OnlyActive
<1>5. (BusOffUnderWay' => BusOffUnderWay) /\ (Head(toL) = "busoff" => BusOffUnderWay)
  BY <1>1 DEF BusOffUnderWay
<1>6. ASSUME BusOffLast PROVE BusOffLast' /\ (Head(toL) = "busoff" => ~EventUnderWay')
  <2>1. ASSUME NEW k \in 1..Len(toL'), toL'[k] = "busoff", NEW j \in 1..Len(toL'), k < j
        PROVE  toL'[j] = Rx
    BY <1>1, <1>6, <2>1 DEF BusOffLast
  <2>2. ASSUME Head(toL) = "busoff", NEW j \in 1..Len(toL') PROVE toL'[j] = Rx
    BY <1>1, <1>6, <2>2 DEF BusOffLast
  <2> QED
    BY <2>1, <2>2 DEF BusOffLast, EventUnderWay
<1> QED
  BY <1>1, <1>2, <1>3, <1>4, <1>5, <1>6 DEF Reported

-----------------------------------------------------------------------------
(* Types.                                                                   *)

\* What is under way.
LEMMA VringTypes ==
  ASSUME TypeOK
  PROVE  /\ toM \in Seq(Messages) /\ Len(toM) \in Nat /\ Len(toM) <= VringLen
         /\ toL \in Seq(Events) /\ Len(toL) \in Nat /\ Len(toL) <= VringLen
         /\ VringLen \in Nat
  BY RpmsgCanAssumption DEF TypeOK, Messages, Events

\* A message for the gateway keeps the types, and is dropped or crossed by an event
\* only if the history says so.
LEMMA CtrlSends ==
  ASSUME TypeOK, NEW h \in HistTypes, NEW m \in Control, CtrlSend(h, m)
  PROVE  /\ toM' \in Seq(Messages) /\ Len(toM') <= VringLen
         /\ hist' \in HistTypes /\ hist'.opens = h.opens /\ hist'.faults = h.faults
         /\ ~hist'.dropped => ~h.dropped /\ toM' = Append(toM, m)
         /\ ~hist'.crossed => ~h.crossed /\ ~EventUnderWay
<1> DEFINE d == h.dropped \/ Full(toM)
           x == h.crossed \/ EventUnderWay
<1>1. d \in BOOLEAN /\ x \in BOOLEAN
  OBVIOUS
<1>2. hist' = [h EXCEPT !.dropped = d, !.crossed = x] /\ toM' = Sent(toM, m)
  BY DEF CtrlSend
<1>3. (~d => ~h.dropped /\ toM' = Append(toM, m)) /\ (~x => ~h.crossed /\ ~EventUnderWay)
  BY <1>2 DEF Sent
<1> HIDE DEF d, x
<1>4. hist' \in HistTypes /\ (hist'.dropped <=> d) /\ (hist'.crossed <=> x)
      /\ hist'.opens = h.opens /\ hist'.faults = h.faults
  BY <1>1, <1>2 DEF HistTypes
<1>5. toM' \in Seq(Messages) /\ Len(toM') <= VringLen
  BY <1>2, RpmsgCanAssumption DEF TypeOK, Sent, Full, Messages
<1> QED
  BY <1>3, <1>4, <1>5

\* What the gateway sends keeps the types.
LEMMA ReportTypes ==
  ASSUME TypeOK, NEW x \in Events
  PROVE  Sent(toL, x) \in Seq(Events) /\ Len(Sent(toL, x)) <= VringLen
  BY RpmsgCanAssumption DEF TypeOK, Sent, Full, Events

\* The messages of open, start and stop are messages.
LEMMA ControlTypes ==
  ASSUME TypeOK
  PROVE  /\ OpenMessages \in Seq(Control) /\ <<"start">> \in Control /\ StopMessage \in Control
         /\ <<"rate", rate>> \in Control /\ <<"mode", mode>> \in Control
<1>1. /\ <<"start">> \in Control /\ StopMessage \in Control
      /\ <<"rate", rate>> \in Control /\ <<"mode", mode>> \in Control
  BY DEF TypeOK, Control, Setting, StopMessage
<1> QED
  BY <1>1 DEF OpenMessages

\* What open is about to send.
LEMMA OpeningTypes ==
  ASSUME TypeOK, Opening, rtnl = "send"
  PROVE  todo # <<>> /\ Head(todo) \in Control /\ Tail(todo) \in Seq(Control)
<1>1. todo # <<>>
  BY DEF Opening, OpenMessages
<1>2. todo \in Seq(Control)
  BY DEF TypeOK
<1> QED
  BY <1>1, <1>2

\* Every step of ip link keeps the types.
LEMMA LinkTypes ==
  ASSUME TypeOK, Opening, Admin \/ RtnlHolder PROVE TypeOK'
<1>h. hist \in HistTypes
  BY DEF TypeOK
<1>1. CASE Configure
  BY <1>1 DEF Configure, TypeOK, netdev
<1>2. CASE Open
  <2> DEFINE d == hist.dropped /\ ~AtRest
             x == (hist.crossed /\ ~AtRest) \/ EventUnderWay \/ work # "idle"
             n == hist.opens + 1
  <2>1. d \in BOOLEAN /\ x \in BOOLEAN /\ n \in 0..MaxOpens
    BY <1>2, <1>h, RpmsgCanAssumption DEF Open, HistTypes
  <2>2. hist' = [hist EXCEPT !.opens = n, !.dropped = d, !.crossed = x]
    BY <1>2 DEF Open
  <2> HIDE DEF d, x, n
  <2>3. hist' \in HistTypes
    BY <1>h, <2>1, <2>2 DEF HistTypes
  <2> QED
    BY <1>2, <2>3, ControlTypes DEF Open, TypeOK, settings
<1>3. CASE OpenSend
  <2>1. CtrlSend(hist, Head(todo)) /\ Head(todo) \in Control /\ Tail(todo) \in Seq(Control)
    BY <1>3, OpeningTypes DEF OpenSend
  <2>2. toM' \in Seq(Messages) /\ Len(toM') <= VringLen /\ hist' \in HistTypes
    BY <1>h, <2>1, CtrlSends
  <2> QED
    BY <1>3, <2>1, <2>2 DEF OpenSend, TypeOK, Messages, netdev, settings
<1>4. CASE OpenSet
  BY <1>4 DEF OpenSet, TypeOK, settings, States
<1>5. CASE StopSend
  <2>1. [hist EXCEPT !.crossed = @ \/ work # "idle"] \in HistTypes
    BY <1>h DEF HistTypes
  <2>2. toM' \in Seq(Messages) /\ Len(toM') <= VringLen /\ hist' \in HistTypes
    BY <1>5, <2>1, CtrlSends, ControlTypes DEF StopSend
  <2> QED
    BY <1>5, <2>2 DEF StopSend, TypeOK, Messages, settings
<1>6. CASE StopSet
  BY <1>6 DEF StopSet, TypeOK, settings, States
<1>7. CASE StopClose
  BY <1>7 DEF StopClose, TypeOK, settings, netdev
<1>8. CASE Restart
  <2>1. toM' \in Seq(Messages) /\ Len(toM') <= VringLen /\ hist' \in HistTypes
    BY <1>8, <1>h, CtrlSends, ControlTypes DEF Restart
  <2> QED
    BY <1>8, <2>1 DEF Restart, TypeOK, Messages, settings
<1>9. CASE RestartSet
  BY <1>9 DEF RestartSet, TypeOK, settings, States, StateAfterStart
<1>10. CASE Free
  <2>1. gw' \in [state : States, rate : Rates, mode : Modes]
    BY <1>10 DEF Free, TypeOK, States
  <2> QED
    BY <1>10, <2>1, RpmsgCanAssumption DEF Free, TypeOK, settings, netdev
<1> QED
  BY <1>1, <1>2, <1>3, <1>4, <1>5, <1>6, <1>7, <1>8, <1>9, <1>10
  DEF Admin, RtnlHolder, Stop, RemoveStop

\* So does every other step.
LEMMA OtherTypes ==
  ASSUME TypeOK, Binding \/ Worker \/ Xmit \/ rpmsg_can_cb \/ Gateway PROVE TypeOK'
<1>h. hist \in HistTypes
  BY DEF TypeOK
<1>1. CASE Remove
  <2>1. hist' \in HistTypes
    BY <1>1, <1>h, RpmsgCanAssumption DEF Remove, HistTypes
  <2> QED
    BY <1>1, <2>1 DEF Remove, TypeOK, settings, netdev
<1>2. CASE Probe
  <2>1. hist' \in HistTypes
    BY <1>2, <1>h DEF Probe, HistTypes
  <2>2. DefaultRate \in Rates /\ "normal" \in Modes
    BY RpmsgCanAssumption DEF DefaultRate
  <2>3. gw' \in [state : States, rate : Rates, mode : Modes]
    BY <1>2 DEF Probe, NewGateways, States
  <2> QED
    BY <1>2, <2>1, <2>2, <2>3 DEF Probe, TypeOK, States
<1>3. CASE Work
  <2>1. [hist EXCEPT !.crossed = @ \/ rtnl # "up"] \in HistTypes
    BY <1>h DEF HistTypes
  <2>2. toM' \in Seq(Messages) /\ Len(toM') <= VringLen /\ hist' \in HistTypes
    BY <1>3, <2>1, CtrlSends, ControlTypes DEF Work
  <2> QED
    BY <1>3, <2>2 DEF Work, TypeOK, Messages, settings
<1>4. CASE WorkSet
  BY <1>4 DEF WorkSet, TypeOK, settings, States, StateAfterStart
<1>5. CASE Xmit
  <2>1. toM' \in Seq(Messages) /\ Len(toM') <= VringLen
    BY <1>5, RpmsgCanAssumption DEF Xmit, TypeOK, Sent, Full, Messages
  <2> QED
    BY <1>5, <2>1 DEF Xmit, TypeOK, Messages, settings, netdev
<1>6. CASE RxFrame \/ RxState
  <2> DEFINE x == hist.crossed \/ rtnl # "up" \/ work # "idle"
                  \/ \E k \in 1..Len(toM) : toM[k] # Frame
  <2>1. x \in BOOLEAN
    OBVIOUS
  <2> HIDE DEF x
  <2>2. ASSUME RxState PROVE hist' \in HistTypes
    <3>1. hist' = [hist EXCEPT !.crossed = x]
      BY <2>2 DEF RxState, x
    <3> QED
      BY <1>h, <2>1, <3>1 DEF HistTypes
  <2>3. toL # <<>> /\ toL' = Tail(toL) /\ Head(toL) \in Events /\ toL' \in Seq(Events)
        /\ Len(toL') <= VringLen
    <3>1. toL # <<>> /\ toL' = Tail(toL)
      BY <1>6 DEF RxFrame, RxState
    <3>2. /\ Head(toL) \in Events /\ Tail(toL) \in Seq(Events)
          /\ Len(Tail(toL)) = Len(toL) - 1
      BY <3>1, VringTypes, Taken
    <3> QED
      BY <3>1, <3>2, VringTypes
  <2>4. CASE RxFrame
    BY <2>3, <2>4 DEF RxFrame, TypeOK, Events, netdev, settings
  <2>5. CASE RxState
    <3>1. state' \in States /\ carrier' \in BOOLEAN
      BY <2>3, <2>5 DEF RxState, Events, TypeOK
    <3>2. work' \in {"idle", "pending", "running", "rerun"}
      BY <2>5 DEF RxState, TypeOK
    <3> QED
      BY <2>2, <2>3, <2>5, <3>1, <3>2 DEF RxState, TypeOK, Events, settings
  <2> QED
    BY <1>6, <2>4, <2>5
<1>7. CASE GwReceive
  <2>1. toM' \in Seq(Messages) /\ Len(toM') <= VringLen
    <3>1. toM # <<>> /\ toM' = Tail(toM)
      BY <1>7, GwReads
    <3>2. Tail(toM) \in Seq(Messages) /\ Len(Tail(toM)) = Len(toM) - 1
      BY <3>1, VringTypes, Taken
    <3> QED
      BY <3>1, <3>2, VringTypes
  <2>2. toL' \in Seq(Events) /\ Len(toL') <= VringLen
    BY GwReads, <1>7, ReportTypes DEF TypeOK, Events, States
  <2>3. hist' \in HistTypes
    <3> DEFINE d == hist.dropped \/ (toM[1] = <<"start">> /\ Full(toL))
    <3>1. hist' = [hist EXCEPT !.dropped = d] /\ d \in BOOLEAN
      BY GwReads, <1>7
    <3> HIDE DEF d
    <3> QED
      BY <1>h, <3>1 DEF HistTypes
  <2> QED
    BY GwReads, <1>7, <2>1, <2>2, <2>3 DEF GwReceive, TypeOK, Messages, Events, settings, netdev
<1>8. CASE GwFrame
  <2>1. toL' \in Seq(Events) /\ Len(toL') <= VringLen
    BY <1>8, ReportTypes DEF GwFrame, Events
  <2> QED
    BY <1>8, <2>1 DEF GwFrame, TypeOK, Events, settings, netdev
<1>9. CASE BusError
  <2>1. PICK s \in Errors \ {gw.state} : gw' = [gw EXCEPT !.state = s] /\ Report(s)
    BY <1>9 DEF BusError
  <2>2. s \in States /\ toL' = Sent(toL, s)
    BY <2>1 DEF Report, States
  <2>3. toL' \in Seq(Events) /\ Len(toL') <= VringLen
    BY <2>2, ReportTypes DEF Events
  <2>4. gw' \in [state : States, rate : Rates, mode : Modes]
    BY <2>1, <2>2 DEF TypeOK
  <2>5. hist' \in HistTypes
    <3> DEFINE d == hist.dropped \/ Full(toL)
               x == hist.crossed \/ rtnl # "up" \/ \E k \in 1..Len(toM) : toM[k] # Frame
               n == hist.faults + 1
    <3>1. d \in BOOLEAN /\ x \in BOOLEAN /\ n \in 0..MaxFaults
      BY <1>9, <1>h, RpmsgCanAssumption DEF BusError, HistTypes
    <3>2. hist' = [hist EXCEPT !.faults = n, !.dropped = d, !.crossed = x]
      BY <1>9 DEF BusError
    <3> HIDE DEF d, x, n
    <3> QED
      BY <1>h, <3>1, <3>2 DEF HistTypes
  <2> QED
    BY <1>9, <2>3, <2>4, <2>5 DEF BusError, TypeOK, Events, settings, netdev
<1> QED
  BY <1>1, <1>2, <1>3, <1>4, <1>5, <1>6, <1>7, <1>8, <1>9
  DEF Binding, Worker, rpmsg_can_cb, Gateway

\* And the initial states have them.
LEMMA InitTypes == Init => TypeOK
<1> SUFFICES ASSUME Init PROVE TypeOK
  OBVIOUS
<1>1. DefaultRate \in Rates /\ "normal" \in Modes
  BY RpmsgCanAssumption DEF DefaultRate
<1>2. gw \in [state : States, rate : Rates, mode : Modes]
  BY DEF Init, NewGateways, States
<1>3. hist \in HistTypes
  BY RpmsgCanAssumption DEF Init, HistTypes
<1>4. /\ todo \in Seq(Control)
      /\ toM \in Seq(Control \cup {Frame}) /\ Len(toM) <= VringLen
      /\ toL \in Seq(States \cup {Rx}) /\ Len(toL) <= VringLen
  <2>1. toM = <<>> /\ toL = <<>> /\ todo = <<>>
    BY DEF Init, NewDevice
  <2> QED
    BY <2>1, RpmsgCanAssumption
<1> QED
  BY <1>1, <1>2, <1>3, <1>4 DEF Init, NewDevice, TypeOK, States

\* Events under way stay the same.
LEMMA SameEvents ==
  ASSUME toL' = toL
  PROVE  /\ EventUnderWay' <=> EventUnderWay
         /\ OnlyActive' <=> OnlyActive
         /\ BusOffUnderWay' <=> BusOffUnderWay
         /\ BusOffLast' <=> BusOffLast
         /\ gw'.state = gw.state => (Reported' <=> Reported)
<1>1. (OnlyActive' <=> OnlyActive) /\ (BusOffUnderWay' <=> BusOffUnderWay)
  BY DEF OnlyActive, BusOffUnderWay
<1>2. (EventUnderWay' <=> EventUnderWay) /\ (BusOffLast' <=> BusOffLast)
  BY DEF EventUnderWay, BusOffLast
<1>3. gw'.state = gw.state => (Reported' <=> Reported)
  BY DEF Reported
<1> QED
  BY <1>1, <1>2, <1>3

-----------------------------------------------------------------------------
(* Every step keeps the invariant.                                          *)

Rest == Gone /\ Opening /\ Configured /\ (Clean => CleanInv)

\* When no message moves, the predicates about the messages stay as they are.
LEMMA Unmoved ==
  ASSUME UNCHANGED <<toM, toL, gw>>
  PROVE  /\ NoControl' <=> NoControl
         /\ StartIsLast' <=> StartIsLast
         /\ StoppedAtEnd' <=> StoppedAtEnd
         /\ Ordered' <=> Ordered
         /\ EventUnderWay' <=> EventUnderWay
         /\ OnlyActive' <=> OnlyActive
         /\ BusOffUnderWay' <=> BusOffUnderWay
         /\ BusOffLast' <=> BusOffLast
         /\ Reported' <=> Reported
<1>1. (NoControl' <=> NoControl) /\ (StartIsLast' <=> StartIsLast)
  BY DEF NoControl, StartIsLast
<1>2. StoppedAtEnd' <=> StoppedAtEnd
  BY DEF StoppedAtEnd
<1>3. Ordered' <=> Ordered
  <2>1. ASSUME NEW k \in 1..Len(toM)
        PROVE  (StoppedAt(k)' <=> StoppedAt(k)) /\ (FramesBefore(k)' <=> FramesBefore(k))
    BY DEF StoppedAt, FramesBefore
  <2> QED
    BY <2>1 DEF Ordered
<1> QED
  BY <1>1, <1>2, <1>3, SameEvents

\* The steps that only write the driver's own state.
LEMMA QuietRest ==
  ASSUME TypeOK, Rest,
         Configure \/ OpenSet \/ RestartSet \/ WorkSet \/ StopSet \/ StopClose \/ Remove
  PROVE  Rest'
<1>1. /\ UNCHANGED <<toM, toL, gw, todo>>
      /\ hist'.dropped = hist.dropped /\ hist'.crossed = hist.crossed
      /\ dev' = "gone" => dev = "gone"
      /\ UNCHANGED <<rate, mode, auto>> \/ Configure
  <2>1. CASE Remove
    BY <2>1 DEF Remove, settings, netdev, TypeOK, HistTypes
  <2>2. CASE Configure \/ OpenSet \/ RestartSet \/ WorkSet \/ StopSet \/ StopClose
    BY <2>2 DEF Configure, OpenSet, RestartSet, WorkSet, StopSet, StopClose, settings, netdev
  <2> QED
    BY <2>1, <2>2
<1>r. \/ rtnl = "down" /\ rtnl' = "down" /\ state' = state /\ work' = work
      \/ rtnl = "set" /\ rtnl' = "up" /\ state' = "active" /\ work' = work /\ OpenSet
      \/ rtnl = "again" /\ rtnl' = "up" /\ state' = "active" /\ work' = work /\ RestartSet
      \/ rtnl' = rtnl /\ state' = "active" /\ work = "running" /\ work' = "idle" /\ WorkSet
      \/ rtnl' = rtnl /\ state' = "active" /\ work = "rerun" /\ work' = "pending" /\ WorkSet
      \/ rtnl = "stop" /\ rtnl' = "close" /\ work' = work /\ StopSet
      \/ rtnl = "close" /\ rtnl' = "down" /\ work' = "idle" /\ StopClose
      \/ rtnl' = rtnl /\ state' = state /\ work' = work /\ Remove
  <2>1. CASE Remove \/ StopSet \/ StopClose
    BY <2>1 DEF Remove, StopSet, StopClose, netdev
  <2>2. CASE Configure \/ OpenSet \/ RestartSet \/ WorkSet
    BY <2>2 DEF Configure, OpenSet, RestartSet, WorkSet, netdev, StateAfterStart
  <2> QED
    BY <2>1, <2>2
<1>2. Gone'
  BY <1>1, <1>r DEF Rest, Gone, OpenSet, RestartSet, StopSet, StopClose, Remove
<1>3. CASE Configure
  <2>1. /\ rtnl = "down" /\ rtnl' = "down" /\ state' = state /\ work' = work
    BY <1>3 DEF Configure, netdev
  <2>2. Opening' /\ Configured'
    BY <2>1 DEF Opening, Configured
  <2>3. ASSUME Clean' PROVE CleanInv'
    BY <1>1, <2>1, <2>3, Unmoved
    DEF Rest, Clean, CleanInv, WorkInv, Downwards, Upwards, BusOff
  <2> QED
    BY <1>2, <2>2, <2>3 DEF Rest
<1>4. CASE ~Configure
  <2>1. UNCHANGED <<rate, mode, auto>>
    BY <1>1, <1>4
  <2>2. (RateArrives' <=> RateArrives) /\ (ModeArrives' <=> ModeArrives)
    BY <1>1, <2>1, SameMessages
  <2>3. Opening'
    BY <1>1, <1>r, <2>1, <2>2 DEF Rest, Opening, OpenMessages
  <2>4. Configured'
    BY <1>1, <1>r, <2>2 DEF Rest, Configured
  <2>5. ASSUME Clean' PROVE CleanInv'
    <3>1. CleanInv
      BY <1>1, <2>5 DEF Clean, Rest
    <3>2. WorkInv' /\ Downwards'
      BY <1>r, <2>1, <3>1, Unmoved, <1>1 DEF CleanInv, WorkInv, Downwards
    <3>3. Upwards'
      BY <1>r, <3>1, Unmoved, <1>1 DEF CleanInv, Upwards, WorkInv
    <3>4. BusOff'
      BY <1>r, <3>1, Unmoved, <1>1 DEF CleanInv, BusOff, WorkInv
    <3> QED
      BY <1>1, <3>1, <3>2, <3>3, <3>4, Unmoved DEF CleanInv
  <2> QED
    BY <1>2, <2>3, <2>4, <2>5 DEF Rest
<1> QED
  BY <1>3, <1>4

\* A setting may be sent to a gateway that will have stopped, a start also to one that
\* is bus-off and has nothing else to read.
LEMMA AppendOrdered ==
  ASSUME toM \in Seq(Messages), NEW m \in Messages, toM' = Append(toM, m), gw' = gw, Ordered,
         m \in Setting => StoppedAtEnd,
         m = <<"start">> => StoppedAtEnd \/ (gw.state = "busoff" /\ NoControl)
  PROVE  Ordered'
<1>1. /\ Len(toM) \in Nat /\ Len(toM') = Len(toM) + 1 /\ toM'[Len(toM) + 1] = m
      /\ \A k \in 1..Len(toM') : k \in 1..Len(toM) \/ (k = Len(toM) + 1 /\ k \in Nat)
      /\ \A k \in 1..Len(toM) : toM'[k] = toM[k]
  BY Appended
<1>2. ASSUME NEW k \in 1..Len(toM)
      PROVE  /\ toM'[k] \in Setting => StoppedAt(k)'
             /\ toM'[k] = <<"start">> => StoppedAt(k)' \/ (gw'.state = "busoff" /\ FramesBefore(k)')
  BY <1>1, AppendToM DEF Ordered
<1>3. ASSUME NEW k \in Nat, k = Len(toM) + 1
      PROVE  /\ toM'[k] \in Setting => StoppedAt(k)'
             /\ toM'[k] = <<"start">> => StoppedAt(k)' \/ (gw'.state = "busoff" /\ FramesBefore(k)')
  BY <1>1, <1>3, AppendToM
<1> QED
  BY <1>1, <1>2, <1>3 DEF Ordered

\* The gateway reads what is left in the same order.
LEMMA TakeOrdered == ASSUME TypeOK, GwReceive, Ordered PROVE Ordered'
<1>1. ASSUME NEW k \in 1..Len(toM')
      PROVE  /\ toM'[k] \in Setting => StoppedAt(k)'
             /\ toM'[k] = <<"start">> => StoppedAt(k)' \/ (gw'.state = "busoff" /\ FramesBefore(k)')
  <2>1. k + 1 \in 1..Len(toM) /\ toM'[k] = toM[k + 1]
    BY TakeFromM
  <2>2. StoppedAt(k + 1) => StoppedAt(k)'
    BY TakeFromM
  <2>3. FramesBefore(k + 1) => FramesBefore(k)' /\ gw'.state = gw.state
    BY TakeFromM, GwReads, Kinds
  <2>4. /\ toM[k + 1] \in Setting => StoppedAt(k + 1)
        /\ toM[k + 1] = <<"start">> => StoppedAt(k + 1) \/ (gw.state = "busoff" /\ FramesBefore(k + 1))
    BY <2>1 DEF Ordered
  <2> QED
    BY <2>1, <2>2, <2>3, <2>4
<1> QED
  BY <1>1 DEF Ordered

\* Open sends its messages one after the other.
LEMMA OpenSendRest == ASSUME TypeOK, Rest, OpenSend PROVE Rest'
<1>1. /\ rtnl = "send" /\ todo' = Tail(todo) /\ rtnl' = IF todo' = <<>> THEN "set" ELSE "send"
      /\ UNCHANGED <<dev, state, work, rate, mode, auto, toL, gw>>
  BY DEF OpenSend, netdev, settings
<1>2. Head(todo) \in Control /\ CtrlSend(hist, Head(todo)) /\ Head(todo) \in Messages
  BY <1>1, OpeningTypes DEF OpenSend, Rest, Messages
<1>3. /\ ~hist'.dropped => ~hist.dropped /\ toM' = Append(toM, Head(todo))
      /\ ~hist'.crossed => ~hist.crossed /\ ~EventUnderWay
  BY <1>2, CtrlSends DEF TypeOK
<1>4. /\ <<"rate", rate>> \in RateSettings /\ <<"rate", rate>> \notin ModeSettings
      /\ <<"mode", mode>> \in ModeSettings /\ <<"mode", mode>> \notin RateSettings
      /\ <<"start">> \notin RateSettings /\ <<"start">> \notin ModeSettings
  BY Kinds DEF RateSettings, ModeSettings, TypeOK
<1>5. \/ /\ Head(todo) = <<"rate", rate>> /\ rtnl' = "send"
         /\ todo' = <<<<"mode", mode>>, <<"start">>>>
      \/ /\ Head(todo) = <<"mode", mode>> /\ rtnl' = "send"
         /\ todo' = <<<<"start">>>>
         /\ ~hist.dropped => RateArrives
      \/ /\ Head(todo) = <<"start">> /\ rtnl' = "set"
         /\ ~hist.dropped => RateArrives /\ ModeArrives
  <2>1. CASE todo = OpenMessages
    BY <1>1, <2>1 DEF OpenMessages
  <2>2. CASE todo = <<<<"mode", mode>>, <<"start">>>> /\ (~hist.dropped => RateArrives)
    BY <1>1, <2>2
  <2>3. CASE todo = <<<<"start">>>> /\ (~hist.dropped => RateArrives /\ ModeArrives)
    BY <1>1, <2>3
  <2> QED
    BY <1>1, <2>1, <2>2, <2>3 DEF Rest, Opening
<1>6. ASSUME ~hist'.dropped
      PROVE  /\ Head(todo) \notin RateSettings /\ RateArrives => RateArrives'
             /\ Head(todo) \notin ModeSettings /\ ModeArrives => ModeArrives'
             /\ Head(todo) = <<"rate", rate>> => RateArrives'
             /\ Head(todo) = <<"mode", mode>> => ModeArrives'
  BY <1>1, <1>2, <1>3, <1>6, AppendSetting, VringTypes
<1>7. Gone'
  BY <1>1 DEF Rest, Gone
<1>8. Opening'
  BY <1>1, <1>3, <1>4, <1>5, <1>6 DEF Opening
<1>9. Configured'
  BY <1>1, <1>3, <1>4, <1>5, <1>6 DEF Configured
<1>10. ASSUME Clean' PROVE CleanInv'
  <2>1. CleanInv /\ ~EventUnderWay /\ toM' = Append(toM, Head(todo)) /\ StoppedAtEnd
    BY <1>1, <1>3, <1>10 DEF Clean, Rest, CleanInv, Downwards
  <2>2. WorkInv' /\ work = "idle"
    BY <1>1, <2>1, <1>5 DEF CleanInv, WorkInv
  <2>3. Ordered'
    BY <1>1, <1>2, <2>1, AppendOrdered, VringTypes DEF CleanInv
  <2>4. Downwards'
    BY <1>1, <1>2, <1>5, <2>1, AppendToM, VringTypes, Kinds, <1>4 DEF Downwards
  <2>5. Upwards'
    BY <1>1, <1>2, <1>5, <2>1, AppendToM, VringTypes DEF Upwards
  <2>6. BusOff'
    BY <1>1, <1>5, <2>1, SameEvents DEF CleanInv, BusOff, BusOffUnderWay, EventUnderWay, Rx
  <2> QED
    BY <2>2, <2>3, <2>4, <2>5, <2>6 DEF CleanInv
<1> QED
  BY <1>7, <1>8, <1>9, <1>10 DEF Rest

\* No event under way is no bus-off under way.
LEMMA NoEventNoBusOff ==
  ASSUME ~EventUnderWay, toL' = toL
  PROVE  ~BusOffUnderWay' /\ BusOffLast' /\ OnlyActive' /\ ~EventUnderWay'
  BY SameEvents DEF EventUnderWay, BusOffUnderWay, BusOffLast, OnlyActive, Rx

\* Stop, by hand or in remove.
LEMMA StopRest == ASSUME TypeOK, Rest, StopSend, dev # "gone" PROVE Rest'
<1> DEFINE h == [hist EXCEPT !.crossed = @ \/ work # "idle"]
<1>1. /\ rtnl = "up" /\ rtnl' = "stop" /\ CtrlSend(h, <<"stop">>)
      /\ UNCHANGED <<dev, todo, state, work, toL, gw>>
  BY DEF StopSend, StopMessage, settings
<1>2. h \in HistTypes /\ (h.dropped <=> hist.dropped) /\ (~h.crossed => ~hist.crossed /\ work = "idle")
  BY DEF TypeOK, HistTypes
<1>3. <<"stop">> \in Control /\ <<"stop">> \in Messages
  BY DEF Control, Messages
<1> HIDE DEF h
<1>4. /\ ~hist'.dropped => ~hist.dropped /\ toM' = Append(toM, <<"stop">>)
      /\ ~hist'.crossed => ~hist.crossed /\ work = "idle" /\ ~EventUnderWay
  BY <1>1, <1>2, <1>3, CtrlSends
<1>5. Gone' /\ Opening' /\ Configured'
  BY <1>1 DEF Rest, Gone, Opening, Configured
<1>6. ASSUME Clean' PROVE CleanInv'
  <2>1. CleanInv /\ work = "idle" /\ ~EventUnderWay /\ toM' = Append(toM, <<"stop">>)
    BY <1>4, <1>6 DEF Clean, Rest
  <2>2. Ordered'
    BY <1>1, <1>3, <2>1, AppendOrdered, VringTypes, Kinds DEF CleanInv
  <2>3. StoppedAtEnd'
    BY <1>1, <1>3, <2>1, AppendToM, VringTypes
  <2>4. WorkInv' /\ Downwards' /\ Upwards'
    BY <1>1, <2>1, <2>3 DEF WorkInv, Downwards, Upwards
  <2>5. BusOff'
    BY <1>1, <2>1, NoEventNoBusOff DEF BusOff
  <2> QED
    BY <2>2, <2>4, <2>5 DEF CleanInv
<1> QED
  BY <1>5, <1>6 DEF Rest

\* A restart, by hand or by the restart work, sends a start to a gateway that is bus-off.
LEMMA RestartRest == ASSUME TypeOK, Rest, Restart \/ Work PROVE Rest'
<1> DEFINE h == IF Restart THEN hist ELSE [hist EXCEPT !.crossed = @ \/ rtnl # "up"]
<1>1. /\ CtrlSend(h, <<"start">>) /\ dev # "gone"
      /\ UNCHANGED <<dev, todo, state, rate, mode, auto, toL, gw>>
      /\ \/ rtnl = "up" /\ rtnl' = "again" /\ ~auto /\ state = "busoff" /\ work' = work
         \/ rtnl' = rtnl /\ work = "pending" /\ work' = "running"
  <2>1. CASE Restart
    BY <2>1 DEF Restart, MayRestart, settings
  <2>2. CASE ~Restart
    BY <2>2 DEF Work, settings
  <2> QED
    BY <2>1, <2>2
<1>2. h \in HistTypes /\ (h.dropped <=> hist.dropped) /\ (~h.crossed => ~hist.crossed /\ rtnl = "up")
  <2>1. CASE Restart
    BY <2>1 DEF TypeOK, Restart
  <2>2. CASE ~Restart
    BY <2>2 DEF TypeOK, HistTypes
  <2> QED
    BY <2>1, <2>2
<1>3. /\ <<"start">> \in Control /\ <<"start">> \in Messages
      /\ <<"start">> \notin RateSettings /\ <<"start">> \notin ModeSettings
  BY Kinds DEF Control, Messages
<1> HIDE DEF h
<1>4. /\ ~hist'.dropped => ~hist.dropped /\ toM' = Append(toM, <<"start">>)
      /\ ~hist'.crossed => ~hist.crossed /\ rtnl = "up" /\ ~EventUnderWay
  BY <1>1, <1>2, <1>3, CtrlSends
<1>5. ASSUME ~hist'.dropped
      PROVE  (RateArrives => RateArrives') /\ (ModeArrives => ModeArrives')
  BY <1>1, <1>3, <1>4, <1>5, AppendSetting, VringTypes
<1>6. Gone'
  BY <1>1 DEF Gone
<1>7. Opening'
  BY <1>1, <1>4, <1>5 DEF Rest, Opening, OpenMessages
<1>8. Configured'
  BY <1>1, <1>4, <1>5 DEF Rest, Configured
<1>9. ASSUME Clean' PROVE CleanInv'
  <2>1. CleanInv /\ rtnl = "up" /\ ~EventUnderWay /\ toM' = Append(toM, <<"start">>)
    BY <1>4, <1>9 DEF Clean, Rest
  <2>2. NoControl /\ gw.state = "busoff" /\ state = "busoff"
    BY <1>1, <2>1 DEF CleanInv, BusOff, WorkInv
  <2>3. Ordered'
    BY <1>1, <1>3, <2>1, <2>2, AppendOrdered, VringTypes, Kinds DEF CleanInv
  <2>4. StartIsLast'
    BY <1>1, <1>3, <2>1, AppendToM, VringTypes
  <2>5. WorkInv' /\ Downwards' /\ Upwards'
    BY <1>1, <2>1, <2>2, <2>4 DEF CleanInv, WorkInv, Downwards, Upwards
  <2>6. BusOff'
    BY <1>1, <2>1, NoEventNoBusOff DEF CleanInv, BusOff, WorkInv
  <2> QED
    BY <2>3, <2>5, <2>6 DEF CleanInv
<1> QED
  BY <1>6, <1>7, <1>8, <1>9 DEF Rest

\* A frame to the gateway.
LEMMA XmitRest == ASSUME TypeOK, Rest, Xmit PROVE Rest'
<1>1. /\ rtnl \in {"up", "again"} /\ toM' = Sent(toM, Frame)
      /\ UNCHANGED <<dev, rtnl, todo, state, work, rate, mode, auto, toL, gw, hist>>
  BY DEF Xmit, netdev, settings
<1>2. CASE toM' = toM
  <2>1. Gone' /\ Opening' /\ Configured'
    BY <1>1, <1>2, SameMessages DEF Rest, Gone, Opening, Configured
  <2>2. Clean' => CleanInv'
    BY <1>1, <1>2, Unmoved DEF Rest, Clean, CleanInv, WorkInv, Downwards, Upwards, BusOff
  <2> QED
    BY <2>1, <2>2 DEF Rest
<1>3. CASE toM' = Append(toM, Frame)
  <2>1. /\ Frame \in Messages /\ Frame \notin Setting /\ Frame # <<"start">>
        /\ Frame \notin RateSettings /\ Frame \notin ModeSettings
    BY Kinds DEF Messages
  <2>2. Gone' /\ Opening'
    BY <1>1 DEF Rest, Gone, Opening
  <2>3. Configured'
    BY <1>1, <1>3, <2>1, AppendSetting, VringTypes DEF Rest, Configured
  <2>4. ASSUME Clean' PROVE CleanInv'
    <3>1. CleanInv
      BY <1>1, <2>4 DEF Clean, Rest
    <3>2. Ordered'
      BY <1>1, <1>3, <2>1, <3>1, AppendOrdered, VringTypes DEF CleanInv
    <3>3. (NoControl => NoControl') /\ (StartIsLast => StartIsLast')
      BY <1>1, <1>3, <2>1, AppendToM, VringTypes
    <3>4. WorkInv' /\ Downwards' /\ Upwards'
      BY <1>1, <3>1, <3>3, SameEvents DEF CleanInv, WorkInv, Downwards, Upwards
    <3>5. BusOff'
      BY <1>1, <3>1, <3>3, SameEvents DEF CleanInv, BusOff
    <3> QED
      BY <3>2, <3>4, <3>5 DEF CleanInv
  <2> QED
    BY <2>2, <2>3, <2>4 DEF Rest
<1> QED
  BY <1>1, <1>2, <1>3 DEF Sent

\* Open: the messages are ready, a gateway at rest forgets what went wrong before.
LEMMA OpenRest == ASSUME TypeOK, Rest, Open PROVE Rest'
<1>1. /\ dev = "bound" /\ rtnl = "down" /\ rtnl' = "send" /\ todo' = OpenMessages
      /\ UNCHANGED <<dev, state, work, rate, mode, auto, toM, toL, gw>>
  BY DEF Open, settings
<1>2. /\ ~hist'.dropped => ~hist.dropped \/ AtRest
      /\ ~hist'.crossed => (~hist.crossed \/ AtRest) /\ ~EventUnderWay /\ work = "idle"
  <2> DEFINE d == hist.dropped /\ ~AtRest
             x == (hist.crossed /\ ~AtRest) \/ EventUnderWay \/ work # "idle"
  <2>1. hist' = [hist EXCEPT !.opens = @ + 1, !.dropped = d, !.crossed = x]
    BY DEF Open
  <2>2. (~d => ~hist.dropped \/ AtRest)
        /\ (~x => (~hist.crossed \/ AtRest) /\ ~EventUnderWay /\ work = "idle")
    OBVIOUS
  <2> HIDE DEF d, x
  <2>3. (hist'.dropped <=> d) /\ (hist'.crossed <=> x)
    BY <2>1 DEF TypeOK, HistTypes
  <2> QED
    BY <2>2, <2>3
<1>3. Gone' /\ Opening' /\ Configured'
  BY <1>1 DEF Gone, Opening, OpenMessages, Configured
<1>4. ASSUME Clean' PROVE CleanInv'
  <2>1. ~EventUnderWay /\ work = "idle" /\ (AtRest \/ Clean)
    BY <1>2, <1>4 DEF Clean
  <2>2. Ordered /\ StoppedAtEnd
    <3>1. CASE AtRest
      BY <3>1 DEF AtRest, Ordered, StoppedAtEnd
    <3>2. CASE Clean
      BY <1>1, <3>2 DEF Rest, CleanInv, Downwards
    <3> QED
      BY <2>1, <3>1, <3>2
  <2>3. Ordered' /\ StoppedAtEnd'
    BY <1>1, <2>2, Unmoved
  <2>4. WorkInv' /\ Downwards' /\ Upwards'
    BY <1>1, <2>1, <2>3 DEF WorkInv, Downwards, Upwards
  <2>5. BusOff'
    BY <1>1, <2>1, NoEventNoBusOff DEF BusOff
  <2> QED
    BY <2>3, <2>4, <2>5 DEF CleanInv
<1> QED
  BY <1>3, <1>4 DEF Rest

\* The channel goes, and comes back with a gateway that has just started.
LEMMA ChannelRest == ASSUME TypeOK, Rest, Free \/ Probe PROVE Rest'
<1>1. /\ rtnl = "down" /\ rtnl' = "down" /\ toM' = <<>> /\ toL' = <<>> /\ gw'.state = "stopped"
  <2>1. CASE Free
    BY <2>1 DEF Free, TypeOK
  <2>2. CASE Probe
    BY <2>2 DEF Probe, Rest, Gone, NewGateways
  <2> QED
    BY <2>1, <2>2
<1>2. Gone' /\ Opening' /\ Configured'
  BY <1>1 DEF Gone, Opening, Configured
<1>3. StoppedAtEnd' /\ Ordered' /\ ~BusOffUnderWay' /\ BusOffLast' /\ OnlyActive'
  BY <1>1 DEF StoppedAtEnd, Ordered, BusOffUnderWay, BusOffLast, OnlyActive
<1>4. Clean' => WorkInv'
  <2>1. CASE Free
    BY <2>1 DEF Free, TypeOK, Rest, Clean, CleanInv, WorkInv, netdev, settings
  <2>2. CASE Probe
    BY <2>2 DEF Probe, WorkInv
  <2> QED
    BY <2>1, <2>2
<1> QED
  BY <1>1, <1>2, <1>3, <1>4 DEF Rest, CleanInv, Downwards, Upwards, BusOff

\* Frames to Linux change nothing that matters.
LEMMA FrameRest == ASSUME TypeOK, Rest, RxFrame \/ GwFrame PROVE Rest'
<1>1. /\ UNCHANGED <<rtnl, dev, todo, state, work, rate, mode, auto, toM, gw, hist>>
      /\ dev = "gone" => toL # <<>>
  BY DEF RxFrame, GwFrame, netdev, settings
<1>2. (EventUnderWay' => EventUnderWay) /\ (Reported => Reported') /\ (OnlyActive => OnlyActive')
      /\ (BusOffUnderWay' => BusOffUnderWay) /\ (BusOffLast => BusOffLast')
  <2>1. CASE RxFrame
    <3>1. toL # <<>> /\ toL' = Tail(toL) /\ Head(toL) = Rx /\ gw.state # Rx
      BY <2>1 DEF RxFrame, TypeOK, States, Errors, Rx
    <3> QED
      BY <1>1, <3>1, TakeFromL, VringTypes
  <2>2. CASE GwFrame /\ toL' = toL
    BY <1>1, <2>2, SameEvents
  <2>3. CASE toL' = Append(toL, Rx)
    <3>1. Rx \in Events /\ Rx # "busoff"
      BY DEF Events, Rx
    <3> QED
      BY <1>1, <2>3, <3>1, AppendToL, VringTypes
  <2> QED
    BY <2>1, <2>2, <2>3 DEF GwFrame, Sent
<1>3. /\ NoControl' <=> NoControl
      /\ StartIsLast' <=> StartIsLast
      /\ StoppedAtEnd' <=> StoppedAtEnd
      /\ RateArrives' <=> RateArrives
      /\ ModeArrives' <=> ModeArrives
  BY <1>1, SameMessages
<1>4. Ordered => Ordered'
  <2>1. ASSUME NEW k \in 1..Len(toM)
        PROVE  (StoppedAt(k)' <=> StoppedAt(k)) /\ (FramesBefore(k)' <=> FramesBefore(k))
    BY <1>1 DEF StoppedAt, FramesBefore
  <2> QED
    BY <1>1, <2>1 DEF Ordered
<1>5. Gone'
  BY <1>1 DEF Rest, Gone
<1>6. Opening' /\ Configured'
  BY <1>1, <1>3 DEF Rest, Opening, Configured, OpenMessages
<1>7. Clean' => CleanInv'
  BY <1>1, <1>2, <1>3, <1>4
  DEF Rest, Clean, CleanInv, WorkInv, Downwards, Upwards, BusOff
<1> QED
  BY <1>5, <1>6, <1>7 DEF Rest

\* An event is taken for what it says; where it crosses something the history says so.
LEMMA RxStateRest == ASSUME TypeOK, Rest, RxState PROVE Rest'
<1>1. /\ toL # <<>> /\ Head(toL) # Rx /\ toL' = Tail(toL) /\ state' = Head(toL)
      /\ UNCHANGED <<dev, todo, rtnl, rate, mode, auto, toM, gw>>
      /\ IF auto /\ state # "busoff" /\ state' = "busoff"
         THEN work' = IF work \in {"idle", "pending"} THEN "pending" ELSE "rerun"
         ELSE work' = work
  BY DEF RxState, settings
<1>2. /\ hist'.dropped = hist.dropped
      /\ ~hist'.crossed => ~hist.crossed /\ rtnl = "up" /\ work = "idle" /\ NoControl
  <2> DEFINE x == hist.crossed \/ rtnl # "up" \/ work # "idle"
                  \/ \E k \in 1..Len(toM) : toM[k] # Frame
  <2>1. hist' = [hist EXCEPT !.crossed = x]
    BY DEF RxState
  <2>2. ~x => ~hist.crossed /\ rtnl = "up" /\ work = "idle" /\ NoControl
    BY DEF NoControl
  <2> HIDE DEF x
  <2>3. (hist'.crossed <=> x) /\ hist'.dropped = hist.dropped
    BY <2>1 DEF TypeOK, HistTypes
  <2> QED
    BY <2>2, <2>3
<1>3. Gone'
  BY <1>1 DEF Rest, Gone
<1>4. Opening' /\ Configured'
  BY <1>1, <1>2, SameMessages DEF Rest, Opening, Configured, OpenMessages
<1>5. ASSUME Clean' PROVE CleanInv'
  <2>1. CleanInv /\ rtnl = "up" /\ work = "idle" /\ NoControl
    BY <1>2, <1>5 DEF Clean, Rest
  <2>2. /\ Reported => Reported' \/ (Head(toL) = gw.state /\ ~EventUnderWay')
        /\ BusOffUnderWay' => BusOffUnderWay
        /\ Head(toL) = "busoff" => BusOffUnderWay
        /\ BusOffLast => BusOffLast' /\ (Head(toL) = "busoff" => ~EventUnderWay')
        /\ EventUnderWay
    BY <1>1, TakeFromL, VringTypes
  <2>3. /\ NoControl' <=> NoControl
        /\ StartIsLast' <=> StartIsLast
    BY <1>1, SameMessages
  <2>4. Ordered'
    <3>1. ASSUME NEW k \in 1..Len(toM)
          PROVE  (StoppedAt(k)' <=> StoppedAt(k)) /\ (FramesBefore(k)' <=> FramesBefore(k))
      BY <1>1 DEF StoppedAt, FramesBefore
    <3> QED
      BY <1>1, <2>1, <3>1 DEF CleanInv, Ordered
  <2>5. WorkInv' /\ Downwards'
    BY <1>1, <2>1 DEF WorkInv, Downwards
  <2>6. Upwards'
    BY <1>1, <2>1, <2>2, <2>3 DEF CleanInv, Upwards
  <2>7. BusOff'
    BY <1>1, <2>1, <2>2, <2>3 DEF CleanInv, BusOff
  <2> QED
    BY <2>4, <2>5, <2>6, <2>7 DEF CleanInv
<1> QED
  BY <1>3, <1>4, <1>5 DEF Rest

\* The gateway reads a message.
LEMMA ReceiveRest == ASSUME TypeOK, Rest, GwReceive PROVE Rest'
<1>1. UNCHANGED <<dev, todo, rtnl, state, work, rate, mode, auto>>
  BY DEF GwReceive, netdev, settings
<1>2. /\ ~hist'.dropped => ~hist.dropped /\ (toM[1] = <<"start">> => ~Full(toL))
      /\ hist'.crossed = hist.crossed
  <2> DEFINE d == hist.dropped \/ (toM[1] = <<"start">> /\ Full(toL))
  <2>1. hist' = [hist EXCEPT !.dropped = d]
    BY GwReads
  <2>2. ~d => ~hist.dropped /\ (toM[1] = <<"start">> => ~Full(toL))
    OBVIOUS
  <2> HIDE DEF d
  <2>3. (hist'.dropped <=> d) /\ hist'.crossed = hist.crossed
    BY <2>1 DEF TypeOK, HistTypes
  <2> QED
    BY <2>2, <2>3
<1>3. Gone'
  BY <1>1, GwReads DEF Rest, Gone
<1>4. Opening' /\ Configured'
  BY <1>1, <1>2, ReadSetting DEF Rest, Opening, Configured, OpenMessages
<1>5. ASSUME Clean' PROVE CleanInv'
  <2>1. CleanInv
    BY <1>2, <1>5 DEF Clean, Rest
  <2>2. Ordered' /\ WorkInv' /\ Downwards'
    BY <1>1, <2>1, TakeOrdered, TakeFromM DEF CleanInv, WorkInv, Downwards
  <2>3. /\ NoControl => NoControl' /\ toM[1] = Frame
        /\ StartIsLast => StartIsLast' \/ (NoControl' /\ toM[1] = <<"start">>)
    BY TakeFromM
  <2>4. CASE toM[1] = <<"start">>
    <3>1. toM[1] # Frame /\ 1 \in 1..Len(toM)
      BY <2>4, Kinds, GwReads, VringTypes
    <3>2. gw.state \in {"stopped", "busoff"}
      <4>1. StoppedAt(1) \/ gw.state = "busoff"
        BY <2>1, <2>4, <3>1 DEF CleanInv, Ordered
      <4> QED
        BY <4>1 DEF StoppedAt
    <3>3. gw'.state = "active" /\ toL' = Append(toL, "active")
      BY <1>2, <1>5, <2>4, <3>2, GwReads DEF Clean, Sent
    <3>4. ~NoControl /\ ~BusOffUnderWay
      BY <2>1, <2>3, <3>1 DEF CleanInv, BusOff
    <3>5. /\ Reported' /\ ~BusOffUnderWay' /\ BusOffLast'
          /\ OnlyActive => OnlyActive'
      <4>1. "active" \in Events /\ "active" # "busoff" /\ "active" # Rx
        BY DEF Events, States, Rx
      <4> QED
        BY <2>1, <3>3, <3>4, <4>1, AppendToL, VringTypes DEF CleanInv, BusOff
    <3>6. Upwards'
      BY <1>1, <2>1, <2>3, <3>3, <3>4, <3>5 DEF CleanInv, Upwards
    <3>7. BusOff'
      BY <1>1, <2>1, <3>4, <3>5 DEF CleanInv, BusOff
    <3> QED
      BY <2>2, <3>6, <3>7 DEF CleanInv
  <2>5. CASE toM[1] # <<"start">>
    <3>1. toL' = toL /\ (toM[1] # <<"stop">> => gw'.state = gw.state)
      BY <2>5, GwReads
    <3>2. NoControl => gw'.state = gw.state
      BY <2>3, <3>1, Kinds
    <3>3. Upwards'
      BY <1>1, <2>1, <2>3, <2>5, <3>1, <3>2, SameEvents DEF CleanInv, Upwards
    <3>4. BusOff'
      BY <1>1, <2>1, <2>3, <3>1, <3>2, SameEvents DEF CleanInv, BusOff
    <3> QED
      BY <2>2, <3>3, <3>4 DEF CleanInv
  <2> QED
    BY <2>4, <2>5
<1> QED
  BY <1>3, <1>4, <1>5 DEF Rest

\* The bus gets worse.
LEMMA BusErrorRest == ASSUME TypeOK, Rest, BusError PROVE Rest'
<1>1. /\ UNCHANGED <<dev, todo, rtnl, state, work, rate, mode, auto, toM>>
      /\ gw.state \in {"active", "passive"}
  BY DEF BusError, netdev, settings
<1>2. PICK s \in Errors \ {gw.state} : gw' = [gw EXCEPT !.state = s] /\ Report(s)
  BY DEF BusError
<1>3. /\ gw'.state = s /\ s \in {"passive", "busoff"} /\ toL' = Sent(toL, s)
      /\ gw'.rate = gw.rate /\ gw'.mode = gw.mode
  BY <1>2 DEF TypeOK, Report, Errors
<1>4. /\ ~hist'.dropped => ~hist.dropped /\ ~Full(toL)
      /\ ~hist'.crossed => ~hist.crossed /\ rtnl = "up" /\ NoControl
  <2> DEFINE d == hist.dropped \/ Full(toL)
             x == hist.crossed \/ rtnl # "up" \/ \E k \in 1..Len(toM) : toM[k] # Frame
  <2>1. hist' = [hist EXCEPT !.faults = @ + 1, !.dropped = d, !.crossed = x]
    BY DEF BusError
  <2>2. (~d => ~hist.dropped /\ ~Full(toL)) /\ (~x => ~hist.crossed /\ rtnl = "up" /\ NoControl)
    BY DEF NoControl
  <2> HIDE DEF d, x
  <2>3. (hist'.dropped <=> d) /\ (hist'.crossed <=> x)
    BY <2>1 DEF TypeOK, HistTypes
  <2> QED
    BY <2>2, <2>3
<1>5. Gone'
  BY <1>1 DEF Rest, Gone
<1>6. Opening' /\ Configured'
  BY <1>1, <1>3, <1>4, SameMessages DEF Rest, Opening, Configured, OpenMessages
<1>7. ASSUME Clean' PROVE CleanInv'
  <2>1. CleanInv /\ rtnl = "up" /\ NoControl /\ toL' = Append(toL, s)
    BY <1>3, <1>4, <1>7 DEF Clean, Rest, Sent
  <2>2. NoControl'
    BY <1>1, <1>3, <2>1, SameMessages
  <2>3. Ordered'
    BY <1>1, <2>1, <2>2, Kinds DEF Ordered, NoControl
  <2>4. s \in Events /\ s # Rx /\ s # "stopped"
    BY <1>3 DEF Events, States, Errors, Rx
  <2>5. ~BusOffUnderWay
    BY <1>1, <2>1 DEF CleanInv, BusOff
  <2>6. Reported' /\ BusOffLast' /\ (BusOffUnderWay' => s = "busoff")
    BY <1>3, <2>1, <2>4, <2>5, AppendToL, VringTypes DEF CleanInv, BusOff
  <2>7. WorkInv' /\ Downwards' /\ Upwards'
    BY <1>1, <1>3, <2>1, <2>2, <2>4, <2>6 DEF CleanInv, WorkInv, Downwards, Upwards
  <2>8. BusOff'
    BY <1>1, <1>3, <2>1, <2>2, <2>6 DEF CleanInv, BusOff
  <2> QED
    BY <2>3, <2>7, <2>8 DEF CleanInv
<1> QED
  BY <1>5, <1>6, <1>7 DEF Rest

-----------------------------------------------------------------------------
(* Theorems.                                                                *)

\* The invariant holds at first, and every step keeps it.
LEMMA InitCanInv == Init => CanInv
<1> SUFFICES ASSUME Init PROVE CanInv
  OBVIOUS
<1>1. /\ dev = "bound" /\ rtnl = "down" /\ toM = <<>> /\ toL = <<>> /\ work = "idle"
      /\ gw.state = "stopped"
  BY DEF Init, NewDevice, NewGateways
<1>2. Gone /\ Opening /\ Configured
  BY <1>1 DEF Gone, Opening, Configured
<1>3. StoppedAtEnd /\ Ordered /\ ~BusOffUnderWay /\ BusOffLast /\ OnlyActive
  BY <1>1 DEF StoppedAtEnd, Ordered, BusOffUnderWay, BusOffLast, OnlyActive
<1>4. CleanInv
  BY <1>1, <1>3 DEF CleanInv, WorkInv, Downwards, Upwards, BusOff
<1> QED
  BY <1>2, <1>4, InitTypes DEF CanInv

LEMMA NextCanInv == CanInv /\ [Next]_vars => CanInv'
<1> SUFFICES ASSUME TypeOK, Rest, [Next]_vars PROVE TypeOK' /\ Rest'
  BY DEF CanInv, Rest
<1>1. CASE Admin \/ RtnlHolder
  <2>1. TypeOK'
    BY <1>1, LinkTypes DEF Rest
  <2>2. ASSUME Stop \/ RemoveStop PROVE Rest'
    BY <2>2, StopRest DEF Stop, RemoveStop
  <2>3. Rest'
    BY <1>1, <2>2, QuietRest, OpenRest, OpenSendRest, RestartRest, ChannelRest
    DEF Admin, RtnlHolder
  <2> QED
    BY <2>1, <2>3
<1>2. CASE Binding \/ Worker \/ Xmit \/ rpmsg_can_cb \/ Gateway
  <2>1. TypeOK'
    BY <1>2, OtherTypes
  <2>2. Rest'
    BY <1>2, QuietRest, ChannelRest, RestartRest, XmitRest, FrameRest, RxStateRest,
       ReceiveRest, BusErrorRest
    DEF Binding, Worker, rpmsg_can_cb, Gateway
  <2> QED
    BY <2>1, <2>2
<1>3. CASE UNCHANGED vars
  <2>1. UNCHANGED <<dev, rtnl, todo, state, work, rate, mode, auto, toM, toL, gw, hist>>
    BY <1>3 DEF vars, netdev, settings
  <2>2. TypeOK'
    BY <1>3 DEF vars, netdev, settings, TypeOK
  <2>3. Gone' /\ Opening' /\ Configured'
    BY <2>1, SameMessages DEF Rest, Gone, Opening, Configured, OpenMessages
  <2>4. Clean' => CleanInv'
    BY <2>1, Unmoved DEF Rest, Clean, CleanInv, WorkInv, Downwards, Upwards, BusOff
  <2> QED
    BY <2>2, <2>3, <2>4 DEF Rest
<1> QED
  BY <1>1, <1>2, <1>3 DEF Next

\* Every reachable state satisfies the invariant.
LEMMA Invariance == Spec => []CanInv
  BY InitCanInv, NextCanInv, PTL DEF Spec

\* Every variable keeps its type, whatever the driver, the gateway and the bus do.
THEOREM TypeCorrect == Spec => []TypeOK
<1>1. CanInv => TypeOK
  BY DEF CanInv
<1> QED
  BY <1>1, Invariance, PTL

\* Once everything has arrived, both ends of the channel agree on whether the
\* controller runs, on its settings and on its state, unless a message was dropped or
\* an event or a restart crossed a start or stop (rpmsg_can_open, rpmsg_can_close,
\* rpmsg_can_set_mode, rpmsg_can_cb).
THEOREM EndsAgree == Spec => []BothEndsAgree
<1>1. CanInv => BothEndsAgree
  <2> SUFFICES ASSUME CanInv, Settled, Clean
               PROVE  IF rtnl = "down" THEN gw.state = "stopped"
                      ELSE gw.state = state /\ gw.rate = rate /\ gw.mode = mode
    BY DEF BothEndsAgree, Clean
  <2>1. /\ rtnl \in {"up", "down"} /\ work = "idle" /\ toM = <<>> /\ toL = <<>> /\ CleanInv
        /\ rtnl = "up" => RateArrives /\ ModeArrives
    BY DEF Settled, CanInv, Clean, Configured
  <2>2. ~EventUnderWay /\ ~Reported /\ ~StartIsLast /\ (StoppedAtEnd => gw.state = "stopped")
    BY <2>1 DEF EventUnderWay, Reported, StartIsLast, StoppedAtEnd
  <2>3. rtnl = "up" => gw.rate = rate /\ gw.mode = mode
    BY <2>1, Kinds DEF RateArrives, ModeArrives, WillHave
  <2> QED
    BY <2>1, <2>2, <2>3 DEF CleanInv, Downwards, Upwards
<1> QED
  BY <1>1, Invariance, PTL

\* A controller that runs while the interface is up has the interface's bitrate and
\* mode (rpmsg_can_open sends them before the start), however frames, bus errors and
\* restarts interleave.
THEOREM StartedWithSettings == Spec => []RunsAsConfigured
<1>1. CanInv => RunsAsConfigured
  <2> SUFFICES ASSUME CanInv, rtnl = "up", ~hist.dropped, gw.state # "stopped",
                      toM = <<>> \/ (~hist.crossed /\ \A k \in 1..Len(toM) : toM[k] # <<"stop">>)
               PROVE  gw.rate = rate /\ gw.mode = mode
    BY DEF RunsAsConfigured
  <2>1. RateArrives /\ ModeArrives
    BY DEF CanInv, Configured
  <2>2. ASSUME NEW k \in 1..Len(toM) PROVE toM[k] \notin Setting
    <3>1. Ordered /\ \A j \in 1..Len(toM) : toM[j] # <<"stop">>
      BY <2>2 DEF CanInv, Clean, CleanInv
    <3>2. ~StoppedAt(k)
      BY <3>1 DEF StoppedAt
    <3> QED
      BY <3>1, <3>2 DEF Ordered
  <2>3. <<"rate", rate>> \in Setting /\ <<"mode", mode>> \in Setting
    BY DEF CanInv, TypeOK, Setting
  <2> QED
    BY <2>1, <2>2, <2>3, Kinds DEF RateArrives, ModeArrives, WillHave
<1> QED
  BY <1>1, Invariance, PTL

\* An interface that is bus-off has its restart scheduled or running
RestartDue ==
  rtnl = "up" /\ auto /\ state = "busoff" => dev # "gone" /\ work # "idle"

\* With restart-ms an interface that goes bus-off while it is up has its restart scheduled
\* or running until it is over, whatever events and messages came before, dropped and
\* crossing ones included. (That the work then gets its turn needs fairness: BusOffEnds,
\* checked by TLC.)
THEOREM RestartIsDue == Spec => []RestartDue
<1>1. Init => RestartDue
  BY DEF Init, NewDevice, RestartDue
<1>2. CanInv /\ RestartDue /\ [Next]_vars => RestartDue'
  <2> SUFFICES ASSUME CanInv, RestartDue, [Next]_vars PROVE RestartDue'
    OBVIOUS
  <2> USE DEF RestartDue
  <2>0. TypeOK /\ Gone
    BY DEF CanInv
  <2>1. CASE UNCHANGED vars
    BY <2>1 DEF vars, netdev, settings
  <2>2. CASE Admin
    BY <2>2 DEF Admin, Configure, Open, Stop, StopSend, Restart, netdev, settings
  <2>3. CASE RtnlHolder
    BY <2>3 DEF RtnlHolder, OpenSend, OpenSet, StopSet, StopClose, RestartSet, RemoveStop,
                StopSend, Free, StateAfterStart, netdev, settings
  <2>4. CASE Binding
    BY <2>0, <2>4 DEF Binding, Remove, Probe, Gone, netdev, settings
  <2>5. CASE Worker
    BY <2>5 DEF Worker, Work, WorkSet, StateAfterStart, netdev, settings
  <2>6. CASE rpmsg_can_cb
    BY <2>0, <2>6 DEF rpmsg_can_cb, RxFrame, RxState, Gone, netdev, settings
  <2>7. CASE Xmit \/ Gateway
    BY <2>7 DEF Xmit, Gateway, GwReceive, GwFrame, BusError, netdev, settings
  <2> QED
    BY <2>1, <2>2, <2>3, <2>4, <2>5, <2>6, <2>7 DEF Next
<1> QED
  BY <1>1, <1>2, Invariance, PTL DEF Spec
=============================================================================
