------------------------ MODULE Sx1280V2RadioProofs ------------------------
(***************************************************************************)
(* Proofs about what Datalink_SX1280_V2 and the chip have in common: the   *)
(* channel, the end of a transmission, and the packets that are read out.  *)
(***************************************************************************)
EXTENDS Sx1280V2Proofs

-----------------------------------------------------------------------------
(* The invariants.                                                         *)

OnChannel(r) == ~r.paramsChanged /\ r.chip.channel = r.channel

\* ChannelTracked holds even before taskInit, which makes it inductive.
Tuned(r) == r.paramsChanged \/ r.chip.channel = r.channel

ChannelInv == IInv /\ Tuned(radio)

(***************************************************************************)
(* What tells of the end of a transmission is there only while one is on   *)
(* that the chip has ended, or lateEnd tells of it: it came in the middle  *)
(* of the run that gave its transmission up.                               *)
(***************************************************************************)
EndIsKnown ==
    TxEnds \cap (radio.flags \cup radio.chip.irq) # {}
        => \/ radio.state = "Transmitting" /\ radio.chip.mode # "Tx"
           \/ radio.lateEnd

TransmissionInv == IInv /\ EndIsKnown

(***************************************************************************)
(* The packet in the chip's memory, by its rxDone: still in the register,  *)
(* or fetched, and then still among the flags or looked at.  An earlier    *)
(* packet's rxDone among the flags may read this one out early; its own    *)
(* comes with its crcError, and goes when the packet is read out.          *)
(***************************************************************************)
Unfetched(m, irq, flags) ==
    /\ m.due = 0
    /\ m.early <= 1
    /\ m.early > 0 => "rxDone" \notin flags
    /\ "rxDone" \in irq /\ ~m.ok => "crcError" \in irq

Fetched(m, irq, flags) ==
    /\ "rxDone" \notin irq
    /\ m.early <= 1 /\ m.due <= 1
    /\ m.due > 0 => m.ok /\ "rxDone" \notin flags
    /\ "rxDone" \in flags /\ ~m.ok => "crcError" \in flags

PacketOK(m, irq, flags) ==
    IF m.fetched THEN Fetched(m, irq, flags) ELSE Unfetched(m, irq, flags)

PacketInv == IInv /\ PacketOK(radio.chip.rxMem, radio.chip.irq, radio.flags)

-----------------------------------------------------------------------------
(* What the driver functions leave alone.                                  *)

LEMMA ChipKeepsRest ==
    ASSUME NEW c \in Chips
    PROVE  /\ \A d \in {SetStandby(c), SetTx(c), SetRxContinuous(c)} :
                /\ d.irq \in {c.irq, {}} /\ d.rxMem = c.rxMem
                /\ d.channel = c.channel
           /\ \A f \in Slots :
                /\ WriteSXBuffer(c, f).irq = c.irq
                /\ WriteSXBuffer(c, f).rxMem = c.rxMem
                /\ WriteSXBuffer(c, f).channel = c.channel
           /\ \A ch \in Channels :
                /\ SetRfFrequency(c, ch).irq = c.irq
                /\ SetRfFrequency(c, ch).rxMem = c.rxMem
                /\ SetRfFrequency(c, ch).channel = ch
                /\ SetupLoRa(c, ch).irq = c.irq
                /\ SetupLoRa(c, ch).rxMem = c.rxMem
                /\ SetupLoRa(c, ch).channel = ch
           /\ SetRxContinuous(c).irq = {} /\ SetTx(c).irq = {}
<1>1. /\ SetStandby(c) \in Chips
      /\ SetStandby(c).irq = c.irq /\ SetStandby(c).rxMem = c.rxMem
      /\ SetStandby(c).channel = c.channel
  BY ChipTypes DEF SetStandby, Chips
<1>2. /\ SetTx(c).irq = {} /\ SetTx(c).rxMem = c.rxMem
      /\ SetTx(c).channel = c.channel
      /\ SetRxContinuous(c).irq = {} /\ SetRxContinuous(c).rxMem = c.rxMem
      /\ SetRxContinuous(c).channel = c.channel
  BY DEF SetTx, SetRxContinuous, Chips
<1>3. \A f \in Slots : /\ WriteSXBuffer(c, f).irq = c.irq
                       /\ WriteSXBuffer(c, f).rxMem = c.rxMem
                       /\ WriteSXBuffer(c, f).channel = c.channel
  BY <1>1 DEF WriteSXBuffer, Chips
<1>4. \A d \in Chips, ch \in Channels :
        /\ SetRfFrequency(d, ch).irq = d.irq
        /\ SetRfFrequency(d, ch).rxMem = d.rxMem
        /\ SetRfFrequency(d, ch).channel = ch
  BY DEF SetRfFrequency, Chips
<1>5. \A ch \in Channels : /\ SetupLoRa(c, ch).irq = c.irq
                           /\ SetupLoRa(c, ch).rxMem = c.rxMem
                           /\ SetupLoRa(c, ch).channel = ch
  BY <1>1, <1>4 DEF SetupLoRa
<1>. QED  BY <1>1, <1>2, <1>3, <1>4, <1>5

(***************************************************************************)
(* Reading the buffer out counts, before the rxDone of the packet is       *)
(* fetched and after it apart, and does nothing else.                      *)
(***************************************************************************)
ReadOut(m, n) ==
    /\ n.ok = m.ok /\ n.fetched = m.fetched
    /\ m.fetched => n.early = m.early /\ (m.due = 0 => n.due = 1)
    /\ ~m.fetched => n.due = m.due /\ (m.early = 0 => n.early = 1)

LEMMA ReadCounts ==
    ASSUME NEW c \in Chips
    PROVE  LET d == ReadSXBuffer(c)
           IN  /\ d.irq = c.irq /\ d.channel = c.channel
               /\ ReadOut(c.rxMem, d.rxMem)
<1> DEFINE m == c.rxMem
           Once(n) == IF n < 2 THEN n + 1 ELSE n
           n == IF m.fetched THEN [m EXCEPT !.due = Once(@)]
                             ELSE [m EXCEPT !.early = Once(@)]
<1>1. m \in Packets
  BY DEF Chips
<1>2. ReadSXBuffer(c) = [c EXCEPT !.rxMem = n]
  BY DEF ReadSXBuffer, Chips
<1>3. ReadOut(m, n)
  BY <1>1 DEF ReadOut, Packets
<1> HIDE DEF n
<1>. QED  BY <1>2, <1>3 DEF Chips

-----------------------------------------------------------------------------
(* What the helpers and handlers of the class leave alone.                 *)

Carries(s, r) ==
    /\ s.flags = r.flags
    /\ s.chip.irq \in {r.chip.irq, {}}
    /\ s.chip.rxMem = r.chip.rxMem
    /\ s.lateEnd = r.lateEnd
    /\ Tuned(r) => Tuned(s)

LEMMA CarriesOn ==
    ASSUME NEW r, NEW s, NEW t, Carries(s, r), Carries(t, s)
    PROVE  Carries(t, r)
BY DEF Carries

LEMMA ElapseCarries ==
    ASSUME NEW r \in Radios, NEW n \in Nat
    PROVE  Carries(Elapse(r, n), r)
<1>1. Elapse(r, n).lateEnd = r.lateEnd
  BY DEF Elapse, Radios
<1>. QED  BY <1>1, ElapseKeeps DEF Carries, Tuned

LEMMA StartIdleCarries ==
    ASSUME NEW r \in Radios
    PROVE  LET s == StartIdle(r)
           IN  /\ Carries(s, r)
               /\ s.channel = r.channel /\ s.paramsChanged = r.paramsChanged
               /\ s.chip.channel = r.chip.channel
<1> DEFINE s == StartIdle(r)
           c == SetStandby(r.chip)
<1>1. c.irq \in {r.chip.irq, {}} /\ c.rxMem = r.chip.rxMem
      /\ c.channel = r.chip.channel
  BY ChipKeepsRest DEF Radios
<1>2. /\ s.chip = c /\ s.channel = r.channel
      /\ s.paramsChanged = r.paramsChanged /\ s.flags = r.flags
      /\ s.lateEnd = r.lateEnd
  BY DEF StartIdle, Radios
<1> HIDE DEF s, c
<1>3. Carries(s, r)
  BY <1>1, <1>2 DEF Carries, Tuned
<1>. QED  BY <1>1, <1>2, <1>3 DEF s

\* A pending change of the parameters reaches the chip (updateModParams).
LEMMA UpdateModParamsCarries ==
    ASSUME NEW r \in Radios
    PROVE  LET u == UpdateModParams(r)
           IN  Carries(u, r) /\ (Tuned(r) => OnChannel(u))
<1> DEFINE s == StartIdle(r)
           c == SetRfFrequency(s.chip, r.channel)
           u == UpdateModParams(r)
<1>1. CASE ~r.paramsChanged
  BY <1>1 DEF UpdateModParams, Carries, Tuned, OnChannel
<1>2. CASE r.paramsChanged
  <2>1. s \in Radios /\ Carries(s, r) /\ s.channel = r.channel
    BY StartIdleLemma, StartIdleCarries
  <2>2. u = [s EXCEPT !.chip = c, !.paramsChanged = FALSE]
    BY <1>2, <2>1 DEF UpdateModParams, Radios
  <2> HIDE DEF s
  <2>3. /\ c.irq = s.chip.irq /\ c.rxMem = s.chip.rxMem
        /\ c.channel = r.channel
    BY <2>1, ChipKeepsRest DEF Radios
  <2> HIDE DEF c, u
  <2>4. /\ u.chip = c /\ ~u.paramsChanged /\ u.channel = s.channel
        /\ u.flags = s.flags /\ u.lateEnd = s.lateEnd
    BY <2>1, <2>2 DEF Radios
  <2>5. Carries(u, r) /\ OnChannel(u)
    BY <2>1, <2>3, <2>4 DEF Carries, Tuned, OnChannel
  <2>. QED  BY <2>5 DEF u
<1>. QED  BY <1>1, <1>2

LEMMA PrepareTxCarries ==
    ASSUME NEW r \in Radios, NEW f \in Frames, NEW t \in Nat
    PROVE  Carries(PrepareTx(r, f, t), r)
<1> DEFINE p == PrepareTx(r, f, t)
           c == WriteSXBuffer(r.chip, f)
<1>1. f \in Slots /\ r.chip \in Chips
  BY DEF Slots, Radios
<1>2. /\ c.irq = r.chip.irq /\ c.rxMem = r.chip.rxMem
      /\ c.channel = r.chip.channel
  BY <1>1, ChipKeepsRest
<1>3. /\ p.chip = c /\ p.channel = r.channel
      /\ p.paramsChanged = r.paramsChanged /\ p.flags = r.flags
      /\ p.lateEnd = r.lateEnd
  BY DEF PrepareTx, Radios
<1> HIDE DEF p, c
<1>4. Carries(p, r)
  BY <1>2, <1>3 DEF Carries, Tuned
<1>. QED  BY <1>4 DEF p

LEMMA PrepareBufferedCarries ==
    ASSUME NEW r \in Radios
    PROVE  Carries(PrepareBuffered(r), r)
<1>1. CASE r.txBuffer # NoFrame /\ r.sxTx = NoFrame
  <2>1. r.txBuffer \in Frames /\ r.pendingTxTime \in Nat
    BY <1>1 DEF Radios, Slots
  <2>. QED  BY <1>1, <2>1, PrepareTxCarries DEF PrepareBuffered
<1>2. CASE ~(r.txBuffer # NoFrame /\ r.sxTx = NoFrame)
  BY <1>2 DEF PrepareBuffered, Carries
<1>. QED  BY <1>1, <1>2

\* A transmission starts on the channel last selected, with no IRQ left.
LEMMA StartTxCarries ==
    ASSUME NEW r \in Radios
    PROVE  LET s == StartTx(r)
           IN  /\ Carries(s, r) /\ (Tuned(r) => OnChannel(s))
               /\ s.chip.irq = {}
<1> DEFINE tuned == UpdateModParams(r)
           idle == IF tuned.state \in {"IdleReceive", "Receiving"}
                     THEN StartIdle(tuned) ELSE tuned
           waited == Elapse(idle, idle.txScheduledTime)
           chip == SetTx(waited.chip)
           s == StartTx(r)
<1>1. /\ tuned \in Radios
      /\ Carries(tuned, r) /\ (Tuned(r) => OnChannel(tuned))
  BY UpdateModParamsLemma, UpdateModParamsCarries
<1>2. /\ idle \in Radios
      /\ Carries(idle, tuned) /\ (OnChannel(tuned) => OnChannel(idle))
  <2> HIDE DEF tuned
  <2>. QED  BY <1>1, StartIdleLemma, StartIdleCarries DEF OnChannel, Carries
<1>3. idle.txScheduledTime \in Nat
  <2> HIDE DEF idle
  <2>. QED  BY <1>2 DEF Radios
<1>4. /\ waited \in Radios /\ Carries(waited, idle)
      /\ waited.channel = idle.channel /\ waited.chip = idle.chip
      /\ waited.paramsChanged = idle.paramsChanged
  <2> HIDE DEF idle
  <2>. QED  BY <1>2, <1>3, ElapseKeeps, ElapseCarries
<1>5. /\ chip.irq = {} /\ chip.rxMem = waited.chip.rxMem
      /\ chip.channel = waited.chip.channel
  <2> HIDE DEF waited
  <2>. QED  BY <1>4, ChipKeepsRest DEF Radios
<1>6. s = [waited EXCEPT !.chip = chip, !.state = "Transmitting",
                         !.txAge = 0, !.txScheduledTime = 0]
  BY <1>4 DEF StartTx, Radios
<1> HIDE DEF tuned, idle, waited, chip, s
<1>7. /\ s.chip = chip /\ s.channel = waited.channel
      /\ s.paramsChanged = waited.paramsChanged /\ s.flags = waited.flags
      /\ s.lateEnd = waited.lateEnd
  BY <1>4, <1>6 DEF Radios
<1>8. Carries(s, waited)
  BY <1>5, <1>7 DEF Carries, Tuned
<1>9. Carries(s, r)
  BY <1>1, <1>2, <1>4, <1>8, CarriesOn
<1>10. Tuned(r) => OnChannel(s)
  BY <1>1, <1>2, <1>4, <1>5, <1>7 DEF OnChannel
<1>. QED  BY <1>5, <1>7, <1>9, <1>10 DEF s

LEMMA StartIdleRxCarries ==
    ASSUME NEW r \in Radios
    PROVE  Carries(StartIdleRx(r), r) /\ StartIdleRx(r).chip.irq = {}
<1> DEFINE s == StartIdleRx(r)
           c == SetRxContinuous(r.chip)
<1>1. /\ c.irq = {} /\ c.rxMem = r.chip.rxMem
      /\ c.channel = r.chip.channel
  BY ChipKeepsRest DEF Radios
<1>2. /\ s.chip = c /\ s.channel = r.channel
      /\ s.paramsChanged = r.paramsChanged /\ s.flags = r.flags
      /\ s.lateEnd = r.lateEnd
  BY DEF StartIdleRx, Radios
<1> HIDE DEF s, c
<1>3. Carries(s, r) /\ s.chip.irq = {}
  BY <1>1, <1>2 DEF Carries, Tuned
<1>. QED  BY <1>3 DEF s

LEMMA ListenCarries ==
    ASSUME NEW r \in Radios
    PROVE  LET s == StartIdleRx(UpdateModParams(r))
           IN  Carries(s, r) /\ s.chip.irq = {} /\ s.state = "IdleReceive"
<1>1. UpdateModParams(r) \in Radios /\ Carries(UpdateModParams(r), r)
  BY UpdateModParamsLemma, UpdateModParamsCarries
<1>. QED  BY <1>1, StartIdleRxLemma, StartIdleRxCarries, CarriesOn

LEMMA TxOrListenCarries ==
    ASSUME NEW r \in Radios
    PROVE  LET s == TxOrListen(r)
           IN  /\ Carries(s, r)
               /\ Tuned(r) /\ r.state # "Transmitting"
                    /\ s.state = "Transmitting" => OnChannel(s)
<1>1. CASE IsTxReady(r)
  BY <1>1, StartTxCarries DEF TxOrListen
<1>2. CASE ~IsTxReady(r) /\ r.rxStartedFlag
  BY <1>2, ListenCarries DEF TxOrListen
<1>3. CASE ~IsTxReady(r) /\ ~r.rxStartedFlag
  BY <1>3 DEF TxOrListen, Carries
<1>. QED  BY <1>1, <1>2, <1>3

-----------------------------------------------------------------------------
(* What client calls leave alone, from a client or from a handler.         *)

LEMMA TransmitDataframeCarries ==
    ASSUME NEW r \in Radios, NEW f \in Frames, NEW d \in Delays
    PROVE  Carries(TransmitDataframe(r, f, d), r)
<1> DEFINE t == TransmitDataframe(r, f, d)
<1>1. d \in Nat
  BY DelaysAssumption
<1>2. CASE IsChannelBlocked(r) \/ f \in Oversized
  BY <1>2 DEF TransmitDataframe, Carries
<1>3. CASE /\ ~(IsChannelBlocked(r) \/ f \in Oversized)
           /\ r.sxTx = NoFrame /\ r.state \in {"Idle", "IdleReceive"}
  BY <1>1, <1>3, PrepareTxCarries DEF TransmitDataframe
<1>4. CASE /\ ~(IsChannelBlocked(r) \/ f \in Oversized)
           /\ ~(r.sxTx = NoFrame /\ r.state \in {"Idle", "IdleReceive"})
  <2>1. t = [r EXCEPT !.txBuffer = f, !.pendingTxTime = d]
    BY <1>4 DEF TransmitDataframe
  <2> HIDE DEF t
  <2>2. Carries(t, r)
    BY <2>1 DEF Carries, Tuned, Radios
  <2>. QED  BY <2>2 DEF t
<1>. QED  BY <1>2, <1>3, <1>4

LEMMA SetStartReceiveCarries ==
    ASSUME NEW r \in Radios, NEW b \in Switches
    PROVE  Carries(SetStartReceive(r, b), r)
<1> DEFINE s == [r EXCEPT !.rxStartedFlag = b, !.leaveRxFlag = ~b]
           t == SetStartReceive(r, b)
<1>1. b \in BOOLEAN
  BY DEF Switches
<1>2. s \in Radios /\ Carries(s, r)
  <2>1. s \in Radios
    BY <1>1 DEF Radios
  <2>2. /\ s.flags = r.flags /\ s.chip = r.chip /\ s.channel = r.channel
        /\ s.paramsChanged = r.paramsChanged
        /\ s.lateEnd = r.lateEnd
    BY DEF Radios
  <2> HIDE DEF s
  <2>. QED  BY <1>1, <2>1, <2>2 DEF Carries, Tuned
<1>3. CASE ~b /\ r.state = "IdleReceive"
  <2> DEFINE i == StartIdle(s)
  <2>1. t = [i EXCEPT !.leaveRxFlag = FALSE]
    BY <1>3 DEF SetStartReceive
  <2> HIDE DEF s, t
  <2>2. i \in Radios /\ Carries(i, s)
    BY <1>2, StartIdleLemma, StartIdleCarries
  <2> HIDE DEF i
  <2>3. Carries(t, i)
    BY <2>1, <2>2 DEF Carries, Tuned, Radios
  <2>4. Carries(t, r)
    BY <1>2, <2>2, <2>3, CarriesOn
  <2>. QED  BY <2>4 DEF t
<1>4. CASE /\ b
           /\ \/ r.state = "Idle"
              \/ r.state = "IdleReceive" /\ r.paramsChanged
  <2>1. t = StartIdleRx(UpdateModParams(s))
    BY <1>4 DEF SetStartReceive
  <2> HIDE DEF s, t
  <2>2. Carries(t, s)
    BY <1>2, <2>1, ListenCarries
  <2>3. Carries(t, r)
    BY <1>2, <2>2, CarriesOn
  <2>. QED  BY <2>3 DEF t
<1>5. CASE b /\ r.state = "IdleReceive" /\ ~r.paramsChanged
  <2>1. t = [s EXCEPT !.rxStartedFlag = FALSE]
    BY <1>5 DEF SetStartReceive
  <2> HIDE DEF s, t
  <2>2. Carries(t, s)
    BY <1>2, <2>1 DEF Carries, Tuned, Radios
  <2>3. Carries(t, r)
    BY <1>2, <2>2, CarriesOn
  <2>. QED  BY <2>3 DEF t
<1>6. CASE r.state # "IdleReceive" /\ ~(b /\ r.state = "Idle")
  <2>1. t = s
    BY <1>6 DEF SetStartReceive
  <2>. QED  BY <1>2, <2>1
<1>. QED  BY <1>1, <1>3, <1>4, <1>5, <1>6

LEMMA SettersCarry ==
    ASSUME NEW r \in Radios
    PROVE  /\ \A b \in Switches : Carries(SetEnableTxRx(r, b), r)
           /\ \A c \in Channels : Carries(SetChannel(r, c), r)
           /\ Carries(SetModulation(r), r)
<1>1. ASSUME NEW b \in Switches
      PROVE  Carries(SetEnableTxRx(r, b), r)
  BY DEF SetEnableTxRx, Switches, Carries, Tuned, Radios
<1>2. ASSUME NEW c \in Channels
      PROVE  Carries(SetChannel(r, c), r)
  BY DEF SetChannel, Carries, Tuned, Radios
<1>3. Carries(SetModulation(r), r)
  BY DEF SetModulation, Carries, Tuned, Radios
<1>. QED  BY <1>1, <1>2, <1>3

LEMMA HandlerOutcomesCarry ==
    ASSUME NEW r \in Radios
    PROVE  \A x \in HandlerOutcomes(r) : x \in Radios /\ Carries(x, r)
<1>1. Carries(r, r)
  BY DEF Carries
<1>2. \A f \in Offered(r), d \in Delays : Carries(TransmitDataframe(r, f, d), r)
  BY TransmitDataframeCarries DEF Offered
<1>3. \A b \in Switches : Carries(SetStartReceive(r, b), r)
  BY SetStartReceiveCarries
<1>. QED
  BY <1>1, <1>2, <1>3, SettersCarry, HandlerOutcomesType DEF HandlerOutcomes

-----------------------------------------------------------------------------
(* What the state functions of the task leave alone, and what they clear.  *)

(***************************************************************************)
(* The outcome of a run: flags are forgotten, never raised, and crcError   *)
(* not before rxDone; the chip's memory is kept, or lost with its IRQs, or *)
(* read out, this only for an rxDone without a crcError among the flags,   *)
(* which is then forgotten.                                                *)
(***************************************************************************)
RunsFrom(x, r) ==
    /\ x.flags \subseteq r.flags
    /\ "rxDone" \in x.flags /\ "crcError" \in r.flags => "crcError" \in x.flags
    /\ x.chip.irq \in {r.chip.irq, {}}
    /\ Tuned(r) => Tuned(x)
    /\ \/ x.chip.rxMem = r.chip.rxMem
       \/ x.chip.rxMem = NoPacket /\ x.chip.irq = {}
       \/ /\ "rxDone" \in r.flags /\ "crcError" \notin r.flags
          /\ "rxDone" \notin x.flags
          /\ ReadOut(r.chip.rxMem, x.chip.rxMem)

\* A transmission that starts here starts on the channel last selected.
Launches(x, r) ==
    Tuned(r) /\ x.state = "Transmitting" => OnChannel(x)

LEMMA LeaveReceiveRuns ==
    ASSUME NEW r \in Radios
    PROVE  LET x == LeaveReceive(r)
           IN  /\ RunsFrom(x, r) /\ Launches(x, r)
               /\ x.chip.rxMem = r.chip.rxMem
               /\ "rxDone" \notin x.flags
               /\ x.lateEnd = r.lateEnd
<1> DEFINE ended == [r EXCEPT !.rxAge = Unset]
           idle == StartIdle(ended)
           quiet == ClearReceiveFlags(idle)
           next == PrepareBuffered(quiet)
           x == LeaveReceive(r)
<1>1. ended \in Radios /\ Carries(ended, r)
  <2>1. Unset \in -1 .. RxActiveTimeout + 1
    BY TimeoutAssumption DEF Unset
  <2>. QED  BY <2>1 DEF Radios, Carries, Tuned
<1>2. idle \in Radios /\ Carries(idle, ended) /\ idle.state = "Idle"
  <2> HIDE DEF ended
  <2>. QED  BY <1>1, StartIdleLemma, StartIdleCarries
<1>3. /\ quiet \in Radios /\ quiet.state = "Idle"
      /\ quiet.flags = idle.flags \cap {"txDone"}
      /\ quiet.chip = idle.chip /\ quiet.lateEnd = idle.lateEnd
      /\ Tuned(idle) => Tuned(quiet)
  <2> HIDE DEF idle
  <2>. QED  BY <1>2 DEF ClearReceiveFlags, Radios, Tuned
<1>4. /\ next \in Radios /\ Carries(next, quiet) /\ next.state = "Idle"
  <2> HIDE DEF quiet
  <2>. QED  BY <1>3, PrepareBufferedLemma, PrepareBufferedCarries
<1>5. x = TxOrListen(next)
  BY DEF LeaveReceive
<1> HIDE DEF ended, idle, quiet, next, x
<1>6. /\ Carries(x, next)
      /\ Tuned(next) /\ x.state = "Transmitting" => OnChannel(x)
  BY <1>4, <1>5, TxOrListenCarries
<1>7. /\ x.flags = r.flags \cap {"txDone"}
      /\ x.chip.irq \in {r.chip.irq, {}}
      /\ x.chip.rxMem = r.chip.rxMem /\ x.lateEnd = r.lateEnd
  BY <1>1, <1>2, <1>3, <1>4, <1>6 DEF Carries
<1>8. Tuned(r) => Tuned(next) /\ Tuned(x)
  BY <1>1, <1>2, <1>3, <1>4, <1>6 DEF Carries
<1>9. /\ RunsFrom(x, r) /\ Launches(x, r)
      /\ x.chip.rxMem = r.chip.rxMem
      /\ "rxDone" \notin x.flags /\ x.lateEnd = r.lateEnd
  BY <1>6, <1>7, <1>8 DEF RunsFrom, Launches
<1>. QED  BY <1>9 DEF x

LEMMA ReceiveRuns ==
    ASSUME NEW r \in Radios, r.state = "Receiving"
    PROVE  \A x \in UpdateReceiveState(r) :
             RunsFrom(x, r) /\ Launches(x, r) /\ x.lateEnd = r.lateEnd
<1>1. CASE "rxDone" \in r.flags /\ PacketAccepted(r)
  <2> DEFINE q == [r EXCEPT !.successAge = 0, !.chip = ReadSXBuffer(@)]
  <2>1. r.chip \in Chips /\ ReadSXBuffer(r.chip) \in Chips
    BY ChipTypes DEF Radios
  <2>2. /\ q \in Radios
        /\ q.flags = r.flags /\ q.chip = ReadSXBuffer(r.chip)
        /\ q.lateEnd = r.lateEnd
        /\ Tuned(r) => Tuned(q)
    <3>1. 0 \in 0 .. RxDeadTime + 1
      BY TimeoutAssumption
    <3>2. q \in Radios
      BY <2>1, <3>1 DEF Radios
    <3>3. /\ q.chip = ReadSXBuffer(r.chip)
          /\ q.flags = r.flags /\ q.channel = r.channel
          /\ q.paramsChanged = r.paramsChanged
          /\ q.lateEnd = r.lateEnd
      BY DEF Radios
    <3> HIDE DEF q
    <3>. QED  BY <2>1, <3>2, <3>3, ReadCounts DEF Tuned
  <2>3. UpdateReceiveState(r) = {LeaveReceive(h) : h \in HandlerOutcomes(q)}
    BY <1>1 DEF UpdateReceiveState, RetrieveRxData
  <2> HIDE DEF q
  <2>4. ASSUME NEW h \in HandlerOutcomes(q)
        PROVE  LET x == LeaveReceive(h)
               IN  RunsFrom(x, r) /\ Launches(x, r) /\ x.lateEnd = r.lateEnd
    <3> DEFINE x == LeaveReceive(h)
    <3>1. h \in Radios /\ Carries(h, q)
      BY <2>2, HandlerOutcomesCarry
    <3>2. /\ RunsFrom(x, h) /\ Launches(x, h)
          /\ x.chip.rxMem = h.chip.rxMem /\ "rxDone" \notin x.flags
          /\ x.lateEnd = h.lateEnd
      BY <3>1, LeaveReceiveRuns
    <3>3. "crcError" \notin r.flags
      BY <1>1 DEF PacketAccepted
    <3> HIDE DEF x
    <3>4. /\ ReadOut(r.chip.rxMem, x.chip.rxMem)
          /\ x.chip.irq \in {r.chip.irq, {}}
      BY <2>1, <2>2, <3>1, <3>2, ReadCounts DEF Carries, RunsFrom
    <3>5. /\ x.flags \subseteq r.flags
          /\ Tuned(r) => Tuned(x)
          /\ Launches(x, r) /\ x.lateEnd = r.lateEnd
      BY <2>2, <3>1, <3>2 DEF Carries, RunsFrom, Launches
    <3>6. RunsFrom(x, r)
      BY <1>1, <3>2, <3>3, <3>4, <3>5 DEF RunsFrom
    <3>. QED  BY <3>2, <3>5, <3>6 DEF x
  <2>. QED  BY <2>3, <2>4
<1>2. CASE "rxDone" \in r.flags /\ ~PacketAccepted(r)
  <2>1. UpdateReceiveState(r) = {LeaveReceive(r)}
    BY <1>2 DEF UpdateReceiveState
  <2>. QED  BY <2>1, LeaveReceiveRuns
<1>3. CASE "rxDone" \notin r.flags /\ ReceptionFailed(r)
  <2> DEFINE q == [r EXCEPT !.rxStartedFlag = FALSE]
  <2>1. q \in Radios /\ Carries(q, r)
    BY DEF Radios, Carries, Tuned
  <2>2. UpdateReceiveState(r) = {LeaveReceive(q)}
    BY <1>3 DEF UpdateReceiveState
  <2> HIDE DEF q
  <2> DEFINE x == LeaveReceive(q)
  <2>3. /\ RunsFrom(x, q) /\ Launches(x, q)
        /\ x.chip.rxMem = q.chip.rxMem /\ "rxDone" \notin x.flags
        /\ x.lateEnd = q.lateEnd
    BY <2>1, LeaveReceiveRuns
  <2> HIDE DEF x
  <2>4. RunsFrom(x, r) /\ Launches(x, r) /\ x.lateEnd = r.lateEnd
    BY <2>1, <2>3 DEF Carries, RunsFrom, Launches
  <2>. QED  BY <2>2, <2>3, <2>4 DEF x
<1>4. CASE "rxDone" \notin r.flags /\ ~ReceptionFailed(r)
  BY <1>4 DEF UpdateReceiveState, RunsFrom, Launches
<1>. QED  BY <1>1, <1>2, <1>3, <1>4

LEMMA RestartIdleRxRuns ==
    ASSUME NEW r \in Radios
    PROVE  LET x == RestartIdleRx(r)
           IN  /\ RunsFrom(x, r) /\ x.lateEnd = r.lateEnd
               /\ x.state = "IdleReceive"
<1> DEFINE quiet == ClearReceiveFlags(r)
           fresh == [quiet EXCEPT !.successAge = 0]
           chip == SetupLoRa(ResetDevice(fresh.chip), fresh.channel)
           again == FullReconfigure(fresh)
<1>1. /\ quiet \in Radios
      /\ quiet.flags = r.flags \cap {"txDone"} /\ quiet.chip = r.chip
      /\ quiet.channel = r.channel /\ quiet.paramsChanged = r.paramsChanged
      /\ quiet.lateEnd = r.lateEnd
  BY DEF ClearReceiveFlags, Radios
<1>2. fresh \in Radios /\ fresh.lateEnd = r.lateEnd
  <2>1. 0 \in 0 .. RxDeadTime + 1
    BY TimeoutAssumption
  <2> HIDE DEF quiet
  <2>. QED  BY <1>1, <2>1 DEF Radios
<1>3. /\ chip \in Chips
      /\ chip.irq = {} /\ chip.rxMem = NoPacket
      /\ chip.channel = fresh.channel
  <2> DEFINE reset == ResetDevice(fresh.chip)
  <2> HIDE DEF fresh
  <2>1. /\ reset \in Chips /\ fresh.channel \in Channels
        /\ reset.irq = {} /\ reset.rxMem = NoPacket
    BY <1>2, ChipTypes DEF Radios, ResetDevice, PoweredUp
  <2> HIDE DEF reset
  <2>2. /\ SetupLoRa(reset, fresh.channel) \in Chips
        /\ SetupLoRa(reset, fresh.channel).irq = {}
        /\ SetupLoRa(reset, fresh.channel).rxMem = NoPacket
        /\ SetupLoRa(reset, fresh.channel).channel = fresh.channel
    <3> DEFINE ch == fresh.channel
    <3>1. ch \in Channels
      BY <2>1
    <3> HIDE DEF ch
    <3>2. SetupLoRa(reset, ch) \in Chips
      BY <2>1, <3>1, ChipTypes
    <3>3. /\ SetupLoRa(reset, ch).irq = reset.irq
          /\ SetupLoRa(reset, ch).rxMem = reset.rxMem
          /\ SetupLoRa(reset, ch).channel = ch
      BY <2>1, <3>1, ChipKeepsRest
    <3>. QED  BY <2>1, <3>2, <3>3 DEF ch
  <2>. QED  BY <2>2 DEF reset
<1>4. again = [fresh EXCEPT !.chip = chip, !.paramsChanged = FALSE,
                            !.state = "Idle", !.flags = {}]
  BY DEF FullReconfigure
<1>5. RestartIdleRx(r) = StartIdleRx(IF quiet.successAge > RxDeadTime
                                       THEN again ELSE quiet)
  BY DEF RestartIdleRx, ClearReceiveFlags, Radios
<1> HIDE DEF quiet, fresh, chip, again
<1>6. /\ again \in Radios
      /\ again.flags = {} /\ again.chip = chip
      /\ OnChannel(again) /\ again.lateEnd = r.lateEnd
  BY <1>2, <1>3, <1>4 DEF Radios, OnChannel
<1>7. ASSUME NEW q \in {quiet, again}
      PROVE  /\ q \in Radios
             /\ q.flags \subseteq r.flags /\ "rxDone" \notin q.flags
             /\ q.chip.rxMem \in {r.chip.rxMem, NoPacket}
             /\ Tuned(r) => Tuned(q)
             /\ q.lateEnd = r.lateEnd
  BY <1>1, <1>3, <1>6 DEF Tuned, OnChannel
<1>8. PICK q \in {quiet, again} : RestartIdleRx(r) = StartIdleRx(q)
  BY <1>5
<1>9. /\ Carries(StartIdleRx(q), q) /\ StartIdleRx(q).state = "IdleReceive"
      /\ StartIdleRx(q).chip.irq = {}
  BY <1>7, StartIdleRxCarries, StartIdleRxLemma
<1>. QED  BY <1>7, <1>8, <1>9 DEF RunsFrom, Carries

\* What Carries says, said of a run.
LEMMA CarriesRuns ==
    ASSUME NEW r, NEW p, NEW x, Carries(p, r), RunsFrom(x, p)
    PROVE  RunsFrom(x, r)
BY DEF Carries, RunsFrom

LEMMA CarriedRuns ==
    ASSUME NEW r, NEW x, Carries(x, r)
    PROVE  RunsFrom(x, r)
BY DEF Carries, RunsFrom

LEMMA IdleRxRuns ==
    ASSUME NEW r \in Radios, r.state = "IdleReceive"
    PROVE  \A x \in UpdateIdleRxState(r) :
             RunsFrom(x, r) /\ Launches(x, r) /\ x.lateEnd = r.lateEnd
<1> DEFINE p == PrepareBuffered(r)
<1>1. /\ p \in Radios /\ p.state = "IdleReceive" /\ Carries(p, r)
  BY PrepareBufferedLemma, PrepareBufferedCarries
<1>2. UpdateIdleRxState(r) =
        IF p.leaveRxFlag \/ ~p.txRxEnabled
          THEN {StartIdle([p EXCEPT !.leaveRxFlag = FALSE])}
        ELSE IF ReceiveFlagTrig(p) THEN UpdateReceiveState(StartActiveRx(p))
        ELSE IF p.rxStartedFlag THEN {StartIdleRx(UpdateModParams(p))}
        ELSE IF IsTxReady(p) THEN {StartTx(p)}
        ELSE IF p.idleAge > RxActiveTimeout THEN {RestartIdleRx(p)}
        ELSE {p}
  BY DEF UpdateIdleRxState
<1> HIDE DEF p
<1> DEFINE Good(x) ==
             RunsFrom(x, p) /\ Launches(x, p) /\ x.lateEnd = p.lateEnd
<1> SUFFICES \A x \in UpdateIdleRxState(r) : Good(x)
  BY <1>1, CarriesRuns DEF Carries, Launches
<1>3. CASE p.leaveRxFlag \/ ~p.txRxEnabled
  <2> DEFINE q == [p EXCEPT !.leaveRxFlag = FALSE]
  <2>1. q \in Radios /\ Carries(q, p)
    BY <1>1 DEF Radios, Carries, Tuned
  <2> HIDE DEF q
  <2>2. Carries(StartIdle(q), q) /\ StartIdle(q).state = "Idle"
    BY <2>1, StartIdleLemma, StartIdleCarries
  <2>3. Carries(StartIdle(q), p)
    BY <2>1, <2>2, CarriesOn
  <2>4. Good(StartIdle(q))
    BY <2>2, <2>3, CarriedRuns DEF Launches, Carries
  <2>. QED  BY <1>2, <1>3, <2>4 DEF q
<1>4. CASE ~(p.leaveRxFlag \/ ~p.txRxEnabled) /\ ReceiveFlagTrig(p)
  <2> DEFINE q == StartActiveRx(p)
  <2>1. /\ q \in Radios /\ q.state = "Receiving" /\ Carries(q, p)
    <3> DEFINE age == IF p.rxAge = Unset THEN 0 ELSE p.rxAge
               open == p.txRxEnabled
    <3>1. age \in -1 .. RxActiveTimeout + 1
      <4>1. p.rxAge \in -1 .. RxActiveTimeout + 1
        BY <1>1 DEF Radios
      <4>. QED  BY <4>1, TimeoutAssumption
    <3>2. open \in BOOLEAN
      BY <1>1 DEF Radios
    <3>3. q = [p EXCEPT !.rxAge = age, !.acceptThisPacket = open,
                        !.state = "Receiving"]
      BY <1>1 DEF StartActiveRx, Radios
    <3> HIDE DEF age, open, q
    <3>4. q \in Radios /\ q.state = "Receiving"
      BY <1>1, <3>1, <3>2, <3>3 DEF Radios
    <3>5. Carries(q, p)
      BY <1>1, <3>3 DEF Radios, Carries, Tuned
    <3>. QED  BY <3>4, <3>5
  <2>2. UpdateIdleRxState(r) = UpdateReceiveState(q)
    BY <1>2, <1>4
  <2> HIDE DEF q
  <2>3. ASSUME NEW x \in UpdateIdleRxState(r)
        PROVE  Good(x)
    <3>1. RunsFrom(x, q) /\ Launches(x, q) /\ x.lateEnd = q.lateEnd
      BY <2>1, <2>2, ReceiveRuns
    <3>. QED  BY <2>1, <3>1, CarriesRuns DEF Carries, Launches
  <2>. QED  BY <2>3
<1>5. CASE ~(p.leaveRxFlag \/ ~p.txRxEnabled) /\ ~ReceiveFlagTrig(p)
  <2>1. Good(StartIdleRx(UpdateModParams(p)))
    BY <1>1, ListenCarries, CarriedRuns DEF Carries, Launches
  <2>2. Good(StartTx(p))
    BY <1>1, StartTxCarries, CarriedRuns DEF Carries, Launches
  <2>3. Good(RestartIdleRx(p))
    BY <1>1, RestartIdleRxRuns DEF Launches
  <2>4. Good(p)
    BY <1>1 DEF RunsFrom, Launches
  <2>. QED  BY <1>2, <1>5, <2>1, <2>2, <2>3, <2>4
<1>. QED  BY <1>3, <1>4, <1>5

LEMMA IdleRuns ==
    ASSUME NEW r \in Radios, r.state = "Idle"
    PROVE  \A x \in UpdateIdleState(r) :
             RunsFrom(x, r) /\ Launches(x, r) /\ x.lateEnd = r.lateEnd
<1> DEFINE p == PrepareBuffered(r)
<1>1. /\ p \in Radios /\ p.state = "Idle" /\ Carries(p, r)
  BY PrepareBufferedLemma, PrepareBufferedCarries
<1>2. UpdateIdleState(r) = {TxOrListen(p)}
  BY DEF UpdateIdleState
<1> HIDE DEF p
<1>3. /\ Carries(TxOrListen(p), p)
      /\ Tuned(p) /\ TxOrListen(p).state = "Transmitting"
           => OnChannel(TxOrListen(p))
  BY <1>1, TxOrListenCarries
<1>. QED  BY <1>1, <1>2, <1>3, CarriesOn, CarriedRuns DEF Carries, Launches

\* The end of a transmission forgets what told of it, and nothing else, and
\* notes what may still come to tell of it.
LEMMA TransmitRuns ==
    ASSUME NEW r \in Radios, r.state = "Transmitting"
    PROVE  \A x \in UpdateTransmitState(r) :
             \/ x = r /\ ~TransmissionEnded(r)
             \/ /\ TransmissionEnded(r)
                /\ RunsFrom(x, r)
                /\ x.flags = r.flags \ TxEnds
                /\ x.lateEnd = (TxEnds \cap x.chip.irq # {})
<1>1. CASE ~TransmissionEnded(r)
  BY <1>1 DEF UpdateTransmitState
<1>2. CASE TransmissionEnded(r)
  <2> DEFINE e == EndTransmit(r)
  <2>1. e \in Radios /\ Carries(e, r)
    <3>1. /\ [r EXCEPT !.state = "Idle"] \in Radios
          /\ Carries([r EXCEPT !.state = "Idle"], r)
      BY DEF Radios, Carries, Tuned
    <3>. QED  BY <3>1, StartIdleLemma, StartIdleCarries DEF EndTransmit
  <2>2. UpdateTransmitState(r) = {LeaveTransmit(h) : h \in HandlerOutcomes(e)}
    BY <1>2 DEF UpdateTransmitState
  <2> HIDE DEF e
  <2>3. ASSUME NEW h \in HandlerOutcomes(e)
        PROVE  LET x == LeaveTransmit(h)
               IN  /\ RunsFrom(x, r)
                   /\ x.flags = r.flags \ TxEnds
                   /\ x.lateEnd = (TxEnds \cap x.chip.irq # {})
    <3> DEFINE over == [h EXCEPT !.sxTx = NoFrame, !.flags = @ \ TxEnds]
               next == PrepareBuffered(over)
               left == IF IsTxReady(next) \/ next.rxStartedFlag
                         THEN TxOrListen(next) ELSE StartIdle(next)
               x == LeaveTransmit(h)
    <3>1. h \in Radios /\ Carries(h, e)
      BY <2>1, HandlerOutcomesCarry
    <3>2. /\ over \in Radios
          /\ over.flags = h.flags \ TxEnds /\ over.chip = h.chip
          /\ (Tuned(h) => Tuned(over))
      BY <3>1 DEF Radios, Slots, TxEnds, Tuned
    <3>3. next \in Radios /\ Carries(next, over)
      <4> HIDE DEF over
      <4>. QED  BY <3>2, PrepareBufferedLemma, PrepareBufferedCarries
    <3>4. left \in Radios /\ Carries(left, next)
      <4> HIDE DEF next
      <4>. QED  BY <3>3, TxOrListenCarries, StartIdleCarries,
                   TxOrListenSameQueue, StartIdleLemma
    <3>5. x = [left EXCEPT !.lateEnd = TxEnds \cap left.chip.irq # {}]
      BY DEF LeaveTransmit, NoteLateEnd
    <3> HIDE DEF over, next, left, x
    <3>6. /\ x.flags = left.flags /\ x.chip = left.chip
          /\ x.lateEnd = (TxEnds \cap left.chip.irq # {})
          /\ (Tuned(left) => Tuned(x))
      BY <3>4, <3>5 DEF Radios, Tuned
    <3>7. /\ x.flags = r.flags \ TxEnds
          /\ x.chip.irq \in {r.chip.irq, {}}
          /\ x.chip.rxMem = r.chip.rxMem
          /\ Tuned(r) => Tuned(x)
      BY <2>1, <3>1, <3>2, <3>3, <3>4, <3>6 DEF Carries
    <3>8. RunsFrom(x, r)
      BY <3>7 DEF RunsFrom, TxEnds
    <3>. QED  BY <3>6, <3>7, <3>8 DEF x
  <2>. QED  BY <1>2, <2>2, <2>3
<1>. QED  BY <1>1, <1>2

-----------------------------------------------------------------------------
(* The actions, for each invariant.                                        *)

LEMMA TaskRuns ==
    ASSUME NEW r \in Radios, r.state # "Sleep", NEW x \in TaskOutcomes(r)
    PROVE  /\ RunsFrom(x, r)
           /\ r.state # "Transmitting"
                => Launches(x, r) /\ x.lateEnd = r.lateEnd
<1>1. r.state \in {"Idle", "IdleReceive", "Receiving", "Transmitting"}
  BY DEF Radios
<1>2. CASE r.state = "IdleReceive"
  BY <1>2, IdleRxRuns DEF TaskOutcomes
<1>3. CASE r.state = "Receiving"
  BY <1>3, ReceiveRuns DEF TaskOutcomes
<1>4. CASE r.state = "Transmitting"
  <2>1. RunsFrom(r, r)
    BY DEF RunsFrom
  <2>. QED  BY <1>4, <2>1, TransmitRuns DEF TaskOutcomes
<1>5. CASE r.state = "Idle"
  BY <1>5, IdleRuns DEF TaskOutcomes
<1>. QED  BY <1>1, <1>2, <1>3, <1>4, <1>5

\* What taskThread's last lines reset is none of the things told here.
LEMMA UpdateStep ==
    ASSUME IInv, TaskUpdate
    PROVE  \E r \in TaskOutcomes(radio) :
             /\ r \in Radios
             /\ radio'.chip = r.chip /\ radio'.flags = r.flags
             /\ radio'.state = r.state /\ radio'.channel = r.channel
             /\ radio'.paramsChanged = r.paramsChanged
             /\ radio'.lateEnd = r.lateEnd
<1>1. PICK r \in TaskOutcomes(radio) :
        radio' = [r EXCEPT !.irqTrig = FALSE, !.released = FALSE]
  BY DEF TaskUpdate
<1>2. r \in Radios
  BY TaskOutcomesSettled DEF IInv, Sound, Settled, TaskUpdate
<1>. QED  BY <1>1, <1>2 DEF Radios

\* A client call is one of the things a handler may do.
LEMMA ClientStep ==
    ASSUME IInv, Client
    PROVE  /\ radio' \in Radios /\ Carries(radio', radio)
           /\ phase = "wait" /\ phase' = "wait"
<1>1. radio \in Radios
  BY DEF IInv, Sound
<1>2. radio' \in HandlerOutcomes(radio)
  BY DEF Client, ClientTransmit, ClientStartReceive, ClientEnableTxRx,
         ClientSetChannel, ClientSetModulation, HandlerOutcomes
<1>3. phase = "wait" /\ phase' = "wait"
  BY DEF Client, ClientTransmit, ClientStartReceive, ClientEnableTxRx,
         ClientSetChannel, ClientSetModulation
<1>. QED  BY <1>1, <1>2, <1>3, HandlerOutcomesCarry

\* Only the task starts a transmission, and a client call that finds one on
\* leaves the chip alone.
LEMMA ClientNeverTransmits ==
    ASSUME IInv, Client
    PROVE  /\ radio'.state = "Transmitting" => radio.state = "Transmitting"
           /\ radio.state = "Transmitting" =>
                /\ radio'.chip = radio.chip /\ radio'.state = radio.state
                /\ radio'.flags = radio.flags
<1>1. radio \in Radios
  BY DEF IInv, Sound
<1>2. ASSUME NEW f \in Frames, NEW d \in Delays,
             radio' = TransmitDataframe(radio, f, d)
      PROVE  /\ radio'.state = radio.state
             /\ radio.state = "Transmitting" =>
                  radio'.chip = radio.chip /\ radio'.flags = radio.flags
  BY <1>1, <1>2 DEF TransmitDataframe, PrepareTx, Radios
<1>3. ASSUME NEW b \in BOOLEAN, radio' = SetStartReceive(radio, b)
      PROVE  /\ radio'.state = "Transmitting" => radio.state = "Transmitting"
             /\ radio.state = "Transmitting" =>
                  /\ radio'.chip = radio.chip /\ radio'.state = radio.state
                  /\ radio'.flags = radio.flags
  <2> DEFINE s == [radio EXCEPT !.rxStartedFlag = b, !.leaveRxFlag = ~b]
  <2>1. /\ s \in Radios /\ s.state = radio.state /\ s.chip = radio.chip
        /\ s.flags = radio.flags
    BY <1>1 DEF Radios
  <2>2. CASE radio.state \notin {"Idle", "IdleReceive"}
    <3>1. radio' = s
      BY <1>3, <2>2 DEF SetStartReceive
    <3>. QED  BY <2>1, <3>1
  <2>3. CASE radio.state \in {"Idle", "IdleReceive"}
    <3> HIDE DEF s
    <3>1. /\ StartIdle(s).state = "Idle" /\ StartIdle(s) \in Radios
          /\ StartIdleRx(UpdateModParams(s)).state = "IdleReceive"
      BY <2>1, StartIdleLemma, StartIdleRxLemma, UpdateModParamsLemma
    <3>2. \/ radio' = [StartIdle(s) EXCEPT !.leaveRxFlag = FALSE]
          \/ radio' = StartIdleRx(UpdateModParams(s))
          \/ radio' = [s EXCEPT !.rxStartedFlag = FALSE]
          \/ radio' = s
      BY <1>3, <2>3 DEF SetStartReceive, s
    <3>3. radio'.state \in {"Idle", "IdleReceive", s.state}
      BY <2>1, <3>1, <3>2 DEF Radios
    <3>. QED  BY <2>1, <2>3, <3>3
  <2>. QED  BY <2>2, <2>3
<1>4. ASSUME \/ \E b \in BOOLEAN : radio' = SetEnableTxRx(radio, b)
             \/ \E c \in Channels : radio' = SetChannel(radio, c)
             \/ radio' = SetModulation(radio)
      PROVE  /\ radio'.state = radio.state /\ radio'.chip = radio.chip
             /\ radio'.flags = radio.flags
  BY <1>1, <1>4 DEF SetEnableTxRx, SetChannel, SetModulation, Radios
<1>5. CASE ClientTransmit
  BY <1>2, <1>5 DEF ClientTransmit, Offered
<1>6. CASE ClientStartReceive
  BY <1>3, <1>6 DEF ClientStartReceive, Switches
<1>7. CASE ClientEnableTxRx \/ ClientSetChannel \/ ClientSetModulation
  BY <1>4, <1>7 DEF ClientEnableTxRx, ClientSetChannel, ClientSetModulation,
                    Switches
<1>. QED  BY <1>5, <1>6, <1>7 DEF Client

\* The first run of the task sets the chip up and leaves its IRQs.
LEMMA InitStep ==
    ASSUME IInv, TaskInit
    PROVE  /\ OnChannel(radio')
           /\ radio'.flags = radio.flags
           /\ radio'.chip.irq \in {radio.chip.irq, {}}
           /\ radio'.chip.rxMem = radio.chip.rxMem
           /\ radio'.lateEnd = radio.lateEnd
           /\ radio'.state = "Idle" /\ radio'.chip.mode = "Stdby"
           /\ phase = "wait" /\ phase' = "wait"
<1> DEFINE chip == SetupLoRa(radio.chip, radio.channel)
           ready == [radio EXCEPT !.chip = chip, !.paramsChanged = FALSE,
                                  !.successAge = 0, !.released = TRUE]
<1>1. radio \in Radios
  BY DEF IInv, Sound
<1>2. /\ chip \in Chips /\ chip.irq = radio.chip.irq
      /\ chip.rxMem = radio.chip.rxMem /\ chip.channel = radio.channel
  BY <1>1, ChipTypes, ChipKeepsRest DEF Radios
<1>3. radio' = StartIdle(ready) /\ phase = "wait" /\ phase' = "wait"
  BY DEF TaskInit
<1> HIDE DEF chip
<1>4. /\ ready \in Radios
      /\ ready.chip = chip /\ ready.flags = radio.flags
      /\ ready.channel = radio.channel /\ ~ready.paramsChanged
      /\ ready.lateEnd = radio.lateEnd
  <2>1. 0 \in 0 .. RxDeadTime + 1
    BY TimeoutAssumption
  <2>. QED  BY <1>1, <1>2, <2>1 DEF Radios
<1>5. Carries(StartIdle(ready), ready)
  BY <1>4, StartIdleCarries
<1>6. /\ StartIdle(ready).state = "Idle"
      /\ StartIdle(ready).chip.mode = "Stdby"
      /\ StartIdle(ready).flags = ready.flags
      /\ StartIdle(ready).channel = ready.channel
      /\ StartIdle(ready).paramsChanged = ready.paramsChanged
      /\ StartIdle(ready).chip.channel = ready.chip.channel
  <2> HIDE DEF ready
  <2>. QED  BY <1>4, StartIdleLemma, StartIdleCarries DEF StartIdle, Radios
<1> HIDE DEF ready
<1>. QED  BY <1>2, <1>3, <1>4, <1>5, <1>6 DEF Carries, OnChannel

LEMMA FetchStep ==
    ASSUME IInv, TaskFetch
    PROVE  /\ radio'.flags = radio.flags \cup radio.chip.irq
           /\ radio'.chip.irq = {}
           /\ LET m == radio.chip.rxMem
                  n == radio'.chip.rxMem
              IN  /\ n.ok = m.ok /\ n.early = m.early /\ n.due = m.due
                  /\ n.fetched <=> m.fetched \/ "rxDone" \in radio.chip.irq
           /\ radio'.chip.mode = radio.chip.mode
           /\ radio'.chip.channel = radio.chip.channel
           /\ radio'.state = radio.state /\ radio'.channel = radio.channel
           /\ radio'.paramsChanged = radio.paramsChanged
           /\ radio'.lateEnd = radio.lateEnd
           /\ phase = "wait" /\ phase' = "update"
<1> DEFINE irq == radio.chip.irq
           m == radio.chip.rxMem
           n == [m EXCEPT !.fetched = @ \/ "rxDone" \in irq]
           chip == FetchIrqStatus(radio.chip)
<1>1. radio \in Radios /\ radio.chip \in Chips /\ m \in Packets
  BY DEF IInv, Sound, Radios, Chips
<1>2. /\ chip.irq = {} /\ chip.rxMem = n
      /\ chip.mode = radio.chip.mode /\ chip.channel = radio.chip.channel
  <2> DEFINE cleared == [radio.chip EXCEPT !.irq = @ \ irq]
  <2>1. /\ cleared \in Chips /\ cleared.irq = {} /\ cleared.rxMem = m
        /\ cleared.mode = radio.chip.mode
        /\ cleared.channel = radio.chip.channel
    BY <1>1 DEF Chips
  <2>2. chip = [cleared EXCEPT !.rxMem = n]
    BY <2>1 DEF FetchIrqStatus, ClearIrqStatus
  <2> HIDE DEF cleared, chip
  <2>. QED  BY <2>1, <2>2 DEF Chips
<1>3. /\ n.ok = m.ok /\ n.early = m.early /\ n.due = m.due
      /\ n.fetched <=> m.fetched \/ "rxDone" \in irq
  BY <1>1 DEF Packets
<1>4. radio' = FetchIrqFlags(radio) /\ phase = "wait" /\ phase' = "update"
  BY DEF TaskFetch
<1>5. /\ radio'.flags = radio.flags \cup irq /\ radio'.chip = chip
      /\ radio'.state = radio.state /\ radio'.channel = radio.channel
      /\ radio'.paramsChanged = radio.paramsChanged
      /\ radio'.lateEnd = radio.lateEnd
  BY <1>1, <1>4 DEF FetchIrqFlags, Radios
<1>. QED  BY <1>2, <1>3, <1>4, <1>5

\* What the chip does on its own changes nothing but the chip.
LEMMA ChipMoves ==
    ASSUME IInv, NEW c, NEW dio1, ChipStep(c, dio1)
    PROVE  /\ radio'.chip = c /\ radio'.flags = radio.flags
           /\ radio'.state = radio.state /\ radio'.channel = radio.channel
           /\ radio'.paramsChanged = radio.paramsChanged
           /\ radio'.lateEnd = radio.lateEnd
           /\ radio'.txAge = radio.txAge
           /\ phase' = phase
<1>1. radio \in Radios
  BY DEF IInv, Sound
<1>2. PICK edge : radio' = [radio EXCEPT !.chip = c, !.irqTrig = @ \/ edge]
  BY DEF ChipStep
<1>3. phase' = phase
  BY DEF ChipStep
<1>. QED  BY <1>1, <1>2, <1>3 DEF Radios

(***************************************************************************)
(* The events of the chip, by what they raise: something of a packet that  *)
(* is not complete, a packet, the end of a transmission, or after it hung  *)
(* and was reset nothing at all.                                           *)
(***************************************************************************)
LEMMA ChipStepCases ==
    ASSUME IInv, Chip
    PROVE  /\ radio'.flags = radio.flags
           /\ radio'.state = radio.state /\ radio'.channel = radio.channel
           /\ radio'.paramsChanged = radio.paramsChanged
           /\ radio'.lateEnd = radio.lateEnd
           /\ phase' = phase
           /\ radio'.chip.channel = radio.chip.channel
           /\ \/ \E bits \in SUBSET {"preamble", "headerValid", "headerError"} :
                   /\ radio'.chip.irq = radio.chip.irq \cup bits
                   /\ radio'.chip.rxMem = radio.chip.rxMem
                   /\ radio'.chip.mode = radio.chip.mode
              \/ \E ok \in BOOLEAN :
                   /\ radio.chip.mode = "Rx" /\ radio'.chip.mode = "Rx"
                   /\ radio'.chip.irq = radio.chip.irq \cup {"rxDone"}
                         \cup (IF ok THEN {} ELSE {"crcError"})
                   /\ radio'.chip.rxMem = NewPacket(ok)
              \/ \E irq \in TxEnds :
                   /\ radio.chip.mode = "Tx" /\ radio'.chip.mode = "Stdby"
                   /\ radio'.chip.irq = radio.chip.irq \cup {irq}
                   /\ radio'.chip.rxMem = radio.chip.rxMem
              \/ /\ radio'.chip.irq = {} /\ radio'.chip.rxMem = NoPacket
                 /\ radio'.chip.mode = "Stdby" /\ ~radio'.chip.setUp
<1> DEFINE chip == radio.chip
<1>1. chip \in Chips
  BY DEF IInv, Sound, Radios
<1>2. CASE ChipPreamble
  <2>1. ChipStep(PreambleHeard(chip), FALSE)
    BY <1>2 DEF ChipPreamble
  <2>2. /\ PreambleHeard(chip).irq = chip.irq \cup {"preamble"}
        /\ PreambleHeard(chip).rxMem = chip.rxMem
        /\ PreambleHeard(chip).mode = chip.mode
        /\ PreambleHeard(chip).channel = chip.channel
    BY <1>1 DEF PreambleHeard, Raise, Chips
  <2>3. {"preamble"} \in SUBSET {"preamble", "headerValid", "headerError"}
    OBVIOUS
  <2>. QED  BY <2>1, <2>2, <2>3, ChipMoves
<1>3. CASE ChipHeader
  <2>1. \/ ChipStep(HeaderHeard(chip), FALSE)
        \/ ChipStep(HeaderBroken(chip), FALSE)
    BY <1>3 DEF ChipHeader
  <2>2. /\ HeaderHeard(chip).irq = chip.irq \cup {"headerValid"}
        /\ HeaderBroken(chip).irq = chip.irq \cup {"headerError"}
        /\ \A c \in {HeaderHeard(chip), HeaderBroken(chip)} :
              c.rxMem = chip.rxMem /\ c.mode = chip.mode
              /\ c.channel = chip.channel
    BY <1>1 DEF HeaderHeard, HeaderBroken, Raise, Chips
  <2>3. \A b \in {"headerValid", "headerError"} :
          {b} \in SUBSET {"preamble", "headerValid", "headerError"}
    OBVIOUS
  <2>. QED  BY <2>1, <2>2, <2>3, ChipMoves
<1>4. CASE ChipFade
  <2>1. ChipStep(PacketFaded(chip), FALSE)
    BY <1>4 DEF ChipFade
  <2>2. /\ PacketFaded(chip).irq = chip.irq \cup {}
        /\ PacketFaded(chip).rxMem = chip.rxMem
        /\ PacketFaded(chip).mode = chip.mode
        /\ PacketFaded(chip).channel = chip.channel
    BY <1>1 DEF PacketFaded, Chips
  <2>3. {} \in SUBSET {"preamble", "headerValid", "headerError"}
    OBVIOUS
  <2>. QED  BY <2>1, <2>2, <2>3, ChipMoves
<1>5. CASE ChipRxDone
  <2>1. PICK ok \in BOOLEAN : ChipStep(PacketReceived(chip, ok), TRUE)
    BY <1>5 DEF ChipRxDone
  <2>2. /\ PacketReceived(chip, ok).irq =
             chip.irq \cup {"rxDone"} \cup (IF ok THEN {} ELSE {"crcError"})
        /\ PacketReceived(chip, ok).rxMem = NewPacket(ok)
        /\ PacketReceived(chip, ok).mode = chip.mode
        /\ PacketReceived(chip, ok).channel = chip.channel
    BY <1>1 DEF PacketReceived, Raise, Chips
  <2>3. chip.mode = "Rx"
    BY <1>5 DEF ChipRxDone, Listens
  <2>. QED  BY <2>1, <2>2, <2>3, ChipMoves
<1>6. CASE ChipTxOver
  <2>1. PICK irq \in TxEnds, dio1 \in BOOLEAN :
          ChipStep(TransmissionOver(chip, irq), dio1)
    BY <1>6 DEF ChipTxOver, TxEnds
  <2>2. /\ TransmissionOver(chip, irq).irq = chip.irq \cup {irq}
        /\ TransmissionOver(chip, irq).rxMem = chip.rxMem
        /\ TransmissionOver(chip, irq).mode = "Stdby"
        /\ TransmissionOver(chip, irq).channel = chip.channel
    BY <1>1 DEF TransmissionOver, Raise, Chips
  <2>3. chip.mode = "Tx"
    BY <1>6 DEF ChipTxOver, Transmits
  <2>. QED  BY <2>1, <2>2, <2>3, ChipMoves
<1>7. CASE ChipHangs
  <2>1. ChipStep(BusyReset(chip), FALSE)
    BY <1>7 DEF ChipHangs
  <2>2. /\ BusyReset(chip).irq = {} /\ BusyReset(chip).rxMem = NoPacket
        /\ BusyReset(chip).mode = "Stdby" /\ ~BusyReset(chip).setUp
        /\ BusyReset(chip).channel = chip.channel
    BY DEF BusyReset, ResetDevice, PoweredUp
  <2>. QED  BY <2>1, <2>2, ChipMoves
<1>. QED  BY <1>2, <1>3, <1>4, <1>5, <1>6, <1>7 DEF Chip

-----------------------------------------------------------------------------
(* The channel.                                                            *)

LEMMA ChannelStep ==
    ASSUME ChannelInv, [Next]_vars
    PROVE  ChannelInv'
<1>1. IInv /\ IInv' /\ radio \in Radios
  BY InvariantStep DEF ChannelInv, IInv, Sound
<1> SUFFICES Tuned(radio')
  BY <1>1 DEF ChannelInv
<1>2. CASE TaskInit
  BY <1>1, <1>2, InitStep DEF OnChannel, Tuned
<1>3. CASE TaskFetch
  BY <1>1, <1>3, FetchStep DEF ChannelInv, Tuned
<1>4. CASE TaskUpdate
  <2>1. PICK r \in TaskOutcomes(radio) :
          /\ radio'.chip = r.chip /\ radio'.channel = r.channel
          /\ radio'.paramsChanged = r.paramsChanged
    BY <1>1, <1>4, UpdateStep
  <2>2. radio.state # "Sleep" /\ Tuned(radio)
    BY <1>4 DEF TaskUpdate, ChannelInv, IInv
  <2>3. Tuned(r)
    BY <1>1, <2>2, TaskRuns DEF RunsFrom
  <2>. QED  BY <2>1, <2>3 DEF Tuned
<1>5. CASE Client
  BY <1>1, <1>5, ClientStep DEF ChannelInv, Carries
<1>6. CASE Chip
  BY <1>1, <1>6, ChipStepCases DEF ChannelInv, Tuned
<1>7. CASE Tick
  BY <1>1, <1>7, ElapseCarries DEF ChannelInv, Tick, Carries
<1>8. CASE UNCHANGED vars
  BY <1>8 DEF vars, ChannelInv, Tuned
<1>. QED  BY <1>2, <1>3, <1>4, <1>5, <1>6, <1>7, <1>8 DEF Next, Task

LEMMA ChannelInvHolds == Spec => []ChannelInv
<1>1. Init => Tuned(radio)
  BY DEF Init, Tuned
<1>2. Init => ChannelInv
  BY <1>1, InitSound DEF ChannelInv
<1>. QED  BY <1>2, ChannelStep, PTL DEF Spec

\* The channel in the chip is the one selected, or the change is still
\* flagged, unless checkBusy reset the chip (setChannel, updateModParams,
\* fullReconfigure, taskInit).
THEOREM ChannelIsTracked == Spec => []ChannelTracked
<1>1. ChannelInv => ChannelTracked
  BY DEF ChannelInv, Tuned, ChannelTracked, IInv, Sound, Radios
<1>. QED  BY <1>1, ChannelInvHolds, PTL

\* The task alone starts transmissions, and on the selected channel.
LEMMA LaunchStep ==
    ASSUME ChannelInv, [Next]_vars
    PROVE  [radio.state # "Transmitting" /\ radio'.state = "Transmitting"
                /\ radio'.chip.setUp
              => /\ radio'.chip.channel = radio'.channel
                 /\ ~radio'.paramsChanged]_vars
<1> SUFFICES ASSUME Next, radio.state # "Transmitting",
                    radio'.state = "Transmitting"
             PROVE  OnChannel(radio')
  BY DEF OnChannel
<1>1. IInv /\ radio \in Radios
  BY DEF ChannelInv, IInv, Sound
<1>2. CASE TaskInit
  BY <1>1, <1>2, InitStep
<1>3. CASE TaskFetch
  BY <1>1, <1>3, FetchStep
<1>4. CASE TaskUpdate
  <2>1. PICK r \in TaskOutcomes(radio) :
          /\ radio'.chip = r.chip /\ radio'.state = r.state
          /\ radio'.channel = r.channel
          /\ radio'.paramsChanged = r.paramsChanged
    BY <1>1, <1>4, UpdateStep
  <2>2. radio.state # "Sleep"
    BY <1>1, <1>4 DEF IInv, TaskUpdate
  <2>3. Launches(r, radio)
    BY <1>1, <2>2, TaskRuns
  <2>. QED  BY <2>1, <2>3 DEF ChannelInv, Launches, OnChannel
<1>5. CASE Client
  BY <1>1, <1>5, ClientNeverTransmits
<1>6. CASE Chip
  BY <1>1, <1>6, ChipStepCases
<1>7. CASE Tick
  BY <1>1, <1>7, ElapseKeeps DEF Tick
<1>. QED  BY <1>2, <1>3, <1>4, <1>5, <1>6, <1>7 DEF Next, Task

\* Every transmission starts on the channel last selected, whichever state
\* function or handler callback it starts from, unless checkBusy reset the
\* chip (startTx).
THEOREM StartsOnSelectedChannel == Spec => TxOnSelectedChannel
BY LaunchStep, ChannelInvHolds, PTL DEF Spec, TxOnSelectedChannel

-----------------------------------------------------------------------------
(* The end of a transmission.                                              *)

LEMMA TransmissionStep ==
    ASSUME TransmissionInv, [Next]_vars
    PROVE  TransmissionInv'
<1>1. IInv /\ IInv' /\ radio \in Radios
  BY InvariantStep DEF TransmissionInv, IInv, Sound
<1> SUFFICES EndIsKnown'
  BY <1>1 DEF TransmissionInv
<1>2. TxEnds \cap (radio.flags \cup radio.chip.irq) # {}
        => \/ radio.state = "Transmitting" /\ radio.chip.mode # "Tx"
           \/ radio.lateEnd
  BY DEF TransmissionInv, EndIsKnown
<1>3. CASE TaskInit
  <2>1. radio.state = "Sleep"
    BY <1>3 DEF TaskInit
  <2>. QED  BY <1>1, <1>2, <1>3, <2>1, InitStep DEF EndIsKnown
<1>4. CASE TaskFetch
  BY <1>1, <1>2, <1>4, FetchStep DEF EndIsKnown
<1>5. CASE TaskUpdate
  <2>1. PICK r \in TaskOutcomes(radio) :
          /\ radio'.chip = r.chip /\ radio'.flags = r.flags
          /\ radio'.state = r.state /\ radio'.lateEnd = r.lateEnd
    BY <1>1, <1>5, UpdateStep
  <2>2. radio.state # "Sleep"
    BY <1>1, <1>5 DEF IInv, TaskUpdate
  <2>3. /\ r.flags \subseteq radio.flags
        /\ r.chip.irq \subseteq radio.chip.irq
    BY <1>1, <2>2, TaskRuns DEF RunsFrom
  <2>4. CASE radio.state # "Transmitting"
    <3>1. r.lateEnd = radio.lateEnd
      BY <1>1, <2>2, <2>4, TaskRuns
    <3>. QED  BY <1>2, <2>1, <2>3, <2>4, <3>1 DEF EndIsKnown
  <2>5. CASE radio.state = "Transmitting"
    <3>1. r \in UpdateTransmitState(radio)
      BY <2>5 DEF TaskOutcomes
    <3>2. CASE r = radio
      BY <1>2, <2>1, <3>2 DEF EndIsKnown
    <3>3. CASE /\ r.flags = radio.flags \ TxEnds
               /\ r.lateEnd = (TxEnds \cap r.chip.irq # {})
      BY <2>1, <3>3 DEF EndIsKnown
    <3>. QED  BY <1>1, <2>5, <3>1, <3>2, <3>3, TransmitRuns
  <2>. QED  BY <2>4, <2>5
<1>6. CASE Client
  BY <1>1, <1>2, <1>6, ClientStep, ClientNeverTransmits
     DEF EndIsKnown, Carries
<1>7. CASE Chip
  <2>1. radio.chip.mode = "Tx" => radio.state = "Transmitting"
    BY <1>1 DEF IInv, Sound
  <2>2. /\ TxEnds \cap {"preamble", "headerValid", "headerError"} = {}
        /\ TxEnds \cap {"rxDone", "crcError"} = {}
    BY DEF TxEnds
  <2>3. /\ radio'.flags = radio.flags /\ radio'.state = radio.state
        /\ radio'.lateEnd = radio.lateEnd
    BY <1>1, <1>7, ChipStepCases
  <2>4. \/ TxEnds \cap radio'.chip.irq = TxEnds \cap radio.chip.irq
           /\ radio'.chip.mode = radio.chip.mode
        \/ radio.chip.mode = "Tx" /\ radio'.chip.mode = "Stdby"
        \/ radio'.chip.irq = {} /\ radio'.chip.mode = "Stdby"
    BY <1>1, <1>7, <2>2, ChipStepCases
  <2>. QED  BY <1>2, <2>1, <2>3, <2>4 DEF EndIsKnown
<1>8. CASE Tick
  BY <1>1, <1>2, <1>8, ElapseKeeps, ElapseCarries
     DEF EndIsKnown, Tick, Carries
<1>9. CASE UNCHANGED vars
  BY <1>2, <1>9 DEF vars, EndIsKnown
<1>. QED  BY <1>3, <1>4, <1>5, <1>6, <1>7, <1>8, <1>9 DEF Next, Task

LEMMA AbortStep ==
    ASSUME TransmissionInv, [Next]_vars
    PROVE  [radio.chip.mode = "Tx" /\ radio'.chip.mode # "Tx"
              => \/ TxEnds \cap radio'.chip.irq # {}
                 \/ ~radio'.chip.setUp
                 \/ radio.txAge > TxActiveTimeout
                 \/ radio.lateEnd]_vars
<1> SUFFICES ASSUME Next, radio.chip.mode = "Tx", radio'.chip.mode # "Tx",
                    ~radio.lateEnd
             PROVE  \/ ~radio'.chip.setUp
                    \/ TxEnds \cap radio'.chip.irq # {}
                    \/ radio.txAge > TxActiveTimeout
  OBVIOUS
<1>1. IInv /\ radio \in Radios /\ radio.state = "Transmitting"
  BY DEF TransmissionInv, IInv, Sound
<1>2. TxEnds \cap radio.flags = {}
  BY DEF TransmissionInv, EndIsKnown
<1>3. CASE TaskInit
  BY <1>1, <1>3 DEF TaskInit
<1>4. CASE TaskFetch
  BY <1>1, <1>4, FetchStep
<1>5. CASE TaskUpdate
  <2>1. PICK r \in TaskOutcomes(radio) : radio'.chip = r.chip
    BY <1>1, <1>5, UpdateStep
  <2>2. r \in UpdateTransmitState(radio)
    BY <1>1 DEF TaskOutcomes
  <2>3. TransmissionEnded(radio)
    BY <2>1, <2>2 DEF UpdateTransmitState
  <2>. QED  BY <1>2, <2>3 DEF TransmissionEnded
<1>6. CASE Client
  BY <1>1, <1>6, ClientNeverTransmits
<1>7. CASE Chip
  <2>1. \/ \E irq \in TxEnds : radio'.chip.irq = radio.chip.irq \cup {irq}
        \/ ~radio'.chip.setUp
    BY <1>1, <1>7, ChipStepCases
  <2>. QED  BY <2>1
<1>8. CASE Tick
  BY <1>1, <1>8, ElapseKeeps DEF Tick
<1>. QED  BY <1>3, <1>4, <1>5, <1>6, <1>7, <1>8 DEF Next, Task

\* A transmission the chip has not ended is cut short only after the software
\* timeout, or when the one before it was given up in the very run in which
\* the chip ended it (updateTransmitState), or by checkBusy's reset.
THEOREM OnlyTimeoutAborts == Spec => TransmissionNotAborted
<1>1. Init => TransmissionInv
  <2>1. Init => radio.flags = {} /\ radio.chip.irq = {}
    BY DEF Init, PoweredUp
  <2>. QED  BY <2>1, InitSound DEF TransmissionInv, EndIsKnown
<1>. QED  BY <1>1, TransmissionStep, AbortStep, PTL
          DEF Spec, TransmissionNotAborted

-----------------------------------------------------------------------------
(* The packets that are read out.                                          *)

\* An event of the chip leaves its memory and rxDone alone, or brings a new
\* packet together with what its CRC says, or loses all.
LEMMA PacketsComeWhole ==
    ASSUME IInv, Chip
    PROVE  \/ /\ radio'.chip.rxMem = radio.chip.rxMem
              /\ radio.chip.irq \subseteq radio'.chip.irq
              /\ "rxDone" \in radio'.chip.irq => "rxDone" \in radio.chip.irq
           \/ \E ok \in BOOLEAN :
                /\ radio'.chip.rxMem = NewPacket(ok)
                /\ ~ok => "crcError" \in radio'.chip.irq
           \/ radio'.chip.rxMem = NoPacket /\ radio'.chip.irq = {}
<1>1. CASE \E bits \in SUBSET {"preamble", "headerValid", "headerError"} :
             /\ radio'.chip.irq = radio.chip.irq \cup bits
             /\ radio'.chip.rxMem = radio.chip.rxMem
  BY <1>1
<1>2. CASE \E ok \in BOOLEAN :
             /\ radio'.chip.irq = radio.chip.irq \cup {"rxDone"}
                   \cup (IF ok THEN {} ELSE {"crcError"})
             /\ radio'.chip.rxMem = NewPacket(ok)
  BY <1>2
<1>3. CASE \E irq \in TxEnds :
             /\ radio'.chip.irq = radio.chip.irq \cup {irq}
             /\ radio'.chip.rxMem = radio.chip.rxMem
  BY <1>3 DEF TxEnds
<1>. QED  BY <1>1, <1>2, <1>3, ChipStepCases

\* A run keeps the record of the packet and its IRQs straight.
LEMMA RunKeepsPacket ==
    ASSUME NEW r \in Radios, NEW x \in Radios, RunsFrom(x, r),
           PacketOK(r.chip.rxMem, r.chip.irq, r.flags)
    PROVE  PacketOK(x.chip.rxMem, x.chip.irq, x.flags)
<1> DEFINE m == r.chip.rxMem
           n == x.chip.rxMem
<1>1. m \in Packets /\ n \in Packets
  BY DEF Radios, Chips
<1>2. /\ x.chip.irq \in {r.chip.irq, {}}
      /\ "rxDone" \in x.flags => "rxDone" \in r.flags
      /\ "rxDone" \in x.flags /\ "crcError" \in r.flags
           => "crcError" \in x.flags
  BY DEF RunsFrom
<1>3. CASE n = m
  BY <1>1, <1>2, <1>3 DEF PacketOK, Fetched, Unfetched
<1>4. CASE n = NoPacket /\ x.chip.irq = {}
  BY <1>4 DEF PacketOK, Unfetched, NoPacket, NewPacket
<1>5. CASE /\ "rxDone" \in r.flags /\ "crcError" \notin r.flags
           /\ "rxDone" \notin x.flags
           /\ ReadOut(m, n)
  <2>1. CASE m.fetched
    <3>1. "rxDone" \notin r.chip.irq /\ m.early <= 1 /\ m.due = 0 /\ m.ok
      BY <1>1, <1>5, <2>1 DEF PacketOK, Fetched, Packets
    <3>2. n.fetched /\ n.early <= 1 /\ n.due = 1 /\ n.ok
      BY <1>5, <2>1, <3>1 DEF ReadOut
    <3>. QED  BY <1>2, <1>5, <3>1, <3>2 DEF PacketOK, Fetched
  <2>2. CASE ~m.fetched
    <3>1. /\ m.due = 0 /\ m.early = 0
          /\ "rxDone" \in r.chip.irq /\ ~m.ok => "crcError" \in r.chip.irq
      BY <1>1, <1>5, <2>2 DEF PacketOK, Unfetched, Packets
    <3>2. ~n.fetched /\ n.early = 1 /\ n.due = 0 /\ n.ok = m.ok
      BY <1>5, <2>2, <3>1 DEF ReadOut
    <3>. QED  BY <1>2, <1>5, <3>1, <3>2 DEF PacketOK, Unfetched
  <2>. QED  BY <2>1, <2>2
<1>. QED  BY <1>3, <1>4, <1>5 DEF RunsFrom

LEMMA PacketStep ==
    ASSUME PacketInv, [Next]_vars
    PROVE  PacketInv'
<1> DEFINE m == radio.chip.rxMem
<1>1. IInv /\ IInv' /\ radio \in Radios /\ radio' \in Radios /\ m \in Packets
  BY InvariantStep DEF PacketInv, IInv, Sound, Radios, Chips
<1> SUFFICES PacketOK(radio'.chip.rxMem, radio'.chip.irq, radio'.flags)
  BY <1>1 DEF PacketInv
<1>2. PacketOK(m, radio.chip.irq, radio.flags)
  BY DEF PacketInv
<1>3. CASE TaskInit
  BY <1>1, <1>2, <1>3, InitStep DEF PacketOK, Fetched, Unfetched
<1>4. CASE TaskFetch
  <2> DEFINE n == radio'.chip.rxMem
  <2>1. /\ radio'.chip.irq = {} /\ radio'.flags = radio.flags \cup radio.chip.irq
        /\ n.ok = m.ok /\ n.early = m.early /\ n.due = m.due
        /\ n.fetched <=> m.fetched \/ "rxDone" \in radio.chip.irq
    BY <1>1, <1>4, FetchStep
  <2>2. CASE m.fetched
    BY <1>2, <2>1, <2>2 DEF PacketOK, Fetched
  <2>3. CASE ~m.fetched /\ "rxDone" \in radio.chip.irq
    BY <1>2, <2>1, <2>3 DEF PacketOK, Fetched, Unfetched
  <2>4. CASE ~m.fetched /\ "rxDone" \notin radio.chip.irq
    BY <1>2, <2>1, <2>4 DEF PacketOK, Unfetched
  <2>. QED  BY <2>2, <2>3, <2>4
<1>5. CASE TaskUpdate
  <2>1. PICK r \in TaskOutcomes(radio) :
          r \in Radios /\ radio'.chip = r.chip /\ radio'.flags = r.flags
    BY <1>1, <1>5, UpdateStep
  <2>2. radio.state # "Sleep"
    BY <1>1, <1>5 DEF IInv, TaskUpdate
  <2>3. PacketOK(r.chip.rxMem, r.chip.irq, r.flags)
    BY <1>1, <1>2, <2>1, <2>2, TaskRuns, RunKeepsPacket
  <2>. QED  BY <2>1, <2>3
<1>6. CASE Client
  BY <1>1, <1>2, <1>6, ClientStep DEF PacketOK, Fetched, Unfetched, Carries
<1>7. CASE Chip
  <2>1. radio'.flags = radio.flags
    BY <1>1, <1>7, ChipStepCases
  <2>2. CASE /\ radio'.chip.rxMem = m
             /\ radio.chip.irq \subseteq radio'.chip.irq
             /\ "rxDone" \in radio'.chip.irq => "rxDone" \in radio.chip.irq
    BY <1>2, <2>1, <2>2 DEF PacketOK, Fetched, Unfetched
  <2>3. CASE \E ok \in BOOLEAN :
               /\ radio'.chip.rxMem = NewPacket(ok)
               /\ ~ok => "crcError" \in radio'.chip.irq
    BY <2>3 DEF PacketOK, Unfetched, NewPacket
  <2>4. CASE radio'.chip.rxMem = NoPacket /\ radio'.chip.irq = {}
    BY <2>4 DEF PacketOK, Unfetched, NoPacket, NewPacket
  <2>. QED  BY <1>1, <1>7, <2>2, <2>3, <2>4, PacketsComeWhole
<1>8. CASE Tick
  BY <1>1, <1>2, <1>8, ElapseKeeps DEF Tick
<1>9. CASE UNCHANGED vars
  BY <1>2, <1>9 DEF vars
<1>. QED  BY <1>3, <1>4, <1>5, <1>6, <1>7, <1>8, <1>9 DEF Next, Task

LEMMA PacketInvHolds == Spec => []PacketInv
<1>1. Init => PacketInv
  <2>1. Init => radio.flags = {} /\ radio.chip.irq = {}
                  /\ radio.chip.rxMem = NoPacket
    BY DEF Init, PoweredUp
  <2>2. PacketOK(NoPacket, {}, {})
    BY DEF PacketOK, Unfetched, NoPacket, NewPacket
  <2>. QED  BY <2>1, <2>2, InitSound DEF PacketInv
<1>. QED  BY <1>1, PacketStep, PTL DEF Spec

\* A packet is handed to the receive handlers once for its own IRQs, and at
\* most once more before they are fetched, whatever the clients do and
\* whenever the chip acts (retrieveRxData, clearReceiveFlags).
THEOREM PacketsAreDeliveredOnce == Spec => []DeliveredOnce
<1>1. PacketInv => DeliveredOnce
  BY DEF PacketInv, PacketOK, Fetched, Unfetched, DeliveredOnce
<1>. QED  BY <1>1, PacketInvHolds, PTL

\* The receive handlers get no packet that failed its CRC on the strength of
\* its own IRQs, whatever the clients do and whenever the chip acts
\* (updateReceiveState).
THEOREM NoBadPacketDelivered == Spec => []DeliveredIntact
<1>1. PacketInv => DeliveredIntact
  BY DEF PacketInv, PacketOK, Fetched, Unfetched, DeliveredIntact
<1>. QED  BY <1>1, PacketInvHolds, PTL
=============================================================================
