--------------------------- MODULE Sx1280V2Proofs ---------------------------
(***************************************************************************)
(* The inductive invariant of Datalink_SX1280_V2, for every choice of      *)
(* frames, channels, timeouts and environment; and that it implements      *)
(* TxQueue: the refinement mapping of Sx1280V2Properties takes every step  *)
(* of the radio to a step of the queue or to none.                         *)
(***************************************************************************)
EXTENDS Sx1280V2Properties, SequenceTheorems, TLAPS

-----------------------------------------------------------------------------
(* The invariant.                                                          *)

\* No frame is left in txBuffer while the chip's buffer is free.
NothingWaits(r) == r.sxTx = NoFrame => r.txBuffer = NoFrame

(***************************************************************************)
(* What holds of the radio between any two steps.  The properties of the   *)
(* runs are not inductive one by one: RequestsSettled and NoFrameStranded  *)
(* need that a transmission has a frame, ChipFollowsState that the state   *)
(* functions leave no mode behind, ReceivingIsPolled that only these       *)
(* functions enter Receiving.                                              *)
(***************************************************************************)
Sound(r) ==
    /\ r \in Radios
    /\ r.state = "IdleReceive" => ~r.rxStartedFlag /\ ~r.leaveRxFlag
    /\ r.state = "Receiving" => "preamble" \in r.flags
    /\ r.state = "Transmitting" => r.sxTx # NoFrame
    /\ r.chip.mode = "Tx" => r.state = "Transmitting"
    /\ r.chip.mode = "Rx" => r.state \in {"IdleReceive", "Receiving"}
    /\ NothingWaits(r) \/ r.state \in {"Sleep", "Receiving"} \/ r.released

\* What holds where a run of the task ends.
Settled(r) == Sound(r) /\ (NothingWaits(r) \/ r.state = "Receiving")

IInv ==
    /\ Sound(radio)
    /\ phase \in {"wait", "update"}
    /\ phase = "update" => radio.state # "Sleep"

-----------------------------------------------------------------------------
(* Lemmas about the chip: the driver functions keep its type and say which *)
(* mode it is in afterwards.                                               *)

LEMMA ChipTypes ==
    ASSUME NEW c \in Chips
    PROVE  /\ SetStandby(c) \in Chips /\ SetStandby(c).mode = "Stdby"
           /\ SetStandby(c).txMem = c.txMem
           /\ SetTx(c).txMem = c.txMem /\ SetRxContinuous(c).txMem = c.txMem
           /\ SetTx(c) \in Chips /\ SetTx(c).mode = "Tx"
           /\ SetRxContinuous(c) \in Chips /\ SetRxContinuous(c).mode = "Rx"
           /\ ReadSXBuffer(c) \in Chips /\ ReadSXBuffer(c).mode = c.mode
           /\ ReadSXBuffer(c).txMem = c.txMem
           /\ \A f \in Slots : /\ WriteSXBuffer(c, f) \in Chips
                               /\ WriteSXBuffer(c, f).mode = "Stdby"
                               /\ WriteSXBuffer(c, f).txMem = f
           /\ \A ch \in Channels :
                /\ SetRfFrequency(c, ch) \in Chips
                /\ SetRfFrequency(c, ch).mode = c.mode
                /\ SetRfFrequency(c, ch).txMem = c.txMem
                /\ SetupLoRa(c, ch) \in Chips
                /\ SetupLoRa(c, ch).mode = "Stdby"
                /\ SetupLoRa(c, ch).txMem = c.txMem
           /\ FetchIrqStatus(c) \in Chips
           /\ FetchIrqStatus(c).mode = c.mode
           /\ FetchIrqStatus(c).txMem = c.txMem
           /\ ResetDevice(c) \in Chips /\ ResetDevice(c).mode = "Stdby"
           /\ ResetDevice(c).txMem = NoFrame /\ ~ResetDevice(c).setUp
<1> USE DEF Chips, Slots
<1>1. /\ SetStandby(c) \in Chips /\ SetStandby(c).mode = "Stdby"
      /\ SetStandby(c).txMem = c.txMem
  BY DEF SetStandby
<1>2. /\ SetTx(c) \in Chips /\ SetTx(c).mode = "Tx"
      /\ SetTx(c).txMem = c.txMem
  BY DEF SetTx
<1>3. /\ SetRxContinuous(c) \in Chips /\ SetRxContinuous(c).mode = "Rx"
      /\ SetRxContinuous(c).txMem = c.txMem
  BY DEF SetRxContinuous
<1>4. /\ ReadSXBuffer(c) \in Chips /\ ReadSXBuffer(c).mode = c.mode
      /\ ReadSXBuffer(c).txMem = c.txMem
  <2> DEFINE Once(n) == IF n < 2 THEN n + 1 ELSE n
  <2>1. \A n \in 0 .. 2 : Once(n) \in 0 .. 2
    OBVIOUS
  <2>2. /\ c.rxMem \in Packets
        /\ c.rxMem.early \in 0 .. 2 /\ c.rxMem.due \in 0 .. 2
    BY DEF Packets
  <2>3. /\ [c.rxMem EXCEPT !.due = Once(@)] \in Packets
        /\ [c.rxMem EXCEPT !.early = Once(@)] \in Packets
    <3> HIDE DEF Once
    <3>. QED  BY <2>1, <2>2 DEF Packets
  <2>4. ReadSXBuffer(c) =
          IF c.rxMem.fetched
            THEN [c EXCEPT !.rxMem = [c.rxMem EXCEPT !.due = Once(@)]]
            ELSE [c EXCEPT !.rxMem = [c.rxMem EXCEPT !.early = Once(@)]]
    BY DEF ReadSXBuffer
  <2> HIDE DEF Once
  <2>. QED  BY <2>3, <2>4
<1>5. \A f \in Slots : /\ WriteSXBuffer(c, f) \in Chips
                       /\ WriteSXBuffer(c, f).mode = "Stdby"
                       /\ WriteSXBuffer(c, f).txMem = f
  BY <1>1 DEF WriteSXBuffer
<1>6. \A ch \in Channels : /\ SetRfFrequency(c, ch) \in Chips
                           /\ SetRfFrequency(c, ch).mode = c.mode
                           /\ SetRfFrequency(c, ch).txMem = c.txMem
  BY DEF SetRfFrequency
<1>7. \A ch \in Channels : /\ SetupLoRa(c, ch) \in Chips
                           /\ SetupLoRa(c, ch).mode = "Stdby"
                           /\ SetupLoRa(c, ch).txMem = c.txMem
  BY <1>1 DEF SetupLoRa, SetRfFrequency
<1>8. /\ FetchIrqStatus(c) \in Chips /\ FetchIrqStatus(c).mode = c.mode
      /\ FetchIrqStatus(c).txMem = c.txMem
  <2> DEFINE cleared == [c EXCEPT !.irq = @ \ c.irq]
             seen == c.rxMem.fetched \/ "rxDone" \in c.irq
             packet == [c.rxMem EXCEPT !.fetched = seen]
  <2>1. cleared \in Chips /\ cleared.rxMem = c.rxMem /\ cleared.mode = c.mode
        /\ cleared.txMem = c.txMem
    OBVIOUS
  <2>2. packet \in Packets
    BY DEF Packets
  <2>3. FetchIrqStatus(c) = [cleared EXCEPT !.rxMem = packet]
    BY <2>1 DEF FetchIrqStatus, ClearIrqStatus
  <2> HIDE DEF cleared, packet
  <2>. QED  BY <2>1, <2>2, <2>3
<1>9. /\ ResetDevice(c) \in Chips /\ ResetDevice(c).mode = "Stdby"
      /\ ResetDevice(c).txMem = NoFrame /\ ~ResetDevice(c).setUp
  BY DEF ResetDevice, PoweredUp, NoPacket, NewPacket, Packets
<1> QED
  BY <1>1, <1>2, <1>3, <1>4, <1>5, <1>6, <1>7, <1>8, <1>9

-----------------------------------------------------------------------------
(* Lemmas about the helpers of the class.                                  *)

LEMMA AgedType ==
    ASSUME NEW L \in Nat, NEW age \in 0 .. L + 1, NEW n \in Nat
    PROVE  Aged(age, L, n) \in 0 .. L + 1
BY DEF Aged

LEMMA ElapseKeeps ==
    ASSUME NEW r \in Radios, NEW n \in Nat
    PROVE  LET e == Elapse(r, n)
           IN  /\ e \in Radios
               /\ e.state = r.state /\ e.chip = r.chip /\ e.sxTx = r.sxTx
               /\ e.txBuffer = r.txBuffer /\ e.flags = r.flags
               /\ e.released = r.released /\ e.rxStartedFlag = r.rxStartedFlag
               /\ e.leaveRxFlag = r.leaveRxFlag /\ e.channel = r.channel
               /\ e.paramsChanged = r.paramsChanged
<1> DEFINE rx == IF r.rxAge = Unset THEN Unset
                                    ELSE Aged(r.rxAge, RxActiveTimeout, n)
           tx == IF r.state = "Transmitting"
                   THEN Aged(r.txAge, TxActiveTimeout, n) ELSE 0
           id == IF r.state = "IdleReceive"
                   THEN Aged(r.idleAge, RxActiveTimeout, n) ELSE 0
           su == Aged(r.successAge, RxDeadTime, n)
           ts == Left(r.txScheduledTime, n)
           pt == Left(r.pendingTxTime, n)
<1>0. /\ r.txAge \in 0 .. TxActiveTimeout + 1
      /\ r.rxAge \in -1 .. RxActiveTimeout + 1
      /\ r.idleAge \in 0 .. RxActiveTimeout + 1
      /\ r.successAge \in 0 .. RxDeadTime + 1
      /\ r.txScheduledTime \in Nat /\ r.pendingTxTime \in Nat
  BY DEF Radios
<1>1. rx \in -1 .. RxActiveTimeout + 1
  <2>1. CASE r.rxAge = Unset
    BY <2>1, TimeoutAssumption DEF Unset
  <2>2. CASE r.rxAge # Unset
    <3>1. r.rxAge \in 0 .. RxActiveTimeout + 1
      BY <1>0, <2>2, TimeoutAssumption DEF Unset
    <3>2. Aged(r.rxAge, RxActiveTimeout, n) \in 0 .. RxActiveTimeout + 1
      BY <3>1, AgedType, TimeoutAssumption
    <3> QED
      BY <2>2, <3>2, TimeoutAssumption
  <2> QED
    BY <2>1, <2>2
<1>2. tx \in 0 .. TxActiveTimeout + 1
  <2>1. Aged(r.txAge, TxActiveTimeout, n) \in 0 .. TxActiveTimeout + 1
    BY <1>0, AgedType, TimeoutAssumption
  <2> QED
    BY <2>1, TimeoutAssumption
<1>3. id \in 0 .. RxActiveTimeout + 1
  <2>1. Aged(r.idleAge, RxActiveTimeout, n) \in 0 .. RxActiveTimeout + 1
    BY <1>0, AgedType, TimeoutAssumption
  <2> QED
    BY <2>1, TimeoutAssumption
<1>4. su \in 0 .. RxDeadTime + 1
  BY <1>0, AgedType, TimeoutAssumption
<1>5. ts \in Nat /\ pt \in Nat
  BY <1>0 DEF Left
<1>6. Elapse(r, n) = [r EXCEPT !.txAge = tx, !.rxAge = rx, !.idleAge = id,
                               !.successAge = su, !.txScheduledTime = ts,
                               !.pendingTxTime = pt]
  BY DEF Elapse, Radios
<1> HIDE DEF rx, tx, id, su, ts, pt
<1>7. Elapse(r, n) \in Radios
  BY <1>1, <1>2, <1>3, <1>4, <1>5, <1>6 DEF Radios
<1> QED
  BY <1>6, <1>7 DEF Radios

LEMMA StartIdleLemma ==
    ASSUME NEW r \in Radios
    PROVE  LET s == StartIdle(r)
           IN  /\ s \in Radios
               /\ s.state = "Idle" /\ s.chip.mode = "Stdby"
               /\ s.sxTx = r.sxTx /\ s.txBuffer = r.txBuffer
               /\ s.released = r.released
               /\ s.rxStartedFlag = r.rxStartedFlag
               /\ s.leaveRxFlag = r.leaveRxFlag
               /\ s.flags = r.flags
               /\ s.txScheduledTime = r.txScheduledTime
               /\ s.chip.txMem = r.chip.txMem
               /\ s.successAge = r.successAge
<1>1. /\ SetStandby(r.chip) \in Chips
      /\ SetStandby(r.chip).mode = "Stdby"
      /\ SetStandby(r.chip).txMem = r.chip.txMem
  BY ChipTypes DEF Radios
<1> QED
  BY <1>1 DEF StartIdle, Radios

LEMMA UpdateModParamsLemma ==
    ASSUME NEW r \in Radios
    PROVE  LET u == UpdateModParams(r)
           IN  /\ u \in Radios
               /\ u = r \/ u.state = "Idle"
               /\ u.sxTx = r.sxTx /\ u.txBuffer = r.txBuffer
               /\ u.released = r.released /\ u.flags = r.flags
               /\ u.txScheduledTime = r.txScheduledTime
               /\ u.chip.txMem = r.chip.txMem
<1> DEFINE s == StartIdle(r)
           c == SetRfFrequency(s.chip, r.channel)
<1>1. CASE ~r.paramsChanged
  BY <1>1 DEF UpdateModParams
<1>2. CASE r.paramsChanged
  <2>1. /\ s \in Radios /\ s.state = "Idle"
        /\ s.sxTx = r.sxTx /\ s.txBuffer = r.txBuffer
        /\ s.released = r.released /\ s.flags = r.flags
        /\ s.txScheduledTime = r.txScheduledTime
        /\ s.chip.txMem = r.chip.txMem
    BY StartIdleLemma
  <2>2. c \in Chips /\ c.txMem = s.chip.txMem
    BY <2>1, ChipTypes DEF Radios
  <2>3. UpdateModParams(r) = [s EXCEPT !.chip = c, !.paramsChanged = FALSE]
    BY <1>2, <2>1 DEF UpdateModParams, Radios
  <2> HIDE DEF s, c
  <2> QED
    BY <2>1, <2>2, <2>3 DEF Radios
<1> QED
  BY <1>1, <1>2 DEF Radios

LEMMA PrepareTxLemma ==
    ASSUME NEW r \in Radios, NEW f \in Frames, NEW t \in Nat
    PROVE  LET p == PrepareTx(r, f, t)
           IN  /\ p \in Radios
               /\ p.state = r.state /\ p.chip.mode = "Stdby"
               /\ p.sxTx = f /\ p.txBuffer = NoFrame
               /\ p.chip.txMem = f /\ p.successAge = r.successAge
               /\ p.released = r.released /\ p.flags = r.flags
               /\ p.rxStartedFlag = r.rxStartedFlag
               /\ p.leaveRxFlag = r.leaveRxFlag
<1>1. f \in Slots /\ NoFrame \in Slots
  BY DEF Slots
<1>2. /\ WriteSXBuffer(r.chip, f) \in Chips
      /\ WriteSXBuffer(r.chip, f).mode = "Stdby"
      /\ WriteSXBuffer(r.chip, f).txMem = f
  BY <1>1, ChipTypes DEF Radios
<1> QED
  BY <1>1, <1>2 DEF PrepareTx, Radios

LEMMA StartTxLemma ==
    ASSUME NEW r \in Radios
    PROVE  LET s == StartTx(r)
           IN  /\ s \in Radios
               /\ s.state = "Transmitting" /\ s.chip.mode = "Tx"
               /\ s.sxTx = r.sxTx /\ s.txBuffer = r.txBuffer
               /\ s.chip.txMem = r.chip.txMem
               /\ s.released = r.released
<1> DEFINE tuned == UpdateModParams(r)
           idle == IF tuned.state \in {"IdleReceive", "Receiving"}
                     THEN StartIdle(tuned) ELSE tuned
           waited == Elapse(idle, idle.txScheduledTime)
           chip == SetTx(waited.chip)
<1>1. /\ tuned \in Radios
      /\ tuned.sxTx = r.sxTx /\ tuned.txBuffer = r.txBuffer
      /\ tuned.chip.txMem = r.chip.txMem
      /\ tuned.released = r.released
  BY UpdateModParamsLemma
<1>2. /\ idle \in Radios
      /\ idle.sxTx = r.sxTx /\ idle.txBuffer = r.txBuffer
      /\ idle.chip.txMem = r.chip.txMem
      /\ idle.released = r.released
  <2> HIDE DEF tuned
  <2> QED
    BY <1>1, StartIdleLemma
<1>3. idle.txScheduledTime \in Nat
  <2> HIDE DEF idle
  <2> QED
    BY <1>2 DEF Radios
<1>4. /\ waited \in Radios
      /\ waited.sxTx = r.sxTx /\ waited.txBuffer = r.txBuffer
      /\ waited.chip.txMem = r.chip.txMem
      /\ waited.released = r.released
  <2> HIDE DEF idle
  <2> QED
    BY <1>2, <1>3, ElapseKeeps
<1>5. chip \in Chips /\ chip.mode = "Tx" /\ chip.txMem = waited.chip.txMem
  <2> HIDE DEF waited
  <2> QED
    BY <1>4, ChipTypes DEF Radios
<1>6. StartTx(r) = [waited EXCEPT !.chip = chip, !.state = "Transmitting",
                                  !.txAge = 0, !.txScheduledTime = 0]
  BY <1>4 DEF StartTx, Radios
<1>7. 0 \in 0 .. TxActiveTimeout + 1
  BY TimeoutAssumption
<1> HIDE DEF waited, chip
<1>8. StartTx(r) \in Radios
  <2> DEFINE now == 0
  <2>1. now \in 0 .. TxActiveTimeout + 1 /\ now \in Nat
    BY <1>7
  <2> HIDE DEF now
  <2>2. [waited EXCEPT !.chip = chip, !.state = "Transmitting",
                       !.txAge = now, !.txScheduledTime = now] \in Radios
    BY <1>4, <1>5, <2>1 DEF Radios
  <2> QED
    BY <1>6, <2>2 DEF now
<1> QED
  BY <1>4, <1>5, <1>6, <1>8 DEF Radios

LEMMA StartIdleRxLemma ==
    ASSUME NEW r \in Radios
    PROVE  LET s == StartIdleRx(r)
           IN  /\ s \in Radios
               /\ s.state = "IdleReceive" /\ s.chip.mode = "Rx"
               /\ ~s.rxStartedFlag /\ ~s.leaveRxFlag
               /\ s.sxTx = r.sxTx /\ s.txBuffer = r.txBuffer
               /\ s.chip.txMem = r.chip.txMem
               /\ s.released = r.released
<1>1. /\ SetRxContinuous(r.chip) \in Chips
      /\ SetRxContinuous(r.chip).mode = "Rx"
      /\ SetRxContinuous(r.chip).txMem = r.chip.txMem
  BY ChipTypes DEF Radios
<1>2. 0 \in 0 .. RxActiveTimeout + 1
  BY TimeoutAssumption
<1>3. StartIdleRx(r) \in Radios
  BY <1>1, <1>2 DEF StartIdleRx, Radios
<1> QED
  BY <1>1, <1>3 DEF StartIdleRx, Radios

LEMMA PrepareBufferedLemma ==
    ASSUME NEW r \in Radios
    PROVE  LET p == PrepareBuffered(r)
           IN  /\ p \in Radios
               /\ NothingWaits(p)
               /\ p.state = r.state
               /\ p.chip.mode \in {"Stdby", r.chip.mode}
               /\ p.released = r.released /\ p.flags = r.flags
               /\ p.rxStartedFlag = r.rxStartedFlag
               /\ p.leaveRxFlag = r.leaveRxFlag
               /\ r.sxTx # NoFrame => p.sxTx # NoFrame
               /\ p.successAge = r.successAge
<1>1. CASE r.txBuffer # NoFrame /\ r.sxTx = NoFrame
  <2>1. r.txBuffer \in Frames /\ r.pendingTxTime \in Nat
    BY <1>1 DEF Radios, Slots
  <2>2. PrepareBuffered(r) = PrepareTx(r, r.txBuffer, r.pendingTxTime)
    BY <1>1 DEF PrepareBuffered
  <2> QED
    BY <1>1, <2>1, <2>2, PrepareTxLemma DEF NothingWaits
<1>2. CASE ~(r.txBuffer # NoFrame /\ r.sxTx = NoFrame)
  BY <1>2 DEF PrepareBuffered, NothingWaits
<1> QED
  BY <1>1, <1>2

-----------------------------------------------------------------------------
(* Where a state function may leave the radio.  Each lemma asks only that  *)
(* the record it starts from is well typed: a handler that was called in   *)
(* between may have left it in any state.                                  *)

LEMMA StartTxSettles ==
    ASSUME NEW r \in Radios, r.sxTx # NoFrame
    PROVE  Settled(StartTx(r))
BY StartTxLemma DEF Settled, Sound, NothingWaits

LEMMA StartIdleRxSettles ==
    ASSUME NEW r \in Radios, NothingWaits(r)
    PROVE  Settled(StartIdleRx(r))
BY StartIdleRxLemma DEF Settled, Sound, NothingWaits

LEMMA StartIdleSettles ==
    ASSUME NEW r \in Radios, NothingWaits(r)
    PROVE  Settled(StartIdle(r))
BY StartIdleLemma DEF Settled, Sound, NothingWaits

LEMMA ListenSettles ==
    ASSUME NEW r \in Radios, NothingWaits(r)
    PROVE  Settled(StartIdleRx(UpdateModParams(r)))
<1>1. UpdateModParams(r) \in Radios /\ NothingWaits(UpdateModParams(r))
  BY UpdateModParamsLemma DEF NothingWaits
<1> QED
  BY <1>1, StartIdleRxSettles

LEMMA LeaveReceiveSettles ==
    ASSUME NEW r \in Radios
    PROVE  Settled(LeaveReceive(r))
<1> DEFINE ended == [r EXCEPT !.rxAge = Unset]
           idle == StartIdle(ended)
           quiet == ClearReceiveFlags(idle)
           next == PrepareBuffered(quiet)
<1>1. ended \in Radios
  <2>1. Unset \in -1 .. RxActiveTimeout + 1
    BY TimeoutAssumption DEF Unset
  <2> QED
    BY <2>1 DEF Radios
<1>2. idle \in Radios /\ idle.state = "Idle" /\ idle.chip.mode = "Stdby"
  <2> HIDE DEF ended
  <2> QED
    BY <1>1, StartIdleLemma
<1>3. quiet \in Radios /\ quiet.state = "Idle" /\ quiet.chip.mode = "Stdby"
  <2> HIDE DEF idle
  <2> QED
    BY <1>2 DEF ClearReceiveFlags, Radios
<1>4. /\ next \in Radios /\ NothingWaits(next)
      /\ next.state = "Idle" /\ next.chip.mode = "Stdby"
  <2> HIDE DEF quiet
  <2> QED
    BY <1>3, PrepareBufferedLemma
<1>5. LeaveReceive(r) = TxOrListen(next)
  BY DEF LeaveReceive
<1> HIDE DEF next
<1>6. CASE IsTxReady(next)
  BY <1>4, <1>5, <1>6, StartTxSettles DEF IsTxReady, TxOrListen
<1>7. CASE ~IsTxReady(next) /\ next.rxStartedFlag
  BY <1>4, <1>5, <1>7, ListenSettles DEF TxOrListen
<1>8. CASE ~IsTxReady(next) /\ ~next.rxStartedFlag
  BY <1>4, <1>5, <1>8 DEF TxOrListen, Settled, Sound, NothingWaits
<1> QED
  BY <1>6, <1>7, <1>8

LEMMA NoteLateEndKeeps ==
    ASSUME NEW r, Settled(r)
    PROVE  /\ Settled(NoteLateEnd(r))
           /\ NoteLateEnd(r).sxTx = r.sxTx
           /\ NoteLateEnd(r).txBuffer = r.txBuffer
           /\ NoteLateEnd(r).chip = r.chip
<1> DEFINE end == TxEnds \cap r.chip.irq # {}
           n == [r EXCEPT !.lateEnd = end]
<1>1. end \in BOOLEAN /\ NoteLateEnd(r) = n
  BY DEF NoteLateEnd
<1>2. r \in Radios
  BY DEF Settled, Sound
<1> HIDE DEF end
<1>3. /\ n \in Radios /\ n.state = r.state /\ n.chip = r.chip
      /\ n.sxTx = r.sxTx /\ n.txBuffer = r.txBuffer /\ n.flags = r.flags
      /\ n.released = r.released /\ n.rxStartedFlag = r.rxStartedFlag
      /\ n.leaveRxFlag = r.leaveRxFlag
  BY <1>1, <1>2 DEF Radios
<1> HIDE DEF n
<1>. QED  BY <1>1, <1>3 DEF Settled, Sound, NothingWaits

LEMMA LeaveTransmitSettles ==
    ASSUME NEW r \in Radios
    PROVE  Settled(LeaveTransmit(r))
<1> DEFINE over == [r EXCEPT !.sxTx = NoFrame,
                             !.flags = @ \ {"txDone", "timeout"}]
           next == PrepareBuffered(over)
<1>1. over \in Radios
  BY DEF Radios, Slots
<1>2. next \in Radios /\ NothingWaits(next)
  <2> HIDE DEF over
  <2> QED
    BY <1>1, PrepareBufferedLemma
<1> DEFINE left == IF IsTxReady(next) \/ next.rxStartedFlag
                     THEN TxOrListen(next) ELSE StartIdle(next)
<1>3. LeaveTransmit(r) = NoteLateEnd(left)
  BY DEF LeaveTransmit, TxEnds
<1>4. Settled(left)
  <2> HIDE DEF next
  <2>1. CASE IsTxReady(next)
    BY <1>2, <2>1, StartTxSettles DEF IsTxReady, TxOrListen
  <2>2. CASE ~IsTxReady(next) /\ next.rxStartedFlag
    BY <1>2, <2>2, ListenSettles DEF TxOrListen
  <2>3. CASE ~IsTxReady(next) /\ ~next.rxStartedFlag
    BY <1>2, <2>3, StartIdleSettles
  <2>. QED  BY <2>1, <2>2, <2>3
<1> HIDE DEF left
<1>. QED  BY <1>3, <1>4, NoteLateEndKeeps

-----------------------------------------------------------------------------
(* Client calls keep the type of any record and the soundness of a sound   *)
(* one.                                                                    *)

LEMMA TransmitDataframeKeeps ==
    ASSUME NEW r \in Radios, NEW f \in Frames, NEW d \in Delays
    PROVE  /\ TransmitDataframe(r, f, d) \in Radios
           /\ Sound(r) => Sound(TransmitDataframe(r, f, d))
<1> DEFINE t == TransmitDataframe(r, f, d)
<1> SUFFICES t \in Radios /\ (Sound(r) => Sound(t))
  OBVIOUS
<1>1. d \in Nat /\ f \in Slots
  BY DelaysAssumption DEF Slots
<1>2. CASE IsChannelBlocked(r) \/ f \in Oversized
  BY <1>2 DEF TransmitDataframe
<1>3. CASE /\ ~(IsChannelBlocked(r) \/ f \in Oversized)
           /\ r.sxTx = NoFrame /\ r.state \in {"Idle", "IdleReceive"}
  <2>1. t = PrepareTx(r, f, d)
    BY <1>3 DEF TransmitDataframe
  <2> HIDE DEF t
  <2> QED
    BY <1>1, <1>3, <2>1, PrepareTxLemma, NoFrameAssumption
       DEF Sound, NothingWaits
<1>4. CASE /\ ~(IsChannelBlocked(r) \/ f \in Oversized)
           /\ ~(r.sxTx = NoFrame /\ r.state \in {"Idle", "IdleReceive"})
  <2>1. t = [r EXCEPT !.txBuffer = f, !.pendingTxTime = d]
    BY <1>4 DEF TransmitDataframe
  <2>2. t \in Radios
    BY <1>1, <2>1 DEF Radios
  <2>3. /\ t.state = r.state /\ t.sxTx = r.sxTx /\ t.chip = r.chip
        /\ t.flags = r.flags /\ t.released = r.released
        /\ t.rxStartedFlag = r.rxStartedFlag /\ t.leaveRxFlag = r.leaveRxFlag
    BY <2>1 DEF Radios
  <2>4. r.state \in {"Sleep", "Idle", "IdleReceive", "Receiving",
                     "Transmitting"}
    BY DEF Radios
  <2> HIDE DEF t
  <2> QED
    BY <1>4, <2>2, <2>3, <2>4 DEF Sound, NothingWaits
<1> QED
  BY <1>2, <1>3, <1>4

LEMMA SetStartReceiveKeeps ==
    ASSUME NEW r \in Radios, NEW b \in BOOLEAN
    PROVE  /\ SetStartReceive(r, b) \in Radios
           /\ Sound(r) => Sound(SetStartReceive(r, b))
<1> DEFINE s == [r EXCEPT !.rxStartedFlag = b, !.leaveRxFlag = ~b]
           t == SetStartReceive(r, b)
<1> SUFFICES t \in Radios /\ (Sound(r) => Sound(t))
  OBVIOUS
<1>1. /\ s \in Radios
      /\ s.state = r.state /\ s.sxTx = r.sxTx /\ s.txBuffer = r.txBuffer
      /\ s.chip = r.chip /\ s.flags = r.flags /\ s.released = r.released
      /\ s.rxStartedFlag = b /\ s.leaveRxFlag = ~b
  BY DEF Radios
<1>2. CASE ~b /\ r.state = "IdleReceive"
  <2> DEFINE i == StartIdle(s)
  <2>1. t = [i EXCEPT !.leaveRxFlag = FALSE]
    BY <1>2 DEF SetStartReceive
  <2>2. /\ i \in Radios
        /\ i.state = "Idle" /\ i.chip.mode = "Stdby"
        /\ i.sxTx = s.sxTx /\ i.txBuffer = s.txBuffer
        /\ i.released = s.released
    <3> HIDE DEF s
    <3> QED
      BY <1>1, StartIdleLemma
  <2> HIDE DEF i, t
  <2>3. /\ t \in Radios
        /\ t.state = "Idle" /\ t.chip.mode = "Stdby"
        /\ t.sxTx = s.sxTx /\ t.txBuffer = s.txBuffer
        /\ t.released = s.released
    BY <2>1, <2>2 DEF Radios
  <2> HIDE DEF s
  <2> QED
    BY <1>1, <1>2, <2>3 DEF Sound, NothingWaits
<1>3. CASE /\ b
           /\ \/ r.state = "Idle"
              \/ r.state = "IdleReceive" /\ r.paramsChanged
  <2> DEFINE u == UpdateModParams(s)
  <2>1. t = StartIdleRx(u)
    BY <1>3 DEF SetStartReceive
  <2>2. /\ u \in Radios
        /\ u.sxTx = r.sxTx /\ u.txBuffer = r.txBuffer
        /\ u.released = r.released
    <3> HIDE DEF s
    <3> QED
      BY <1>1, UpdateModParamsLemma
  <2> HIDE DEF u, t
  <2>3. /\ t \in Radios
        /\ t.state = "IdleReceive" /\ t.chip.mode = "Rx"
        /\ ~t.rxStartedFlag /\ ~t.leaveRxFlag
        /\ t.sxTx = r.sxTx /\ t.txBuffer = r.txBuffer
        /\ t.released = r.released
    BY <2>1, <2>2, StartIdleRxLemma
  <2> QED
    BY <1>3, <2>3 DEF Sound, NothingWaits
<1>4. CASE b /\ r.state = "IdleReceive" /\ ~r.paramsChanged
  <2>1. t = [s EXCEPT !.rxStartedFlag = FALSE]
    BY <1>4 DEF SetStartReceive
  <2> HIDE DEF s, t
  <2>2. /\ t \in Radios
        /\ t.state = s.state /\ t.chip = s.chip
        /\ ~t.rxStartedFlag /\ t.leaveRxFlag = s.leaveRxFlag
        /\ t.sxTx = s.sxTx /\ t.txBuffer = s.txBuffer
        /\ t.released = s.released
    BY <1>1, <2>1 DEF Radios
  <2> QED
    BY <1>1, <1>4, <2>2 DEF Sound, NothingWaits
<1>5. CASE r.state # "IdleReceive" /\ ~(b /\ r.state = "Idle")
  <2>1. t = s
    BY <1>5 DEF SetStartReceive
  <2> HIDE DEF s, t
  <2> QED
    BY <1>1, <1>5, <2>1 DEF Sound, NothingWaits
<1> HIDE DEF s, t
<1> QED
  BY <1>2, <1>3, <1>4, <1>5

LEMMA SettersKeep ==
    ASSUME NEW r \in Radios
    PROVE  /\ \A b \in BOOLEAN : /\ SetEnableTxRx(r, b) \in Radios
                                 /\ Sound(r) => Sound(SetEnableTxRx(r, b))
           /\ \A c \in Channels : /\ SetChannel(r, c) \in Radios
                                  /\ Sound(r) => Sound(SetChannel(r, c))
           /\ SetModulation(r) \in Radios
           /\ Sound(r) => Sound(SetModulation(r))
<1>1. ASSUME NEW b \in BOOLEAN
      PROVE  /\ SetEnableTxRx(r, b) \in Radios
             /\ Sound(r) => Sound(SetEnableTxRx(r, b))
  <2>1. SetEnableTxRx(r, b) \in Radios
    BY DEF SetEnableTxRx, Radios
  <2> QED
    BY <2>1 DEF SetEnableTxRx, Sound, NothingWaits, Radios
<1>2. ASSUME NEW c \in Channels
      PROVE  /\ SetChannel(r, c) \in Radios
             /\ Sound(r) => Sound(SetChannel(r, c))
  <2>1. SetChannel(r, c) \in Radios
    BY DEF SetChannel, Radios
  <2> QED
    BY <2>1 DEF SetChannel, Sound, NothingWaits, Radios
<1>3. SetModulation(r) \in Radios /\ (Sound(r) => Sound(SetModulation(r)))
  <2>1. SetModulation(r) \in Radios
    BY DEF SetModulation, Radios
  <2> QED
    BY <2>1 DEF SetModulation, Sound, NothingWaits, Radios
<1> QED
  BY <1>1, <1>2, <1>3

LEMMA HandlerOutcomesType ==
    ASSUME NEW r \in Radios
    PROVE  HandlerOutcomes(r) \subseteq Radios
<1>1. Offered(r) \subseteq Frames /\ Switches \subseteq BOOLEAN
  BY DEF Offered, Switches
<1>2. \A f \in Offered(r), d \in Delays : TransmitDataframe(r, f, d) \in Radios
  BY <1>1, TransmitDataframeKeeps
<1>3. \A b \in Switches : SetStartReceive(r, b) \in Radios
  BY <1>1, SetStartReceiveKeeps
<1>4. /\ \A b \in Switches : SetEnableTxRx(r, b) \in Radios
      /\ \A c \in Channels : SetChannel(r, c) \in Radios
      /\ SetModulation(r) \in Radios
  BY <1>1, SettersKeep
<1> QED
  BY <1>2, <1>3, <1>4 DEF HandlerOutcomes

-----------------------------------------------------------------------------
(* The state functions of the task.                                        *)

LEMMA ReceiveOutcomesSettled ==
    ASSUME NEW r \in Radios,
           r.state = "Receiving", r.chip.mode # "Tx",
           "rxDone" \in r.flags \/ "preamble" \in r.flags
    PROVE  \A x \in UpdateReceiveState(r) : Settled(x)
<1>1. CASE "rxDone" \in r.flags
  <2>1. RetrieveRxData(r) \subseteq Radios
    <3> DEFINE q == [r EXCEPT !.successAge = 0, !.chip = ReadSXBuffer(@)]
    <3>1. 0 \in 0 .. RxDeadTime + 1
      BY TimeoutAssumption
    <3>2. ReadSXBuffer(r.chip) \in Chips
      BY ChipTypes DEF Radios
    <3>3. q \in Radios
      BY <3>1, <3>2 DEF Radios
    <3> HIDE DEF q
    <3>4. HandlerOutcomes(q) \subseteq Radios
      BY <3>3, HandlerOutcomesType
    <3> QED
      BY <3>4 DEF RetrieveRxData, q
  <2> QED
    BY <1>1, <2>1, LeaveReceiveSettles DEF UpdateReceiveState
<1>2. CASE "rxDone" \notin r.flags /\ ReceptionFailed(r)
  <2>1. [r EXCEPT !.rxStartedFlag = FALSE] \in Radios
    BY DEF Radios
  <2> QED
    BY <1>2, <2>1, LeaveReceiveSettles DEF UpdateReceiveState
<1>3. CASE "rxDone" \notin r.flags /\ ~ReceptionFailed(r)
  BY <1>3 DEF UpdateReceiveState, Settled, Sound
<1> QED
  BY <1>1, <1>2, <1>3

LEMMA TransmitOutcomesSettled ==
    ASSUME NEW r \in Radios, Sound(r), r.state = "Transmitting"
    PROVE  \A x \in UpdateTransmitState(r) : Settled(x)
<1>1. CASE TransmissionEnded(r)
  <2>1. EndTransmit(r) \in Radios
    <3>1. [r EXCEPT !.state = "Idle"] \in Radios
      BY DEF Radios
    <3> QED
      BY <3>1, StartIdleLemma DEF EndTransmit
  <2>2. HandlerOutcomes(EndTransmit(r)) \subseteq Radios
    BY <2>1, HandlerOutcomesType
  <2> QED
    BY <1>1, <2>2, LeaveTransmitSettles DEF UpdateTransmitState
<1>2. CASE ~TransmissionEnded(r)
  BY <1>2 DEF UpdateTransmitState, Settled, Sound, NothingWaits
<1> QED
  BY <1>1, <1>2

LEMMA RestartIdleRxSettles ==
    ASSUME NEW r \in Radios, NothingWaits(r)
    PROVE  Settled(RestartIdleRx(r))
<1> DEFINE quiet == ClearReceiveFlags(r)
           fresh == [quiet EXCEPT !.successAge = 0]
           again == FullReconfigure(fresh)
<1>1. quiet \in Radios /\ NothingWaits(quiet)
  BY DEF ClearReceiveFlags, Radios, NothingWaits
<1>2. fresh \in Radios /\ NothingWaits(fresh)
  <2>1. 0 \in 0 .. RxDeadTime + 1
    BY TimeoutAssumption
  <2> HIDE DEF quiet
  <2> QED
    BY <1>1, <2>1 DEF Radios, NothingWaits
<1>3. again \in Radios /\ NothingWaits(again)
  <2> DEFINE chip == SetupLoRa(ResetDevice(fresh.chip), fresh.channel)
  <2>1. chip \in Chips
    <3> HIDE DEF fresh
    <3>1. ResetDevice(fresh.chip) \in Chips /\ fresh.channel \in Channels
      BY <1>2, ChipTypes DEF Radios
    <3> QED
      BY <3>1, ChipTypes
  <2>2. again = [fresh EXCEPT !.chip = chip, !.paramsChanged = FALSE,
                              !.state = "Idle", !.flags = {}]
    BY DEF FullReconfigure
  <2> HIDE DEF fresh, chip, again
  <2> QED
    BY <1>2, <2>1, <2>2 DEF Radios, NothingWaits
<1>4. RestartIdleRx(r) = StartIdleRx(IF quiet.successAge > RxDeadTime
                                       THEN again ELSE quiet)
  BY DEF RestartIdleRx, ClearReceiveFlags, Radios
<1> HIDE DEF quiet, again
<1> QED
  BY <1>1, <1>3, <1>4, StartIdleRxSettles

LEMMA IdleRxOutcomesSettled ==
    ASSUME NEW r \in Radios, Sound(r), r.state = "IdleReceive"
    PROVE  \A x \in UpdateIdleRxState(r) : Settled(x)
<1> DEFINE p == PrepareBuffered(r)
<1>1. /\ p \in Radios /\ NothingWaits(p)
      /\ p.state = "IdleReceive"
      /\ p.chip.mode \in {"Stdby", r.chip.mode}
      /\ p.flags = r.flags
      /\ p.rxStartedFlag = r.rxStartedFlag /\ p.leaveRxFlag = r.leaveRxFlag
  BY PrepareBufferedLemma
<1>2. p.chip.mode # "Tx"
  <2> HIDE DEF p
  <2> QED
    BY <1>1 DEF Sound
<1>3. UpdateIdleRxState(r) =
        IF p.leaveRxFlag \/ ~p.txRxEnabled
          THEN {StartIdle([p EXCEPT !.leaveRxFlag = FALSE])}
        ELSE IF ReceiveFlagTrig(p) THEN UpdateReceiveState(StartActiveRx(p))
        ELSE IF p.rxStartedFlag THEN {StartIdleRx(UpdateModParams(p))}
        ELSE IF IsTxReady(p) THEN {StartTx(p)}
        ELSE IF p.idleAge > RxActiveTimeout THEN {RestartIdleRx(p)}
        ELSE {p}
  BY DEF UpdateIdleRxState
<1> HIDE DEF p
<1>4. Settled(StartIdle([p EXCEPT !.leaveRxFlag = FALSE]))
  <2>1. /\ [p EXCEPT !.leaveRxFlag = FALSE] \in Radios
        /\ NothingWaits([p EXCEPT !.leaveRxFlag = FALSE])
    BY <1>1 DEF Radios, NothingWaits
  <2> QED
    BY <2>1, StartIdleSettles
<1>5. ReceiveFlagTrig(p) => \A x \in UpdateReceiveState(StartActiveRx(p)) : Settled(x)
  <2>1. /\ StartActiveRx(p) \in Radios
        /\ StartActiveRx(p).state = "Receiving"
        /\ StartActiveRx(p).chip = p.chip
        /\ StartActiveRx(p).flags = p.flags
    <3> DEFINE age == IF p.rxAge = Unset THEN 0 ELSE p.rxAge
    <3>1. age \in -1 .. RxActiveTimeout + 1
      <4>1. p.rxAge \in -1 .. RxActiveTimeout + 1
        BY <1>1 DEF Radios
      <4> QED
        BY <4>1, TimeoutAssumption
    <3> DEFINE open == p.txRxEnabled
    <3>2. open \in BOOLEAN
      BY <1>1 DEF Radios
    <3>3. StartActiveRx(p) =
            [p EXCEPT !.rxAge = age, !.acceptThisPacket = open,
                      !.state = "Receiving"]
      BY <1>1 DEF StartActiveRx, Radios
    <3> HIDE DEF age, open
    <3>4. StartActiveRx(p) \in Radios
      BY <1>1, <3>1, <3>2, <3>3 DEF Radios
    <3> QED
      BY <1>1, <3>3, <3>4 DEF Radios
  <2>2. ReceiveFlagTrig(p) => "rxDone" \in p.flags \/ "preamble" \in p.flags
    BY DEF ReceiveFlagTrig
  <2> QED
    BY <1>2, <2>1, <2>2, ReceiveOutcomesSettled
<1>6. Settled(StartIdleRx(UpdateModParams(p)))
  BY <1>1, ListenSettles
<1>7. IsTxReady(p) => Settled(StartTx(p))
  BY <1>1, StartTxSettles DEF IsTxReady
<1>8. Settled(RestartIdleRx(p))
  BY <1>1, RestartIdleRxSettles
<1>9. Settled(p)
  BY <1>1, <1>2 DEF Sound, Settled
<1> QED
  BY <1>3, <1>4, <1>5, <1>6, <1>7, <1>8, <1>9

LEMMA IdleOutcomesSettled ==
    ASSUME NEW r \in Radios, Sound(r), r.state = "Idle"
    PROVE  \A x \in UpdateIdleState(r) : Settled(x)
<1> DEFINE p == PrepareBuffered(r)
<1>1. /\ p \in Radios /\ NothingWaits(p) /\ p.state = "Idle"
      /\ p.chip.mode \in {"Stdby", r.chip.mode}
  BY PrepareBufferedLemma
<1>2. UpdateIdleState(r) = {TxOrListen(p)}
  BY DEF UpdateIdleState
<1> HIDE DEF p
<1>3. p.chip.mode \notin {"Tx", "Rx"}
  BY <1>1 DEF Sound
<1>4. CASE IsTxReady(p)
  BY <1>1, <1>2, <1>4, StartTxSettles DEF IsTxReady, TxOrListen
<1>5. CASE ~IsTxReady(p) /\ p.rxStartedFlag
  BY <1>1, <1>2, <1>5, ListenSettles DEF TxOrListen
<1>6. CASE ~IsTxReady(p) /\ ~p.rxStartedFlag
  BY <1>1, <1>2, <1>3, <1>6 DEF TxOrListen, Settled, Sound
<1> QED
  BY <1>4, <1>5, <1>6

LEMMA TaskOutcomesSettled ==
    ASSUME NEW r \in Radios, Sound(r), r.state # "Sleep"
    PROVE  \A x \in TaskOutcomes(r) : Settled(x)
<1>1. r.state \in {"Idle", "IdleReceive", "Receiving", "Transmitting"}
  BY DEF Radios
<1>2. CASE r.state = "IdleReceive"
  BY <1>2, IdleRxOutcomesSettled DEF TaskOutcomes
<1>3. CASE r.state = "Receiving"
  BY <1>3, ReceiveOutcomesSettled DEF TaskOutcomes, Sound
<1>4. CASE r.state = "Transmitting"
  BY <1>4, TransmitOutcomesSettled DEF TaskOutcomes
<1>5. CASE r.state = "Idle"
  BY <1>5, IdleOutcomesSettled DEF TaskOutcomes
<1> QED
  BY <1>1, <1>2, <1>3, <1>4, <1>5

-----------------------------------------------------------------------------
(* The actions.                                                            *)

\* What a step may change without disturbing Sound.
LEMMA SoundCarriesOver ==
    ASSUME NEW r \in Radios, NEW s \in Radios, Sound(r),
           s.state = r.state, s.sxTx = r.sxTx, s.txBuffer = r.txBuffer,
           s.released = r.released,
           s.rxStartedFlag = r.rxStartedFlag, s.leaveRxFlag = r.leaveRxFlag,
           r.flags \subseteq s.flags,
           s.chip.mode \in {"Stdby", r.chip.mode}
    PROVE  Sound(s)
BY DEF Sound, NothingWaits

LEMMA ChipEventTypes ==
    ASSUME NEW c \in Chips
    PROVE  /\ PreambleHeard(c) \in Chips /\ PreambleHeard(c).mode = c.mode
           /\ PreambleHeard(c).txMem = c.txMem
           /\ HeaderHeard(c) \in Chips /\ HeaderHeard(c).mode = c.mode
           /\ HeaderHeard(c).txMem = c.txMem
           /\ HeaderBroken(c) \in Chips /\ HeaderBroken(c).mode = c.mode
           /\ HeaderBroken(c).txMem = c.txMem
           /\ PacketFaded(c) \in Chips /\ PacketFaded(c).mode = c.mode
           /\ PacketFaded(c).txMem = c.txMem
           /\ \A ok \in BOOLEAN : /\ PacketReceived(c, ok) \in Chips
                                  /\ PacketReceived(c, ok).mode = c.mode
                                  /\ PacketReceived(c, ok).txMem = c.txMem
           /\ \A i \in Irqs : /\ TransmissionOver(c, i) \in Chips
                              /\ TransmissionOver(c, i).mode = "Stdby"
                              /\ TransmissionOver(c, i).txMem = c.txMem
<1>1. ASSUME NEW bits \in SUBSET Irqs
      PROVE  /\ Raise(c, bits) \in Chips /\ Raise(c, bits).mode = c.mode
             /\ Raise(c, bits).txMem = c.txMem
  BY DEF Raise, Chips
<1>2. /\ PreambleHeard(c) \in Chips /\ PreambleHeard(c).mode = c.mode
      /\ HeaderHeard(c) \in Chips /\ HeaderHeard(c).mode = c.mode
      /\ HeaderBroken(c) \in Chips /\ HeaderBroken(c).mode = c.mode
      /\ PreambleHeard(c).txMem = c.txMem /\ HeaderHeard(c).txMem = c.txMem
      /\ HeaderBroken(c).txMem = c.txMem
  <2>1. /\ {"preamble"} \in SUBSET Irqs /\ {"headerValid"} \in SUBSET Irqs
        /\ {"headerError"} \in SUBSET Irqs
    BY DEF Irqs
  <2> QED
    BY <1>1, <2>1 DEF PreambleHeard, HeaderHeard, HeaderBroken, Chips
<1>3. /\ PacketFaded(c) \in Chips /\ PacketFaded(c).mode = c.mode
      /\ PacketFaded(c).txMem = c.txMem
  BY DEF PacketFaded, Chips
<1>4. ASSUME NEW ok \in BOOLEAN
      PROVE  /\ PacketReceived(c, ok) \in Chips
             /\ PacketReceived(c, ok).mode = c.mode
             /\ PacketReceived(c, ok).txMem = c.txMem
  <2> DEFINE raised == Raise(c, {"rxDone"} \cup (IF ok THEN {} ELSE {"crcError"}))
             packet == NewPacket(ok)
  <2>1. raised \in Chips /\ raised.mode = c.mode /\ raised.txMem = c.txMem
    BY <1>1 DEF Irqs
  <2>2. packet \in Packets
    BY DEF Packets, NewPacket
  <2>3. PacketReceived(c, ok) =
          [raised EXCEPT !.air = "quiet", !.rxMem = packet]
    BY DEF PacketReceived
  <2> HIDE DEF raised, packet
  <2> QED
    BY <2>1, <2>2, <2>3 DEF Chips
<1>5. ASSUME NEW i \in Irqs
      PROVE  /\ TransmissionOver(c, i) \in Chips
             /\ TransmissionOver(c, i).mode = "Stdby"
             /\ TransmissionOver(c, i).txMem = c.txMem
  <2>1. Raise(c, {i}) \in Chips /\ Raise(c, {i}).txMem = c.txMem
    BY <1>1
  <2> QED
    BY <2>1 DEF TransmissionOver, Chips
<1> QED
  BY <1>2, <1>3, <1>4, <1>5

LEMMA ChipStepKeeps ==
    ASSUME IInv, NEW c \in Chips, NEW dio1 \in BOOLEAN,
           c.mode \in {"Stdby", radio.chip.mode},
           ChipStep(c, dio1)
    PROVE  IInv'
<1>1. PICK edge \in BOOLEAN :
        radio' = [radio EXCEPT !.chip = c, !.irqTrig = @ \/ edge]
  BY DEF ChipStep
<1>2. radio \in Radios /\ Sound(radio) /\ phase' = phase
  BY DEF IInv, Sound, ChipStep
<1>3. radio' \in Radios
  BY <1>1, <1>2 DEF Radios
<1>4. Sound(radio')
  <2>1. /\ radio'.state = radio.state /\ radio'.sxTx = radio.sxTx
        /\ radio'.txBuffer = radio.txBuffer
        /\ radio'.released = radio.released
        /\ radio'.rxStartedFlag = radio.rxStartedFlag
        /\ radio'.leaveRxFlag = radio.leaveRxFlag
        /\ radio'.flags = radio.flags /\ radio'.chip = c
    BY <1>1, <1>2 DEF Radios
  <2> QED
    BY <1>2, <1>3, <2>1, SoundCarriesOver
<1> QED
  BY <1>1, <1>2, <1>4 DEF IInv, Radios

LEMMA TaskInitKeeps == IInv /\ TaskInit => IInv'
<1> SUFFICES ASSUME IInv, TaskInit PROVE IInv'
  OBVIOUS
<1> DEFINE chip == SetupLoRa(radio.chip, radio.channel)
           ready == [radio EXCEPT !.chip = chip, !.paramsChanged = FALSE,
                                  !.successAge = 0, !.released = TRUE]
<1>1. radio \in Radios
  BY DEF IInv, Sound
<1>2. chip \in Chips
  BY <1>1, ChipTypes DEF Radios
<1>3. radio' = StartIdle(ready) /\ phase' = "wait"
  BY DEF TaskInit
<1> HIDE DEF chip
<1>4. ready \in Radios /\ ready.released
  <2>1. 0 \in 0 .. RxDeadTime + 1
    BY TimeoutAssumption
  <2> QED
    BY <1>1, <1>2, <2>1 DEF Radios
<1> HIDE DEF ready
<1> QED
  BY <1>3, <1>4, StartIdleLemma DEF IInv, Sound

LEMMA TaskFetchKeeps == IInv /\ TaskFetch => IInv'
<1> SUFFICES ASSUME IInv, TaskFetch PROVE IInv'
  OBVIOUS
<1> DEFINE irq == radio.chip.irq
           age == IF "preamble" \in irq THEN 0 ELSE radio.rxAge
           chip == FetchIrqStatus(radio.chip)
<1>1. radio \in Radios /\ Sound(radio) /\ radio.state # "Sleep"
  BY DEF IInv, Sound, TaskFetch
<1>2. irq \in SUBSET Irqs
  BY <1>1 DEF Radios, Chips
<1>3. chip \in Chips /\ chip.mode = radio.chip.mode
  BY <1>1, ChipTypes DEF Radios
<1>4. age \in -1 .. RxActiveTimeout + 1
  <2>1. radio.rxAge \in -1 .. RxActiveTimeout + 1
    BY <1>1 DEF Radios
  <2> QED
    BY <2>1, TimeoutAssumption
<1>5. radio' = [radio EXCEPT !.flags = @ \cup irq, !.rxAge = age,
                             !.irqTrig = FALSE, !.chip = chip]
  BY <1>1 DEF TaskFetch, FetchIrqFlags, Radios
<1> HIDE DEF irq, age, chip
<1>6. radio' \in Radios
  BY <1>1, <1>2, <1>3, <1>4, <1>5 DEF Radios
<1>7. /\ radio'.state = radio.state /\ radio'.sxTx = radio.sxTx
      /\ radio'.txBuffer = radio.txBuffer /\ radio'.released = radio.released
      /\ radio'.rxStartedFlag = radio.rxStartedFlag
      /\ radio'.leaveRxFlag = radio.leaveRxFlag
      /\ radio.flags \subseteq radio'.flags /\ radio'.chip = chip
  BY <1>1, <1>5 DEF Radios
<1>8. Sound(radio')
  BY <1>1, <1>3, <1>6, <1>7, SoundCarriesOver
<1> QED
  BY <1>1, <1>7, <1>8 DEF IInv, TaskFetch

LEMMA TaskUpdateKeeps == IInv /\ TaskUpdate => IInv'
<1> SUFFICES ASSUME IInv, TaskUpdate PROVE IInv'
  OBVIOUS
<1>1. radio \in Radios /\ Sound(radio) /\ radio.state # "Sleep"
  BY DEF IInv, Sound, TaskUpdate
<1>2. PICK r \in TaskOutcomes(radio) :
        radio' = [r EXCEPT !.irqTrig = FALSE, !.released = FALSE]
  BY DEF TaskUpdate
<1>3. Settled(r) /\ r \in Radios
  BY <1>1, TaskOutcomesSettled DEF Settled, Sound
<1>4. radio' \in Radios
  BY <1>2, <1>3 DEF Radios
<1>5. /\ radio'.state = r.state /\ radio'.sxTx = r.sxTx
      /\ radio'.txBuffer = r.txBuffer /\ radio'.chip = r.chip
      /\ radio'.flags = r.flags
      /\ radio'.rxStartedFlag = r.rxStartedFlag
      /\ radio'.leaveRxFlag = r.leaveRxFlag
  BY <1>2, <1>3 DEF Radios
<1>6. Sound(radio')
  BY <1>3, <1>4, <1>5 DEF Settled, Sound, NothingWaits
<1> QED
  BY <1>6 DEF IInv, TaskUpdate

LEMMA TickKeeps == IInv /\ Tick => IInv'
<1> SUFFICES ASSUME IInv, Tick PROVE IInv'
  OBVIOUS
<1>1. radio \in Radios /\ Sound(radio)
  BY DEF IInv, Sound
<1>2. radio' = Elapse(radio, 1) /\ phase' = phase
  BY DEF Tick
<1>3. /\ radio' \in Radios
      /\ radio'.state = radio.state /\ radio'.chip = radio.chip
      /\ radio'.sxTx = radio.sxTx /\ radio'.txBuffer = radio.txBuffer
      /\ radio'.flags = radio.flags /\ radio'.released = radio.released
      /\ radio'.rxStartedFlag = radio.rxStartedFlag
      /\ radio'.leaveRxFlag = radio.leaveRxFlag
  BY <1>1, <1>2, ElapseKeeps
<1>4. Sound(radio')
  BY <1>1, <1>3, SoundCarriesOver
<1> QED
  BY <1>2, <1>3, <1>4 DEF IInv

LEMMA ClientKeeps == IInv /\ Client => IInv'
<1> SUFFICES ASSUME IInv, Client PROVE Sound(radio') /\ phase' = "wait"
  BY DEF IInv
<1>1. radio \in Radios /\ Sound(radio)
  BY DEF IInv, Sound
<1>2. CASE ClientTransmit
  BY <1>1, <1>2, TransmitDataframeKeeps DEF ClientTransmit, Offered
<1>3. CASE ClientStartReceive
  BY <1>1, <1>3, SetStartReceiveKeeps DEF ClientStartReceive, Switches
<1>4. CASE ClientEnableTxRx
  BY <1>1, <1>4, SettersKeep DEF ClientEnableTxRx, Switches
<1>5. CASE ClientSetChannel
  BY <1>1, <1>5, SettersKeep DEF ClientSetChannel
<1>6. CASE ClientSetModulation
  BY <1>1, <1>6, SettersKeep DEF ClientSetModulation
<1> QED
  BY <1>2, <1>3, <1>4, <1>5, <1>6 DEF Client

LEMMA ChipKeeps == IInv /\ Chip => IInv'
<1> SUFFICES ASSUME IInv, Chip PROVE IInv'
  OBVIOUS
<1>1. radio.chip \in Chips
  BY DEF IInv, Sound, Radios
<1>2. CASE ChipPreamble
  BY <1>1, <1>2, ChipStepKeeps, ChipEventTypes DEF ChipPreamble
<1>3. CASE ChipHeader
  BY <1>1, <1>3, ChipStepKeeps, ChipEventTypes DEF ChipHeader
<1>4. CASE ChipFade
  BY <1>1, <1>4, ChipStepKeeps, ChipEventTypes DEF ChipFade
<1>5. CASE ChipRxDone
  BY <1>1, <1>5, ChipStepKeeps, ChipEventTypes DEF ChipRxDone
<1>6. CASE ChipTxOver
  BY <1>1, <1>6, ChipStepKeeps, ChipEventTypes DEF ChipTxOver, Irqs
<1>7. CASE ChipHangs
  BY <1>1, <1>7, ChipStepKeeps, ChipTypes DEF ChipHangs, BusyReset
<1> QED
  BY <1>2, <1>3, <1>4, <1>5, <1>6, <1>7 DEF Chip

LEMMA InitSound == Init => IInv
<1> SUFFICES ASSUME Init PROVE IInv
  OBVIOUS
<1>1. PICK c \in Channels :
         radio = [state |-> "Sleep", txRxEnabled |-> ~Toggles,
                  rxStartedFlag |-> FALSE, leaveRxFlag |-> FALSE,
                  acceptThisPacket |-> FALSE, flags |-> {},
                  irqTrig |-> FALSE, released |-> FALSE,
                  txBuffer |-> NoFrame, pendingTxTime |-> 0,
                  sxTx |-> NoFrame, txScheduledTime |-> 0,
                  txAge |-> 0, rxAge |-> Unset, idleAge |-> 0,
                  successAge |-> 0, channel |-> c, paramsChanged |-> TRUE,
                  lateEnd |-> FALSE,
                  chip |-> PoweredUp(c)]
  BY DEF Init
<1>2. PoweredUp(c) \in Chips /\ PoweredUp(c).mode = "Stdby"
  BY DEF PoweredUp, Chips, Slots, Packets, NoPacket, NewPacket
<1>3. /\ 0 \in 0 .. TxActiveTimeout + 1 /\ 0 \in 0 .. RxActiveTimeout + 1
      /\ 0 \in 0 .. RxDeadTime + 1
      /\ Unset \in -1 .. RxActiveTimeout + 1
      /\ (~Toggles) \in BOOLEAN /\ NoFrame \in Slots
  BY TimeoutAssumption, EnvironmentAssumption DEF Unset, Slots
<1>4. radio \in Radios
  BY <1>1, <1>2, <1>3 DEF Radios
<1> QED
  BY <1>1, <1>2, <1>4 DEF IInv, Sound, NothingWaits, Init

LEMMA InvariantStep ==
    ASSUME IInv, [Next]_vars
    PROVE  IInv'
<1>1. CASE TaskInit
  BY <1>1, TaskInitKeeps
<1>2. CASE TaskFetch
  BY <1>2, TaskFetchKeeps
<1>3. CASE TaskUpdate
  BY <1>3, TaskUpdateKeeps
<1>4. CASE Client
  BY <1>4, ClientKeeps
<1>5. CASE Chip
  BY <1>5, ChipKeeps
<1>6. CASE Tick
  BY <1>6, TickKeeps
<1>7. CASE UNCHANGED vars
  BY <1>7 DEF vars, IInv
<1> QED
  BY <1>1, <1>2, <1>3, <1>4, <1>5, <1>6, <1>7 DEF Next, Task

LEMMA InvariantHolds == Spec => []IInv
BY InvariantStep, InitSound, PTL DEF Spec

-----------------------------------------------------------------------------
(* The theorems.                                                           *)

\* The members of the datalink and the chip record keep their types: the
\* saturating ages stay in range whatever the timeouts are.
THEOREM TypeCorrect == Spec => []TypeOK
<1>1. IInv => TypeOK
  BY DEF IInv, Sound, TypeOK
<1> QED
  BY <1>1, InvariantHolds, PTL

\* The chip is in TX only while the state machine is in Transmitting, in RX
\* only while it is in IdleReceive or Receiving (startTx, startIdleRx and
\* startIdle keep the two together through every handler callback).
THEOREM ChipFollows == Spec => []ChipFollowsState
<1>1. IInv => ChipFollowsState
  BY DEF IInv, Sound, ChipFollowsState
<1> QED
  BY <1>1, InvariantHolds, PTL

\* No request to enter or leave RX is pending in IdleReceive (startIdleRx,
\* setStartReceive): the "re-entering RX" branch is dead.
THEOREM RequestsAreSettled == Spec => []RequestsSettled
<1>1. IInv => RequestsSettled
  BY DEF IInv, Sound, RequestsSettled
<1> QED
  BY <1>1, InvariantHolds, PTL

\* The preamble flag is set throughout Receiving, so that taskCheck keeps
\* running the task and updateReceiveState sees its timeout pass.
THEOREM ReceivingPolled == Spec => []ReceivingIsPolled
<1>1. IInv => ReceivingIsPolled
  BY DEF IInv, Sound, ReceivingIsPolled
<1> QED
  BY <1>1, InvariantHolds, PTL

\* An accepted frame in txBuffer is never left with nothing ahead of it that
\* makes the task come back: transmitDataframe, updateTransmitState and the
\* ends of a reception all move it up when the chip's buffer is free.
THEOREM NoFrameIsStranded == Spec => []NoFrameStranded
<1>1. IInv => NoFrameStranded
  BY DEF IInv, Sound, NoFrameStranded, NothingWaits
<1> QED
  BY <1>1, InvariantHolds, PTL

-----------------------------------------------------------------------------
(* The queue in the two slots.                                             *)

\* The chip holds the prepared frame, or none.
Holds(r) == r.sxTx # NoFrame => r.chip.txMem \in {r.sxTx, NoFrame}

\* From a to b, the prepared frame and the chip's buffer stay as they are, or
\* a frame is written to both.
Fits(a, b) ==
    \/ b.sxTx = a.sxTx /\ b.chip.txMem = a.chip.txMem
    \/ a.sxTx = NoFrame /\ ~Lost(b)

\* From a to b, the queue stays as it is.
Keeps(a, b) == Outstanding(b) = Outstanding(a) /\ Fits(a, b)

\* From a to b, nothing leaves the slots and at most one frame is accepted.
Takes(a, b) ==
    /\ Fits(a, b)
    /\ \/ Outstanding(b) = Outstanding(a)
       \/ /\ Len(Outstanding(a)) < 2
          /\ \E f \in Frames : Outstanding(b) = Append(Outstanding(a), f)

\* From a to b, the chip is reset.
Loses(a, b) ==
    /\ Deaf(a)
    /\ Outstanding(b) = Outstanding(a)
    /\ b.state = "IdleReceive" /\ b.chip.txMem = NoFrame

\* From a to b, the prepared frame leaves, and at most one is accepted.
Gives(a, b) ==
    /\ ~Lost(b)
    /\ \/ Outstanding(b) = Tail(Outstanding(a))
       \/ /\ Len(Outstanding(a)) < 2
          /\ \E f \in Frames : Outstanding(b) = Append(Tail(Outstanding(a)), f)

LEMMA Tuples ==
    ASSUME NEW a \in Frames, NEW b \in Frames
    PROVE  /\ <<a>> \o <<b>> = <<a, b>> /\ Append(<<a>>, b) = <<a, b>>
           /\ Append(<<>>, a) = <<a>>
           /\ Head(<<a>>) = a /\ Head(<<a, b>>) = a
           /\ Tail(<<a>>) = <<>> /\ Tail(<<a, b>>) = <<b>>
           /\ Len(<<>>) = 0 /\ Len(<<a>>) = 1 /\ Len(<<a, b>>) = 2
           /\ <<a>> # <<>> /\ <<a, b>> # <<>>
           /\ <<>> \o <<a>> = <<a>> /\ <<a>> \o <<>> = <<a>>
<1>1. <<a>> \in Seq(Frames) /\ <<b>> \in Seq(Frames) /\ <<a, b>> \in Seq(Frames)
  OBVIOUS
<1>2. /\ Len(<<>>) = 0 /\ Len(<<a>>) = 1 /\ Len(<<a, b>>) = 2
      /\ <<a, b>>[1] = a /\ <<a, b>>[2] = b
  OBVIOUS
<1>3. Head(<<a>>) = a /\ Head(<<a, b>>) = a
  BY <1>1, <1>2
<1>4. ASSUME NEW s \in Seq(Frames), Len(s) = 2, s[1] = a, s[2] = b
      PROVE  s = <<a, b>>
  <2>1. \A i \in 1 .. Len(s) : s[i] = <<a, b>>[i]
    BY <1>2, <1>4
  <2>. QED  BY <1>1, <1>2, <1>4, <2>1, SeqEqual
<1>5. <<a>> \o <<b>> = <<a, b>>
  <2>1. /\ <<a>> \o <<b>> \in Seq(Frames) /\ Len(<<a>> \o <<b>>) = 2
        /\ (<<a>> \o <<b>>)[1] = a /\ (<<a>> \o <<b>>)[2] = b
    BY <1>1, <1>2
  <2>. QED  BY <1>4, <2>1
<1>6. Append(<<a>>, b) = <<a, b>>
  <2>1. /\ Append(<<a>>, b) \in Seq(Frames) /\ Len(Append(<<a>>, b)) = 2
        /\ Append(<<a>>, b)[1] = a /\ Append(<<a>>, b)[2] = b
    BY <1>1, <1>2
  <2>. QED  BY <1>4, <2>1
<1>7. Tail(<<a, b>>) = <<b>>
  <2>1. /\ Tail(<<a, b>>) \in Seq(Frames) /\ Len(Tail(<<a, b>>)) = 1
        /\ Tail(<<a, b>>)[1] = b
    BY <1>1, <1>2
  <2>. QED  BY <1>1, <1>2, <2>1, SeqEqual
<1>8. Tail(<<a>>) = <<>> /\ Append(<<>>, a) = <<a>>
  BY <1>1, <1>2
<1>9. <<>> \o <<a>> = <<a>> /\ <<a>> \o <<>> = <<a>>
  BY <1>1, ConcatEmptySeq
<1>10. <<a>> # <<>> /\ <<a, b>> # <<>>
  BY <1>2
<1>. QED  BY <1>2, <1>3, <1>5, <1>6, <1>7, <1>8, <1>9, <1>10

LEMMA QueueOf ==
    ASSUME NEW r \in Radios
    PROVE  /\ r.sxTx \in Slots /\ r.txBuffer \in Slots
           /\ r.sxTx = NoFrame => Outstanding(r) = InSlot(r.txBuffer)
           /\ r.txBuffer = NoFrame => Outstanding(r) = InSlot(r.sxTx)
           /\ r.sxTx # NoFrame /\ r.txBuffer # NoFrame
                => Outstanding(r) = <<r.sxTx, r.txBuffer>>
<1>1. r.sxTx \in Slots /\ r.txBuffer \in Slots
  BY DEF Radios
<1>2. \A f \in Slots : f # NoFrame => f \in Frames /\ InSlot(f) = <<f>>
  BY DEF InSlot, Slots
<1>3. <<>> \o <<>> = <<>>
  OBVIOUS
<1>4. InSlot(NoFrame) = <<>>
  BY DEF InSlot
<1>5. \A f \in Slots : /\ <<>> \o InSlot(f) = InSlot(f)
                       /\ InSlot(f) \o <<>> = InSlot(f)
  BY <1>2, <1>3, <1>4, Tuples
<1>6. r.sxTx # NoFrame /\ r.txBuffer # NoFrame
        => Outstanding(r) = <<r.sxTx, r.txBuffer>>
  BY <1>1, Tuples DEF Outstanding, InSlot, Slots
<1>. QED  BY <1>1, <1>4, <1>5, <1>6 DEF Outstanding

LEMMA SameQueue ==
    ASSUME NEW a \in Radios, NEW b \in Radios,
           b.sxTx = a.sxTx, b.txBuffer = a.txBuffer
    PROVE  /\ Outstanding(b) = Outstanding(a)
           /\ b.chip.txMem = a.chip.txMem => Keeps(a, b)
BY DEF Outstanding, Keeps, Fits

LEMMA KeepsOn ==
    ASSUME NEW a \in Radios, NEW b \in Radios, NEW c \in Radios
    PROVE  /\ Keeps(a, a)
           /\ Keeps(a, b) => Takes(a, b)
           /\ Keeps(a, b) /\ Keeps(b, c) => Keeps(a, c)
           /\ Keeps(a, b) /\ Takes(b, c) => Takes(a, c)
           /\ Takes(a, b) /\ Keeps(b, c) => Takes(a, c)
BY DEF Keeps, Takes, Fits, Lost

\* A frame that moves up from txBuffer keeps its place.
LEMMA PrepareBufferedSameQueue ==
    ASSUME NEW r \in Radios
    PROVE  Keeps(r, PrepareBuffered(r))
<1> DEFINE p == PrepareBuffered(r)
<1>1. CASE r.txBuffer # NoFrame /\ r.sxTx = NoFrame
  <2>1. r.txBuffer \in Frames /\ r.pendingTxTime \in Nat
    BY <1>1 DEF Radios, Slots
  <2>2. /\ p \in Radios /\ p.sxTx = r.txBuffer /\ p.txBuffer = NoFrame
        /\ p.chip.txMem = p.sxTx
    BY <1>1, <2>1, PrepareTxLemma DEF PrepareBuffered
  <2> HIDE DEF p
  <2>3. Outstanding(p) = InSlot(r.txBuffer)
    BY <2>2, QueueOf
  <2>4. Outstanding(p) = Outstanding(r)
    BY <1>1, <2>3, QueueOf
  <2>. QED  BY <1>1, <2>2, <2>4 DEF p, Keeps, Fits, Lost
<1>2. CASE ~(r.txBuffer # NoFrame /\ r.sxTx = NoFrame)
  BY <1>2, KeepsOn DEF PrepareBuffered
<1>. QED  BY <1>1, <1>2

-----------------------------------------------------------------------------
(* Client calls.                                                           *)

LEMMA TransmitDataframeTakes ==
    ASSUME NEW r \in Radios, NEW f \in Frames, NEW d \in Delays
    PROVE  LET t == TransmitDataframe(r, f, d)
           IN  /\ Takes(r, t)
               /\ r.sxTx # NoFrame => t.sxTx = r.sxTx
               /\ r.state = "Transmitting" => t.state = "Transmitting"
<1> DEFINE t == TransmitDataframe(r, f, d)
<1>1. d \in Nat /\ f \in Slots /\ f # NoFrame
  BY DelaysAssumption, NoFrameAssumption DEF Slots
<1>2. CASE IsChannelBlocked(r) \/ f \in Oversized
  BY <1>2, KeepsOn DEF TransmitDataframe
<1>3. CASE /\ ~(IsChannelBlocked(r) \/ f \in Oversized)
           /\ r.sxTx = NoFrame /\ r.state \in {"Idle", "IdleReceive"}
  <2>1. /\ t \in Radios /\ t.sxTx = f /\ t.txBuffer = NoFrame
        /\ t.state = r.state /\ t.chip.txMem = f
    BY <1>1, <1>3, PrepareTxLemma DEF TransmitDataframe
  <2>2. Outstanding(t) = <<f>>
    BY <1>1, <2>1, QueueOf DEF InSlot
  <2>3. Outstanding(r) = <<>>
    BY <1>3, QueueOf DEF InSlot, IsChannelBlocked
  <2>4. Fits(r, t)
    BY <1>3, <2>1 DEF Fits, Lost
  <2> HIDE DEF t
  <2>. QED  BY <1>3, <2>1, <2>2, <2>3, <2>4, Tuples DEF Takes, t
<1>4. CASE /\ ~(IsChannelBlocked(r) \/ f \in Oversized)
           /\ ~(r.sxTx = NoFrame /\ r.state \in {"Idle", "IdleReceive"})
  <2>1. t = [r EXCEPT !.txBuffer = f, !.pendingTxTime = d]
    BY <1>4 DEF TransmitDataframe
  <2>2. /\ t \in Radios /\ t.sxTx = r.sxTx /\ t.txBuffer = f
        /\ t.state = r.state /\ t.chip = r.chip
    BY <1>1, <2>1 DEF Radios
  <2>7. Fits(r, t)
    BY <2>2 DEF Fits
  <2> HIDE DEF t
  <2>3. r.txBuffer = NoFrame
    BY <1>4 DEF IsChannelBlocked
  <2>4. Outstanding(r) = InSlot(r.sxTx)
    BY <2>3, QueueOf
  <2>5. CASE r.sxTx = NoFrame
    <3>1. Outstanding(r) = <<>> /\ Outstanding(t) = <<f>>
      BY <1>1, <2>2, <2>4, <2>5, QueueOf DEF InSlot
    <3>. QED  BY <1>1, <2>2, <2>5, <2>7, <3>1, Tuples DEF Takes, t
  <2>6. CASE r.sxTx # NoFrame
    <3>1. Outstanding(r) = <<r.sxTx>> /\ Outstanding(t) = <<r.sxTx, f>>
      BY <1>1, <2>2, <2>4, <2>6, QueueOf DEF InSlot
    <3>2. r.sxTx \in Frames
      BY <2>6 DEF Radios, Slots
    <3>. QED  BY <1>1, <2>2, <2>6, <2>7, <3>1, <3>2, Tuples DEF Takes, t
  <2>. QED  BY <2>5, <2>6
<1>. QED  BY <1>2, <1>3, <1>4

LEMMA SetStartReceiveSameSlots ==
    ASSUME NEW r \in Radios, NEW b \in BOOLEAN
    PROVE  LET t == SetStartReceive(r, b)
           IN  /\ t.sxTx = r.sxTx /\ t.txBuffer = r.txBuffer
               /\ t.chip.txMem = r.chip.txMem
               /\ r.state = "Transmitting" => t.state = "Transmitting"
<1> DEFINE s == [r EXCEPT !.rxStartedFlag = b, !.leaveRxFlag = ~b]
           t == SetStartReceive(r, b)
<1>1. /\ s \in Radios
      /\ s.state = r.state /\ s.sxTx = r.sxTx /\ s.txBuffer = r.txBuffer
      /\ s.chip.txMem = r.chip.txMem
  BY DEF Radios
<1>2. CASE ~b /\ r.state = "IdleReceive"
  <2>1. t = [StartIdle(s) EXCEPT !.leaveRxFlag = FALSE]
    BY <1>2 DEF SetStartReceive
  <2> HIDE DEF s, t
  <2>2. /\ StartIdle(s) \in Radios
        /\ StartIdle(s).sxTx = s.sxTx /\ StartIdle(s).txBuffer = s.txBuffer
        /\ StartIdle(s).chip.txMem = s.chip.txMem
    BY <1>1, StartIdleLemma
  <2>. QED  BY <1>1, <1>2, <2>1, <2>2 DEF Radios, t
<1>3. CASE /\ b
           /\ \/ r.state = "Idle"
              \/ r.state = "IdleReceive" /\ r.paramsChanged
  <2>1. t = StartIdleRx(UpdateModParams(s))
    BY <1>3 DEF SetStartReceive
  <2> HIDE DEF s, t
  <2>2. /\ UpdateModParams(s) \in Radios
        /\ UpdateModParams(s).sxTx = s.sxTx
        /\ UpdateModParams(s).txBuffer = s.txBuffer
        /\ UpdateModParams(s).chip.txMem = s.chip.txMem
    BY <1>1, UpdateModParamsLemma
  <2>3. /\ t.sxTx = s.sxTx /\ t.txBuffer = s.txBuffer
        /\ t.chip.txMem = s.chip.txMem
    BY <2>1, <2>2, StartIdleRxLemma
  <2>. QED  BY <1>1, <1>3, <2>3 DEF t
<1>4. CASE b /\ r.state = "IdleReceive" /\ ~r.paramsChanged
  <2>1. t = [s EXCEPT !.rxStartedFlag = FALSE]
    BY <1>4 DEF SetStartReceive
  <2> HIDE DEF s, t
  <2>. QED  BY <1>1, <1>4, <2>1 DEF Radios, t
<1>5. CASE r.state # "IdleReceive" /\ ~(b /\ r.state = "Idle")
  <2>1. t = s
    BY <1>5 DEF SetStartReceive
  <2> HIDE DEF s, t
  <2>. QED  BY <1>1, <2>1 DEF t
<1> HIDE DEF s
<1>. QED  BY <1>2, <1>3, <1>4, <1>5

LEMMA HandlerOutcomesTake ==
    ASSUME NEW r \in Radios
    PROVE  \A x \in HandlerOutcomes(r) :
             /\ x \in Radios /\ Takes(r, x)
             /\ r.sxTx # NoFrame => x.sxTx = r.sxTx
             /\ r.state = "Transmitting" => x.state = "Transmitting"
<1> SUFFICES ASSUME NEW x \in HandlerOutcomes(r)
             PROVE  /\ x \in Radios /\ Takes(r, x)
                    /\ r.sxTx # NoFrame => x.sxTx = r.sxTx
                    /\ r.state = "Transmitting" => x.state = "Transmitting"
  OBVIOUS
<1>1. x \in Radios
  BY HandlerOutcomesType
<1>2. Offered(r) \subseteq Frames /\ Switches \subseteq BOOLEAN
  BY DEF Offered, Switches
<1>3. CASE x \in {TransmitDataframe(r, f, d) : f \in Offered(r), d \in Delays}
  BY <1>1, <1>2, <1>3, TransmitDataframeTakes
<1>4. CASE x \in {SetStartReceive(r, b) : b \in Switches}
  BY <1>1, <1>2, <1>4, SetStartReceiveSameSlots, SameQueue, KeepsOn
<1>5. CASE x = SetModulation(r) \/ x = r
            \/ x \in {SetEnableTxRx(r, b) : b \in Switches}
            \/ x \in {SetChannel(r, c) : c \in Channels}
  <2>1. /\ x.sxTx = r.sxTx /\ x.txBuffer = r.txBuffer
        /\ x.state = r.state /\ x.chip = r.chip
    BY <1>5 DEF SetModulation, SetEnableTxRx, SetChannel, Radios
  <2>. QED  BY <1>1, <2>1, SameQueue, KeepsOn
<1>. QED  BY <1>3, <1>4, <1>5 DEF HandlerOutcomes

-----------------------------------------------------------------------------
(* The state functions of the task.                                        *)

LEMMA StartTxSameQueue ==
    ASSUME NEW r \in Radios
    PROVE  StartTx(r) \in Radios /\ Keeps(r, StartTx(r))
BY StartTxLemma, SameQueue

LEMMA StartIdleSameQueue ==
    ASSUME NEW r \in Radios
    PROVE  StartIdle(r) \in Radios /\ Keeps(r, StartIdle(r))
BY StartIdleLemma, SameQueue

LEMMA ListenSameQueue ==
    ASSUME NEW r \in Radios
    PROVE  LET s == StartIdleRx(UpdateModParams(r))
           IN  s \in Radios /\ Keeps(r, s)
<1> DEFINE u == UpdateModParams(r)
<1>1. u \in Radios /\ Keeps(r, u)
  BY UpdateModParamsLemma, SameQueue
<1> HIDE DEF u
<1>2. StartIdleRx(u) \in Radios /\ Keeps(u, StartIdleRx(u))
  BY <1>1, StartIdleRxLemma, SameQueue
<1>. QED  BY <1>1, <1>2, KeepsOn DEF u

LEMMA TxOrListenSameQueue ==
    ASSUME NEW r \in Radios
    PROVE  TxOrListen(r) \in Radios /\ Keeps(r, TxOrListen(r))
BY StartTxSameQueue, ListenSameQueue, KeepsOn DEF TxOrListen

LEMMA LeaveReceiveSameQueue ==
    ASSUME NEW r \in Radios
    PROVE  LeaveReceive(r) \in Radios /\ Keeps(r, LeaveReceive(r))
<1> DEFINE ended == [r EXCEPT !.rxAge = Unset]
           idle == StartIdle(ended)
           quiet == ClearReceiveFlags(idle)
           next == PrepareBuffered(quiet)
<1>1. /\ ended \in Radios
      /\ ended.sxTx = r.sxTx /\ ended.txBuffer = r.txBuffer
      /\ ended.chip = r.chip
  <2>1. Unset \in -1 .. RxActiveTimeout + 1
    BY TimeoutAssumption DEF Unset
  <2>. QED  BY <2>1 DEF Radios
<1>2. /\ idle \in Radios
      /\ idle.sxTx = r.sxTx /\ idle.txBuffer = r.txBuffer
      /\ idle.chip.txMem = r.chip.txMem
  <2> HIDE DEF ended
  <2>. QED  BY <1>1, StartIdleLemma
<1>3. /\ quiet \in Radios
      /\ quiet.sxTx = r.sxTx /\ quiet.txBuffer = r.txBuffer
      /\ quiet.chip.txMem = r.chip.txMem
  <2> HIDE DEF idle
  <2>. QED  BY <1>2 DEF ClearReceiveFlags, Radios
<1>4. next \in Radios /\ Keeps(r, next)
  <2> HIDE DEF quiet
  <2>. QED  BY <1>3, PrepareBufferedLemma, PrepareBufferedSameQueue, SameQueue,
               KeepsOn
<1>5. LeaveReceive(r) = TxOrListen(next)
  BY DEF LeaveReceive
<1> HIDE DEF next
<1>. QED  BY <1>4, <1>5, TxOrListenSameQueue, KeepsOn

LEMMA ReceiveTakes ==
    ASSUME NEW r \in Radios
    PROVE  \A x \in UpdateReceiveState(r) : x \in Radios /\ Takes(r, x)
<1>1. CASE "rxDone" \in r.flags
  <2> DEFINE q == [r EXCEPT !.successAge = 0, !.chip = ReadSXBuffer(@)]
  <2>1. /\ q \in Radios /\ q.sxTx = r.sxTx /\ q.txBuffer = r.txBuffer
        /\ q.chip.txMem = r.chip.txMem
    <3>1. 0 \in 0 .. RxDeadTime + 1
      BY TimeoutAssumption
    <3>2. /\ ReadSXBuffer(r.chip) \in Chips
          /\ ReadSXBuffer(r.chip).txMem = r.chip.txMem
      BY ChipTypes DEF Radios
    <3>. QED  BY <3>1, <3>2 DEF Radios
  <2>2. RetrieveRxData(r) = HandlerOutcomes(q)
    BY DEF RetrieveRxData
  <2> HIDE DEF q
  <2>3. Keeps(r, q)
    BY <2>1, SameQueue
  <2>4. \A y \in HandlerOutcomes(q) : y \in Radios /\ Takes(r, y)
    BY <2>1, <2>3, HandlerOutcomesTake, KeepsOn
  <2>5. \A y \in {r} : y \in Radios /\ Takes(r, y)
    BY KeepsOn
  <2>6. ASSUME NEW x \in UpdateReceiveState(r)
        PROVE  \E y \in Radios : Takes(r, y) /\ x = LeaveReceive(y)
    BY <1>1, <2>2, <2>4, <2>5, <2>6 DEF UpdateReceiveState
  <2>. QED  BY <2>6, LeaveReceiveSameQueue, KeepsOn
<1>2. CASE "rxDone" \notin r.flags /\ ReceptionFailed(r)
  <2> DEFINE q == [r EXCEPT !.rxStartedFlag = FALSE]
  <2>1. /\ q \in Radios /\ q.sxTx = r.sxTx /\ q.txBuffer = r.txBuffer
        /\ q.chip = r.chip
    BY DEF Radios
  <2>2. UpdateReceiveState(r) = {LeaveReceive(q)}
    BY <1>2 DEF UpdateReceiveState
  <2> HIDE DEF q
  <2>. QED  BY <2>1, <2>2, SameQueue, LeaveReceiveSameQueue, KeepsOn
<1>3. CASE "rxDone" \notin r.flags /\ ~ReceptionFailed(r)
  BY <1>3, KeepsOn DEF UpdateReceiveState
<1>. QED  BY <1>1, <1>2, <1>3

\* The restart of RX leaves the queue alone, but for the reset of the chip.
LEMMA RestartIdleRxKeepsOrLoses ==
    ASSUME NEW r \in Radios, r.state = "IdleReceive"
    PROVE  LET x == RestartIdleRx(r)
           IN  x \in Radios /\ (Keeps(r, x) \/ Loses(r, x))
<1> DEFINE quiet == ClearReceiveFlags(r)
           fresh == [quiet EXCEPT !.successAge = 0]
           again == FullReconfigure(fresh)
<1>1. /\ quiet \in Radios
      /\ quiet.sxTx = r.sxTx /\ quiet.txBuffer = r.txBuffer
      /\ quiet.chip = r.chip
  BY DEF ClearReceiveFlags, Radios
<1>2. /\ fresh \in Radios
      /\ fresh.sxTx = r.sxTx /\ fresh.txBuffer = r.txBuffer
  <2>1. 0 \in 0 .. RxDeadTime + 1
    BY TimeoutAssumption
  <2> HIDE DEF quiet
  <2>. QED  BY <1>1, <2>1 DEF Radios
<1>3. /\ again \in Radios
      /\ again.sxTx = r.sxTx /\ again.txBuffer = r.txBuffer
      /\ again.chip.txMem = NoFrame
  <2> DEFINE chip == SetupLoRa(ResetDevice(fresh.chip), fresh.channel)
  <2>1. chip \in Chips /\ chip.txMem = NoFrame
    <3> HIDE DEF fresh
    <3>1. /\ ResetDevice(fresh.chip) \in Chips /\ fresh.channel \in Channels
          /\ ResetDevice(fresh.chip).txMem = NoFrame
      BY <1>2, ChipTypes DEF Radios
    <3>. QED  BY <3>1, ChipTypes
  <2>2. again = [fresh EXCEPT !.chip = chip, !.paramsChanged = FALSE,
                              !.state = "Idle", !.flags = {}]
    BY DEF FullReconfigure
  <2> HIDE DEF fresh, chip, again
  <2>. QED  BY <1>2, <2>1, <2>2 DEF Radios
<1>4. RestartIdleRx(r) = StartIdleRx(IF r.successAge > RxDeadTime
                                       THEN again ELSE quiet)
  BY <1>1 DEF RestartIdleRx, ClearReceiveFlags, Radios
<1> HIDE DEF quiet, again
<1>5. CASE r.successAge > RxDeadTime
  <2>1. /\ StartIdleRx(again) \in Radios
        /\ Outstanding(StartIdleRx(again)) = Outstanding(r)
        /\ StartIdleRx(again).state = "IdleReceive"
        /\ StartIdleRx(again).chip.txMem = NoFrame
    BY <1>3, StartIdleRxLemma, SameQueue
  <2>. QED  BY <1>4, <1>5, <2>1 DEF Loses, Deaf
<1>6. CASE ~(r.successAge > RxDeadTime)
  <2>1. StartIdleRx(quiet) \in Radios /\ Keeps(r, StartIdleRx(quiet))
    BY <1>1, StartIdleRxLemma, SameQueue
  <2>. QED  BY <1>4, <1>6, <2>1
<1>. QED  BY <1>5, <1>6

LEMMA IdleRxTakes ==
    ASSUME NEW r \in Radios, r.state = "IdleReceive"
    PROVE  \A x \in UpdateIdleRxState(r) :
             x \in Radios /\ (Takes(r, x) \/ Loses(r, x))
<1> DEFINE p == PrepareBuffered(r)
<1>1. /\ p \in Radios /\ Keeps(r, p)
      /\ p.state = "IdleReceive" /\ p.successAge = r.successAge
  BY PrepareBufferedLemma, PrepareBufferedSameQueue
<1>2. UpdateIdleRxState(r) =
        IF p.leaveRxFlag \/ ~p.txRxEnabled
          THEN {StartIdle([p EXCEPT !.leaveRxFlag = FALSE])}
        ELSE IF ReceiveFlagTrig(p) THEN UpdateReceiveState(StartActiveRx(p))
        ELSE IF p.rxStartedFlag THEN {StartIdleRx(UpdateModParams(p))}
        ELSE IF IsTxReady(p) THEN {StartTx(p)}
        ELSE IF p.idleAge > RxActiveTimeout THEN {RestartIdleRx(p)}
        ELSE {p}
  BY DEF UpdateIdleRxState
<1> HIDE DEF p
<1> DEFINE away == StartIdle([p EXCEPT !.leaveRxFlag = FALSE])
<1>3. away \in Radios /\ Takes(r, away)
  <2> DEFINE q == [p EXCEPT !.leaveRxFlag = FALSE]
  <2>1. /\ q \in Radios /\ q.sxTx = p.sxTx /\ q.txBuffer = p.txBuffer
        /\ q.chip = p.chip
    BY <1>1 DEF Radios
  <2> HIDE DEF q
  <2>2. Keeps(p, q) /\ StartIdle(q) \in Radios /\ Keeps(q, StartIdle(q))
    BY <1>1, <2>1, StartIdleSameQueue, SameQueue
  <2>. QED  BY <1>1, <2>1, <2>2, KeepsOn DEF q
<1>4. \A x \in UpdateReceiveState(StartActiveRx(p)) : x \in Radios /\ Takes(r, x)
  <2> DEFINE age == IF p.rxAge = Unset THEN 0 ELSE p.rxAge
             open == p.txRxEnabled
             s == StartActiveRx(p)
  <2>1. age \in -1 .. RxActiveTimeout + 1 /\ open \in BOOLEAN
    <3>1. p.rxAge \in -1 .. RxActiveTimeout + 1 /\ open \in BOOLEAN
      BY <1>1 DEF Radios
    <3>. QED  BY <3>1, TimeoutAssumption
  <2>2. s = [p EXCEPT !.rxAge = age, !.acceptThisPacket = open,
                      !.state = "Receiving"]
    BY <1>1 DEF StartActiveRx, Radios
  <2> HIDE DEF age, open, s
  <2>3. /\ s \in Radios /\ s.sxTx = p.sxTx /\ s.txBuffer = p.txBuffer
        /\ s.chip = p.chip
    BY <1>1, <2>1, <2>2 DEF Radios
  <2>4. Keeps(r, s)
    BY <1>1, <2>3, SameQueue, KeepsOn
  <2>. QED  BY <2>3, <2>4, ReceiveTakes, KeepsOn DEF s
<1>5. StartIdleRx(UpdateModParams(p)) \in Radios
        /\ Takes(r, StartIdleRx(UpdateModParams(p)))
  BY <1>1, ListenSameQueue, KeepsOn
<1>6. StartTx(p) \in Radios /\ Takes(r, StartTx(p))
  BY <1>1, StartTxSameQueue, KeepsOn
<1>7. /\ RestartIdleRx(p) \in Radios
      /\ Takes(r, RestartIdleRx(p)) \/ Loses(r, RestartIdleRx(p))
  <2> DEFINE x == RestartIdleRx(p)
  <2>1. x \in Radios /\ (Keeps(p, x) \/ Loses(p, x))
    BY <1>1, RestartIdleRxKeepsOrLoses
  <2> HIDE DEF x
  <2>2. CASE Keeps(p, x)
    BY <1>1, <2>1, <2>2, KeepsOn DEF x
  <2>3. CASE Loses(p, x)
    <3>1. Loses(r, x)
      BY <1>1, <2>3 DEF Loses, Deaf, Keeps
    <3>. QED  BY <2>1, <3>1 DEF x
  <2>. QED  BY <2>1, <2>2, <2>3
<1>8. p \in Radios /\ Takes(r, p)
  BY <1>1, KeepsOn
<1> HIDE DEF away
<1>. QED  BY <1>2, <1>3, <1>4, <1>5, <1>6, <1>7, <1>8 DEF away

LEMMA IdleTakes ==
    ASSUME NEW r \in Radios
    PROVE  \A x \in UpdateIdleState(r) : x \in Radios /\ Takes(r, x)
<1> DEFINE p == PrepareBuffered(r)
<1>1. p \in Radios /\ Keeps(r, p)
  BY PrepareBufferedLemma, PrepareBufferedSameQueue
<1>2. TxOrListen(p) \in Radios /\ Keeps(p, TxOrListen(p))
  BY <1>1, TxOrListenSameQueue
<1> HIDE DEF p
<1>3. Takes(r, TxOrListen(p))
  BY <1>1, <1>2, KeepsOn
<1>. QED  BY <1>2, <1>3 DEF UpdateIdleState, p

\* updateTransmitState takes the transmitted frame off, whatever the handlers
\* had accepted in the meantime.
LEMMA LeaveTransmitTail ==
    ASSUME NEW r \in Radios, r.sxTx # NoFrame
    PROVE  LET x == LeaveTransmit(r)
           IN  Outstanding(x) = Tail(Outstanding(r)) /\ ~Lost(x)
<1> DEFINE over == [r EXCEPT !.sxTx = NoFrame, !.flags = @ \ TxEnds]
           next == PrepareBuffered(over)
<1>1. over \in Radios /\ over.sxTx = NoFrame /\ over.txBuffer = r.txBuffer
  BY DEF Radios, Slots
<1>2. Outstanding(over) = Tail(Outstanding(r))
  <2>1. Outstanding(over) = InSlot(r.txBuffer)
    <3> HIDE DEF over
    <3>. QED  BY <1>1, QueueOf
  <2>2. r.sxTx \in Frames /\ (r.txBuffer # NoFrame => r.txBuffer \in Frames)
    BY DEF Radios, Slots
  <2>3. CASE r.txBuffer = NoFrame
    <3>1. Outstanding(r) = <<r.sxTx>> /\ InSlot(r.txBuffer) = <<>>
      BY <2>3, QueueOf DEF InSlot
    <3>. QED  BY <2>1, <2>2, <3>1, Tuples
  <2>4. CASE r.txBuffer # NoFrame
    <3>1. /\ Outstanding(r) = <<r.sxTx, r.txBuffer>>
          /\ InSlot(r.txBuffer) = <<r.txBuffer>>
      BY <2>4, QueueOf DEF InSlot
    <3>. QED  BY <2>1, <2>2, <2>4, <3>1, Tuples
  <2>. QED  BY <2>3, <2>4
<1>3. next \in Radios /\ Keeps(over, next)
  <2> HIDE DEF over
  <2>. QED  BY <1>1, PrepareBufferedLemma, PrepareBufferedSameQueue
<1> DEFINE left == IF IsTxReady(next) \/ next.rxStartedFlag
                     THEN TxOrListen(next) ELSE StartIdle(next)
<1>4. LeaveTransmit(r) = NoteLateEnd(left)
  BY DEF LeaveTransmit
<1>5. left \in Radios /\ Keeps(next, left)
  <2> HIDE DEF next
  <2>. QED  BY <1>3, TxOrListenSameQueue, StartIdleSameQueue
<1> HIDE DEF over, next, left
<1>6. Keeps(over, left)
  BY <1>1, <1>3, <1>5, KeepsOn
<1>7. Outstanding(left) = Tail(Outstanding(r)) /\ ~Lost(left)
  BY <1>1, <1>2, <1>6 DEF Keeps, Fits, Lost
<1>8. /\ NoteLateEnd(left).sxTx = left.sxTx
      /\ NoteLateEnd(left).txBuffer = left.txBuffer
      /\ NoteLateEnd(left).chip = left.chip
  BY <1>5 DEF NoteLateEnd, Radios
<1>. QED  BY <1>4, <1>7, <1>8 DEF Outstanding, Lost

LEMMA TransmitGives ==
    ASSUME NEW r \in Radios, r.sxTx # NoFrame
    PROVE  \A x \in UpdateTransmitState(r) : x = r \/ Gives(r, x)
<1>1. CASE TransmissionEnded(r)
  <2> DEFINE e == EndTransmit(r)
  <2>1. e \in Radios /\ e.sxTx = r.sxTx /\ e.txBuffer = r.txBuffer
    <3>1. [r EXCEPT !.state = "Idle"] \in Radios
      BY DEF Radios
    <3>. QED  BY <3>1, StartIdleLemma DEF EndTransmit, Radios
  <2>2. SUFFICES ASSUME NEW y \in HandlerOutcomes(e)
                 PROVE  Gives(r, LeaveTransmit(y))
    BY <1>1 DEF UpdateTransmitState
  <2> HIDE DEF e
  <2>3. y \in Radios /\ Takes(e, y) /\ y.sxTx # NoFrame
    BY <2>1, HandlerOutcomesTake
  <2>4. Outstanding(e) = Outstanding(r)
    BY <2>1, SameQueue
  <2>5. /\ Outstanding(LeaveTransmit(y)) = Tail(Outstanding(y))
        /\ ~Lost(LeaveTransmit(y))
    BY <2>3, LeaveTransmitTail
  <2>6. CASE Outstanding(y) = Outstanding(r)
    BY <2>5, <2>6 DEF Gives
  <2>7. ASSUME NEW f \in Frames, Len(Outstanding(r)) < 2,
               Outstanding(y) = Append(Outstanding(r), f)
        PROVE  Gives(r, LeaveTransmit(y))
    <3>1. r.sxTx \in Frames /\ (r.txBuffer # NoFrame => r.txBuffer \in Frames)
      BY DEF Radios, Slots
    <3>2. r.txBuffer = NoFrame
      <4>1. SUFFICES ASSUME r.txBuffer # NoFrame PROVE FALSE
        OBVIOUS
      <4>2. Outstanding(r) = <<r.sxTx, r.txBuffer>> /\ r.txBuffer \in Frames
        BY <3>1, <4>1, QueueOf
      <4>. QED  BY <2>7, <3>1, <4>2, Tuples
    <3>3. Outstanding(r) = <<r.sxTx>>
      BY <3>2, QueueOf DEF InSlot
    <3>4. /\ Tail(Append(Outstanding(r), f)) = <<f>>
          /\ Append(Tail(Outstanding(r)), f) = <<f>>
      <4>1. Append(<<r.sxTx>>, f) = <<r.sxTx, f>> /\ Tail(<<r.sxTx>>) = <<>>
        BY <3>1, Tuples
      <4>2. Tail(<<r.sxTx, f>>) = <<f>> /\ Append(<<>>, f) = <<f>>
        BY <3>1, Tuples
      <4>. QED  BY <3>3, <4>1, <4>2
    <3>. QED  BY <2>5, <2>7, <3>4 DEF Gives
  <2>. QED  BY <2>3, <2>4, <2>6, <2>7 DEF Takes
<1>2. CASE ~TransmissionEnded(r)
  BY <1>2 DEF UpdateTransmitState
<1>. QED  BY <1>1, <1>2

LEMMA TaskTakes ==
    ASSUME NEW r \in Radios
    PROVE  /\ r.state # "Transmitting"
                => \A x \in TaskOutcomes(r) : Takes(r, x) \/ Loses(r, x)
           /\ r.state = "Transmitting" /\ r.sxTx # NoFrame
                => \A x \in TaskOutcomes(r) : x = r \/ Gives(r, x)
<1>1. CASE r.state = "IdleReceive"
  BY <1>1, IdleRxTakes DEF TaskOutcomes
<1>2. CASE r.state = "Receiving"
  BY <1>2, ReceiveTakes DEF TaskOutcomes
<1>3. CASE r.state = "Transmitting"
  BY <1>3, TransmitGives DEF TaskOutcomes
<1>4. CASE r.state \notin {"IdleReceive", "Receiving", "Transmitting"}
  BY <1>4, IdleTakes DEF TaskOutcomes
<1>. QED  BY <1>1, <1>2, <1>3, <1>4

-----------------------------------------------------------------------------
(* Steps of the radio as steps of the queue.                               *)

\* What the frames on the air and in the chip's buffer have to do with the
\* queue.
LEMMA OldestOnAir ==
    ASSUME NEW r \in Radios, Sound(r), Holds(r)
    PROVE  /\ r.state # "Transmitting" => OnAir(r) = NoFrame
           /\ Lost(r) => OnAir(r) = NoFrame
           /\ r.sxTx # NoFrame => Outstanding(r) # <<>>
           /\ r.state = "Transmitting" /\ ~Lost(r)
                => /\ OnAir(r) # NoFrame
                   /\ OnAir(r) = Head(Outstanding(r))
<1>1. CASE r.sxTx = NoFrame
  BY <1>1 DEF OnAir, Lost, Sound
<1>2. CASE r.sxTx # NoFrame
  <2>1. r.sxTx \in Frames
    BY <1>2 DEF Radios, Slots
  <2>2. r.txBuffer # NoFrame => r.txBuffer \in Frames
    BY DEF Radios, Slots
  <2>3. Outstanding(r) # <<>> /\ Head(Outstanding(r)) = r.sxTx
    <3>1. CASE r.txBuffer = NoFrame
      <4>1. Outstanding(r) = <<r.sxTx>>
        BY <1>2, <3>1, QueueOf DEF InSlot
      <4>. QED  BY <2>1, <4>1, Tuples
    <3>2. CASE r.txBuffer # NoFrame
      <4>1. Outstanding(r) = <<r.sxTx, r.txBuffer>>
        BY <1>2, <3>2, QueueOf
      <4>. QED  BY <2>1, <2>2, <3>2, <4>1, Tuples
    <3>. QED  BY <3>1, <3>2
  <2>. QED  BY <1>2, <2>3 DEF OnAir, Lost, Holds
<1>. QED  BY <1>1, <1>2

\* A queue step, or none, between two records.
Steps(a, b) ==
    \/ Outstanding(b) = Outstanding(a) /\ OnAir(b) = OnAir(a) /\ Lost(b) = Lost(a)
    \/ /\ Len(Outstanding(a)) < 2
       /\ \E f \in Frames : Outstanding(b) = Append(Outstanding(a), f)
       /\ OnAir(b) = OnAir(a) /\ Lost(b) = Lost(a)
    \/ /\ Outstanding(a) # <<>> /\ OnAir(a) = NoFrame /\ ~Lost(a)
       /\ Outstanding(b) = Outstanding(a) /\ ~Lost(b)
       /\ OnAir(b) = Head(Outstanding(a))
    \/ /\ OnAir(a) # NoFrame \/ Lost(a)
       /\ Gives(a, b)
       /\ \/ OnAir(b) = NoFrame
          \/ Outstanding(b) # <<>> /\ OnAir(b) = Head(Outstanding(b))
    \/ /\ OnAir(a) = NoFrame /\ ~Lost(a)
       /\ Len(Outstanding(a)) < 2
       /\ \E f \in Frames : Outstanding(b) = Append(Outstanding(a), f)
       /\ OnAir(b) = Head(Outstanding(b)) /\ ~Lost(b)
    \/ /\ (Deaf(a) /\ OnAir(a) = NoFrame) \/ ~b.chip.setUp
       /\ Outstanding(a) # <<>> /\ Lost(b) /\ OnAir(b) = NoFrame
       /\ Outstanding(b) = Outstanding(a)

LEMMA StepIsQueueStep ==
    ASSUME Steps(radio, radio')
    PROVE  [Queue!Next]_<<Outstanding(radio), OnAir(radio), Lost(radio)>>
<1> DEFINE q == Outstanding(radio)
           air == OnAir(radio)
           lost == Lost(radio)
<1>1. /\ q' = Outstanding(radio') /\ air' = OnAir(radio')
      /\ lost' = Lost(radio')
  BY DEF Outstanding, InSlot, OnAir, Lost
<1>2. lost \in BOOLEAN /\ Lost(radio') \in BOOLEAN
  BY DEF Lost
<1> HIDE DEF q, air, lost
<1>. QED  BY <1>1, <1>2
          DEF Steps, Gives, q, air, lost, Queue!Next, Queue!Accept,
              Queue!Start, Queue!Finish, Queue!AcceptAndStart, Queue!Lose

\* Nothing on the air: what is taken may start at once, unless it is lost.
LEMMA TakesSteps ==
    ASSUME NEW a \in Radios, NEW b \in Radios, Sound(a), Sound(b),
           Holds(a), Takes(a, b), a.state # "Transmitting"
    PROVE  Steps(a, b) /\ Holds(b)
<1>1. OnAir(a) = NoFrame
  BY OldestOnAir
<1>2. Holds(b) /\ Lost(b) = Lost(a)
  BY DEF Takes, Fits, Holds, Lost
<1>3. OnAir(b) = NoFrame \/ (~Lost(b) /\ OnAir(b) = Head(Outstanding(b))
                              /\ Outstanding(b) # <<>>)
  <2>1. CASE b.state # "Transmitting" \/ Lost(b)
    BY <1>2, <2>1, OldestOnAir
  <2>2. CASE b.state = "Transmitting" /\ ~Lost(b)
    BY <1>2, <2>2, OldestOnAir DEF Sound
  <2>. QED  BY <2>1, <2>2
<1>4. CASE Outstanding(b) = Outstanding(a)
  BY <1>1, <1>2, <1>3, <1>4 DEF Steps
<1>5. CASE Outstanding(b) # Outstanding(a)
  BY <1>1, <1>2, <1>3, <1>5 DEF Steps, Takes
<1>. QED  BY <1>2, <1>4, <1>5

\* Something on the air that stays there.
LEMMA TakesOnAir ==
    ASSUME NEW a \in Radios, NEW b \in Radios, Takes(a, b), Holds(a),
           a.state = "Transmitting", b.state = "Transmitting",
           a.sxTx # NoFrame
    PROVE  Steps(a, b) /\ Holds(b)
<1>1. b.sxTx = a.sxTx /\ b.chip.txMem = a.chip.txMem
  BY DEF Takes, Fits
<1>2. OnAir(b) = OnAir(a) /\ Lost(b) = Lost(a) /\ Holds(b)
  BY <1>1 DEF OnAir, Lost, Holds
<1>. QED  BY <1>2 DEF Steps, Takes

LEMMA SameSlotsStep ==
    ASSUME NEW a \in Radios, NEW b \in Radios, Holds(a),
           b.sxTx = a.sxTx, b.txBuffer = a.txBuffer,
           b.state = a.state, b.chip.txMem = a.chip.txMem
    PROVE  Steps(a, b) /\ Holds(b)
BY SameQueue DEF Steps, OnAir, Lost, Holds

\* The chip hung, and was reset.
LEMMA HangSteps ==
    ASSUME NEW a \in Radios, NEW b \in Radios, Sound(a), Holds(a),
           b.sxTx = a.sxTx, b.txBuffer = a.txBuffer, b.state = a.state,
           b.chip.txMem = NoFrame, ~b.chip.setUp
    PROVE  Steps(a, b) /\ Holds(b)
<1>1. OnAir(b) = NoFrame /\ Holds(b)
  BY DEF OnAir, Holds
<1>2. Outstanding(b) = Outstanding(a)
  BY SameQueue
<1>3. CASE a.sxTx # NoFrame
  <2>1. Lost(b) /\ Outstanding(a) # <<>>
    BY <1>3, OldestOnAir DEF Lost
  <2>. QED  BY <1>1, <1>2, <2>1 DEF Steps
<1>4. CASE a.sxTx = NoFrame
  <2>1. OnAir(a) = NoFrame /\ Lost(a) = Lost(b)
    BY <1>4 DEF Sound, OnAir, Lost
  <2>. QED  BY <1>1, <1>2, <2>1 DEF Steps
<1>. QED  BY <1>1, <1>3, <1>4

\* The reset of updateIdleRxState.
LEMMA LosesSteps ==
    ASSUME NEW a \in Radios, NEW b \in Radios, Sound(a), Sound(b), Holds(a),
           Loses(a, b), NothingWaits(b)
    PROVE  Steps(a, b) /\ Holds(b)
<1>1. OnAir(a) = NoFrame /\ OnAir(b) = NoFrame
  BY DEF OnAir, Loses, Deaf
<1>2. Holds(b)
  BY DEF Holds, Loses
<1>3. CASE b.sxTx # NoFrame
  <2>1. Lost(b) /\ Outstanding(b) # <<>>
    BY <1>2, <1>3, OldestOnAir DEF Lost, Loses
  <2>. QED  BY <1>1, <1>2, <2>1 DEF Steps, Loses
<1>4. CASE b.sxTx = NoFrame
  <2>1. Outstanding(b) = <<>> /\ ~Lost(b)
    BY <1>4, QueueOf DEF NothingWaits, InSlot, Lost
  <2>2. ~Lost(a)
    <3>1. a.sxTx = NoFrame
      BY <2>1, OldestOnAir DEF Loses
    <3>. QED  BY <3>1 DEF Lost
  <2>3. Lost(a) = Lost(b)
    BY <2>1, <2>2 DEF Lost
  <2>. QED  BY <1>1, <1>2, <2>3 DEF Steps, Loses
<1>. QED  BY <1>3, <1>4

LEMMA TaskStep ==
    ASSUME IInv, IInv', Holds(radio), Task
    PROVE  Steps(radio, radio') /\ Holds(radio')
<1>1. /\ radio \in Radios /\ Sound(radio)
      /\ radio' \in Radios /\ Sound(radio')
  BY DEF IInv, Sound
<1>2. CASE TaskInit
  <2> DEFINE chip == SetupLoRa(radio.chip, radio.channel)
             ready == [radio EXCEPT !.chip = chip, !.paramsChanged = FALSE,
                                    !.successAge = 0, !.released = TRUE]
  <2>0. radio.chip \in Chips /\ radio.channel \in Channels
    BY <1>1 DEF Radios
  <2>1. chip \in Chips /\ chip.txMem = radio.chip.txMem
    BY <2>0, ChipTypes
  <2>2. radio' = StartIdle(ready) /\ radio.state = "Sleep"
    BY <1>2 DEF TaskInit
  <2> HIDE DEF chip
  <2>3. /\ ready \in Radios
        /\ ready.sxTx = radio.sxTx /\ ready.txBuffer = radio.txBuffer
        /\ ready.chip.txMem = radio.chip.txMem
    <3>1. 0 \in 0 .. RxDeadTime + 1
      BY TimeoutAssumption
    <3>. QED  BY <1>1, <2>1, <3>1 DEF Radios
  <2> HIDE DEF ready
  <2>4. Keeps(radio, radio')
    BY <1>1, <2>2, <2>3, SameQueue, StartIdleLemma
  <2>. QED  BY <1>1, <2>2, <2>4, KeepsOn, TakesSteps
<1>3. CASE TaskFetch
  <2>1. /\ radio'.sxTx = radio.sxTx /\ radio'.txBuffer = radio.txBuffer
        /\ radio'.state = radio.state
        /\ radio'.chip = FetchIrqStatus(radio.chip)
    BY <1>1, <1>3 DEF TaskFetch, FetchIrqFlags, Radios
  <2>2. radio'.chip.txMem = radio.chip.txMem
    BY <1>1, <2>1, ChipTypes DEF Radios
  <2>. QED  BY <1>1, <2>1, <2>2, SameSlotsStep
<1>4. CASE TaskUpdate
  <2>1. PICK r \in TaskOutcomes(radio) :
          radio' = [r EXCEPT !.irqTrig = FALSE, !.released = FALSE]
    BY <1>4 DEF TaskUpdate
  <2>2. radio.state # "Sleep"
    BY <1>4 DEF TaskUpdate, IInv
  <2>3. r \in Radios /\ (NothingWaits(r) \/ r.state = "Receiving")
    BY <1>1, <2>2, TaskOutcomesSettled DEF Settled, Sound
  <2>4. /\ radio'.sxTx = r.sxTx /\ radio'.txBuffer = r.txBuffer
        /\ radio'.state = r.state /\ radio'.chip = r.chip
    BY <2>1, <2>3 DEF Radios
  <2>5. Outstanding(radio') = Outstanding(r) /\ Keeps(r, radio')
    BY <1>1, <2>3, <2>4, SameQueue
  <2>6. CASE radio.state # "Transmitting"
    <3>1. Takes(radio, r) \/ Loses(radio, r)
      BY <1>1, <2>6, TaskTakes
    <3>2. CASE Takes(radio, r)
      <4>1. Takes(radio, radio')
        BY <1>1, <2>3, <2>5, <3>2, KeepsOn
      <4>. QED  BY <1>1, <2>6, <4>1, TakesSteps
    <3>3. CASE Loses(radio, r)
      <4>1. Loses(radio, radio') /\ NothingWaits(radio')
        BY <2>3, <2>4, <2>5, <3>3 DEF Loses, NothingWaits
      <4>. QED  BY <1>1, <4>1, LosesSteps
    <3>. QED  BY <3>1, <3>2, <3>3
  <2>7. CASE radio.state = "Transmitting"
    <3>1. radio.sxTx # NoFrame
      BY <1>1, <2>7 DEF Sound
    <3>2. r = radio \/ Gives(radio, r)
      BY <1>1, <2>7, <3>1, TaskTakes
    <3>3. CASE r = radio
      BY <1>1, <2>4, <3>3, SameSlotsStep
    <3>4. CASE Gives(radio, r)
      <4>1. Gives(radio, radio') /\ ~Lost(radio')
        BY <2>4, <2>5, <3>4 DEF Gives, Lost
      <4>2. Holds(radio')
        BY <4>1 DEF Lost, Holds
      <4>3. OnAir(radio) # NoFrame \/ Lost(radio)
        BY <1>1, <2>7, OldestOnAir
      <4>4. \/ OnAir(radio') = NoFrame
            \/ /\ Outstanding(radio') # <<>>
               /\ OnAir(radio') = Head(Outstanding(radio'))
        BY <1>1, <4>1, <4>2, OldestOnAir DEF Sound
      <4>. QED  BY <4>1, <4>2, <4>3, <4>4 DEF Steps
    <3>. QED  BY <3>2, <3>3, <3>4
  <2>. QED  BY <2>6, <2>7
<1>. QED  BY <1>2, <1>3, <1>4 DEF Task

LEMMA ClientTakes ==
    ASSUME IInv, IInv', Holds(radio), Client
    PROVE  Steps(radio, radio') /\ Holds(radio')
<1>1. /\ radio \in Radios /\ Sound(radio)
      /\ radio' \in Radios /\ Sound(radio')
  BY DEF IInv, Sound
<1>2. radio' \in HandlerOutcomes(radio)
  BY DEF Client, ClientTransmit, ClientStartReceive, ClientEnableTxRx,
         ClientSetChannel, ClientSetModulation, HandlerOutcomes
<1>3. /\ Takes(radio, radio')
      /\ radio.sxTx # NoFrame => radio'.sxTx = radio.sxTx
      /\ radio.state = "Transmitting" => radio'.state = "Transmitting"
  BY <1>1, <1>2, HandlerOutcomesTake
<1>4. radio.state = "Transmitting" => radio.sxTx # NoFrame
  BY <1>1 DEF Sound
<1>. QED  BY <1>1, <1>3, <1>4, TakesSteps, TakesOnAir

LEMMA OtherSteps ==
    ASSUME IInv, IInv', Holds(radio), Chip \/ Tick \/ UNCHANGED vars
    PROVE  Steps(radio, radio') /\ Holds(radio')
<1>1. radio \in Radios /\ radio' \in Radios
  BY DEF IInv, Sound
<1>0. radio.chip \in Chips /\ Sound(radio)
  BY <1>1 DEF Radios, IInv
<1>5. CASE ChipHangs
  <2> DEFINE chip == ResetDevice(radio.chip)
  <2>1. chip \in Chips /\ chip.txMem = NoFrame /\ ~chip.setUp
    BY <1>0, ChipTypes
  <2>2. ChipStep(chip, FALSE)
    BY <1>5 DEF ChipHangs, BusyReset
  <2> HIDE DEF chip
  <2>3. /\ radio'.sxTx = radio.sxTx /\ radio'.txBuffer = radio.txBuffer
        /\ radio'.state = radio.state /\ radio'.chip = chip
    BY <1>1, <2>2 DEF Radios, ChipStep
  <2>. QED  BY <1>0, <1>1, <2>1, <2>3, HangSteps
<1>2. CASE Chip /\ ~ChipHangs
  <2>1. \E chip \in Chips, trig \in BOOLEAN :
          /\ chip.txMem = radio.chip.txMem
          /\ ChipStep(chip, trig)
    BY <1>0, <1>2, ChipEventTypes
       DEF Chip, ChipPreamble, ChipHeader, ChipFade, ChipRxDone,
           ChipTxOver, Irqs
  <2>2. /\ radio'.sxTx = radio.sxTx /\ radio'.txBuffer = radio.txBuffer
        /\ radio'.state = radio.state
        /\ radio'.chip.txMem = radio.chip.txMem
    BY <1>1, <2>1 DEF Radios, ChipStep
  <2>. QED  BY <1>1, <2>2, SameSlotsStep
<1>3. CASE Tick
  BY <1>1, <1>3, ElapseKeeps, SameSlotsStep DEF Tick
<1>4. CASE UNCHANGED vars
  BY <1>1, <1>4, SameSlotsStep DEF vars
<1>. QED  BY <1>2, <1>3, <1>4, <1>5

LEMMA QueueStep ==
    ASSUME IInv, IInv', Holds(radio), [Next]_vars
    PROVE  /\ [Queue!Next]_<<Outstanding(radio), OnAir(radio), Lost(radio)>>
           /\ Holds(radio')
<1>1. Steps(radio, radio') /\ Holds(radio')
  BY TaskStep, ClientTakes, OtherSteps DEF Next
<1>. QED  BY <1>1, StepIsQueueStep

(***************************************************************************)
(* Whatever order client calls, handler callbacks, chip events and task    *)
(* runs come in, the slots sxTx and txBuffer are a first-in first-out      *)
(* queue of two, whose oldest frame is what the chip transmits: none is    *)
(* overwritten or overtaken, and each goes on the air once                 *)
(* (transmitDataframe, prepareTx, startTx, updateTransmitState and the     *)
(* ends of a reception).  The chip's resets alone, by fullReconfigure and  *)
(* by checkBusy, lose the prepared frame, or the one on the air; what is   *)
(* sent in its turn is then not a frame.                                   *)
(***************************************************************************)
THEOREM ImplementsQueue == Spec => QueueSpec
<1>1. Init => Queue!Init /\ Holds(radio)
  <2>1. Init => /\ radio.sxTx = NoFrame /\ radio.txBuffer = NoFrame
                /\ radio.state = "Sleep"
    BY DEF Init
  <2>2. Init => radio \in Radios
    BY InitSound DEF IInv, Sound
  <2>3. Init => Outstanding(radio) = <<>>
    BY <2>1, <2>2, QueueOf DEF InSlot
  <2>. QED  BY <2>1, <2>3 DEF Queue!Init, OnAir, Lost, Holds
<1>2. IInv /\ IInv' /\ Holds(radio) /\ [Next]_vars
        => /\ [Queue!Next]_<<Outstanding(radio), OnAir(radio), Lost(radio)>>
           /\ Holds(radio)'
  BY QueueStep DEF Holds
<1>. QED  BY <1>1, <1>2, InvariantHolds, PTL
          DEF Spec, QueueSpec, Queue!Spec, Queue!vars
=============================================================================
