# ExVectrNetwork: a verification project

ExVectrNetwork is a small network stack for embedded devices: applications send
data through a transport layer, a network layer spreads packets over every
datalink a node has, and a datalink moves frames over a medium, an SX1280 LoRa
transceiver or a topic that several nodes share. Everything runs on one
cooperative scheduler; what runs beside it is the radio hardware and, across
devices, the other nodes. This directory holds TLA+ modules that model the three
datalinks, the radio driver below two of them, the network node with its packet
header and the transport, TLC runs that check them on small instances, and
proofs, checked by TLAPS, of what holds for every instance.

## 1. Inventory

| Component | Source | State it keeps | Operations | Hard behaviour | What makes it correct |
|---|---|---|---|---|---|
| SX1280 datalink V2 | `src/src/sx1280/Sx1280_2.cpp` | a five-state machine, two transmit slots, the flags read from the chip, timers, pending parameter changes | `transmitDataframe`, `setStartReceive`, `setEnableTxRx`, `setChannel` and the other setters; the task; `notifyDio1Irq`; receive and transmit-finished handlers | handlers that call back into a half-finished state function; a chip that acts at any time; missed interrupts; timeouts racing the answer they wait for; half-duplex | accepted frames leave once, whole, in order, unless a reset of the chip loses one; received packets are intact and delivered once; state and chip agree; nothing waits for ever |
| SX128XLT driver | `src/src/sx1280/sx12xxAL/src/SX128XLT.cpp` (vendored) | a shadow of the chip's settings, the length of the packet written last | one function per chip command; setup, sleep, access to the chip's buffer; transmit and receive operations that wait, by DIO1 or by polling | commands with side effects: writing the buffer leaves RX, starting TX or RX clears pending IRQs; a busy chip is reset behind the caller's back; waits without a limit; base addresses that stay | each command does to the chip what its caller assumes; what is sent and answered is what was given and happened; waits end; the shadow is right |
| Datalink | `src/src/Datalink.cpp` | the blocked flag and its timestamp, a transmission under way, two buffers | `transmitDataframe`, the task | no arbiter: BLOCK, DATA and FREE cross; frames are dropped by a full inbox; a release timeout | collisions are noticed, a blocked medium is released, buffers drain |
| TopicIO | `src/src/TopicIo.cpp` | a byte buffer per subscriber | `writeData`, `readData`, `receiveItem` | all-or-nothing delivery | a message arrives whole or not at all |
| NetworkNode | `src/src/NetworkNode.cpp` | the list of reachable nodes, the time of the last send | `sendPacket`, `receivePacket`, the task | expiry against heartbeats, several datalinks, refused frames | the list says who was heard lately; a packet reaches whom it is for |
| NetworkPacketHeader, DataPacket | `src/src/NetworkI.cpp` | none | `serialize`, `deserialize`, `addHeader`, `fromPacket` | checksum and version | what is serialised is read back, and damage is noticed |
| TransportCallback | `src/src/TransportCallback.cpp` | the message being reassembled | `send`, `receivePacketCallback` | lost, duplicated and interleaved segments | a message is delivered whole or not at all |
| SX1280 Direct | `src/src/sx1280/Sx1280_Direct.cpp` | staged settings, a loaded packet, flags | setters, `push`, `pull`, `startRx`, `startTx` | staged state against the chip's | what was pushed is what the chip uses |
| TransportTopic, TransportHeader | headers | - | - | - | cannot be instantiated at this commit (see section 8) |

How they interact: a client, or the network layer, calls `transmitDataframe` of
a datalink and may be refused; the datalink calls the receive handlers it was
given from inside its own task, and V2 its transmit-finished handlers too.
A handler may call any client function of the same datalink, so it runs in the
middle of the function that called it. The chip talks to the datalink through
its IRQ register, read at the start of each task run, and through the DIO1
interrupt, which only leaves a timestamp that makes the task run earlier. The
scheduler polls `taskCheck`; whatever `taskCheck` does not test for does not
wake the task. Two `Datalink`s interact only through the topic that joins their
`TopicIO`s.

Every hazard that follows from this is listed, at its line, in `PROJECT.json`.

## 2. Modules

| Module | What it is |
|---|---|
| `Sx1280Driver` | the chip as a record, one operator per driver function in use, one per event of the chip's own |
| `Sx1280V2` | the datalink: state, one operator per member function, one action per client call, task step and chip event |
| `TxQueue` | the abstract specification of transmission: a bounded FIFO queue whose head is on the air, and is lost only by a reset |
| `Sx1280V2Properties`, `MCSx1280V2` | type invariant, invariants, action and liveness properties, and the refinement `Queue!Spec`; its symmetry and view for TLC |
| `Sx1280V2Proofs` | the inductive invariant, the theorems that follow, and that the datalink implements `TxQueue` |
| `Sx1280V2RadioProofs` | theorems about channels, the end of transmissions and delivered packets |
| `Sx1280V2AirTime` | how long V2's frames take on the air, against the time it allows; a refuted claim |
| `Sx128xPolled` | the driver as its own clients see it: settings, buffer, and every operation that waits |
| `Sx128xPolledProperties`, `MCSx128xPolled` | its properties; its constants for TLC |
| `Sx128xPolledProofs` | theorems about it, and about air times |
| `LoRaAirTime` | the driver's air-time formulas |
| `Datalink` | any number of `Datalink`s, each with its `TopicIO`, on one medium |
| `DatalinkProperties` | their properties, and a refuted claim |
| `DatalinkProofs` | theorems about any number of them |
| `SetInduction` | induction over the natural numbers, for sets |
| `NetworkHeader` | the header of network packets as bytes |
| `NetworkNode` | nodes on shared datalinks that refuse, lose and delay frames; the list of reachable nodes |
| `NetworkNodeProperties`, `MCNetworkNode` | their properties; their constants for TLC |
| `NetworkNodeProofs` | theorems about every header, and about any number of nodes |
| `Transport` | segmentation and reassembly over a network that loses, repeats and reorders |
| `TransportProperties` | their properties, and a refuted claim |
| `TransportProofs` | theorems about reassembly |
| `Sx1280Direct` | the staged wrapper over the same chip as V2 |
| `Sx1280DirectProperties`, `MCSx1280Direct` | its properties; its constants for TLC |
| `Sx1280DirectProofs` | theorems about it |

The `.cfg` files instantiate the `Properties` modules, where model values and small
sets are all an instance needs; the `MC` modules define what a `.cfg` cannot write.
`Sx1280Direct` and `Sx1280V2` share the chip of `Sx1280Driver`; `NetworkNode`
extends `NetworkHeader`; `Sx128xPolled` and `Sx1280V2AirTime` extend `LoRaAirTime`.

### Sx1280V2

`radio` is one record: the members of the C++ object plus `chip`. The handler
functions of the class call each other in sequence, so each is an operator from
the record to the record it leaves, in the order of its statements; a function
that calls client handlers is an operator to the *set* of records the handlers
can lead to (`HandlerOutcomes`: nothing, or one call of a client function).
`flags` are the latched IRQ booleans. Timestamps are held as ages that saturate
one tick past the timeout they are compared with, or as the time left until a
scheduled transmission, so that the state space is finite without changing any
comparison. `txPendingSize = 0` is `txBuffer = NoFrame`; frames are taken to be
non-empty.

A run of `taskThread` is two steps, `TaskFetch` and `TaskUpdate`: the chip may
raise an IRQ after the register was read and before the commands of the same run
are sent, and those commands clear the register. `MidRun` is that; the proofs hold
with and without it. An event between two commands of one run is left out: `setTx`
and `setRxContinuous` clear every IRQ, so an event before them is as if it had come
before the run's first command, but for one between that clear and the TX or RX
command after it, and one while the packet is read.

A chip that stays busy for 20 ms is reset by the next command, whichever it is
(`checkBusy`, `SX128XLT.cpp:182`), and the datalink is not told. `ChipHangs` is the
moment it stops working and the reset in one step: the datalink looks at the chip only
by commands, and the first of them resets it. It may come at any time, between
`TaskFetch` and `TaskUpdate` too, but not between two commands of one handler. From
then on the chip is not `setUp`: it raises no IRQ and hears nothing until
`fullReconfigure` or `taskInit` sets it up again.

The packet in the chip's memory carries its history: whether its RX_DONE was fetched
(`fetched`), how often it was read out for the receive handlers after that (`due`) and
before (`early`). `lateEnd` says that the chip ended a transmission in the middle of
the run that gave it up (`NoteLateEnd`).

`taskInit` retries until `checkDevice` succeeds; the failing call changes nothing
and is a stuttering step. The 2 s recovery (`fullReconfigure`) is taken to find
a chip that answers.

Left out of the data: signal metrics, power settings, padding, which of the
modulation parameters changed, the bytes of a frame. `PacketMode` decides whether
headers are reported and is fixed before `taskInit`.

### Sx128xPolled, LoRaAirTime and Sx1280V2AirTime

`Sx128xPolled` is the driver seen from a client that uses it directly, without
either datalink: the datalinks never call an operation that waits. `chip` is the
SX1280, here with what those operations depend on: the registers the driver
remembers, the data buffer byte by byte, the two base addresses. `driver` holds
the saved settings and `_TXPacketL`. A register the driver has not written since a
reset is `Unset`. `call` is the operation under way: a call that waits is two
steps, its start and its return, and the chip transmits, receives, reports faults,
or hangs between them. A wait on the IRQ register may find the chip hung and reset
it (`PollResets`), a wait on DIO1 never does. Commands within one step follow each
other at once, which is what a driver that nothing else calls into does.

`checkBusy` is the one place where the driver acts on its own: a chip that is busy
for 20 ms, since it hangs or sleeps, is reset before the command, and the driver
goes on as if it had not been. Every command of this model begins with it, so a
reset may come between two commands of one operation. (In `Sx1280Driver`, under the
datalinks, hang and reset are one step between theirs.)

Lengths are bytes, so that `Width`, the size of the chip's buffer, is also where
they wrap. What a receive operation does to its client's buffer is `got`: the
indices it writes and the bytes it writes there.

`LoRaAirTime` has `calcLoRaSymbolCount` and `calcLoRaTimeOnAirMs` as operators. The
code computes in floats; every number in it is a multiple of a quarter symbol, so
quarters are exact. `Sx1280V2AirTime` takes the frames V2 accepts, the modulation
its clients set and the 15 ms it gives every transmission, and asks that formula
whether a frame fits.

### Datalink

`link[n]` holds the members of node n's `Datalink`, `inbox[n]` the receive buffer
of its `TopicIO`. A TopicIO takes over a write whole or drops it, so the inbox is
a sequence of messages with the sizes their bytes would take. One run of
`taskThread` is one action built from its parts in their order: `Read` (a
header, and the bytes of a DATA), `Release` (the timeout), `Wrote` and `Written`.
`announced` and `of` are history: the frame a BLOCK was sent for.

### NetworkNode

`node[n]` holds the members of node n's `NetworkNode`, `air[d]` what datalink d
holds for each of its receivers. A datalink is known by the nodes it joins. It
promises as little as either datalink of this library keeps: it may refuse or
lose a frame, each receiver's copy by itself, and delay it, but keeps the order.
A frame is the bytes of its DataPacket, written with `Serialize` and read with
`Deserialize` as the code does, including the checksum that never agrees and whose
answer nobody looks at; `sent` beside it is history: who called `sendPacket`, and with what.
Clients give `sendPacket` any header, as it is public and looks at the destination
alone: any type, a heartbeat too, any number of hops, 0 included (`ClientHeaders`).
`sendPacket`, `receivePacket` and `taskThread` are one action each; handlers are
the last call in all of them, so what a handler sends is a step of its own.
`called` is the call of handlers the last step made. `heard` is history: how long
a node has not heard another.

The model takes the scheduler to be punctual, since how long a silent node stays
reachable can only be said of a task that runs when it is due.

### Transport

`receiver` holds the members of one receiving `TransportCallback`; senders are
known by their `sendingID_`. A sent message is kept for good, and any of its
segments may be delivered next, again, or never. The network is the one that
`NetworkI` promises, with payloads; over the `NetworkNode` of this commit nothing
arrives at all. Bytes are left out: the counts and the checksum read from a data
segment that is mistaken for an info segment are arbitrary.

### Sx1280Direct

`radio` is one record, members and chip, as in `Sx1280V2`; `registers` are
chip settings whose values matter here, beyond the common chip record. Each public
function but `pull` is one action: one thread calls them all, and the chip acts in
between, or stays busy and is reset (`ChipHangs`). `pull` is two: `PullFetch` reads and
clears the register (`fetchIrqFlags`), `PullHarvest` reads the packet and does the
rest, and the chip, which may still be in continuous RX, acts between them too, or is
reset. `counted` stands for the two packet counts: the one the last step incremented.

The header asks clients to configure the radio once and first, and to choose the
framing before. `strays` counts the calls that do not (history): `LoadedIsInChip`
is about clients without any, the other properties about all. For TLC a view
(`MCSx1280Direct`) takes states for one that differ only in what is written before it
is read again.

## 3. Runs

| Run | Question | Instance |
|---|---|---|
| `Sx1280V2Safety` | In every order of client calls, handler callbacks, task runs and chip events, also in the middle of a run: is transmission a bounded FIFO queue that loses a frame by a reset only (`QueueSpec`), is no frame stranded, do state and chip agree? | two frames, one channel, `MidRun`, `Toggles` |
| `Sx1280V2Reception` | With chip events also in the middle of a run: is a packet delivered for its own IRQs intact and delivered once, and at most once before them, what cuts a transmission short, are channels ever mixed up? | explicit headers, fading packets, an oversized frame, two channels, `MidRun`, gate open |
| `Sx1280V2Liveness` | Does every accepted frame leave, every reception end, every completed reception get noticed, even if each DIO1 edge is missed? | two frames, fair task and time |
| `Sx1280V2AirTime` | refutes `AcceptedIsSent` | frames of 8 to 128 bytes, three spreading factors, two bandwidths and two coding rates |
| `Sx128xPolled` | In every order of driver operations and chip events, with a chip that hangs, sleeps and receives faulty packets: is what was given sent, what was heard received, are the answers right, the saved settings the chip's, and do waits end? | a buffer of four bytes, two LoRa setups and one of FLRC |
| `Sx1280V2BadCrc` | refutes `NoBadPacket` when clients may shut the gate, even with chip events between task runs only | |
| `DatalinkMedium` | Are collisions noticed, is the medium released, do buffers drain, although messages are lost? | two nodes, inbox of four bytes |
| `DatalinkFrames` | refutes `SendsAnnouncedFrame` | |
| `NetworkNode` | With frames refused, lost and delayed: does the list of reachable nodes tell who was heard lately, and are handlers called where a packet was sent to, with what its header said? | three nodes in a line, five headers of four types with 0 to 2 hops, timeout and period of one tick, addresses that differ in the order of their bytes |
| `Transport` | Whatever segments arrive: does reassembly write within its buffer, and count no further than it waits for? | two senders, three messages, IDs below 3 and lengths below 4 |
| `TransportDelivery` | refutes `CompleteIsPublished` | two messages |
| `Sx1280Direct` | In every order of calls and chip events, in the middle of `pull` too: are settings never lost, is the loaded frame the one sent, does one outcome wait for `pull` at most, and what does it count? | two frames of different lengths, three framings, single and continuous RX, one stray call |

Bounds of the V2 runs. The datalink has two transmit slots, so two frames in
rotation fill it and a third call finds it full; a client never sends a frame
that is still in a slot (that lets the properties tell frames apart, and the code
does not look at the bytes). A timeout of 0 is "expired after one tick": the
action order, not the number of ticks, decides every comparison, and ages
saturate, so larger timeouts add only stuttering. `Delays` and
`TxPrepareLeadTime` are chosen so that a scheduled frame is first not due
(the delay is at least the lead time) and becomes due later. Two channels are enough to
be on the wrong one. The packet memory counts reads of either kind up to two, one
more than allowed. The gate may be shut again in `Sx1280V2Safety` and
`Sx1280V2BadCrc` alone; the theorems about the properties of `Sx1280V2Reception`
cover that too (`Toggles`). `Sx1280V2Safety` is not about packets or their history, and
its view (`MCQueueView`) leaves them out.

Bounds of the Datalink runs. Two nodes make every conflict pairwise; the other
node is whoever wins. An inbox of four bytes holds a BLOCK and a DATA with one
byte, so that a FREE, or the BLOCK of the next transmission, finds it full if
the reader is slow: this is the loss of a 1024-byte inbox with a slow reader. One
buffered frame makes the transmit buffer empty between BLOCK and DATA, and a
second DATA without a FREE finds the receive buffer full, so that the reception
that never ends is reached. `DatalinkFrames` has room for two frames of
different contents.

Bounds of the NetworkNode runs. Three nodes in a line give one node two
datalinks and two entries in its list, of which either can be in front when both
expire. With a timeout of one tick and a period of one tick an entry can expire
at once, be refreshed in its last tick, or be removed one period late. One frame
under way for each receiver can be as old as one likes. The addresses 1 and 256
are each other's bytes swapped, and 257 is neither. The node in the middle sends to one
neighbour and the other gets the packet too; an end of the line sends to the other end, so
that the node in the middle gets what is not for it; packets are broadcast, sent to
oneself, sent with no hop left, and one client sends heartbeats.

Bounds of the polled run. The client's data are one byte, and three, the longest whose
length can be told in a buffer of four (255 in the code). With its header of two
bytes the longer one is more than the buffer holds, and its length wraps to one: the
written bytes go round and over the first ones. The addresses 0 and 1
are the one every transmit operation writes at and one that is not. The two LoRa
setups count symbols by different formulas, without a header so that
`LongerTakesLonger` compares both kinds, for lengths up to 16 on both sides of
the eighth symbol; FLRC makes the remembered packet type matter.

Bounds of the Transport runs. A segment of two bytes and lengths of 1, 3 and 4
give a message of one segment, one of two, and one whose length does not fit its
field (4 is 2^16); the ID, of 2^8 values in the code, has three, so that it wraps
and meets the other sender's and the receiver's initial 0; the counters wrap
after four segments of a finished message. Three messages make a short one follow
a long one of the same ID after one of another.

Bounds of the Direct run. Frames of lengths 1 and 2 and fixed lengths 1 and 2 make
frames too long, too short and right for each framing. Two values of frequency and
modulation are enough to be at a wrong one, and interchangeable (symmetry). A timeout of
1 is single RX with a timeout, one above the maximum is clamped to continuous RX; a
negative one is clamped to single RX without a timeout, which can do nothing that
the timed one cannot. One stray call at any place shows what a client's slip does to the rest.

Deadlock is checked in every run but `Sx128xPolled`: time can always pass, a
segment can always come again, and clients can always call. The driver really may
stop: a wait on DIO1 has no limit, and a chip that hangs never raises it.

## 4. Fairness

`Sx1280V2!Fairness` is weak fairness of the task, the scheduler's promise that a
task that is due runs, and of time. Nothing is assumed of clients, of the chip
(a transmission may never report its end, a packet never complete, it may hang) or of
DIO1 edges: the properties hold through the code's own timers alone. In the
liveness run the gate stays open and packets do not fade. Both matter, see
section 7.

`Datalink!Fairness` is weak fairness of each node's task and of time. Clients
may send for ever or not at all.

`Sx128xPolled!Fairness` is weak fairness of the driver's returns (its loops run on
their own), and of the two timers that end the chip's work: that of a transmission,
and that of a reception with a timeout. No packet need come, and no client call.

`NetworkNode`, `Transport` and `Sx1280Direct` state safety only and assume no fairness.

## 5. Properties

`QueueSpec` is the refinement: the two slots, read in order, implement `TxQueue`
with capacity two, and what the chip's buffer holds during a transmission (`OnAir`)
is the head. It covers overwriting, overtaking and repeating frames from any
callback. A frame can be lost in the code: a reset empties the chip's buffer while
`sxTx` still stands for the frame. `TxQueue` allows that in one step, `Lose`, and says
when: after the time without a packet after which `fullReconfigure` is due, but not
during a transmission, or together with a reset by `checkBusy`. A lost frame is not taken for sent:
nothing is on the air in its turn. `NoFrameStranded` is
the reason `taskCheck` may ignore `txBuffer`: a waiting frame always has a
prepared frame, a reception or a first run ahead of it. `ReceivingIsPolled` is
the reason there may be no timer for `Receiving`. `RequestsSettled` shows that a
branch of `updateIdleRxState` is dead. `TransmissionNotAborted`,
`DeliveredOnce` and `DeliveredIntact` are about a chip that acts between the read of
its register and the commands of the same run. The code has a stale TX_DONE end the next
transmission, and reads out a packet whose RX_DONE it has not seen; the properties
say exactly when, and that there is no other case. A transmission is cut short
by a reset, by the software timeout, or by the IRQ of the transmission before it
that came in the run which had given that one up (`lateEnd`). A packet is delivered once
for its own RX_DONE, and then it passed its CRC; before that it may be delivered once
in the place of another, whatever its CRC. `NoBadPacket`, the comment in the
code, says none of that, and is refuted.
`ChannelTracked` and `TxOnSelectedChannel` hold of a chip that `checkBusy` did not reset
since its setup: after that the datalink takes the chip for set up, and it is not.

`ConflictEnds` says that of two nodes that both transmit one will read a BLOCK or
DATA of the other; no node needs both. It holds as long as BLOCKs are not refused by
a full inbox, which two nodes alone do not bring about (section 6).
`StuckReceiverIsBlocked` describes the one state a reception can be left in, and
`MediumReleased` and `BufferDrains` say that short of that state, and of an inbox that overflows, everything moves.

`ReachabilityIsCurrent` bounds `isNodeReachable` from both sides, by the silence
of the other node; a list walked wrongly while entries are removed breaks it.
`EntriesTellSilence` is why the search in `receivePacket` may stop at the first
entry. `CalledAsAddressed` follows a packet from the arguments of `sendPacket`
through its bytes to the arguments of the handlers: no node is called with a
packet for another or with a heartbeat of another, and type, destination, source and hops are those
its sender gave, with one hop less. It is about headers; no payload gets through (section 7).
`WritesInBounds` relates every segment that may arrive next to the size the
buffer has kept from earlier messages. `StillWaiting` is why comparing the count
with `==` is enough.

`SentAsGiven` and `ReceivedAsHeard` relate what the chip sends and what clients get to
what was given and heard, after any other operations; their conditions on base
addresses, resets and lengths that wrap are where the code does otherwise (section 7).
`AnswerTellsOutcome` relates a return value to the fate of the transmission.
`SavedIsInChip` is what `config`, the air-time functions and the choice of a length
register rely on. `WaitsEnd` breaks if a loop waits for a bit that is not routed or
not raised in some outcome. `LongerTakesLonger` compares the formulas where
they meet, in the settings the driver remembers.

`OneOutcome` is why `pull` may return at the first outcome it finds, and
`TransmissionTracked` why a client may wait for a transmission by calling it.
`StagedOrApplied` and `LoadedIsInChip` relate the members, the flags that say they
changed, and the chip, through every order of setters, pushes and operations.
`CountedOnce` says what the two counts count, when packets complete in the middle of `pull`.
All but `OneOutcome` and `CountedOnce` except a chip that `checkBusy` reset and no
one configured since (`setUp`).

## 6. Proofs

TLC checks the properties on the instances of section 3; the theorems hold for every
value of the constants that the named assumptions of the modules allow: any number of
nodes, datalinks, frames, messages and channels, any buffer sizes, lengths and
timeouts. The assumptions say of which kind the constants are and that model
values differ; `SetupsAssumption` of `Sx128xPolled` adds that the settings a
client passes are those the driver's functions accept.

Every property of section 5 that is an invariant, an action property or the
refinement is the subject of a theorem:

| Module | Theorem | Property |
|---|---|---|
| `Sx1280V2Proofs` | `TypeCorrect` | `TypeOK` |
| | `ChipFollows` | `ChipFollowsState` |
| | `RequestsAreSettled` | `RequestsSettled` |
| | `ReceivingPolled` | `ReceivingIsPolled` |
| | `NoFrameIsStranded` | `NoFrameStranded` |
| | `ImplementsQueue` | `QueueSpec`, the refinement of `TxQueue` |
| `Sx1280V2RadioProofs` | `ChannelIsTracked` | `ChannelTracked` |
| | `StartsOnSelectedChannel` | `TxOnSelectedChannel` |
| | `OnlyTimeoutAborts` | `TransmissionNotAborted` |
| | `PacketsAreDeliveredOnce` | `DeliveredOnce` |
| | `NoBadPacketDelivered` | `DeliveredIntact` |
| `Sx1280DirectProofs` | `TypeCorrect` | `TypeOK` |
| | `SettingsAreApplied` | `StagedOrApplied` |
| | `LoadedFrameIsInChip` | `LoadedIsInChip` |
| | `TransmissionIsTracked` | `TransmissionTracked` |
| | `OneOutcomeWaits` | `OneOutcome` |
| | `CountsAreRight` | `CountedOnce` |
| `DatalinkProofs` | `TypeCorrect` | `TypeOK` |
| | `BlockedNodesAreSilent` | `SilentWhileBlocked` |
| | `UnfinishedReceptionIsStuck` | `StuckReceiverIsBlocked` |
| | `ConflictsEnd` | `ConflictEnds`, if `BlocksFit` |
| | `TwoNodesEndConflicts` | `ConflictEnds`, of two nodes alone |
| `NetworkNodeProofs` | `TypeCorrect` | `TypeOK` |
| | `EntriesAreCurrent` | `EntriesTellSilence` |
| | `ReachabilityIsRight` | `ReachabilityIsCurrent` |
| | `CallsAreAddressed` | `CalledAsAddressed` |
| `TransportProofs` | `TypeCorrect` | `TypeOK` |
| | `NoWriteOutOfBounds` | `WritesInBounds` |
| | `CountStaysBelow` | `StillWaiting` |
| `Sx128xPolledProofs` | `TypeCorrect` | `TypeOK` |
| | `SavedSettingsAreRight` | `SavedIsInChip` |
| | `ClientsBytesAreSent` | `SentAsGiven` |
| | `AnswersAreRight` | `AnswerTellsOutcome` |
| | `ReceptionsAreRight` | `ReceivedAsHeard` |
| | `AirTimesAreOrdered` | `LongerTakesLonger` |

Six more are stated by no run. Two are about operators, for every input:
`HeaderRoundTrip` (what `addHeader` writes `fromPacket` reads, whatever the header and
the payload) and `AirTimeGrows` (the air time grows with the length, in every
modulation, although its formula changes at the eighth symbol). Four settle what
the code does otherwise than its comments say (section 7): `ChecksumIsNeverAccepted`,
`TaskSendsNoHeartbeat`, `PayloadsAreLost`, and `NothingIsDelivered` of `Transport`.

### The hypothesis

One theorem has one. All others hold of the specification as it is; those about V2
hold for every environment: with `MidRun` and without, whether or not clients shut the
gate and packets fade.

`BlocksFit` says that whoever starts to transmit finds room for a BLOCK in the other
inboxes; the theorem is `Spec /\ [][BlocksFit]_vars => []ConflictEnds`. The invariant
`ConflictEnds` is about a message in an inbox, so it cannot survive that this
message is refused. With three nodes and inboxes of three bytes TLC finds that it is:
the third node fills both inboxes with FREEs, and the two that then start hear
nothing of each other. In the code the inbox has 1024 bytes. Two nodes alone need no
such condition, as `TwoNodesEndConflicts` shows.

### The invariants

*Sx1280V2.* The properties are not inductive one by one. The invariant `IInv` says of the radio
(`Sound`) that it has its types, that an RX request is never pending in
`IdleReceive`, that `Receiving` keeps the preamble flag, that `Transmitting` has a
frame, that the chip transmits or listens only in the states that say so, and
that nothing waits in `txBuffer` behind an empty `sxTx` except in `Sleep`,
`Receiving` and before the first run. `NoFrameStranded` needs the last two
together: `LeaveTransmit` empties `sxTx` and must refill it from `txBuffer`.
Because the state functions are operators on the record, most lemmas say "from a
sound radio this function leaves a sound radio"; those on the `...Outcomes` sets
cover the callbacks; and a run of the task needs the stronger `Settled`, which
holds wherever `taskThread` ends. The action lemmas then follow one per action.

The refinement sorts the state functions and client calls, with every outcome of their
callbacks, into three: those that only take frames in or start one (`Takes`), the
end of a transmission, in which a handler may send one more and the next may start
(`Gives`), and a reset (`Loses`, by `fullReconfigure`; `HangSteps`, by `checkBusy`). Each maps to
steps of `TxQueue`, and there is one lemma for the task, one for clients and one for the
chip and time. That the frame on the air is the head rests on `Holds`: the chip has
the prepared frame, or none.

`Sx1280V2RadioProofs` adds to `IInv` what each property needs. `Tuned` is `ChannelTracked`,
stated for `Sleep` and a reset chip too, which makes it inductive. `EndIsKnown`: an IRQ
or flag that would end a transmission is there only while one is on that the chip has ended, or
`lateEnd` tells of it. `PacketInv` follows the packet in the chip's memory by its RX_DONE:
still in the register, with its CRC error and not read out for it (`Unfetched`), or
fetched, and then among the flags, with its CRC error, or looked at (`Fetched`). A packet
that was read out early finds no other RX_DONE among the flags, which is why that happens once.

*Sx1280Direct.* `StagingInv` relates members, marks and registers: a setting is marked
or in the chip; only a frame is staged or loaded; for a client in order, nothing
is loaded before the framing is in the chip. `OutcomeInv` says that `startRx` and
`startTx` leave no flag, that a chip that goes on listening is in continuous RX, and
(`PacketOK`) what the IRQs tell of the packet in the chip's memory, in the middle of `pull` too.

*Datalink.* The invariant is one per node (`NodeOK`), about its members and its inbox,
since nodes share nothing else: sizes, that no DATA is empty, that a blocked node does
not transmit, and that a reception a run leaves unfinished is stuck. The bytes in
an inbox are a fold of the community modules, and the first part of the module proves what a fold over an
appended or shortened sequence is. For two nodes `TwoInv` adds that a run reads a
message if there is one and writes one at most, so that both inboxes together never
hold more messages than one has bytes. An inbox full of FREEs leaves none for the
other, so a FREE that fills the inbox of a node that transmits was the answer to the last
message of its sender's inbox, and one of the two was about to be stopped.

*NetworkNode.* `NodesOK` says of each list that its entries are as old as the silence
of their nodes, that every node heard within the timeout has one, and that none
has outlived the timeout by more than the time since the task ran; `Update` and
`Expire` keep it. `AirOK` says
of every frame that it is the header of a packet that its sender was asked to send;
with `HeaderRoundTrip` the properties of calls follow from it.

*Transport.* `Room` (the buffer is at least as long as the segments are cut to) and
`HasLength` (a reception has one) make `WritesInBounds` and `StillWaiting` inductive.

*Sx128xPolled.* `ChipOK` holds of the registers against the saved settings,
`TransmitOK` and `ReceiveOK` of an operation under way: what the buffer holds from
the base address on while it waits, which its start must leave there and no chip
event may change.

`SetInduction` has induction over the natural numbers for sets, from the fact of the
library that `<` is well-founded. The library's own induction theorems take
an operator as a parameter, which the provers here cannot instantiate; a set does not. The
facts about folds in `DatalinkProofs` and about the recursive `Expire` in
`NetworkNodeProofs` rest on it.

### Only model-checked

The six liveness properties: `EveryFrameLeaves`, `ReceivingEnds`, `RxDoneNoticed`,
`MediumReleased`, `BufferDrains` and `WaitsEnd`. Fairness is stated with ENABLED,
which is out of the prover's reach. The four refuted claims are TLC's counterexamples.

## 7. Disagreements between code and comments

Four are runs with `"expect": "violation"` and findings in `PROJECT.json`: a
packet with a bad CRC delivered from flags left over when the gate is shut, a frame
that is accepted although the time it is given on the air is too short for it, a
Datalink that sends another frame than it announced, and a message that is received
whole and not published. The others were met in the same way (a property
stating the comment, refuted by TLC) or while reading, and are not kept as runs:

SX1280 datalink V2
- `RadioI.hpp:24`: a transmit-finished handler that calls `setStartReceive(true)`
  enters RX at once, and the `startIdle()` at `Sx1280_2.cpp:815` ends it.
- `Sx1280_2.cpp:175` "leave rxStartedFlag = true so the state machine enters RX once
  the current operation finishes": a reception that fails resets the flag (line 761),
  and a request made during it is forgotten.
- `Sx1280_2.cpp:79`: a frame of length 0 is accepted and silently forgotten.
- `Sx1280_2.hpp`, setFixedPacketLength "including the 1-byte length prefix": in
  Limited mode `Sx1280_2.cpp:515` adds the prefix to the length.
- `Sx1280_2.hpp:29` "on TX_DONE the radio goes straight back to continuous RX": it
  goes to Idle unless RX was asked for during the transmission.
- `RadioI.hpp:34`: the gate is sampled at the preamble (line 667), so a packet
  that completes after the gate was shut is dispatched.
- `Sx1280_2.hpp:118`: a frame accepted before the gate was shut is transmitted
  after it (line 460).
- `Sx1280_2.cpp:793`: a TX_DONE that comes in the run whose timeout ended the
  transmission stays latched (line 474) and ends the next one (`lateEnd` in
  `TransmissionNotAborted`).
- `Sx1280_2.cpp:749` "accept the packet as long as there's no CRC error": a packet that
  completes after the flags of another were fetched is read out in the same run, in
  that one's place and whatever its own CRC, and again in the next for its own RX_DONE if
  that was good (`early` in `DeliveredOnce`). `Sx1280V2BadCrc` shows another way to it.
- `Sx1280_2.hpp:219`: `fullReconfigure` (line 876) resets the chip with a prepared
  frame in its buffer, as `checkBusy` does with a busy one; what `startTx` sends later is
  not that frame (`Lose` in `TxQueue`).
- After a reset by `checkBusy` nothing sets the chip up again until `fullReconfigure`, which
  comes only in IdleReceive: a datalink that just sends goes on with an unconfigured chip.
- `Sx1280_2.hpp:31`: restarting RX (line 853) does not apply a new channel.
- `Sx1280_2.cpp:640`: loading a scheduled frame (line 84) puts the chip in
  standby while the state says IdleReceive; the radio is deaf until the frame is
  sent or the safety timer expires.
- `Sx1280_2.cpp:347`: every preamble restarts the receive timeout (line 402), so
  packets that keep fading hold the radio in Receiving; `ReceivingEnds` is
  checked without fading packets.
- A client that keeps asking for RX while the gate is shut keeps a waiting frame
  from leaving; `EveryFrameLeaves` is checked with the gate open.

SX128XLT driver
- `SX128XLT.cpp:174-190` resets a chip that stays busy for 20 ms behind the
  caller's back. In a wait this turns a transmission that timed out into one that
  was sent: the IRQ register that would tell is read after the reset (lines 887 and
  928). `AnswerTellsOutcome` is about chips that were not reset.
- `SX128XLT.cpp:1442`: the length of an addressed packet is a byte. A payload of 253 bytes
  or more wraps it: all is written, of 254 and 255 the last bytes over the first, and what
  is left of the length is sent (`Fits` in `SentAsGiven`).
- `SX128XLT.cpp:356` cannot succeed on a register that reads 0xFF.
- `SX128XLT.cpp:1906`, `:1999`: the SXBuffer operations move a base address and leave
  it there. A later `transmit` writes at address 0 and sends from the other, and a
  later `receive` stores from `&rxbuffer[RXstart]` on, past the end of the buffer
  that line 1071 "check passed buffer is big enough for packet" has just compared.
- `transmitSXBuffer` answers `_TXPacketL`, what the last write left, and not the
  length it was given.
- `SX128XLT.h` gives 4 * (SF - 2) for the denominator of the air-time formula; the
  code has 4 * SF up to a spreading factor of 10.
- After a transmission that was not waited for the antenna switch stays in TX
  until the next `setMode` (line 416) or reception.
- `writeBuffer` of size 0 writes 255 bytes (line 1969), `readBuffer` reads until it
  finds a null byte (line 2067).

Datalink
- `Datalink.cpp:73` "Listen for an extra second": the timestamp is set one second
  into the past, and the medium counts as released in the first run.
- `Datalink.hpp` "How long to wait until auto releasing": a reception longer than
  the free frame slots (at most five) resets the timeout in every run and is never
  released (`StuckReceiverIsBlocked`).
- `DatalinkI.hpp:27` "packets over this size will be dropped": `getMaxPacketSize`
  is the smaller of the maximum frame length and the number of free slots, and
  longer frames are accepted.
- `Datalink.cpp:13-14` "only one node can send at a time": two nodes that both see
  a free medium both send until one reads the other's BLOCK; the frame of the one
  that stops is lost.

SX1280 Direct
- `Sx1280_Direct.hpp:57-58` "push() applies staged changes while putting the radio
  into standby": `pull` leaves the state Idle after a reception in continuous mode
  (line 228), in which the chip goes on listening; `push` with nothing staged then
  returns at line 167.
- A packet that completes in continuous RX after `pull` fetched the IRQs (`Sx1280_Direct.cpp:208`)
  is read out in the place of the one announced (line 221), whatever its CRC, and
  counted again in the next `pull` for its own RX_DONE if it is good (`CountedOnce`).
- A chip that `checkBusy` resets during a transmission raises no IRQ: `pull` finds nothing, and
  the state is Transmitting until the client configures, pushes or starts something else.
- `Sx1280_Direct.hpp:131` "Returns true after configureRadio() has been called
  successfully": also after `push`, `startRx` or `pull` alone have left Sleep.
- `applyPacketParams` sets the payload length of explicit headers to 255 and leaves
  `txPacketLoaded`: after a second `configureRadio`, or a framing changed and changed
  back, `startTx` sends 255 bytes. This is why `LoadedIsInChip` is about clients that
  keep the header's order.
- `setTxPower` and `setTxMaxPower` reach the chip only with the next packet prepared,
  and a loaded one is sent with the power of its preparation.
- `getCurrentChannel` is not updated by `setFrequency`.

Network and transport
- `NetworkHeader.hpp:18-19`, `NetworkNode.hpp:34-35`: the task's heartbeats have no payload
  and `sendPacket` drops packets without one (`NetworkNode.cpp:74`), so none is sent
  (`TaskSendsNoHeartbeat`); `sinceSend` is reset all the same. A client that calls
  `sendPacket` with a heartbeat and a payload does send one.
- `transmitDataframe` may refuse a packet on every datalink, and `lastSend_` is set
  (`NetworkNode.cpp:96`): the node puts off its next heartbeat and is forgotten. The list
  of its neighbours is right about the silence, so `ReachabilityIsCurrent` holds.
- `NetworkI.hpp:48` "Publish a network packet to be sent to the destination":
  `sendPacket` puts the header into a new, empty DataPacket (line 92) and sends that;
  the payload is never appended, and other nodes' handlers get an empty one. `Packet`
  in the model is the header alone; no payload arrives (`PayloadsAreLost`).
- `NetworkHeader.hpp:40` "Used to verify the integrity of the packet": `NetworkI.cpp:41`
  adds the version once more instead of taking it off, so no header passes
  (`ChecksumIsNeverAccepted`), and `fromPacket` ignores the answer, so every header does
  (`Deserialize`, `FromPacket`).
- Segments are counted, not identified (`TransportCallback.cpp:210`), and a data segment may be
  taken for an info segment (line 166): the wrong things are counted, within their bounds.
  A repeated info segment is taken for data, and read beyond its end (line 208); the model
  has writes only.
- Data segments are placed one segment too far (`TransportCallback.cpp:206`), since
  their order starts at 1: `Written`. The last one is not written at all.
- Once a message is finished, its ID stays in `rcvID_` and the counters are 0:
  after as many more segments of that ID as a 16-bit counter holds, the count meets
  the 0 it waits for, and an empty message is published.

## 8. Not modelled

`TransportTopic` calls functions that `TransportCallback` does not have and
`TransportHeader` has no definitions. Half of the vendored driver (lines 2261 to
4930: ranging, reliable acknowledgements, CRC helpers) is compiled out. Of the rest,
the antenna switch pins, the typed read and write functions (their effect, bytes in
the buffer and a count, is `WriteSXBuffer` and `ReadSXBuffer`), channel activity
detection, signal metrics and printing are left out; a transfer over SPI is one step.
Under the datalinks so are the commands of one handler, in V2 of `TaskUpdate`, in `Sx1280Direct` of each call or half of `pull`: an IRQ
between the clear and the TX command of `setTx`, a packet that completes while one is read,
and a reset between two of those commands are left out.
In `Sx1280Direct` the transmit power and a client's own `fetchIrqFlags` (the first
half of `pull`) are left out, in `NetworkNode` the calls that build a node before
traffic starts. ExVectrCore and ExVectrHAL (scheduler, topics, lists, pins) are
external and modelled by how this code uses them. The two halves of the chip's data
buffer are taken to be separate: a foreign packet of more than 128 bytes would run
into a prepared frame.

## 9. Plan

1. The chip between two commands of one handler of the datalinks, as `Sx128xPolled` has it
   for those of the driver: a reset between them, an IRQ after `setTx` cleared the register.
2. `Sx1280Direct`'s transmit power, in signed bytes, against the limits set, and
   `fetchIrqFlags` as a call of its own; damage on the datalinks of `NetworkNode`,
   once the checksum of the header is looked at.
