# Formal models of the CC5X debug probe firmware

TLA+ models, TLC configurations and TLAPS proofs for the probe firmware in
`src/firmware/probe-f042`: an STM32F042 that timestamps the serial output of a
target microcontroller and relays it to a PC, over an ST-LINK UART (P5a) or its
own USB-CDC device (P5b). Paths below are relative to that directory unless they
start with `src/01-…` and the like.

## 1. The system

| Component | State | Operations |
|---|---|---|
| Target RX interrupt, `board_f042.c:168-228` | none of its own (the RX data register, TIM2) | `USART1_IRQHandler`: timestamp, note a line error, hand the byte over |
| Relay core, `relay.c` | byte ring `s_data`/`s_head`/`s_tail`, mark ring `s_marks`/`s_mhead`/`s_mtail`, stamps `s_last_ts`, `s_cur_ts`, counters `s_dropped`, `s_reported`, `s_seq` | `relay_target_rx`, `relay_note_dropped` (interrupt); `relay_poll`, `emit` (main loop); `relay_init` |
| PC transmit FIFO, `bytefifo.h` | `buf`, `head`, `tail` | init, count, free, push_all, pop, clear |
| VCP transport and main loop, `board_f042.c:173-195`, `main.c` | `s_tx`, USART2 TDR | `board_pc_write`, `board_pc_poll`, `main` |
| USB bulk path, `usb_cdc.c` | `s_tx`, `s_tx_busy`, `s_configured`, EP1R, packet memory | `usb_cdc_write`, `usb_cdc_poll` (main loop); `apply_config`, `ep1_handler`, `usb_reset` (USB interrupt) |
| USB control transfers, `usb_cdc.c:190-475` | `s_ep0_*`, pending address, line coding, EP0R, DADDR | `usb_cdc_init`; `handle_setup`, `ep0_handler`, `usb_reset`, `usb_cdc_irq` |
| Control request resolver, `usb_ctrl.c` | none | `usb_ctrl_resolve`: SETUP packet to answer |
| Descriptors, `usb_desc.c` | none, tables | `usb_desc_string` |
| Capture decoder, `tools/relay_decode.py` | `_buf`, `_in`, `_esc`, `_bad` | `Deframer.feed` |
| Board bring-up, `board_f042.c:50-162`, `main.c` | clocks, pins, timer, USART and interrupt enables | `board_init` and what it calls |
| Pin map, build files, host tests, design documents | | |

How they interact. The RX interrupt writes the rings and the main loop reads
them, without locks: each index has one writer. `relay_poll` hands whole frames
to a sink (`board_pc_write` or `usb_cdc_write`) that takes all of a frame or
none; a refused frame stays in the ring. The sinks share nothing with the RX
interrupt. On USB, the main loop and the USB interrupt share the FIFO, the busy
flag and EP1R; the main loop masks that interrupt, but never the peripheral.

What is hard here, and what makes it correct:

- *Two writers' indices, wrapping, read at different moments.* Neither ring may
  overflow, a frame must hold the bytes of one burst, and the stamp of its first
  byte; bytes stored after `relay_poll` counted must not slip into what it
  decided before.
- *Losses.* A byte may be lost on the line, for want of room in the ring, or
  lose its burst boundary; the host must learn of each loss, and of a hole
  before the bytes behind it.
- *Refusals and liveness.* STATUS frames compete with data for the FIFO.
- *The endpoint register.* EP1R is shared with hardware and written by toggling;
  completions, the busy flag and data toggles outlive resets and
  reconfigurations in different ways; acknowledgements get lost; a write of one
  direction's bits can swallow a completion of the other.
- *Flushes behind the relay's back.* A reset or a deconfiguration empties the
  queue, STATUS frames included, after the relay has counted them as delivered.
- *Coming up.* The target and the host may be there first.
- *Control transfers.* Any order of requests, cut off at any point by another
  request or by a reset, must leave host and device in agreement.

The full list, line by line, is `hazards` in `PROJECT.json`.

## 2. Modules

| Module | Models | Notes |
|---|---|---|
| `Relay` | `relay.c` with the RX interrupt | One interrupt is one action (it runs to completion). `relay_poll` is cut at each access to what the interrupt also touches; `pc` names the point. Frames are records; `Slip` has their encoding |
| `RelayStream`, `BurstStream` | the promise of `relay.h:24-32` | `BurstStream` has bursts, a clock and a loss counter, no rings; `RelayStream` maps ring, marks and locals onto it, with the true idle time as a history variable |
| `RelayReports` | order and completeness of loss reports | `Relay` with the losses not yet reported as a history variable; reported means that the sink has taken a STATUS that counts the loss |
| `RelayUsb` | the probe on its USB path | `RelayReports` composed with the queue of frames and a host that opens and closes the port. The queue is the pipe that `UsbTx` implements, here frame by frame |
| `RelayVcp` | the probe on its UART path, from power-up | `relay_init` and `board_init` call by call, then `Relay` composed with the FIFO, `board_pc_poll`, `main`; the FIFO as its fill level |
| `ByteFifo`, `BoundedQueue` | `bytefifo.h`; the abstract queue | a push is one step per byte |
| `UsbTx`, `FramePipe` | EP1 of `usb_cdc.c`, EP1R and a host; the abstract pipe | STAT_TX is the set of its bits, because writes toggle; the main loop reads EP1R in one step and writes it in another, the CTR bits of both directions included. What the host sends is discarded, as in the code |
| `UsbDesc` | `usb_desc.c` | the tables with the fields requests depend on; a string is its length |
| `UsbCtrl` | `usb_ctrl.c` | an operator on decoded SETUP packets; data is a name and a length |
| `UsbEp0` | EP0 of `usb_cdc.c` from `usb_cdc_init` on, EP0R and a host | packets say which part of which data they are |
| `Slip` | `emit` on the wire, a line, and the `Deframer` | real bytes and the real CRC, with exclusive or as a table that is a constant (`MCSlip` computes it); the line carries symbols, the one or two bytes that stuffing makes of one, and may lose, change or add bytes |
| `RelayProofs`, `RelayRefinementProofs`, `RelayUsbProofs`, `ByteFifoProofs`, `UsbTxProofs`, `UsbEp0Proofs`, `SlipProofs`, `ArithmeticFacts` | proofs | `RelayRefinementProofs` has those about `RelayStream` and `RelayVcp`, `RelayUsbProofs` those about `RelayReports` too |
| `MC*` | instances for TLC | |

Names of variables and operations are the source's: `s_head`, `s_tx_busy`,
`ep0_in_continue` → `Continue`, and so on; every definition's lines are under
`map` in `PROJECT.json`. Widths are constants (`IdxMod`, `TsMod`, `DropMod`,
`SeqNumMod` stand for 2^32, 2^32, 2^32 and 2^8) and arithmetic wraps at them.
Definitions marked *Fault* are plausible bugs of the definition that follows
them. No specification uses them; they serve to see that each property notices.

The hardware is modelled from how the code relies on it: a bus reset clears the
endpoint registers except CTR bits and leaves the software to find out; SETUP is
always taken and sets both directions to NAK; an IN packet is sent once STAT_TX
is VALID and sets CTR_TX when acknowledged; writing STAT bits toggles them.

## 3. Runs

| Run | Question | Bounds |
|---|---|---|
| `relay` | Do the rings, marks and the frame under construction stay consistent under every interleaving? | 3 slots, 2 marks, chunk 2; indices wrap after 6, stamps and counters after 2 |
| `relay_stream` | Are bytes handed on as the burst stream promises, each frame from one burst, with its stamp? | 2 byte values, 2 slots, 1 mark, gap 1, stamps wrap after 4, idleness up to 3 |
| `relay_idle` | …also after a pause of a whole turn of the timestamp counter? *Violated* | the same, pauses of 4 between two interrupts |
| `relay_usb` | Is every loss reported, a ring overflow before the bytes behind it; what can the host tell of frames and losses when the queue is flushed at any moment, and does it learn of them? | 2 slots, 1 mark, counter wraps after 4, SEQ after 3; queue of 3 units and 1 in flight, STATUS 1, DATA 2; one burst |
| `relay_vcp` | Is the board ready when the first byte comes? Do reports and data get through the UART for ever? | FIFO of 4 units, STATUS 1, DATA 2 + bytes |
| `fifo` | Is the ring an all-or-nothing queue? | 4 slots, pushes of 1 to 4 bytes |
| `usb` | Is bulk IN a frame pipe, and does neither direction stick? | 2 frames (one fills a packet, one does not), FIFO of 6, packets of 2 |
| `usb_reconfigure` | Does every session start with a frame? *Violated* | the same |
| `usb_clear_halt` | Is a packet that counts as delivered always taken? *Violated* | the same |
| `ep0` | Is every control transfer answered in full or refused, as the descriptors promise, does it end, and do both sides agree afterwards? | from power-up; packets of 8; about 200 requests, legal and not; 4 of them after giving up another, SET_CONFIGURATION among them; bus reset anywhere |
| `ep0_stale` | …also when a SETUP arrives before the last completion is served? *Violated* | the same, no transfer given up |
| `slip` | Does the capture tool decode what was sent, and only that, from a stream joined anywhere and damaged once? | 3 frames of 4 payloads (a FLAG or ESC as stamp, data or CRC), one of 6 bytes of noise |

Why small bounds are enough. A step of the relay touches one slot, one mark and
the distance of two indices, so full, empty, one free, wrapped, and two bursts
waiting are the cases that differ; they all occur with 2 or 3 slots. The indices
wrap after twice the ring size, the tightest width the code's `#error` checks
admit for its signed comparison. The proofs below remove the bounds for every
safety property and refinement; only liveness rests on them. For USB the cases are
a frame of one packet, a frame over two, a full FIFO and a packet that mixes two
frames. On EP0 they are a last
packet that is short, full with everything asked for, and full with less (the
terminating packet): the descriptors of 18 and 16 bytes read at six lengths
give all three. A model of a SETUP packet keeps its decoded fields; values
outside the ones enumerated fall in the same branches. On the wire, payloads have
at most two bytes of data, so that what follows a FLAG put into a frame is too
short to pass for one. Such a FLAG damages the frame (`hurt`) like any other byte;
only one next to the first flag, before TYPE, does not: an empty frame comes
before the whole one. Beyond two bytes of data, with more than one byte of damage,
and when damage moves LEN (`shifted`: a byte lost, added or made an escape before
it, or one in place of the first flag), only the CRC stands between damage and a
false frame, and one in 256 passes it.

In `relay_usb` the queue holds one frame of each kind, or three STATUS frames, or
none more: every order of the two kinds, and a refusal of a DATA frame where a
STATUS still fits. One unit may have left `s_tx` for the packet memory, which
makes room the queue does not show. With one burst only no mark is lost there;
`LossPending` and the order of reports are proved for any number.

Three bounds appear in guards: `FewUnreported` (fewer than a full turn of the
drop counter between two reports; over an hour of unbroken losses in the code),
`FewUnknown` (the same between two reports that reach the host) and `MaxIdle`.
`writes` in `UsbTx` bounds the frames written between two polls.

What the runs show beyond "no error":

- *relay_usb.* The host's gaps in SEQ are exactly the frames a flush dropped
  (`SeqGapIsLoss`), and the counts it reads are never ahead of the probe nor out
  of order (`HostKnows`), so each STATUS makes up for those before it. But a STATUS
  dropped by a flush is not repeated: `relay_poll` takes it for delivered, and
  until the next loss the host does not know. `relay.h:30-32` says losses are
  "never silently lossy"; both properties name that case (`statusLost`).
- *relay_vcp.* A byte that arrives between `usart_init` and the enabling of the
  interrupt waits in USART1, or is overrun there, and is then stamped with the
  time it is read; the timer, rings and FIFO are up by then, which holds for this
  order of calls and not for every other (`BytesMeetReadyBoard`).
- *ep0, `DescriptorsHonoured`.* Whatever request the descriptors entitle a host to
  is granted, what they do not declare is refused, and the configuration
  descriptor parses: two tables kept by hand agree.
- *relay_idle.* The gap test (`relay.c:84`) is a difference of 32-bit stamps. The
  trace is the plain one: a byte, a pause of one turn, a byte. A pause within RELAY_GAP_US of a multiple of 2^32 µs (71.6 minutes) looks short,
  and the next byte goes out under the old burst's stamp.
- *usb_reconfigure.* SET_CONFIGURATION(1) on a configured device drops the packet
  in flight but keeps the queue (`usb_cdc.c:254-280`), so the new session starts
  inside a frame.
- *usb_clear_halt.* CLEAR_FEATURE(ENDPOINT_HALT) is acknowledged and does
  nothing; the host restarts at DATA0 and discards the next packet if the device
  is at DATA1.
- *ep0_stale.* `ep0_handler` serves CTR_RX before CTR_TX. If the host finishes a
  status stage and sends the next SETUP while `usb_cdc_write` or `usb_cdc_poll`
  masks the interrupt, the stale CTR_TX advances the *new* answer: its first
  packet is replaced by its second. Only answers longer than a packet, or with
  a terminating packet, are affected.

Run `ep0` therefore assumes `Prompt`: no SETUP comes while an interrupt waits.
It also assumes that a host follows an unfinished SET_ADDRESS by the same
request or by a reset; otherwise `s_addr_pending` would be applied after
whatever IN packet comes next. Every other request may be given up for another.
After an unfinished SET_CONFIGURATION the host does not know which configuration
the device is in, for the code sets `s_configured` before the status stage
(`usb_cdc.c:306-308`): `hostConfigs` holds those it may be in, what the host reads
must be the answer of a device in one of them, and tells it which.

In `usb`, the host may send SET_CONFIGURATION(0) and (1) at any time, the first
also to a device that is not configured, where `apply_config(0)` flushes the
queue all the same.

`RelayReports` takes a loss for reported when the sink took the STATUS, as
`relay_poll` does: `LossPending` and `RingDropsReportedFirst` are about that
moment. After a flush of that STATUS later bytes can reach the host before a count
of the loss; `HostKnows` and `HostLearns` say what the host is left with.

## 4. Fairness

Safety needs none. `RelayVcp`: weak fairness of the program (neither the calls
before the main loop nor `main` block, and interrupts return), of an interrupt
that is pending once enabled, and of USART2 emptying its register. `RelayUsb`:
weak fairness of `relay_poll`, for the same reason, and of a host that reads while
it has the port open, through `usb_cdc_poll` (that an endpoint in use comes free
again is `StreamFlows` of `UsbTx`). `UsbEp0`: weak fairness of the USB interrupt
and of a host that continues the transfer it began.

`UsbTx`: weak fairness of the USB interrupt (the masked stretches are finite), of
the host taking an offered packet while it reads, and of the status stage of a
request the device has executed; *strong* fairness of the main loop, since an
interrupt that comes again and again disables its next step again and again. It
is justified because a cause of that interrupt takes at least a packet time on the
bus, far more than the handler: between two interrupts the main loop gets on.

Nothing is assumed of the target, of resets, requests, writes of the host or lost
acknowledgements. Where progress needs an exception, the property names it:
`BytesHandedOn` (while losses never cease, each puts a STATUS ahead of the data,
and the small frames can take all the room), `HostLearns` (the port stays open,
and the STATUS was not flushed) and `TransfersEnd` (a host that gives up transfers
for ever).

## 5. Proofs

Checked by TLAPS, for all values of the constants that the ASSUMEs admit (the
`#error` checks of `relay.c`; a FIFO of at least two slots; frames that are not
empty; on EP0, requests with the fields of a SETUP packet; on the wire, arguments
of 4 to 255 bytes, a TYPE that is neither FLAG nor ESC, and of exclusive or that it
undoes itself and that 7 is odd). Pauses between interrupts are any naturals.
Three hypotheses come besides, `BelowOneTurn`, `Prompt` and `OneByte`, named where
they are used.

- `RelayProofs`: `TypeOK`, `Occupancy`, `MarksOrdered`, `FrameNeverEmpty`,
  `OneBurstPerFrame`, `CopyIntact` of `Relay`. None is inductive alone. That
  `s_tail + n` does not pass `s_head` needs the bytes counted at the head of the
  call to be stored still (`CountedStored`); that no mark lies inside the frame
  needs every mark left by the mark loop to be ahead of `s_tail` (`MarksAdopted`)
  and later ones to be for bytes behind the count. `IInv` is all of it together;
  there is one theorem per action. The core lemma, `SlotBehind`, says that two
  indices less than a ring apart have different slots even across the wrap; it
  rests on `ArithmeticFacts`.
- `RelayRefinementProofs`, upwards: `RelayStream` implements `BurstStream`
  (`RelayIsBurstStream`). The mapping cuts the ring at the marks. The first part
  says what it gives where `IInv` holds (`Shape`): the cuts are in order, no burst
  is empty, and the bursts together hold each stored byte once. The second part is
  the three steps that are not stutters: a stored byte joins the newest burst or
  opens one (`ByteJoins`, `ByteOpens`), a mark that is adopted becomes the stamp of
  the burst that was cut there already (`MarkAdopted`, a stutter), and releasing a
  frame takes it from the head of the oldest burst (`FrameReleased`). The third is
  that the difference of two stamps is the true idleness (`StreamInv`), with the
  hypothesis `BelowOneTurn`: the target is silent for less than a turn of the
  timestamp counter. `IdleGapOpensBurst` speaks of the pause up to the byte itself,
  from the byte stored before, whatever errors and drops lie in between; run
  `relay_idle` shows it violated without the hypothesis, and it is proved under it. `OfferedFrameIsHead`
  needs no hypothesis.
- `RelayRefinementProofs`, downwards: `RelayVcp` implements `Relay` from power-up on, so
  that what is proved of `Relay` holds on the UART path; the FIFO never holds more than it has
  room for; and `BytesMeetReadyBoard`. The invariant `BootInv` says that nothing
  is received before the sixth call, nothing handed over before the seventh, and
  that the first five switch on what a byte depends on.
- `RelayUsbProofs`: `LossPending` and `RingDropsReportedFirst` of `RelayReports`; on
  top of `IInv`, `HInv` says that the holes lie behind every byte in the ring and
  behind those counted for the frame under construction (`HolesBehindRing`), and
  that a STATUS under construction covers every hole before the bytes that can
  follow it (`StatusCovers`). `RelayUsb` implements `RelayReports`, so both hold on
  the USB path, for any queue and host. `SeqGapIsLoss` is inductive together with
  the types of SEQ and `flushed`. `HostKnows` compares single counts; the
  invariant behind it (`KnowsInv`) says that all of them are in order, from what
  the host has through the queue to `s_reported` (`CountsInOrder`, measured as how
  far each is behind `s_dropped`, which survives the wrap), and that the newest is
  `s_reported` or was flushed (`NewestIsReported`).
- `ByteFifoProofs`: `TypeOK`, `PushNeverOverruns` and that `ByteFifo` implements
  `BoundedQueue`: a push's single bytes are stutters, its end is the abstract
  push, under the mapping "contents without the unfinished push".
- `UsbTxProofs`: `TypeOK`, `BusyIsInFlight` and `OutServed` of `UsbTx`, and
  `UsbTxImplementsPipe`. The invariant `IInv` ties together the main loop's place
  and locals (`Control`, `Pushing`), the endpoint between the load of a packet and
  the write of EP1R (`Loading`: nothing but a reset touches it, the toggle read is
  still right), the phases of a session (`Sessions`) and the two data toggles
  (`Toggles`: they agree until the host has the packet, and again once it has
  acknowledged it). From it each step is one of the pipe's or changes nothing: a
  frame enters with its last byte (`WriteDoneSubmits`), a packet stays in the pipe
  on its way from the FIFO to the packet memory (`PackKeepsContents`,
  `LoadKeepsContents`), leaves when the host first keeps it and not when a lost
  acknowledgement makes it come again (`HostReadsDelivers`), and an interrupt drops
  only what a reset or a request had given up before (`UsbIrqRefines`).
- `UsbEp0Proofs`: every invariant of `UsbEp0`, for any set of SETUP packets, codings
  and packet size. The invariant is the diagram of a control transfer: `Silent`
  until the first bus reset, `Resetting` until it is served, then one of nine
  phases (`Asked`, `Sending`, `Taken`, `AwaitingStatus`, `AwaitingData`,
  `DataReceived`, `Confirming`, `Refusing`, `Idle`), each with what host, peripheral
  and driver hold in it; the device is in one of the configurations the host
  reckons with, or in the one being confirmed. One lemma per phase says where its actions lead. All but
  the types, the descriptors and the resolver have the hypothesis `Prompt`, as the
  run `ep0` has: run `ep0_stale` shows that the diagram breaks without it. Beside
  it stand facts of the tables: what `usb_ctrl_resolve` answers has the form
  `handle_setup` relies on (`ResolveSound`), the configuration descriptor parses
  (`ConfigCanBeParsed`), and `DescriptorsHonoured` over any requests.

- `SlipProofs`: every invariant of `Slip`, in four parts.
  *The CRC.* From the two facts of exclusive or, `ShiftOut` is one-to-one, so the
  table is, so two sequences of one length that differ in one byte have different
  CRCs (`CrcTellsOneByte`): the register differs from that byte on.
  *The line* (`LineInv`). The next byte belongs to a frame, a place in it and a half
  of what stuffing made there, and leaves the line in one of five ways; the k-th
  frame has SEQ k - 1.
  *Intact frames* (`IntactInv`). Where nothing of the frame under way was spoilt, the
  decoder has collected exactly its bytes up to the place. This needs nothing of
  what came before the first flag, so `IntactDecoded` holds for any damage.
  *Damage* (`DamageInv`). The decoder is outside, or follows the frame exactly, or,
  once no damage is left to come, holds what it will reject (`Junk`): `_bad` is set,
  the length disagrees with the LEN it has, one byte is changed, the first half of
  a pair was lost, or an escape is astray. Each kind keeps, or turns into another,
  with every byte that follows, up to the flag (`JunkPlain`, `JunkFirst`,
  `JunkSecond`, `JunkRejected`). One case is not junk: if the last flag of a frame is
  lost, the first of the next ends it, and it is decoded late (`Late`). What was
  decoded is found among the frames before, in order, none of them hurt (`Matched`).
  The hypothesis `OneByte` admits one byte of damage, a FLAG only if payloads have
  at most two bytes of data. Without it `DamageRejected` and `DecodedWasSent` are
  false: two bytes changed can leave the CRC as it was, and a FLAG inside a long
  argument makes its rest a frame if that happens to be one.

Induction over data. The library's induction theorems cannot be instantiated
here, but two inductions are needed: `Waiting` of `BurstStream` sums the lengths of
the bursts, and `Crc8` feeds a register, by a recursive function. They go by the
least counterexample (`LeastElement`, `SetInduction` of `ArithmeticFacts`), from the
well-foundedness of < on the naturals, which the library states without an
operator parameter.

Model-checked only: all liveness (`HostLearns`, `DropsReported`, `BytesHandedOn`,
`StreamFlows`, `TransfersEnd`), which is outside the prover's reach; and that the
CRC's table, with the exclusive or of `MCSlip`, gives the test vector that both
ends share (`GoldenFrame`). That exclusive or has the two properties the proofs use
is an ASSUME that TLC evaluates for all bytes in run `slip`.

## 6. Not modelled

- The pin map (`probe_pins.h`) and the build settings: constants.
- The heartbeat LED, and the diagnostic counter `s_rx_errors`, which is never
  read; register values in `board_init`, of which only what a call switches on is
  kept.
- Class codes, VID and PID, power and the characters of strings in `usb_desc.c`.
- EP2, declared and never used.
- In `RelayUsb`, SET_CONFIGURATION(1) on a configured device, which breaks the pipe
  it stands on (`usb_reconfigure`).
- The drop counter going round once, 2^32 losses, between two reports
  (`relay.c:156` compares for inequality): bounded away.
- The target stub, helper, codec and debug monitor of the design documents
  `src/00-…` to `src/05-…`: they have no code here.

Further differences between code and comments, seen while modelling, without a
run of their own:

- `relay_poll` can emit a STATUS and a DATA frame in one call and returns the
  length of the second (`relay.c:159,194`); `relay.h:65` says at most one frame.
- A refused frame is not retried as it was (`relay.h:54`): the next call counts
  anew, so it may be longer, or a STATUS may come first.
- "Surface drops before data" (`relay.c:154`) holds for bytes dropped on a full
  ring (`RingDropsReportedFirst`); a line error or a lost mark between the two
  reads is overtaken by data of the same call.
- `relay.h:30-32` says drops are never silent; a flush drops a STATUS that counts
  as delivered (`usb_cdc.c:410`, see `relay_usb` above).
- A lost mark adds one to the counter although its byte is delivered
  (`relay.c:90`); `src/01-debug-link-protocol.md:134` calls it bytes lost.
- SET_CONFIGURATION takes effect before its status stage (`usb_cdc.c:306-308`);
  `usb_ctrl.h:32` says after.
- Masking the USB interrupt in `usb_cdc_poll` (`usb_cdc.c:495-502`) does not stop
  a bus reset from clearing EP1R in hardware; the write that follows leaves EP1
  VALID in a device without address, until SET_CONFIGURATION sets it again.

## 7. Plan

Done, in this order: `Relay`, its instances and proofs; `BurstStream` and
`RelayStream`; `RelayReports`; `ByteFifo` with its proofs; `RelayVcp`; `UsbTx`
with `FramePipe`; `UsbCtrl` and `UsbEp0`; `Slip`; then bulk OUT and the
read-modify-write of EP1R in `UsbTx`, `UsbDesc` and power-up in `UsbEp0` and
`RelayVcp`, `RelayUsb`, and the proofs about `RelayReports`, `RelayUsb` and `UsbTx`;
then those about `RelayVcp`, `UsbEp0`, `RelayStream`, `HostKnows` and `Slip`.
Reasoning about them changed the models in six places: the mapping of
`RelayStream` is stated by the places of the cuts; `HostKnows` speaks of the newest
count, not only of order; a byte held in USART1 may be taken after any gap; SETUP
packets are a set with their fields' ranges, and what a descriptor entitles a host
to is exact for every one of them, not only for those enumerated; the line of
`Slip` carries symbols; and its `shifted` includes a byte in place of the first
flag: with the register starting at 0, a 0 there would pass the CRC unseen.

Every safety property a run checks is proved, where it holds. What is left is
liveness, and the composition of the two USB models: that `RelayUsb` over `UsbTx`
itself, not over the pipe, implements the first.
