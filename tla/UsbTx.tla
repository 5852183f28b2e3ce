------------------------------- MODULE UsbTx -------------------------------
(***************************************************************************)
(* The bulk endpoint of the USB-CDC transport, src/usb_cdc.c:              *)
(* usb_cdc_write and usb_cdc_poll in the main loop, usb_reset,             *)
(* apply_config and ep1_handler in the USB interrupt, the endpoint         *)
(* register EP1R that both and the hardware write, and a host that may     *)
(* reset the bus, change the configuration, write to the port, take        *)
(* packets, or lose the acknowledgement of one.                            *)
(*                                                                         *)
(* One interrupt runs to completion.  The main loop is cut at each access  *)
(* to state the interrupt or the hardware also writes: masking the         *)
(* interrupt stops the handler, not the hardware.                          *)
(*                                                                         *)
(* EP0 carries requests only as far as their effect here: a request that   *)
(* changes EP1 is taken by the interrupt and then answered.                *)
(***************************************************************************)
EXTENDS Integers, Sequences

CONSTANTS
  Byte,        \* the values a byte can take
  Frames,      \* the frames relay_poll writes, as sequences of bytes
  Room,        \* sizeof s_tx_storage - 1: bytes s_tx can hold
  MaxPacket    \* USB_CDC_BULK_MAXPACKET

ASSUME UsbTxAssumption ==
  /\ \A frame \in Frames : frame \in Seq(Byte) /\ frame # <<>>
  /\ Room \in Nat \ {0}
  /\ MaxPacket \in Nat \ {0}

VARIABLES
  \* the driver
  s_tx,          \* contents of the transmit FIFO
  s_tx_busy, s_configured,
  masked,        \* NVIC: USB_IRQn disabled
  \* the main loop: where it is, writes since the last poll, its locals
  pc, writes, src, i, pkt, epr,
  \* the endpoint: bits of EP1R, the IN packet buffer; the other interrupt
  \* causes
  STAT_TX, DTOG_TX, CTR_TX, STAT_RX, CTR_RX, pma, reset, request,
  \* the host: reading EP1, its data toggle, the packet it took last
  \* in this session
  reading, hostTog, received,
  \* history: the host took the packet in flight; the host restarted the
  \* endpoint since the queue was last dropped
  taken, restarted

driverVars   == <<s_tx, s_tx_busy, s_configured>>
mainVars     == <<masked, pc, writes, src, i, pkt, epr>>
outVars      == <<STAT_RX, CTR_RX>>
ctrVars      == <<CTR_RX, CTR_TX>>
endpointVars == <<STAT_TX, DTOG_TX, CTR_TX, outVars, pma>>
eventVars    == <<reset, request>>
hostVars     == <<reading, hostTog, received, taken>>
vars == <<driverVars, mainVars, endpointVars, eventVars, hostVars, restarted>>

\* STAT_TX and STAT_RX as the set of their bits that are 1 (the bits of
\* STAT_TX name both): writing them toggles bits.
Disabled == {}
Stall    == {4}
Nak      == {5}
Valid    == {4, 5}
Toggled(bits, mask) == (bits \cup mask) \ (bits \cap mask)

\* What a write to EP1R does beside its plain bits: STAT_TX bits toggled by
\* a 1, CTR bits kept by a 1 and cleared by a 0.
EprWrite(toggle, kept) == [toggle |-> toggle, kept |-> kept]
NoWrite == EprWrite({}, {"CTR_RX", "CTR_TX"})

\* What usb_ctrl_resolve makes of a request, as far as EP1 goes.
Requests == {"none", "set_config_1", "set_config_0", "clear_halt",
             "configured", "deconfigured", "cleared"}

PcValues == {"relay", "push", "check", "load", "read", "arm", "unmask"}

Init ==
  /\ s_tx = <<>> /\ s_tx_busy = FALSE /\ s_configured = FALSE
  /\ masked = FALSE
  /\ pc = "relay" /\ writes = 0 /\ src = <<>> /\ i = 0 /\ pkt = <<>>
  /\ epr = NoWrite
  /\ STAT_TX = Disabled /\ DTOG_TX = 0 /\ CTR_TX = FALSE /\ pma = <<>>
  /\ STAT_RX = Disabled /\ CTR_RX = FALSE
  /\ reset = FALSE /\ request = "none"
  /\ reading = FALSE /\ hostTog = 0 /\ received = <<>>
  /\ taken = FALSE /\ restarted = FALSE

-----------------------------------------------------------------------------
(* The USB interrupt, usb_cdc_irq: bus reset first.                        *)

PendingRequest == request \in {"set_config_1", "set_config_0", "clear_halt"}
IrqPending     == reset \/ PendingRequest \/ CTR_TX \/ CTR_RX

UsbReset ==
  /\ reset
  /\ reset' = FALSE
  /\ s_configured' = FALSE
  /\ s_tx_busy' = FALSE
  /\ s_tx' = <<>>
  /\ restarted' = FALSE
  /\ UNCHANGED <<endpointVars, request>>

\* Faults: a completion, or the busy flag, of the last session is kept.
StartSession(busy, ctr) ==
  /\ ~reset /\ request = "set_config_1"
  /\ CTR_TX' = ctr
  /\ DTOG_TX' = 0 /\ STAT_TX' = Nak
  /\ CTR_RX' = FALSE /\ STAT_RX' = Valid
  /\ s_tx_busy' = busy
  /\ s_configured' = TRUE
  /\ request' = "configured"
  /\ UNCHANGED <<s_tx, pma, reset, restarted>>

ApplyConfig1KeepsCtr  == StartSession(FALSE, CTR_TX)
ApplyConfig1KeepsBusy == StartSession(s_tx_busy, FALSE)

\* apply_config(1): the endpoint from DATA0, ready for OUT, nothing in flight;
\* s_tx stays.
ApplyConfig1 ==
  /\ ~reset /\ request = "set_config_1"
  /\ CTR_TX' = FALSE
  /\ DTOG_TX' = 0
  /\ STAT_TX' = Nak
  /\ CTR_RX' = FALSE
  /\ STAT_RX' = Valid
  /\ s_tx_busy' = FALSE
  /\ s_configured' = TRUE
  /\ request' = "configured"
  /\ UNCHANGED <<s_tx, pma, reset, restarted>>

\* apply_config(0): the endpoint off, the queue dropped.
ApplyConfig0 ==
  /\ ~reset /\ request = "set_config_0"
  /\ STAT_TX' = Disabled
  /\ STAT_RX' = Disabled
  /\ s_tx' = <<>>
  /\ s_tx_busy' = FALSE
  /\ s_configured' = FALSE
  /\ request' = "deconfigured"
  /\ restarted' = FALSE
  /\ UNCHANGED <<DTOG_TX, CTR_TX, CTR_RX, pma, reset>>

\* CLEAR_FEATURE(ENDPOINT_HALT) is answered and changes nothing.
ClearHalt ==
  /\ ~reset /\ request = "clear_halt"
  /\ request' = "cleared"
  /\ UNCHANGED <<driverVars, endpointVars, reset, restarted>>

\* ep1_handler: a packet of the host is discarded and the next let in; the
\* packet in flight was acknowledged.
Ep1Handler ==
  /\ ~reset
  /\ CTR_RX \/ CTR_TX
  /\ CTR_RX' = FALSE /\ CTR_TX' = FALSE
  /\ STAT_RX' = IF CTR_RX THEN Valid ELSE STAT_RX
  /\ s_tx_busy' = (s_tx_busy /\ ~CTR_TX)
  /\ UNCHANGED <<s_tx, s_configured, STAT_TX, DTOG_TX, pma, eventVars, restarted>>

UsbIrq == /\ ~masked
          /\ \/ UsbReset \/ ApplyConfig1 \/ ApplyConfig0 \/ ClearHalt \/ Ep1Handler
          /\ UNCHANGED <<mainVars, hostVars>>

-----------------------------------------------------------------------------
(* The main loop.  An interrupt that is pending and not masked runs first. *)

Runs(from, to) ==
  /\ pc = from /\ pc' = to
  /\ masked \/ ~IrqPending
  /\ UNCHANGED <<s_configured, DTOG_TX, STAT_RX, eventVars,
                 reading, hostTog, received, restarted>>

\* Faults: a frame one byte too long is let in; the interrupt is not masked.
WriteWith(frame, room, mask) ==
  /\ writes < 2
  /\ Runs("relay", "push")
  /\ masked' = mask
  /\ src' = IF Len(frame) <= room - Len(s_tx) THEN frame ELSE <<>>
  /\ UNCHANGED <<s_tx, s_tx_busy, writes, i, pkt, epr, STAT_TX, ctrVars, pma, taken>>

WriteFrameTooLong(frame)  == WriteWith(frame, Room + 1, TRUE)
WriteFrameUnmasked(frame) == WriteWith(frame, Room, FALSE)

\* usb_cdc_write: mask the interrupt; push the whole frame if it fits.
WriteFrame(frame) ==
  /\ writes < 2     \* relay_poll writes a STATUS and a DATA frame at most
  /\ Runs("relay", "push")
  /\ masked' = TRUE
  /\ src' = IF Len(frame) <= Room - Len(s_tx) THEN frame ELSE <<>>
  /\ UNCHANGED <<s_tx, s_tx_busy, writes, i, pkt, epr, STAT_TX, ctrVars, pma, taken>>

PushByte ==
  /\ i < Len(src)
  /\ Runs("push", "push")
  /\ s_tx' = Append(s_tx, src[i + 1])
  /\ i' = i + 1
  /\ UNCHANGED <<s_tx_busy, masked, writes, src, pkt, epr, STAT_TX, ctrVars, pma, taken>>

WriteDone ==
  /\ i = Len(src)
  /\ Runs("push", "relay")
  /\ masked' = FALSE
  /\ src' = <<>> /\ i' = 0
  /\ writes' = writes + 1
  /\ UNCHANGED <<s_tx, s_tx_busy, pkt, epr, STAT_TX, ctrVars, pma, taken>>

\* usb_cdc_poll: mask the interrupt, then look.
PollBegin ==
  /\ Runs("relay", "check")
  /\ masked' = TRUE
  /\ UNCHANGED <<s_tx, s_tx_busy, writes, src, i, pkt, epr, STAT_TX, ctrVars, pma, taken>>

MaySend == s_configured /\ ~s_tx_busy /\ s_tx # <<>>

PacketLen == IF Len(s_tx) < MaxPacket THEN Len(s_tx) ELSE MaxPacket

Pack ==
  /\ MaySend
  /\ Runs("check", "load")
  /\ pkt' = SubSeq(s_tx, 1, PacketLen)
  /\ s_tx' = SubSeq(s_tx, PacketLen + 1, Len(s_tx))
  /\ UNCHANGED <<s_tx_busy, masked, writes, src, i, epr, STAT_TX, ctrVars, pma, taken>>

NothingToSend ==
  /\ ~MaySend
  /\ Runs("check", "unmask")
  /\ UNCHANGED <<s_tx, s_tx_busy, masked, writes, src, i, pkt, epr, STAT_TX, ctrVars, pma, taken>>

\* pma_write and s_tx_busy = 1.
Load ==
  /\ Runs("load", "read")
  /\ pma' = pkt /\ pkt' = <<>>
  /\ s_tx_busy' = TRUE
  /\ taken' = FALSE
  /\ UNCHANGED <<s_tx, masked, writes, src, i, epr, STAT_TX, ctrVars>>

\* Fault: the CTR bits are written back as they were read.
ReadEp1rPlain ==
  /\ Runs("read", "arm")
  /\ epr' = EprWrite(Toggled(STAT_TX, Valid), IF CTR_RX THEN {"CTR_RX"} ELSE {})
  /\ UNCHANGED <<s_tx, s_tx_busy, masked, writes, src, i, pkt, STAT_TX, ctrVars, pma, taken>>

\* ep_set_stat_tx(EP_DATA, STAT_VALID): read EP1R, then write the difference.
\* The CTR bits are written as 1, whatever was read: what the hardware
\* completes in between is kept.
ReadEp1r ==
  /\ Runs("read", "arm")
  /\ epr' = EprWrite(Toggled(STAT_TX, Valid), {"CTR_RX", "CTR_TX"})
  /\ UNCHANGED <<s_tx, s_tx_busy, masked, writes, src, i, pkt, STAT_TX, ctrVars, pma, taken>>

WriteEp1r ==
  /\ Runs("arm", "unmask")
  /\ STAT_TX' = Toggled(STAT_TX, epr.toggle)
  /\ CTR_RX' = (CTR_RX /\ "CTR_RX" \in epr.kept)
  /\ CTR_TX' = (CTR_TX /\ "CTR_TX" \in epr.kept)
  /\ epr' = NoWrite
  /\ UNCHANGED <<s_tx, s_tx_busy, masked, writes, src, i, pkt, pma, taken>>

PollDone ==
  /\ Runs("unmask", "relay")
  /\ masked' = FALSE
  /\ writes' = 0
  /\ UNCHANGED <<s_tx, s_tx_busy, src, i, pkt, epr, STAT_TX, ctrVars, pma, taken>>

MainLoop == \/ \E frame \in Frames : WriteFrame(frame)
            \/ PushByte \/ WriteDone
            \/ PollBegin \/ Pack \/ NothingToSend
            \/ Load \/ ReadEp1r \/ WriteEp1r \/ PollDone

-----------------------------------------------------------------------------
(* The hardware and the host (external).                                   *)

Offered == reading /\ ~reset /\ STAT_TX = Valid

\* The host reads the packet: it keeps it if the toggle is the one it waits
\* for, and acknowledges it in any case.
HostReads ==
  IF DTOG_TX = hostTog
    THEN received' = pma /\ hostTog' = 1 - hostTog /\ taken' = TRUE
    ELSE UNCHANGED <<received, hostTog, taken>>

HostTakes ==
  /\ Offered
  /\ HostReads
  /\ STAT_TX' = Nak /\ DTOG_TX' = 1 - DTOG_TX /\ CTR_TX' = TRUE
  /\ UNCHANGED <<driverVars, mainVars, outVars, pma, eventVars, reading, restarted>>

\* The acknowledgement is lost: the endpoint offers the packet again.
AckLost ==
  /\ Offered
  /\ HostReads
  /\ UNCHANGED <<driverVars, mainVars, endpointVars, eventVars, reading, restarted>>

\* The host writes to the port, from a terminal that echoes, say.
HostWrites ==
  /\ reading /\ ~reset /\ STAT_RX = Valid
  /\ STAT_RX' = Nak /\ CTR_RX' = TRUE
  /\ UNCHANGED <<driverVars, mainVars, STAT_TX, DTOG_TX, CTR_TX, pma, eventVars,
                 hostVars, restarted>>

\* A bus reset clears EP1R, the CTR bits excepted, and with it all requests.
BusReset ==
  /\ ~reset
  /\ reset' = TRUE /\ request' = "none"
  /\ STAT_TX' = Disabled /\ DTOG_TX' = 0 /\ STAT_RX' = Disabled
  /\ reading' = FALSE /\ received' = <<>>
  /\ UNCHANGED <<driverVars, mainVars, ctrVars, pma, hostTog, taken, restarted>>

\* The host sends a request and meanwhile does not read EP1; a change of
\* configuration ends the session.
Request(what) ==
  /\ ~reset /\ request = "none"
  /\ request' = what
  /\ reading' = FALSE
  /\ received' = IF what = "clear_halt" THEN received ELSE <<>>
  /\ restarted' = (restarted \/ what = "clear_halt" \/ (what = "set_config_1" /\ s_configured))
  /\ UNCHANGED <<driverVars, mainVars, endpointVars, reset, hostTog, taken>>

HostConfigures   == ~s_configured /\ Request("set_config_1")
HostReconfigures == s_configured /\ Request("set_config_1")
HostDeconfigures == Request("set_config_0")
HostClearsHalt   == s_configured /\ Request("clear_halt")

\* The status stage: the host goes on.  Its toggle starts again from DATA0
\* with a configuration and with a cleared halt.
RequestAnswered ==
  /\ request \in {"configured", "deconfigured", "cleared"}
  /\ request' = "none"
  /\ reading' = (request # "deconfigured")
  /\ hostTog' = IF request = "deconfigured" THEN hostTog ELSE 0
  /\ UNCHANGED <<driverVars, mainVars, endpointVars, reset, received, taken, restarted>>

Host == \/ HostTakes \/ AckLost \/ HostWrites \/ BusReset
        \/ HostConfigures \/ HostReconfigures \/ HostDeconfigures \/ HostClearsHalt
        \/ RequestAnswered

Next == UsbIrq \/ MainLoop \/ Host

\* The main loop never blocks and gets on between two interrupts however often
\* they come, a packet on the bus taking longer than an interrupt; a pending
\* interrupt is taken once unmasked, and a host that has the port open polls
\* the endpoint.
Spec == /\ Init /\ [][Next]_vars
        /\ SF_vars(MainLoop) /\ WF_vars(UsbIrq)
        /\ WF_vars(HostTakes) /\ WF_vars(RequestAnswered)
-----------------------------------------------------------------------------
(* Properties.                                                             *)

\* Types and bounds: a packet never exceeds its place in the packet memory,
\* the FIFO never its storage (usb_cdc.c:186, 505-512).
TypeOK ==
  /\ s_tx \in Seq(Byte) /\ Len(s_tx) <= Room
  /\ {s_tx_busy, s_configured, masked, CTR_TX, CTR_RX, reset, reading, taken, restarted} \subseteq BOOLEAN
  /\ pc \in PcValues
  /\ writes \in 0 .. 2
  /\ src \in Frames \cup {<<>>} /\ i \in 0 .. Len(src)
  /\ {pkt, pma, received} \subseteq Seq(Byte)
  /\ \A p \in {pkt, pma, received} : Len(p) <= MaxPacket
  /\ {STAT_TX, STAT_RX, epr.toggle} \subseteq SUBSET Valid
  /\ {DTOG_TX, hostTog} \subseteq {0, 1}
  /\ request \in Requests

\* While the device is configured, s_tx_busy says exactly that a packet is
\* on the endpoint or its completion is still to be handled: the flag is
\* never left set with nothing in flight, which would stop the stream, nor
\* clear with a packet on offer, which usb_cdc_poll would overwrite.
BusyIsInFlight ==
  s_configured /\ ~reset /\ pc \notin {"read", "arm"} =>
    (s_tx_busy <=> (STAT_TX = Valid \/ CTR_TX))

\* While the device is configured it is ready for a packet of the host or has
\* one to discard: no completion is lost to a write of EP1R by the main loop
\* (usb_cdc.c:144), which would leave the host's writes waiting for ever.
OutServed == s_configured /\ ~reset => STAT_RX = Valid \/ CTR_RX

\* The stream the host sees: bytes of whole frames in order, each once, and
\* at the end of a session everything queued goes, a frame half sent
\* included.  From the moment the bus is reset or the configuration given up
\* the queue is as good as dropped.  A host that restarts the endpoint in the
\* middle of a session (restarted) is owed nothing until the next one: see
\* SessionStartsWithFrame and AckedWasTaken for what it gets.
SessionOver == reset \/ restarted \/ request = "set_config_0"
Unseen      == IF s_tx_busy /\ ~taken THEN pma ELSE <<>>
WholeFrames == SubSeq(s_tx, 1, Len(s_tx) - i)

Pipe == INSTANCE FramePipe WITH
  Packet   <- MaxPacket,
  pipe     <- IF SessionOver THEN <<>> ELSE Unseen \o pkt \o WholeFrames,
  received <- IF restarted THEN <<>> ELSE received

\* "Masked, the flush sees either the entire frame or none of it"
\* (usb_cdc.c:480-486), and a packet is taken once although acknowledgements
\* are lost: all-or-nothing writes, flushes, packets, toggles and the busy
\* flag together make a frame stream.
UsbTxImplementsPipe == Pipe!Spec

\* While the host reads, queued bytes get to the endpoint, and the endpoint
\* never stays busy (usb_cdc_poll, ep1_handler).
StreamFlows ==
  /\ (reading /\ s_tx # <<>>) ~> (s_tx_busy \/ ~reading)
  /\ (reading /\ s_tx_busy) ~> (~s_tx_busy \/ ~reading)

\* No session starts with the rest of a frame: that is the corruption the
\* comment of usb_cdc_write rules out ("a headerless partial-frame suffix
\* that usb_cdc_poll would transmit after reconfigure", usb_cdc.c:483-485).
SessionStartsWithFrame ==
  [][received = <<>> /\ received' # <<>> =>
       \E frame \in Frames : Head(received') = Head(frame)]_vars

\* A packet the device counts as delivered was not discarded by the host for
\* its data toggle ("otherwise ... the host drops the first EP1 IN/OUT on a
\* PID mismatch", usb_cdc.c:175-177).
AckedWasTaken == [][CTR_TX' /\ ~CTR_TX => taken']_vars
=============================================================================
