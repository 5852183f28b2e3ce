------------------------------- MODULE UsbEp0 ------------------------------
(***************************************************************************)
(* Control transfers on EP0, src/usb_cdc.c: usb_cdc_init, then             *)
(* handle_setup, ep0_handler and usb_reset in the USB interrupt, the       *)
(* endpoint register EP0R and packet buffers of the peripheral, and a host *)
(* that runs one control transfer after another, gives one up for the      *)
(* next, or resets the bus.                                                *)
(*                                                                         *)
(* ep0_handler serves a received packet first and a sent one second, and   *)
(* reads EP0R again in between (usb_cdc.c:351): two steps, with the bus    *)
(* going on beside them.                                                   *)
(*                                                                         *)
(* Packets carry no bytes but say which they are: data, offset and length. *)
(***************************************************************************)
EXTENDS UsbCtrl

CONSTANTS
  Setups,       \* the SETUP packets a host may send
  RetrySetups,  \* those it may send after giving up a transfer
  Codings,      \* line codings a host may set, the default not among them
  Prompt        \* the host sends no SETUP while an interrupt is to be served

ASSUME Ep0Assumption ==
  /\ Setups \subseteq SetupPackets /\ RetrySetups \subseteq Setups
  /\ Prompt \in BOOLEAN

VARIABLES
  \* the driver
  s_ep0_in_data, s_ep0_in_off,    \* s_ep0_in_ptr: which data, how far
  s_ep0_in_rem, s_ep0_in_zlp, s_ep0_out_data,
  s_addr_pending, s_pending_addr, s_configured, s_line_coding,
  up,           \* how far usb_cdc_init has come
  irq,          \* usb_cdc_irq: "none", or in ep0_handler before the re-read
  \* the peripheral: EP0R, the packet buffers, DADDR, the reset event
  STAT_RX, STAT_TX, CTR_RX, CTR_TX, rxBuf, txBuf, DADDR, reset,
  \* the host: what it has set (of configurations, those the device may be
  \* in for all it knows), the transfer under way
  hostAddr, hostConfigs, hostCoding, stage, asked, got,
  \* history: all the host received was what it had to expect
  intact

inVars     == <<s_ep0_in_data, s_ep0_in_off, s_ep0_in_rem, s_ep0_in_zlp>>
addrVars   == <<s_addr_pending, s_pending_addr, DADDR>>
statVars   == <<STAT_RX, STAT_TX>>
bufVars    == <<rxBuf, txBuf>>
hostVars   == <<hostAddr, hostConfigs, hostCoding, stage, asked, got, intact>>
vars == <<up, inVars, s_ep0_out_data, addrVars, s_configured, s_line_coding, irq,
          statVars, CTR_RX, CTR_TX, bufVars, reset, hostVars>>

DefaultCoding == "default"
NoAddress     == -1         \* DADDR without EF: the peripheral is deaf
NoSetup       == [type |-> "none", dir |-> "none", recip |-> "none", request |-> "none",
                  value |-> 0, index |-> 0, length |-> 0]
Packet(data, off, len) == [data |-> data, off |-> off, len |-> len]
Empty         == Packet("none", 0, 0)
Stats         == {"disabled", "stall", "nak", "valid"}
Stages        == {"idle", "data_in", "status_out", "data_out", "status_in"}

Init ==
  /\ s_ep0_in_data = "none" /\ s_ep0_in_off = 0 /\ s_ep0_in_rem = 0
  /\ s_ep0_in_zlp = FALSE /\ s_ep0_out_data = FALSE
  /\ s_addr_pending = FALSE /\ s_pending_addr = 0
  /\ s_configured = 0 /\ s_line_coding = DefaultCoding
  /\ up = "off" /\ irq = "none"
  /\ STAT_RX = "disabled" /\ STAT_TX = "disabled"
  /\ CTR_RX = FALSE /\ CTR_TX = FALSE
  /\ rxBuf = Empty /\ txBuf = Empty
  /\ DADDR = NoAddress /\ reset = FALSE
  /\ hostAddr = NoAddress /\ hostConfigs = {0} /\ hostCoding = DefaultCoding
  /\ stage = "idle" /\ asked = NoSetup /\ got = 0
  /\ intact = TRUE

-----------------------------------------------------------------------------
(* usb_cdc_init: events are let in, then the host, then the interrupt.     *)

InitStep(from, to) ==
  /\ up = from /\ up' = to
  /\ UNCHANGED <<inVars, s_ep0_out_data, addrVars, s_configured, s_line_coding, irq,
                 statVars, CTR_RX, CTR_TX, bufVars, hostVars>>

\* Power-up may leave a reset event behind; it is cleared before the pull-up
\* shows the device to the host.
PowerUp     == InitStep("off", "powered") /\ reset' \in BOOLEAN
ClearEvents == InitStep("powered", "cleared") /\ reset' = FALSE
Attach      == InitStep("cleared", "attached") /\ UNCHANGED reset
EnableIrq   == InitStep("attached", "running") /\ UNCHANGED reset

UsbCdcInit == PowerUp \/ ClearEvents \/ Attach \/ EnableIrq

-----------------------------------------------------------------------------
(* The interrupt.                                                          *)

Smaller(a, b) == IF a < b THEN a ELSE b

\* Faults: the packet is not cut to the endpoint's size; the pointer stays.
ContinueUncut(data, off, rem) ==
  /\ txBuf' = Packet(data, off, rem)
  /\ s_ep0_in_data' = data /\ s_ep0_in_off' = off + rem /\ s_ep0_in_rem' = 0
  /\ STAT_TX' = "valid"

ContinueInPlace(data, off, rem) ==
  LET chunk == Smaller(rem, MaxPacket) IN
    /\ txBuf' = Packet(data, off, chunk)
    /\ s_ep0_in_data' = data /\ s_ep0_in_off' = off /\ s_ep0_in_rem' = rem - chunk
    /\ STAT_TX' = "valid"

\* ep0_in_continue, from offset `off' of `data' with `rem' bytes left.
Continue(data, off, rem) ==
  LET chunk == Smaller(rem, MaxPacket) IN
    /\ txBuf' = Packet(data, off, chunk)
    /\ s_ep0_in_data' = data
    /\ s_ep0_in_off' = off + chunk
    /\ s_ep0_in_rem' = rem - chunk
    /\ STAT_TX' = "valid"

\* ep0_send_status, and the end of a transfer's IN data.
NoInData == s_ep0_in_data' = "none" /\ s_ep0_in_off' = 0 /\ s_ep0_in_rem' = 0
SendStatus ==
  /\ txBuf' = Empty
  /\ NoInData /\ s_ep0_in_zlp' = FALSE
  /\ STAT_TX' = "valid"

\* Fault: the status packet that follows the data is not expected.
SetupTxDataUnarmed(answer) ==
  /\ answer.kind = "tx_data"
  /\ Continue(answer.data, 0, answer.len)
  /\ s_ep0_in_zlp' = answer.zlp
  /\ s_ep0_out_data' = FALSE
  /\ UNCHANGED <<STAT_RX, s_addr_pending, s_pending_addr, s_configured>>

\* handle_setup, one action per kind of answer.  `answer' is the resolver's.
SetupTxData(answer) ==
  /\ answer.kind = "tx_data"
  /\ Continue(answer.data, 0, answer.len)
  /\ s_ep0_in_zlp' = answer.zlp
  /\ s_ep0_out_data' = FALSE
  /\ STAT_RX' = "valid"
  /\ UNCHANGED <<s_addr_pending, s_pending_addr, s_configured>>

SetupExpectOut(answer) ==
  /\ answer.kind = "expect_out"
  /\ NoInData /\ s_ep0_in_zlp' = FALSE
  /\ s_ep0_out_data' = TRUE
  /\ STAT_RX' = "valid"
  /\ UNCHANGED <<txBuf, STAT_TX, s_addr_pending, s_pending_addr, s_configured>>

SetupStatus(answer) ==
  /\ answer.kind = "status"
  /\ s_ep0_out_data' = FALSE
  /\ IF answer.set_address >= 0
       THEN s_pending_addr' = answer.set_address /\ s_addr_pending' = TRUE
       ELSE UNCHANGED <<s_pending_addr, s_addr_pending>>
  /\ s_configured' = IF answer.set_config >= 0 THEN answer.set_config ELSE s_configured
  /\ SendStatus
  /\ UNCHANGED STAT_RX

SetupStall(answer) ==
  /\ answer.kind = "stall"
  /\ NoInData /\ s_ep0_in_zlp' = FALSE
  /\ s_ep0_out_data' = FALSE
  /\ STAT_TX' = "stall" /\ STAT_RX' = "stall"
  /\ UNCHANGED <<txBuf, s_addr_pending, s_pending_addr, s_configured>>

\* A SETUP packet has been received.
HandleSetup ==
  /\ CTR_RX /\ rxBuf \in Setups
  /\ LET answer == Resolve(rxBuf, s_configured, s_line_coding) IN
       \/ SetupTxData(answer) \/ SetupExpectOut(answer)
       \/ SetupStatus(answer) \/ SetupStall(answer)
  /\ UNCHANGED s_line_coding

\* Faults: the status stage is forgotten; a short packet is taken for a coding.
HandleOutDataUnanswered ==
  /\ CTR_RX /\ rxBuf \notin Setups /\ s_ep0_out_data
  /\ s_line_coding' = IF rxBuf.len >= LineCodingLen THEN rxBuf.data ELSE s_line_coding
  /\ s_ep0_out_data' = FALSE
  /\ STAT_RX' = "valid"
  /\ UNCHANGED <<inVars, STAT_TX, txBuf, s_addr_pending, s_pending_addr, s_configured>>

HandleOutDataAnyLength ==
  /\ CTR_RX /\ rxBuf \notin Setups /\ s_ep0_out_data
  /\ s_line_coding' = rxBuf.data
  /\ s_ep0_out_data' = FALSE
  /\ SendStatus
  /\ STAT_RX' = "valid"
  /\ UNCHANGED <<s_addr_pending, s_pending_addr, s_configured>>

\* The OUT data stage: the coding is kept if all of it came.
HandleOutData ==
  /\ CTR_RX /\ rxBuf \notin Setups /\ s_ep0_out_data
  /\ s_line_coding' = IF rxBuf.len >= LineCodingLen THEN rxBuf.data ELSE s_line_coding
  /\ s_ep0_out_data' = FALSE
  /\ SendStatus
  /\ STAT_RX' = "valid"
  /\ UNCHANGED <<s_addr_pending, s_pending_addr, s_configured>>

\* The OUT status stage.
HandleOutStatus ==
  /\ CTR_RX /\ rxBuf \notin Setups /\ ~s_ep0_out_data
  /\ STAT_RX' = "valid"
  /\ UNCHANGED <<inVars, s_ep0_out_data, s_addr_pending, s_pending_addr, txBuf,
                 STAT_TX, s_configured, s_line_coding>>

\* ep0_handler as far as CTR_RX goes.  A reset that comes after the interrupt
\* has begun waits until all that was received and sent before is served
\* (usb_cdc.c:418-427).
Received ==
  /\ irq = "none"
  /\ HandleSetup \/ HandleOutData \/ HandleOutStatus
  /\ CTR_RX' = FALSE /\ rxBuf' = Empty
  /\ irq' = "ep0_handler"
  /\ UNCHANGED <<CTR_TX, DADDR, reset, hostVars>>

\* A packet was sent and acknowledged: more data, a terminating packet, or
\* the address that waited for the status stage.
SendMore ==
  /\ s_ep0_in_rem > 0
  /\ Continue(s_ep0_in_data, s_ep0_in_off, s_ep0_in_rem)
  /\ UNCHANGED <<s_ep0_in_zlp, addrVars>>

SendZlp ==
  /\ s_ep0_in_rem = 0 /\ s_ep0_in_zlp
  /\ s_ep0_in_zlp' = FALSE
  /\ txBuf' = Empty
  /\ STAT_TX' = "valid"
  /\ UNCHANGED <<s_ep0_in_data, s_ep0_in_off, s_ep0_in_rem, addrVars>>

ApplyAddress ==
  /\ s_ep0_in_rem = 0 /\ ~s_ep0_in_zlp /\ s_addr_pending
  /\ DADDR' = s_pending_addr
  /\ s_addr_pending' = FALSE
  /\ UNCHANGED <<inVars, s_pending_addr, STAT_TX, txBuf>>

SentAll ==
  /\ s_ep0_in_rem = 0 /\ ~s_ep0_in_zlp /\ ~s_addr_pending
  /\ UNCHANGED <<inVars, addrVars, STAT_TX, txBuf>>

Sent ==
  /\ CTR_TX
  /\ irq = "ep0_handler" \/ (irq = "none" /\ ~CTR_RX)
  /\ SendMore \/ SendZlp \/ ApplyAddress \/ SentAll
  /\ CTR_TX' = FALSE
  /\ irq' = "none"
  /\ UNCHANGED <<s_ep0_out_data, s_configured, s_line_coding, STAT_RX, CTR_RX,
                 rxBuf, reset, hostVars>>

NothingSent ==
  /\ irq = "ep0_handler" /\ ~CTR_TX
  /\ irq' = "none"
  /\ UNCHANGED <<inVars, s_ep0_out_data, addrVars, s_configured, s_line_coding,
                 statVars, CTR_RX, CTR_TX, bufVars, reset, hostVars>>

\* Fault: an address still to be applied outlives the reset.
UsbResetKeepsPending ==
  /\ reset /\ irq = "none"
  /\ reset' = FALSE
  /\ CTR_RX' = FALSE /\ CTR_TX' = FALSE
  /\ STAT_RX' = "valid" /\ STAT_TX' = "nak"
  /\ NoInData /\ s_ep0_in_zlp' = FALSE /\ s_ep0_out_data' = FALSE
  /\ s_configured' = 0
  /\ s_line_coding' = DefaultCoding
  /\ DADDR' = 0
  /\ txBuf' = Empty /\ rxBuf' = Empty
  /\ UNCHANGED <<s_addr_pending, s_pending_addr, irq, hostVars>>

\* usb_reset
UsbReset ==
  /\ reset /\ irq = "none"
  /\ reset' = FALSE
  /\ CTR_RX' = FALSE /\ CTR_TX' = FALSE
  /\ STAT_RX' = "valid" /\ STAT_TX' = "nak"
  /\ NoInData /\ s_ep0_in_zlp' = FALSE /\ s_ep0_out_data' = FALSE
  /\ s_addr_pending' = FALSE /\ s_pending_addr' = 0
  /\ s_configured' = 0
  /\ s_line_coding' = DefaultCoding
  /\ DADDR' = 0
  /\ txBuf' = Empty /\ rxBuf' = Empty
  /\ UNCHANGED <<irq, hostVars>>

UsbIrq == /\ up = "running"
          /\ Received \/ Sent \/ NothingSent \/ UsbReset
          /\ UNCHANGED up

-----------------------------------------------------------------------------
(* The bus (external): tokens of the host, and what the peripheral does.   *)

driverVars == <<up, inVars, s_ep0_out_data, s_addr_pending, s_pending_addr,
                s_configured, s_line_coding, irq>>

\* The device answers to the address the host uses.
Reachable == ~reset /\ hostAddr # NoAddress /\ DADDR = hostAddr

Quiet == ~CTR_RX /\ ~CTR_TX /\ irq = "none"

\* What the host has to expect, by what it has set itself.
Expected(config) == Resolve(asked, config, hostCoding)
Answers          == {Expected(config) : config \in hostConfigs}

EndTransfer == stage' = "idle" /\ asked' = NoSetup /\ got' = 0

\* A SETUP is always taken, unless the packet before is not served yet, and
\* sets both directions to NAK.
TakeSetup(s) ==
  /\ Reachable /\ STAT_RX # "disabled" /\ ~CTR_RX
  /\ Prompt => Quiet
  /\ CTR_RX' = TRUE /\ rxBuf' = s
  /\ STAT_RX' = "nak" /\ STAT_TX' = "nak"
  /\ asked' = s /\ got' = 0
  /\ stage' = IF s.length = 0 THEN "status_in"
              ELSE IF s.dir = "in" THEN "data_in" ELSE "data_out"
  /\ UNCHANGED <<driverVars, CTR_TX, txBuf, DADDR, reset, hostAddr, hostCoding, intact>>

Setup(s) == stage = "idle" /\ TakeSetup(s) /\ UNCHANGED hostConfigs

\* The host may give up a transfer for another.  A SET_ADDRESS it repeats, or
\* else resets the bus: it could not tell which address to call.  After a
\* SET_CONFIGURATION the device may be in the old configuration or in the new.
Retry(s) ==
  /\ stage # "idle"
  /\ (\E answer \in Answers : answer.set_address >= 0) => s = asked
  /\ TakeSetup(s)
  /\ hostConfigs' = hostConfigs \cup ({answer.set_config : answer \in Answers} \ {-1})

\* An IN token that is answered with a packet.
InToken ==
  /\ Reachable /\ STAT_TX = "valid"
  /\ STAT_TX' = "nak" /\ CTR_TX' = TRUE
  /\ UNCHANGED <<driverVars, STAT_RX, CTR_RX, bufVars, DADDR, reset, hostCoding>>

\* Data: it must be the part that is due of the answer of a device that is in
\* a configuration it may be in; the host learns in which.  The stage ends with
\* a short packet or when the host has all it asked for; then the answer must
\* be complete.
InData ==
  LET after == got + txBuf.len
      last  == txBuf.len < MaxPacket \/ after >= asked.length
      Due(answer) == /\ txBuf = Empty \/ (txBuf.data = answer.data /\ txBuf.off = got)
                     /\ last => after = answer.len
  IN  /\ stage = "data_in"
      /\ InToken
      /\ got' = after
      /\ hostConfigs' = {config \in hostConfigs : Due(Expected(config))}
      /\ intact' = (intact /\ hostConfigs' # {})
      /\ stage' = IF last THEN "status_out" ELSE stage
      /\ UNCHANGED <<hostAddr, asked>>

\* Status: it must be empty.  What was set is in use from here on.
InStatus ==
  /\ stage = "status_in"
  /\ InToken
  /\ intact' = (intact /\ txBuf.len = 0)
  /\ \E answer \in Answers :
       /\ hostAddr' = IF answer.set_address >= 0 THEN answer.set_address ELSE hostAddr
       /\ hostConfigs' = IF answer.set_config >= 0 THEN {answer.set_config} ELSE hostConfigs
  /\ EndTransfer

\* An OUT packet that is taken.
OutToken(packet) ==
  /\ Reachable /\ STAT_RX = "valid" /\ ~CTR_RX
  /\ STAT_RX' = "nak" /\ CTR_RX' = TRUE /\ rxBuf' = packet
  /\ UNCHANGED <<driverVars, STAT_TX, CTR_TX, txBuf, DADDR, reset, hostAddr, hostConfigs, intact>>

\* The data of a control write, all of it or too little.
OutData(coding, len) ==
  /\ stage = "data_out"
  /\ OutToken(Packet(coding, 0, len))
  /\ stage' = "status_in"
  /\ hostCoding' = IF len = LineCodingLen THEN coding ELSE hostCoding
  /\ UNCHANGED <<asked, got>>

OutStatus ==
  /\ stage = "status_out"
  /\ OutToken(Empty)
  /\ EndTransfer
  /\ UNCHANGED hostCoding

\* The request is refused: the direction the host waits on answers STALL.
Refused == \/ stage \in {"data_in", "status_in"} /\ STAT_TX = "stall"
           \/ stage \in {"data_out", "status_out"} /\ STAT_RX = "stall"

Stalled ==
  /\ Reachable /\ Refused
  /\ EndTransfer
  /\ UNCHANGED <<driverVars, statVars, CTR_RX, CTR_TX, bufVars, DADDR, reset,
                 hostAddr, hostConfigs, hostCoding, intact>>

\* The first bus reset, or another one: EP0R is cleared, the CTR bits
\* excepted, and DADDR.
BusReset ==
  /\ up \in {"attached", "running"} /\ ~reset
  /\ reset' = TRUE
  /\ STAT_RX' = "disabled" /\ STAT_TX' = "disabled"
  /\ DADDR' = NoAddress
  /\ hostAddr' = 0 /\ hostConfigs' = {0} /\ hostCoding' = DefaultCoding
  /\ EndTransfer
  /\ UNCHANGED <<driverVars, CTR_RX, CTR_TX, bufVars, intact>>

SendsData == \E coding \in Codings, len \in {LineCodingLen - 1, LineCodingLen} : OutData(coding, len)
Retries   == \E s \in RetrySetups : Retry(s)
Proceeds  == InData \/ InStatus \/ SendsData \/ OutStatus \/ Stalled
Bus       == Proceeds \/ Retries \/ BusReset \/ \E s \in Setups : Setup(s)

Next == UsbCdcInit \/ UsbIrq \/ Bus

\* The interrupt is served; the host goes on with a transfer it has begun.
Spec == Init /\ [][Next]_vars /\ WF_vars(UsbIrq) /\ WF_vars(Proceeds)

-----------------------------------------------------------------------------
(* Properties.                                                             *)

\* Every variable has its type; a packet fits the endpoint (its place in the
\* packet memory is MaxPacket bytes), and s_ep0_in_ptr stays in its data.
TypeOK ==
  /\ s_ep0_in_off \in Nat /\ s_ep0_in_rem \in Nat
  /\ {s_ep0_in_zlp, s_ep0_out_data, s_addr_pending, CTR_RX, CTR_TX, reset, intact} \subseteq BOOLEAN
  /\ s_pending_addr \in 0 .. 127 /\ s_configured \in {0, 1}
  /\ s_line_coding \in Codings \cup {DefaultCoding}
  /\ up \in {"off", "powered", "cleared", "attached", "running"}
  /\ irq \in {"none", "ep0_handler"}
  /\ {STAT_RX, STAT_TX} \subseteq Stats
  /\ txBuf.len \in 0 .. MaxPacket
  /\ {DADDR, hostAddr} \subseteq NoAddress .. 127
  /\ hostConfigs \subseteq {0, 1} /\ stage \in Stages

\* What the host reads is the answer to what it asked, whole and in order, by
\* the configuration and the coding it has set (a SET_CONFIGURATION given up
\* may or may not have been carried out), and a status packet is empty
\* ("send resp.data[0..len), then OUT status", usb_ctrl.h:20), however a
\* transfer before ended.
ReadIntact == intact

\* Once the device has served its interrupts, the direction the host waits on
\* is armed or refuses: no control transfer hangs, neither for a terminating
\* packet that is not sent (usb_ctrl.c:54-60) nor for a status stage that is
\* not armed (usb_cdc.c:223-224).
HostIsServed ==
  Reachable /\ Quiet =>
    /\ stage \in {"data_in", "status_in"}   => STAT_TX \in {"valid", "stall"}
    /\ stage \in {"data_out", "status_out"} => STAT_RX \in {"valid", "stall"}

\* Between transfers no packet is left queued to be sent ("a blanket
\* ep0_send_status() here would queue a spurious IN packet on an
\* already-complete transfer", usb_cdc.c:345-347).
NoSpuriousIn == Quiet /\ ~reset /\ stage = "idle" => STAT_TX # "valid"

\* Between transfers host and device agree on the device's address: it is
\* applied after the status stage and not before, once, and never after a
\* reset that came in between (usb_cdc.c:195-196, 359-363, 399); and no reset
\* is lost while the device comes up (usb_cdc.c:465-475).
AddressAgrees ==
  Quiet /\ ~reset /\ stage = "idle" /\ hostAddr # NoAddress => DADDR = hostAddr

\* The coding GET_LINE_CODING echoes is the last one the host sent in full
\* since the bus was reset (usb_cdc.c:330-337, 403-404).
LineCodingAgrees == Quiet /\ ~reset => s_line_coding = hostCoding

\* The requests a host makes by what the descriptors tell it.
Entitled(s) ==
  \/ /\ s.type = "standard"
     /\ \/ s.request = "GET_DESCRIPTOR" /\ s.dir = "in" /\ s.recip = "device"
           /\ s.value \in {256, 512} \cup {768 + i : i \in DeclaredStrings}
        \/ s.request = "SET_CONFIGURATION" /\ s.dir = "out" /\ s.recip = "device"
           /\ s.length = 0 /\ s.index = 0 /\ s.value = ConfigurationValue
        \/ s.request = "GET_STATUS" /\ s.dir = "in" /\ s.length = 2 /\ s.value = 0
           /\ \/ s.recip = "interface" /\ s.index \in Interfaces
              \/ s.recip = "endpoint" /\ s.index \in DeclaredEndpoints
        \/ s.request \in {"CLEAR_FEATURE", "SET_FEATURE"} /\ s.dir = "out" /\ s.length = 0
           /\ s.value = EndpointHalt /\ s.recip = "endpoint" /\ s.index \in DeclaredEndpoints
  \/ /\ s.type = "class" /\ s.recip = "interface" /\ s.index \in ControlInterfaces /\ LineRequests
     /\ \/ s.value = 0 /\ <<s.request, s.dir, s.length>> \in
             {<<"GET_LINE_CODING", "in", 7>>, <<"SET_LINE_CODING", "out", 7>>}
        \/ <<s.request, s.dir, s.length>> = <<"SET_CONTROL_LINE_STATE", "out", 0>>

\* The requests that go to what the descriptors do not declare.
Undeclared(s) ==
  \/ s.recip = "interface" /\ s.index \notin Interfaces
  \/ s.recip = "endpoint" /\ s.index \notin {0} \cup DeclaredEndpoints
  \/ s.type = "class" /\ s.index \notin ControlInterfaces
  \/ s.request = "SET_CONFIGURATION" /\ s.value \notin {0, ConfigurationValue}
  \/ s.request = "GET_DESCRIPTOR" /\ s.value \div 256 = 3 /\ s.value % 256 \notin DeclaredStrings

\* The device does what its descriptors promise and nothing beyond them,
\* although resolver and descriptors are two tables kept by hand ("must match
\* usb_desc.c's config descriptor", usb_ctrl.c:31-35); and a host that has
\* read the configuration descriptor whole can parse it (usb_desc.h:28).
DescriptorsHonoured ==
  /\ Reachable /\ Quiet /\ stage # "idle" =>
       /\ Entitled(asked) => ~Refused
       /\ Undeclared(asked) => Refused
  /\ stage = "status_out" /\ txBuf.data = "config" /\ got = usb_config_desc[1].total =>
       ConfigParses

\* A transfer ends, with its status stage or refused, unless the host gives
\* up transfers for ever.
TransfersEnd == []<><<Retries>>_vars \/ (stage # "idle" ~> stage = "idle")
=============================================================================
