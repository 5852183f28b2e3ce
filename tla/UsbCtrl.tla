------------------------------ MODULE UsbCtrl ------------------------------
(***************************************************************************)
(* The control-request resolver, src/usb_ctrl.c: what a SETUP packet is    *)
(* answered with.  A pure function; UsbEp0 carries its answers out.        *)
(*                                                                         *)
(* A SETUP packet is a record of its decoded fields.  Data is named, not   *)
(* spelled out: which table or buffer it comes from, or which value, and   *)
(* how many bytes.                                                         *)
(***************************************************************************)
EXTENDS UsbDesc

CONSTANT MaxPacket   \* USB_CDC_EP0_MAXPACKET
ASSUME MaxPacketAssumption == MaxPacket \in Nat \ {0}

StrbufLen     == 64     \* sizeof s_strbuf: the scratch storage
LineCodingLen == 7      \* USB_CDC_LINE_CODING_LEN
NumInterfaces == 2      \* communication (0) and data (1)
CommInterface == 0
EndpointHalt  == 0

\* A SETUP packet: type, direction and recipient are bits of bmRequestType,
\* the rest is two bytes each; any request code may come.
Word == 0 .. 65535
SetupPackets ==
  [type : {"standard", "class", "vendor", "reserved"}, dir : {"in", "out"},
   recip : {"device", "interface", "endpoint", "other"}, request : STRING,
   value : Word, index : Word, length : Word]

\* Fault: the notification endpoint is forgotten.
EndpointsOfData == {0, 1, 129}

Endpoints == {0, 1, 129, 130}   \* valid_endpoint: EP0, EP1 OUT, EP1 IN, EP2 IN

\* The answer: what to do, with which data; an address or a configuration to
\* apply, -1 if none.
Answer(kind) == [kind |-> kind, data |-> "none", len |-> 0, zlp |-> FALSE,
                 set_address |-> -1, set_config |-> -1]

StallIt   == Answer("stall")
StatusIt  == Answer("status")
ExpectOut == Answer("expect_out")

\* Fault: a terminating packet also after all that was asked for.
ZlpAlways(sent, wlen) == sent # 0 /\ sent % MaxPacket = 0

\* usb_ctrl_zlp_needed
ZlpNeeded(sent, wlen) == sent # 0 /\ sent < wlen /\ sent % MaxPacket = 0

TxData(data, full, wlen) ==
  LET len == IF full > wlen THEN wlen ELSE full
  IN  [Answer("tx_data") EXCEPT !.data = data, !.len = len, !.zlp = ZlpNeeded(len, wlen)]

OnlyIf(legal, answer) == IF legal THEN answer ELSE StallIt

StringNames == [i \in 0 .. 3 |-> <<"languages", "manufacturer", "product", "serial">>[i + 1]]

GetDescriptor(s) ==
  LET type == s.value \div 256
      n    == usb_desc_string(s.value % 256, StrbufLen)
  IN  CASE type = 1 -> TxData("device", DeviceLen, s.length)
        [] type = 2 -> TxData("config", ConfigLen, s.length)
        [] type = 3 /\ n # 0 -> TxData(StringNames[s.value % 256], n, s.length)
        [] OTHER -> StallIt

\* The recipient of GET_STATUS exists.
RecipientExists(s) ==
  \/ s.recip = "device" /\ s.index = 0
  \/ s.recip = "interface" /\ s.index < NumInterfaces
  \/ s.recip = "endpoint" /\ s.index \in Endpoints

ResolveStandard(s, configured) ==
  LET toDevice == s.recip = "device"
      out      == s.dir = "out"
      nothing  == s.length = 0 /\ s.index = 0
  IN  CASE s.request = "GET_DESCRIPTOR" ->
             OnlyIf(~out /\ toDevice, GetDescriptor(s))
        [] s.request = "SET_ADDRESS" ->
             OnlyIf(out /\ toDevice /\ s.value <= 127 /\ nothing,
                    [StatusIt EXCEPT !.set_address = s.value])
        [] s.request = "SET_CONFIGURATION" ->
             OnlyIf(out /\ toDevice /\ nothing /\ s.value \in {0, 1},
                    [StatusIt EXCEPT !.set_config = s.value])
        [] s.request = "GET_CONFIGURATION" ->
             OnlyIf(~out /\ toDevice /\ s.value = 0 /\ s.index = 0 /\ s.length = 1,
                    TxData(IF configured # 0 THEN "one" ELSE "zero", 1, s.length))
        [] s.request = "GET_STATUS" ->
             OnlyIf(~out /\ s.value = 0 /\ s.length = 2 /\ RecipientExists(s),
                    TxData(IF toDevice THEN "self_powered" ELSE "zeros", 2, s.length))
        [] s.request \in {"CLEAR_FEATURE", "SET_FEATURE"} ->
             OnlyIf(/\ out /\ s.length = 0
                    /\ s.recip = "endpoint" /\ s.value = EndpointHalt /\ s.index \in Endpoints,
                    StatusIt)
        [] OTHER -> StallIt

ResolveClass(s, line_coding) ==
  LET toComm == s.recip = "interface" /\ s.index = CommInterface
      coding == s.value = 0 /\ s.length = LineCodingLen
  IN  CASE s.request = "GET_LINE_CODING" ->
             OnlyIf(toComm /\ s.dir = "in" /\ coding,
                    TxData(line_coding, LineCodingLen, s.length))
        [] s.request = "SET_LINE_CODING" ->
             OnlyIf(toComm /\ s.dir = "out" /\ coding, ExpectOut)
        [] s.request = "SET_CONTROL_LINE_STATE" ->
             OnlyIf(toComm /\ s.dir = "out" /\ s.length = 0, StatusIt)
        [] OTHER -> StallIt

\* usb_ctrl_resolve
Resolve(s, configured, line_coding) ==
  CASE s.type = "standard" -> ResolveStandard(s, configured)
    [] s.type = "class"    -> ResolveClass(s, line_coding)
    [] OTHER               -> StallIt
=============================================================================
