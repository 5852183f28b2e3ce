------------------------------ MODULE UsbDesc ------------------------------
(***************************************************************************)
(* The descriptors, src/usb_desc.c: which there are, how long they are,    *)
(* and what a host learns from them.  Fields no request depends on (class  *)
(* codes, VID and PID, power) are left out.                                *)
(***************************************************************************)
EXTENDS Integers, Sequences, FiniteSets

DeviceLen == 18      \* USB_CDC_DEVICE_LEN
ConfigLen == 67      \* USB_CDC_CONFIG_TOTAL_LEN

\* usb_device_desc: its string descriptors.
usb_device_desc == [iManufacturer |-> 1, iProduct |-> 2, iSerialNumber |-> 3]

Interface(number, endpoints) ==
  [type |-> "interface", len |-> 9, number |-> number, endpoints |-> endpoints]
Endpoint(address) == [type |-> "endpoint", len |-> 7, address |-> address]

\* usb_config_desc, descriptor by descriptor.
usb_config_desc == <<
  [type |-> "config", len |-> 9, total |-> ConfigLen, interfaces |-> 2, value |-> 1,
   self_powered |-> TRUE],
  Interface(0, 1),
    [type |-> "header", len |-> 5],
    [type |-> "call_management", len |-> 5, data |-> 1],
    [type |-> "acm", len |-> 4, line_requests |-> TRUE],
    [type |-> "union", len |-> 5, control |-> 0, subordinate |-> 1],
    Endpoint(130),
  Interface(1, 2),
    Endpoint(1),
    Endpoint(129) >>

\* The characters of strings 1, 2 and 3.
k_strings == <<11, 22, 8>>

\* usb_desc_string: how many bytes it builds in `buflen' of them, 0 if it
\* refuses.
usb_desc_string(i, buflen) ==
  LET total == IF i = 0 THEN 4 ELSE 2 + 2 * k_strings[i]
  IN  IF i \in 0 .. Len(k_strings) /\ total <= 255 /\ total <= buflen THEN total ELSE 0

-----------------------------------------------------------------------------
(* What a host makes of them.                                              *)

Declared(type)     == {usb_config_desc[i] : i \in {j \in DOMAIN usb_config_desc : usb_config_desc[j].type = type}}
ConfigurationValue == usb_config_desc[1].value
Interfaces         == {d.number : d \in Declared("interface")}
DeclaredEndpoints  == {d.address : d \in Declared("endpoint")}
ControlInterfaces  == {d.control : d \in Declared("union")}
LineRequests       == \E d \in Declared("acm") : d.line_requests
DeclaredStrings    == {0} \cup {usb_device_desc[f] : f \in DOMAIN usb_device_desc}

\* Where descriptor n ends.
End[n \in 0 .. Len(usb_config_desc)] == IF n = 0 THEN 0 ELSE End[n - 1] + usb_config_desc[n].len

\* The endpoints that follow interface descriptor i.
EndpointsOf(i) ==
  {j \in i + 1 .. Len(usb_config_desc) :
     usb_config_desc[j].type = "endpoint" /\ \A k \in i + 1 .. j : usb_config_desc[k].type # "interface"}

\* Read to its end, the configuration descriptor is as long as it says, has as
\* many interfaces as it says, each followed by as many endpoints as it says,
\* and refers to interfaces there are.
ConfigParses ==
  LET d == usb_config_desc
  IN  /\ End[Len(d)] = d[1].total
      /\ Interfaces = 0 .. d[1].interfaces - 1
      /\ \A i \in DOMAIN d : d[i].type = "interface" =>
           d[i].endpoints = Cardinality(EndpointsOf(i))
      /\ \A u \in Declared("union") : {u.control, u.subordinate} \subseteq Interfaces
      /\ \A c \in Declared("call_management") : c.data \in Interfaces
=============================================================================
