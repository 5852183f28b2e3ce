------------------------------ MODULE MCUsbEp0 -----------------------------
(***************************************************************************)
(* UsbEp0 with packets of 8 bytes: descriptors of 3 to 9 packets, one of   *)
(* them (string 1, 24 bytes) without a short packet at its end.            *)
(***************************************************************************)
EXTENDS UsbEp0

Request(type, dir, recip, request, value, index, length) ==
  [type |-> type, dir |-> dir, recip |-> recip, request |-> request,
   value |-> value, index |-> index, length |-> length]

\* Reads of every descriptor, cut at, below and above a packet's end.
Reads == {Request("standard", "in", "device", "GET_DESCRIPTOR", value, 0, length) :
            value \in {256, 512, 768, 769, 770, 771, 772, 1536}, length \in {0, 7, 8, 24, 25, 255}}

\* Other requests, legal and not.
Others ==
  {Request("standard", dir, "device", request, value, 0, length) :
     dir \in {"in", "out"}, value \in {0, 1, 200},
     request \in {"SET_ADDRESS", "SET_CONFIGURATION", "GET_CONFIGURATION"}, length \in {0, 1}}
  \cup
  {Request("standard", dir, recip, request, 0, index, IF request = "GET_STATUS" THEN 2 ELSE 0) :
     dir \in {"in", "out"}, recip \in {"device", "interface", "endpoint"},
     request \in {"GET_STATUS", "CLEAR_FEATURE", "SET_FEATURE"}, index \in {0, 1, 2, 129, 130}}
  \cup
  {Request("standard", "out", recip, "SET_FEATURE", 1, 0, length) :
     recip \in {"device", "endpoint"}, length \in {0, 1}}
  \cup
  {Request("class", dir, "interface", request, 0, index, length) :
     dir \in {"in", "out"}, index \in {0, 1}, length \in {0, 7},
     request \in {"GET_LINE_CODING", "SET_LINE_CODING", "SET_CONTROL_LINE_STATE"}}
  \cup {Request("vendor", "in", "device", "GET_STATUS", 0, 0, 2)}

MCSetups == Reads \cup Others

MCRetrySetups ==
  {Request("standard", "in", "device", "GET_DESCRIPTOR", 512, 0, 255),
   Request("standard", "out", "device", "SET_ADDRESS", 1, 0, 0),
   Request("standard", "out", "device", "SET_CONFIGURATION", 1, 0, 0),
   Request("class", "out", "interface", "SET_LINE_CODING", 0, 0, 7)}
=============================================================================
