---------------------------- MODULE UsbEp0Proofs ---------------------------
(***************************************************************************)
(* Proofs about control transfers, for all packets a host may send, all    *)
(* packet sizes and line codings.  The invariant is the diagram of a       *)
(* transfer: the phases host, peripheral and driver go through together    *)
(* while the host is prompt, and from each phase to the next one action.   *)
(***************************************************************************)
EXTENDS UsbEp0, FiniteSetTheorems, ArithmeticFacts, TLAPS

-----------------------------------------------------------------------------
(* Types.                                                                  *)

OutPackets == {Packet(coding, 0, len) : coding \in Codings, len \in {LineCodingLen - 1, LineCodingLen}}

InEnd   == /\ s_ep0_in_off \in Nat /\ s_ep0_in_rem \in Nat /\ txBuf.len \in 0 .. MaxPacket
Flags   == /\ s_ep0_in_zlp \in BOOLEAN /\ s_ep0_out_data \in BOOLEAN /\ s_addr_pending \in BOOLEAN
           /\ CTR_RX \in BOOLEAN /\ CTR_TX \in BOOLEAN /\ reset \in BOOLEAN /\ intact \in BOOLEAN
Numbers == /\ s_pending_addr \in 0 .. 127 /\ s_configured \in {0, 1}
           /\ DADDR \in NoAddress .. 127 /\ hostAddr \in NoAddress .. 127
           /\ hostConfigs \subseteq {0, 1}
Names   == /\ up \in {"off", "powered", "cleared", "attached", "running"}
           /\ irq \in {"none", "ep0_handler"}
           /\ STAT_RX \in Stats /\ STAT_TX \in Stats /\ stage \in Stages
Coded   == /\ s_line_coding \in Codings \cup {DefaultCoding}
           /\ hostCoding \in Codings \cup {DefaultCoding}
           /\ rxBuf \in Setups \cup OutPackets \cup {Empty}
Asking  == asked \in Setups \cup {NoSetup} /\ got \in Nat

Types == InEnd /\ Flags /\ Numbers /\ Names /\ Coded /\ Asking

-----------------------------------------------------------------------------
(* The phases of a transfer.                                               *)

\* The answer to expect of a device in the configuration this one is in.
Reply == Expected(s_configured)

\* No bus reset yet: nothing has happened on the bus.
Silent ==
  /\ hostAddr = NoAddress /\ DADDR = NoAddress /\ stage = "idle"
  /\ reset => up = "powered"
  /\ STAT_RX = "disabled" /\ STAT_TX = "disabled"
  /\ ~CTR_RX /\ ~CTR_TX /\ irq = "none"
  /\ s_line_coding = hostCoding

\* A bus reset is still to be served.
Resetting ==
  /\ reset /\ up \in {"attached", "running"}
  /\ hostAddr = 0 /\ hostConfigs = {0} /\ hostCoding = DefaultCoding
  /\ stage = "idle" /\ asked = NoSetup /\ got = 0

\* No data is left to be sent.
NothingLeft == s_ep0_in_rem = 0 /\ ~s_ep0_in_zlp

\* The driver's state is what the host has set, or may have, with no address to
\* apply.
Agreed ==
  /\ DADDR = hostAddr /\ ~s_addr_pending
  /\ s_configured \in hostConfigs /\ s_line_coding = hostCoding

\* A SETUP packet is to be served; before it, the same one may have been.
Asked ==
  /\ asked \in Setups /\ CTR_RX /\ rxBuf = asked /\ got = 0
  /\ stage = IF asked.length = 0 THEN "status_in"
             ELSE IF asked.dir = "in" THEN "data_in" ELSE "data_out"
  /\ STAT_RX = "nak" /\ STAT_TX = "nak" /\ ~CTR_TX /\ irq = "none"
  /\ DADDR = hostAddr /\ s_line_coding = hostCoding
  /\ s_configured \in hostConfigs
  /\ s_addr_pending => s_pending_addr = Reply.set_address

\* Between transfers.  An address the host has set may be still to apply.
Idle ==
  /\ stage = "idle" /\ asked = NoSetup /\ got = 0
  /\ NothingLeft /\ ~s_ep0_out_data
  /\ STAT_TX # "valid" /\ STAT_RX # "disabled"
  /\ CTR_RX => rxBuf = Empty
  /\ s_configured \in hostConfigs /\ s_line_coding = hostCoding
  /\ IF s_addr_pending THEN CTR_TX /\ s_pending_addr = hostAddr ELSE DADDR = hostAddr

\* A data stage: `Reply' is sent from `got' on.
DataStage ==
  /\ stage = "data_in" /\ asked \in Setups /\ Reply.kind = "tx_data"
  /\ 0 < Reply.len
  /\ Agreed /\ ~CTR_RX /\ ~s_ep0_out_data /\ STAT_RX = "valid"
  /\ got % MaxPacket = 0 /\ got <= Reply.len
  /\ s_ep0_in_off + s_ep0_in_rem = Reply.len
  /\ s_ep0_in_rem > 0 => s_ep0_in_data = Reply.data

\* A packet is on offer: the next one of the answer, or the terminating one.
Sending ==
  /\ DataStage /\ STAT_TX = "valid" /\ ~CTR_TX
  /\ \/ /\ txBuf = Packet(Reply.data, got, Smaller(Reply.len - got, MaxPacket))
        /\ got < Reply.len
        /\ s_ep0_in_off = got + txBuf.len /\ s_ep0_in_zlp = Reply.zlp
     \/ txBuf = Empty /\ got = Reply.len /\ NothingLeft

\* The host has taken a packet that was not the last.
Taken ==
  /\ DataStage /\ STAT_TX = "nak" /\ CTR_TX
  /\ got = s_ep0_in_off /\ s_ep0_in_zlp = Reply.zlp
  /\ s_ep0_in_rem > 0 \/ s_ep0_in_zlp

\* The host has all data, its status packet is awaited.
AwaitingStatus ==
  /\ stage = "status_out" /\ asked \in Setups /\ Reply.kind = "tx_data"
  /\ Agreed /\ NothingLeft /\ ~s_ep0_out_data /\ ~CTR_RX
  /\ STAT_RX = "valid" /\ STAT_TX = "nak"

\* The data of a control write is awaited, then to be served.
AwaitingData ==
  /\ stage = "data_out" /\ asked \in Setups /\ Reply.kind = "expect_out"
  /\ Agreed /\ NothingLeft /\ s_ep0_out_data /\ ~CTR_RX /\ ~CTR_TX
  /\ STAT_RX = "valid" /\ STAT_TX = "nak"

DataReceived ==
  /\ stage = "status_in" /\ asked \in Setups /\ Reply.kind = "expect_out"
  /\ DADDR = hostAddr /\ ~s_addr_pending /\ s_configured \in hostConfigs
  /\ NothingLeft /\ s_ep0_out_data /\ CTR_RX /\ ~CTR_TX
  /\ STAT_RX = "nak" /\ STAT_TX = "nak"
  /\ rxBuf \in OutPackets
  /\ hostCoding = IF rxBuf.len >= LineCodingLen THEN rxBuf.data ELSE s_line_coding

\* The status packet is on offer; what the request sets, the driver has set.
Confirming ==
  /\ stage = "status_in" /\ asked \in Setups /\ Reply.kind # "stall"
  /\ DADDR = hostAddr /\ s_line_coding = hostCoding
  /\ NothingLeft /\ ~s_ep0_out_data /\ ~CTR_RX /\ ~CTR_TX
  /\ STAT_TX = "valid" /\ STAT_RX # "disabled" /\ txBuf.len = 0
  /\ Reply \in Answers
  /\ IF Reply.set_config >= 0 THEN s_configured = Reply.set_config ELSE s_configured \in hostConfigs
  /\ IF Reply.set_address >= 0 THEN s_addr_pending /\ s_pending_addr = Reply.set_address
                                  ELSE ~s_addr_pending

\* The request is refused.
Refusing ==
  /\ stage \in {"data_in", "data_out", "status_in"} /\ asked \in Setups /\ Reply.kind = "stall"
  /\ Agreed /\ NothingLeft /\ ~s_ep0_out_data /\ ~CTR_RX /\ ~CTR_TX
  /\ STAT_TX = "stall" /\ STAT_RX = "stall"

Attended ==
  /\ up = "running" /\ ~reset /\ hostAddr # NoAddress
  /\ \/ Asked \/ Idle \/ Sending \/ Taken \/ AwaitingStatus
     \/ AwaitingData \/ DataReceived \/ Confirming \/ Refusing

IInv == Types /\ intact /\ (Silent \/ Resetting \/ Attended)

-----------------------------------------------------------------------------
(* The answers to a SETUP packet.                                          *)

\* What the driver relies on in an answer: its kind fits the direction and
\* the length of the request, and only a status answer changes anything.
Sound(answer, s) ==
  /\ answer.kind \in {"stall", "tx_data", "status", "expect_out"}
  /\ answer.set_address \in -1 .. 127 /\ answer.set_config \in {-1, 0, 1}
  /\ answer.len \in Nat /\ answer.zlp \in BOOLEAN
  /\ answer.kind # "status" => answer.set_address = -1 /\ answer.set_config = -1
  /\ answer.kind = "status" => s.length = 0
  /\ answer.kind = "expect_out" => s.dir = "out" /\ s.length = LineCodingLen
  /\ answer.kind = "tx_data" =>
       /\ s.dir = "in" /\ answer.len <= s.length
       /\ s.length > 0 => answer.len > 0
       /\ answer.zlp = ZlpNeeded(answer.len, s.length)

\* The fields of a SETUP packet.
LEMMA SetupFields ==
  ASSUME NEW s \in SetupPackets
  PROVE  /\ s.dir \in {"in", "out"} /\ s.type # "none"
         /\ s.value \in Nat /\ s.index \in Nat /\ s.length \in Nat
         /\ s.value % 256 \in 0 .. 255 /\ s.value \div 256 \in Nat
<1>1. \A w \in Word : w \in Nat /\ w % 256 \in 0 .. 255 /\ w \div 256 \in Nat
  <2>1. \A w \in Word : w \in Nat
    <3>1. PICK most \in Nat : most = 65535
      OBVIOUS
    <3>2. Word = 0 .. most
      BY <3>1 DEF Word
    <3> QED BY <3>2
  <2>2. \A w \in Nat : w % 256 \in 0 .. 255 /\ w \div 256 \in Nat
    OBVIOUS
  <2> QED BY <2>1, <2>2
<1>2. s.value \in Word /\ s.index \in Word /\ s.length \in Word
  BY DEF SetupPackets
<1>3. s.dir \in {"in", "out"} /\ s.type # "none"
  BY DEF SetupPackets
<1> QED BY <1>1, <1>2, <1>3

LEMMA StallSound == \A s : Sound(StallIt, s)
BY DEF Sound, StallIt, Answer

LEMMA StatusSound ==
  ASSUME NEW s, s.length = 0
  PROVE  /\ Sound(StatusIt, s)
         /\ \A a \in -1 .. 127 : Sound([StatusIt EXCEPT !.set_address = a], s)
         /\ \A c \in {-1, 0, 1} : Sound([StatusIt EXCEPT !.set_config = c], s)
BY DEF Sound, StatusIt, Answer

LEMMA DataSound ==
  ASSUME NEW s \in SetupPackets, s.dir = "in", NEW data, NEW full \in Nat \ {0}
  PROVE  Sound(TxData(data, full, s.length), s)
<1>1. s.length \in Nat
  BY SetupFields
<1>2. PICK len \in Nat : /\ len = IF full > s.length THEN s.length ELSE full
                         /\ TxData(data, full, s.length) =
                              [Answer("tx_data") EXCEPT !.data = data, !.len = len,
                                                        !.zlp = ZlpNeeded(len, s.length)]
  BY <1>1 DEF TxData
<1>3. ZlpNeeded(len, s.length) \in BOOLEAN
  BY DEF ZlpNeeded
<1>4. len <= s.length /\ (s.length > 0 => len > 0)
  BY <1>1, <1>2
<1>5. TxData(data, full, s.length) =
        [kind |-> "tx_data", data |-> data, len |-> len, zlp |-> ZlpNeeded(len, s.length),
         set_address |-> -1, set_config |-> -1]
  BY <1>2 DEF Answer
<1> QED BY <1>1, <1>3, <1>4, <1>5 DEF Sound

LEMMA DataFields ==
  ASSUME NEW data, NEW full, NEW wlen
  PROVE  /\ TxData(data, full, wlen).kind = "tx_data" /\ TxData(data, full, wlen).set_config = -1
         /\ TxData(data, full, wlen).set_address = -1
<1> DEFINE len == IF full > wlen THEN wlen ELSE full
<1>1. TxData(data, full, wlen) =
        [Answer("tx_data") EXCEPT !.data = data, !.len = len, !.zlp = ZlpNeeded(len, wlen)]
  BY DEF TxData
<1> HIDE DEF len
<1>2. TxData(data, full, wlen) =
        [kind |-> "tx_data", data |-> data, len |-> len, zlp |-> ZlpNeeded(len, wlen),
         set_address |-> -1, set_config |-> -1]
  BY <1>1 DEF Answer
<1> QED BY <1>2

LEMMA StringLengths == \A n \in 0 .. 255 : usb_desc_string(n, StrbufLen) \in Nat
<1> SUFFICES ASSUME NEW n \in 0 .. 255 PROVE usb_desc_string(n, StrbufLen) \in Nat
  OBVIOUS
<1>1. Len(k_strings) = 3 /\ k_strings[1] = 11 /\ k_strings[2] = 22 /\ k_strings[3] = 8
  BY DEF k_strings
<1>2. CASE n = 0
  BY <1>2 DEF usb_desc_string
<1>3. CASE n \in 1 .. 3
  BY <1>1, <1>3 DEF usb_desc_string
<1>4. CASE n > 3
  BY <1>1, <1>4 DEF usb_desc_string
<1> QED BY <1>2, <1>3, <1>4

\* The two tables are not empty.
LEMMA TableLengths == DeviceLen \in Nat \ {0} /\ ConfigLen \in Nat \ {0}
BY DEF DeviceLen, ConfigLen

LEMMA DescriptorSound ==
  ASSUME NEW s \in SetupPackets, s.dir = "in"
  PROVE  Sound(GetDescriptor(s), s)
<1>1. s.value % 256 \in 0 .. 255
  BY SetupFields
<1>2. PICK n \in Nat : n = usb_desc_string(s.value % 256, StrbufLen)
  BY <1>1, StringLengths
<1>3. \/ GetDescriptor(s) = TxData("device", DeviceLen, s.length)
      \/ GetDescriptor(s) = TxData("config", ConfigLen, s.length)
      \/ n # 0 /\ GetDescriptor(s) = TxData(StringNames[s.value % 256], n, s.length)
      \/ GetDescriptor(s) = StallIt
  BY <1>2 DEF GetDescriptor
<1> QED BY <1>3, TableLengths, DataSound, StallSound

LEMMA StandardSound ==
  ASSUME NEW s \in SetupPackets, NEW c
  PROVE  Sound(ResolveStandard(s, c), s)
<1>1. s.dir \in {"in", "out"} /\ s.value \in Nat /\ s.length \in Nat
  BY SetupFields
<1>2. CASE s.request = "GET_DESCRIPTOR"
  BY <1>1, <1>2, DescriptorSound, StallSound DEF ResolveStandard, OnlyIf
<1>3. CASE s.request = "SET_ADDRESS"
  <2>1. s.value <= 127 /\ s.length = 0 => Sound([StatusIt EXCEPT !.set_address = s.value], s)
    <3>1. s.value <= 127 => s.value \in -1 .. 127
      BY <1>1
    <3> QED BY <3>1, StatusSound
  <2>2. \/ ResolveStandard(s, c) = StallIt
        \/ /\ s.value <= 127 /\ s.length = 0
           /\ ResolveStandard(s, c) = [StatusIt EXCEPT !.set_address = s.value]
    BY <1>3 DEF ResolveStandard, OnlyIf
  <2> QED BY <2>1, <2>2, StallSound
<1>4. CASE s.request = "SET_CONFIGURATION"
  <2>1. s.value \in {0, 1} /\ s.length = 0 => Sound([StatusIt EXCEPT !.set_config = s.value], s)
    <3>1. s.value \in {0, 1} => s.value \in {-1, 0, 1}
      BY <1>1
    <3> QED BY <3>1, StatusSound
  <2>2. \/ ResolveStandard(s, c) = StallIt
        \/ /\ s.value \in {0, 1} /\ s.length = 0
           /\ ResolveStandard(s, c) = [StatusIt EXCEPT !.set_config = s.value]
    BY <1>4 DEF ResolveStandard, OnlyIf
  <2> QED BY <2>1, <2>2, StallSound
<1>5. CASE s.request = "GET_CONFIGURATION"
  BY <1>1, <1>5, DataSound, StallSound DEF ResolveStandard, OnlyIf
<1>6. CASE s.request = "GET_STATUS"
  BY <1>1, <1>6, DataSound, StallSound DEF ResolveStandard, OnlyIf
<1>7. CASE s.request \in {"CLEAR_FEATURE", "SET_FEATURE"}
  BY <1>1, <1>7, StatusSound, StallSound DEF ResolveStandard, OnlyIf
<1>8. CASE s.request \notin {"GET_DESCRIPTOR", "SET_ADDRESS", "SET_CONFIGURATION",
                             "GET_CONFIGURATION", "GET_STATUS", "CLEAR_FEATURE", "SET_FEATURE"}
  BY <1>8, StallSound DEF ResolveStandard
<1> QED BY <1>2, <1>3, <1>4, <1>5, <1>6, <1>7, <1>8

LEMMA ClassSound ==
  ASSUME NEW s \in SetupPackets, NEW l
  PROVE  Sound(ResolveClass(s, l), s)
<1>1. s.dir \in {"in", "out"} /\ s.length \in Nat /\ LineCodingLen \in Nat \ {0}
  BY SetupFields DEF LineCodingLen
<1>2. CASE s.request = "GET_LINE_CODING"
  BY <1>1, <1>2, DataSound, StallSound DEF ResolveClass, OnlyIf
<1>3. CASE s.request = "SET_LINE_CODING"
  <2>1. s.dir = "out" /\ s.length = LineCodingLen => Sound(ExpectOut, s)
    BY DEF Sound, ExpectOut, Answer
  <2> QED BY <1>1, <1>3, <2>1, StallSound DEF ResolveClass, OnlyIf
<1>4. CASE s.request = "SET_CONTROL_LINE_STATE"
  BY <1>1, <1>4, StatusSound, StallSound DEF ResolveClass, OnlyIf
<1>5. CASE s.request \notin {"GET_LINE_CODING", "SET_LINE_CODING", "SET_CONTROL_LINE_STATE"}
  BY <1>5, StallSound DEF ResolveClass
<1> QED BY <1>2, <1>3, <1>4, <1>5

\* Every answer is sound.
THEOREM ResolveSound ==
  ASSUME NEW s \in SetupPackets, NEW c, NEW l
  PROVE  Sound(Resolve(s, c, l), s)
BY StandardSound, ClassSound, StallSound DEF Resolve

\* The answer does not depend on a configuration it changes, nor on a line
\* coding it asks the host for.
LEMMA ResolveAgain ==
  ASSUME NEW s \in SetupPackets, NEW c, NEW d, NEW l
  PROVE  Resolve(s, c, l).set_config >= 0 => Resolve(s, d, l) = Resolve(s, c, l)
<1>1. CASE s.type = "standard" /\ s.request = "GET_CONFIGURATION"
  <2>1. \/ Resolve(s, c, l) = StallIt
        \/ Resolve(s, c, l) = TxData("one", 1, s.length)
        \/ Resolve(s, c, l) = TxData("zero", 1, s.length)
    BY <1>1 DEF Resolve, ResolveStandard, OnlyIf
  <2>2. Resolve(s, c, l).set_config = -1
    BY <2>1, DataFields DEF StallIt, Answer
  <2> QED BY <2>2
<1>2. CASE ~(s.type = "standard" /\ s.request = "GET_CONFIGURATION")
  BY <1>2 DEF Resolve, ResolveStandard
<1> QED BY <1>1, <1>2

LEMMA ResolveForOut ==
  ASSUME NEW s \in SetupPackets, NEW c, NEW l, NEW m, Resolve(s, c, l).kind = "expect_out"
  PROVE  Resolve(s, c, m) = Resolve(s, c, l)
<1>1. CASE s.type = "class" /\ s.request = "GET_LINE_CODING"
  <2>1. \/ Resolve(s, c, l) = StallIt
        \/ Resolve(s, c, l) = TxData(l, LineCodingLen, s.length)
    BY <1>1 DEF Resolve, ResolveClass, OnlyIf
  <2>2. Resolve(s, c, l).kind # "expect_out"
    BY <2>1, DataFields DEF StallIt, Answer
  <2> QED BY <2>2
<1>2. CASE ~(s.type = "class" /\ s.request = "GET_LINE_CODING")
  BY <1>2 DEF Resolve, ResolveClass
<1> QED BY <1>1, <1>2

\* A data packet is no SETUP packet, and no SETUP packet is none.
LEMMA PacketsApart ==
  /\ NoSetup \notin Setups
  /\ \A p \in OutPackets \cup {Empty} : p \notin Setups
  /\ \A p \in OutPackets : p.len \in Nat /\ p.data \in Codings
  /\ Empty.len = 0
  /\ \A s \in Setups : s \in SetupPackets
<1>1. \A s \in Setups : s \in SetupPackets
  BY Ep0Assumption
<1>2. NoSetup \notin Setups
  BY <1>1, SetupFields DEF NoSetup
<1>3. ASSUME NEW d, NEW o, NEW n PROVE Packet(d, o, n) \notin Setups
  <2>1. Packet(d, o, n) \notin SetupPackets
    BY DEF Packet, SetupPackets
  <2> QED BY <1>1, <2>1
<1>4. \A p \in OutPackets \cup {Empty} : p \notin Setups
  BY <1>3 DEF OutPackets, Empty
<1>5. \A p \in OutPackets : p.len \in Nat /\ p.data \in Codings
  BY DEF OutPackets, Packet, LineCodingLen
<1>6. Empty.len = 0
  BY DEF Empty, Packet
<1> QED BY <1>1, <1>2, <1>4, <1>5, <1>6

\* What a request sets does not depend on the configuration.
LEMMA ResolveSets ==
  ASSUME NEW s \in SetupPackets, NEW c, NEW d, NEW l
  PROVE  /\ Resolve(s, d, l).set_config = Resolve(s, c, l).set_config
         /\ Resolve(s, d, l).set_address = Resolve(s, c, l).set_address
<1>1. CASE s.type = "standard" /\ s.request = "GET_CONFIGURATION"
  <2>1. ASSUME NEW e
        PROVE  Resolve(s, e, l).set_config = -1 /\ Resolve(s, e, l).set_address = -1
    <3>1. \/ Resolve(s, e, l) = StallIt
          \/ Resolve(s, e, l) = TxData("one", 1, s.length)
          \/ Resolve(s, e, l) = TxData("zero", 1, s.length)
      BY <1>1 DEF Resolve, ResolveStandard, OnlyIf
    <3> QED BY <3>1, DataFields DEF StallIt, Answer
  <2> QED BY <2>1
<1>2. CASE ~(s.type = "standard" /\ s.request = "GET_CONFIGURATION")
  BY <1>2 DEF Resolve, ResolveStandard
<1> QED BY <1>1, <1>2

\* What the host expects is sound, and the same address and configuration are
\* set by each answer it may have to expect.
LEMMA ExpectedSound ==
  ASSUME asked \in Setups \cup {NoSetup}
  PROVE  \A config : /\ Sound(Expected(config), asked)
                     /\ Expected(config).set_config = Reply.set_config
                     /\ Expected(config).set_address = Reply.set_address
<1>1. CASE asked \in Setups
  <2>1. asked \in SetupPackets
    BY <1>1, PacketsApart
  <2> QED BY <2>1, ResolveSound, ResolveSets DEF Reply, Expected
<1>2. CASE asked = NoSetup
  <2>1. \A config : Expected(config) = StallIt
    BY <1>2 DEF Expected, NoSetup, Resolve
  <2> QED BY <2>1, StallSound DEF Reply
<1> QED BY <1>1, <1>2

LEMMA ReplySound ==
  ASSUME asked \in Setups \cup {NoSetup}
  PROVE  Sound(Reply, asked)
BY ExpectedSound DEF Reply

LEMMA ReplyStays ==
  UNCHANGED <<asked, s_configured, hostCoding>> => Reply' = Reply
BY DEF Reply, Expected

\* While the host sets nothing, it expects the same answers.
LEMMA AnswersStay ==
  UNCHANGED <<asked, hostConfigs, hostCoding>> => Answers' = Answers
BY DEF Answers, Expected

-----------------------------------------------------------------------------
(* What a step changes.                                                    *)

\* TypeOK is part of Types.
LEMMA TypesImplyTypeOK == Types => TypeOK
BY DEF Types, InEnd, Flags, Numbers, Names, Coded, TypeOK

LEMMA ChunkFits ==
  ASSUME NEW rem \in Nat
  PROVE  /\ Smaller(rem, MaxPacket) \in 0 .. MaxPacket
         /\ rem - Smaller(rem, MaxPacket) \in Nat
BY MaxPacketAssumption DEF Smaller

LEMMA PacketFields ==
  /\ \A d, o, n : /\ Packet(d, o, n).data = d /\ Packet(d, o, n).off = o
                  /\ Packet(d, o, n).len = n
  /\ Empty.len = 0 /\ Empty.len \in 0 .. MaxPacket /\ Empty.off = 0
BY MaxPacketAssumption DEF Packet, Empty

\* At power-up every variable has its type.
LEMMA InitTypes == Init => Types
<1> SUFFICES ASSUME Init PROVE Types
  OBVIOUS
<1>1. InEnd
  BY PacketFields DEF Init, InEnd
<1>2. Flags
  BY DEF Init, Flags
<1>3. -1 \in -1 .. 127 /\ 0 \in 0 .. 127
  OBVIOUS
<1>4. Numbers
  BY <1>3 DEF Init, Numbers, NoAddress
<1>5. Names /\ Coded /\ Asking
  BY DEF Init, Names, Coded, Asking, Stats, Stages
<1> QED BY <1>1, <1>2, <1>4, <1>5 DEF Types

\* The groups of Types, action by action.
LEMMA ContinueTypes ==
  ASSUME NEW data, NEW off \in Nat, NEW rem \in Nat, Continue(data, off, rem)
  PROVE  InEnd' /\ STAT_TX' \in Stats
<1> DEFINE chunk == Smaller(rem, MaxPacket)
<1>1. chunk \in 0 .. MaxPacket /\ rem - chunk \in Nat
  BY ChunkFits
<1>2. /\ txBuf' = Packet(data, off, chunk) /\ STAT_TX' = "valid"
      /\ s_ep0_in_off' = off + chunk /\ s_ep0_in_rem' = rem - chunk
  BY DEF Continue
<1> HIDE DEF chunk
<1>3. txBuf'.len = chunk
  BY <1>2, PacketFields
<1>4. off + chunk \in Nat
  BY <1>1, MaxPacketAssumption
<1> QED BY <1>1, <1>2, <1>3, <1>4 DEF InEnd, Stats

LEMMA StatusTypes ==
  SendStatus => InEnd' /\ STAT_TX' \in Stats /\ s_ep0_in_zlp' \in BOOLEAN
<1> SUFFICES ASSUME SendStatus PROVE InEnd' /\ STAT_TX' \in Stats /\ s_ep0_in_zlp' \in BOOLEAN
  OBVIOUS
<1>1. /\ txBuf' = Empty /\ STAT_TX' = "valid" /\ s_ep0_in_zlp' = FALSE
      /\ s_ep0_in_off' = 0 /\ s_ep0_in_rem' = 0
  BY DEF SendStatus, NoInData
<1>2. InEnd'
  BY <1>1, PacketFields DEF InEnd
<1> QED BY <1>1, <1>2 DEF Stats

LEMMA InitStepTypes ==
  ASSUME Types, UsbCdcInit PROVE Types'
<1>1. PICK from, to \in {"off", "powered", "cleared", "attached", "running"} : InitStep(from, to)
  BY DEF UsbCdcInit, PowerUp, ClearEvents, Attach, EnableIrq
<1>2. reset' \in BOOLEAN
  BY DEF UsbCdcInit, PowerUp, ClearEvents, Attach, EnableIrq, Types, Flags
<1>3. InEnd' /\ Flags' /\ Numbers'
  BY <1>1, <1>2 DEF InitStep, inVars, addrVars, bufVars, hostVars, Types, InEnd, Flags, Numbers
<1>4. Names' /\ Coded' /\ Asking'
  BY <1>1 DEF InitStep, statVars, bufVars, hostVars, Types, Names, Coded, Asking
<1> QED BY <1>3, <1>4 DEF Types

LEMMA HandleSetupTypes ==
  ASSUME Types, HandleSetup
  PROVE  /\ InEnd' /\ STAT_RX' \in Stats /\ STAT_TX' \in Stats
         /\ s_ep0_in_zlp' \in BOOLEAN /\ s_ep0_out_data' \in BOOLEAN /\ s_addr_pending' \in BOOLEAN
         /\ s_pending_addr' \in 0 .. 127 /\ s_configured' \in {0, 1}
<1> DEFINE answer == Resolve(rxBuf, s_configured, s_line_coding)
<1>1. Sound(answer, rxBuf)
  BY PacketsApart, ResolveSound DEF HandleSetup
<1>2. SetupTxData(answer) \/ SetupExpectOut(answer) \/ SetupStatus(answer) \/ SetupStall(answer)
  BY DEF HandleSetup
<1> HIDE DEF answer
<1>3. CASE SetupTxData(answer)
  <2>1. InEnd' /\ STAT_TX' \in Stats
    BY <1>1, <1>3, ContinueTypes DEF SetupTxData, Sound
  <2> QED BY <1>1, <1>3, <2>1 DEF SetupTxData, Sound, Types, Flags, Numbers, Stats
<1>4. CASE SetupExpectOut(answer)
  BY <1>4 DEF SetupExpectOut, NoInData, Types, InEnd, Flags, Numbers, Names, Stats
<1>5. CASE SetupStatus(answer)
  <2>1. InEnd' /\ STAT_TX' \in Stats /\ s_ep0_in_zlp' \in BOOLEAN
    BY <1>5, StatusTypes DEF SetupStatus
  <2>2. s_pending_addr' \in 0 .. 127 /\ s_addr_pending' \in BOOLEAN
    <3>1. answer.set_address \in -1 .. 127
      BY <1>1 DEF Sound
    <3>2. answer.set_address >= 0 => answer.set_address \in 0 .. 127
      BY <3>1
    <3> QED BY <1>5, <3>2 DEF SetupStatus, Types, Flags, Numbers
  <2>3. s_configured' \in {0, 1}
    BY <1>1, <1>5 DEF SetupStatus, Sound, Types, Numbers
  <2> QED BY <1>5, <2>1, <2>2, <2>3 DEF SetupStatus, Types, Names
<1>6. CASE SetupStall(answer)
  BY <1>6 DEF SetupStall, NoInData, Types, InEnd, Flags, Numbers, Names, Stats
<1> QED BY <1>2, <1>3, <1>4, <1>5, <1>6

LEMMA HandleOutTypes ==
  ASSUME Types, HandleOutData \/ HandleOutStatus
  PROVE  /\ InEnd' /\ STAT_RX' \in Stats /\ STAT_TX' \in Stats
         /\ s_ep0_in_zlp' \in BOOLEAN /\ s_ep0_out_data' \in BOOLEAN /\ s_addr_pending' \in BOOLEAN
         /\ s_pending_addr' \in 0 .. 127 /\ s_configured' \in {0, 1}
         /\ s_line_coding' \in Codings \cup {DefaultCoding}
<1>1. CASE HandleOutData
  <2>1. s_line_coding' \in Codings \cup {DefaultCoding}
    <3>1. rxBuf \in OutPackets \cup {Empty}
      BY <1>1 DEF HandleOutData, Types, Coded
    <3>2. rxBuf.len >= LineCodingLen => rxBuf.data \in Codings
      BY <3>1, PacketsApart DEF LineCodingLen
    <3> QED BY <1>1, <3>2 DEF HandleOutData, Types, Coded
  <2> QED BY <1>1, <2>1, StatusTypes DEF HandleOutData, Types, Flags, Numbers, Stats
<1>2. CASE HandleOutStatus
  BY <1>2 DEF HandleOutStatus, inVars, Types, InEnd, Flags, Numbers, Names, Coded, Stats
<1> QED BY <1>1, <1>2

LEMMA ReceivedTypes ==
  ASSUME Types, Received, UNCHANGED up PROVE Types'
<1>1. /\ InEnd' /\ STAT_RX' \in Stats /\ STAT_TX' \in Stats
      /\ s_ep0_in_zlp' \in BOOLEAN /\ s_ep0_out_data' \in BOOLEAN /\ s_addr_pending' \in BOOLEAN
      /\ s_pending_addr' \in 0 .. 127 /\ s_configured' \in {0, 1}
  BY HandleSetupTypes, HandleOutTypes DEF Received
<1>2. s_line_coding' \in Codings \cup {DefaultCoding}
  <2>1. HandleSetup => s_line_coding' = s_line_coding
    BY DEF HandleSetup
  <2> QED BY <2>1, HandleOutTypes DEF Received, Types, Coded
<1>3. Flags' /\ Numbers'
  BY <1>1 DEF Received, hostVars, Types, Flags, Numbers
<1>4. Names' /\ Asking' /\ Coded'
  BY <1>1, <1>2 DEF Received, hostVars, Types, Names, Coded, Asking
<1> QED BY <1>1, <1>3, <1>4 DEF Types

LEMMA SentTypes ==
  ASSUME Types, Sent, UNCHANGED up PROVE Types'
<1>1. InEnd' /\ STAT_TX' \in Stats /\ s_ep0_in_zlp' \in BOOLEAN
  <2>1. CASE SendMore
    BY <2>1, ContinueTypes DEF SendMore, Types, InEnd, Flags
  <2>2. CASE SendZlp
    BY <2>2, PacketFields DEF SendZlp, Types, InEnd, Stats
  <2>3. CASE ApplyAddress \/ SentAll
    BY <2>3 DEF ApplyAddress, SentAll, inVars, Types, InEnd, Flags, Names
  <2> QED BY <2>1, <2>2, <2>3 DEF Sent
<1>2. DADDR' \in NoAddress .. 127 /\ s_addr_pending' \in BOOLEAN /\ s_pending_addr' \in 0 .. 127
  <2>1. s_pending_addr \in NoAddress .. 127
    BY DEF Types, Numbers, NoAddress
  <2> QED BY <2>1 DEF Sent, SendMore, SendZlp, ApplyAddress, SentAll, addrVars, Types, Flags, Numbers
<1>3. Flags' /\ Numbers'
  BY <1>1, <1>2 DEF Sent, hostVars, Types, Flags, Numbers
<1>4. Names' /\ Coded' /\ Asking'
  BY <1>1 DEF Sent, hostVars, Types, Names, Coded, Asking
<1> QED BY <1>1, <1>3, <1>4 DEF Types

LEMMA OtherIrqTypes ==
  ASSUME Types, NothingSent \/ UsbReset, UNCHANGED up PROVE Types'
<1>1. CASE NothingSent
  BY <1>1 DEF NothingSent, inVars, addrVars, statVars, bufVars, hostVars,
              Types, InEnd, Flags, Numbers, Names, Coded, Asking
<1>2. CASE UsbReset
  <2>1. InEnd' /\ Flags'
    BY <1>2, PacketFields DEF UsbReset, NoInData, hostVars, Types, InEnd, Flags
  <2>2. 0 \in NoAddress .. 127 /\ 0 \in 0 .. 127
    BY DEF NoAddress
  <2>3. Numbers'
    BY <1>2, <2>2 DEF UsbReset, hostVars, Types, Numbers
  <2>4. Names' /\ Coded' /\ Asking'
    BY <1>2 DEF UsbReset, hostVars, Stats, Types, Names, Coded, Asking
  <2> QED BY <2>1, <2>3, <2>4 DEF Types
<1> QED BY <1>1, <1>2

LEMMA SetupTypes ==
  ASSUME Types, NEW s \in Setups, Setup(s) \/ Retry(s) PROVE Types'
<1>1. TakeSetup(s)
  BY DEF Setup, Retry
<1>2. InEnd' /\ Flags' /\ Names' /\ Coded' /\ Asking'
  BY <1>1 DEF TakeSetup, driverVars, inVars, Types, InEnd, Flags, Names, Coded, Asking, Stats, Stages
<1>3. hostConfigs' \subseteq {0, 1}
  <2>1. CASE Setup(s)
    BY <2>1 DEF Setup, Types, Numbers
  <2>2. CASE Retry(s)
    <3>1. \A answer \in Answers : answer.set_config \in {-1, 0, 1}
      BY ExpectedSound DEF Answers, Sound, Types, Asking
    <3> QED BY <2>2, <3>1 DEF Retry, Types, Numbers
  <2> QED BY <2>1, <2>2
<1>4. Numbers'
  BY <1>1, <1>3 DEF TakeSetup, driverVars, Types, Numbers
<1> QED BY <1>2, <1>4 DEF Types

LEMMA InTokenTypes ==
  ASSUME Types, InToken
  PROVE  InEnd' /\ Coded' /\ STAT_RX' \in Stats /\ STAT_TX' \in Stats
BY DEF InToken, driverVars, inVars, bufVars, Types, InEnd, Names, Coded, Stats

LEMMA HostTypes ==
  ASSUME Types, Proceeds PROVE Types'
<1>1. CASE InData
  <2>1. InEnd' /\ Coded' /\ STAT_RX' \in Stats /\ STAT_TX' \in Stats
    BY <1>1, InTokenTypes DEF InData
  <2>2. got' \in Nat
    BY <1>1 DEF InData, Types, Asking, InEnd
  <2>3. intact' \in BOOLEAN
    BY <1>1 DEF InData, Types, Flags
  <2>4. stage' \in Stages
    BY <1>1 DEF InData, Types, Names, Stages
  <2>5. hostConfigs' \subseteq {0, 1}
    BY <1>1 DEF InData, Types, Numbers
  <2>6. Flags' /\ Numbers'
    BY <1>1, <2>3, <2>5 DEF InData, InToken, driverVars, inVars, Types, Flags, Numbers
  <2> QED BY <1>1, <2>1, <2>2, <2>4, <2>6 DEF InData, InToken, driverVars, Types, Names, Asking
<1>2. CASE InStatus
  <2>1. InEnd' /\ Coded' /\ STAT_RX' \in Stats /\ STAT_TX' \in Stats
    BY <1>2, InTokenTypes DEF InStatus
  <2>2. hostAddr' \in NoAddress .. 127 /\ hostConfigs' \subseteq {0, 1}
    <3>1. PICK answer \in Answers :
            /\ hostAddr' = IF answer.set_address >= 0 THEN answer.set_address ELSE hostAddr
            /\ hostConfigs' = IF answer.set_config >= 0 THEN {answer.set_config} ELSE hostConfigs
      BY <1>2 DEF InStatus
    <3>2. Sound(answer, asked)
      BY ExpectedSound DEF Answers, Types, Asking
    <3>3. answer.set_address \in -1 .. 127 /\ answer.set_config \in {-1, 0, 1}
      BY <3>2 DEF Sound
    <3>4. hostAddr' \in NoAddress .. 127
      BY <3>1, <3>3 DEF Types, Numbers, NoAddress
    <3>5. answer.set_config >= 0 => answer.set_config \in {0, 1}
      BY <3>3
    <3>6. hostConfigs' \subseteq {0, 1}
      BY <3>1, <3>5 DEF Types, Numbers
    <3> QED BY <3>4, <3>6
  <2>3. intact' \in BOOLEAN
    BY <1>2 DEF InStatus, Types, Flags
  <2>4. Flags' /\ Numbers'
    BY <1>2, <2>2, <2>3 DEF InStatus, InToken, driverVars, inVars, Types, Flags, Numbers
  <2> QED BY <1>2, <2>1, <2>4 DEF InStatus, InToken, EndTransfer, driverVars, Types, Names, Asking, Stages
<1>3. CASE SendsData
  <2>1. PICK coding \in Codings, len \in {LineCodingLen - 1, LineCodingLen} : OutData(coding, len)
    BY <1>3 DEF SendsData
  <2>2. Coded'
    BY <2>1 DEF OutData, OutToken, OutPackets, driverVars, Types, Coded
  <2> QED BY <2>1, <2>2 DEF OutData, OutToken, driverVars, inVars, Types, InEnd, Flags, Numbers, Names,
                            Asking, Stats, Stages
<1>4. CASE OutStatus
  BY <1>4 DEF OutStatus, OutToken, EndTransfer, driverVars, inVars, Types, InEnd, Flags, Numbers, Names,
              Coded, Asking, Stats, Stages
<1>5. CASE Stalled
  BY <1>5 DEF Stalled, EndTransfer, driverVars, inVars, statVars, bufVars, Types, InEnd, Flags, Numbers,
              Names, Coded, Asking, Stages
<1> QED BY <1>1, <1>2, <1>3, <1>4, <1>5 DEF Proceeds

LEMMA BusResetTypes ==
  ASSUME Types, BusReset PROVE Types'
BY DEF BusReset, EndTransfer, driverVars, inVars, bufVars, NoAddress, Types, InEnd, Flags, Numbers,
       Names, Coded, Asking, Stats, Stages

LEMMA StutterTypes ==
  ASSUME Types, UNCHANGED vars PROVE Types'
BY DEF vars, inVars, addrVars, statVars, bufVars, hostVars, Types, InEnd, Flags, Numbers, Names, Coded,
       Asking

\* Every step keeps the types.
LEMMA NextTypes ==
  ASSUME Types, [Next]_vars PROVE Types'
<1>1. CASE UsbCdcInit
  BY <1>1, InitStepTypes
<1>2. CASE UsbIrq
  BY <1>2, ReceivedTypes, SentTypes, OtherIrqTypes DEF UsbIrq
<1>3. CASE Bus
  <2>1. Retries => \E s \in Setups : Retry(s)
    BY Ep0Assumption DEF Retries
  <2> QED BY <1>3, <2>1, SetupTypes, HostTypes, BusResetTypes DEF Bus
<1>4. CASE UNCHANGED vars
  BY <1>4, StutterTypes
<1> QED BY <1>1, <1>2, <1>3, <1>4 DEF Next

\* The driver's variables keep their C types, the peripheral's registers their
\* values, and a packet its place in the packet memory, whatever the host does.
THEOREM Ep0Types == Spec => []TypeOK
<1>1. Init => Types
  BY InitTypes
<1>2. Types /\ [Next]_vars => Types'
  BY NextTypes
<1>3. Types => TypeOK
  BY TypesImplyTypeOK
<1> QED BY <1>1, <1>2, <1>3, PTL DEF Spec

-----------------------------------------------------------------------------
(* From phase to phase.                                                    *)

Phase == \/ Asked \/ Idle \/ Sending \/ Taken \/ AwaitingStatus
         \/ AwaitingData \/ DataReceived \/ Confirming \/ Refusing

\* A bus reset ends every phase.
LEMMA BusResetStep ==
  ASSUME intact, BusReset PROVE Resetting' /\ intact'
BY DEF BusReset, EndTransfer, driverVars, Resetting

\* Where the driver runs and no reset is to be served, there are these steps.
Repeats(s) ==
  \/ stage = "idle" /\ UNCHANGED hostConfigs
  \/ /\ (\E answer \in Answers : answer.set_address >= 0) => s = asked
     /\ hostConfigs' = hostConfigs \cup ({answer.set_config : answer \in Answers} \ {-1})

LEMMA Steps ==
  ASSUME up = "running", ~reset, [Next]_vars
  PROVE  \/ BusReset
         \/ /\ up' = "running" /\ ~reset'
            /\ \/ Received \/ Sent \/ NothingSent \/ Proceeds \/ UNCHANGED vars
               \/ \E s \in Setups : TakeSetup(s) /\ Repeats(s)
<1>1. CASE UsbCdcInit
  BY <1>1 DEF UsbCdcInit, PowerUp, ClearEvents, Attach, EnableIrq, InitStep
<1>2. CASE UsbIrq
  <2>1. Received \/ Sent \/ NothingSent
    BY <1>2 DEF UsbIrq, UsbReset
  <2>2. UNCHANGED <<up, reset>>
    BY <1>2, <2>1 DEF UsbIrq, Received, Sent, NothingSent
  <2> QED BY <2>1, <2>2
<1>3. CASE Proceeds
  <2>1. UNCHANGED <<up, reset>>
    BY <1>3 DEF Proceeds, InData, InStatus, InToken, SendsData, OutData, OutStatus, OutToken, Stalled,
                driverVars
  <2> QED BY <1>3, <2>1
<1>4. CASE Retries \/ \E s \in Setups : Setup(s)
  <2>1. PICK s \in Setups : TakeSetup(s) /\ Repeats(s)
    BY <1>4, Ep0Assumption DEF Retries, Retry, Setup, Repeats
  <2>2. UNCHANGED <<up, reset>>
    BY <2>1 DEF TakeSetup, driverVars
  <2> QED BY <2>1, <2>2
<1>5. CASE UNCHANGED vars
  BY <1>5 DEF vars
<1> QED BY <1>1, <1>2, <1>3, <1>4, <1>5 DEF Next, Bus

\* The end of the interrupt moves no phase, nor does a stuttering step.
LEMMA Unmoved ==
  ASSUME Phase, NothingSent \/ UNCHANGED vars
  PROVE  Phase' /\ UNCHANGED <<hostAddr, intact>>
<1>1. /\ UNCHANGED <<s_ep0_in_data, s_ep0_in_off, s_ep0_in_rem, s_ep0_in_zlp, s_ep0_out_data>>
      /\ UNCHANGED <<s_addr_pending, s_pending_addr, DADDR, s_configured, s_line_coding>>
      /\ UNCHANGED <<STAT_RX, STAT_TX, CTR_RX, CTR_TX, rxBuf, txBuf>>
      /\ UNCHANGED <<hostAddr, hostConfigs, hostCoding, stage, asked, got, intact>>
  BY DEF NothingSent, vars, inVars, addrVars, statVars, bufVars, hostVars
<1>2. Reply' = Reply
  BY <1>1, ReplyStays
<1>3. Answers' = Answers
  BY <1>1, AnswersStay
<1>4. CASE Asked
  <2>1. irq' = irq
    BY <1>4 DEF Asked, NothingSent, vars
  <2> QED BY <1>1, <1>2, <1>4, <2>1 DEF Asked, Phase
<1>5. CASE Idle
  BY <1>1, <1>5 DEF Idle, NothingLeft, Phase
<1>6. CASE Sending
  <2>1. DataStage'
    BY <1>1, <1>2, <1>6 DEF Sending, DataStage, Agreed
  <2> QED BY <1>1, <1>2, <1>6, <2>1 DEF Sending, NothingLeft, Phase
<1>7. CASE Taken
  <2>1. DataStage'
    BY <1>1, <1>2, <1>7 DEF Taken, DataStage, Agreed
  <2> QED BY <1>1, <1>2, <1>7, <2>1 DEF Taken, Phase
<1>8. CASE AwaitingStatus
  BY <1>1, <1>2, <1>8 DEF AwaitingStatus, Agreed, NothingLeft, Phase
<1>9. CASE AwaitingData
  BY <1>1, <1>2, <1>9 DEF AwaitingData, Agreed, NothingLeft, Phase
<1>10. CASE DataReceived
  BY <1>1, <1>2, <1>10 DEF DataReceived, NothingLeft, Phase
<1>11. CASE Confirming
  BY <1>1, <1>2, <1>11, <1>3 DEF Confirming, NothingLeft, Phase
<1>12. CASE Refusing
  BY <1>1, <1>2, <1>12 DEF Refusing, Agreed, NothingLeft, Phase
<1> QED BY <1>1, <1>4, <1>5, <1>6, <1>7, <1>8, <1>9, <1>10, <1>11, <1>12 DEF Phase

\* A SETUP packet: either nothing is half set, or the host reckons with it.
HalfSet ==
  /\ s_configured \in hostConfigs \/ (Reply \in Answers /\ s_configured = Reply.set_config)
  /\ s_addr_pending => /\ Reply \in Answers /\ Reply.set_address >= 0
                       /\ s_pending_addr = Reply.set_address

LEMMA SetupStep ==
  ASSUME Prompt, Types, NEW s \in Setups, TakeSetup(s), Repeats(s),
         s_line_coding = hostCoding, HalfSet,
         stage = "idle" => s_configured \in hostConfigs /\ ~s_addr_pending
  PROVE  Asked' /\ UNCHANGED <<hostAddr, intact>>
<1>1. /\ UNCHANGED <<s_addr_pending, s_pending_addr, s_configured, s_line_coding, irq, CTR_TX>>
      /\ UNCHANGED <<DADDR, hostAddr, hostCoding, intact>>
      /\ ~CTR_TX /\ irq = "none" /\ DADDR = hostAddr
      /\ CTR_RX' = TRUE /\ rxBuf' = s /\ asked' = s /\ got' = 0
      /\ STAT_RX' = "nak" /\ STAT_TX' = "nak"
      /\ stage' = IF s.length = 0 THEN "status_in"
                  ELSE IF s.dir = "in" THEN "data_in" ELSE "data_out"
  BY DEF TakeSetup, Quiet, Reachable, driverVars
<1>2. s = asked => Reply' = Reply
  BY <1>1, ReplyStays
<1>3. s_configured \in hostConfigs'
  <2>1. CASE stage = "idle" /\ UNCHANGED hostConfigs
    BY <2>1
  <2>2. CASE hostConfigs' = hostConfigs \cup ({answer.set_config : answer \in Answers} \ {-1})
    <3>1. s_configured # -1
      BY DEF Types, Numbers
    <3> QED BY <2>2, <3>1 DEF HalfSet
  <2> QED BY <2>1, <2>2 DEF Repeats
<1>4. s_addr_pending => s_pending_addr = Reply'.set_address
  <2>1. s_addr_pending => s = asked
    BY DEF Repeats, HalfSet
  <2> QED BY <1>2, <2>1 DEF HalfSet
<1> QED BY <1>1, <1>3, <1>4 DEF Asked

\* The reception of a packet, as far as the phases see it.
LEMMA ReceivedFrame ==
  Received =>
    /\ irq = "none" /\ CTR_RX /\ ~CTR_RX'
    /\ UNCHANGED <<CTR_TX, DADDR, hostAddr, hostConfigs, hostCoding, stage, asked, got, intact>>
    /\ HandleSetup \/ HandleOutData \/ HandleOutStatus
BY DEF Received, HandleSetup, HandleOutData, HandleOutStatus, hostVars

\* handle_setup gives the answer to expect of this device, even to a repeated
\* request.
LEMMA AnswerIsReply ==
  ASSUME Asked PROVE Resolve(rxBuf, s_configured, s_line_coding) = Reply
BY DEF Asked, Reply, Expected

\* Where no address is half set.
LEMMA WholeSet ==
  ASSUME Types, Asked \/ Confirming
  PROVE  Reply.set_address = -1 => ~s_addr_pending
<1>1. s_pending_addr # -1
  BY DEF Types, Numbers
<1> QED BY <1>1 DEF Asked, Confirming

\* A SETUP packet is served.
LEMMA SetupServed ==
  ASSUME Types, Asked, Received PROVE Phase'
<1>1. Sound(Reply, asked) /\ asked.length \in Nat /\ asked.dir \in {"in", "out"} /\ asked \in Setups
  BY ReplySound, PacketsApart, SetupFields DEF Asked
<1>2. HandleSetup /\ UNCHANGED s_line_coding
  BY ReceivedFrame DEF HandleSetup, HandleOutData, HandleOutStatus, Asked
<1>3. \/ SetupTxData(Reply) \/ SetupExpectOut(Reply)
      \/ SetupStatus(Reply) \/ SetupStall(Reply)
  BY <1>2, AnswerIsReply DEF HandleSetup
<1>4. Reply' = Reply /\ Answers' = Answers
  <2>1. UNCHANGED <<asked, hostConfigs, hostCoding>>
    BY ReceivedFrame
  <2>2. CASE UNCHANGED s_configured
    BY <2>1, <2>2, ReplyStays, AnswersStay
  <2>3. CASE Reply.set_config >= 0
    <3>1. asked \in SetupPackets
      BY <1>1, PacketsApart
    <3> QED BY <2>1, <2>3, <3>1, ResolveAgain, AnswersStay DEF Reply, Expected
  <2> QED BY <1>3, <2>2, <2>3 DEF SetupTxData, SetupExpectOut, SetupStatus, SetupStall
<1>5. /\ UNCHANGED <<CTR_TX, DADDR, hostAddr, hostConfigs, hostCoding, stage, asked, got, s_line_coding>>
      /\ ~CTR_RX' /\ ~CTR_TX' /\ got = 0 /\ DADDR = hostAddr /\ s_line_coding = hostCoding
      /\ s_configured \in hostConfigs
      /\ STAT_TX = "nak" /\ STAT_RX = "nak"
      /\ stage = IF asked.length = 0 THEN "status_in"
                 ELSE IF asked.dir = "in" THEN "data_in" ELSE "data_out"
  BY <1>2, ReceivedFrame DEF Asked
<1>6. Reply.kind # "status" => ~s_addr_pending
  BY <1>1, WholeSet DEF Sound
<1>7. Reply' \in Answers'
  BY <1>4, <1>5 DEF Reply, Answers
<1>8. CASE SetupTxData(Reply)
  <2>1. /\ Reply.kind = "tx_data" /\ UNCHANGED <<s_addr_pending, s_pending_addr, s_configured>>
        /\ ~s_ep0_out_data' /\ STAT_RX' = "valid" /\ s_ep0_in_zlp' = Reply.zlp
        /\ Continue(Reply.data, 0, Reply.len)
    BY <1>8 DEF SetupTxData
  <2>2. /\ txBuf' = Packet(Reply.data, 0, Smaller(Reply.len, MaxPacket))
        /\ s_ep0_in_data' = Reply.data /\ STAT_TX' = "valid"
        /\ s_ep0_in_off' = 0 + Smaller(Reply.len, MaxPacket)
        /\ s_ep0_in_rem' = Reply.len - Smaller(Reply.len, MaxPacket)
    BY <2>1 DEF Continue
  <2>3. Reply.len \in Nat /\ Reply.len <= asked.length /\ asked.dir = "in"
    BY <1>1, <2>1 DEF Sound
  <2>4. Smaller(Reply.len, MaxPacket) \in Nat
    BY <2>3, ChunkFits
  <2>5. CASE asked.length = 0
    <3>1. Reply.len = 0
      BY <2>3, <2>5
    <3>2. Smaller(0, MaxPacket) = 0
      BY MaxPacketAssumption DEF Smaller
    <3>3. ~Reply.zlp
      BY <1>1, <2>1, <2>5, <3>1 DEF Sound, ZlpNeeded
    <3>4. txBuf'.len = 0 /\ s_ep0_in_rem' = 0
      BY <2>2, <3>1, <3>2, PacketFields
    <3>5. Reply.set_config = -1 /\ Reply.set_address = -1
      BY <1>1, <2>1 DEF Sound
    <3>6. Confirming'
      BY <1>1, <1>4, <1>5, <1>6, <1>7, <2>1, <2>2, <2>5, <3>3, <3>4, <3>5
         DEF Confirming, NothingLeft
    <3> QED BY <3>6 DEF Phase
  <2>6. CASE asked.length # 0
    <3>1. 0 < Reply.len
      BY <1>1, <2>1, <2>6 DEF Sound
    <3>2. 0 % MaxPacket = 0
      BY MaxPacketAssumption, ModUnique
    <3>3. DataStage'
      <4>1. s_ep0_in_off' + s_ep0_in_rem' = Reply.len
        BY <2>2, <2>3, <2>4
      <4> QED BY <1>1, <1>4, <1>5, <1>6, <2>1, <2>2, <2>3, <2>6, <3>1, <3>2, <4>1 DEF DataStage, Agreed
    <3>4. s_ep0_in_off' = got' + txBuf'.len /\ Reply.len - got' = Reply.len
      BY <1>5, <2>2, <2>3, <2>4, PacketFields
    <3>5. Sending'
      BY <1>4, <1>5, <2>1, <2>2, <3>1, <3>3, <3>4 DEF Sending
    <3> QED BY <3>5 DEF Phase
  <2> QED BY <2>5, <2>6
<1>9. CASE SetupExpectOut(Reply)
  <2>1. asked.length # 0 /\ asked.dir = "out" /\ Reply.kind = "expect_out"
    BY <1>1, <1>9 DEF SetupExpectOut, Sound, LineCodingLen
  <2>2. AwaitingData'
    BY <1>1, <1>4, <1>5, <1>6, <1>9, <2>1 DEF SetupExpectOut, NoInData, AwaitingData, Agreed, NothingLeft
  <2> QED BY <2>2 DEF Phase
<1>10. CASE SetupStatus(Reply)
  <2>1. /\ asked.length = 0 /\ Reply.kind = "status" /\ ~s_ep0_out_data'
        /\ Reply.set_config \in {-1, 0, 1} /\ Reply.set_address \in -1 .. 127
    BY <1>1, <1>10 DEF SetupStatus, Sound
  <2>2. txBuf'.len = 0 /\ s_ep0_in_rem' = 0 /\ ~s_ep0_in_zlp' /\ STAT_TX' = "valid" /\ STAT_RX' = "nak"
    BY <1>5, <1>10, PacketFields DEF SetupStatus, SendStatus, NoInData
  <2>3. IF Reply.set_config >= 0 THEN s_configured' = Reply.set_config
                                ELSE s_configured' \in hostConfigs'
    BY <1>5, <1>10 DEF SetupStatus
  <2>4. IF Reply.set_address >= 0 THEN s_addr_pending' /\ s_pending_addr' = Reply.set_address
                                     ELSE ~s_addr_pending'
    <3>1. Reply.set_address >= 0 \/ Reply.set_address = -1
      BY <2>1
    <3> QED BY <1>10, <3>1, WholeSet DEF SetupStatus
  <2>5. Confirming'
    BY <1>1, <1>4, <1>5, <1>7, <2>1, <2>2, <2>3, <2>4 DEF Confirming, NothingLeft
  <2> QED BY <2>5 DEF Phase
<1>11. CASE SetupStall(Reply)
  <2>1. Refusing'
    BY <1>1, <1>4, <1>5, <1>6, <1>11 DEF SetupStall, NoInData, Refusing, Agreed, NothingLeft
  <2> QED BY <2>1 DEF Phase
<1> QED BY <1>3, <1>8, <1>9, <1>10, <1>11

\* After a packet was taken, the next one or the terminating one is offered.
LEMMA TakenSent ==
  ASSUME Types, Taken, Sent PROVE Phase' /\ UNCHANGED <<hostAddr, intact>>
<1>1. /\ UNCHANGED <<s_ep0_out_data, s_configured, s_line_coding, STAT_RX, CTR_RX>>
      /\ UNCHANGED <<hostAddr, hostConfigs, hostCoding, stage, asked, got, intact>>
      /\ ~CTR_TX'
  BY DEF Sent, hostVars
<1>2. Reply' = Reply
  BY <1>1, ReplyStays
<1>3. Sound(Reply, asked) /\ asked \in Setups
  BY ReplySound DEF Taken, DataStage
<1>4. /\ s_ep0_in_rem \in Nat /\ s_ep0_in_off \in Nat /\ got = s_ep0_in_off
      /\ Reply.len \in Nat /\ s_ep0_in_off + s_ep0_in_rem = Reply.len
      /\ s_ep0_in_zlp = Reply.zlp
  BY <1>3 DEF Types, InEnd, Taken, DataStage, Sound
<1>5. CASE SendMore
  <2> DEFINE chunk == Smaller(s_ep0_in_rem, MaxPacket)
  <2>1. chunk \in Nat
    <3>1. s_ep0_in_rem \in Nat
      BY <1>4
    <3> QED BY <3>1, ChunkFits
  <2>2. /\ s_ep0_in_rem > 0 /\ UNCHANGED <<s_ep0_in_zlp, s_addr_pending, s_pending_addr, DADDR>>
        /\ txBuf' = Packet(s_ep0_in_data, s_ep0_in_off, chunk) /\ s_ep0_in_data' = s_ep0_in_data
        /\ s_ep0_in_off' = s_ep0_in_off + chunk /\ s_ep0_in_rem' = s_ep0_in_rem - chunk
        /\ STAT_TX' = "valid"
    BY <1>5 DEF SendMore, Continue, addrVars
  <2>3. Reply.len - got = s_ep0_in_rem /\ got < Reply.len
    BY <1>4, <2>2
  <2>4. s_ep0_in_data = Reply.data
    BY <2>2 DEF Taken, DataStage
  <2>5. txBuf' = Packet(Reply.data, got, Smaller(Reply.len - got, MaxPacket))
    BY <1>4, <2>2, <2>3, <2>4
  <2> HIDE DEF chunk
  <2>6. s_ep0_in_off' + s_ep0_in_rem' = Reply.len
    BY <1>4, <2>1, <2>2
  <2>7. s_ep0_in_off' = got + txBuf'.len
    BY <1>4, <2>1, <2>2, PacketFields
  <2>8. DataStage'
    BY <1>1, <1>2, <2>2, <2>4, <2>6 DEF Taken, DataStage, Agreed
  <2>9. Sending'
    BY <1>1, <1>2, <1>4, <2>2, <2>3, <2>5, <2>7, <2>8 DEF Sending
  <2> QED BY <1>1, <2>9 DEF Phase
<1>6. CASE SendZlp
  <2>1. /\ s_ep0_in_rem = 0 /\ ~s_ep0_in_zlp' /\ txBuf' = Empty /\ STAT_TX' = "valid"
        /\ UNCHANGED <<s_ep0_in_data, s_ep0_in_off, s_ep0_in_rem, s_addr_pending, s_pending_addr, DADDR>>
    BY <1>6 DEF SendZlp, addrVars
  <2>2. got = Reply.len
    BY <1>4, <2>1
  <2>3. DataStage'
    BY <1>1, <1>2, <2>1 DEF Taken, DataStage, Agreed
  <2>4. Sending'
    BY <1>1, <1>2, <2>1, <2>2, <2>3 DEF Sending, NothingLeft
  <2> QED BY <1>1, <2>4 DEF Phase
<1>7. CASE ApplyAddress \/ SentAll
  BY <1>4, <1>7 DEF ApplyAddress, SentAll, Taken
<1> QED BY <1>5, <1>6, <1>7 DEF Sent

\* The host takes a packet of the data stage.
LEMMA PacketTaken ==
  ASSUME Types, intact, Sending, InData PROVE Phase' /\ hostAddr' = hostAddr /\ intact'
<1> DEFINE E     == Reply
           after == got + txBuf.len
           last  == txBuf.len < MaxPacket \/ after >= asked.length
           due   == /\ txBuf = Empty \/ (txBuf.data = E.data /\ txBuf.off = got)
                    /\ last => after = E.len
<1>1. /\ UNCHANGED <<s_ep0_in_data, s_ep0_in_off, s_ep0_in_rem, s_ep0_in_zlp, s_ep0_out_data>>
      /\ UNCHANGED <<s_addr_pending, s_pending_addr, DADDR, s_configured, s_line_coding>>
      /\ UNCHANGED <<STAT_RX, CTR_RX, hostAddr, hostCoding, asked>>
      /\ STAT_TX' = "nak" /\ CTR_TX' = TRUE /\ got' = after
      /\ stage' = IF last THEN "status_out" ELSE stage
  BY DEF InData, InToken, driverVars, inVars
<1>2. Reply' = E
  BY <1>1, ReplyStays
<1>3. s_configured \in hostConfigs
  BY DEF Sending, DataStage, Agreed
<1>4. due => s_configured \in hostConfigs' /\ intact'
  BY <1>3 DEF InData, Reply
<1>5. Sound(E, asked) /\ asked \in Setups /\ DataStage
  BY ReplySound DEF Sending, DataStage
<1>6. /\ got \in Nat /\ s_ep0_in_rem \in Nat /\ s_ep0_in_off \in Nat
      /\ E.len \in Nat /\ asked.length \in Nat /\ MaxPacket \in Nat \ {0}
  BY <1>5, PacketsApart, SetupFields, MaxPacketAssumption DEF Types, Asking, InEnd, Sound
<1>7. /\ E.len <= asked.length /\ E.zlp = ZlpNeeded(E.len, asked.length) /\ E.kind = "tx_data"
      /\ 0 < E.len /\ got % MaxPacket = 0 /\ got <= E.len /\ s_ep0_in_off + s_ep0_in_rem = E.len
  BY <1>5 DEF DataStage, Sound
<1>8. ASSUME last, after = E.len, txBuf = Empty \/ (txBuf.data = E.data /\ txBuf.off = got), NothingLeft
      PROVE  Phase' /\ intact'
  <2>1. NothingLeft' /\ Agreed'
    BY <1>1, <1>5, <1>8, <1>4 DEF NothingLeft, DataStage, Agreed
  <2>2. AwaitingStatus'
    BY <1>1, <1>2, <1>5, <1>8, <2>1 DEF DataStage, AwaitingStatus
  <2> QED BY <1>8, <1>4, <2>2 DEF Phase
<1>9. CASE txBuf = Empty /\ got = E.len /\ NothingLeft
  <2>1. last /\ after = E.len
    BY <1>6, <1>9, PacketFields
  <2> QED BY <1>1, <1>8, <1>9, <2>1
<1>10. CASE /\ txBuf = Packet(E.data, got, Smaller(E.len - got, MaxPacket))
           /\ got < E.len /\ s_ep0_in_off = after /\ s_ep0_in_zlp = E.zlp
  <2>1. txBuf.data = E.data /\ txBuf.off = got /\ txBuf.len = Smaller(E.len - got, MaxPacket)
    BY <1>10, PacketFields
  <2>2. CASE E.len - got < MaxPacket
    <3>1. txBuf.len = E.len - got
      BY <2>1, <2>2 DEF Smaller
    <3>2. last /\ after = E.len
      BY <1>6, <2>2, <3>1
    <3>3. s_ep0_in_rem = 0
      BY <1>6, <1>7, <1>10, <3>2
    <3>4. E.len % MaxPacket # got % MaxPacket
      BY <1>6, <1>10, <2>2, CloseRemainders
    <3>5. ~E.zlp
      BY <1>7, <3>4 DEF ZlpNeeded
    <3> QED BY <1>1, <1>8, <1>10, <2>1, <3>2, <3>3, <3>5 DEF NothingLeft
  <2>3. CASE ~(E.len - got < MaxPacket)
    <3>1. txBuf.len = MaxPacket
      BY <1>6, <2>1, <2>3 DEF Smaller
    <3>2. after = got + MaxPacket /\ after <= E.len
      BY <1>6, <2>3, <3>1
    <3>3. CASE after >= asked.length
      <4>1. after = E.len /\ last
        BY <1>6, <1>7, <3>2, <3>3
      <4>2. s_ep0_in_rem = 0
        BY <1>6, <1>7, <1>10, <4>1
      <4>3. ~E.zlp
        <5>1. ~(E.len < asked.length)
          BY <1>6, <3>2, <3>3, <4>1
        <5> QED BY <1>7, <5>1 DEF ZlpNeeded
      <4> QED BY <1>1, <1>8, <1>10, <2>1, <4>1, <4>2, <4>3 DEF NothingLeft
    <3>4. CASE ~(after >= asked.length)
      <4>1. ~last
        BY <1>6, <3>1, <3>4
      <4>2. after % MaxPacket = 0
        <5>1. MaxPacket % MaxPacket = 0
          BY <1>6, SelfRemainder
        <5>2. (got + MaxPacket) % MaxPacket = got % MaxPacket
          <6>1. got \in Int /\ MaxPacket \in Int /\ MaxPacket \in Nat \ {0}
            BY <1>6
          <6> QED BY <5>1, <6>1, AddMultiple
        <5> QED BY <1>7, <3>2, <5>2
      <4>3. s_ep0_in_rem > 0 \/ E.zlp
        <5>1. s_ep0_in_rem = 0 => after = E.len
          BY <1>6, <1>7, <1>10
        <5>2. after = E.len => E.zlp
          <6>1. after = E.len => E.len # 0 /\ E.len < asked.length /\ E.len % MaxPacket = 0
            <7>1. E.len < asked.length \/ ~(after = E.len)
              BY <1>6, <3>4
            <7> QED BY <1>7, <4>2, <7>1
          <6> QED BY <1>7, <6>1 DEF ZlpNeeded
        <5> QED BY <1>6, <5>1, <5>2
      <4>4. s_configured \in hostConfigs' /\ intact'
        BY <1>4, <2>1, <4>1
      <4>5. DataStage'
        BY <1>1, <1>2, <1>5, <3>2, <4>1, <4>2, <4>4 DEF DataStage, Agreed
      <4>6. Taken'
        BY <1>1, <1>2, <1>10, <4>3, <4>5 DEF Taken
      <4> QED BY <1>1, <4>6, <4>4 DEF Phase
    <3> QED BY <3>3, <3>4
  <2> QED BY <2>2, <2>3
<1> QED BY <1>1, <1>9, <1>10 DEF Sending

\* The remaining steps, phase by phase.
LEMMA IdleStep ==
  ASSUME Types, intact, Idle, Received \/ Sent \/ Proceeds
  PROVE  Phase' /\ UNCHANGED hostAddr /\ intact'
<1>1. CASE Received
  <2>1. rxBuf = Empty /\ rxBuf \notin Setups
    BY <1>1, ReceivedFrame, PacketsApart DEF Idle
  <2>2. HandleOutStatus
    BY <1>1, <2>1, ReceivedFrame DEF HandleSetup, HandleOutData, Idle
  <2>3. Idle'
    BY <1>1, <2>2, ReceivedFrame DEF HandleOutStatus, inVars, Idle, NothingLeft
  <2> QED BY <1>1, <2>3, ReceivedFrame DEF Phase
<1>2. CASE Sent
  <2>1. ApplyAddress \/ SentAll
    BY <1>2 DEF Sent, SendMore, SendZlp, Idle, NothingLeft
  <2>2. Idle'
    BY <1>2, <2>1 DEF Sent, ApplyAddress, SentAll, inVars, addrVars, hostVars, Idle, NothingLeft
  <2> QED BY <1>2, <2>2 DEF Sent, hostVars, Phase
<1>3. CASE Proceeds
  BY <1>3 DEF Proceeds, InData, InStatus, SendsData, OutData, OutStatus, Stalled, Refused, Idle
<1> QED BY <1>1, <1>2, <1>3

LEMMA SendingStep ==
  ASSUME Types, intact, Sending, Received \/ Sent \/ Proceeds
  PROVE  Phase' /\ UNCHANGED hostAddr /\ intact'
<1>1. ~Received /\ ~Sent
  BY ReceivedFrame DEF Sent, Sending, DataStage
<1>2. ~InStatus /\ ~SendsData /\ ~OutStatus /\ ~Stalled
  BY DEF InStatus, SendsData, OutData, OutStatus, Stalled, Refused, Sending, DataStage
<1> QED BY <1>1, <1>2, PacketTaken DEF Proceeds

LEMMA TakenStep ==
  ASSUME Types, intact, Taken, Received \/ Sent \/ Proceeds
  PROVE  Phase' /\ UNCHANGED hostAddr /\ intact'
<1>1. ~Received
  BY ReceivedFrame DEF Taken, DataStage
<1>2. ~Proceeds
  BY DEF Proceeds, InData, InToken, InStatus, SendsData, OutData, OutStatus, Stalled, Refused, Taken, DataStage
<1> QED BY <1>1, <1>2, TakenSent

LEMMA AwaitingStatusStep ==
  ASSUME Types, intact, AwaitingStatus, Received \/ Sent \/ Proceeds
  PROVE  Phase' /\ UNCHANGED hostAddr /\ intact'
<1>1. ~Received
  BY ReceivedFrame DEF AwaitingStatus
<1>2. CASE Sent
  <2>1. SentAll
    BY <1>2 DEF Sent, SendMore, SendZlp, ApplyAddress, AwaitingStatus, NothingLeft, Agreed
  <2>2. /\ UNCHANGED <<s_ep0_in_rem, s_ep0_in_zlp, s_addr_pending, DADDR, STAT_TX, STAT_RX, CTR_RX>>
        /\ UNCHANGED <<s_ep0_out_data, s_configured, s_line_coding>>
        /\ UNCHANGED <<hostAddr, hostConfigs, hostCoding, stage, asked, intact>>
    BY <1>2, <2>1 DEF Sent, SentAll, inVars, addrVars, hostVars
  <2>3. AwaitingStatus'
    BY <2>2, ReplyStays DEF AwaitingStatus, NothingLeft, Agreed
  <2> QED BY <2>2, <2>3 DEF Phase
<1>3. CASE Proceeds
  <2>1. OutStatus
    BY <1>3 DEF Proceeds, InData, InStatus, SendsData, OutData, Stalled, Refused, AwaitingStatus
  <2>2. Idle'
    BY <2>1 DEF OutStatus, OutToken, EndTransfer, driverVars, inVars, AwaitingStatus, Agreed, NothingLeft, Idle
  <2> QED BY <2>1, <2>2 DEF OutStatus, OutToken, Phase
<1> QED BY <1>1, <1>2, <1>3

LEMMA AwaitingDataStep ==
  ASSUME Types, intact, AwaitingData, Received \/ Sent \/ Proceeds
  PROVE  Phase' /\ UNCHANGED hostAddr /\ intact'
<1>1. ~Received /\ ~Sent
  BY ReceivedFrame DEF Sent, AwaitingData
<1>2. SendsData
  BY <1>1 DEF Proceeds, InData, InStatus, OutStatus, Stalled, Refused, AwaitingData
<1>3. PICK coding \in Codings, len \in {LineCodingLen - 1, LineCodingLen} : OutData(coding, len)
  BY <1>2 DEF SendsData
<1>4. /\ UNCHANGED <<s_ep0_in_rem, s_ep0_in_zlp, s_ep0_out_data, s_addr_pending, s_configured, s_line_coding>>
      /\ UNCHANGED <<STAT_TX, CTR_TX, DADDR, hostAddr, hostConfigs, intact, asked>>
      /\ STAT_RX' = "nak" /\ CTR_RX' = TRUE /\ rxBuf' = Packet(coding, 0, len)
      /\ stage' = "status_in"
      /\ hostCoding' = IF len = LineCodingLen THEN coding ELSE hostCoding
  BY <1>3 DEF OutData, OutToken, driverVars, inVars
<1>5. Reply' = Reply
  BY <1>4, PacketsApart, ResolveForOut DEF Reply, Expected, AwaitingData
<1>6. rxBuf' \in OutPackets /\ rxBuf'.len = len /\ rxBuf'.data = coding
  BY <1>4, PacketFields DEF OutPackets
<1>7. hostCoding' = IF rxBuf'.len >= LineCodingLen THEN rxBuf'.data ELSE s_line_coding'
  BY <1>4, <1>6 DEF LineCodingLen, AwaitingData, Agreed
<1>8. DataReceived'
  BY <1>4, <1>5, <1>6, <1>7 DEF AwaitingData, Agreed, NothingLeft, DataReceived
<1> QED BY <1>4, <1>8 DEF Phase

LEMMA DataReceivedStep ==
  ASSUME Types, intact, DataReceived, Received \/ Sent \/ Proceeds
  PROVE  Phase' /\ UNCHANGED hostAddr /\ intact'
<1>1. ~Sent /\ ~Proceeds
  BY DEF Sent, Proceeds, InData, InStatus, InToken, SendsData, OutData, OutStatus, Stalled, Refused, DataReceived
<1>2. HandleOutData
  BY <1>1, ReceivedFrame, PacketsApart DEF HandleSetup, HandleOutStatus, DataReceived
<1>3. /\ UNCHANGED <<DADDR, CTR_TX, hostAddr, hostConfigs, hostCoding, stage, asked, got, intact>>
      /\ ~CTR_RX'
  BY <1>1, ReceivedFrame
<1>4. /\ txBuf' = Empty /\ STAT_TX' = "valid" /\ STAT_RX' = "valid" /\ s_ep0_in_rem' = 0
      /\ ~s_ep0_in_zlp' /\ ~s_ep0_out_data' /\ UNCHANGED <<s_addr_pending, s_pending_addr, s_configured>>
      /\ s_line_coding' = hostCoding
  BY <1>2 DEF HandleOutData, SendStatus, NoInData, DataReceived
<1>5. Reply' = Reply /\ Reply.set_config = -1 /\ Reply.set_address = -1
  BY <1>3, <1>4, ReplyStays, ReplySound DEF DataReceived, Sound
<1>6. Reply' \in Answers'
  BY <1>3, <1>5, AnswersStay DEF DataReceived, Reply, Answers
<1>7. Confirming'
  BY <1>3, <1>4, <1>5, <1>6, PacketFields DEF DataReceived, NothingLeft, Confirming
<1> QED BY <1>3, <1>7 DEF Phase

LEMMA ConfirmingStep ==
  ASSUME Types, intact, Confirming, Received \/ Sent \/ Proceeds
  PROVE  Phase' /\ (hostAddr' = hostAddr \/ hostAddr' \in 0 .. 127) /\ intact'
<1>1. ~Received /\ ~Sent
  BY ReceivedFrame DEF Sent, Confirming
<1>2. InStatus
  BY <1>1 DEF Proceeds, InData, SendsData, OutData, OutStatus, Stalled, Refused, Confirming
<1>3. /\ UNCHANGED <<s_ep0_in_rem, s_ep0_in_zlp, s_ep0_out_data, s_addr_pending, s_pending_addr>>
      /\ UNCHANGED <<s_configured, s_line_coding, DADDR, STAT_RX, CTR_RX, hostCoding>>
      /\ STAT_TX' = "nak" /\ CTR_TX' = TRUE
      /\ stage' = "idle" /\ asked' = NoSetup /\ got' = 0
      /\ intact' = (intact /\ txBuf.len = 0)
      /\ hostAddr' = IF Reply.set_address >= 0 THEN Reply.set_address ELSE hostAddr
      /\ hostConfigs' = IF Reply.set_config >= 0 THEN {Reply.set_config} ELSE hostConfigs
  <2>1. \A answer \in Answers : /\ answer.set_address = Reply.set_address
                                /\ answer.set_config = Reply.set_config
    BY ExpectedSound DEF Answers, Confirming
  <2> QED BY <1>2, <2>1 DEF InStatus, InToken, EndTransfer, driverVars, inVars
<1>4. Sound(Reply, asked)
  BY ReplySound DEF Confirming
<1>5. hostAddr' = hostAddr \/ hostAddr' \in 0 .. 127
  BY <1>3, <1>4 DEF Sound
<1>6. Idle'
  BY <1>3 DEF Confirming, NothingLeft, Idle
<1> QED BY <1>3, <1>5, <1>6 DEF Confirming, Phase

LEMMA RefusingStep ==
  ASSUME Types, intact, Refusing, Received \/ Sent \/ Proceeds
  PROVE  Phase' /\ UNCHANGED hostAddr /\ intact'
<1>1. ~Received /\ ~Sent
  BY ReceivedFrame DEF Sent, Refusing
<1>2. Stalled
  BY <1>1 DEF Proceeds, InData, InStatus, InToken, SendsData, OutData, OutStatus, OutToken, Refusing
<1>3. Idle'
  BY <1>2 DEF Stalled, EndTransfer, driverVars, inVars, statVars, Refusing, Agreed, NothingLeft, Idle
<1> QED BY <1>2, <1>3 DEF Stalled, Phase

LEMMA AskedStep ==
  ASSUME Types, intact, Asked, Received \/ Sent \/ Proceeds
  PROVE  Phase' /\ UNCHANGED hostAddr /\ intact'
<1>1. ~Sent /\ ~Proceeds
  BY DEF Sent, Proceeds, InData, InStatus, InToken, SendsData, OutData, OutStatus, OutToken, Stalled,
         Refused, Asked
<1> QED BY <1>1, SetupServed, ReceivedFrame

\* A SETUP packet is taken only where the phases allow it.
LEMMA SetupTaken ==
  ASSUME Prompt, Types, intact, Phase, NEW s \in Setups, TakeSetup(s), Repeats(s)
  PROVE  Phase' /\ UNCHANGED hostAddr /\ intact'
<1>1. ~CTR_RX /\ ~CTR_TX /\ asked \in Setups \cup {NoSetup}
  BY DEF TakeSetup, Quiet, Types, Asking
<1>2. s_line_coding = hostCoding
  BY <1>1 DEF Phase, Asked, Idle, Sending, Taken, DataStage, AwaitingStatus, AwaitingData, DataReceived,
              Confirming, Refusing, Agreed
<1>3. stage = "idle" => s_configured \in hostConfigs /\ ~s_addr_pending
  BY <1>1 DEF Phase, Asked, Idle, Sending, Taken, DataStage, AwaitingStatus, AwaitingData, DataReceived,
              Confirming, Refusing, Agreed
<1>4. HalfSet
  <2>1. CASE Confirming
    BY <2>1 DEF Confirming, HalfSet
  <2>2. CASE ~Confirming
    <3>1. s_configured \in hostConfigs /\ ~s_addr_pending
      BY <1>1, <2>2 DEF Phase, Asked, Idle, Sending, Taken, DataStage, AwaitingStatus, AwaitingData,
                        DataReceived, Refusing, Agreed
    <3> QED BY <3>1 DEF HalfSet
  <2> QED BY <2>1, <2>2
<1> QED BY <1>2, <1>3, <1>4, SetupStep DEF Phase

\* The phases are invariant from the first served bus reset to the next one.
LEMMA AttendedNext ==
  ASSUME Prompt, Types, intact, Attended, [Next]_vars
  PROVE  intact' /\ (Resetting' \/ Attended')
<1>1. up = "running" /\ ~reset /\ hostAddr # NoAddress /\ Phase
  BY DEF Attended, Phase
<1>2. CASE BusReset
  BY <1>2, BusResetStep
<1>3. CASE up' = "running" /\ ~reset' /\ (Received \/ Sent \/ Proceeds)
  <2>1. Phase' /\ (hostAddr' = hostAddr \/ hostAddr' \in 0 .. 127) /\ intact'
    BY <1>1, <1>3, AskedStep, IdleStep, SendingStep, TakenStep, AwaitingStatusStep, AwaitingDataStep,
       DataReceivedStep, ConfirmingStep, RefusingStep DEF Phase
  <2>2. hostAddr' # NoAddress
    BY <1>1, <2>1 DEF NoAddress
  <2> QED BY <1>3, <2>1, <2>2 DEF Attended, Phase
<1>4. CASE up' = "running" /\ ~reset' /\ (NothingSent \/ UNCHANGED vars)
  BY <1>1, <1>4, Unmoved DEF Attended, Phase
<1>5. CASE up' = "running" /\ ~reset' /\ \E s \in Setups : TakeSetup(s) /\ Repeats(s)
  <2>1. PICK s \in Setups : TakeSetup(s) /\ Repeats(s)
    BY <1>5
  <2>2. Phase' /\ UNCHANGED hostAddr /\ intact'
    BY <1>1, <2>1, SetupTaken
  <2> QED BY <1>1, <1>5, <2>2 DEF Attended, Phase
<1> QED BY <1>1, <1>2, <1>3, <1>4, <1>5, Steps

-----------------------------------------------------------------------------
(* The invariant, and what follows from it.                                *)

\* At power-up nothing has happened.
THEOREM InitIInv == Init => IInv
BY InitTypes DEF Init, IInv, Silent

LEMMA SilentNext ==
  ASSUME Types, intact, Silent, [Next]_vars
  PROVE  intact' /\ (Silent' \/ Resetting')
<1>1. CASE UsbCdcInit
  <2>1. /\ UNCHANGED <<hostAddr, DADDR, stage, STAT_RX, STAT_TX, CTR_RX, CTR_TX, irq>>
        /\ UNCHANGED <<s_line_coding, hostCoding, intact>>
    BY <1>1 DEF UsbCdcInit, PowerUp, ClearEvents, Attach, EnableIrq, InitStep, addrVars, statVars, hostVars
  <2>2. reset' => up' = "powered"
    BY <1>1 DEF UsbCdcInit, PowerUp, ClearEvents, Attach, EnableIrq, InitStep, Silent
  <2> QED BY <2>1, <2>2 DEF Silent
<1>2. ~UsbIrq
  BY DEF UsbIrq, Received, HandleSetup, HandleOutData, HandleOutStatus, Sent, NothingSent, UsbReset, Silent
<1>3. CASE Bus
  <2>1. ~Proceeds /\ ~Retries /\ ~\E s \in Setups : Setup(s)
    BY DEF Proceeds, InData, InStatus, InToken, SendsData, OutData, OutStatus, OutToken, Stalled, Reachable,
           Retries, Retry, Setup, TakeSetup, Silent
  <2> QED BY <1>3, <2>1, BusResetStep DEF Bus
<1>4. CASE UNCHANGED vars
  BY <1>4 DEF vars, addrVars, statVars, hostVars, Silent
<1> QED BY <1>1, <1>2, <1>3, <1>4 DEF Next

LEMMA ResettingNext ==
  ASSUME Types, intact, Resetting, [Next]_vars
  PROVE  intact' /\ (Resetting' \/ Attended')
<1>1. CASE UsbCdcInit
  BY <1>1 DEF UsbCdcInit, PowerUp, ClearEvents, Attach, EnableIrq, InitStep, hostVars, Resetting
<1>2. CASE UsbIrq
  <2>1. CASE Received \/ Sent \/ NothingSent
    BY <1>2, <2>1 DEF UsbIrq, Received, Sent, NothingSent, hostVars, Resetting
  <2>2. CASE UsbReset
    <3>1. Idle'
      BY <2>2 DEF UsbReset, NoInData, hostVars, Resetting, NothingLeft, Idle
    <3> QED BY <1>2, <2>2, <3>1 DEF UsbIrq, UsbReset, hostVars, Resetting, Attended, NoAddress
  <2> QED BY <1>2, <2>1, <2>2 DEF UsbIrq
<1>3. ~Bus
  BY DEF Bus, BusReset, Proceeds, InData, InStatus, InToken, SendsData, OutData, OutStatus, OutToken, Stalled,
         Reachable, Retries, Retry, Setup, TakeSetup, Resetting
<1>4. CASE UNCHANGED vars
  BY <1>4 DEF vars, hostVars, Resetting
<1> QED BY <1>1, <1>2, <1>3, <1>4 DEF Next

\* Every step stays in the diagram.
THEOREM NextIInv ==
  ASSUME Prompt, IInv, [Next]_vars PROVE IInv'
BY NextTypes, SilentNext, ResettingNext, AttendedNext DEF IInv

\* Control transfers with a prompt host: driver, endpoint and host are in one
\* of the phases of the diagram, together, whatever is requested, given up or
\* reset.
THEOREM Ep0Invariant ==
  ASSUME Prompt PROVE Spec => []IInv
<1>1. Init => IInv
  BY InitIInv
<1>2. IInv /\ [Next]_vars => IInv'
  BY NextIInv
<1> QED BY <1>1, <1>2, PTL DEF Spec

\* The direction the host waits on refuses exactly the requests that are to be
\* refused, and offers or takes a packet otherwise.
LEMMA Served ==
  ASSUME IInv, Reachable, Quiet, stage # "idle"
  PROVE  /\ asked \in Setups
         /\ Refused <=> Reply.kind = "stall"
         /\ stage \in {"data_in", "status_in"}   => STAT_TX \in {"valid", "stall"}
         /\ stage \in {"data_out", "status_out"} => STAT_RX \in {"valid", "stall"}
<1>1. Sending \/ AwaitingStatus \/ AwaitingData \/ Confirming \/ Refusing
  BY DEF IInv, Silent, Resetting, Attended, Asked, Idle, Taken, DataReceived, Reachable, Quiet
<1>2. CASE Sending
  BY <1>2 DEF Sending, DataStage, Refused
<1>3. CASE AwaitingStatus
  BY <1>3 DEF AwaitingStatus, Refused
<1>4. CASE AwaitingData
  BY <1>4 DEF AwaitingData, Refused
<1>5. CASE Confirming
  BY <1>5 DEF Confirming, Refused
<1>6. CASE Refusing
  BY <1>6 DEF Refusing, Refused
<1> QED BY <1>1, <1>2, <1>3, <1>4, <1>5, <1>6

\* What the host reads is the answer to what it asked, whole and in order, for
\* every set of requests, packet size and coding (handle_setup, ep0_handler).
THEOREM Ep0ReadIntact ==
  ASSUME Prompt PROVE Spec => []ReadIntact
<1>1. IInv => ReadIntact
  BY DEF IInv, ReadIntact
<1> QED BY <1>1, Ep0Invariant, PTL

\* Once its interrupts are served, the device has armed or refuses the
\* direction the host waits on.
THEOREM Ep0HostIsServed ==
  ASSUME Prompt PROVE Spec => []HostIsServed
<1>1. IInv => HostIsServed
  BY Served DEF HostIsServed
<1> QED BY <1>1, Ep0Invariant, PTL

\* Between transfers no packet is left queued.
THEOREM Ep0NoSpuriousIn ==
  ASSUME Prompt PROVE Spec => []NoSpuriousIn
<1>1. IInv => NoSpuriousIn
  BY DEF IInv, Silent, Resetting, Attended, Asked, Idle, Sending, Taken, DataStage, AwaitingStatus,
         AwaitingData, DataReceived, Confirming, Refusing, NoSpuriousIn, Quiet
<1> QED BY <1>1, Ep0Invariant, PTL

\* Between transfers host and device agree on the device's address.
THEOREM Ep0AddressAgrees ==
  ASSUME Prompt PROVE Spec => []AddressAgrees
<1>1. IInv => AddressAgrees
  BY DEF IInv, Silent, Resetting, Attended, Asked, Idle, Sending, Taken, DataStage, AwaitingStatus,
         AwaitingData, DataReceived, Confirming, Refusing, AddressAgrees, Quiet
<1> QED BY <1>1, Ep0Invariant, PTL

\* The device echoes the last line coding the host sent in full.
THEOREM Ep0LineCodingAgrees ==
  ASSUME Prompt PROVE Spec => []LineCodingAgrees
<1>1. IInv => LineCodingAgrees
  BY DEF IInv, Silent, Resetting, Attended, Asked, Idle, Sending, Taken, DataStage, AwaitingStatus,
         AwaitingData, DataReceived, Confirming, Refusing, Agreed, LineCodingAgrees, Quiet
<1> QED BY <1>1, Ep0Invariant, PTL

-----------------------------------------------------------------------------
(* Descriptors and resolver.                                               *)

LEMMA Descriptors ==
  /\ DOMAIN usb_config_desc = 1 .. 10 /\ Len(usb_config_desc) = 10
  /\ usb_config_desc[1].type = "config" /\ usb_config_desc[2].type = "interface"
  /\ usb_config_desc[3].type = "header" /\ usb_config_desc[4].type = "call_management"
  /\ usb_config_desc[5].type = "acm" /\ usb_config_desc[6].type = "union"
  /\ usb_config_desc[7].type = "endpoint" /\ usb_config_desc[8].type = "interface"
  /\ usb_config_desc[9].type = "endpoint" /\ usb_config_desc[10].type = "endpoint"
BY DEF usb_config_desc, Interface, Endpoint

LEMMA DescriptorFields ==
  /\ usb_config_desc[1].total = 67 /\ usb_config_desc[1].interfaces = 2 /\ usb_config_desc[1].value = 1
  /\ usb_config_desc[2].number = 0 /\ usb_config_desc[2].endpoints = 1
  /\ usb_config_desc[8].number = 1 /\ usb_config_desc[8].endpoints = 2
  /\ usb_config_desc[7].address = 130 /\ usb_config_desc[9].address = 1 /\ usb_config_desc[10].address = 129
  /\ usb_config_desc[6].control = 0 /\ usb_config_desc[6].subordinate = 1
  /\ usb_config_desc[5].line_requests = TRUE /\ usb_config_desc[4].data = 1
BY DEF usb_config_desc, Interface, Endpoint, ConfigLen

LEMMA DescriptorLengths ==
  /\ usb_config_desc[1].len = 9 /\ usb_config_desc[2].len = 9 /\ usb_config_desc[3].len = 5
  /\ usb_config_desc[4].len = 5 /\ usb_config_desc[5].len = 4 /\ usb_config_desc[6].len = 5
  /\ usb_config_desc[7].len = 7 /\ usb_config_desc[8].len = 9 /\ usb_config_desc[9].len = 7
  /\ usb_config_desc[10].len = 7
BY DEF usb_config_desc, Interface, Endpoint

LEMMA DeclaredTypes ==
  /\ Declared("interface") = {usb_config_desc[2], usb_config_desc[8]}
  /\ Declared("endpoint") = {usb_config_desc[7], usb_config_desc[9], usb_config_desc[10]}
  /\ Declared("union") = {usb_config_desc[6]}
  /\ Declared("acm") = {usb_config_desc[5]}
  /\ Declared("call_management") = {usb_config_desc[4]}
<1>1. {j \in DOMAIN usb_config_desc : usb_config_desc[j].type = "interface"} = {2, 8}
  BY Descriptors
<1>2. {j \in DOMAIN usb_config_desc : usb_config_desc[j].type = "endpoint"} = {7, 9, 10}
  BY Descriptors
<1>3. {j \in DOMAIN usb_config_desc : usb_config_desc[j].type = "union"} = {6}
  BY Descriptors
<1>4. {j \in DOMAIN usb_config_desc : usb_config_desc[j].type = "acm"} = {5}
  BY Descriptors
<1>5. {j \in DOMAIN usb_config_desc : usb_config_desc[j].type = "call_management"} = {4}
  BY Descriptors
<1> QED BY <1>1, <1>2, <1>3, <1>4, <1>5 DEF Declared

\* What the descriptors declare.
LEMMA DeclaredIs ==
  /\ ConfigurationValue = 1
  /\ Interfaces = {0, 1}
  /\ DeclaredEndpoints = {1, 129, 130}
  /\ ControlInterfaces = {0}
  /\ LineRequests
  /\ DeclaredStrings = {0, 1, 2, 3}
<1>1. ConfigurationValue = 1
  BY DescriptorFields DEF ConfigurationValue
<1>2. Interfaces = {0, 1}
  BY DeclaredTypes, DescriptorFields DEF Interfaces
<1>3. DeclaredEndpoints = {1, 129, 130}
  BY DeclaredTypes, DescriptorFields DEF DeclaredEndpoints
<1>4. ControlInterfaces = {0}
  BY DeclaredTypes, DescriptorFields DEF ControlInterfaces
<1>5. LineRequests
  BY DeclaredTypes, DescriptorFields DEF LineRequests
<1>6. DeclaredStrings = {0, 1, 2, 3}
  BY DEF DeclaredStrings, usb_device_desc
<1> QED BY <1>1, <1>2, <1>3, <1>4, <1>5, <1>6

\* The ends of the descriptors: a function that satisfies the recursive
\* equation exists, so End does.
Ends == [n \in 0 .. 10 |->
           CASE n = 0 -> 0  [] n = 1 -> 9  [] n = 2 -> 18 [] n = 3 -> 23 [] n = 4 -> 28 [] n = 5 -> 32
             [] n = 6 -> 37 [] n = 7 -> 44 [] n = 8 -> 53 [] n = 9 -> 60 [] n = 10 -> 67]

IsEnd(f) == f = [n \in 0 .. Len(usb_config_desc) |-> IF n = 0 THEN 0 ELSE f[n - 1] + usb_config_desc[n].len]

LEMMA EndIs == End[Len(usb_config_desc)] = 67
<1>1. IsEnd(Ends)
  <2>1. \A n \in 0 .. 10 : Ends[n] = IF n = 0 THEN 0 ELSE Ends[n - 1] + usb_config_desc[n].len
    BY DescriptorLengths DEF Ends
  <2>2. Ends = [n \in 0 .. 10 |-> Ends[n]]
    BY DEF Ends
  <2> HIDE DEF Ends
  <2> QED BY <2>1, <2>2, Descriptors DEF IsEnd
<1>2. End = CHOOSE f : IsEnd(f)
  BY DEF End, IsEnd
<1>3. IsEnd(End)
  BY <1>1, <1>2
<1>4. \A n \in 0 .. 10 : End[n] = IF n = 0 THEN 0 ELSE End[n - 1] + usb_config_desc[n].len
  BY <1>3, Descriptors DEF IsEnd
<1> HIDE DEF End
<1>5. End[0] = 0 /\ End[1] = 9 /\ End[2] = 18 /\ End[3] = 23 /\ End[4] = 28 /\ End[5] = 32
  BY <1>4, DescriptorLengths
<1>6. End[6] = 37 /\ End[7] = 44 /\ End[8] = 53 /\ End[9] = 60 /\ End[10] = 67
  BY <1>4, <1>5, DescriptorLengths
<1> QED BY <1>6, Descriptors

LEMMA EndpointsFollow ==
  /\ EndpointsOf(2) = {7}
  /\ EndpointsOf(8) = {9, 10}
<1>1. \A k \in 3 .. 7 : usb_config_desc[k].type # "interface"
  <2>1. \A k \in 3 .. 7 : k = 3 \/ k = 4 \/ k = 5 \/ k = 6 \/ k = 7
    OBVIOUS
  <2> QED BY <2>1, Descriptors
<1>2. \A k \in 9 .. 10 : usb_config_desc[k].type = "endpoint"
  <2>1. \A k \in 9 .. 10 : k = 9 \/ k = 10
    OBVIOUS
  <2> QED BY <2>1, Descriptors
<1>3. EndpointsOf(2) = {7}
  <2>1. 7 \in EndpointsOf(2)
    BY <1>1, Descriptors DEF EndpointsOf
  <2>2. ASSUME NEW j \in EndpointsOf(2) PROVE j = 7
    <3>1. j \in 3 .. 10 /\ usb_config_desc[j].type = "endpoint" /\ ~(8 \in 3 .. j)
      BY Descriptors DEF EndpointsOf
    <3>2. j = 3 \/ j = 4 \/ j = 5 \/ j = 6 \/ j = 7
      BY <3>1
    <3> QED BY <3>1, <3>2, Descriptors
  <2> QED BY <2>1, <2>2
<1>4. EndpointsOf(8) = {9, 10}
  <2>1. 9 \in EndpointsOf(8) /\ 10 \in EndpointsOf(8)
    BY <1>2, Descriptors DEF EndpointsOf
  <2>2. \A j \in EndpointsOf(8) : j \in 9 .. 10
    BY Descriptors DEF EndpointsOf
  <2> QED BY <2>1, <2>2
<1> QED BY <1>3, <1>4

\* A host that has read the configuration descriptor whole can parse it
\* (usb_config_desc).
THEOREM ConfigCanBeParsed == ConfigParses
<1>1. End[Len(usb_config_desc)] = usb_config_desc[1].total
  BY EndIs, DescriptorFields
<1>2. Interfaces = 0 .. usb_config_desc[1].interfaces - 1
  BY DeclaredIs, DescriptorFields
<1>3. ASSUME NEW i \in DOMAIN usb_config_desc, usb_config_desc[i].type = "interface"
      PROVE  usb_config_desc[i].endpoints = Cardinality(EndpointsOf(i))
  <2>1. i = 2 \/ i = 8
    BY <1>3, Descriptors
  <2>2. Cardinality({7}) = 1
    BY FS_Singleton
  <2>3. Cardinality({9, 10}) = 2
    <3>1. IsFiniteSet({9}) /\ Cardinality({9}) = 1
      BY FS_Singleton
    <3>2. Cardinality({9} \cup {10}) = 1 + 1
      BY <3>1, FS_AddElement
    <3>3. {9} \cup {10} = {9, 10}
      OBVIOUS
    <3> QED BY <3>2, <3>3
  <2> QED BY <2>1, <2>2, <2>3, EndpointsFollow, DescriptorFields
<1>4. \A u \in Declared("union") : {u.control, u.subordinate} \subseteq Interfaces
  BY DeclaredTypes, DeclaredIs, DescriptorFields
<1>5. \A c \in Declared("call_management") : c.data \in Interfaces
  BY DeclaredTypes, DeclaredIs, DescriptorFields
<1> QED BY <1>1, <1>2, <1>3, <1>4, <1>5 DEF ConfigParses

LEMMA StringsBuilt ==
  /\ \A n \in {0, 1, 2, 3} : usb_desc_string(n, StrbufLen) # 0
  /\ \A n \in Nat \ {0, 1, 2, 3} : usb_desc_string(n, StrbufLen) = 0
<1>1. Len(k_strings) = 3 /\ k_strings[1] = 11 /\ k_strings[2] = 22 /\ k_strings[3] = 8
  BY DEF k_strings
<1>2. \A n \in {0, 1, 2, 3} : usb_desc_string(n, StrbufLen) # 0
  BY <1>1 DEF usb_desc_string, StrbufLen
<1>3. \A n \in Nat \ {0, 1, 2, 3} : n \notin 0 .. Len(k_strings)
  BY <1>1
<1>4. \A n \in Nat \ {0, 1, 2, 3} : usb_desc_string(n, StrbufLen) = 0
  BY <1>3 DEF usb_desc_string
<1> QED BY <1>2, <1>4

LEMMA Kinds ==
  /\ StallIt.kind = "stall" /\ StatusIt.kind = "status" /\ ExpectOut.kind = "expect_out"
  /\ \A a : [StatusIt EXCEPT !.set_address = a].kind = "status"
  /\ \A c : [StatusIt EXCEPT !.set_config = c].kind = "status"
BY DEF StallIt, StatusIt, ExpectOut, Answer

\* The resolver answers what the descriptors entitle a host to.
LEMMA EntitledAnswered ==
  ASSUME NEW s \in SetupPackets, Entitled(s), NEW c, NEW l
  PROVE  Resolve(s, c, l).kind # "stall"
<1>1. CASE /\ s.type = "standard" /\ s.request = "GET_DESCRIPTOR" /\ s.dir = "in" /\ s.recip = "device"
           /\ s.value \in {256, 512} \cup {768 + i : i \in DeclaredStrings}
  <2>1. Resolve(s, c, l) = GetDescriptor(s)
    BY <1>1 DEF Resolve, ResolveStandard, OnlyIf
  <2>2. s.value \in {256, 512, 768, 769, 770, 771}
    BY <1>1, DeclaredIs
  <2>3. /\ 256 \div 256 = 1 /\ 512 \div 256 = 2 /\ 768 \div 256 = 3 /\ 769 \div 256 = 3
        /\ 770 \div 256 = 3 /\ 771 \div 256 = 3
        /\ 768 % 256 = 0 /\ 769 % 256 = 1 /\ 770 % 256 = 2 /\ 771 % 256 = 3
    OBVIOUS
  <2>4. \/ s.value \div 256 = 1 \/ s.value \div 256 = 2
        \/ s.value \div 256 = 3 /\ usb_desc_string(s.value % 256, StrbufLen) # 0
    BY <2>2, <2>3, StringsBuilt
  <2>5. GetDescriptor(s).kind = "tx_data"
    BY <2>4, DataFields DEF GetDescriptor
  <2> QED BY <2>1, <2>5
<1>2. CASE /\ s.type = "standard" /\ s.request = "SET_CONFIGURATION" /\ s.dir = "out" /\ s.recip = "device"
           /\ s.length = 0 /\ s.index = 0 /\ s.value = ConfigurationValue
  <2>1. Resolve(s, c, l) = [StatusIt EXCEPT !.set_config = s.value]
    BY <1>2, DeclaredIs DEF Resolve, ResolveStandard, OnlyIf
  <2> QED BY <2>1, Kinds
<1>3. CASE /\ s.type = "standard" /\ s.request = "GET_STATUS" /\ s.dir = "in" /\ s.length = 2 /\ s.value = 0
           /\ \/ s.recip = "interface" /\ s.index \in Interfaces
              \/ s.recip = "endpoint" /\ s.index \in DeclaredEndpoints
  <2>1. RecipientExists(s)
    BY <1>3, DeclaredIs DEF RecipientExists, NumInterfaces, Endpoints
  <2>2. Resolve(s, c, l) = TxData(IF s.recip = "device" THEN "self_powered" ELSE "zeros", 2, s.length)
    BY <1>3, <2>1 DEF Resolve, ResolveStandard, OnlyIf
  <2> QED BY <2>2, DataFields
<1>4. CASE /\ s.type = "standard" /\ s.request \in {"CLEAR_FEATURE", "SET_FEATURE"} /\ s.dir = "out"
           /\ s.length = 0 /\ s.value = EndpointHalt /\ s.recip = "endpoint" /\ s.index \in DeclaredEndpoints
  <2>1. s.index \in Endpoints
    BY <1>4, DeclaredIs DEF Endpoints
  <2>2. Resolve(s, c, l) = StatusIt
    BY <1>4, <2>1 DEF Resolve, ResolveStandard, OnlyIf
  <2> QED BY <2>2, Kinds
<1>5. CASE /\ s.type = "class" /\ s.recip = "interface" /\ s.index \in ControlInterfaces
           /\ \/ s.value = 0 /\ <<s.request, s.dir, s.length>> \in
                   {<<"GET_LINE_CODING", "in", 7>>, <<"SET_LINE_CODING", "out", 7>>}
              \/ <<s.request, s.dir, s.length>> = <<"SET_CONTROL_LINE_STATE", "out", 0>>
  <2>1. s.index = CommInterface
    BY <1>5, DeclaredIs DEF CommInterface
  <2>2. CASE s.request = "GET_LINE_CODING" /\ s.dir = "in" /\ s.length = 7 /\ s.value = 0
    <3>1. Resolve(s, c, l) = TxData(l, LineCodingLen, s.length)
      BY <1>5, <2>1, <2>2 DEF Resolve, ResolveClass, OnlyIf, LineCodingLen
    <3> QED BY <3>1, DataFields
  <2>3. CASE s.request = "SET_LINE_CODING" /\ s.dir = "out" /\ s.length = 7 /\ s.value = 0
    <3>1. Resolve(s, c, l) = ExpectOut
      BY <1>5, <2>1, <2>3 DEF Resolve, ResolveClass, OnlyIf, LineCodingLen
    <3> QED BY <3>1, Kinds
  <2>4. CASE s.request = "SET_CONTROL_LINE_STATE" /\ s.dir = "out" /\ s.length = 0
    <3>1. Resolve(s, c, l) = StatusIt
      BY <1>5, <2>1, <2>4 DEF Resolve, ResolveClass, OnlyIf
    <3> QED BY <3>1, Kinds
  <2> QED BY <1>5, <2>2, <2>3, <2>4
<1> QED BY <1>1, <1>2, <1>3, <1>4, <1>5 DEF Entitled

\* The resolver refuses what goes to what the descriptors do not declare.
LEMMA UndeclaredRefused ==
  ASSUME NEW s \in SetupPackets, Undeclared(s), NEW c, NEW l
  PROVE  Resolve(s, c, l) = StallIt
<1>1. CASE s.recip = "interface" /\ s.index \notin Interfaces
  <2>1. ~RecipientExists(s) /\ s.index # CommInterface
    BY <1>1, DeclaredIs, SetupFields DEF RecipientExists, NumInterfaces, CommInterface
  <2> QED BY <1>1, <2>1 DEF Resolve, ResolveStandard, ResolveClass, OnlyIf
<1>2. CASE s.recip = "endpoint" /\ s.index \notin {0} \cup DeclaredEndpoints
  <2>1. ~RecipientExists(s) /\ s.index \notin Endpoints
    BY <1>2, DeclaredIs DEF RecipientExists, Endpoints
  <2> QED BY <1>2, <2>1 DEF Resolve, ResolveStandard, ResolveClass, OnlyIf
<1>3. CASE s.type = "class" /\ s.index \notin ControlInterfaces
  BY <1>3, DeclaredIs DEF Resolve, ResolveClass, OnlyIf, CommInterface
<1>4. CASE s.request = "SET_CONFIGURATION" /\ s.value \notin {0, ConfigurationValue}
  BY <1>4, DeclaredIs DEF Resolve, ResolveStandard, ResolveClass, OnlyIf
<1>5. CASE s.request = "GET_DESCRIPTOR" /\ s.value \div 256 = 3 /\ s.value % 256 \notin DeclaredStrings
  <2>1. usb_desc_string(s.value % 256, StrbufLen) = 0
    BY <1>5, DeclaredIs, SetupFields, StringsBuilt
  <2>2. GetDescriptor(s) = StallIt
    BY <1>5, <2>1 DEF GetDescriptor
  <2> QED BY <1>5, <2>2 DEF Resolve, ResolveStandard, ResolveClass, OnlyIf
<1> QED BY <1>1, <1>2, <1>3, <1>4, <1>5 DEF Undeclared

\* The device does what its descriptors promise and nothing beyond them, for
\* every request there can be (usb_ctrl_resolve against usb_desc.c).
THEOREM Ep0DescriptorsHonoured ==
  ASSUME Prompt PROVE Spec => []DescriptorsHonoured
<1>1. ASSUME IInv, Reachable, Quiet, stage # "idle"
      PROVE  /\ Entitled(asked) => ~Refused
             /\ Undeclared(asked) => Refused
  <2>1. asked \in SetupPackets /\ (Refused <=> Reply.kind = "stall")
    BY <1>1, Served, PacketsApart
  <2> QED BY <2>1, EntitledAnswered, UndeclaredRefused, Kinds DEF Reply, Expected
<1>2. IInv => DescriptorsHonoured
  BY <1>1, ConfigCanBeParsed DEF DescriptorsHonoured
<1> QED BY <1>2, Ep0Invariant, PTL
=============================================================================
