---------------------------- MODULE UsbTxProofs ----------------------------
(***************************************************************************)
(* Proofs about the bulk endpoint, for all frames, FIFO sizes and packet   *)
(* sizes: the flag, the registers and the data toggles stay in step        *)
(* (IInv), and the endpoint implements FramePipe.                          *)
(***************************************************************************)
EXTENDS UsbTx, SequenceTheorems, TLAPS

\* Where the main loop is, and what its locals are for.
Control ==
  /\ masked <=> pc # "relay"
  /\ pc # "push" => src = <<>> /\ i = 0
  /\ pc # "load" => pkt = <<>>
  /\ pc = "arm" => epr.kept = {"CTR_RX", "CTR_TX"}

\* A push under way fits, and what it has pushed is the head of its frame.
Pushing ==
  pc = "push" =>
    /\ writes < 2
    /\ (Len(src) - i) + Len(s_tx) <= Room
    /\ i <= Len(s_tx)
    /\ \A k \in 1 .. i : s_tx[(Len(s_tx) - i) + k] = src[k]

\* A packet is loaded only on an idle endpoint of a configured device, and
\* between the load and the write of EP1R nothing but a reset touches it.
Loading ==
  /\ pc = "load" => s_configured /\ ~s_tx_busy /\ pkt # <<>>
  /\ pc \in {"read", "arm"} => s_configured /\ s_tx_busy
  /\ s_tx_busy => pma # <<>>
  /\ s_configured /\ ~reset =>
       /\ STAT_TX \in {Nak, Valid}
       /\ STAT_TX = Valid => ~CTR_TX
       /\ pc \in {"read", "arm"} => STAT_TX = Nak /\ ~CTR_TX
       /\ pc = "arm" => epr.toggle = {4}

\* What a session is: the host reads and has a packet only while the device
\* is configured, and not while a request is under way.
Sessions ==
  /\ ~s_configured => ~s_tx_busy /\ ~reading /\ received = <<>>
  /\ reset => request = "none" /\ ~reading /\ received = <<>>
  /\ request # "none" => ~reading
  /\ request \in {"set_config_0", "set_config_1", "configured", "deconfigured"} => received = <<>>
  /\ request \in {"clear_halt", "cleared"} => restarted
  /\ request = "set_config_1" /\ s_configured => restarted
  /\ request \in {"configured", "clear_halt", "cleared"} => s_configured
  /\ request = "deconfigured" => ~s_configured

\* The data toggles agree until the host has the packet on the endpoint, and
\* again when it has acknowledged it.
Due == IF request = "configured" THEN 0 ELSE hostTog

Toggles ==
  s_configured /\ ~SessionOver =>
    /\ STAT_TX = Valid => (DTOG_TX = Due <=> ~taken)
    /\ STAT_TX # Valid => DTOG_TX = Due /\ (CTR_TX => taken)
    /\ pc \in {"read", "arm"} => ~taken

Endpoint == Loading /\ BusyIsInFlight /\ OutServed /\ Sessions /\ Toggles

IInv == TypeOK /\ Control /\ Pushing /\ Endpoint

\* TypeOK, variable by variable.
Queue    == s_tx \in Seq(Byte) /\ Len(s_tx) <= Room
Place    == pc \in PcValues /\ writes \in 0 .. 2 /\ src \in Frames \cup {<<>>} /\ i \in 0 .. Len(src)
Flags    == /\ s_tx_busy \in BOOLEAN /\ s_configured \in BOOLEAN /\ masked \in BOOLEAN
            /\ CTR_TX \in BOOLEAN /\ CTR_RX \in BOOLEAN /\ reset \in BOOLEAN
            /\ reading \in BOOLEAN /\ taken \in BOOLEAN /\ restarted \in BOOLEAN
Packets  == /\ pkt \in Seq(Byte) /\ Len(pkt) <= MaxPacket
            /\ pma \in Seq(Byte) /\ Len(pma) <= MaxPacket
            /\ received \in Seq(Byte) /\ Len(received) <= MaxPacket
Register == /\ STAT_TX \in SUBSET Valid /\ STAT_RX \in SUBSET Valid /\ epr.toggle \in SUBSET Valid
            /\ DTOG_TX \in {0, 1} /\ hostTog \in {0, 1} /\ request \in Requests
Types    == Queue /\ Place /\ Flags /\ Packets /\ Register

LEMMA TypeIsTypes == (TypeOK <=> Types) /\ (TypeOK' <=> Types')
<1>1. TypeOK <=> Types
  BY DEF TypeOK, Types, Queue, Place, Flags, Packets, Register
<1>2. TypeOK' <=> Types'
  BY DEF TypeOK, Types, Queue, Place, Flags, Packets, Register
<1> QED BY <1>1, <1>2

LEMMA EmptyPacket == <<>> \in Seq(Byte) /\ Len(<<>>) = 0 /\ 0 <= Room /\ 0 <= MaxPacket
BY UsbTxAssumption

-----------------------------------------------------------------------------
(* The states of an endpoint, and how toggling gets from one to the next.  *)

LEMMA Stats ==
  /\ {Disabled, Nak, Valid} \subseteq SUBSET Valid
  /\ Disabled # Valid /\ Nak # Valid /\ Disabled # Nak
  /\ Toggled(Nak, Valid) = {4}
  /\ Toggled(Nak, {4}) = Valid
<1>1. Toggled(Nak, Valid) = {4}
  BY DEF Nak, Valid, Toggled
<1>2. Toggled(Nak, {4}) = Valid
  BY DEF Nak, Valid, Toggled
<1>3. {Disabled, Nak, Valid} \subseteq SUBSET Valid
  BY DEF Disabled, Nak, Valid
<1>4. 4 \in Valid /\ 4 \notin Nak /\ 4 \notin Disabled /\ 5 \in Nak /\ 5 \notin Disabled
  BY DEF Disabled, Nak, Valid
<1> QED BY <1>1, <1>2, <1>3, <1>4

LEMMA ToggledType ==
  ASSUME NEW s \in SUBSET Valid, NEW t \in SUBSET Valid
  PROVE  Toggled(s, t) \in SUBSET Valid
BY DEF Toggled

-----------------------------------------------------------------------------
(* Initial states.                                                         *)

\* At reset: endpoint off, queue empty, nothing in flight.
THEOREM InitIInv == Init => IInv
<1> SUFFICES ASSUME Init PROVE IInv
  OBVIOUS
<1>1. TypeOK
  <2>1. epr.toggle = {} /\ STAT_TX = {} /\ STAT_RX = {}
    BY DEF Init, NoWrite, EprWrite, Disabled
  <2>2. Queue /\ Packets /\ Flags
    BY EmptyPacket DEF Init, Queue, Packets, Flags
  <2>3. writes \in 0 .. 2 /\ i \in 0 .. Len(src)
    BY EmptyPacket DEF Init
  <2>4. Place
    BY <2>3 DEF Init, PcValues, Place
  <2>5. Register
    BY <2>1 DEF Init, Requests, Register
  <2> QED BY <2>2, <2>4, <2>5, TypeIsTypes DEF Types
<1>2. Control /\ Pushing
  BY DEF Init, Control, Pushing
<1>3. Endpoint
  BY DEF Init, Endpoint, Loading, BusyIsInFlight, OutServed, Sessions, Toggles
<1> QED BY <1>1, <1>2, <1>3 DEF IInv

-----------------------------------------------------------------------------
(* The interrupt.  It runs only between two calls of the main loop.        *)

\* The handlers of usb_cdc_irq.
THEOREM UsbIrqKeepsIInv == IInv /\ UsbIrq => IInv'
<1> SUFFICES ASSUME IInv, UsbIrq PROVE IInv'
  OBVIOUS
<1> USE DEF driverVars, mainVars, outVars, endpointVars, eventVars, hostVars
<1>1. /\ pc = "relay" /\ src = <<>> /\ i = 0 /\ pkt = <<>>
      /\ UNCHANGED <<mainVars, hostVars>>
  BY DEF UsbIrq, IInv, Control
<1>2. Control' /\ Pushing'
  BY <1>1 DEF IInv, Control, Pushing
<1>3. CASE UsbReset
  <2>1. TypeOK'
    BY <1>1, <1>3, TypeIsTypes, EmptyPacket
    DEF UsbReset, IInv, Types, Queue, Place, Flags, Packets, Register
  <2>2. Endpoint'
    BY <1>1, <1>3 DEF UsbReset, IInv, TypeOK, Endpoint, Loading, BusyIsInFlight, OutServed, Sessions, Toggles
  <2> QED BY <1>2, <2>1, <2>2 DEF IInv
<1>4. CASE ApplyConfig1
  <2>1. TypeOK'
    BY <1>1, <1>4, Stats, TypeIsTypes, EmptyPacket
    DEF ApplyConfig1, IInv, Requests, Types, Queue, Place, Flags, Packets, Register
  <2>2. Endpoint'
    BY <1>1, <1>4, Stats
    DEF ApplyConfig1, IInv, TypeOK, Endpoint, Loading, BusyIsInFlight, OutServed,
        Sessions, Toggles, Due, SessionOver
  <2> QED BY <1>2, <2>1, <2>2 DEF IInv
<1>5. CASE ApplyConfig0
  <2>1. TypeOK'
    BY <1>1, <1>5, Stats, TypeIsTypes, EmptyPacket
    DEF ApplyConfig0, IInv, Requests, Types, Queue, Place, Flags, Packets, Register
  <2>2. Endpoint'
    BY <1>1, <1>5
    DEF ApplyConfig0, IInv, TypeOK, Endpoint, Loading, BusyIsInFlight, OutServed,
        Sessions, Toggles
  <2> QED BY <1>2, <2>1, <2>2 DEF IInv
<1>6. CASE ClearHalt
  <2>1. TypeOK'
    BY <1>1, <1>6, TypeIsTypes, EmptyPacket
    DEF ClearHalt, IInv, Requests, Types, Queue, Place, Flags, Packets, Register
  <2>2. Endpoint'
    BY <1>1, <1>6
    DEF ClearHalt, IInv, TypeOK, Endpoint, Loading, BusyIsInFlight, OutServed,
        Sessions, Toggles, Due, SessionOver
  <2> QED BY <1>2, <2>1, <2>2 DEF IInv
<1>7. CASE Ep1Handler
  <2>1. TypeOK'
    BY <1>1, <1>7, Stats, TypeIsTypes, EmptyPacket
    DEF Ep1Handler, IInv, Types, Queue, Place, Flags, Packets, Register
  <2>2. Endpoint'
    BY <1>1, <1>7
    DEF Ep1Handler, IInv, TypeOK, Endpoint, Loading, BusyIsInFlight, OutServed,
        Sessions, Toggles, Due, SessionOver
  <2> QED BY <1>2, <2>1, <2>2 DEF IInv
<1> QED BY <1>3, <1>4, <1>5, <1>6, <1>7 DEF UsbIrq

-----------------------------------------------------------------------------
(* The bus.                                                                *)

LEMMA HostReadsTypes ==
  ASSUME Types, HostReads
  PROVE  /\ received' \in Seq(Byte) /\ Len(received') <= MaxPacket
         /\ hostTog' \in {0, 1} /\ taken' \in BOOLEAN /\ 1 - DTOG_TX \in {0, 1}
<1>1. 1 - DTOG_TX \in {0, 1} /\ 1 - hostTog \in {0, 1}
  BY DEF Types, Register
<1>2. CASE DTOG_TX = hostTog
  BY <1>1, <1>2 DEF HostReads, Types, Packets
<1>3. CASE DTOG_TX # hostTog
  BY <1>1, <1>3 DEF HostReads, Types, Packets, Flags, Register
<1> QED BY <1>2, <1>3

\* The hardware and the host.
THEOREM HostKeepsIInv == IInv /\ Host => IInv'
<1> SUFFICES ASSUME IInv, Host PROVE IInv'
  OBVIOUS
<1> USE DEF driverVars, mainVars, outVars, ctrVars, endpointVars, eventVars, hostVars
<1>1. UNCHANGED <<driverVars, mainVars>>
  BY DEF Host, HostTakes, AckLost, HostWrites, BusReset, HostConfigures, HostReconfigures,
         HostDeconfigures, HostClearsHalt, Request, RequestAnswered
<1>2. Control' /\ Pushing'
  BY <1>1 DEF IInv, Control, Pushing
<1>3. CASE HostTakes
  <2>1. TypeOK'
    BY <1>1, <1>3, Stats, HostReadsTypes, TypeIsTypes
    DEF HostTakes, IInv, Types, Queue, Place, Flags, Packets, Register
  <2>2. Endpoint'
    BY <1>1, <1>3, Stats
    DEF HostTakes, HostReads, Offered, IInv, TypeOK, Endpoint, Loading, BusyIsInFlight, OutServed,
        Sessions, Toggles, Due, SessionOver
  <2> QED BY <1>2, <2>1, <2>2 DEF IInv
<1>4. CASE AckLost
  <2>1. TypeOK'
    BY <1>1, <1>4, HostReadsTypes, TypeIsTypes
    DEF AckLost, IInv, Types, Queue, Place, Flags, Packets, Register
  <2>2. Endpoint'
    BY <1>1, <1>4, Stats
    DEF AckLost, HostReads, Offered, IInv, TypeOK, Endpoint, Loading, BusyIsInFlight, OutServed,
        Sessions, Toggles, Due, SessionOver
  <2> QED BY <1>2, <2>1, <2>2 DEF IInv
<1>5. CASE HostWrites
  <2>1. TypeOK'
    BY <1>1, <1>5, Stats, TypeIsTypes, EmptyPacket
    DEF HostWrites, IInv, Types, Queue, Place, Flags, Packets, Register
  <2>2. Endpoint'
    BY <1>1, <1>5
    DEF HostWrites, IInv, TypeOK, Endpoint, Loading, BusyIsInFlight, OutServed,
        Sessions, Toggles, Due, SessionOver
  <2> QED BY <1>2, <2>1, <2>2 DEF IInv
<1>6. CASE BusReset
  <2>1. TypeOK'
    BY <1>1, <1>6, Stats, TypeIsTypes, EmptyPacket
    DEF BusReset, IInv, Requests, Types, Queue, Place, Flags, Packets, Register
  <2>2. Endpoint'
    BY <1>1, <1>6
    DEF BusReset, IInv, TypeOK, Endpoint, Loading, BusyIsInFlight, OutServed,
        Sessions, Toggles, SessionOver
  <2> QED BY <1>2, <2>1, <2>2 DEF IInv
<1>7. ASSUME NEW what \in {"set_config_1", "set_config_0", "clear_halt"}, Request(what),
             what = "clear_halt" => s_configured
      PROVE  IInv'
  <2>1. TypeOK'
    BY <1>1, <1>7, TypeIsTypes, EmptyPacket
    DEF Request, IInv, Requests, Types, Queue, Place, Flags, Packets, Register
  <2>2. Endpoint'
    BY <1>1, <1>7
    DEF Request, IInv, TypeOK, Endpoint, Loading, BusyIsInFlight, OutServed,
        Sessions, Toggles, Due, SessionOver
  <2> QED BY <1>2, <2>1, <2>2 DEF IInv
<1>8. CASE RequestAnswered
  <2>1. TypeOK'
    BY <1>1, <1>8, TypeIsTypes, EmptyPacket
    DEF RequestAnswered, IInv, Requests, Types, Queue, Place, Flags, Packets, Register
  <2>2. Endpoint'
    BY <1>1, <1>8
    DEF RequestAnswered, IInv, TypeOK, Endpoint, Loading, BusyIsInFlight, OutServed,
        Sessions, Toggles, Due, SessionOver
  <2> QED BY <1>2, <2>1, <2>2 DEF IInv
<1> QED BY <1>3, <1>4, <1>5, <1>6, <1>7, <1>8
        DEF Host, HostConfigures, HostReconfigures, HostDeconfigures, HostClearsHalt

-----------------------------------------------------------------------------
(* The main loop.                                                          *)

\* A step that leaves the endpoint and the flags alone.
LEMMA EndpointKept ==
  ASSUME IInv,
         UNCHANGED <<s_tx_busy, s_configured, STAT_TX, DTOG_TX, ctrVars, STAT_RX, pma,
                     eventVars, hostVars, restarted>>,
         pc' \notin {"load", "read", "arm"} \/ (pc' = pc /\ UNCHANGED <<epr, pkt>>),
         pc \notin {"read", "arm"}
  PROVE  Endpoint'
BY DEF ctrVars, eventVars, hostVars, IInv, Endpoint, Loading, BusyIsInFlight, OutServed,
       Sessions, Toggles, Due, SessionOver

\* usb_cdc_write masks the interrupt and sees whether the frame fits.
THEOREM WriteFrameKeepsIInv ==
  ASSUME NEW frame \in Frames PROVE IInv /\ WriteFrame(frame) => IInv'
<1> SUFFICES ASSUME IInv, WriteFrame(frame) PROVE IInv'
  OBVIOUS
<1> USE DEF Runs, ctrVars, eventVars
<1>1. frame \in Seq(Byte) /\ Len(frame) \in Nat /\ Len(s_tx) \in Nat /\ i = 0 /\ pkt = <<>>
  BY UsbTxAssumption DEF WriteFrame, IInv, TypeOK, Control
<1>2. src' \in Frames \cup {<<>>} /\ Len(src') + Len(s_tx) <= Room /\ Len(src') \in Nat
  <2>1. Room \in Nat /\ Len(s_tx) <= Room
    BY UsbTxAssumption DEF IInv, TypeOK
  <2>2. CASE src' = frame /\ Len(frame) <= Room - Len(s_tx)
    BY <1>1, <2>1, <2>2
  <2>3. CASE src' = <<>>
    BY <1>1, <2>1, <2>3
  <2> QED BY <2>2, <2>3 DEF WriteFrame
<1>3. TypeOK'
  BY <1>1, <1>2, TypeIsTypes, EmptyPacket
  DEF WriteFrame, IInv, PcValues, Types, Queue, Place, Flags, Packets, Register
<1>4. Control' /\ Pushing'
  BY <1>1, <1>2 DEF WriteFrame, IInv, Control, Pushing
<1>5. Endpoint'
  BY EndpointKept DEF WriteFrame, hostVars
<1> QED BY <1>3, <1>4, <1>5 DEF IInv

\* usb_cdc_write pushes a byte.
THEOREM PushByteKeepsIInv == IInv /\ PushByte => IInv'
<1> SUFFICES ASSUME IInv, PushByte PROVE IInv'
  OBVIOUS
<1> USE DEF Runs, ctrVars, eventVars
<1>1. /\ src \in Seq(Byte) /\ s_tx \in Seq(Byte) /\ Len(src) \in Nat /\ Len(s_tx) \in Nat
      /\ i \in Nat /\ i + 1 \in 1 .. Len(src) /\ i <= Len(s_tx)
      /\ (Len(src) - i) + Len(s_tx) <= Room /\ writes < 2
      /\ \A k \in 1 .. i : s_tx[(Len(s_tx) - i) + k] = src[k]
  BY UsbTxAssumption DEF PushByte, IInv, TypeOK, Pushing
<1>2. /\ s_tx' = Append(s_tx, src[i + 1]) /\ i' = i + 1 /\ src' = src
      /\ pc = "push" /\ pc' = "push" /\ pkt' = pkt /\ writes' = writes
  BY DEF PushByte
<1>3. src[i + 1] \in Byte
  BY <1>1
<1>4. /\ s_tx' \in Seq(Byte) /\ Len(s_tx') = Len(s_tx) + 1
      /\ \A k \in 1 .. Len(s_tx) : s_tx'[k] = s_tx[k]
      /\ s_tx'[Len(s_tx) + 1] = src[i + 1]
  BY <1>1, <1>2, <1>3
<1>5. TypeOK'
  <2>1. Len(s_tx') <= Room /\ i' \in 0 .. Len(src')
    BY <1>1, <1>2, <1>4, UsbTxAssumption
  <2> QED BY <1>2, <1>4, <2>1 DEF PushByte, IInv, TypeOK
<1>6. Pushing'
  <2>1. (Len(src') - i') + Len(s_tx') <= Room /\ i' <= Len(s_tx') /\ writes' < 2
    BY <1>1, <1>2, <1>4, UsbTxAssumption
  <2>2. ASSUME NEW k \in 1 .. i' PROVE s_tx'[(Len(s_tx') - i') + k] = src'[k]
    <3>1. Len(s_tx') - i' = Len(s_tx) - i /\ k \in Int
      BY <1>1, <1>2, <1>4
    <3>2. CASE k \in 1 .. i
      <4>1. (Len(s_tx) - i) + k \in 1 .. Len(s_tx)
        BY <1>1, <3>2
      <4> QED BY <1>1, <1>2, <1>4, <3>1, <3>2, <4>1
    <3>3. CASE k = i + 1
      <4>1. (Len(s_tx) - i) + k = Len(s_tx) + 1
        BY <1>1, <3>3
      <4> QED BY <1>2, <1>4, <3>1, <3>3, <4>1
    <3>4. k \in 1 .. i \/ k = i + 1
      BY <1>1, <1>2
    <3> QED BY <3>2, <3>3, <3>4
  <2> QED BY <2>1, <2>2 DEF Pushing
<1>7. Control'
  BY <1>2 DEF PushByte, IInv, Control
<1>8. Endpoint'
  BY <1>2, EndpointKept DEF PushByte, hostVars
<1> QED BY <1>5, <1>6, <1>7, <1>8 DEF IInv

\* Steps that touch neither the FIFO nor the endpoint.
THEOREM WriteDoneKeepsIInv == IInv /\ WriteDone => IInv'
<1> SUFFICES ASSUME IInv, WriteDone PROVE IInv'
  OBVIOUS
<1> USE DEF Runs, ctrVars, eventVars
<1>1. TypeOK'
  <2>1. Types /\ writes < 2
    BY TypeIsTypes DEF IInv, WriteDone, Pushing
  <2>2. Queue' /\ Packets' /\ Register'
    BY <2>1 DEF WriteDone, Types, Queue, Packets, Register
  <2>3. writes' \in 0 .. 2 /\ i' \in 0 .. Len(src')
    BY <2>1, EmptyPacket DEF WriteDone, Types, Place
  <2>4. Place'
    BY <2>3 DEF WriteDone, PcValues, Place
  <2>5. Flags'
    BY <2>1 DEF WriteDone, Types, Flags
  <2> QED BY <2>2, <2>4, <2>5, TypeIsTypes DEF Types
<1>2. Control' /\ Pushing'
  BY DEF WriteDone, IInv, Control, Pushing
<1>3. Endpoint'
  BY EndpointKept DEF WriteDone, hostVars
<1> QED BY <1>1, <1>2, <1>3 DEF IInv

\* usb_cdc_poll masks the interrupt.
THEOREM PollBeginKeepsIInv == IInv /\ PollBegin => IInv'
<1> SUFFICES ASSUME IInv, PollBegin PROVE IInv'
  OBVIOUS
<1> USE DEF Runs, ctrVars, eventVars
<1>1. TypeOK'
  BY TypeIsTypes, EmptyPacket
  DEF PollBegin, IInv, PcValues, Types, Queue, Place, Flags, Packets, Register
<1>2. Control' /\ Pushing'
  BY DEF PollBegin, IInv, Control, Pushing
<1>3. Endpoint'
  BY EndpointKept DEF PollBegin, hostVars
<1> QED BY <1>1, <1>2, <1>3 DEF IInv

\* usb_cdc_poll finds nothing to send.
THEOREM NothingToSendKeepsIInv == IInv /\ NothingToSend => IInv'
<1> SUFFICES ASSUME IInv, NothingToSend PROVE IInv'
  OBVIOUS
<1> USE DEF Runs, ctrVars, eventVars
<1>1. TypeOK'
  BY TypeIsTypes, EmptyPacket
  DEF NothingToSend, IInv, PcValues, Types, Queue, Place, Flags, Packets, Register
<1>2. Control' /\ Pushing'
  BY DEF NothingToSend, IInv, Control, Pushing
<1>3. Endpoint'
  BY EndpointKept DEF NothingToSend, hostVars
<1> QED BY <1>1, <1>2, <1>3 DEF IInv

\* usb_cdc_poll unmasks the interrupt.
THEOREM PollDoneKeepsIInv == IInv /\ PollDone => IInv'
<1> SUFFICES ASSUME IInv, PollDone PROVE IInv'
  OBVIOUS
<1> USE DEF Runs, ctrVars, eventVars
<1>1. TypeOK'
  <2>1. Types
    BY TypeIsTypes DEF IInv
  <2>2. Queue' /\ Packets' /\ Register'
    BY <2>1 DEF PollDone, Types, Queue, Packets, Register
  <2>3. writes' \in 0 .. 2 /\ i' \in 0 .. Len(src') /\ src' \in Frames \cup {<<>>}
    BY <2>1 DEF PollDone, Types, Place
  <2>4. Place'
    BY <2>3 DEF PollDone, PcValues, Place
  <2>5. Flags'
    BY <2>1 DEF PollDone, Types, Flags
  <2> QED BY <2>2, <2>4, <2>5, TypeIsTypes DEF Types
<1>2. Control' /\ Pushing'
  BY DEF PollDone, IInv, Control, Pushing
<1>3. Endpoint'
  BY EndpointKept DEF PollDone, hostVars
<1> QED BY <1>1, <1>2, <1>3 DEF IInv

\* The packet taken from the FIFO, and what is left.
LEMMA PackSplits ==
  ASSUME IInv, Pack
  PROVE  /\ s_tx \in Seq(Byte) /\ PacketLen \in 1 .. Len(s_tx) /\ PacketLen <= MaxPacket
         /\ pkt' \in Seq(Byte) /\ Len(pkt') = PacketLen
         /\ s_tx' \in Seq(Byte) /\ Len(s_tx') = Len(s_tx) - PacketLen
         /\ s_tx = pkt' \o s_tx'
<1>1. s_tx \in Seq(Byte) /\ Len(s_tx) \in Nat /\ Len(s_tx) # 0
  BY DEF Pack, MaySend, IInv, TypeOK
<1>2. PacketLen \in 1 .. Len(s_tx) /\ PacketLen <= MaxPacket
  BY <1>1, UsbTxAssumption DEF PacketLen
<1>3. pkt' = SubSeq(s_tx, 1, PacketLen) /\ s_tx' = SubSeq(s_tx, PacketLen + 1, Len(s_tx))
  BY DEF Pack
<1> HIDE DEF PacketLen
<1>4. pkt' \in Seq(Byte) /\ Len(pkt') = PacketLen
  BY <1>1, <1>2, <1>3
<1>5. s_tx' \in Seq(Byte) /\ Len(s_tx') = Len(s_tx) - PacketLen
  BY <1>1, <1>2, <1>3
<1>6. s_tx = pkt' \o s_tx'
  <2>1. pkt' \o s_tx' = SubSeq(s_tx, 1, Len(s_tx))
    BY <1>1, <1>2, <1>3, ConcatAdjacentSubSeq
  <2> QED BY <1>1, <2>1, SubSeqFull
<1> QED BY <1>1, <1>2, <1>4, <1>5, <1>6

\* usb_cdc_poll takes a packet from the FIFO.
THEOREM PackKeepsIInv == IInv /\ Pack => IInv'
<1> SUFFICES ASSUME IInv, Pack PROVE IInv'
  OBVIOUS
<1> USE DEF Runs, ctrVars, eventVars
<1>1. pkt' \in Seq(Byte) /\ Len(pkt') <= MaxPacket /\ pkt' # <<>>
  BY PackSplits
<1>2. s_tx' \in Seq(Byte) /\ Len(s_tx') <= Room
  BY PackSplits, UsbTxAssumption DEF IInv, TypeOK
<1>3. TypeOK'
  BY <1>1, <1>2, TypeIsTypes, EmptyPacket
  DEF Pack, IInv, PcValues, Types, Queue, Place, Flags, Packets, Register
<1>4. Control' /\ Pushing'
  BY DEF Pack, IInv, Control, Pushing
<1>5. Endpoint'
  BY <1>1 DEF Pack, MaySend, hostVars, IInv, Endpoint, Loading, BusyIsInFlight, OutServed,
              Sessions, Toggles, Due, SessionOver
<1> QED BY <1>3, <1>4, <1>5 DEF IInv

\* The packet goes to the packet memory, and the flag is set.
THEOREM LoadKeepsIInv == IInv /\ Load => IInv'
<1> SUFFICES ASSUME IInv, Load PROVE IInv'
  OBVIOUS
<1> USE DEF Runs, ctrVars, eventVars
<1>1. TypeOK'
  <2>1. Types
    BY TypeIsTypes DEF IInv
  <2>2. Queue' /\ Place' /\ Flags' /\ Register'
    BY <2>1 DEF Load, Types, PcValues, Queue, Place, Flags, Register
  <2>3. Packets'
    BY <2>1, EmptyPacket DEF Load, Types, Packets
  <2> QED BY <2>2, <2>3, TypeIsTypes DEF Types
<1>2. Control' /\ Pushing'
  BY DEF Load, IInv, Control, Pushing
<1>3. Endpoint'
  BY Stats DEF Load, IInv, TypeOK, Endpoint, Loading, BusyIsInFlight, OutServed,
               Sessions, Toggles, Due, SessionOver
<1> QED BY <1>1, <1>2, <1>3 DEF IInv

\* ep_set_stat_tx reads EP1R: the endpoint is at NAK, so one bit toggles.
THEOREM ReadEp1rKeepsIInv == IInv /\ ReadEp1r => IInv'
<1> SUFFICES ASSUME IInv, ReadEp1r PROVE IInv'
  OBVIOUS
<1> USE DEF Runs, ctrVars, eventVars
<1>1. epr'.toggle = Toggled(STAT_TX, Valid) /\ epr'.kept = {"CTR_RX", "CTR_TX"}
  BY DEF ReadEp1r, EprWrite
<1>2. epr'.toggle \in SUBSET Valid
  BY <1>1, ToggledType DEF IInv, TypeOK
<1>3. TypeOK'
  BY <1>2, TypeIsTypes, EmptyPacket
  DEF ReadEp1r, IInv, PcValues, Types, Queue, Place, Flags, Packets, Register
<1>4. Control' /\ Pushing'
  BY <1>1 DEF ReadEp1r, IInv, Control, Pushing
<1>5. Endpoint'
  BY <1>1, Stats DEF ReadEp1r, hostVars, IInv, TypeOK, Endpoint, Loading, BusyIsInFlight, OutServed,
               Sessions, Toggles, Due, SessionOver
<1> QED BY <1>3, <1>4, <1>5 DEF IInv

\* ep_set_stat_tx writes EP1R: the packet is on offer, unless a reset came.
THEOREM WriteEp1rKeepsIInv == IInv /\ WriteEp1r => IInv'
<1> SUFFICES ASSUME IInv, WriteEp1r PROVE IInv'
  OBVIOUS
<1> USE DEF Runs, ctrVars, eventVars
<1>1. /\ STAT_TX' = Toggled(STAT_TX, epr.toggle)
      /\ epr.kept = {"CTR_RX", "CTR_TX"} /\ epr'.toggle = {}
      /\ CTR_RX' = CTR_RX /\ CTR_TX' = CTR_TX
  BY DEF WriteEp1r, IInv, Control, TypeOK, NoWrite, EprWrite
<1>2. STAT_TX' \in SUBSET Valid
  BY <1>1, ToggledType DEF IInv, TypeOK
<1>3. TypeOK'
  BY <1>1, <1>2, TypeIsTypes, EmptyPacket
  DEF WriteEp1r, IInv, PcValues, Types, Queue, Place, Flags, Packets, Register
<1>4. Control' /\ Pushing'
  BY DEF WriteEp1r, IInv, Control, Pushing
<1>5. s_configured /\ ~reset => STAT_TX' = Valid
  BY <1>1, Stats DEF WriteEp1r, IInv, Endpoint, Loading
<1>6. Endpoint'
  BY <1>1, <1>5, Stats DEF WriteEp1r, hostVars, IInv, TypeOK, Endpoint, Loading, BusyIsInFlight, OutServed,
               Sessions, Toggles, Due, SessionOver
<1> QED BY <1>3, <1>4, <1>6 DEF IInv

-----------------------------------------------------------------------------
(* The invariants.                                                         *)

LEMMA NextKeepsIInv == IInv /\ [Next]_vars => IInv'
<1> SUFFICES ASSUME IInv, [Next]_vars PROVE IInv'
  OBVIOUS
<1>1. CASE MainLoop
  BY <1>1, WriteFrameKeepsIInv, PushByteKeepsIInv, WriteDoneKeepsIInv, PollBeginKeepsIInv,
     PackKeepsIInv, NothingToSendKeepsIInv, LoadKeepsIInv, ReadEp1rKeepsIInv,
     WriteEp1rKeepsIInv, PollDoneKeepsIInv DEF MainLoop
<1>2. CASE UNCHANGED vars
  <2> USE <1>2 DEF vars, driverVars, mainVars, outVars, endpointVars, eventVars, hostVars
  <2>1. TypeOK' /\ Control' /\ Pushing'
    BY DEF IInv, TypeOK, Control, Pushing
  <2>2. Endpoint'
    BY DEF IInv, Endpoint, Loading, BusyIsInFlight, OutServed, Sessions, Toggles, Due, SessionOver
  <2> QED BY <2>1, <2>2 DEF IInv
<1> QED BY <1>1, <1>2, UsbIrqKeepsIInv, HostKeepsIInv DEF Next

\* The invariant holds in every reachable state.
THEOREM UsbTxInvariant == Spec => []IInv
BY InitIInv, NextKeepsIInv, PTL DEF Spec

\* Types and bounds: the FIFO never exceeds its storage, a packet never its
\* place in the packet memory (usb_cdc.c:186, 505-512).
THEOREM UsbTxTypes == Spec => []TypeOK
<1>1. IInv => TypeOK  BY DEF IInv
<1> QED BY <1>1, UsbTxInvariant, PTL

\* While the device is configured, s_tx_busy says exactly that a packet is on
\* the endpoint or its completion is still to be handled (usb_cdc_poll, ep1_handler).
THEOREM UsbTxBusyIsInFlight == Spec => []BusyIsInFlight
<1>1. IInv => BusyIsInFlight  BY DEF IInv, Endpoint
<1> QED BY <1>1, UsbTxInvariant, PTL

\* While the device is configured, a packet of the host can come in or has come
\* in: no write of EP1R by the main loop loses that completion (usb_cdc.c:144).
THEOREM UsbTxOutServed == Spec => []OutServed
<1>1. IInv => OutServed  BY DEF IInv, Endpoint
<1> QED BY <1>1, UsbTxInvariant, PTL
-----------------------------------------------------------------------------
(* The refinement of FramePipe.                                            *)

\* What FramePipe calls pipe and received.
Contents == Unseen \o pkt \o WholeFrames
OnTheWay == IF SessionOver THEN <<>> ELSE Contents
Seen     == IF restarted THEN <<>> ELSE received

LEMMA QueueFacts ==
  ASSUME IInv
  PROVE  /\ s_tx \in Seq(Byte) /\ Len(s_tx) \in Nat
         /\ i \in Nat /\ i <= Len(s_tx)
         /\ src \in Seq(Byte)
<1>1. s_tx \in Seq(Byte) /\ Len(s_tx) \in Nat
  BY DEF IInv, TypeOK
<1>2. src \in Seq(Byte)
  <2>1. src \in Frames \/ src = <<>>
    BY DEF IInv, TypeOK
  <2> QED BY <2>1, UsbTxAssumption, EmptyPacket
<1>3. i \in Nat
  BY <1>2 DEF IInv, TypeOK
<1>4. i <= Len(s_tx)
  BY <1>1, <1>3 DEF IInv, Control, Pushing
<1> QED BY <1>1, <1>2, <1>3, <1>4

LEMMA ContentsType ==
  ASSUME IInv
  PROVE  /\ Unseen \in Seq(Byte) /\ pkt \in Seq(Byte) /\ Unseen \o pkt \in Seq(Byte)
         /\ WholeFrames \in Seq(Byte) /\ Contents \in Seq(Byte)
         /\ i = 0 => WholeFrames = s_tx
<1>1. s_tx \in Seq(Byte) /\ Len(s_tx) \in Nat /\ i \in Nat /\ i <= Len(s_tx)
  BY QueueFacts
<1>2. pkt \in Seq(Byte) /\ pma \in Seq(Byte)
  BY DEF IInv, TypeOK
<1>3. Unseen \in Seq(Byte)
  BY <1>2, EmptyPacket DEF Unseen
<1>4. Unseen \o pkt \in Seq(Byte)
  BY <1>2, <1>3, ConcatProperties
<1>5. WholeFrames \in Seq(Byte)
  <2> DEFINE n == Len(s_tx) - i
  <2>1. n \in Int /\ n <= Len(s_tx)
    BY <1>1
  <2>2. \A k \in 1 .. n : s_tx[k] \in Byte
    BY <1>1, <2>1
  <2> HIDE DEF n
  <2>3. SubSeq(s_tx, 1, n) \in Seq(Byte)
    BY <2>1, <2>2, SubSeqProperties
  <2> QED BY <2>3 DEF n, WholeFrames
<1>6. Contents \in Seq(Byte)
  BY <1>4, <1>5, ConcatProperties DEF Contents
<1>7. i = 0 => WholeFrames = s_tx
  BY <1>1, SubSeqFull DEF WholeFrames
<1> QED BY <1>1, <1>2, <1>3, <1>4, <1>5, <1>6, <1>7

\* A step of the main loop leaves the session and what the host has alone.
LEMMA MainLoopKeepsSession ==
  ASSUME MainLoop
  PROVE  SessionOver' = SessionOver /\ Seen' = Seen
<1>1. UNCHANGED <<reset, request, restarted, received>>
  BY DEF MainLoop, WriteFrame, PushByte, WriteDone, PollBegin, Pack, NothingToSend, Load,
         ReadEp1r, WriteEp1r, PollDone, Runs, eventVars
<1> QED BY <1>1 DEF SessionOver, Seen

LEMMA SameContents ==
  ASSUME UNCHANGED <<s_tx, i, pkt, pma, s_tx_busy, taken>>
  PROVE  Contents' = Contents
BY DEF Contents, Unseen, WholeFrames

\* A frame half pushed is not yet submitted.
LEMMA PushByteKeepsContents ==
  ASSUME IInv, PushByte PROVE Contents' = Contents
<1>1. s_tx' = Append(s_tx, src[i + 1]) /\ i' = i + 1 /\ i < Len(src)
  BY DEF PushByte
<1>2. s_tx \in Seq(Byte) /\ Len(s_tx) \in Nat /\ i \in Nat /\ i <= Len(s_tx) /\ src \in Seq(Byte)
  BY QueueFacts
<1>3. src[i + 1] \in Byte
  BY <1>1, <1>2
<1> DEFINE n == Len(s_tx) - i
<1>4. n \in 0 .. Len(s_tx)
  BY <1>2
<1>5. /\ s_tx' \in Seq(Byte) /\ Len(s_tx') = Len(s_tx) + 1
      /\ \A k \in 1 .. Len(s_tx) : s_tx'[k] = s_tx[k]
  BY <1>1, <1>2, <1>3, AppendProperties
<1>6. Len(s_tx') - i' = n
  BY <1>1, <1>2, <1>5
<1> HIDE DEF n
<1>7. SubSeq(s_tx', 1, n) = SubSeq(s_tx, 1, n)
  <2>1. n \in 0 .. Len(s_tx')
    BY <1>2, <1>4, <1>5
  <2>2. /\ SubSeq(s_tx', 1, n) \in Seq(Byte) /\ Len(SubSeq(s_tx', 1, n)) = n
        /\ \A k \in 1 .. n : SubSeq(s_tx', 1, n)[k] = s_tx'[k]
    BY <1>5, <2>1
  <2>3. /\ SubSeq(s_tx, 1, n) \in Seq(Byte) /\ Len(SubSeq(s_tx, 1, n)) = n
        /\ \A k \in 1 .. n : SubSeq(s_tx, 1, n)[k] = s_tx[k]
    BY <1>2, <1>4
  <2>4. \A k \in 1 .. n : SubSeq(s_tx', 1, n)[k] = SubSeq(s_tx, 1, n)[k]
    BY <1>2, <1>4, <1>5, <2>2, <2>3
  <2> QED BY <2>2, <2>3, <2>4, SeqEqual
<1>8. WholeFrames' = WholeFrames
  BY <1>6, <1>7 DEF WholeFrames, n
<1>9. Unseen' = Unseen /\ pkt' = pkt
  BY DEF PushByte, Unseen
<1> QED BY <1>8, <1>9 DEF Contents

\* A frame is submitted when its last byte is in.
LEMMA WriteDoneSubmits ==
  ASSUME IInv, WriteDone
  PROVE  Contents' = Contents \/ \E frame \in Frames : Contents' = Contents \o frame
<1>1. i = Len(src) /\ i' = 0 /\ s_tx' = s_tx /\ pc = "push" /\ Unseen' = Unseen /\ pkt' = pkt
  BY DEF WriteDone, Runs, Unseen
<1>2. /\ s_tx \in Seq(Byte) /\ Len(s_tx) \in Nat /\ i \in Nat /\ i <= Len(s_tx)
      /\ WholeFrames \in Seq(Byte) /\ Unseen \o pkt \in Seq(Byte) /\ (i = 0 => WholeFrames = s_tx)
  BY QueueFacts, ContentsType
<1>3. WholeFrames' = s_tx
  BY <1>1, <1>2, SubSeqFull DEF WholeFrames
<1>4. CASE src = <<>>
  BY <1>1, <1>2, <1>3, <1>4 DEF Contents
<1>5. CASE src \in Frames
  <2>1. src \in Seq(Byte)
    BY <1>5, UsbTxAssumption
  <2> DEFINE n == Len(s_tx) - i
             u == WholeFrames \o src
  <2>2. n \in 0 .. Len(s_tx) /\ Len(s_tx) = n + Len(src)
    BY <1>1, <1>2
  <2>3. WholeFrames = SubSeq(s_tx, 1, n)
    BY DEF WholeFrames
  <2>4. \A k \in 1 .. i : s_tx[n + k] = src[k]
    BY <1>1 DEF IInv, Pushing
  <2> HIDE DEF n
  <2>5. Len(WholeFrames) = n /\ \A k \in 1 .. n : WholeFrames[k] = s_tx[k]
    BY <1>2, <2>2, <2>3
  <2>6. u \in Seq(Byte) /\ Len(u) = Len(s_tx)
    <3>1. WholeFrames \in Seq(Byte) /\ src \in Seq(Byte)
      BY <1>2, <2>1
    <3>2. u \in Seq(Byte) /\ Len(u) = Len(WholeFrames) + Len(src)
      BY <3>1, ConcatProperties
    <3> QED BY <2>2, <2>5, <3>2
  <2>7. ASSUME NEW k \in 1 .. Len(s_tx) PROVE u[k] = s_tx[k]
    <3>1. CASE k <= n
      BY <1>2, <2>1, <2>2, <2>5, <3>1
    <3>2. CASE ~(k <= n)
      <4>1. k - n \in 1 .. i /\ n + (k - n) = k
        BY <1>1, <1>2, <2>2, <3>2
      <4>2. u[k] = src[k - n]
        BY <1>2, <2>1, <2>2, <2>5, <3>2
      <4> QED BY <2>4, <4>1, <4>2
    <3> QED BY <3>1, <3>2
  <2> HIDE DEF u
  <2>8. u = s_tx
    BY <1>2, <2>6, <2>7, SeqEqual
  <2>9. Contents' = (Unseen \o pkt) \o (WholeFrames \o src)
    BY <1>1, <1>3, <2>8 DEF Contents, u
  <2>10. Contents' = Contents \o src
    <3>1. Unseen \o pkt \in Seq(Byte) /\ WholeFrames \in Seq(Byte) /\ src \in Seq(Byte)
      BY <1>2, <2>1
    <3>2. \A x, y, z \in Seq(Byte) : (x \o y) \o z = x \o (y \o z)
      BY ConcatAssociative
    <3>3. ((Unseen \o pkt) \o WholeFrames) \o src = (Unseen \o pkt) \o (WholeFrames \o src)
      BY <3>1, <3>2
    <3> QED BY <2>9, <3>3 DEF Contents
  <2> QED BY <1>5, <2>10
<1> QED BY <1>4, <1>5 DEF IInv, TypeOK

\* A packet on its way from the FIFO to the endpoint is still in the pipe.
LEMMA PackKeepsContents ==
  ASSUME IInv, Pack PROVE Contents' = Contents
<1>1. /\ s_tx \in Seq(Byte) /\ pkt' \in Seq(Byte) /\ s_tx' \in Seq(Byte)
      /\ s_tx = pkt' \o s_tx'
  BY PackSplits
<1>2. pc = "check" /\ ~s_tx_busy /\ s_tx_busy' = s_tx_busy /\ i' = i
  BY DEF Pack, MaySend, Runs
<1>3. i = 0 /\ pkt = <<>>
  BY <1>2 DEF IInv, Control
<1>9. WholeFrames = s_tx
  BY <1>3, ContentsType
<1>4. WholeFrames' = s_tx'
  BY <1>1, <1>2, <1>3, SubSeqFull DEF WholeFrames
<1>5. Unseen = <<>> /\ Unseen' = <<>>
  BY <1>2 DEF Unseen
<1>6. <<>> \o <<>> = <<>> /\ <<>> \o pkt' = pkt' /\ <<>> \o s_tx = s_tx
  BY <1>1, EmptyPacket, ConcatEmptySeq
<1>7. Contents = s_tx
  BY <1>3, <1>5, <1>6, <1>9 DEF Contents
<1>8. Contents' = pkt' \o s_tx'
  BY <1>4, <1>5, <1>6 DEF Contents
<1> QED BY <1>1, <1>7, <1>8

LEMMA LoadKeepsContents ==
  ASSUME IInv, Load PROVE Contents' = Contents
<1>1. pma' = pkt /\ pkt' = <<>> /\ s_tx_busy' = TRUE /\ taken' = FALSE /\ s_tx' = s_tx /\ i' = i
  BY DEF Load
<1>2. ~s_tx_busy /\ pkt \in Seq(Byte)
  BY ContentsType DEF Load, Runs, IInv, Endpoint, Loading
<1>3. Unseen = <<>> /\ Unseen' = pkt /\ WholeFrames' = WholeFrames
  BY <1>1, <1>2 DEF Unseen, WholeFrames
<1>4. <<>> \o pkt = pkt /\ pkt \o <<>> = pkt
  BY <1>2, ConcatEmptySeq
<1>5. Contents = pkt \o WholeFrames
  BY <1>3, <1>4 DEF Contents
<1>6. Contents' = pkt \o WholeFrames
  BY <1>1, <1>3, <1>4 DEF Contents
<1> QED BY <1>5, <1>6

\* A step of usb_cdc_write or usb_cdc_poll submits one whole frame or changes
\* nothing the host is to get.
THEOREM MainLoopRefines == IInv /\ MainLoop => [Pipe!Next]_<<OnTheWay, Seen>>
<1> SUFFICES ASSUME IInv, MainLoop PROVE Pipe!Next \/ (OnTheWay' = OnTheWay /\ Seen' = Seen)
  OBVIOUS
<1>1. SessionOver' = SessionOver /\ Seen' = Seen
  BY MainLoopKeepsSession
<1>2. Contents' = Contents \/ \E frame \in Frames : Contents' = Contents \o frame
  <2>1. CASE \E frame \in Frames : WriteFrame(frame)
    BY <2>1, SameContents DEF WriteFrame
  <2>2. CASE PollBegin \/ NothingToSend \/ ReadEp1r \/ WriteEp1r \/ PollDone
    BY <2>2, SameContents DEF PollBegin, NothingToSend, ReadEp1r, WriteEp1r, PollDone
  <2> QED BY <2>1, <2>2, PushByteKeepsContents, WriteDoneSubmits, PackKeepsContents,
             LoadKeepsContents DEF MainLoop
<1>3. CASE SessionOver \/ Contents' = Contents
  BY <1>1, <1>3 DEF OnTheWay
<1>4. CASE ~SessionOver /\ \E frame \in Frames : Contents' = Contents \o frame
  <2>1. \E frame \in Frames : OnTheWay' = OnTheWay \o frame
    BY <1>1, <1>4 DEF OnTheWay
  <2>2. Pipe!Submit
    BY <1>1, <2>1 DEF Pipe!Submit, OnTheWay, Contents, Seen
  <2> QED BY <2>2 DEF Pipe!Next
<1> QED BY <1>2, <1>3, <1>4

\* The interrupt never changes what the host is still to get: what it drops was
\* given up when the bus was reset or the configuration left.
THEOREM UsbIrqRefines == IInv /\ IInv' /\ UsbIrq => OnTheWay' = OnTheWay /\ Seen' = Seen
<1> SUFFICES ASSUME IInv, IInv', UsbIrq PROVE OnTheWay' = OnTheWay /\ Seen' = Seen
  OBVIOUS
<1> USE DEF driverVars, mainVars, outVars, endpointVars, eventVars, hostVars
<1>1. pc = "relay" /\ i = 0 /\ pkt = <<>> /\ UNCHANGED <<mainVars, hostVars>>
  BY DEF UsbIrq, IInv, Control
<1>2. ASSUME s_tx' = <<>>, s_tx_busy' = FALSE PROVE OnTheWay' = <<>>
  <2>1. Unseen' = <<>> /\ pkt' = <<>>
    BY <1>1, <1>2 DEF Unseen
  <2>2. WholeFrames' = <<>>
    <3>1. i' = 0
      BY <1>1
    <3>2. WholeFrames' = SubSeq(<<>>, 1, 0)
      BY <1>2, <3>1, EmptyPacket DEF WholeFrames
    <3> QED BY <3>2, SubSeqEmpty
  <2>3. <<>> \o <<>> = <<>>
    BY EmptyPacket, ConcatEmptySeq
  <2> QED BY <2>1, <2>2, <2>3 DEF OnTheWay, Contents
<1>3. CASE UsbReset
  <2>1. SessionOver /\ received = <<>> /\ received' = <<>>
    BY <1>1, <1>3 DEF UsbReset, SessionOver, IInv, Endpoint, Sessions
  <2> QED BY <1>2, <1>3, <2>1 DEF UsbReset, OnTheWay, Seen
<1>4. CASE ApplyConfig1
  <2>1. UNCHANGED <<s_tx, i, pkt, pma, taken, received, restarted, reset>> /\ request' = "configured"
    BY <1>1, <1>4 DEF ApplyConfig1
  <2>2. SessionOver' = SessionOver /\ Seen' = Seen
    BY <1>4, <2>1 DEF ApplyConfig1, SessionOver, Seen
  <2>3. ~SessionOver => s_tx_busy = FALSE /\ s_tx_busy' = FALSE
    BY <1>4 DEF ApplyConfig1, SessionOver, IInv, TypeOK, Endpoint, Sessions
  <2>4. ~SessionOver => Contents' = Contents
    BY <2>1, <2>3, SameContents
  <2> QED BY <2>2, <2>4 DEF OnTheWay
<1>5. CASE ApplyConfig0
  <2>1. SessionOver /\ received = <<>> /\ received' = <<>>
    BY <1>1, <1>5 DEF ApplyConfig0, SessionOver, IInv, Endpoint, Sessions
  <2> QED BY <1>2, <1>5, <2>1 DEF ApplyConfig0, OnTheWay, Seen
<1>6. CASE ClearHalt
  <2>1. restarted /\ restarted' = restarted
    BY <1>6 DEF ClearHalt, IInv, Endpoint, Sessions
  <2> QED BY <2>1 DEF OnTheWay, Seen, SessionOver
<1>7. CASE Ep1Handler
  <2>1. UNCHANGED <<s_tx, i, pkt, pma, taken, received, restarted, reset, request>>
    BY <1>1, <1>7 DEF Ep1Handler
  <2>2. SessionOver' = SessionOver /\ Seen' = Seen
    BY <2>1 DEF SessionOver, Seen
  <2>3. ~SessionOver /\ s_tx_busy /\ CTR_TX => taken
    BY <1>7, Stats DEF Ep1Handler, IInv, Endpoint, Loading, Sessions, Toggles
  <2>4. ~SessionOver => Unseen' = Unseen
    BY <1>7, <2>1, <2>3 DEF Ep1Handler, Unseen
  <2>5. ~SessionOver => Contents' = Contents
    BY <2>1, <2>4 DEF Contents, WholeFrames
  <2> QED BY <2>2, <2>5 DEF OnTheWay
<1> QED BY <1>3, <1>4, <1>5, <1>6, <1>7 DEF UsbIrq

\* A packet on offer is the one in flight; the host keeps it exactly if it does
\* not have it yet.
LEMMA HostReadsDelivers ==
  ASSUME IInv, Offered, HostReads,
         UNCHANGED <<s_tx, s_tx_busy, i, pkt, pma, reset, request, restarted>>
  PROVE  [Pipe!Next]_<<OnTheWay, Seen>>
<1>1. SessionOver' = SessionOver
  BY DEF SessionOver
<1>2. CASE SessionOver
  <2>1. restarted /\ restarted' = restarted
    BY <1>2 DEF SessionOver, Offered, IInv, Endpoint, Sessions
  <2>2. OnTheWay' = OnTheWay /\ Seen' = Seen
    BY <1>1, <1>2, <2>1 DEF OnTheWay, Seen
  <2> QED BY <2>2
<1>3. CASE ~SessionOver /\ DTOG_TX # hostTog
  <2>1. OnTheWay' = OnTheWay /\ Seen' = Seen
    BY <1>1, <1>3, SameContents DEF HostReads, OnTheWay, Seen
  <2> QED BY <2>1
<1>4. CASE ~SessionOver /\ DTOG_TX = hostTog
  <2>1. reading /\ ~reset /\ STAT_TX = Valid /\ request = "none" /\ s_configured
    BY DEF Offered, IInv, Endpoint, Sessions
  <2>2. ~taken
    BY <1>4, <2>1 DEF IInv, Endpoint, Toggles, Due
  <2>3. pc \notin {"read", "arm"}
    BY <2>1, Stats DEF IInv, Endpoint, Loading
  <2>4. s_tx_busy
    BY <2>1, <2>3 DEF IInv, Endpoint, BusyIsInFlight
  <2>5. pkt = <<>> /\ pma # <<>>
    BY <2>4 DEF IInv, Control, Endpoint, Loading
  <2>6. pma \in Seq(Byte) /\ Len(pma) \in 1 .. MaxPacket
    BY <2>5, UsbTxAssumption DEF IInv, TypeOK
  <2>7. WholeFrames \in Seq(Byte) /\ WholeFrames' = WholeFrames
    BY ContentsType DEF WholeFrames
  <2>8. Unseen = pma /\ Unseen' = <<>> /\ pkt' = <<>>
    BY <1>4, <2>2, <2>4, <2>5 DEF HostReads, Unseen
  <2>9. pma \o <<>> = pma /\ <<>> \o <<>> = <<>> /\ <<>> \o WholeFrames = WholeFrames
    BY <2>6, <2>7, EmptyPacket, ConcatEmptySeq
  <2>10. OnTheWay = pma \o WholeFrames /\ OnTheWay' = WholeFrames
    BY <1>1, <1>4, <2>5, <2>7, <2>8, <2>9 DEF OnTheWay, Contents
  <2>11. Seen' = pma
    BY <1>4 DEF HostReads, Seen, SessionOver
  <2> DEFINE k == Len(pma)
             w == WholeFrames
             p == pma \o w
  <2>12. p \in Seq(Byte) /\ Len(p) = k + Len(w) /\ Len(w) \in Nat /\ k <= Len(p)
    BY <2>6, <2>7
  <2>13. SubSeq(p, 1, k) = pma
    <3>1. SubSeq(p, 1, k) = SubSeq(pma, 1, k)
      BY <2>6, <2>7, SubSeqOfConcat1
    <3> QED BY <2>6, <3>1, SubSeqFull
  <2>14. SubSeq(p, k + 1, Len(p)) = w
    <3>1. CASE Len(w) = 0
      <4>1. w = <<>> /\ Len(p) < k + 1
        BY <2>6, <2>7, <2>12, <3>1
      <4> QED BY <2>6, <2>12, <4>1, SubSeqEmpty
    <3>2. CASE Len(w) # 0
      <4>1. k + 1 \in k + 1 .. k + Len(w) /\ Len(p) \in k + 1 .. k + Len(w)
        BY <2>6, <2>12, <3>2
      <4>2. SubSeq(p, k + 1, Len(p)) = SubSeq(w, k + 1 - k, Len(p) - k)
        BY <2>6, <2>7, <4>1, SubSeqOfConcat2
      <4>3. k + 1 - k = 1 /\ Len(p) - k = Len(w)
        BY <2>6, <2>12
      <4> QED BY <2>7, <4>2, <4>3, SubSeqFull
    <3> QED BY <3>1, <3>2
  <2>15. /\ k \in 1 .. MaxPacket /\ k <= Len(OnTheWay)
         /\ Seen' = SubSeq(OnTheWay, 1, k)
         /\ OnTheWay' = SubSeq(OnTheWay, k + 1, Len(OnTheWay))
    BY <2>6, <2>10, <2>11, <2>12, <2>13, <2>14
  <2> HIDE DEF k
  <2>16. Pipe!Deliver
    BY <2>15 DEF Pipe!Deliver, OnTheWay, Contents, Seen
  <2> QED BY <2>16 DEF Pipe!Next
<1> QED BY <1>2, <1>3, <1>4

\* A packet the host keeps is the head of the pipe, a reset or a change of
\* configuration ends the session, and nothing else shows.
THEOREM HostRefines == IInv /\ IInv' /\ Host => [Pipe!Next]_<<OnTheWay, Seen>>
<1> SUFFICES ASSUME IInv, IInv', Host PROVE Pipe!Next \/ (OnTheWay' = OnTheWay /\ Seen' = Seen)
  OBVIOUS
<1> USE DEF driverVars, mainVars, outVars, ctrVars, endpointVars, eventVars, hostVars
<1>1. ASSUME OnTheWay' = <<>>, Seen' = <<>> PROVE Pipe!Next
  BY <1>1 DEF Pipe!Next, Pipe!EndSession, OnTheWay, Contents, Seen
<1>2. CASE HostTakes \/ AckLost
  <2>1. Offered /\ HostReads /\ UNCHANGED <<s_tx, s_tx_busy, i, pkt, pma, reset, request, restarted>>
    BY <1>2 DEF HostTakes, AckLost
  <2> QED BY <2>1, HostReadsDelivers
<1>3. CASE HostWrites
  BY <1>3, SameContents DEF HostWrites, OnTheWay, SessionOver, Seen
<1>4. CASE BusReset
  <2>1. OnTheWay' = <<>> /\ Seen' = <<>>
    BY <1>4 DEF BusReset, OnTheWay, SessionOver, Seen
  <2> QED BY <1>1, <2>1
<1>5. ASSUME NEW what \in {"set_config_1", "set_config_0", "clear_halt"}, Request(what),
             what = "clear_halt" => s_configured
      PROVE  Pipe!Next \/ (OnTheWay' = OnTheWay /\ Seen' = Seen)
  <2>1. UNCHANGED <<s_tx, s_tx_busy, i, pkt, pma, taken, reset, s_configured>>
    BY <1>5 DEF Request
  <2>2. CASE what = "set_config_1" /\ ~s_configured
    <3>1. /\ restarted \in BOOLEAN /\ reset' = reset /\ request = "none"
          /\ request' = "set_config_1" /\ restarted' = (restarted \/ FALSE \/ FALSE)
      BY <1>5, <2>1, <2>2, TypeIsTypes DEF Request, IInv, Types, Flags
    <3>2. restarted' = restarted
      BY <3>1
    <3>3. SessionOver' = SessionOver
      BY <3>1, <3>2 DEF SessionOver
    <3>4. Seen' = Seen
      BY <1>5, <2>2, <3>2 DEF Request, Seen, IInv, Endpoint, Sessions
    <3> QED BY <2>1, <3>3, <3>4, SameContents DEF OnTheWay
  <2>3. CASE ~(what = "set_config_1" /\ ~s_configured)
    <3>1. SessionOver' /\ (restarted' \/ received' = <<>>)
      BY <1>5, <2>3 DEF Request, SessionOver
    <3> QED BY <1>1, <3>1 DEF OnTheWay, Seen
  <2> QED BY <2>2, <2>3
<1>6. CASE RequestAnswered
  BY <1>6, SameContents DEF RequestAnswered, OnTheWay, SessionOver, Seen
<1> QED BY <1>2, <1>3, <1>4, <1>5, <1>6
        DEF Host, HostConfigures, HostReconfigures, HostDeconfigures, HostClearsHalt

\* The bulk endpoint implements the frame pipe: whole frames in order, each byte
\* once, everything dropped when a session ends (comment of usb_cdc_write).
THEOREM UsbTxRefinesPipe == Spec => UsbTxImplementsPipe
<1>1. Init => Pipe!Init
  <2> SUFFICES ASSUME Init PROVE Pipe!Init
    OBVIOUS
  <2>1. SessionOver = FALSE /\ Unseen = <<>> /\ pkt = <<>> /\ s_tx = <<>> /\ i = 0 /\ received = <<>>
    BY DEF Init, SessionOver, Unseen
  <2>2. WholeFrames = <<>>
    BY <2>1, InitIInv, ContentsType
  <2>3. <<>> \o <<>> = <<>>
    BY EmptyPacket, ConcatEmptySeq
  <2> QED BY <2>1, <2>2, <2>3 DEF Pipe!Init
<1>2. IInv /\ IInv' /\ [Next]_vars => [Pipe!Next]_<<OnTheWay, Seen>>
  <2> SUFFICES ASSUME IInv, IInv', [Next]_vars
               PROVE  [Pipe!Next]_<<OnTheWay, Seen>>
    OBVIOUS
  <2>1. CASE UNCHANGED vars
    <3>1. OnTheWay' = OnTheWay /\ Seen' = Seen
      BY <2>1, SameContents
      DEF vars, driverVars, mainVars, outVars, endpointVars, eventVars, hostVars,
          OnTheWay, SessionOver, Seen
    <3> QED BY <3>1
  <2>2. CASE UsbIrq
    <3>1. OnTheWay' = OnTheWay /\ Seen' = Seen
      BY <2>2, UsbIrqRefines
    <3> QED BY <3>1
  <2> QED BY <2>1, <2>2, MainLoopRefines, HostRefines DEF Next
<1>3. [Pipe!Next]_<<OnTheWay, Seen>> <=>
      [Pipe!Next]_<<IF SessionOver THEN <<>> ELSE Unseen \o pkt \o WholeFrames,
                    IF restarted THEN <<>> ELSE received>>
  BY DEF OnTheWay, Contents, Seen
<1> QED BY <1>1, <1>2, <1>3, UsbTxInvariant, PTL DEF Spec, UsbTxImplementsPipe, Pipe!Spec
=============================================================================
