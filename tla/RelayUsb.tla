----------------------------- MODULE RelayUsb ------------------------------
(***************************************************************************)
(* The probe on its USB path (PC_OVER_USB = 1): the relay, the transmit    *)
(* queue of src/usb_cdc.c, and a host that comes and goes.  UsbTx shows    *)
(* that the queue is a pipe of whole frames that a bus reset or a          *)
(* SET_CONFIGURATION(0) empties at any moment; here it is that pipe, and   *)
(* the question is what the host can still tell of frames and of losses    *)
(* when it is emptied behind the relay's back.  SET_CONFIGURATION(1) on a  *)
(* configured device, which breaks the pipe (UsbTx_reconfigure.cfg), is    *)
(* left out.                                                               *)
(***************************************************************************)
EXTENDS RelayReports, SequencesExt

CONSTANTS
  Room,        \* sizeof s_tx_storage - 1: bytes s_tx can hold
  InFlight,    \* bytes that may have left s_tx for the packet memory
  StatusLen,   \* encoded length of a STATUS frame
  DataLen      \* encoded length of a DATA frame

ASSUME UsbRoomAssumption ==
  {StatusLen, DataLen} \subseteq 1 .. Room /\ InFlight \in Nat

VARIABLES
  queue,       \* s_tx and the packet in flight: frames the host has not got in full
  configured,  \* s_configured: the host has the port open
  hostSeq,     \* the host: the SEQ it expects next,
  hostCount,   \*   the count of losses it read last
  flushed,     \* history: frames dropped since the last one it got,
  statusLost   \*   a STATUS among those dropped since the last it got

usbVars == <<reportVars, queue, configured, hostSeq, hostCount, flushed, statusLost>>
hostVars == <<hostSeq, hostCount, flushed, statusLost>>

UsbInit ==
  /\ ReportInit
  /\ queue = <<>> /\ configured = FALSE
  /\ hostSeq = 0 /\ hostCount = 0
  /\ flushed = 0 /\ statusLost = FALSE

LenOf(frame) == IF frame.type = "STATUS" THEN StatusLen ELSE DataLen
Queued       == FoldSeq(LAMBDA frame, sum : LenOf(frame) + sum, 0, queue)
Fits(frame)  == LenOf(frame) <= Room - Queued

\* Fault: the answer of bytefifo_push_all is not looked at.
UsbCdcWriteUnchecked(frame, taken) ==
  /\ taken
  /\ queue' = IF Fits(frame) THEN Append(queue, frame) ELSE queue

\* usb_cdc_write, whether the port is open or not: of the queued bytes, those
\* of a packet in flight no longer take room in s_tx.
UsbCdcWrite(frame, taken) ==
  /\ taken => LenOf(frame) <= Room - Queued + InFlight
  /\ ~taken => ~Fits(frame)
  /\ queue' = IF taken THEN Append(queue, frame) ELSE queue

\* A DATA frame; what it carries plays no part here.
Data == [type |-> "DATA", seq |-> s_seq, dropped |-> 0]

\* relay_poll with usb_cdc_write for its sink.
RelayPoll ==
  /\ \/ ReportPollStart /\ UNCHANGED queue
     \/ \E taken \in BOOLEAN : ReportStatus(taken) /\ UsbCdcWrite(StatusFrame, taken)
     \/ \E taken \in BOOLEAN : EmitData(taken) /\ UsbCdcWrite(Data, taken) /\ UNCHANGED holes
     \/ /\ ReadAvail \/ AdoptMark \/ MarksDone \/ Gather \/ CopyByte \/ CopyDone \/ Commit
        /\ UNCHANGED <<holes, queue>>
  /\ UNCHANGED <<configured, hostVars>>

\* usb_cdc_poll and the host: the last packet of a frame is taken.
Deliver ==
  /\ configured /\ queue # <<>>
  /\ queue' = Tail(queue)
  /\ hostSeq' = Plus(Head(queue).seq, 1, SeqNumMod)
  /\ flushed' = 0
  /\ IF Head(queue).type = "STATUS"
       THEN hostCount' = Head(queue).dropped /\ statusLost' = FALSE
       ELSE UNCHANGED <<hostCount, statusLost>>
  /\ UNCHANGED <<reportVars, configured>>

\* usb_reset and apply_config(0): the queue goes.
Flush ==
  /\ queue' = <<>>
  /\ configured' = FALSE
  /\ flushed' = (flushed + Len(queue)) % SeqNumMod
  /\ statusLost' = (statusLost \/ \E k \in DOMAIN queue : queue[k].type = "STATUS")
  /\ UNCHANGED <<reportVars, hostSeq, hostCount>>

\* apply_config(1)
Configure ==
  /\ ~configured /\ configured' = TRUE
  /\ UNCHANGED <<reportVars, queue, hostVars>>

\* Bound: the host is less than 2^32 losses behind.
FewUnknown == Minus(s_dropped, hostCount, DropMod) + 2 < DropMod

TargetByte == FewUnknown /\ ReportIrq /\ UNCHANGED <<queue, configured, hostVars>>

UsbNext == TargetByte \/ RelayPoll \/ Deliver \/ Flush \/ Configure

\* The main loop never blocks; a host that has the port open reads.
UsbSpec == /\ UsbInit /\ [][UsbNext]_usbVars
           /\ WF_usbVars(RelayPoll) /\ WF_usbVars(Deliver)

-----------------------------------------------------------------------------
(* Properties.                                                             *)

\* A gap in SEQ is exactly the number of frames dropped in between ("so the
\* host can detect dropped frames", relay.h:18): a refused frame that is
\* offered again leaves none, an emptied queue leaves one (modulo 2^8).
SeqGapIsLoss ==
  LET due(k) == (hostSeq + flushed + k) % SeqNumMod IN
    /\ \A k \in DOMAIN queue : queue[k].seq = due(k - 1)
    /\ s_seq = due(Len(queue))

\* The counts the host has, is about to get and will get are in order, so that
\* a later STATUS makes up for one that was lost; the newest one queued is
\* s_reported, and with none queued the host has it, unless one was lost and
\* none came since: the host is behind without a STATUS due only after a flush
\* (relay.h:30-32, usb_cdc.c:408-410).
Statuses == {k \in DOMAIN queue : queue[k].type = "STATUS"}

HostKnows ==
  LET behind(count) == Minus(s_dropped, count, DropMod) IN
    /\ behind(hostCount) >= behind(s_reported)
    /\ \A k \in Statuses : /\ behind(hostCount) >= behind(queue[k].dropped)
                           /\ behind(queue[k].dropped) >= behind(s_reported)
    /\ \A j, k \in Statuses : j < k => behind(queue[j].dropped) >= behind(queue[k].dropped)
    /\ IF Statuses = {}
         THEN hostCount = s_reported \/ statusLost
         ELSE \E k \in Statuses : queue[k].dropped = s_reported /\ \A j \in Statuses : j <= k

\* While the port is open the host learns that there were losses it does not
\* know of, whatever the ring and the queue are full of (relay.h:30-32), unless
\* the STATUS that said so was flushed.
HostLearns ==
  \A c \in Count :
    (configured /\ ~statusLost /\ hostCount = c /\ s_dropped # c)
      ~> (~configured \/ hostCount # c \/ s_dropped = c)
=============================================================================
