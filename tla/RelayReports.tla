--------------------------- MODULE RelayReports ----------------------------
(***************************************************************************)
(* Which losses relay_poll reports, and in which order: Relay with the     *)
(* losses not yet reported as a history variable.  A loss is reported when *)
(* the sink has taken a STATUS that counts it, and relay_poll looks no     *)
(* further.  On USB a flush (usb_cdc.c:408-410) can still drop that frame: *)
(* what reaches the host is HostKnows of RelayUsb.                         *)
(***************************************************************************)
EXTENDS Relay

VARIABLE
  holes      \* losses no STATUS that was taken counts: [pos, seen]; where in
             \* the stream the bytes are missing that found the ring full,
             \* nowhere for a lost mark or an error of the line

reportVars  == <<vars, holes>>

ReportInit == Init /\ holes = {}

\* Losses; not seen until relay_poll reads the counter.
Nowhere     == -1
Lost(where) == holes' = holes \cup {[pos |-> pos, seen |-> FALSE] : pos \in where}

ReportByte(byte, gap, err) ==
  /\ UsartByte(byte, gap, err)
  /\ Lost({pos \in {Nowhere, s_head} :
             \/ pos = s_head /\ RingFull
             \/ pos = Nowhere /\ (err = 1 \/ (~RingFull /\ MarksFull /\ NewBurst(tim2')))})

\* Bound: a STATUS is taken before 2^32 losses have gone by.
FewUnreported == Minus(s_dropped, s_reported, DropMod) + 2 < DropMod

ReportIrq == /\ FewUnreported
             /\ \E gap \in Gaps :
                  \/ \E byte \in Byte, err \in {0, 1} : ReportByte(byte, gap, err)
                  \/ UsartError(gap) /\ Lost({Nowhere})

ReportPollStart ==
  /\ PollStart
  /\ holes' = {[h EXCEPT !.seen = TRUE] : h \in holes}

\* The sink takes the STATUS, which counts the losses seen, or refuses it.
ReportStatus(taken) ==
  /\ EmitStatus(taken)
  /\ holes' = IF taken THEN {h \in holes : ~h.seen} ELSE holes

ReportNext ==
  \/ ReportIrq
  \/ ReportPollStart
  \/ \E taken \in BOOLEAN : ReportStatus(taken)
  \/ /\ \/ ReadAvail \/ AdoptMark \/ MarksDone \/ Gather \/ CopyByte \/ CopyDone \/ Commit
        \/ \E taken \in BOOLEAN : EmitData(taken)
     /\ UNCHANGED holes

ReportSpec == ReportInit /\ [][ReportNext]_reportVars

-----------------------------------------------------------------------------
(* Properties.                                                             *)

\* A loss that no STATUS taken by the sink counts keeps one due: no loss is
\* forgotten because it was counted between the reading of the counter and
\* the moment the sink took the frame that reports it (relay.c:155-161).
LossPending == holes # {} => s_dropped # s_reported

\* When a byte finds the ring full, the sink takes no later byte before the
\* STATUS that counts it, although the drop may come after the counter was
\* read: what the call goes on to send was stored before (relay.c:154).
RingDropsReportedFirst ==
  pc = "commit" => \A h \in holes : h.pos # Nowhere => Ahead(h.pos) >= n
=============================================================================
