----------------------------- MODULE RelayVcp ------------------------------
(***************************************************************************)
(* The whole probe on its VCP path (PC_OVER_USB = 0), from power-up: the   *)
(* steps of relay_init and board_init, then the main loop of main.c, the   *)
(* relay, and the transmit FIFO of src/board_f042.c drained to USART2.     *)
(* Here the sink is no longer free to refuse: it takes a frame exactly     *)
(* when the FIFO has room for all of it, so what is fair is the processor  *)
(* and the transmitter, and progress of the data follows or not.  The FIFO *)
(* is its fill level; ByteFifo models its contents.                        *)
(***************************************************************************)
EXTENDS Relay

CONSTANTS
  FifoRoom,     \* sizeof s_tx_storage - 1: bytes the FIFO can hold
  StatusLen,    \* encoded length of a STATUS frame
  DataOverhead  \* what a DATA frame is longer than its data, encoded

ASSUME RoomAssumption ==
  /\ {FifoRoom, StatusLen, DataOverhead} \subseteq Nat \ {0}
  /\ StatusLen <= FifoRoom
  /\ DataOverhead + MaxChunk <= FifoRoom     \* FRAME_ENC_MAX <= FIFO

VARIABLES
  boot,   \* calls made of those before the main loop
  held,   \* USART1 before its interrupt is on: ISR.RXNE and ISR.ORE
  used,   \* bytes in the FIFO (bytefifo_count)
  txe,    \* USART2 ISR.TXE: the transmit data register is empty
  turn    \* main(): in relay_poll or in board_pc_poll

bootVars == <<boot, held>>
vcpVars  == <<vars, bootVars, used, txe, turn>>

-----------------------------------------------------------------------------
(* From power-up to the main loop.  A call is what it switches on.         *)

RelayInit    == {"relay"}
BytefifoInit == {"fifo"}
ClockInit    == {"sysclk_48mhz"}                \* the baud rates count on it
GpioInit     == {"rx_pin", "tx_pin"}            \* PA10 with pull-up, PA2
Tim2Init     == {"timestamps"}
UsartInit    == {"receiver", "transmitter"}     \* USART1 RE, USART2 TE
EnableRxIrq  == {"rx_irq"}

\* Fault: the timer is set up last.
BootCallsTimerLast == <<RelayInit, BytefifoInit, ClockInit, GpioInit, UsartInit, EnableRxIrq, Tim2Init>>

\* relay_init, then board_init, call by call.
BootCalls == <<RelayInit, BytefifoInit, ClockInit, GpioInit, Tim2Init, UsartInit, EnableRxIrq>>

On(part) == \E k \in 1 .. boot : part \in BootCalls[k]
Booted   == boot = Len(BootCalls)

VcpInit == /\ Init /\ used = 0 /\ txe = TRUE /\ turn = "relay_poll"
           /\ boot = 0 /\ held = {}

BootCall ==
  /\ ~Booted /\ ~(On("rx_irq") /\ held # {})
  /\ boot' = boot + 1
  /\ UNCHANGED <<vars, held, used, txe, turn>>

\* A byte while the interrupt is off waits in RDR; the next one is an overrun.
HoldByte ==
  /\ On("receiver") /\ ~On("rx_irq")
  /\ held' = held \cup (IF "RXNE" \in held THEN {"ORE"} ELSE {"RXNE"})
  /\ UNCHANGED <<vars, boot, used, txe, turn>>

\* The interrupt is switched on and takes what was held.
TakeHeld ==
  /\ On("rx_irq") /\ held # {}
  /\ \E byte \in Byte, gap \in Gaps : UsartByte(byte, gap, IF "ORE" \in held THEN 1 ELSE 0)
  /\ held' = {}
  /\ UNCHANGED <<boot, used, txe, turn>>

RxIrq == /\ On("rx_irq") /\ held = {}
         /\ UsartIrq
         /\ UNCHANGED <<bootVars, used, txe, turn>>

-----------------------------------------------------------------------------
(* The main loop.                                                          *)

\* board_pc_write on a frame of len bytes: all of it or nothing.
Fits(len)      == len <= FifoRoom - used
Write(len)     == used' = IF Fits(len) THEN used + len ELSE used
DataLen        == DataOverhead + n

\* relay_poll, and on to board_pc_poll when it returns.
RelayPoll ==
  /\ turn = "relay_poll"
  /\ \/ PollInternal /\ UNCHANGED used
     \/ EmitStatus(Fits(StatusLen)) /\ Write(StatusLen)
     \/ EmitData(Fits(DataLen)) /\ Write(DataLen)
  /\ turn' = IF pc' = "idle" THEN "board_pc_poll" ELSE turn
  /\ UNCHANGED <<bootVars, txe>>

\* board_pc_poll: while TXE is set and the FIFO is not empty, a byte to TDR.
PopToTdr ==
  /\ turn = "board_pc_poll" /\ txe /\ used > 0
  /\ used' = used - 1
  /\ txe' = FALSE
  /\ UNCHANGED <<vars, bootVars, turn>>

PollDone ==
  /\ turn = "board_pc_poll"
  /\ ~txe \/ used = 0
  /\ turn' = "relay_poll"
  /\ UNCHANGED <<vars, bootVars, used, txe>>

\* USART2 moves TDR to its shift register.
TdrEmptied == ~txe /\ txe' = TRUE /\ UNCHANGED <<vars, bootVars, used, turn>>

MainLoop == Booted /\ held = {} /\ (RelayPoll \/ PopToTdr \/ PollDone)

Main == BootCall \/ MainLoop

VcpNext == Main \/ HoldByte \/ TakeHeld \/ RxIrq \/ TdrEmptied

\* The program never blocks and interrupts return, so it always goes on; a held
\* byte is an interrupt pending; USART2 is enabled and nothing stops its shift
\* register.
VcpSpec == /\ VcpInit /\ [][VcpNext]_vcpVars
           /\ WF_vcpVars(Main) /\ WF_vcpVars(TakeHeld) /\ WF_vcpVars(TdrEmptied)

-----------------------------------------------------------------------------
(* Properties.                                                             *)

\* A byte is only received, and only handed to the relay, once everything it
\* depends on is up: bits sampled at the right clock from a connected pin, a
\* running timer for its timestamp, rings and FIFO that are not initialised
\* again (main.c:17-18, board_f042.c:156-162).
BytesMeetReadyBoard ==
  held # {} \/ s_have_last \/ s_dropped # 0 =>
    \A part \in {"relay", "fifo", "sysclk_48mhz", "rx_pin", "tx_pin", "timestamps"} : On(part)

\* Every loss is surfaced: the count the host has does not stay behind the
\* probe's (relay.h:30-32), however the target and the FIFO behave.
DropsReported ==
  \A r \in Count :
    (s_reported = r /\ s_dropped # r) ~> (s_reported # r \/ s_dropped = r)

\* Bytes in the ring are handed on, unless losses never cease.  The exception
\* is needed: each loss puts a STATUS frame ahead of the data (relay.c:155),
\* a STATUS fits where a DATA frame does not, and takes the room as it comes.
BytesHandedOn ==
  \/ []<><<s_dropped' # s_dropped>>_vcpVars
  \/ \A i \in Index : (s_tail = i /\ s_head # i) ~> s_tail # i
=============================================================================
