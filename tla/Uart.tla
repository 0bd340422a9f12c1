-------------------------------- MODULE Uart --------------------------------
(***************************************************************************)
(* One port of the UART driver, src/hal/source/uart/hal_uart.c: the task   *)
(* that owns the port (init, control, flow control, loopback, deinit, and  *)
(* standby on its behalf), a task that receives, tasks that send, the      *)
(* interrupt handler, and the line.                                        *)
(*                                                                         *)
(* All share one core: the handler begins between any two steps of tasks   *)
(* and no task goes on before it returns.  Bytes arrive at any time.  The  *)
(* registers are those uart.h describes: RBR, THR and IER share their      *)
(* addresses with the two halves of the divisor, and the bit DLAB chooses. *)
(* Received bytes are numbered; Junk is what a read of the divisor gives.  *)
(***************************************************************************)
EXTENDS Naturals, Sequences

CONSTANTS Senders,        \* tasks that send
          FifoDepth,      \* of the hardware, either direction
          UART_FIFO_SIZE, \* of the mailbox
          Rates, uart_defconfig, \* baud rates, the one of init and resume
          PeerBytes,      \* bound: only the first so many bytes can be a peer's
          MaxBytes,       \* bound: bytes received, those of loopback included
          MaxOwnerCalls   \* bound: calls of the owner, and standbys

ASSUME UartAssumption ==
  /\ FifoDepth \in Nat \ {0} /\ UART_FIFO_SIZE \in Nat \ {0}
  /\ uart_defconfig \in Rates /\ PeerBytes \in Nat
  /\ MaxBytes \in Nat /\ MaxOwnerCalls \in Nat
  /\ "junk" \notin Rates /\ "unset" \notin Rates

Junk == 0

VARIABLES
  \* the controller: clock and pins on; what it received; a character timeout
  \* with no byte, a modem line that changed and a refused write of LCR, each
  \* of which interrupts; FORCECFG, DLAB, HTX, loopback, divisor, interrupt
  \* enable, bytes to send
  wired, fifo, ghost, modem, busy, forced, dlab, hold, loop, div, ier, txLevel,
  \* the interrupt controller, uart_priv names the port, uart_mailbox
  irq, claimed, box,
  \* where the tasks and the handler are
  owner, ownerCalls, reader, sender, isr,
  \* history of the owner: init succeeded last; and once before; the rate it
  \* asked for, and standby set another; the interrupt was not granted; or
  \* switched off by disable_rx; no mailbox was to be had
  open, opened, asked, slept, botched, silenced, boxless,
  \* history of bytes: how many came, who got them, which were lost and how,
  \* a receiver whose mailbox was replaced; two senders saw the same room, a
  \* byte sent was lost or went to the divisor
  came, got, lost, stranded, txRaced, txLost, crossed

controller == <<wired, fifo, ghost, modem, busy, forced, dlab, hold, loop, div, ier, txLevel>>
ownerHistory == <<open, opened, asked, slept, botched, silenced, boxless>>
txHistory == <<txRaced, txLost, crossed>>
uartVars == <<controller, irq, claimed, box, owner, ownerCalls, reader, sender, isr,
              ownerHistory, came, got, lost, stranded, txHistory>>

Reasons == {"overrun", "full", "nowhere", "ignored", "flushed", "closed", "standby"}

InSeq(s) == {s[i] : i \in 1 .. Len(s)}

OwnerIdle == [call |-> "none", pc |-> "idle", rate |-> uart_defconfig]
IsrIdle == [pc |-> "idle", iir |-> "none", hand |-> Junk]
NoBox == [st |-> "none", q |-> <<>>]

\* Every register, field and history variable has its type.
PortFlags ==
  /\ wired \in BOOLEAN /\ ghost \in BOOLEAN /\ modem \in BOOLEAN /\ busy \in BOOLEAN
  /\ forced \in BOOLEAN /\ dlab \in BOOLEAN /\ hold \in BOOLEAN /\ loop \in BOOLEAN

HistoryFlags ==
  /\ claimed \in BOOLEAN /\ open \in BOOLEAN /\ opened \in BOOLEAN /\ slept \in BOOLEAN
  /\ botched \in BOOLEAN /\ silenced \in BOOLEAN /\ boxless \in BOOLEAN

ByteFlags ==
  /\ stranded \in BOOLEAN /\ txRaced \in BOOLEAN /\ txLost \in BOOLEAN
  /\ crossed \in BOOLEAN

UartFlags == PortFlags /\ HistoryFlags /\ ByteFlags

RegisterTypes ==
  /\ div \in Rates \cup {"junk", "unset"} /\ asked \in Rates
  /\ ier \in SUBSET {"RX", "MSI"}
  /\ irq \in {"free", "off", "on"}

OwnerTypes ==
  /\ owner \in [call: {"none", "init", "control", "deinit", "resume"},
                pc: {"idle", "connect", "format", "reset", "halt", "dlab", "divisor",
                     "undlab", "release", "claim", "enable", "create", "ier", "off",
                     "mask", "delete"},
                rate: Rates]
  /\ ownerCalls \in 0 .. MaxOwnerCalls

TaskTypes ==
  /\ reader \in {"idle", "wait", "timed"}
  /\ sender \in [Senders -> {"idle", "poll", "write"}]
  /\ isr \in [pc: {"idle", "lsr", "busy", "ignore", "read", "send", "more"},
              iir: {"none", "RX", "MSTA", "BUSBSY"}, hand: 0 .. MaxBytes]

ByteTypes ==
  /\ fifo \in Seq(1 .. MaxBytes) /\ Len(fifo) <= FifoDepth
  /\ txLevel \in 0 .. FifoDepth
  /\ box \in [st: {"none", "alive", "dead"}, q: Seq(0 .. MaxBytes)]
  /\ Len(box.q) <= UART_FIFO_SIZE
  /\ came \in 0 .. MaxBytes /\ got \in SUBSET (1 .. MaxBytes)
  /\ lost \in [Reasons -> SUBSET (1 .. MaxBytes)]

UartTypeOK == UartFlags /\ RegisterTypes /\ OwnerTypes /\ TaskTypes /\ ByteTypes

UartInit ==
  /\ wired = FALSE /\ fifo = <<>> /\ ghost = FALSE /\ modem = FALSE /\ busy = FALSE
  /\ forced = FALSE /\ dlab = FALSE /\ hold = FALSE /\ loop = FALSE
  /\ div = "unset" /\ ier = {} /\ txLevel = 0
  /\ irq = "free" /\ claimed = FALSE /\ box = NoBox
  /\ owner = OwnerIdle /\ ownerCalls = 0 /\ reader = "idle" /\ isr = IsrIdle
  /\ sender = [s \in Senders |-> "idle"]
  /\ open = FALSE /\ opened = FALSE /\ asked = uart_defconfig /\ slept = FALSE
  /\ botched = FALSE /\ silenced = FALSE /\ boxless = FALSE
  /\ came = 0 /\ got = {} /\ lost = [r \in Reasons |-> {}] /\ stranded = FALSE
  /\ txRaced = FALSE /\ txLost = FALSE /\ crossed = FALSE

Lose(bytes, why) == lost' = [lost EXCEPT ![why] = @ \cup (bytes \ {Junk})]

UartInterrupt ==
  /\ irq = "on" /\ wired
  /\ \/ busy
     \/ "RX" \in ier /\ (fifo # <<>> \/ ghost)
     \/ "MSI" \in ier /\ modem

\* A task goes on when the handler is done and has not to begin at once: a
\* received byte interrupts at the trigger level or some time later, the rest
\* without delay.
Runs ==
  /\ isr.pc = "idle"
  /\ irq = "on" /\ wired => ~ busy /\ ~ ("MSI" \in ier /\ modem)

-----------------------------------------------------------------------------
(* The owner.                                                              *)

\* Where the owner is in its call: it enters one, takes a step, or returns.
Begin(call, first, rate) ==
  /\ Runs /\ owner.pc = "idle"
  /\ ownerCalls < MaxOwnerCalls /\ ownerCalls' = ownerCalls + 1
  /\ owner' = [call |-> call, pc |-> first, rate |-> rate]

Step(from, to) ==
  /\ Runs /\ owner.pc = from
  /\ owner' = [owner EXCEPT !.pc = to]
  /\ UNCHANGED ownerCalls

OwnerReturn(from) ==
  /\ Runs /\ owner.pc = from
  /\ owner' = OwnerIdle
  /\ UNCHANGED ownerCalls

tasksElse == <<reader, sender, isr>>
bytesHistory == <<came, got, lost, stranded>>

\* All but the registers and the owner, whose steps are mostly writes.
driver == <<irq, claimed, box, tasksElse, ownerHistory, bytesHistory, txHistory>>

\* A port may be initialised again while it is open, and somebody receives.
InitBegin ==
  /\ Begin("init", "connect", uart_defconfig)
  /\ open' = FALSE /\ asked' = uart_defconfig /\ slept' = FALSE
  /\ UNCHANGED <<controller, irq, claimed, box, tasksElse, opened, botched, silenced,
                 boxless, bytesHistory, txHistory>>

\* hal_uart_control.
ControlBegin(rate) ==
  /\ open
  /\ Begin("control", "format", rate)
  /\ asked' = rate /\ slept' = FALSE
  /\ UNCHANGED <<controller, irq, claimed, box, tasksElse, open, opened, botched, silenced,
                 boxless, bytesHistory, txHistory>>

\* Callers end their own calls before they close the port.
DeinitBegin ==
  /\ open /\ reader = "idle" /\ \A s \in Senders : sender[s] = "idle"
  /\ Begin("deinit", "off", owner.rate)
  /\ open' = FALSE
  /\ UNCHANGED <<controller, irq, claimed, box, tasksElse, opened, asked, slept, botched,
                 silenced, boxless, bytesHistory, txHistory>>

\* The registers at reset, and what that does to bytes on their way.
ResetController ==
  /\ fifo' = <<>> /\ Lose(InSeq(fifo), "standby")
  /\ ghost' = FALSE /\ modem' = FALSE /\ busy' = FALSE /\ forced' = FALSE
  /\ dlab' = FALSE /\ hold' = FALSE /\ loop' = FALSE
  /\ div' = "unset" /\ ier' = {} /\ txLevel' = 0

\* The controller loses its power between two calls, and uart_resume begins.
Standby ==
  /\ open
  /\ Begin("resume", "connect", uart_defconfig)
  /\ ResetController /\ wired' = FALSE
  /\ slept' = TRUE
  /\ UNCHANGED <<irq, claimed, box, tasksElse, open, opened, asked, botched, silenced,
                 boxless, came, got, stranded, txHistory>>

\* uart_clk_init and uart_pinctrl_init.
Connect ==
  /\ Step("connect", "format")
  /\ wired' = TRUE
  /\ UNCHANGED <<fifo, ghost, modem, busy, forced, dlab, hold, loop, div, ier, txLevel, driver>>

\* A write of LCR is refused, and interrupts, when the line is in use (line)
\* and FORCECFG is off.
LcrTaken(line) == forced \/ ~ line

\* uart_set_format.
Format ==
  /\ Step("format", IF owner.call = "resume" THEN "reset" ELSE "halt")
  /\ \E line \in BOOLEAN : busy' = (busy \/ ~ LcrTaken(line))
  /\ UNCHANGED <<wired, fifo, ghost, modem, forced, dlab, hold, loop, div, ier, txLevel, driver>>

\* uart_reset, in uart_resume.
Reset ==
  /\ Step("reset", "halt")
  /\ ResetController
  /\ UNCHANGED <<wired, irq, claimed, box, tasksElse, ownerHistory, came, got, stranded,
                 txHistory>>

\* uart_set_baudrate, one register write after the other.
ForcedWhenHalted_later == forced
ForcedWhenHalted == TRUE

Halt ==
  /\ Step("halt", "dlab")
  /\ hold' = TRUE /\ forced' = ForcedWhenHalted
  /\ UNCHANGED <<wired, fifo, ghost, modem, busy, dlab, loop, div, ier, txLevel, driver>>

SetDlab ==
  /\ Step("dlab", "divisor")
  /\ \E line \in BOOLEAN : dlab' = LcrTaken(line) /\ busy' = (busy \/ ~ LcrTaken(line))
  /\ UNCHANGED <<wired, fifo, ghost, modem, forced, hold, loop, div, ier, txLevel, driver>>

\* DLH and DLL; with DLAB off they are IER, and the upper half of the divisor
\* is zero above 5859 baud, and THR.
WriteDivisor ==
  /\ Step("divisor", "undlab")
  /\ IF dlab THEN div' = owner.rate /\ UNCHANGED ier ELSE ier' = {} /\ UNCHANGED div
  /\ crossed' = FALSE
  /\ UNCHANGED <<wired, fifo, ghost, modem, busy, forced, dlab, hold, loop, txLevel,
                 irq, claimed, box, tasksElse, ownerHistory, bytesHistory, txRaced, txLost>>

ClearDlab ==
  /\ Step("undlab", "release")
  /\ dlab' = FALSE
  /\ UNCHANGED <<wired, fifo, ghost, modem, busy, forced, hold, loop, div, ier, txLevel, driver>>

\* The end of uart_set_baudrate, and uart_set_fifo.
Release ==
  /\ IF owner.call = "control"
       THEN OwnerReturn("release")
       ELSE Step("release", IF owner.call = "init" THEN "claim" ELSE "ier")
  /\ hold' = FALSE
  /\ UNCHANGED <<wired, fifo, ghost, modem, busy, forced, dlab, loop, div, ier, txLevel, driver>>

\* uart_priv takes the port before hal_request_irq, which may refuse.
Claim ==
  /\ \/ /\ claimed /\ Step("claim", "create")
        /\ UNCHANGED <<irq, botched>>
     \/ /\ ~ claimed /\ Step("claim", "enable")
        /\ irq' = "off" /\ UNCHANGED botched
     \/ /\ ~ claimed /\ OwnerReturn("claim")
        /\ botched' = TRUE /\ UNCHANGED irq
  /\ claimed' = TRUE
  /\ UNCHANGED <<controller, box, tasksElse, open, opened, asked, slept, silenced, boxless,
                 bytesHistory, txHistory>>

Enable ==
  /\ Step("enable", "create")
  /\ irq' = "on"
  /\ UNCHANGED <<controller, claimed, box, tasksElse, ownerHistory, bytesHistory, txHistory>>

\* hal_mailbox_create, which may fail.  A mailbox that was there is forgotten,
\* with the bytes in it and whoever waits for them.
Create ==
  /\ \/ /\ Step("create", "ier")
        /\ box' = [st |-> "alive", q |-> <<>>] /\ boxless' = FALSE
     \/ /\ OwnerReturn("create")
        /\ box' = NoBox /\ boxless' = TRUE
  /\ Lose(InSeq(box.q), "closed")
  /\ stranded' = (stranded \/ reader # "idle")
  /\ UNCHANGED <<controller, irq, claimed, tasksElse, open, opened, asked, slept, botched,
                 silenced, came, got, txHistory>>

\* uart_enable_irq, uart_enable_busy_cfg, and SUNXI_HAL_OK.
EnableRdi ==
  /\ OwnerReturn("ier")
  /\ ier' = ier \cup {"RX"} /\ forced' = TRUE
  /\ open' = TRUE /\ opened' = TRUE
  /\ UNCHANGED <<wired, fifo, ghost, modem, busy, dlab, hold, loop, div, txLevel,
                 irq, claimed, box, tasksElse, asked, slept, botched, silenced, boxless,
                 bytesHistory, txHistory>>

\* hal_uart_deinit: clock and pins; uart_enable_irq(port, 0) adds no bit to
\* IER and takes none away.
Off ==
  /\ Step("off", "mask")
  /\ wired' = FALSE
  /\ UNCHANGED <<fifo, ghost, modem, busy, forced, dlab, hold, loop, div, ier, txLevel, driver>>

IrqAfterMask_kept == irq
IrqAfterMask == "free"

\* hal_disable_irq and hal_free_irq.
Mask ==
  /\ Step("mask", "delete")
  /\ irq' = IrqAfterMask
  /\ silenced' = FALSE
  /\ UNCHANGED <<controller, claimed, box, tasksElse, open, opened, asked, slept, botched,
                 boxless, bytesHistory, txHistory>>

ClaimedAfterDelete_kept == claimed
ClaimedAfterDelete == FALSE

Delete ==
  /\ OwnerReturn("delete")
  /\ box' = [st |-> "dead", q |-> <<>>]
  /\ Lose(InSeq(box.q), "closed")
  /\ claimed' = ClaimedAfterDelete /\ botched' = FALSE
  /\ UNCHANGED <<controller, irq, tasksElse, open, opened, asked, slept, silenced, boxless,
                 came, got, stranded, txHistory>>

\* hal_uart_disable_rx, hal_uart_enable_rx.
SwitchRx(on) ==
  /\ open
  /\ Begin("none", "idle", owner.rate)
  /\ irq' = IF irq = "free" THEN "free" ELSE IF on THEN "on" ELSE "off"
  /\ silenced' = ~ on
  /\ UNCHANGED <<controller, claimed, box, tasksElse, open, opened, asked, slept, botched,
                 boxless, bytesHistory, txHistory>>

\* hal_uart_set_hardware_flowcontrol, hal_uart_disable_flowcontrol.
FlowControl(on) ==
  /\ open
  /\ Begin("none", "idle", owner.rate)
  /\ ier' = IF on THEN ier \cup {"MSI"} ELSE ier \ {"MSI"}
  /\ UNCHANGED <<wired, fifo, ghost, modem, busy, forced, dlab, hold, loop, div, txLevel, driver>>

\* hal_uart_set_loopback.
SetLoopback(on) ==
  /\ open
  /\ Begin("none", "idle", owner.rate)
  /\ loop' = on
  /\ UNCHANGED <<wired, fifo, ghost, modem, busy, forced, dlab, hold, div, ier, txLevel, driver>>

OwnerCall ==
  \/ InitBegin \/ DeinitBegin \/ Standby
  \/ \E rate \in Rates : ControlBegin(rate)
  \/ \E on \in BOOLEAN : SwitchRx(on) \/ FlowControl(on) \/ SetLoopback(on)

OwnerStep ==
  \/ Connect \/ Format \/ Reset \/ Halt \/ SetDlab \/ WriteDivisor
  \/ ClearDlab \/ Release \/ Claim \/ Enable \/ Create \/ EnableRdi
  \/ Off \/ Mask \/ Delete

-----------------------------------------------------------------------------
(* Receiving: hal_uart_receive and hal_uart_receive_no_block, byte by byte. *)

ReceiveBegin(how) ==
  /\ Runs /\ open /\ reader = "idle"
  /\ reader' = how
  /\ UNCHANGED <<controller, irq, claimed, box, owner, ownerCalls, sender, isr, ownerHistory,
                 bytesHistory, txHistory>>

Receive ==
  /\ Runs /\ reader # "idle" /\ ~ stranded
  /\ box.q # <<>>
  /\ got' = got \cup {Head(box.q)}
  /\ box' = [box EXCEPT !.q = Tail(@)]
  /\ reader' = "idle"
  /\ UNCHANGED <<controller, irq, claimed, owner, ownerCalls, sender, isr, ownerHistory, came,
                 lost, stranded, txHistory>>

ReceiveTimeout ==
  /\ Runs /\ reader = "timed" /\ (stranded \/ box.q = <<>>)
  /\ reader' = "idle" /\ stranded' = FALSE
  /\ UNCHANGED <<controller, irq, claimed, box, owner, ownerCalls, sender, isr, ownerHistory,
                 came, got, lost, txHistory>>

-----------------------------------------------------------------------------
(* Sending: hal_uart_send, one _uart_putc after the other.                 *)

SendBegin(s) ==
  /\ Runs /\ open /\ sender[s] = "idle"
  /\ sender' = [sender EXCEPT ![s] = "poll"]
  /\ UNCHANGED <<controller, irq, claimed, box, owner, ownerCalls, reader, isr, ownerHistory,
                 bytesHistory, txHistory>>

RoomSeen == txLevel < FifoDepth

SendPoll(s) ==
  /\ Runs /\ sender[s] = "poll" /\ RoomSeen
  /\ sender' = [sender EXCEPT ![s] = "write"]
  /\ txRaced' = (txRaced \/ \E o \in Senders \ {s} : sender[o] = "write")
  /\ UNCHANGED <<controller, irq, claimed, box, owner, ownerCalls, reader, isr, ownerHistory,
                 bytesHistory, txLost, crossed>>

\* THR is the lower half of the divisor while DLAB is on.
SendWrite(s) ==
  /\ Runs /\ sender[s] = "write"
  /\ sender' = [sender EXCEPT ![s] = "idle"]
  /\ IF dlab
       THEN div' = "junk" /\ crossed' = TRUE /\ UNCHANGED <<txLevel, txLost>>
       ELSE /\ txLevel' = IF txLevel < FifoDepth THEN txLevel + 1 ELSE txLevel
            /\ txLost' = (txLost \/ txLevel = FifoDepth)
            /\ UNCHANGED <<div, crossed>>
  /\ UNCHANGED <<wired, fifo, ghost, modem, busy, forced, dlab, hold, loop, ier, irq, claimed,
                 box, owner, ownerCalls, reader, isr, ownerHistory, bytesHistory, txRaced>>

Task ==
  \/ OwnerCall \/ OwnerStep
  \/ \E how \in {"wait", "timed"} : ReceiveBegin(how)
  \/ Receive \/ ReceiveTimeout
  \/ \E s \in Senders : SendBegin(s) \/ SendPoll(s) \/ SendWrite(s)

-----------------------------------------------------------------------------
(* The handler: uart_irq_handler and what it calls.                        *)

isrElse == <<irq, claimed, owner, ownerCalls, reader, sender, ownerHistory, came, got, stranded,
             txHistory>>

\* IIR is read.
IsrEnter ==
  /\ isr.pc = "idle" /\ UartInterrupt
  /\ isr' = [IsrIdle EXCEPT !.pc = "lsr",
               !.iir = IF busy THEN "BUSBSY"
                       ELSE IF "RX" \in ier /\ (fifo # <<>> \/ ghost) THEN "RX" ELSE "MSTA"]
  /\ UNCHANGED <<controller, box, lost, isrElse>>

\* LSR is read; RXDVAL, LINESTA and CHARTO share the bit that is tested.
IsrStatus ==
  /\ isr.pc = "lsr"
  /\ isr' = IF isr.iir = "BUSBSY" THEN [isr EXCEPT !.pc = "busy"]
            ELSE IF fifo # <<>> THEN [isr EXCEPT !.pc = "read"]
            ELSE IF isr.iir = "RX" THEN [isr EXCEPT !.pc = "ignore"]
            ELSE IsrIdle
  /\ UNCHANGED <<controller, box, lost, isrElse>>

BusyAfterUsr_kept == busy
BusyAfterUsr == FALSE

\* uart_handle_busy: USR is read, the queues are emptied, LCR and MCR are
\* written as the driver remembers them, without DLAB and loopback.
\* uart_force_idle empties the queues if fcr, which nothing but uart_set_fifo
\* writes, has FIFO_EN: the port's first init sets it (Release) before it asks
\* for the interrupt (Claim), and it stays set, so there is no other case here.
IsrBusy ==
  /\ isr.pc = "busy"
  /\ isr' = IsrIdle
  /\ busy' = BusyAfterUsr /\ dlab' = FALSE /\ loop' = FALSE
  /\ fifo' = <<>> /\ Lose(InSeq(fifo), "flushed") /\ ghost' = FALSE
  /\ txLevel' = 0
  /\ UNCHANGED <<wired, modem, forced, hold, div, ier, box, isrElse>>

\* A read of RBR: the next byte, the divisor while DLAB is on.
Popped_all == <<>>
Popped == IF dlab \/ fifo = <<>> THEN fifo ELSE Tail(fifo)
ReadValue == IF dlab \/ fifo = <<>> THEN Junk ELSE Head(fifo)
ReadRbr ==
  /\ fifo' = Popped /\ ghost' = (ghost /\ dlab)
  /\ UNCHANGED <<wired, modem, busy, forced, dlab, hold, loop, div, ier, txLevel>>

\* "just read and ignore"
IsrIgnore ==
  /\ isr.pc = "ignore"
  /\ isr' = IsrIdle
  /\ ReadRbr /\ Lose({ReadValue}, "ignored")
  /\ UNCHANGED <<box, isrElse>>

\* One turn of uart_handle_rx: read the byte, send it, read LSR.
IsrRead ==
  /\ isr.pc = "read"
  /\ isr' = [isr EXCEPT !.pc = "send", !.hand = ReadValue]
  /\ ReadRbr
  /\ UNCHANGED <<box, lost, isrElse>>

SpaceInBox == Len(box.q) < UART_FIFO_SIZE

\* hal_mailbox_send cannot wait here: a full mailbox refuses.
IsrSend ==
  /\ isr.pc = "send"
  /\ isr' = [isr EXCEPT !.pc = "more", !.hand = Junk]
  /\ IF box.st = "alive" /\ SpaceInBox
       THEN box' = [box EXCEPT !.q = Append(@, isr.hand)] /\ UNCHANGED lost
       ELSE Lose({isr.hand}, IF box.st = "alive" THEN "full" ELSE "nowhere") /\ UNCHANGED box
  /\ UNCHANGED <<controller, isrElse>>

MoreToRead == fifo # <<>>

IsrMore ==
  /\ isr.pc = "more"
  /\ isr' = IF MoreToRead THEN [isr EXCEPT !.pc = "read"] ELSE IsrIdle
  /\ UNCHANGED <<controller, box, lost, isrElse>>

Isr == IsrEnter \/ IsrStatus \/ IsrBusy \/ IsrIgnore \/ IsrRead \/ IsrSend \/ IsrMore

-----------------------------------------------------------------------------
(* The line.                                                               *)

lineElse == <<irq, claimed, box, owner, ownerCalls, reader, sender, isr, ownerHistory, got,
              stranded, txHistory>>

Arrive ==
  /\ came < MaxBytes /\ came' = came + 1
  /\ IF Len(fifo) < FifoDepth
       THEN fifo' = Append(fifo, came + 1) /\ UNCHANGED lost
       ELSE Lose({came + 1}, "overrun") /\ UNCHANGED fifo
  /\ UNCHANGED <<wired, ghost, modem, busy, forced, dlab, hold, loop, div, ier>>

FromPeer ==
  /\ came < PeerBytes /\ wired /\ ~ loop
  /\ Arrive /\ UNCHANGED <<txLevel, lineElse>>

Transmit ==
  /\ wired /\ ~ hold /\ txLevel > 0
  /\ txLevel' = txLevel - 1
  /\ IF loop
       THEN Arrive
       ELSE UNCHANGED <<came, lost, wired, fifo, ghost, modem, busy, forced, dlab, hold, loop,
                        div, ier>>
  /\ UNCHANGED lineElse

\* "charto irq but no dr lsr"
CharTimeout ==
  /\ wired /\ fifo = <<>> /\ "RX" \in ier
  /\ ghost' = TRUE
  /\ UNCHANGED <<wired, fifo, modem, busy, forced, dlab, hold, loop, div, ier, txLevel, came,
                 lost, lineElse>>

\* The handler does not read MSR: the change stays.
ModemChange ==
  /\ wired
  /\ modem' = TRUE
  /\ UNCHANGED <<wired, fifo, ghost, busy, forced, dlab, hold, loop, div, ier, txLevel, came,
                 lost, lineElse>>

Line == FromPeer \/ Transmit \/ CharTimeout \/ ModemChange

UartNext == Task \/ Isr \/ Line

UartSpec == UartInit /\ [][UartNext]_uartVars

\* The handler goes on, and so does the owner inside a call, which gets the
\* core between two interrupts when it could again and again (strong, since
\* false character timeouts may come for ever).  Nothing is assumed of other
\* tasks, of the transmitter or of the peer.
UartFairness == WF_uartVars(Isr) /\ SF_uartVars(OwnerStep)

UartFairSpec == UartSpec /\ UartFairness

-----------------------------------------------------------------------------

\* Bytes on their way to the receiver.
InBox == InSeq(box.q) \ {Junk}
InHand == {isr.hand} \ {Junk}
Gone == UNION {lost[r] : r \in Reasons}

Rising(s) == \A i, j \in 1 .. Len(s) : i < j /\ Junk \notin {s[i], s[j]} => s[i] < s[j]
Before(S, T) == \A x \in S, y \in T : x < y

\* Every byte that came is in one place: with the receiver, in the mailbox, in
\* the hand of the handler, in the FIFO, or lost; those on their way are in the
\* order they came in, so the receiver gets each once and in order, and what
\* the handler reads instead of a byte while the divisor is on its address is
\* never received.
BytesInOrder ==
  /\ got \cup InBox \cup InHand \cup InSeq(fifo) \cup Gone = 1 .. came
  /\ (got \cup InBox \cup InHand \cup InSeq(fifo)) \cap Gone = {}
  /\ Before(got, InBox \cup InHand \cup InSeq(fifo))
  /\ Before(InBox, InHand \cup InSeq(fifo)) /\ Before(InHand, InSeq(fifo))
  /\ Rising(box.q) /\ Rising(fifo)

\* The port, through further inits, changes of rate, standby and deinit, and
\* with the divisor on the address of RBR for a while, implements ByteLine: the
\* receiver gets each byte once and in order, or it is dropped for good.
OnWay == InBox \cup InHand \cup InSeq(fifo)

Received == INSTANCE ByteLine WITH onWay <- OnWay, lost <- Gone
LineSpec == Received!Spec

\* The handler sends to a mailbox that exists. But IER keeps its bits over a
\* deinit, so from the second init on it may come between hal_enable_irq and
\* hal_mailbox_create; and an init that finds no mailbox leaves the interrupt
\* on (boxless).
HandlerHasMailbox ==
  isr.pc = "send" /\ box.st # "alive" => opened /\ (owner.pc = "create" \/ boxless)

\* A port whose init returned SUNXI_HAL_OK receives: its interrupt is on unless
\* disable_rx switched it off, at the controller too, and there is a mailbox;
\* through control, standby and further inits. An init that was refused its
\* interrupt (botched) makes all that follow succeed without one.
OpenReceives ==
  open /\ owner.pc = "idle" /\ ~ botched =>
    /\ wired /\ "RX" \in ier /\ box.st = "alive"
    /\ irq = IF silenced THEN "off" ELSE "on"

\* Between calls the port runs at the rate asked for last, the default after a
\* standby, unless a byte was sent into the divisor while it was open (crossed).
WantedRate == IF slept THEN uart_defconfig ELSE asked

DivisorRight ==
  open /\ owner.pc = "idle" /\ ~ crossed => div = WantedRate

\* A byte to send is only overwritten if two senders saw the same room.
TxKept == txLost => txRaced

\* The loops that never end: a modem line changed, which the handler does not
\* acknowledge; the handler reads the divisor instead of the byte that waits.
Stormed ==
  /\ irq = "on" /\ wired
  /\ \/ "MSI" \in ier /\ modem
     \/ dlab /\ (fifo # <<>> \/ ghost)

\* Every call of the owner ends.
OwnerReturns == owner.pc # "idle" ~> owner.pc = "idle" \/ Stormed

-----------------------------------------------------------------------------
(* What makes them inductive.                                              *)

LateInit == {"claim", "enable", "create", "ier"}
InWindow == {"divisor", "undlab"}
PastDivisor == {"undlab", "release"} \cup LateInit

\* Which call the owner is in at each step of its way.
CallInv ==
  /\ owner.call = "none" <=> owner.pc = "idle"
  /\ owner.pc = "reset" => owner.call = "resume"
  /\ owner.pc \in {"claim", "enable", "create"} => owner.call = "init"
  /\ owner.pc \in {"connect", "ier"} => owner.call \in {"init", "resume"}
  /\ owner.call = "deinit" <=> owner.pc \in {"off", "mask", "delete"}
  /\ open => opened /\ claimed /\ owner.call \notin {"init", "deinit"}
  /\ owner.call \in {"control", "resume"} => open

\* DLAB is on in a part of uart_set_baudrate only, and no write of LCR is refused
\* there: FORCECFG is on from the first time a port gets so far.
WindowInv ==
  /\ dlab <=> owner.pc \in InWindow
  /\ owner.pc \in {"dlab"} \cup InWindow \cup {"release"} \cup LateInit => forced
  /\ claimed =>
       \/ forced
       \/ owner.call = "resume" /\ owner.pc \in {"connect", "format", "reset", "halt"}

\* A refused write interrupts before anything depends on it.
BusyInv ==
  /\ busy => \/ irq = "free"
             \/ irq = "off" /\ owner.pc = "enable"
             \/ owner.pc = "reset"
             \/ irq = "on" /\ owner.pc = "create"
  /\ isr.pc = "busy" => isr.iir = "BUSBSY"
  /\ isr.iir = "BUSBSY" => owner.pc \in {"reset", "create"}

\* The interrupt and the mailbox follow the calls of the owner.
PortInv ==
  /\ claimed /\ ~ botched /\ owner.call # "deinit" /\ owner.pc # "enable" =>
       irq = IF silenced THEN "off" ELSE "on"
  /\ ~ claimed => irq = "free" /\ ~ silenced
  /\ owner.pc = "enable" => irq = "off" /\ ~ silenced
  /\ owner.pc = "delete" => irq = "free" /\ ~ silenced
  /\ owner.pc \in {"enable", "create", "ier"} => claimed
  /\ open \/ owner.pc \in {"ier", "off", "mask", "delete"} => box.st = "alive"
  /\ irq # "free" /\ box.st # "alive" => owner.pc \in {"enable", "create"} \/ boxless
  /\ open /\ owner.call # "resume" => "RX" \in ier
  /\ open /\ owner.pc # "connect" => wired
  /\ owner.call = "init" /\ owner.pc # "connect" => wired
  /\ ~ opened => ier = {}

\* Where the handler is, and that it reads the divisor only while it cannot end.
IsrInv ==
  /\ isr.pc # "idle" => irq = "on" /\ wired
  /\ isr.pc \notin {"idle", "busy"} /\ isr.iir # "BUSBSY" => opened
  /\ isr.pc = "idle" <=> isr.iir = "none"
  /\ isr.pc = "read" => fifo # <<>>
  /\ isr.pc \in {"ignore", "read", "send", "more"} => isr.iir # "BUSBSY"
  /\ isr.hand # Junk => isr.pc = "send"
  /\ isr.pc = "send" /\ isr.hand = Junk => dlab /\ fifo # <<>>
  /\ Junk \in InSeq(box.q) => dlab /\ fifo # <<>> /\ isr.pc \in {"read", "send", "more"}

\* The rate a call was given is the one asked for, and once written the divisor
\* is that rate until a byte is sent into it.
RateInv ==
  /\ owner.call \in {"init", "control"} => owner.rate = asked /\ ~ slept
  /\ owner.call = "resume" => owner.rate = uart_defconfig /\ slept
  /\ owner.pc \in PastDivisor \/ (open /\ owner.call = "none") => crossed \/ div = WantedRate

\* While no two senders saw the same room, the one about to write still has it.
SendInv ==
  ~ txRaced =>
    /\ ~ txLost
    /\ \A s \in Senders : sender[s] = "write" =>
         /\ txLevel < FifoDepth
         /\ \A o \in Senders \ {s} : sender[o] # "write"

\* The inductive invariant of one port.
UartInv ==
  /\ UartTypeOK /\ CallInv /\ WindowInv /\ BusyInv /\ PortInv /\ IsrInv /\ RateInv /\ SendInv
  /\ BytesInOrder

=============================================================================
