-------------------------------- MODULE Twi --------------------------------
(***************************************************************************)
(* An engine-mode transfer of the TWI (I2C) controller,                    *)
(* src/hal/source/twi/hal_twi.c: the thread in hal_twi_engine_do_xfer, the *)
(* interrupt handler with its state machine over the bus status, the       *)
(* semaphore between them, and the bus.                                    *)
(*                                                                         *)
(* Thread and handler share one core: the handler runs to its end and      *)
(* before any further step of the thread, so it is one step.  The bus      *)
(* moves at any time.  Calls come one after the other (the comment at      *)
(* hal_twi.c:1623 leaves mutual exclusion to the device layer).            *)
(***************************************************************************)
EXTENDS Integers, Sequences, FiniteSets

CONSTANTS Calls,    \* the message lists a caller passes: sequences of Msgs
          MaxCalls, \* bound on the number of calls
          NULL

\* struct twi_msg: the two flags, and a length of 16 bits.
MaxLen == 65535
Msgs == [rd: BOOLEAN, ten: BOOLEAN, len: 0 .. MaxLen]

ASSUME CallsAssumption == Calls \subseteq Seq(Msgs) \ {<< >>}
ASSUME MaxCallsAssumption == MaxCalls \in Nat
ASSUME NullAssumption == NULL \notin Calls

\* Bus status codes (the low byte of TWI_STAT) and the codes of a failure.
START == 8        RESTART == 16     SLAW_ACK == 24    SLAW_NACK == 32
DATA_ACK == 40    DATA_NACK == 48   ARB_LOST == 56    SLAR_ACK == 64
SLAR_NACK == 72   RX_ACK == 80      RX_NACK == 88     ADDR2_ACK == 208
ADDR2_NACK == 216 BUS_ERR == 0      BUS_IDLE == 248
NoMsgs == 254     BusErrCode == 255
OK == 0           FAIL == -1        RETRY == -2

VARIABLES
  \* hal_twi_t
  msgs, num, idx, ptr, status, sem,
  \* the controller: interrupt enable and flag, status, acknowledge bit, and
  \* what it is doing on the bus
  irqEn, flag, stat, ack, op,
  \* the calling thread
  pc, ret, calls,
  \* history: the caller whose frame msgs points into has not returned; the
  \* bytes this call asks for and those that crossed the bus; some call has
  \* timed out; how many transfers the handler completed after the thread had
  \* given up on their START
  live, want, moved, late, overrun

twiVars == <<msgs, num, idx, ptr, status, sem>>
busVars == <<irqEn, flag, stat, ack, op>>
callVars == <<pc, ret, calls>>
history == <<live, want, moved, late, overrun>>
vars == <<twiVars, busVars, callVars, history>>

Ops == {"none", "start", "restart", "addrW", "addrR", "addr2", "data", "rx"}

Codes == {SLAW_NACK, DATA_NACK, ARB_LOST, SLAR_NACK, RX_NACK, BUS_IDLE, NoMsgs,
          BusErrCode, FAIL}

FieldTypes ==
  /\ msgs \in Calls \cup {NULL}
  /\ num \in Nat /\ ptr \in Nat /\ sem \in Nat /\ calls \in 0 .. MaxCalls
  /\ idx \in Nat \cup Codes
  /\ status \in {"IDLE", "START", "RUNNING"}
  /\ stat \in {START, RESTART, SLAW_ACK, SLAW_NACK, DATA_ACK, DATA_NACK,
               ARB_LOST, SLAR_ACK, SLAR_NACK, RX_ACK, RX_NACK, ADDR2_ACK,
               ADDR2_NACK, BUS_ERR, BUS_IDLE}
  /\ op \in Ops
  /\ pc \in {"out", "starting", "startFailed", "waiting", "woken", "timedout"}
  /\ ret \in Int /\ want \in Nat /\ moved \in Nat /\ overrun \in Nat

SwitchTypes ==
  /\ irqEn \in BOOLEAN /\ flag \in BOOLEAN /\ ack \in BOOLEAN
  /\ live \in BOOLEAN /\ late \in BOOLEAN

\* Every field of hal_twi_t and of the controller has its type.
TypeOK == FieldTypes /\ SwitchTypes

\* hal_twi_init: the semaphore is empty and nothing is transferred.
Init ==
  /\ msgs = NULL /\ num = 0 /\ idx = 0 /\ ptr = 0
  /\ status = "IDLE" /\ sem = 0
  /\ irqEn = FALSE /\ flag = FALSE /\ stat = BUS_IDLE /\ ack = FALSE
  /\ op = "none"
  /\ pc = "out" /\ ret = OK /\ calls = 0
  /\ live = FALSE /\ want = 0 /\ moved = 0 /\ late = FALSE /\ overrun = 0

Interrupt == irqEn /\ flag

\* The bytes of the first i messages of a list, and p bytes of the next.
BytesUpTo(list, i, p) ==
  (UNION {{k} \X (1 .. list[k].len) : k \in 1 .. i}) \cup ({i + 1} \X (1 .. p))

Bytes(list) == Cardinality(BytesUpTo(list, Len(list), 0))

-----------------------------------------------------------------------------
(* The thread: hal_twi_xfer and hal_twi_engine_do_xfer.                    *)

ThreadAt(p) == pc = p /\ ~ Interrupt

\* twi_soft_reset: the engine drops what it does; the enable bit stays.
SoftReset == flag' = FALSE /\ stat' = BUS_IDLE

Return(code) ==
  /\ pc' = "out"
  /\ ret' = code
  /\ live' = FALSE

\* Reset, take over the bus, publish the messages, START.
XferBegin ==
  /\ ThreadAt("out") /\ calls < MaxCalls
  /\ calls' = calls + 1
  /\ SoftReset
  /\ \E list \in Calls :
       msgs' = list /\ num' = Len(list) /\ want' = Bytes(list)
  /\ ptr' = 0 /\ idx' = 0
  /\ irqEn' = TRUE /\ ack' = FALSE
  /\ status' = "START"
  /\ op' = "start"
  /\ pc' = "starting"
  /\ live' = TRUE /\ moved' = 0
  /\ UNCHANGED <<sem, ret, late, overrun>>

\* The bus stays busy after nine clock pulses: retry, nothing published.
XferBusBusy ==
  /\ ThreadAt("out") /\ calls < MaxCalls
  /\ calls' = calls + 1
  /\ SoftReset /\ op' = "none"
  /\ Return(RETRY)
  /\ UNCHANGED <<twiVars, irqEn, ack, want, moved, late, overrun>>

XferStarted ==
  /\ ThreadAt("starting")
  /\ op # "start"
  /\ status' = "RUNNING"
  /\ pc' = "waiting"
  /\ UNCHANGED <<msgs, num, idx, ptr, sem, busVars, ret, calls, history>>

\* The start bit does not clear: the poll gives up and says so, with the
\* interrupt on and START still pending.
XferStartFails ==
  /\ ThreadAt("starting")
  /\ op = "start"
  /\ pc' = "startFailed"
  /\ UNCHANGED <<twiVars, busVars, ret, calls, history>>

\* Whatever the bus and the handler did since: reset, interrupt off, retry. No
\* interrupt comes between the two, the reset having ended the transfer.
XferStartAbandon ==
  /\ ThreadAt("startFailed")
  /\ SoftReset /\ op' = "none"
  /\ irqEn' = FALSE
  /\ Return(RETRY)
  /\ UNCHANGED <<twiVars, ack, calls, want, moved, late, overrun>>

TokenThere_any == TRUE
TokenThere == sem > 0

XferWake ==
  /\ ThreadAt("waiting")
  /\ TokenThere
  /\ sem' = sem - 1
  /\ pc' = "woken"
  /\ UNCHANGED <<msgs, num, idx, ptr, status, busVars, ret, calls, history>>

\* hal_sem_timedwait gives up.
XferTimeout ==
  /\ ThreadAt("waiting")
  /\ sem = 0
  /\ pc' = "timedout"
  /\ late' = TRUE
  /\ UNCHANGED <<twiVars, busVars, ret, calls, live, want, moved, overrun>>

Succeeded_begun == idx \in 0 .. num
Succeeded == idx = num

\* "return code,if(msgs_idx == num) succeed": the index is read only now.
XferReturn ==
  /\ ThreadAt("woken")
  /\ Return(IF Succeeded THEN OK ELSE FAIL)
  /\ UNCHANGED <<twiVars, busVars, calls, want, moved, late, overrun>>

\* After a timeout the messages are withdrawn; the interrupt stays enabled.
XferGiveUp ==
  /\ ThreadAt("timedout")
  /\ msgs' = NULL
  /\ Return(FAIL)
  /\ UNCHANGED <<num, idx, ptr, status, sem, busVars, calls, want, moved, late,
                 overrun>>

Thread == \/ XferBegin \/ XferBusBusy \/ XferStarted \/ XferStartFails
          \/ XferStartAbandon \/ XferWake \/ XferTimeout \/ XferReturn \/ XferGiveUp

-----------------------------------------------------------------------------
(* The bus: the controller ends what it does, or it loses the arbitration  *)
(* or sees an illegal level.  It may also take for ever.                   *)

Answers(o) ==
  CASE o = "start"   -> {START}
    [] o = "restart" -> {RESTART}
    [] o = "addrW"   -> {SLAW_ACK, SLAW_NACK, ARB_LOST, BUS_ERR}
    [] o = "addrR"   -> {SLAR_ACK, SLAR_NACK, ARB_LOST, BUS_ERR}
    [] o = "addr2"   -> {ADDR2_ACK, ADDR2_NACK, ARB_LOST, BUS_ERR}
    [] o = "data"    -> {DATA_ACK, DATA_NACK, ARB_LOST, BUS_ERR}
    [] o = "rx"      -> {IF ack THEN RX_ACK ELSE RX_NACK, BUS_ERR}
    [] OTHER         -> {}

Bus ==
  /\ \E s \in Answers(op) :
       /\ stat' = s
       /\ moved' = IF s = DATA_ACK THEN moved + 1 ELSE moved
  /\ op' = "none"
  /\ flag' = TRUE
  /\ UNCHANGED <<twiVars, irqEn, ack, callVars, live, want, late, overrun>>

-----------------------------------------------------------------------------
(* The handler: hal_twi_handler, hal_twi_core_process and what they call.  *)

msg == msgs[idx + 1]

\* Clearing the flag lets the controller go on with o.
Proceed(o) ==
  /\ flag' = FALSE /\ op' = o
  /\ irqEn' = (status # "IDLE")
  /\ UNCHANGED <<stat, status, msgs, num, sem>>

StatusWhenDone_kept == status
StatusWhenDone == "IDLE"

\* hal_twi_engine_complete: forget the messages, keep the outcome in msgs_idx,
\* wake the thread; the handler leaves the interrupt off when the status is IDLE.
\* msgs_num is zeroed too; the thread compares with its own argument, so num is
\* that argument, which the handler reads only while there are messages.
Complete(last, code) ==
  /\ msgs' = NULL /\ num' = num /\ ptr' = 0
  /\ status' = StatusWhenDone
  /\ idx' = IF code = OK THEN last ELSE code
  /\ sem' = sem + 1
  /\ irqEn' = (StatusWhenDone # "IDLE")

\* ok_out and err_out: send STOP first.
Finish(last, code) ==
  /\ flag' = FALSE /\ op' = "none" /\ stat' = BUS_IDLE
  /\ Complete(last, code)

\* A message is over: RESTART for the next, or the call is done.  RESTART may
\* fail to go out.
NextMessage ==
  IF idx + 1 = num
    THEN Finish(num, OK)
    ELSE \/ Proceed("restart") /\ idx' = idx + 1 /\ ptr' = 0
         \/ Finish(idx + 1, FAIL)

HandleStart ==
  /\ stat \in {START, RESTART}
  /\ Proceed(IF msg.rd THEN "addrR" ELSE "addrW")
  /\ UNCHANGED <<idx, ptr, ack, moved>>

HandleAddr2 ==
  /\ stat = SLAW_ACK /\ msg.ten
  /\ Proceed("addr2")
  /\ UNCHANGED <<idx, ptr, ack, moved>>

HandleSend ==
  /\ stat \in {ADDR2_ACK, DATA_ACK} \/ (stat = SLAW_ACK /\ ~ msg.ten)
  /\ IF ptr < msg.len
       THEN Proceed("data") /\ ptr' = ptr + 1 /\ idx' = idx
       ELSE NextMessage
  /\ UNCHANGED <<ack, moved>>

FlagAfterReadAck_single == msg.len > 1
FlagAfterReadAck == msg.len >= 1

\* Before the first byte: acknowledge it only if another follows.  A message
\* of no bytes leaves the flag set.
HandleReadAck ==
  /\ stat = SLAR_ACK
  /\ ack' = (ack \/ msg.len > 1)
  /\ IF FlagAfterReadAck
       THEN Proceed("rx")
       ELSE /\ irqEn' = (status # "IDLE")
            /\ UNCHANGED <<flag, op, stat, status, msgs, num, sem>>
  /\ UNCHANGED <<idx, ptr, moved>>

NackNext == ptr + 2 = msg.len

\* A byte arrived and was acknowledged: the next is the last?  Then it is not.
HandleReceive ==
  /\ stat = RX_ACK
  /\ IF ptr < msg.len
       THEN /\ ack' = (ack /\ ~ NackNext)
            /\ Proceed("rx")
            /\ ptr' = ptr + 1 /\ idx' = idx /\ moved' = moved + 1
       ELSE Finish(idx, FAIL) /\ UNCHANGED <<ack, moved>>

HandleReceiveLast ==
  /\ stat = RX_NACK
  /\ IF ptr = msg.len - 1
       THEN NextMessage /\ moved' = moved + 1
       ELSE Finish(idx, RX_NACK) /\ moved' = moved
  /\ ack' = ack

ErrCode(s) ==
  CASE s \in {ADDR2_NACK, SLAW_NACK} -> SLAW_NACK
    [] s = BUS_ERR -> BusErrCode
    [] OTHER -> s

Failures ==
  {SLAW_NACK, ADDR2_NACK, DATA_NACK, ARB_LOST, SLAR_NACK, BUS_ERR, BUS_IDLE}

HandleError ==
  /\ stat \in Failures
  /\ Finish(idx, ErrCode(stat))
  /\ UNCHANGED <<ack, moved>>

\* The messages were withdrawn: complete with a code, STOP nothing.
HandleNoMsgs ==
  /\ Complete(idx, NoMsgs)
  /\ UNCHANGED <<flag, op, stat, ack, moved>>

Handler ==
  /\ Interrupt
  /\ IF msgs = NULL
       THEN HandleNoMsgs
       ELSE \/ HandleStart \/ HandleAddr2 \/ HandleSend \/ HandleReadAck
            \/ HandleReceive \/ HandleReceiveLast \/ HandleError
  /\ overrun' = IF pc = "startFailed" /\ sem' > sem THEN overrun + 1 ELSE overrun
  /\ UNCHANGED <<callVars, live, want, late>>

-----------------------------------------------------------------------------

Next == Thread \/ Bus \/ Handler

Spec == Init /\ [][Next]_vars

\* The core runs the handler and the thread; the bus answers, or the timeout
\* of the thread expires, which needs no assumption.
Fairness == WF_vars(Handler) /\ WF_vars(Thread /\ pc # "out")

FairSpec == Spec /\ Fairness

-----------------------------------------------------------------------------

\* A call that returns OK moved every byte it was asked to, whatever tokens
\* earlier calls left in the semaphore: it goes by msgs_idx, which only the
\* handler of this very transfer brings to num.
OkMeansDone == pc = "out" /\ ret = OK => moved = want

\* Two things leave a token nobody waits for: a call that times out, and a
\* START given up whose transfer the handler completes before the reset
\* (overrun counts these: twi_start prints at hal_twi.c:350, the reset is at
\* 1659). Until one of them has happened calls and completions stay in step:
\* between calls no token waits in the semaphore and the interrupt is off.
\* After that one surplus token, and one more for each such START, may wait
\* between calls and never another, however many calls time out: with a token
\* to take no call times out.
InStep ==
  /\ pc = "out" /\ ~ late /\ overrun = 0 => sem = 0 /\ ~ irqEn
  /\ sem <= 2 + overrun /\ (pc = "out" => sem <= 1 + overrun)

\* The handler reads and writes messages only in the frame of a caller that
\* has not returned, unless some call has timed out or the handler has
\* completed a transfer whose START was given up: a call that takes the token
\* of either returns with its own messages published and the interrupt on.
NoDeadFrame == Interrupt /\ msgs # NULL => live \/ late \/ overrun > 0

\* "enable irq only when twi is transferring, otherwise disable irq"
\* (hal_twi.c:1519): with no call in progress the interrupt is off.
IrqOnlyWhenTransferring == pc = "out" => ~ irqEn

\* Every call comes back: no bus answer leaves the interrupt pending so that
\* the handler runs over and over and the thread never.
CallReturns == pc # "out" ~> pc = "out"

\* With them, what makes OkMeansDone inductive: while there are messages the
\* handler is at one of them, and the bytes of those before it, and of it up to
\* ptr, have crossed the bus, but for the one on its way and for a transfer
\* that has failed; and msgs_idx reaches num only when all have crossed.
BytesCrossed == IF op = "data" THEN ptr - 1 ELSE ptr

Broken == op = "none" /\ (flag => stat \in Failures)

InMessage ==
  msgs # NULL =>
    /\ num = Len(msgs) /\ want = Bytes(msgs)
    /\ idx \in 0 .. num - 1
    /\ ptr <= msg.len
    /\ Broken \/ moved = Cardinality(BytesUpTo(msgs, idx, BytesCrossed))

OneAtATime == (flag => op = "none") /\ (op = "data" /\ msgs # NULL => ptr > 0)

AllCrossed ==
  /\ idx = num => op = "none" /\ ~ flag /\ moved = want
  /\ pc = "out" /\ ret = OK => idx = num

DoneInv == TypeOK /\ InMessage /\ OneAtATime /\ AllCrossed

\* What makes InStep and NoDeadFrame inductive: a completion turns the
\* interrupt off as it posts a token, so the two together are what a call can
\* leave behind, and each call adds one; a START that was given up keeps it if
\* the handler completes the transfer all the same.
Owed == IF irqEn THEN sem + 1 ELSE sem

InCall == pc \in {"starting", "waiting"} \/ (pc = "startFailed" /\ irqEn)

OwedPerCall ==
  /\ Owed <= (IF InCall THEN 2 ELSE 1) + overrun
  /\ ~ late /\ overrun = 0 => /\ Owed <= IF InCall THEN 1 ELSE 0
                              /\ pc # "timedout"
  /\ live <=> pc # "out"
  /\ op = "start" /\ pc = "starting" => irqEn

StepInv == TypeOK /\ OneAtATime /\ OwedPerCall

\* The inductive invariant of hal_twi_engine_do_xfer and its handler.
IInv == DoneInv /\ StepInv

=============================================================================
