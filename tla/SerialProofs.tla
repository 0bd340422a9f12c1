----------------------------- MODULE SerialProofs -----------------------------
(***************************************************************************)
(* Proofs about the two serial controllers.                                *)
(*                                                                         *)
(* The engine-mode transfer of the TWI controller: for any lists of        *)
(* messages of 16-bit lengths, any number of calls and every answer of the *)
(* bus, with timeouts at any time.                                         *)
(*                                                                         *)
(* One port of the UART driver: for any number of senders, any depth of    *)
(* FIFO and mailbox, any rates and any number of calls and bytes, with the *)
(* handler between any two steps of the tasks.                             *)
(***************************************************************************)
EXTENDS Twi, Uart, FiniteSetTheorems, SequenceTheorems, TLAPS

-----------------------------------------------------------------------------
(* Counting bytes.                                                         *)

LEMMA MaxLenType == MaxLen \in Nat /\ 0 < MaxLen
BY DEF MaxLen

\* There are finitely many bytes in a list of messages.
LEMMA BytesFinite ==
  ASSUME NEW list \in Seq(Msgs), NEW i \in 0 .. Len(list), NEW p \in 0 .. MaxLen
  PROVE  /\ IsFiniteSet(BytesUpTo(list, i, p))
         /\ Cardinality(BytesUpTo(list, i, p)) \in Nat
<1> DEFINE All == (1 .. Len(list) + 1) \X (1 .. MaxLen)
<1>1. Len(list) \in Nat /\ MaxLen \in Nat
  BY MaxLenType
<1>2. IsFiniteSet(1 .. Len(list) + 1) /\ IsFiniteSet(1 .. MaxLen)
  BY <1>1, FS_Interval
<1>3. IsFiniteSet(All)
  BY <1>2, FS_Product
<1>4. ASSUME NEW k \in 1 .. i PROVE {k} \X (1 .. list[k].len) \subseteq All
  <2>1. list[k] \in Msgs
    BY <1>1
  <2>2. list[k].len \in 0 .. MaxLen
    BY <2>1 DEF Msgs
  <2>3. 1 .. list[k].len \subseteq 1 .. MaxLen /\ k \in 1 .. Len(list) + 1
    BY <1>1, <2>2
  <2> QED
    BY <2>3
<1>5. {i + 1} \X (1 .. p) \subseteq All
  <2>1. i + 1 \in 1 .. Len(list) + 1 /\ 1 .. p \subseteq 1 .. MaxLen
    BY <1>1
  <2> QED
    BY <2>1
<1>6. BytesUpTo(list, i, p) \in SUBSET All
  BY <1>4, <1>5 DEF BytesUpTo
<1> HIDE DEF All
<1> QED
  BY <1>3, <1>6, FS_Subset, FS_CardinalityType

\* One byte more is one byte more.
LEMMA NextByte ==
  ASSUME NEW list \in Seq(Msgs), NEW i \in 0 .. Len(list), NEW p \in 0 .. MaxLen - 1
  PROVE  Cardinality(BytesUpTo(list, i, p + 1)) = Cardinality(BytesUpTo(list, i, p)) + 1
<1> DEFINE Old == BytesUpTo(list, i, p)
<1>1. p \in 0 .. MaxLen
  BY MaxLenType
<1>2. IsFiniteSet(Old)
  BY <1>1, BytesFinite
<1>3. 1 .. p + 1 = (1 .. p) \cup {p + 1}
  BY <1>1
<1>4. {i + 1} \X (1 .. p + 1) = ({i + 1} \X (1 .. p)) \cup {<<i + 1, p + 1>>}
  BY <1>3
<1>5. BytesUpTo(list, i, p + 1) = Old \cup {<<i + 1, p + 1>>}
  BY <1>4 DEF BytesUpTo
<1>6. <<i + 1, p + 1>> \notin Old
  <2>1. ASSUME NEW k \in 1 .. i PROVE <<i + 1, p + 1>> \notin {k} \X (1 .. list[k].len)
    BY <2>1
  <2>2. <<i + 1, p + 1>> \notin {i + 1} \X (1 .. p)
    BY <1>1
  <2> QED
    BY <2>1, <2>2 DEF BytesUpTo
<1> QED
  BY <1>2, <1>5, <1>6, FS_AddElement

\* All the bytes of a message are those before the next.
LEMMA WholeMessage ==
  ASSUME NEW list \in Seq(Msgs), NEW i \in 0 .. Len(list) - 1
  PROVE  BytesUpTo(list, i, list[i + 1].len) = BytesUpTo(list, i + 1, 0)
<1>1. 1 .. i + 1 = (1 .. i) \cup {i + 1}
  OBVIOUS
<1>2. {i + 2} \X (1 .. 0) = {}
  OBVIOUS
<1>3. (i + 1) + 1 = i + 2
  OBVIOUS
<1>4. UNION {{k} \X (1 .. list[k].len) : k \in 1 .. i + 1}
      = (UNION {{k} \X (1 .. list[k].len) : k \in 1 .. i}) \cup ({i + 1} \X (1 .. list[i + 1].len))
  BY <1>1
<1> QED
  BY <1>2, <1>3, <1>4 DEF BytesUpTo

\* A list of no bytes sent so far, and the number of bytes it asks for.
LEMMA BytesCounted ==
  ASSUME NEW list \in Calls
  PROVE  /\ list \in Seq(Msgs) /\ Len(list) \in Nat \ {0} /\ list # NULL
         /\ Bytes(list) \in Nat
         /\ Cardinality(BytesUpTo(list, 0, 0)) = 0
<1>1. list \in Seq(Msgs) /\ list # << >>
  BY CallsAssumption
<1>2. Len(list) \in Nat \ {0}
  BY <1>1
<1>3. Bytes(list) \in Nat
  BY <1>1, <1>2, BytesFinite, MaxLenType DEF Bytes
<1>4. BytesUpTo(list, 0, 0) = {}
  <2>1. 1 .. 0 = {}
    OBVIOUS
  <2> QED
    BY <2>1 DEF BytesUpTo
<1> QED
  BY <1>1, <1>2, <1>3, <1>4, FS_EmptySet, NullAssumption

-----------------------------------------------------------------------------
(* Types.                                                                  *)

\* hal_twi_engine_complete leaves an index or the code of a failure.
LEMMA FinishTypes ==
  ASSUME TypeOK, NEW last \in Nat \cup Codes, NEW code \in Codes \cup {OK},
         Complete(last, code)
  PROVE  /\ msgs' \in Calls \cup {NULL} /\ num' \in Nat /\ ptr' \in Nat
         /\ sem' \in Nat /\ idx' \in Nat \cup Codes
         /\ status' \in {"IDLE", "START", "RUNNING"}
BY DEF TypeOK, FieldTypes, Complete, StatusWhenDone

LEMMA NextTypes ==
  ASSUME TypeOK, NextMessage
  PROVE  /\ msgs' \in Calls \cup {NULL} /\ num' \in Nat /\ ptr' \in Nat
         /\ sem' \in Nat /\ idx' \in Nat \cup Codes
         /\ status' \in {"IDLE", "START", "RUNNING"}
         /\ op' \in Ops /\ stat' \in {stat, BUS_IDLE}
<1>1. idx + 1 \in Nat /\ num \in Nat
  BY DEF TypeOK, FieldTypes, Codes, SLAW_NACK, DATA_NACK, ARB_LOST, SLAR_NACK, RX_NACK, BUS_IDLE,
     NoMsgs, BusErrCode, FAIL
<1>2. CASE idx + 1 = num
  <2>1. Finish(num, OK)
    BY <1>2 DEF NextMessage
  <2> QED
    BY <1>1, <2>1, FinishTypes DEF Finish, Ops
<1>3. CASE Proceed("restart") /\ idx' = idx + 1 /\ ptr' = 0
  BY <1>1, <1>3 DEF Proceed, Ops, TypeOK, FieldTypes
<1>4. CASE Finish(idx + 1, FAIL)
  BY <1>1, <1>4, FinishTypes DEF Finish, Ops, Codes
<1> QED
  BY <1>2, <1>3, <1>4 DEF NextMessage

\* The steps of the handler keep the types.
LEMMA HandlerTypes == ASSUME TypeOK, Handler PROVE FieldTypes'
<1> USE DEF TypeOK, FieldTypes
<1>1. CASE HandleNoMsgs
  BY <1>1, FinishTypes DEF HandleNoMsgs, Handler, Codes, callVars
<1>2. CASE HandleStart \/ HandleAddr2
  BY <1>2 DEF HandleStart, HandleAddr2, Proceed, Handler, callVars, Ops
<1>3. CASE HandleSend
  <2>1. CASE Proceed("data") /\ ptr' = ptr + 1 /\ idx' = idx
    BY <1>3, <2>1 DEF HandleSend, Proceed, Handler, callVars, Ops
  <2>2. CASE NextMessage
    BY <1>3, <2>2, NextTypes DEF HandleSend, Handler, callVars
  <2> QED
    BY <1>3, <2>1, <2>2 DEF HandleSend
<1>4. CASE HandleReadAck
  BY <1>4 DEF HandleReadAck, Proceed, Handler, callVars, Ops
<1>5. CASE HandleReceive
  <2>1. CASE Finish(idx, FAIL) /\ UNCHANGED <<ack, moved>>
    BY <2>1, <1>5, FinishTypes DEF Finish, Handler, callVars, Ops, Codes
  <2>2. CASE /\ ack' = (ack /\ ~ NackNext)
             /\ Proceed("rx")
             /\ ptr' = ptr + 1 /\ idx' = idx /\ moved' = moved + 1
    BY <2>2, <1>5 DEF Proceed, Handler, callVars, Ops
  <2> QED
    BY <1>5, <2>1, <2>2 DEF HandleReceive
<1>6. CASE HandleReceiveLast
  <2>1. CASE NextMessage /\ moved' = moved + 1
    BY <1>6, <2>1, NextTypes DEF HandleReceiveLast, Handler, callVars
  <2>2. CASE Finish(idx, RX_NACK) /\ moved' = moved
    BY <1>6, <2>2, FinishTypes DEF HandleReceiveLast, Finish, Handler, callVars, Ops, Codes
  <2> QED
    BY <1>6, <2>1, <2>2 DEF HandleReceiveLast
<1>7. CASE HandleError
  <2>1. ErrCode(stat) \in Codes
    BY <1>7 DEF HandleError, Failures, ErrCode, Codes
  <2> QED
    BY <1>7, <2>1, FinishTypes DEF HandleError, Finish, Handler, callVars, Ops
<1> QED
  BY <1>1, <1>2, <1>3, <1>4, <1>5, <1>6, <1>7 DEF Handler

\* The steps of the thread and of the bus keep the types.
LEMMA ThreadTypes == ASSUME TypeOK, Thread PROVE FieldTypes'
<1> USE DEF TypeOK, FieldTypes
<1>1. CASE XferBegin
  <2>1. PICK list \in Calls : msgs' = list /\ num' = Len(list) /\ want' = Bytes(list)
    BY <1>1 DEF XferBegin
  <2>2. num' \in Nat /\ want' \in Nat
    BY <2>1, BytesCounted
  <2>3. calls' \in 0 .. MaxCalls
    BY <1>1, MaxCallsAssumption DEF XferBegin
  <2> QED
    BY <1>1, <2>1, <2>2, <2>3 DEF XferBegin, SoftReset, Ops
<1>2. CASE XferBusBusy
  <2>1. calls' \in 0 .. MaxCalls
    BY <1>2, MaxCallsAssumption DEF XferBusBusy
  <2> QED
    BY <1>2, <2>1 DEF XferBusBusy, SoftReset, Return, RETRY, twiVars, Ops
<1>3. CASE XferStarted \/ XferStartFails \/ XferStartAbandon
  BY <1>3 DEF XferStarted, XferStartFails, XferStartAbandon, SoftReset, Return, RETRY,
     twiVars, busVars, history, Ops
<1>4. CASE XferWake \/ XferTimeout
  BY <1>4 DEF XferWake, XferTimeout, TokenThere, twiVars, busVars, history
<1>5. CASE XferReturn \/ XferGiveUp
  BY <1>5 DEF XferReturn, XferGiveUp, Return, OK, FAIL, twiVars, busVars
<1> QED
  BY <1>1, <1>2, <1>3, <1>4, <1>5 DEF Thread

LEMMA BusTypes == ASSUME TypeOK, Bus PROVE FieldTypes'
<1> USE DEF TypeOK, FieldTypes
<1>1. PICK s \in Answers(op) : stat' = s /\ moved' = IF s = DATA_ACK THEN moved + 1 ELSE moved
  BY DEF Bus
<1>2. s \in {START, RESTART, SLAW_ACK, SLAW_NACK, DATA_ACK, DATA_NACK, ARB_LOST, SLAR_ACK,
             SLAR_NACK, RX_ACK, RX_NACK, ADDR2_ACK, ADDR2_NACK, BUS_ERR, BUS_IDLE}
  BY <1>1 DEF Answers
<1> QED
  BY <1>1, <1>2 DEF Bus, twiVars, callVars, Ops

\* The interrupt enable, its flag and the other switches stay Boolean.
LEMMA SwitchStep == ASSUME TypeOK, [Next]_vars PROVE SwitchTypes'
<1> USE DEF TypeOK, SwitchTypes
<1>1. CASE Handler
  <2>1. live' \in BOOLEAN /\ late' \in BOOLEAN
    BY <1>1 DEF Handler
  <2>2. CASE HandleNoMsgs
    BY <2>1, <2>2, Zenon DEF HandleNoMsgs, Complete
  <2>3. CASE HandleStart \/ HandleAddr2
    BY <2>1, <2>3, Zenon DEF HandleStart, HandleAddr2, Proceed
  <2>4. CASE HandleSend
    BY <2>1, <2>4, Zenon DEF HandleSend, NextMessage, Proceed, Finish, Complete
  <2>5. CASE HandleReadAck
    BY <2>1, <2>5, Zenon DEF HandleReadAck, Proceed
  <2>6. CASE HandleReceive
    BY <2>1, <2>6, Zenon DEF HandleReceive, Proceed, Finish, Complete
  <2>7. CASE HandleReceiveLast \/ HandleError
    BY <2>1, <2>7, Zenon
    DEF HandleReceiveLast, HandleError, NextMessage, Proceed, Finish, Complete
  <2> QED
    BY <1>1, <2>2, <2>3, <2>4, <2>5, <2>6, <2>7 DEF Handler
<1>2. CASE XferBegin \/ XferBusBusy \/ XferStarted \/ XferStartFails \/ XferStartAbandon
  BY <1>2, Zenon DEF XferBegin, XferBusBusy, XferStarted, XferStartFails, XferStartAbandon,
     SoftReset, Return, busVars, history
<1>3. CASE XferWake \/ XferTimeout \/ XferReturn \/ XferGiveUp
  BY <1>3, Zenon DEF XferWake, XferTimeout, XferReturn, XferGiveUp, Return, busVars, history
<1>4. CASE Bus \/ UNCHANGED vars
  BY <1>4, Zenon DEF Bus, vars, busVars, history
<1> QED
  BY <1>1, <1>2, <1>3, <1>4 DEF Next, Thread

LEMMA TypeStep == TypeOK /\ [Next]_vars => TypeOK'
<1>1. TypeOK /\ UNCHANGED vars => FieldTypes'
  BY DEF TypeOK, FieldTypes, vars, twiVars, busVars, callVars, history
<1> QED
  BY <1>1, SwitchStep, HandlerTypes, ThreadTypes, BusTypes DEF Next, TypeOK

\* Every variable has its type.
THEOREM TypeCorrect == Spec => []TypeOK
<1>1. Init => TypeOK
  <2>1. Init => SwitchTypes
    BY Zenon DEF Init, SwitchTypes
  <2>2. Init => FieldTypes
    BY MaxCallsAssumption DEF Init, FieldTypes, Ops, OK
  <2> QED
    BY <2>1, <2>2 DEF TypeOK
<1>2. TypeOK /\ [Next]_vars => TypeOK'
  BY TypeStep
<1> QED
  BY <1>1, <1>2, PTL DEF Spec

-----------------------------------------------------------------------------
(* Calls, tokens and the interrupt enable.                                 *)

\* Whatever the handler finds, it either lets the controller go on or
\* completes the transfer.
LEMMA HandlerActs ==
  ASSUME Handler
  PROVE  \/ \E o \in Ops : o # "start" /\ Proceed(o) /\ (o = "data" => ptr' = ptr + 1)
         \/ \E last, code : Finish(last, code)
         \/ HandleNoMsgs
         \/ HandleReadAck /\ flag' = flag /\ UNCHANGED <<op, sem, msgs>> /\ irqEn' = (status # "IDLE")
<1>1. NextMessage => Proceed("restart") \/ \E last, code : Finish(last, code)
  BY DEF NextMessage
<1>2. CASE HandleStart \/ HandleAddr2
  BY <1>2 DEF HandleStart, HandleAddr2, Ops
<1>3. CASE HandleSend
  BY <1>1, <1>3 DEF HandleSend, Ops
<1>4. CASE HandleReadAck
  BY <1>4 DEF HandleReadAck, Ops
<1>5. CASE HandleReceive
  BY <1>5 DEF HandleReceive, Ops
<1>6. CASE HandleReceiveLast
  BY <1>1, <1>6 DEF HandleReceiveLast, Ops
<1>7. CASE HandleError
  BY <1>7 DEF HandleError
<1> QED
  BY <1>2, <1>3, <1>4, <1>5, <1>6, <1>7 DEF Handler

\* The controller does one thing at a time, and a byte it sends was counted.
LEMMA OneAtATimeStep ==
  ASSUME TypeOK, OneAtATime, [Next]_vars PROVE OneAtATime'
<1> USE DEF TypeOK, FieldTypes, OneAtATime
<1>1. CASE Handler
  <2>1. CASE \E o \in Ops : o # "start" /\ Proceed(o) /\ (o = "data" => ptr' = ptr + 1)
    BY <2>1 DEF Proceed
  <2>2. CASE \E last, code : Finish(last, code)
    BY <2>2 DEF Finish
  <2>3. CASE HandleNoMsgs
    BY <2>3 DEF HandleNoMsgs, Complete
  <2>4. CASE HandleReadAck /\ flag' = flag /\ UNCHANGED <<op, sem, msgs>>
    BY <2>4 DEF HandleReadAck
  <2> QED
    BY <1>1, <2>1, <2>2, <2>3, <2>4, HandlerActs
<1>2. CASE XferBegin \/ XferBusBusy \/ XferStartAbandon
  BY <1>2 DEF XferBegin, XferBusBusy, XferStartAbandon, SoftReset
<1>3. CASE XferStarted \/ XferStartFails \/ XferWake \/ XferTimeout \/ XferReturn
  BY <1>3 DEF XferStarted, XferStartFails, XferWake, XferTimeout, XferReturn, twiVars, busVars
<1>4. CASE XferGiveUp
  BY <1>4 DEF XferGiveUp, busVars
<1>5. CASE Bus \/ UNCHANGED vars
  BY <1>5 DEF Bus, vars, twiVars, busVars
<1> QED
  BY <1>1, <1>2, <1>3, <1>4, <1>5 DEF Next, Thread

\* The handler posts a token only as it turns the interrupt off.
LEMMA HandlerOwes ==
  ASSUME TypeOK, OneAtATime, Handler
  PROVE  /\ Owed' <= Owed /\ op' # "start"
         /\ irqEn' \/ Owed' < Owed \/ sem' = sem + 1
<1> USE DEF TypeOK, FieldTypes
<1>1. irqEn /\ op = "none" /\ sem \in Nat
  BY DEF Handler, Interrupt, OneAtATime
<1>2. Owed = sem + 1
  BY <1>1 DEF Owed
<1>3. ASSUME sem' = sem PROVE Owed' <= sem + 1 /\ (irqEn' \/ Owed' < sem + 1)
  BY <1>1, <1>3 DEF Owed
<1>4. ASSUME sem' = sem + 1, ~ irqEn' PROVE Owed' <= sem + 1
  BY <1>1, <1>4 DEF Owed
<1>5. ASSUME NEW last, NEW code, Complete(last, code) PROVE sem' = sem + 1 /\ ~ irqEn'
  <2>1. sem' = sem + 1
    BY <1>5 DEF Complete
  <2>2. irqEn' = FALSE
    BY <1>5, Zenon DEF Complete, StatusWhenDone
  <2> QED
    BY <2>1, <2>2
<1>6. CASE \E o \in Ops : o # "start" /\ Proceed(o)
  BY <1>2, <1>3, <1>6 DEF Proceed
<1>7. CASE \E last, code : Finish(last, code)
  BY <1>2, <1>4, <1>5, <1>7 DEF Finish
<1>8. CASE HandleNoMsgs
  BY <1>1, <1>2, <1>4, <1>5, <1>8 DEF HandleNoMsgs
<1>9. CASE UNCHANGED <<op, sem, msgs>>
  BY <1>1, <1>2, <1>3, <1>9
<1> QED
  BY <1>6, <1>7, <1>8, <1>9, HandlerActs

\* What a call can leave behind is bounded, whether or not calls time out and
\* however often a START is given up.
LEMMA OwedStep ==
  ASSUME TypeOK, OneAtATime, OwedPerCall, [Next]_vars PROVE OwedPerCall'
<1> USE DEF TypeOK, FieldTypes, OwedPerCall, InCall
<1>0. overrun \in Nat /\ sem \in Nat /\ Owed \in Nat /\ Owed' \in Nat
  BY TypeStep DEF Owed
<1>1. CASE Handler
  <2>1. UNCHANGED <<pc, late, live>> /\ irqEn
    BY <1>1 DEF Handler, Interrupt, callVars
  <2>2. overrun' = IF pc = "startFailed" /\ sem' > sem THEN overrun + 1 ELSE overrun
    BY <1>1 DEF Handler
  <2>3. CASE pc = "startFailed"
    <3>1. Owed <= 2 + overrun /\ (~ late /\ overrun = 0 => Owed <= 1)
      BY <2>1, <2>3
    <3>2. CASE irqEn' \/ Owed' < Owed
      BY <1>0, <1>1, <2>1, <2>2, <2>3, <3>1, <3>2, HandlerOwes
    <3>3. CASE sem' = sem + 1
      <4>1. overrun' = overrun + 1
        BY <1>0, <2>2, <2>3, <3>3
      <4> QED
        BY <1>0, <1>1, <2>1, <2>3, <3>1, <4>1, HandlerOwes
    <3> QED
      BY <1>1, <3>2, <3>3, HandlerOwes
  <2>4. CASE pc # "startFailed"
    BY <1>0, <1>1, <2>1, <2>2, <2>4, HandlerOwes
  <2> QED
    BY <2>3, <2>4
<1>2. CASE XferBegin
  <2>1. /\ pc = "out" /\ pc' = "starting" /\ irqEn' = TRUE /\ live' = TRUE
        /\ UNCHANGED <<sem, late, overrun>>
    BY <1>2 DEF XferBegin, ThreadAt
  <2>2. Owed' = sem + 1 /\ sem <= Owed
    BY <1>0, <2>1 DEF Owed
  <2>3. Owed <= 1 + overrun /\ (~ late /\ overrun = 0 => Owed <= 0)
    BY <2>1
  <2> QED
    BY <1>0, <2>1, <2>2, <2>3
<1>3. CASE XferBusBusy
  <2>1. UNCHANGED <<sem, irqEn, pc, late, overrun>> /\ pc = "out" /\ live' = FALSE
    BY <1>3 DEF XferBusBusy, ThreadAt, Return, twiVars
  <2> QED
    BY <2>1 DEF Owed
<1>4. CASE XferStarted
  <2>1. UNCHANGED <<sem, irqEn, live, late, overrun>> /\ pc = "starting" /\ pc' = "waiting"
    BY <1>4 DEF XferStarted, ThreadAt, busVars, history
  <2> QED
    BY <2>1 DEF Owed
<1>5. CASE XferStartFails
  <2>1. /\ pc = "starting" /\ op = "start" /\ pc' = "startFailed"
        /\ UNCHANGED <<sem, irqEn, op, live, late, overrun>>
    BY <1>5 DEF XferStartFails, ThreadAt, twiVars, busVars, history
  <2> QED
    BY <2>1 DEF Owed
<1>6. CASE XferStartAbandon
  <2>1. /\ pc = "startFailed" /\ pc' = "out" /\ live' = FALSE /\ irqEn' = FALSE
        /\ UNCHANGED <<sem, late, overrun>>
    BY <1>6 DEF XferStartAbandon, ThreadAt, Return, twiVars
  <2>2. Owed' = sem /\ Owed = IF irqEn THEN sem + 1 ELSE sem
    BY <2>1 DEF Owed
  <2> QED
    BY <1>0, <2>1, <2>2
<1>7. CASE XferWake
  <2>1. pc = "waiting" /\ pc' = "woken" /\ UNCHANGED <<irqEn, live, late, overrun, op>>
        /\ sem > 0 /\ sem' = sem - 1
    BY <1>7 DEF XferWake, ThreadAt, TokenThere, busVars, history
  <2>2. Owed' = Owed - 1
    BY <1>0, <2>1 DEF Owed
  <2> QED
    BY <1>0, <2>1, <2>2
<1>8. CASE XferTimeout
  <2>1. /\ pc = "waiting" /\ pc' = "timedout" /\ sem = 0 /\ late' = TRUE
        /\ UNCHANGED <<sem, irqEn, op, live, overrun>>
    BY <1>8 DEF XferTimeout, ThreadAt, twiVars, busVars
  <2> QED
    BY <1>0, <2>1 DEF Owed
<1>9. CASE XferReturn \/ XferGiveUp
  <2>1. pc \in {"woken", "timedout"} /\ pc' = "out" /\ live' = FALSE
        /\ UNCHANGED <<sem, irqEn, late, overrun, op>>
    BY <1>9 DEF XferReturn, XferGiveUp, ThreadAt, Return, twiVars, busVars
  <2> QED
    BY <2>1 DEF Owed
<1>10. CASE Bus
  <2>1. UNCHANGED <<sem, irqEn, pc, live, late, overrun>> /\ op' = "none"
    BY <1>10 DEF Bus, twiVars, callVars
  <2> QED
    BY <2>1 DEF Owed
<1>11. CASE UNCHANGED vars
  BY <1>11 DEF vars, twiVars, busVars, callVars, history, Owed
<1> QED
  BY <1>1, <1>2, <1>3, <1>4, <1>5, <1>6, <1>7, <1>8, <1>9, <1>10, <1>11 DEF Next, Thread

\* StepInv is an inductive invariant of the transfer.
LEMMA StepInductive == Spec => []StepInv
<1>1. Init => OneAtATime /\ OwedPerCall
  BY DEF Init, OneAtATime, OwedPerCall, InCall, Owed
<1>2. TypeOK /\ OneAtATime /\ OwedPerCall /\ [Next]_vars => (OneAtATime /\ OwedPerCall)'
  BY OneAtATimeStep, OwedStep
<1> QED
  BY <1>1, <1>2, TypeCorrect, PTL DEF Spec, StepInv

\* Calls and completions stay in step until a call times out or the handler
\* completes a transfer whose START was given up; after that one surplus token,
\* and one more for each such START, waits between calls at most.
THEOREM CallsInStep == Spec => []InStep
<1>1. StepInv => InStep
  <2> SUFFICES ASSUME StepInv PROVE InStep
    OBVIOUS
  <2>1. /\ sem \in Nat /\ overrun \in Nat
        /\ Owed \in {sem, sem + 1} /\ (irqEn => Owed = sem + 1)
    BY DEF StepInv, TypeOK, FieldTypes, Owed
  <2>2. /\ Owed <= 2 + overrun /\ (pc = "out" => Owed <= 1 + overrun)
        /\ pc = "out" /\ ~ late /\ overrun = 0 => Owed <= 0
    BY <2>1 DEF StepInv, OwedPerCall, InCall
  <2>3. pc = "out" /\ ~ late /\ overrun = 0 => sem = 0 /\ Owed # sem + 1
    BY <2>1, <2>2
  <2>4. sem <= 2 + overrun /\ (pc = "out" => sem <= 1 + overrun)
    BY <2>1, <2>2
  <2> QED
    BY <2>1, <2>3, <2>4 DEF InStep
<1> QED
  BY <1>1, StepInductive, PTL

\* The handler never works in the frame of a caller that has returned, unless
\* some call has timed out or the handler has completed a transfer whose START
\* was given up.
THEOREM FramesAlive == Spec => []NoDeadFrame
<1>1. StepInv => NoDeadFrame
  <2> SUFFICES ASSUME StepInv, Interrupt, ~ late, ~ (overrun > 0) PROVE live
    BY DEF NoDeadFrame
  <2>1. Owed = sem + 1 /\ sem \in Nat /\ overrun = 0
    BY DEF Interrupt, StepInv, TypeOK, FieldTypes, Owed
  <2> QED
    BY <2>1 DEF StepInv, OwedPerCall, InCall
<1> QED
  BY <1>1, StepInductive, PTL

-----------------------------------------------------------------------------
(* Success means that every byte crossed the bus.                          *)

\* While there are messages the handler is at one of them.
LEMMA AtMessage ==
  ASSUME TypeOK, InMessage, msgs # NULL
  PROVE  /\ msgs \in Seq(Msgs) /\ msgs \in Calls /\ num = Len(msgs) /\ num \in Nat
         /\ idx \in 0 .. Len(msgs) - 1 /\ idx \in 0 .. Len(msgs) /\ idx + 1 \in 0 .. Len(msgs)
         /\ msg.len \in 0 .. MaxLen /\ ptr \in 0 .. msg.len /\ ptr \in 0 .. MaxLen
         /\ moved \in Nat
<1>1. msgs \in Calls /\ msgs \in Seq(Msgs) /\ num = Len(msgs) /\ num \in Nat
      /\ ptr \in Nat /\ moved \in Nat
  BY BytesCounted DEF TypeOK, FieldTypes, InMessage
<1>2. idx \in 0 .. Len(msgs) - 1 /\ ptr <= msg.len
  BY <1>1 DEF InMessage
<1>3. msg \in Msgs
  BY <1>1, <1>2 DEF msg
<1>4. msg.len \in 0 .. MaxLen
  BY <1>3 DEF Msgs
<1> QED
  BY <1>1, <1>2, <1>4, MaxLenType

\* The bytes of the messages before the one the handler is at, and of it up
\* to its byte p.
Crossed(p) == Cardinality(BytesUpTo(msgs, idx, p))

\* A step that leaves the handler where it is, over bytes that have crossed.
LEMMA SameMessage ==
  ASSUME InMessage, msgs # NULL, UNCHANGED <<msgs, num, want, idx>>, ptr' <= msg.len,
         Broken' \/ moved' = Crossed(BytesCrossed')
  PROVE  InMessage'
BY DEF InMessage, msg, Crossed

\* A step that changes nothing InMessage reads but whether the transfer broke.
LEMMA MessageUntouched ==
  ASSUME InMessage, UNCHANGED <<msgs, num, want, idx, ptr, moved>>,
         UNCHANGED <<op, flag, stat>> \/ (op' = "none" /\ flag' = FALSE)
  PROVE  InMessage'
<1>1. CASE UNCHANGED <<op, flag, stat>>
  BY <1>1 DEF InMessage, Broken, BytesCrossed, msg
<1>2. CASE op' = "none" /\ flag' = FALSE
  BY <1>2 DEF InMessage, Broken, msg
<1> QED
  BY <1>1, <1>2

\* A message's index, counted from zero, is an index of the list.
LEMMA NextIndex ==
  ASSUME NEW n \in Nat, NEW i \in 0 .. n - 1
  PROVE  i + 1 \in 1 .. n
OBVIOUS

\* The end of a message whose bytes have all crossed.
LEMMA NextKeeps ==
  ASSUME TypeOK, InMessage, msgs # NULL, NextMessage, want' = want,
         moved' = Crossed(msg.len), num \notin Codes
  PROVE  /\ InMessage'
         /\ idx' = num' => op' = "none" /\ ~ flag' /\ moved' = want'
<1>1. moved' = Cardinality(BytesUpTo(msgs, idx + 1, 0))
  BY AtMessage, WholeMessage DEF Crossed, msg
<1>2. CASE idx + 1 = num /\ Finish(num, OK)
  <2>1. moved' = want
    BY <1>1, <1>2, AtMessage DEF InMessage, Bytes
  <2>2. msgs' = NULL /\ op' = "none" /\ flag' = FALSE
    BY <1>2 DEF Finish, Complete
  <2> QED
    BY <2>1, <2>2 DEF InMessage
<1>3. CASE idx + 1 # num /\ Proceed("restart") /\ idx' = idx + 1 /\ ptr' = 0
  <2>1. UNCHANGED <<msgs, num>> /\ op' = "restart"
    BY <1>3 DEF Proceed
  <2>2. idx' \in 0 .. num - 1
    BY <1>3, AtMessage
  <2>3. msgs[idx' + 1] \in Msgs
    <3>1. msgs \in Seq(Msgs) /\ num = Len(msgs)
      BY AtMessage
    <3>2. num \in Nat
      BY AtMessage
    <3>3. idx' + 1 \in 1 .. num
      BY <2>2, <3>2, NextIndex
    <3> QED
      BY <3>1, <3>3
  <2>4. 0 <= msgs[idx' + 1].len
    BY <2>3 DEF Msgs
  <2>5. InMessage'
    BY <1>1, <1>3, <2>1, <2>2, <2>4 DEF InMessage, BytesCrossed, msg
  <2>6. idx' # num'
    BY <2>1, <2>2, AtMessage
  <2> QED
    BY <2>5, <2>6
<1>4. CASE Finish(idx + 1, FAIL)
  <2>1. msgs' = NULL /\ idx' = FAIL /\ num' = num
    BY <1>4 DEF Finish, Complete, FAIL, OK
  <2> QED
    BY <2>1 DEF InMessage, Codes
<1> QED
  BY <1>2, <1>3, <1>4 DEF NextMessage

\* A transfer that fails leaves a code that is no index.
LEMMA FailureKeeps ==
  ASSUME num \notin Codes, NEW last, NEW code \in Codes, Complete(last, code)
  PROVE  InMessage' /\ idx' # num'
<1>1. code # OK
  BY DEF Codes, OK, SLAW_NACK, DATA_NACK, ARB_LOST, SLAR_NACK, RX_NACK, BUS_IDLE,
     NoMsgs, BusErrCode, FAIL
<1>2. msgs' = NULL /\ idx' = code /\ num' = num
  BY <1>1 DEF Complete
<1> QED
  BY <1>2 DEF InMessage

\* The bus moves the byte on its way, or breaks the transfer.
LEMMA BusKeeps ==
  ASSUME TypeOK, OneAtATime, InMessage, Bus PROVE InMessage'
<1>1. PICK s \in Answers(op) : stat' = s /\ moved' = IF s = DATA_ACK THEN moved + 1 ELSE moved
  BY DEF Bus
<1>2. op # "none" /\ op' = "none" /\ flag' = TRUE /\ UNCHANGED <<msgs, num, want, idx, ptr>>
  BY <1>1 DEF Bus, Answers, twiVars
<1>3. SUFFICES ASSUME msgs # NULL PROVE InMessage'
  BY <1>2 DEF InMessage
<1>4. moved = Crossed(BytesCrossed) /\ ptr <= msg.len
  BY <1>2, <1>3 DEF InMessage, Broken, Crossed
<1>5. BytesCrossed' = ptr
  BY <1>2 DEF BytesCrossed
<1>6. CASE op = "data"
  <2>1. ptr - 1 \in 0 .. MaxLen - 1 /\ (ptr - 1) + 1 = ptr /\ BytesCrossed = ptr - 1
    BY <1>3, <1>6, AtMessage, MaxLenType DEF OneAtATime, BytesCrossed
  <2>2. Crossed(ptr) = Crossed(ptr - 1) + 1
    BY <1>3, <2>1, AtMessage, NextByte DEF Crossed
  <2>3. CASE s = DATA_ACK
    <3>1. moved' = Crossed(BytesCrossed')
      BY <1>1, <1>4, <1>5, <2>1, <2>2, <2>3
    <3> QED
      BY <1>2, <1>3, <1>4, <3>1, SameMessage
  <2>4. CASE s # DATA_ACK
    <3>1. s \in Failures
      BY <1>1, <1>6, <2>4 DEF Answers, Failures
    <3>2. Broken'
      BY <1>1, <1>2, <3>1 DEF Broken
    <3> QED
      BY <1>2, <1>3, <1>4, <3>2, SameMessage
  <2> QED
    BY <2>3, <2>4
<1>7. CASE op # "data"
  <2>1. s # DATA_ACK
    BY <1>1, <1>7 DEF Answers, DATA_ACK, START, RESTART, SLAW_ACK, SLAW_NACK, ARB_LOST,
       BUS_ERR, SLAR_ACK, SLAR_NACK, ADDR2_ACK, ADDR2_NACK, RX_ACK, RX_NACK
  <2>2. moved' = Crossed(BytesCrossed')
    BY <1>1, <1>4, <1>5, <1>7, <2>1 DEF BytesCrossed
  <2> QED
    BY <1>2, <1>3, <1>4, <2>2, SameMessage
<1> QED
  BY <1>6, <1>7

\* The handler counts every byte it hands over or takes.
LEMMA HandlerKeeps ==
  ASSUME TypeOK, OneAtATime, InMessage, num \notin Codes, Handler
  PROVE  /\ InMessage'
         /\ idx' = num' => op' = "none" /\ ~ flag' /\ moved' = want'
<1>1. flag /\ op = "none" /\ want' = want
  BY DEF Handler, Interrupt, OneAtATime
<1>2. CASE HandleNoMsgs
  <2>1. NoMsgs \in Codes
    BY DEF Codes
  <2> QED
    BY <1>2, <2>1, FailureKeeps DEF HandleNoMsgs
<1>3. SUFFICES ASSUME msgs # NULL,
                      \/ HandleStart \/ HandleAddr2 \/ HandleSend \/ HandleReadAck
                      \/ HandleReceive \/ HandleReceiveLast \/ HandleError
               PROVE  /\ InMessage'
                      /\ idx' = num' => op' = "none" /\ ~ flag' /\ moved' = want'
  BY <1>2 DEF Handler
<1>4. idx # num /\ ptr \in 0 .. msg.len /\ msg.len \in 0 .. MaxLen
  BY <1>3, AtMessage
<1>5. ASSUME stat \notin Failures PROVE moved = Crossed(ptr)
  BY <1>1, <1>3, <1>5 DEF InMessage, Broken, BytesCrossed, Crossed
<1> DEFINE Good == {START, RESTART, SLAW_ACK, ADDR2_ACK, DATA_ACK, SLAR_ACK, RX_ACK, RX_NACK}
<1>6. Good \cap Failures = {}
  BY DEF Failures, START, RESTART, SLAW_ACK, ADDR2_ACK, DATA_ACK, SLAR_ACK, RX_ACK, RX_NACK,
     SLAW_NACK, ADDR2_NACK, DATA_NACK, ARB_LOST, SLAR_NACK, BUS_ERR, BUS_IDLE
<1>7. ASSUME NEW o, Proceed(o), UNCHANGED <<idx, moved>>, stat \in Good,
             ptr' = IF o = "data" THEN ptr + 1 ELSE ptr, ptr' <= msg.len
      PROVE  InMessage' /\ idx' # num'
  <2>1. UNCHANGED <<msgs, num, stat>> /\ op' = o
    BY <1>7 DEF Proceed
  <2>2. moved' = Crossed(BytesCrossed')
    BY <1>4, <1>5, <1>6, <1>7, <2>1 DEF BytesCrossed
  <2> QED
    BY <1>1, <1>3, <1>4, <1>7, <2>1, <2>2, SameMessage
<1>8. CASE HandleStart \/ HandleAddr2
  <2>1. PICK o \in {"addrR", "addrW", "addr2"} : Proceed(o) /\ UNCHANGED <<idx, ptr, moved>>
    BY <1>8 DEF HandleStart, HandleAddr2
  <2>2. stat \in Good
    BY <1>8 DEF HandleStart, HandleAddr2
  <2> QED
    BY <1>4, <1>7, <2>1, <2>2
<1>9. CASE HandleSend
  <2>1. stat \in Good
    BY <1>9 DEF HandleSend
  <2>2. CASE ptr < msg.len
    <3>1. Proceed("data") /\ ptr' = ptr + 1 /\ UNCHANGED <<idx, moved>>
      BY <1>9, <2>2 DEF HandleSend
    <3>2. ptr' <= msg.len
      BY <1>4, <2>2, <3>1
    <3> QED
      BY <1>7, <2>1, <3>1, <3>2
  <2>3. CASE ~ (ptr < msg.len)
    <3>1. NextMessage /\ moved' = moved
      BY <1>9, <2>3 DEF HandleSend
    <3>2. ptr = msg.len
      BY <1>4, <2>3
    <3>3. moved' = Crossed(msg.len)
      BY <1>5, <1>6, <2>1, <3>1, <3>2
    <3> QED
      BY <1>1, <1>3, <3>1, <3>3, NextKeeps
  <2> QED
    BY <2>2, <2>3
<1>10. CASE HandleReadAck
  <2>1. stat \in Good /\ UNCHANGED <<idx, ptr, moved>>
    BY <1>10 DEF HandleReadAck
  <2>2. CASE Proceed("rx")
    BY <1>4, <1>7, <2>1, <2>2
  <2>3. CASE UNCHANGED <<flag, op, stat, status, msgs, num, sem>>
    BY <1>1, <1>4, <2>1, <2>3, MessageUntouched
  <2> QED
    BY <1>10, <2>2, <2>3 DEF HandleReadAck
<1>11. CASE HandleReceive
  <2>1. stat \in Good
    BY <1>11 DEF HandleReceive
  <2>2. CASE ptr < msg.len
    <3>1. Proceed("rx") /\ ptr' = ptr + 1 /\ idx' = idx /\ moved' = moved + 1
      BY <1>11, <2>2 DEF HandleReceive
    <3>2. ptr \in 0 .. MaxLen - 1 /\ ptr' <= msg.len
      BY <1>4, <2>2, <3>1, MaxLenType
    <3>3. Crossed(ptr + 1) = Crossed(ptr) + 1
      BY <1>3, <3>2, AtMessage, NextByte DEF Crossed
    <3>4. UNCHANGED <<msgs, num>> /\ op' = "rx"
      BY <3>1 DEF Proceed
    <3>5. moved' = Crossed(BytesCrossed')
      BY <1>5, <1>6, <2>1, <3>1, <3>3, <3>4 DEF BytesCrossed
    <3> QED
      BY <1>1, <1>3, <1>4, <3>1, <3>2, <3>4, <3>5, SameMessage
  <2>3. CASE ~ (ptr < msg.len)
    <3>1. Complete(idx, FAIL)
      BY <1>11, <2>3 DEF HandleReceive, Finish
    <3> QED
      BY <3>1, FailureKeeps DEF Codes
  <2> QED
    BY <2>2, <2>3
<1>12. CASE HandleReceiveLast
  <2>1. stat \in Good
    BY <1>12 DEF HandleReceiveLast
  <2>2. CASE ptr = msg.len - 1
    <3>1. NextMessage /\ moved' = moved + 1
      BY <1>12, <2>2 DEF HandleReceiveLast
    <3>2. ptr \in 0 .. MaxLen - 1 /\ ptr + 1 = msg.len
      BY <1>4, <2>2, MaxLenType
    <3>3. moved' = Crossed(msg.len)
      BY <1>3, <1>5, <1>6, <2>1, <3>1, <3>2, AtMessage, NextByte DEF Crossed
    <3> QED
      BY <1>1, <1>3, <3>1, <3>3, NextKeeps
  <2>3. CASE ptr # msg.len - 1
    <3>1. Complete(idx, RX_NACK)
      BY <1>12, <2>3 DEF HandleReceiveLast, Finish
    <3> QED
      BY <3>1, FailureKeeps DEF Codes
  <2> QED
    BY <2>2, <2>3
<1>13. CASE HandleError
  <2>1. ErrCode(stat) \in Codes /\ Complete(idx, ErrCode(stat))
    BY <1>13 DEF HandleError, Finish, Failures, ErrCode, Codes
  <2> QED
    BY <2>1, FailureKeeps
<1> QED
  BY <1>3, <1>8, <1>9, <1>10, <1>11, <1>12, <1>13

\* A call begins at the first message, with no byte crossed.
LEMMA BeginKeeps ==
  ASSUME TypeOK, XferBegin PROVE InMessage' /\ idx' # num'
<1>1. PICK list \in Calls : msgs' = list /\ num' = Len(list) /\ want' = Bytes(list)
  BY DEF XferBegin
<1>2. idx' = 0 /\ ptr' = 0 /\ moved' = 0 /\ op' = "start"
  BY DEF XferBegin
<1>3. /\ list \in Seq(Msgs) /\ Len(list) \in Nat \ {0}
      /\ Cardinality(BytesUpTo(list, 0, 0)) = 0
  BY BytesCounted
<1>4. list[1] \in Msgs
  BY <1>3
<1>5. 0 <= list[1].len
  BY <1>4 DEF Msgs
<1> QED
  BY <1>1, <1>2, <1>3, <1>5 DEF InMessage, BytesCrossed, msg

\* The number of messages never looks like the code of a failure.
LEMMA NumStep ==
  ASSUME \A list \in Calls : Len(list) \notin Codes, num \notin Codes, [Next]_vars
  PROVE  num' \notin Codes
<1>1. CASE Handler
  <2>1. num' = num
    BY <1>1 DEF Handler, HandleNoMsgs, HandleStart, HandleAddr2, HandleSend, HandleReadAck,
       HandleReceive, HandleReceiveLast, HandleError, NextMessage, Finish, Complete, Proceed
  <2> QED
    BY <2>1
<1>2. CASE XferBegin
  BY <1>2 DEF XferBegin
<1>3. CASE Bus \/ (Thread /\ ~ XferBegin) \/ UNCHANGED vars
  BY <1>3 DEF Bus, Thread, XferBusBusy, XferStarted, XferStartFails, XferStartAbandon, XferWake,
     XferTimeout, XferReturn, XferGiveUp, vars, twiVars
<1> QED
  BY <1>1, <1>2, <1>3 DEF Next

\* Every step keeps the account of the bytes, and a call says that it
\* succeeded only when it is closed.
LEMMA DoneStep ==
  ASSUME TypeOK, OneAtATime, InMessage, AllCrossed, num \notin Codes, [Next]_vars
  PROVE  InMessage' /\ AllCrossed'
<1> USE DEF AllCrossed
<1>1. CASE Handler
  <2>1. idx # num /\ UNCHANGED <<pc, ret>>
    BY <1>1 DEF Handler, Interrupt, callVars
  <2> QED
    BY <1>1, <2>1, HandlerKeeps
<1>2. CASE Bus
  <2>1. op # "none" /\ UNCHANGED <<pc, ret, idx, num>>
    BY <1>2 DEF Bus, Answers, callVars, twiVars
  <2> QED
    BY <1>2, <2>1, BusKeeps
<1>3. CASE XferBegin
  <2>1. pc' = "starting"
    BY <1>3 DEF XferBegin
  <2> QED
    BY <1>3, <2>1, BeginKeeps
<1>4. CASE XferBusBusy \/ XferStartAbandon
  <2>1. /\ UNCHANGED <<msgs, num, want, idx, ptr, moved>> /\ op' = "none" /\ flag' = FALSE
        /\ ret' # OK
    BY <1>4 DEF XferBusBusy, XferStartAbandon, SoftReset, Return, twiVars, OK, RETRY
  <2>2. InMessage'
    BY <2>1, MessageUntouched
  <2> QED
    BY <2>1, <2>2
<1>5. CASE XferStarted \/ XferStartFails \/ XferWake \/ XferTimeout
  <2>1. UNCHANGED <<msgs, num, want, idx, ptr, moved, op, flag, stat>> /\ pc' # "out"
    BY <1>5 DEF XferStarted, XferStartFails, XferWake, XferTimeout, twiVars, busVars, history
  <2> QED
    BY <2>1, MessageUntouched
<1>6. CASE XferReturn
  <2>1. /\ UNCHANGED <<msgs, num, want, idx, ptr, moved, op, flag, stat>>
        /\ ret' = IF idx = num THEN OK ELSE FAIL
    BY <1>6 DEF XferReturn, Return, Succeeded, twiVars, busVars
  <2> QED
    BY <2>1, MessageUntouched DEF OK, FAIL
<1>7. CASE XferGiveUp
  <2>1. msgs' = NULL /\ ret' = FAIL /\ UNCHANGED <<num, want, idx, moved, op, flag>>
    BY <1>7 DEF XferGiveUp, Return, busVars
  <2> QED
    BY <2>1 DEF InMessage, OK, FAIL
<1>8. CASE UNCHANGED vars
  <2>1. UNCHANGED <<msgs, num, want, idx, ptr, moved, op, flag, stat, pc, ret>>
    BY <1>8 DEF vars, twiVars, busVars, callVars, history
  <2> QED
    BY <2>1, MessageUntouched
<1> QED
  BY <1>1, <1>2, <1>3, <1>4, <1>5, <1>6, <1>7, <1>8 DEF Next, Thread

\* IInv is an inductive invariant of the transfer and its handler. The
\* hypothesis is on the callers: msgs_idx holds either an index or the code of
\* a failure, so a list as long as one of the codes would make that failure a
\* success. The callers in the repository pass one message or two.
THEOREM TwiInvariant ==
  ASSUME \A list \in Calls : Len(list) \notin Codes
  PROVE  Spec => []IInv
<1> DEFINE Inv == num \notin Codes /\ InMessage /\ AllCrossed
<1>1. Init => Inv
  BY DEF Init, InMessage, AllCrossed, Codes, SLAW_NACK, DATA_NACK, ARB_LOST, SLAR_NACK,
     RX_NACK, BUS_IDLE, NoMsgs, BusErrCode, FAIL, OK
<1>2. StepInv /\ Inv /\ [Next]_vars => Inv'
  BY NumStep, DoneStep DEF StepInv
<1>3. StepInv /\ Inv => IInv
  BY DEF StepInv, IInv, DoneInv
<1> HIDE DEF Inv
<1> QED
  BY <1>1, <1>2, <1>3, StepInductive, PTL DEF Spec

\* A call that returns OK moved every byte it was asked to, whatever tokens
\* the calls before it left (OkMeansDone).
THEOREM SuccessIsDone ==
  ASSUME \A list \in Calls : Len(list) \notin Codes
  PROVE  Spec => []OkMeansDone
<1>1. IInv => OkMeansDone
  BY DEF IInv, DoneInv, AllCrossed, OkMeansDone
<1> QED
  BY <1>1, TwiInvariant, PTL

-----------------------------------------------------------------------------
(* The UART.                                                               *)

USE DEF controller, ownerHistory, txHistory, tasksElse, bytesHistory, driver, isrElse,
        lineElse, uartVars

\* What the handler, the line, receivers and senders leave alone.
LEMMA IsrFrame ==
  ASSUME Isr PROVE UNCHANGED <<isrElse, wired, modem, forced, hold, div, ier>>
<1>1. CASE IsrEnter \/ IsrStatus \/ IsrMore
  BY <1>1 DEF IsrEnter, IsrStatus, IsrMore
<1>2. CASE IsrBusy \/ IsrIgnore \/ IsrRead
  BY <1>2 DEF IsrBusy, IsrIgnore, IsrRead, ReadRbr
<1>3. CASE IsrSend
  BY <1>3 DEF IsrSend
<1> QED
  BY <1>1, <1>2, <1>3 DEF Isr

LEMMA LineFrame ==
  ASSUME Line PROVE UNCHANGED <<lineElse, wired, busy, forced, dlab, hold, loop, div, ier>>
<1>1. CASE FromPeer \/ Transmit
  BY <1>1 DEF FromPeer, Transmit, Arrive
<1>2. CASE CharTimeout \/ ModemChange
  BY <1>2 DEF CharTimeout, ModemChange
<1> QED
  BY <1>1, <1>2 DEF Line

LEMMA BoxFrame == ASSUME ByteTypes, Isr PROVE box'.st = box.st
<1>1. CASE IsrEnter \/ IsrStatus \/ IsrMore
  BY <1>1 DEF IsrEnter, IsrStatus, IsrMore
<1>2. CASE IsrBusy \/ IsrIgnore \/ IsrRead
  BY <1>2 DEF IsrBusy, IsrIgnore, IsrRead
<1>3. CASE IsrSend
  <2>1. box' = [box EXCEPT !.q = Append(@, isr.hand)] \/ box' = box
    BY <1>3 DEF IsrSend
  <2> QED
    BY <2>1 DEF ByteTypes
<1> QED
  BY <1>1, <1>2, <1>3 DEF Isr

Receivers == (\E how \in {"wait", "timed"} : ReceiveBegin(how)) \/ Receive \/ ReceiveTimeout

LEMMA ReceiversFrame ==
  ASSUME Receivers
  PROVE  UNCHANGED <<controller, irq, claimed, owner, ownerCalls, sender, isr, ownerHistory,
                     came, lost, txHistory, box.st>>
<1>1. ASSUME NEW how \in {"wait", "timed"}, ReceiveBegin(how)
      PROVE  UNCHANGED <<controller, irq, claimed, owner, ownerCalls, sender, isr,
                         ownerHistory, came, lost, txHistory, box.st>>
  BY <1>1 DEF ReceiveBegin
<1>2. CASE Receive
  BY <1>2 DEF Receive
<1>3. CASE ReceiveTimeout
  BY <1>3 DEF ReceiveTimeout
<1> QED
  BY <1>1, <1>2, <1>3 DEF Receivers

LEMMA SendFrame ==
  ASSUME NEW s \in Senders, SendBegin(s) \/ SendPoll(s) \/ SendWrite(s)
  PROVE  UNCHANGED <<wired, fifo, ghost, modem, busy, forced, dlab, hold, loop, ier, irq, claimed,
                     box, owner, ownerCalls, reader, isr, ownerHistory, bytesHistory>>
BY DEF SendBegin, SendPoll, SendWrite

-----------------------------------------------------------------------------
(* Sequences of bytes.                                                     *)

LEMMA InSeqEmpty == InSeq(<<>>) = {}
BY DEF InSeq

LEMMA InSeqAppend ==
  ASSUME NEW S, NEW s \in Seq(S), NEW x \in S
  PROVE  /\ Append(s, x) \in Seq(S) /\ Append(s, x) # <<>>
         /\ Len(Append(s, x)) = Len(s) + 1
         /\ InSeq(Append(s, x)) = InSeq(s) \cup {x}
<1>1. /\ Append(s, x) \in Seq(S) /\ Append(s, x) # <<>>
      /\ Len(Append(s, x)) = Len(s) + 1
  BY AppendProperties
<1>2. ASSUME NEW i \in 1 .. Len(s) + 1
      PROVE  Append(s, x)[i] = IF i <= Len(s) THEN s[i] ELSE x
  BY AppendProperties
<1> QED
  BY <1>1, <1>2 DEF InSeq

LEMMA OneMore ==
  \A S : \A s \in Seq(S), x \in S : InSeq(Append(s, x)) = InSeq(s) \cup {x}
BY InSeqAppend

LEMMA InSeqTail ==
  ASSUME NEW S, NEW s \in Seq(S), s # <<>>
  PROVE  /\ Head(s) \in S /\ Tail(s) \in Seq(S) /\ Len(Tail(s)) = Len(s) - 1
         /\ InSeq(s) = InSeq(Tail(s)) \cup {Head(s)}
<1>1. Head(s) \in S /\ Tail(s) \in Seq(S) /\ Len(Tail(s)) = Len(s) - 1 /\ Head(s) = s[1]
  BY HeadTailProperties
<1>2. Len(s) \in Nat \ {0}
  BY EmptySeq, LenProperties
<1>3. \A i \in 1 .. Len(s) - 1 : Tail(s)[i] = s[i + 1]
  BY <1>1, HeadTailProperties
<1>4. \A i \in 2 .. Len(s) : i - 1 \in 1 .. Len(s) - 1 /\ Tail(s)[i - 1] = s[i]
  BY <1>2, <1>3
<1>5. InSeq(s) \subseteq InSeq(Tail(s)) \cup {Head(s)}
  <2> SUFFICES ASSUME NEW i \in 1 .. Len(s), i # 1 PROVE s[i] \in InSeq(Tail(s))
    BY <1>1 DEF InSeq
  <2>1. i \in 2 .. Len(s)
    BY <1>2
  <2> QED
    BY <2>1, <1>1, <1>4 DEF InSeq
<1>6. InSeq(Tail(s)) \subseteq InSeq(s)
  <2> SUFFICES ASSUME NEW i \in 1 .. Len(s) - 1 PROVE Tail(s)[i] \in InSeq(s)
    BY <1>1 DEF InSeq
  <2>1. i + 1 \in 1 .. Len(s) /\ Tail(s)[i] = s[i + 1]
    BY <1>2, <1>3
  <2> QED
    BY <2>1 DEF InSeq
<1>7. Head(s) \in InSeq(s)
  BY <1>1, <1>2 DEF InSeq
<1> QED
  BY <1>1, <1>5, <1>6, <1>7

LEMMA InSeqType ==
  ASSUME NEW S, NEW s \in Seq(S) PROVE InSeq(s) \subseteq S
BY DEF InSeq

LEMMA RisingEmpty == Rising(<<>>)
BY DEF Rising

LEMMA RisingAppend ==
  ASSUME NEW s \in Seq(Nat), NEW x \in Nat, Rising(s),
         x # Junk => Before(InSeq(s) \ {Junk}, {x})
  PROVE  Rising(Append(s, x))
<1> DEFINE t == Append(s, x)
<1>1. Len(t) = Len(s) + 1 /\ Len(s) \in Nat
  BY AppendProperties, LenProperties
<1>2. ASSUME NEW i \in 1 .. Len(s) + 1
      PROVE  t[i] = IF i <= Len(s) THEN s[i] ELSE x
  BY AppendProperties
<1> HIDE DEF t
<1>3. ASSUME NEW i \in 1 .. Len(t), NEW j \in 1 .. Len(t), i < j, Junk \notin {t[i], t[j]}
      PROVE  t[i] < t[j]
  <2>1. i \in 1 .. Len(s) /\ t[i] = s[i]
    BY <1>1, <1>2, <1>3
  <2>2. CASE j <= Len(s)
    <3>1. j \in 1 .. Len(s) /\ t[j] = s[j]
      BY <1>1, <1>2, <2>2
    <3> QED
      BY <1>3, <2>1, <3>1 DEF Rising
  <2>3. CASE ~ (j <= Len(s))
    <3>1. t[j] = x
      BY <1>1, <1>2, <2>3
    <3>2. s[i] \in InSeq(s) \ {Junk}
      BY <1>3, <2>1 DEF InSeq
    <3> QED
      BY <1>3, <2>1, <3>1, <3>2 DEF Before
  <2> QED
    BY <2>2, <2>3
<1>4. Rising(t)
  BY <1>3 DEF Rising
<1> QED
  BY <1>4 DEF t

LEMMA RisingTail ==
  ASSUME NEW s \in Seq(Nat), s # <<>>, Rising(s)
  PROVE  /\ Rising(Tail(s))
         /\ Head(s) # Junk => Before({Head(s)}, InSeq(Tail(s)) \ {Junk})
<1>1. Len(s) \in Nat \ {0} /\ Len(Tail(s)) = Len(s) - 1 /\ Head(s) = s[1]
  BY EmptySeq, LenProperties, HeadTailProperties
<1>2. ASSUME NEW i \in 1 .. Len(Tail(s))
      PROVE  i + 1 \in 1 .. Len(s) /\ Tail(s)[i] = s[i + 1]
  BY <1>1, HeadTailProperties
<1>3. ASSUME NEW i \in 1 .. Len(Tail(s)), NEW j \in 1 .. Len(Tail(s)), i < j,
             Junk \notin {Tail(s)[i], Tail(s)[j]}
      PROVE  Tail(s)[i] < Tail(s)[j]
  <2>1. i + 1 < j + 1
    BY <1>3
  <2> QED
    BY <1>2, <1>3, <2>1 DEF Rising
<1>4. ASSUME NEW y \in InSeq(Tail(s)) \ {Junk}, Head(s) # Junk PROVE Head(s) < y
  <2>1. PICK i \in 1 .. Len(Tail(s)) : y = Tail(s)[i]
    BY DEF InSeq
  <2>2. 1 \in 1 .. Len(s) /\ i + 1 \in 1 .. Len(s) /\ 1 < i + 1 /\ y = s[i + 1]
    BY <1>1, <1>2, <2>1
  <2> QED
    BY <1>1, <1>4, <2>2 DEF Rising
<1> QED
  BY <1>3, <1>4 DEF Rising, Before

\* What is lost stays lost.
LEMMA LoseGone ==
  ASSUME ByteTypes, NEW bytes \in SUBSET (0 .. MaxBytes), NEW why \in Reasons,
         Lose(bytes, why)
  PROVE  /\ lost' \in [Reasons -> SUBSET (1 .. MaxBytes)]
         /\ Gone' = Gone \cup (bytes \ {Junk})
<1>1. \A r \in Reasons : lost'[r] = IF r = why THEN lost[r] \cup (bytes \ {Junk}) ELSE lost[r]
  BY DEF Lose, ByteTypes
<1>2. bytes \ {Junk} \subseteq 1 .. MaxBytes
  BY UartAssumption DEF Junk
<1>3. lost' \in [Reasons -> SUBSET (1 .. MaxBytes)]
  BY <1>2 DEF Lose, ByteTypes
<1>4. Gone' = Gone \cup (bytes \ {Junk})
  BY <1>1 DEF Gone
<1> QED
  BY <1>3, <1>4

-----------------------------------------------------------------------------
(* Types.                                                                  *)
LEMMA PortFlagsStep ==
  ASSUME PortFlags, [UartNext]_uartVars
  PROVE  PortFlags'
<1>1. CASE InitBegin
  BY <1>1 DEF InitBegin, Begin, Runs, PortFlags
<1>2. CASE DeinitBegin
  BY <1>2 DEF DeinitBegin, Begin, Runs, PortFlags
<1>3. CASE Standby
  BY <1>3 DEF Standby, Begin, Runs, ResetController, Lose, PortFlags
<1>4. ASSUME NEW rate \in Rates, ControlBegin(rate) PROVE PortFlags'
  BY <1>4 DEF ControlBegin, Begin, Runs, PortFlags
<1>5. ASSUME NEW on \in BOOLEAN, SwitchRx(on) PROVE PortFlags'
  BY <1>5 DEF SwitchRx, Begin, Runs, PortFlags
<1>6. ASSUME NEW on \in BOOLEAN, FlowControl(on) PROVE PortFlags'
  BY <1>6 DEF FlowControl, Begin, Runs, PortFlags
<1>7. ASSUME NEW on \in BOOLEAN, SetLoopback(on) PROVE PortFlags'
  BY <1>7 DEF SetLoopback, Begin, Runs, PortFlags
<1>8. CASE Connect
  BY <1>8 DEF Connect, Step, Runs, PortFlags
<1>9. CASE Format
  BY <1>9 DEF Format, Step, Runs, LcrTaken, PortFlags
<1>10. CASE Reset
  BY <1>10 DEF Reset, Step, Runs, ResetController, Lose, PortFlags
<1>11. CASE Halt
  BY <1>11 DEF Halt, Step, Runs, ForcedWhenHalted, PortFlags
<1>12. CASE SetDlab
  BY <1>12 DEF SetDlab, Step, Runs, LcrTaken, PortFlags
<1>13. CASE WriteDivisor
  BY <1>13 DEF WriteDivisor, Step, Runs, PortFlags
<1>14. CASE ClearDlab
  BY <1>14 DEF ClearDlab, Step, Runs, PortFlags
<1>15. CASE Release
  BY <1>15 DEF Release, Step, OwnerReturn, OwnerIdle, Runs, PortFlags
<1>16. CASE Claim
  BY <1>16 DEF Claim, Step, OwnerReturn, OwnerIdle, Runs, PortFlags
<1>17. CASE Enable
  BY <1>17 DEF Enable, Step, Runs, PortFlags
<1>18. CASE Create
  BY <1>18 DEF Create, Step, OwnerReturn, OwnerIdle, Runs, Lose, NoBox, PortFlags
<1>19. CASE EnableRdi
  BY <1>19 DEF EnableRdi, OwnerReturn, OwnerIdle, Runs, PortFlags
<1>20. CASE Off
  BY <1>20 DEF Off, Step, Runs, PortFlags
<1>21. CASE Mask
  BY <1>21 DEF Mask, Step, Runs, IrqAfterMask, PortFlags
<1>22. CASE Delete
  BY <1>22 DEF Delete, OwnerReturn, OwnerIdle, Runs, Lose, ClaimedAfterDelete, PortFlags
<1>23. CASE IsrEnter
  BY <1>23 DEF IsrEnter, UartInterrupt, IsrIdle, PortFlags
<1>24. CASE IsrStatus
  BY <1>24 DEF IsrStatus, IsrIdle, PortFlags
<1>25. CASE IsrBusy
  BY <1>25 DEF IsrBusy, BusyAfterUsr, IsrIdle, Lose, PortFlags
<1>26. CASE IsrIgnore
  BY <1>26 DEF IsrIgnore, ReadRbr, Popped, ReadValue, IsrIdle, Lose, PortFlags
<1>27. CASE IsrRead
  BY <1>27 DEF IsrRead, ReadRbr, Popped, ReadValue, PortFlags
<1>28. CASE IsrSend
  BY <1>28 DEF IsrSend, SpaceInBox, Lose, PortFlags
<1>29. CASE IsrMore
  BY <1>29 DEF IsrMore, MoreToRead, IsrIdle, PortFlags
<1>30. CASE FromPeer
  BY <1>30 DEF FromPeer, Arrive, Lose, PortFlags
<1>31. CASE Transmit
  BY <1>31 DEF Transmit, Arrive, Lose, PortFlags
<1>32. CASE CharTimeout
  BY <1>32 DEF CharTimeout, PortFlags
<1>33. CASE ModemChange
  BY <1>33 DEF ModemChange, PortFlags
<1>34. CASE Receivers
  BY <1>34, ReceiversFrame DEF PortFlags
<1>35. ASSUME NEW s \in Senders, SendBegin(s) \/ SendPoll(s) \/ SendWrite(s) PROVE
   PortFlags'
  BY <1>35, SendFrame DEF PortFlags
<1>36. CASE UNCHANGED uartVars
  BY <1>36 DEF PortFlags
<1> QED
  BY <1>1, <1>2, <1>3, <1>4, <1>5, <1>6, <1>7, <1>8, <1>9, <1>10, <1>11, <1>12, <1>13,
     <1>14, <1>15, <1>16, <1>17, <1>18, <1>19, <1>20, <1>21, <1>22, <1>23, <1>24, <1>25,
     <1>26, <1>27, <1>28, <1>29, <1>30, <1>31, <1>32, <1>33, <1>34, <1>35, <1>36 DEF
     UartNext, Task, OwnerCall, OwnerStep, Isr, Line, Receivers

LEMMA HistoryFlagsStep ==
  ASSUME HistoryFlags, [UartNext]_uartVars
  PROVE  HistoryFlags'
<1>1. CASE InitBegin
  BY <1>1 DEF InitBegin, Begin, Runs, HistoryFlags
<1>2. CASE DeinitBegin
  BY <1>2 DEF DeinitBegin, Begin, Runs, HistoryFlags
<1>3. CASE Standby
  BY <1>3 DEF Standby, Begin, Runs, ResetController, Lose, HistoryFlags
<1>4. ASSUME NEW rate \in Rates, ControlBegin(rate) PROVE HistoryFlags'
  BY <1>4 DEF ControlBegin, Begin, Runs, HistoryFlags
<1>5. ASSUME NEW on \in BOOLEAN, SwitchRx(on) PROVE HistoryFlags'
  BY <1>5 DEF SwitchRx, Begin, Runs, HistoryFlags
<1>6. ASSUME NEW on \in BOOLEAN, FlowControl(on) PROVE HistoryFlags'
  BY <1>6 DEF FlowControl, Begin, Runs, HistoryFlags
<1>7. ASSUME NEW on \in BOOLEAN, SetLoopback(on) PROVE HistoryFlags'
  BY <1>7 DEF SetLoopback, Begin, Runs, HistoryFlags
<1>8. CASE Connect
  BY <1>8 DEF Connect, Step, Runs, HistoryFlags
<1>9. CASE Format
  BY <1>9 DEF Format, Step, Runs, LcrTaken, HistoryFlags
<1>10. CASE Reset
  BY <1>10 DEF Reset, Step, Runs, ResetController, Lose, HistoryFlags
<1>11. CASE Halt
  BY <1>11 DEF Halt, Step, Runs, ForcedWhenHalted, HistoryFlags
<1>12. CASE SetDlab
  BY <1>12 DEF SetDlab, Step, Runs, LcrTaken, HistoryFlags
<1>13. CASE WriteDivisor
  BY <1>13 DEF WriteDivisor, Step, Runs, HistoryFlags
<1>14. CASE ClearDlab
  BY <1>14 DEF ClearDlab, Step, Runs, HistoryFlags
<1>15. CASE Release
  BY <1>15 DEF Release, Step, OwnerReturn, OwnerIdle, Runs, HistoryFlags
<1>16. CASE Claim
  BY <1>16 DEF Claim, Step, OwnerReturn, OwnerIdle, Runs, HistoryFlags
<1>17. CASE Enable
  BY <1>17 DEF Enable, Step, Runs, HistoryFlags
<1>18. CASE Create
  BY <1>18 DEF Create, Step, OwnerReturn, OwnerIdle, Runs, Lose, NoBox, HistoryFlags
<1>19. CASE EnableRdi
  BY <1>19 DEF EnableRdi, OwnerReturn, OwnerIdle, Runs, HistoryFlags
<1>20. CASE Off
  BY <1>20 DEF Off, Step, Runs, HistoryFlags
<1>21. CASE Mask
  BY <1>21 DEF Mask, Step, Runs, IrqAfterMask, HistoryFlags
<1>22. CASE Delete
  BY <1>22 DEF Delete, OwnerReturn, OwnerIdle, Runs, Lose, ClaimedAfterDelete, HistoryFlags
<1>23. CASE Isr
  BY <1>23, IsrFrame DEF HistoryFlags
<1>24. CASE Line
  BY <1>24, LineFrame DEF HistoryFlags
<1>25. CASE Receivers
  BY <1>25, ReceiversFrame DEF HistoryFlags
<1>26. ASSUME NEW s \in Senders, SendBegin(s) \/ SendPoll(s) \/ SendWrite(s) PROVE
   HistoryFlags'
  BY <1>26, SendFrame DEF HistoryFlags
<1>27. CASE UNCHANGED uartVars
  BY <1>27 DEF HistoryFlags
<1> QED
  BY <1>1, <1>2, <1>3, <1>4, <1>5, <1>6, <1>7, <1>8, <1>9, <1>10, <1>11, <1>12, <1>13,
     <1>14, <1>15, <1>16, <1>17, <1>18, <1>19, <1>20, <1>21, <1>22, <1>23, <1>24, <1>25,
     <1>26, <1>27 DEF UartNext, Task, OwnerCall, OwnerStep, Receivers

LEMMA ByteFlagsStep ==
  ASSUME ByteFlags, [UartNext]_uartVars
  PROVE  ByteFlags'
<1>1. CASE InitBegin
  BY <1>1 DEF InitBegin, Begin, Runs, ByteFlags
<1>2. CASE DeinitBegin
  BY <1>2 DEF DeinitBegin, Begin, Runs, ByteFlags
<1>3. CASE Standby
  BY <1>3 DEF Standby, Begin, Runs, ResetController, Lose, ByteFlags
<1>4. ASSUME NEW rate \in Rates, ControlBegin(rate) PROVE ByteFlags'
  BY <1>4 DEF ControlBegin, Begin, Runs, ByteFlags
<1>5. ASSUME NEW on \in BOOLEAN, SwitchRx(on) PROVE ByteFlags'
  BY <1>5 DEF SwitchRx, Begin, Runs, ByteFlags
<1>6. ASSUME NEW on \in BOOLEAN, FlowControl(on) PROVE ByteFlags'
  BY <1>6 DEF FlowControl, Begin, Runs, ByteFlags
<1>7. ASSUME NEW on \in BOOLEAN, SetLoopback(on) PROVE ByteFlags'
  BY <1>7 DEF SetLoopback, Begin, Runs, ByteFlags
<1>8. CASE Connect
  BY <1>8 DEF Connect, Step, Runs, ByteFlags
<1>9. CASE Format
  BY <1>9 DEF Format, Step, Runs, LcrTaken, ByteFlags
<1>10. CASE Reset
  BY <1>10 DEF Reset, Step, Runs, ResetController, Lose, ByteFlags
<1>11. CASE Halt
  BY <1>11 DEF Halt, Step, Runs, ForcedWhenHalted, ByteFlags
<1>12. CASE SetDlab
  BY <1>12 DEF SetDlab, Step, Runs, LcrTaken, ByteFlags
<1>13. CASE WriteDivisor
  BY <1>13 DEF WriteDivisor, Step, Runs, ByteFlags
<1>14. CASE ClearDlab
  BY <1>14 DEF ClearDlab, Step, Runs, ByteFlags
<1>15. CASE Release
  BY <1>15 DEF Release, Step, OwnerReturn, OwnerIdle, Runs, ByteFlags
<1>16. CASE Claim
  BY <1>16 DEF Claim, Step, OwnerReturn, OwnerIdle, Runs, ByteFlags
<1>17. CASE Enable
  BY <1>17 DEF Enable, Step, Runs, ByteFlags
<1>18. CASE Create
  BY <1>18 DEF Create, Step, OwnerReturn, OwnerIdle, Runs, Lose, NoBox, ByteFlags
<1>19. CASE EnableRdi
  BY <1>19 DEF EnableRdi, OwnerReturn, OwnerIdle, Runs, ByteFlags
<1>20. CASE Off
  BY <1>20 DEF Off, Step, Runs, ByteFlags
<1>21. CASE Mask
  BY <1>21 DEF Mask, Step, Runs, IrqAfterMask, ByteFlags
<1>22. CASE Delete
  BY <1>22 DEF Delete, OwnerReturn, OwnerIdle, Runs, Lose, ClaimedAfterDelete, ByteFlags
<1>23. ASSUME NEW how \in {"wait", "timed"}, ReceiveBegin(how) PROVE ByteFlags'
  BY <1>23 DEF ReceiveBegin, Runs, ByteFlags
<1>24. CASE Receive
  BY <1>24 DEF Receive, Runs, ByteFlags
<1>25. CASE ReceiveTimeout
  BY <1>25 DEF ReceiveTimeout, Runs, ByteFlags
<1>26. ASSUME NEW s \in Senders, SendBegin(s) PROVE ByteFlags'
  BY <1>26 DEF SendBegin, Runs, ByteFlags
<1>27. ASSUME NEW s \in Senders, SendPoll(s) PROVE ByteFlags'
  BY <1>27 DEF SendPoll, Runs, RoomSeen, ByteFlags
<1>28. ASSUME NEW s \in Senders, SendWrite(s) PROVE ByteFlags'
  BY <1>28 DEF SendWrite, Runs, ByteFlags
<1>29. CASE Isr
  BY <1>29, IsrFrame DEF ByteFlags
<1>30. CASE Line
  BY <1>30, LineFrame DEF ByteFlags
<1>31. CASE UNCHANGED uartVars
  BY <1>31 DEF ByteFlags
<1> QED
  BY <1>1, <1>2, <1>3, <1>4, <1>5, <1>6, <1>7, <1>8, <1>9, <1>10, <1>11, <1>12, <1>13,
     <1>14, <1>15, <1>16, <1>17, <1>18, <1>19, <1>20, <1>21, <1>22, <1>23, <1>24, <1>25,
     <1>26, <1>27, <1>28, <1>29, <1>30, <1>31 DEF UartNext, Task, OwnerCall, OwnerStep

-----------------------------------------------------------------------------
(* The calls of the owner, one action after the other.                     *)

\* No step skips one of the call it belongs to.
LEMMA CallStep ==
  ASSUME OwnerTypes, CallInv, PortInv, [UartNext]_uartVars
  PROVE  CallInv'
<1>1. CASE InitBegin
  BY <1>1 DEF InitBegin, Begin, Runs, OwnerTypes, CallInv, PortInv
<1>2. CASE DeinitBegin
  BY <1>2 DEF DeinitBegin, Begin, Runs, OwnerTypes, CallInv, PortInv
<1>3. CASE Standby
  BY <1>3 DEF Standby, Begin, Runs, ResetController, Lose, OwnerTypes, CallInv, PortInv
<1>4. ASSUME NEW rate \in Rates, ControlBegin(rate) PROVE CallInv'
  BY <1>4 DEF ControlBegin, Begin, Runs, OwnerTypes, CallInv, PortInv
<1>5. ASSUME NEW on \in BOOLEAN, SwitchRx(on) PROVE CallInv'
  BY <1>5 DEF SwitchRx, Begin, Runs, OwnerTypes, CallInv, PortInv
<1>6. ASSUME NEW on \in BOOLEAN, FlowControl(on) PROVE CallInv'
  BY <1>6 DEF FlowControl, Begin, Runs, OwnerTypes, CallInv, PortInv
<1>7. ASSUME NEW on \in BOOLEAN, SetLoopback(on) PROVE CallInv'
  BY <1>7 DEF SetLoopback, Begin, Runs, OwnerTypes, CallInv, PortInv
<1>8. CASE Connect
  BY <1>8 DEF Connect, Step, Runs, OwnerTypes, CallInv, PortInv
<1>9. CASE Format
  BY <1>9 DEF Format, Step, Runs, LcrTaken, OwnerTypes, CallInv, PortInv
<1>10. CASE Reset
  BY <1>10 DEF Reset, Step, Runs, ResetController, Lose, OwnerTypes, CallInv, PortInv
<1>11. CASE Halt
  BY <1>11 DEF Halt, Step, Runs, ForcedWhenHalted, OwnerTypes, CallInv, PortInv
<1>12. CASE SetDlab
  BY <1>12 DEF SetDlab, Step, Runs, LcrTaken, OwnerTypes, CallInv, PortInv
<1>13. CASE WriteDivisor
  BY <1>13 DEF WriteDivisor, Step, Runs, OwnerTypes, CallInv, PortInv
<1>14. CASE ClearDlab
  BY <1>14 DEF ClearDlab, Step, Runs, OwnerTypes, CallInv, PortInv
<1>15. CASE Release
  BY <1>15 DEF Release, Step, OwnerReturn, OwnerIdle, Runs, OwnerTypes, CallInv, PortInv
<1>16. CASE Claim
  BY <1>16 DEF Claim, Step, OwnerReturn, OwnerIdle, Runs, OwnerTypes, CallInv, PortInv
<1>17. CASE Enable
  BY <1>17 DEF Enable, Step, Runs, OwnerTypes, CallInv, PortInv
<1>18. CASE Create
  BY <1>18 DEF Create, Step, OwnerReturn, OwnerIdle, Runs, Lose, NoBox, OwnerTypes, CallInv,
     PortInv
<1>19. CASE EnableRdi
  BY <1>19 DEF EnableRdi, OwnerReturn, OwnerIdle, Runs, OwnerTypes, CallInv, PortInv
<1>20. CASE Off
  BY <1>20 DEF Off, Step, Runs, OwnerTypes, CallInv, PortInv
<1>21. CASE Mask
  BY <1>21 DEF Mask, Step, Runs, IrqAfterMask, OwnerTypes, CallInv, PortInv
<1>22. CASE Delete
  BY <1>22 DEF Delete, OwnerReturn, OwnerIdle, Runs, Lose, ClaimedAfterDelete, OwnerTypes,
     CallInv, PortInv
<1>23. CASE Isr
  BY <1>23, IsrFrame DEF CallInv
<1>24. CASE Line
  BY <1>24, LineFrame DEF CallInv
<1>25. CASE Receivers
  BY <1>25, ReceiversFrame DEF CallInv
<1>26. ASSUME NEW s \in Senders, SendBegin(s) \/ SendPoll(s) \/ SendWrite(s) PROVE
   CallInv'
  BY <1>26, SendFrame DEF CallInv
<1>27. CASE UNCHANGED uartVars
  BY <1>27 DEF CallInv
<1> QED
  BY <1>1, <1>2, <1>3, <1>4, <1>5, <1>6, <1>7, <1>8, <1>9, <1>10, <1>11, <1>12, <1>13,
     <1>14, <1>15, <1>16, <1>17, <1>18, <1>19, <1>20, <1>21, <1>22, <1>23, <1>24, <1>25,
     <1>26, <1>27 DEF UartNext, Task, OwnerCall, OwnerStep, Receivers

\* FORCECFG is on before DLAB is written, and DLAB off before the call goes on.
LEMMA WindowStep ==
  ASSUME OwnerTypes, TaskTypes, CallInv, WindowInv, BusyInv, IsrInv, [UartNext]_uartVars
  PROVE  WindowInv'
<1>1. CASE InitBegin
  BY <1>1 DEF InitBegin, Begin, Runs, OwnerTypes, TaskTypes, CallInv, WindowInv, BusyInv,
     IsrInv, InWindow, LateInit
<1>2. CASE DeinitBegin
  BY <1>2 DEF DeinitBegin, Begin, Runs, OwnerTypes, TaskTypes, CallInv, WindowInv, BusyInv,
     IsrInv, InWindow, LateInit
<1>3. CASE Standby
  BY <1>3 DEF Standby, Begin, Runs, ResetController, Lose, OwnerTypes, TaskTypes, CallInv,
     WindowInv, BusyInv, IsrInv, InWindow, LateInit
<1>4. ASSUME NEW rate \in Rates, ControlBegin(rate) PROVE WindowInv'
  BY <1>4 DEF ControlBegin, Begin, Runs, OwnerTypes, TaskTypes, CallInv, WindowInv,
     BusyInv, IsrInv, InWindow, LateInit
<1>5. ASSUME NEW on \in BOOLEAN, SwitchRx(on) PROVE WindowInv'
  BY <1>5 DEF SwitchRx, Begin, Runs, OwnerTypes, TaskTypes, CallInv, WindowInv, BusyInv,
     IsrInv, InWindow, LateInit
<1>6. ASSUME NEW on \in BOOLEAN, FlowControl(on) PROVE WindowInv'
  BY <1>6 DEF FlowControl, Begin, Runs, OwnerTypes, TaskTypes, CallInv, WindowInv, BusyInv,
     IsrInv, InWindow, LateInit
<1>7. ASSUME NEW on \in BOOLEAN, SetLoopback(on) PROVE WindowInv'
  BY <1>7 DEF SetLoopback, Begin, Runs, OwnerTypes, TaskTypes, CallInv, WindowInv, BusyInv,
     IsrInv, InWindow, LateInit
<1>8. CASE Connect
  BY <1>8 DEF Connect, Step, Runs, OwnerTypes, TaskTypes, CallInv, WindowInv, BusyInv,
     IsrInv, InWindow, LateInit
<1>9. CASE Format
  BY <1>9 DEF Format, Step, Runs, LcrTaken, OwnerTypes, TaskTypes, CallInv, WindowInv,
     BusyInv, IsrInv, InWindow, LateInit
<1>10. CASE Reset
  BY <1>10 DEF Reset, Step, Runs, ResetController, Lose, OwnerTypes, TaskTypes, CallInv,
     WindowInv, BusyInv, IsrInv, InWindow, LateInit
<1>11. CASE Halt
  BY <1>11 DEF Halt, Step, Runs, ForcedWhenHalted, OwnerTypes, TaskTypes, CallInv,
     WindowInv, BusyInv, IsrInv, InWindow, LateInit
<1>12. CASE SetDlab
  BY <1>12 DEF SetDlab, Step, Runs, LcrTaken, OwnerTypes, TaskTypes, CallInv, WindowInv,
     BusyInv, IsrInv, InWindow, LateInit
<1>13. CASE WriteDivisor
  BY <1>13 DEF WriteDivisor, Step, Runs, OwnerTypes, TaskTypes, CallInv, WindowInv, BusyInv,
     IsrInv, InWindow, LateInit
<1>14. CASE ClearDlab
  BY <1>14 DEF ClearDlab, Step, Runs, OwnerTypes, TaskTypes, CallInv, WindowInv, BusyInv,
     IsrInv, InWindow, LateInit
<1>15. CASE Release
  BY <1>15 DEF Release, Step, OwnerReturn, OwnerIdle, Runs, OwnerTypes, TaskTypes, CallInv,
     WindowInv, BusyInv, IsrInv, InWindow, LateInit
<1>16. CASE Claim
  BY <1>16 DEF Claim, Step, OwnerReturn, OwnerIdle, Runs, OwnerTypes, TaskTypes, CallInv,
     WindowInv, BusyInv, IsrInv, InWindow, LateInit
<1>17. CASE Enable
  BY <1>17 DEF Enable, Step, Runs, OwnerTypes, TaskTypes, CallInv, WindowInv, BusyInv,
     IsrInv, InWindow, LateInit
<1>18. CASE Create
  BY <1>18 DEF Create, Step, OwnerReturn, OwnerIdle, Runs, Lose, NoBox, OwnerTypes,
     TaskTypes, CallInv, WindowInv, BusyInv, IsrInv, InWindow, LateInit
<1>19. CASE EnableRdi
  BY <1>19 DEF EnableRdi, OwnerReturn, OwnerIdle, Runs, OwnerTypes, TaskTypes, CallInv,
     WindowInv, BusyInv, IsrInv, InWindow, LateInit
<1>20. CASE Off
  BY <1>20 DEF Off, Step, Runs, OwnerTypes, TaskTypes, CallInv, WindowInv, BusyInv, IsrInv,
     InWindow, LateInit
<1>21. CASE Mask
  BY <1>21 DEF Mask, Step, Runs, IrqAfterMask, OwnerTypes, TaskTypes, CallInv, WindowInv,
     BusyInv, IsrInv, InWindow, LateInit
<1>22. CASE Delete
  BY <1>22 DEF Delete, OwnerReturn, OwnerIdle, Runs, Lose, ClaimedAfterDelete, OwnerTypes,
     TaskTypes, CallInv, WindowInv, BusyInv, IsrInv, InWindow, LateInit
<1>23. CASE IsrEnter
  BY <1>23 DEF IsrEnter, UartInterrupt, IsrIdle, OwnerTypes, TaskTypes, CallInv, WindowInv,
     BusyInv, IsrInv, InWindow, LateInit
<1>24. CASE IsrStatus
  BY <1>24 DEF IsrStatus, IsrIdle, OwnerTypes, TaskTypes, CallInv, WindowInv, BusyInv,
     IsrInv, InWindow, LateInit
<1>25. CASE IsrBusy
  BY <1>25 DEF IsrBusy, BusyAfterUsr, IsrIdle, Lose, OwnerTypes, TaskTypes, CallInv,
     WindowInv, BusyInv, IsrInv, InWindow, LateInit
<1>26. CASE IsrIgnore
  BY <1>26 DEF IsrIgnore, ReadRbr, Popped, ReadValue, IsrIdle, Lose, OwnerTypes, TaskTypes,
     CallInv, WindowInv, BusyInv, IsrInv, InWindow, LateInit
<1>27. CASE IsrRead
  BY <1>27 DEF IsrRead, ReadRbr, Popped, ReadValue, OwnerTypes, TaskTypes, CallInv,
     WindowInv, BusyInv, IsrInv, InWindow, LateInit
<1>28. CASE IsrSend
  BY <1>28 DEF IsrSend, SpaceInBox, Lose, OwnerTypes, TaskTypes, CallInv, WindowInv,
     BusyInv, IsrInv, InWindow, LateInit
<1>29. CASE IsrMore
  BY <1>29 DEF IsrMore, MoreToRead, IsrIdle, OwnerTypes, TaskTypes, CallInv, WindowInv,
     BusyInv, IsrInv, InWindow, LateInit
<1>30. CASE Line
  BY <1>30, LineFrame DEF WindowInv, InWindow, LateInit
<1>31. CASE Receivers
  BY <1>31, ReceiversFrame DEF WindowInv, InWindow, LateInit
<1>32. ASSUME NEW s \in Senders, SendBegin(s) \/ SendPoll(s) \/ SendWrite(s) PROVE
   WindowInv'
  BY <1>32, SendFrame DEF WindowInv, InWindow, LateInit
<1>33. CASE UNCHANGED uartVars
  BY <1>33 DEF WindowInv, InWindow, LateInit
<1> QED
  BY <1>1, <1>2, <1>3, <1>4, <1>5, <1>6, <1>7, <1>8, <1>9, <1>10, <1>11, <1>12, <1>13,
     <1>14, <1>15, <1>16, <1>17, <1>18, <1>19, <1>20, <1>21, <1>22, <1>23, <1>24, <1>25,
     <1>26, <1>27, <1>28, <1>29, <1>30, <1>31, <1>32, <1>33 DEF UartNext, Task,
     OwnerCall, OwnerStep, Isr, Receivers

\* LCR is written where a refusal interrupts nobody, or at once.
LEMMA BusyStep ==
  ASSUME OwnerTypes, TaskTypes, CallInv, WindowInv, BusyInv, PortInv, IsrInv,
         [UartNext]_uartVars
  PROVE  BusyInv'
<1>1. CASE InitBegin
  BY <1>1 DEF InitBegin, Begin, Runs, OwnerTypes, TaskTypes, CallInv, WindowInv, BusyInv,
     PortInv, IsrInv, InWindow, LateInit
<1>2. CASE DeinitBegin
  BY <1>2 DEF DeinitBegin, Begin, Runs, OwnerTypes, TaskTypes, CallInv, WindowInv, BusyInv,
     PortInv, IsrInv, InWindow, LateInit
<1>3. CASE Standby
  BY <1>3 DEF Standby, Begin, Runs, ResetController, Lose, OwnerTypes, TaskTypes, CallInv,
     WindowInv, BusyInv, PortInv, IsrInv, InWindow, LateInit
<1>4. ASSUME NEW rate \in Rates, ControlBegin(rate) PROVE BusyInv'
  BY <1>4 DEF ControlBegin, Begin, Runs, OwnerTypes, TaskTypes, CallInv, WindowInv,
     BusyInv, PortInv, IsrInv, InWindow, LateInit
<1>5. ASSUME NEW on \in BOOLEAN, SwitchRx(on) PROVE BusyInv'
  BY <1>5 DEF SwitchRx, Begin, Runs, OwnerTypes, TaskTypes, CallInv, WindowInv, BusyInv,
     PortInv, IsrInv, InWindow, LateInit
<1>6. ASSUME NEW on \in BOOLEAN, FlowControl(on) PROVE BusyInv'
  BY <1>6 DEF FlowControl, Begin, Runs, OwnerTypes, TaskTypes, CallInv, WindowInv, BusyInv,
     PortInv, IsrInv, InWindow, LateInit
<1>7. ASSUME NEW on \in BOOLEAN, SetLoopback(on) PROVE BusyInv'
  BY <1>7 DEF SetLoopback, Begin, Runs, OwnerTypes, TaskTypes, CallInv, WindowInv, BusyInv,
     PortInv, IsrInv, InWindow, LateInit
<1>8. CASE Connect
  BY <1>8 DEF Connect, Step, Runs, OwnerTypes, TaskTypes, CallInv, WindowInv, BusyInv,
     PortInv, IsrInv, InWindow, LateInit
<1>9. CASE Format
  BY <1>9 DEF Format, Step, Runs, LcrTaken, OwnerTypes, TaskTypes, CallInv, WindowInv,
     BusyInv, PortInv, IsrInv, InWindow, LateInit
<1>10. CASE Reset
  BY <1>10 DEF Reset, Step, Runs, ResetController, Lose, OwnerTypes, TaskTypes, CallInv,
     WindowInv, BusyInv, PortInv, IsrInv, InWindow, LateInit
<1>11. CASE Halt
  BY <1>11 DEF Halt, Step, Runs, ForcedWhenHalted, OwnerTypes, TaskTypes, CallInv,
     WindowInv, BusyInv, PortInv, IsrInv, InWindow, LateInit
<1>12. CASE SetDlab
  BY <1>12 DEF SetDlab, Step, Runs, LcrTaken, OwnerTypes, TaskTypes, CallInv, WindowInv,
     BusyInv, PortInv, IsrInv, InWindow, LateInit
<1>13. CASE WriteDivisor
  BY <1>13 DEF WriteDivisor, Step, Runs, OwnerTypes, TaskTypes, CallInv, WindowInv, BusyInv,
     PortInv, IsrInv, InWindow, LateInit
<1>14. CASE ClearDlab
  BY <1>14 DEF ClearDlab, Step, Runs, OwnerTypes, TaskTypes, CallInv, WindowInv, BusyInv,
     PortInv, IsrInv, InWindow, LateInit
<1>15. CASE Release
  BY <1>15 DEF Release, Step, OwnerReturn, OwnerIdle, Runs, OwnerTypes, TaskTypes, CallInv,
     WindowInv, BusyInv, PortInv, IsrInv, InWindow, LateInit
<1>16. CASE Claim
  BY <1>16 DEF Claim, Step, OwnerReturn, OwnerIdle, Runs, OwnerTypes, TaskTypes, CallInv,
     WindowInv, BusyInv, PortInv, IsrInv, InWindow, LateInit
<1>17. CASE Enable
  BY <1>17 DEF Enable, Step, Runs, OwnerTypes, TaskTypes, CallInv, WindowInv, BusyInv,
     PortInv, IsrInv, InWindow, LateInit
<1>18. CASE Create
  BY <1>18 DEF Create, Step, OwnerReturn, OwnerIdle, Runs, Lose, NoBox, OwnerTypes,
     TaskTypes, CallInv, WindowInv, BusyInv, PortInv, IsrInv, InWindow, LateInit
<1>19. CASE EnableRdi
  BY <1>19 DEF EnableRdi, OwnerReturn, OwnerIdle, Runs, OwnerTypes, TaskTypes, CallInv,
     WindowInv, BusyInv, PortInv, IsrInv, InWindow, LateInit
<1>20. CASE Off
  BY <1>20 DEF Off, Step, Runs, OwnerTypes, TaskTypes, CallInv, WindowInv, BusyInv, PortInv,
     IsrInv, InWindow, LateInit
<1>21. CASE Mask
  BY <1>21 DEF Mask, Step, Runs, IrqAfterMask, OwnerTypes, TaskTypes, CallInv, WindowInv,
     BusyInv, PortInv, IsrInv, InWindow, LateInit
<1>22. CASE Delete
  BY <1>22 DEF Delete, OwnerReturn, OwnerIdle, Runs, Lose, ClaimedAfterDelete, OwnerTypes,
     TaskTypes, CallInv, WindowInv, BusyInv, PortInv, IsrInv, InWindow, LateInit
<1>23. CASE IsrEnter
  BY <1>23 DEF IsrEnter, UartInterrupt, IsrIdle, OwnerTypes, TaskTypes, CallInv, WindowInv,
     BusyInv, PortInv, IsrInv, InWindow, LateInit
<1>24. CASE IsrStatus
  BY <1>24 DEF IsrStatus, IsrIdle, OwnerTypes, TaskTypes, CallInv, WindowInv, BusyInv,
     PortInv, IsrInv, InWindow, LateInit
<1>25. CASE IsrBusy
  BY <1>25 DEF IsrBusy, BusyAfterUsr, IsrIdle, Lose, OwnerTypes, TaskTypes, CallInv,
     WindowInv, BusyInv, PortInv, IsrInv, InWindow, LateInit
<1>26. CASE IsrIgnore
  BY <1>26 DEF IsrIgnore, ReadRbr, Popped, ReadValue, IsrIdle, Lose, OwnerTypes, TaskTypes,
     CallInv, WindowInv, BusyInv, PortInv, IsrInv, InWindow, LateInit
<1>27. CASE IsrRead
  BY <1>27 DEF IsrRead, ReadRbr, Popped, ReadValue, OwnerTypes, TaskTypes, CallInv,
     WindowInv, BusyInv, PortInv, IsrInv, InWindow, LateInit
<1>28. CASE IsrSend
  BY <1>28 DEF IsrSend, SpaceInBox, Lose, OwnerTypes, TaskTypes, CallInv, WindowInv,
     BusyInv, PortInv, IsrInv, InWindow, LateInit
<1>29. CASE IsrMore
  BY <1>29 DEF IsrMore, MoreToRead, IsrIdle, OwnerTypes, TaskTypes, CallInv, WindowInv,
     BusyInv, PortInv, IsrInv, InWindow, LateInit
<1>30. CASE Line
  BY <1>30, LineFrame DEF BusyInv
<1>31. CASE Receivers
  BY <1>31, ReceiversFrame DEF BusyInv
<1>32. ASSUME NEW s \in Senders, SendBegin(s) \/ SendPoll(s) \/ SendWrite(s) PROVE
   BusyInv'
  BY <1>32, SendFrame DEF BusyInv
<1>33. CASE UNCHANGED uartVars
  BY <1>33 DEF BusyInv
<1> QED
  BY <1>1, <1>2, <1>3, <1>4, <1>5, <1>6, <1>7, <1>8, <1>9, <1>10, <1>11, <1>12, <1>13,
     <1>14, <1>15, <1>16, <1>17, <1>18, <1>19, <1>20, <1>21, <1>22, <1>23, <1>24, <1>25,
     <1>26, <1>27, <1>28, <1>29, <1>30, <1>31, <1>32, <1>33 DEF UartNext, Task,
     OwnerCall, OwnerStep, Isr, Receivers

\* The interrupt, the mailbox and the clock follow the calls.
LEMMA PortStep ==
  ASSUME OwnerTypes, ByteTypes, CallInv, WindowInv, PortInv, [UartNext]_uartVars
  PROVE  PortInv'
<1>1. CASE InitBegin
  BY <1>1 DEF InitBegin, Begin, Runs, OwnerTypes, CallInv, PortInv
<1>2. CASE DeinitBegin
  BY <1>2 DEF DeinitBegin, Begin, Runs, OwnerTypes, CallInv, PortInv
<1>3. CASE Standby
  BY <1>3 DEF Standby, Begin, Runs, ResetController, Lose, OwnerTypes, CallInv, PortInv
<1>4. ASSUME NEW rate \in Rates, ControlBegin(rate) PROVE PortInv'
  BY <1>4 DEF ControlBegin, Begin, Runs, OwnerTypes, CallInv, PortInv
<1>5. ASSUME NEW on \in BOOLEAN, SwitchRx(on) PROVE PortInv'
  BY <1>5 DEF SwitchRx, Begin, Runs, OwnerTypes, CallInv, PortInv
<1>6. ASSUME NEW on \in BOOLEAN, FlowControl(on) PROVE PortInv'
  BY <1>6 DEF FlowControl, Begin, Runs, OwnerTypes, CallInv, PortInv
<1>7. ASSUME NEW on \in BOOLEAN, SetLoopback(on) PROVE PortInv'
  BY <1>7 DEF SetLoopback, Begin, Runs, OwnerTypes, CallInv, PortInv
<1>8. CASE Connect
  BY <1>8 DEF Connect, Step, Runs, OwnerTypes, CallInv, PortInv
<1>9. CASE Format
  BY <1>9 DEF Format, Step, Runs, LcrTaken, OwnerTypes, CallInv, PortInv
<1>10. CASE Reset
  BY <1>10 DEF Reset, Step, Runs, ResetController, Lose, OwnerTypes, CallInv, PortInv
<1>11. CASE Halt
  BY <1>11 DEF Halt, Step, Runs, ForcedWhenHalted, OwnerTypes, CallInv, PortInv
<1>12. CASE SetDlab
  BY <1>12 DEF SetDlab, Step, Runs, LcrTaken, OwnerTypes, CallInv, PortInv
<1>13. CASE WriteDivisor
  BY <1>13 DEF WriteDivisor, Step, Runs, OwnerTypes, CallInv, PortInv, WindowInv, InWindow
<1>14. CASE ClearDlab
  BY <1>14 DEF ClearDlab, Step, Runs, OwnerTypes, CallInv, PortInv
<1>15. CASE Release
  BY <1>15 DEF Release, Step, OwnerReturn, OwnerIdle, Runs, OwnerTypes, CallInv, PortInv
<1>16. CASE Claim
  BY <1>16 DEF Claim, Step, OwnerReturn, OwnerIdle, Runs, OwnerTypes, CallInv, PortInv
<1>17. CASE Enable
  BY <1>17 DEF Enable, Step, Runs, OwnerTypes, CallInv, PortInv
<1>18. CASE Create
  BY <1>18 DEF Create, Step, OwnerReturn, OwnerIdle, Runs, Lose, NoBox, OwnerTypes, CallInv,
     PortInv
<1>19. CASE EnableRdi
  BY <1>19 DEF EnableRdi, OwnerReturn, OwnerIdle, Runs, OwnerTypes, CallInv, PortInv
<1>20. CASE Off
  BY <1>20 DEF Off, Step, Runs, OwnerTypes, CallInv, PortInv
<1>21. CASE Mask
  BY <1>21 DEF Mask, Step, Runs, IrqAfterMask, OwnerTypes, CallInv, PortInv
<1>22. CASE Delete
  BY <1>22 DEF Delete, OwnerReturn, OwnerIdle, Runs, Lose, ClaimedAfterDelete, OwnerTypes,
     CallInv, PortInv
<1>23. CASE Isr
  BY <1>23, IsrFrame, BoxFrame DEF PortInv
<1>24. CASE Line
  BY <1>24, LineFrame DEF PortInv
<1>25. CASE Receivers
  BY <1>25, ReceiversFrame DEF PortInv
<1>26. ASSUME NEW s \in Senders, SendBegin(s) \/ SendPoll(s) \/ SendWrite(s) PROVE
   PortInv'
  BY <1>26, SendFrame DEF PortInv
<1>27. CASE UNCHANGED uartVars
  BY <1>27 DEF PortInv
<1> QED
  BY <1>1, <1>2, <1>3, <1>4, <1>5, <1>6, <1>7, <1>8, <1>9, <1>10, <1>11, <1>12, <1>13,
     <1>14, <1>15, <1>16, <1>17, <1>18, <1>19, <1>20, <1>21, <1>22, <1>23, <1>24, <1>25,
     <1>26, <1>27 DEF UartNext, Task, OwnerCall, OwnerStep, Receivers

\* The divisor holds the rate of the call from the write of it on.
LEMMA RateStep ==
  ASSUME OwnerTypes, CallInv, WindowInv, RateInv, [UartNext]_uartVars
  PROVE  RateInv'
<1>1. CASE InitBegin
  BY <1>1 DEF InitBegin, Begin, Runs, OwnerTypes, CallInv, WindowInv, RateInv, PastDivisor,
     LateInit, InWindow, WantedRate
<1>2. CASE DeinitBegin
  BY <1>2 DEF DeinitBegin, Begin, Runs, OwnerTypes, CallInv, WindowInv, RateInv,
     PastDivisor, LateInit, InWindow, WantedRate
<1>3. CASE Standby
  BY <1>3 DEF Standby, Begin, Runs, ResetController, Lose, OwnerTypes, CallInv, WindowInv,
     RateInv, PastDivisor, LateInit, InWindow, WantedRate
<1>4. ASSUME NEW rate \in Rates, ControlBegin(rate) PROVE RateInv'
  BY <1>4 DEF ControlBegin, Begin, Runs, OwnerTypes, CallInv, WindowInv, RateInv,
     PastDivisor, LateInit, InWindow, WantedRate
<1>5. ASSUME NEW on \in BOOLEAN, SwitchRx(on) PROVE RateInv'
  BY <1>5 DEF SwitchRx, Begin, Runs, OwnerTypes, CallInv, WindowInv, RateInv, PastDivisor,
     LateInit, InWindow, WantedRate
<1>6. ASSUME NEW on \in BOOLEAN, FlowControl(on) PROVE RateInv'
  BY <1>6 DEF FlowControl, Begin, Runs, OwnerTypes, CallInv, WindowInv, RateInv,
     PastDivisor, LateInit, InWindow, WantedRate
<1>7. ASSUME NEW on \in BOOLEAN, SetLoopback(on) PROVE RateInv'
  BY <1>7 DEF SetLoopback, Begin, Runs, OwnerTypes, CallInv, WindowInv, RateInv,
     PastDivisor, LateInit, InWindow, WantedRate
<1>8. CASE Connect
  BY <1>8 DEF Connect, Step, Runs, OwnerTypes, CallInv, WindowInv, RateInv, PastDivisor,
     LateInit, InWindow, WantedRate
<1>9. CASE Format
  BY <1>9 DEF Format, Step, Runs, LcrTaken, OwnerTypes, CallInv, WindowInv, RateInv,
     PastDivisor, LateInit, InWindow, WantedRate
<1>10. CASE Reset
  BY <1>10 DEF Reset, Step, Runs, ResetController, Lose, OwnerTypes, CallInv, WindowInv,
     RateInv, PastDivisor, LateInit, InWindow, WantedRate
<1>11. CASE Halt
  BY <1>11 DEF Halt, Step, Runs, ForcedWhenHalted, OwnerTypes, CallInv, WindowInv, RateInv,
     PastDivisor, LateInit, InWindow, WantedRate
<1>12. CASE SetDlab
  BY <1>12 DEF SetDlab, Step, Runs, LcrTaken, OwnerTypes, CallInv, WindowInv, RateInv,
     PastDivisor, LateInit, InWindow, WantedRate
<1>13. CASE WriteDivisor
  BY <1>13 DEF WriteDivisor, Step, Runs, OwnerTypes, CallInv, WindowInv, RateInv,
     PastDivisor, LateInit, InWindow, WantedRate
<1>14. CASE ClearDlab
  BY <1>14 DEF ClearDlab, Step, Runs, OwnerTypes, CallInv, WindowInv, RateInv, PastDivisor,
     LateInit, InWindow, WantedRate
<1>15. CASE Release
  BY <1>15 DEF Release, Step, OwnerReturn, OwnerIdle, Runs, OwnerTypes, CallInv, WindowInv,
     RateInv, PastDivisor, LateInit, InWindow, WantedRate
<1>16. CASE Claim
  BY <1>16 DEF Claim, Step, OwnerReturn, OwnerIdle, Runs, OwnerTypes, CallInv, WindowInv,
     RateInv, PastDivisor, LateInit, InWindow, WantedRate
<1>17. CASE Enable
  BY <1>17 DEF Enable, Step, Runs, OwnerTypes, CallInv, WindowInv, RateInv, PastDivisor,
     LateInit, InWindow, WantedRate
<1>18. CASE Create
  BY <1>18 DEF Create, Step, OwnerReturn, OwnerIdle, Runs, Lose, NoBox, OwnerTypes, CallInv,
     WindowInv, RateInv, PastDivisor, LateInit, InWindow, WantedRate
<1>19. CASE EnableRdi
  BY <1>19 DEF EnableRdi, OwnerReturn, OwnerIdle, Runs, OwnerTypes, CallInv, WindowInv,
     RateInv, PastDivisor, LateInit, InWindow, WantedRate
<1>20. CASE Off
  BY <1>20 DEF Off, Step, Runs, OwnerTypes, CallInv, WindowInv, RateInv, PastDivisor,
     LateInit, InWindow, WantedRate
<1>21. CASE Mask
  BY <1>21 DEF Mask, Step, Runs, IrqAfterMask, OwnerTypes, CallInv, WindowInv, RateInv,
     PastDivisor, LateInit, InWindow, WantedRate
<1>22. CASE Delete
  BY <1>22 DEF Delete, OwnerReturn, OwnerIdle, Runs, Lose, ClaimedAfterDelete, OwnerTypes,
     CallInv, WindowInv, RateInv, PastDivisor, LateInit, InWindow, WantedRate
<1>23. ASSUME NEW s \in Senders, SendBegin(s) PROVE RateInv'
  BY <1>23 DEF SendBegin, Runs, OwnerTypes, CallInv, WindowInv, RateInv, PastDivisor,
     LateInit, InWindow, WantedRate
<1>24. ASSUME NEW s \in Senders, SendPoll(s) PROVE RateInv'
  BY <1>24 DEF SendPoll, Runs, RoomSeen, OwnerTypes, CallInv, WindowInv, RateInv,
     PastDivisor, LateInit, InWindow, WantedRate
<1>25. ASSUME NEW s \in Senders, SendWrite(s) PROVE RateInv'
  BY <1>25 DEF SendWrite, Runs, OwnerTypes, CallInv, WindowInv, RateInv, PastDivisor,
     LateInit, InWindow, WantedRate
<1>26. CASE Isr
  BY <1>26, IsrFrame DEF RateInv, PastDivisor, LateInit, WantedRate
<1>27. CASE Line
  BY <1>27, LineFrame DEF RateInv, PastDivisor, LateInit, WantedRate
<1>28. CASE Receivers
  BY <1>28, ReceiversFrame DEF RateInv, PastDivisor, LateInit, WantedRate
<1>29. CASE UNCHANGED uartVars
  BY <1>29 DEF RateInv, PastDivisor, LateInit, WantedRate
<1> QED
  BY <1>1, <1>2, <1>3, <1>4, <1>5, <1>6, <1>7, <1>8, <1>9, <1>10, <1>11, <1>12, <1>13,
     <1>14, <1>15, <1>16, <1>17, <1>18, <1>19, <1>20, <1>21, <1>22, <1>23, <1>24, <1>25,
     <1>26, <1>27, <1>28, <1>29 DEF UartNext, Task, OwnerCall, OwnerStep, Receivers

LEMMA RegisterTypesStep ==
  ASSUME RegisterTypes, OwnerTypes, [UartNext]_uartVars
  PROVE  RegisterTypes'
<1>1. CASE InitBegin
  BY <1>1, UartAssumption DEF InitBegin, Begin, Runs, RegisterTypes
<1>2. CASE DeinitBegin
  BY <1>2 DEF DeinitBegin, Begin, Runs, RegisterTypes
<1>3. CASE Standby
  BY <1>3 DEF Standby, Begin, Runs, ResetController, Lose, RegisterTypes
<1>4. ASSUME NEW rate \in Rates, ControlBegin(rate) PROVE RegisterTypes'
  BY <1>4 DEF ControlBegin, Begin, Runs, RegisterTypes
<1>5. ASSUME NEW on \in BOOLEAN, SwitchRx(on) PROVE RegisterTypes'
  BY <1>5 DEF SwitchRx, Begin, Runs, RegisterTypes
<1>6. ASSUME NEW on \in BOOLEAN, FlowControl(on) PROVE RegisterTypes'
  BY <1>6 DEF FlowControl, Begin, Runs, RegisterTypes
<1>7. ASSUME NEW on \in BOOLEAN, SetLoopback(on) PROVE RegisterTypes'
  BY <1>7 DEF SetLoopback, Begin, Runs, RegisterTypes
<1>8. CASE Connect
  BY <1>8 DEF Connect, Step, Runs, RegisterTypes
<1>9. CASE Format
  BY <1>9 DEF Format, Step, Runs, LcrTaken, RegisterTypes
<1>10. CASE Reset
  BY <1>10 DEF Reset, Step, Runs, ResetController, Lose, RegisterTypes
<1>11. CASE Halt
  BY <1>11 DEF Halt, Step, Runs, ForcedWhenHalted, RegisterTypes
<1>12. CASE SetDlab
  BY <1>12 DEF SetDlab, Step, Runs, LcrTaken, RegisterTypes
<1>13. CASE WriteDivisor
  BY <1>13 DEF WriteDivisor, Step, Runs, RegisterTypes, OwnerTypes
<1>14. CASE ClearDlab
  BY <1>14 DEF ClearDlab, Step, Runs, RegisterTypes
<1>15. CASE Release
  BY <1>15 DEF Release, Step, OwnerReturn, OwnerIdle, Runs, RegisterTypes
<1>16. CASE Claim
  BY <1>16 DEF Claim, Step, OwnerReturn, OwnerIdle, Runs, RegisterTypes
<1>17. CASE Enable
  BY <1>17 DEF Enable, Step, Runs, RegisterTypes
<1>18. CASE Create
  BY <1>18 DEF Create, Step, OwnerReturn, OwnerIdle, Runs, Lose, NoBox, RegisterTypes
<1>19. CASE EnableRdi
  BY <1>19 DEF EnableRdi, OwnerReturn, OwnerIdle, Runs, RegisterTypes
<1>20. CASE Off
  BY <1>20 DEF Off, Step, Runs, RegisterTypes
<1>21. CASE Mask
  BY <1>21 DEF Mask, Step, Runs, IrqAfterMask, RegisterTypes
<1>22. CASE Delete
  BY <1>22 DEF Delete, OwnerReturn, OwnerIdle, Runs, Lose, ClaimedAfterDelete, RegisterTypes
<1>23. ASSUME NEW s \in Senders, SendBegin(s) PROVE RegisterTypes'
  BY <1>23 DEF SendBegin, Runs, RegisterTypes
<1>24. ASSUME NEW s \in Senders, SendPoll(s) PROVE RegisterTypes'
  BY <1>24 DEF SendPoll, Runs, RoomSeen, RegisterTypes
<1>25. ASSUME NEW s \in Senders, SendWrite(s) PROVE RegisterTypes'
  BY <1>25 DEF SendWrite, Runs, RegisterTypes
<1>26. CASE Isr
  BY <1>26, IsrFrame DEF RegisterTypes
<1>27. CASE Line
  BY <1>27, LineFrame DEF RegisterTypes
<1>28. CASE Receivers
  BY <1>28, ReceiversFrame DEF RegisterTypes
<1>29. CASE UNCHANGED uartVars
  BY <1>29 DEF RegisterTypes
<1> QED
  BY <1>1, <1>2, <1>3, <1>4, <1>5, <1>6, <1>7, <1>8, <1>9, <1>10, <1>11, <1>12, <1>13,
     <1>14, <1>15, <1>16, <1>17, <1>18, <1>19, <1>20, <1>21, <1>22, <1>23, <1>24, <1>25,
     <1>26, <1>27, <1>28, <1>29 DEF UartNext, Task, OwnerCall, OwnerStep, Receivers

LEMMA OwnerTypesStep ==
  ASSUME OwnerTypes, [UartNext]_uartVars
  PROVE  OwnerTypes'
<1>1. CASE InitBegin
  BY <1>1, UartAssumption DEF InitBegin, Begin, Runs, OwnerTypes
<1>2. CASE DeinitBegin
  BY <1>2, UartAssumption DEF DeinitBegin, Begin, Runs, OwnerTypes
<1>3. CASE Standby
  BY <1>3, UartAssumption DEF Standby, Begin, Runs, ResetController, Lose, OwnerTypes
<1>4. ASSUME NEW rate \in Rates, ControlBegin(rate) PROVE OwnerTypes'
  BY <1>4, UartAssumption DEF ControlBegin, Begin, Runs, OwnerTypes
<1>5. ASSUME NEW on \in BOOLEAN, SwitchRx(on) PROVE OwnerTypes'
  BY <1>5, UartAssumption DEF SwitchRx, Begin, Runs, OwnerTypes
<1>6. ASSUME NEW on \in BOOLEAN, FlowControl(on) PROVE OwnerTypes'
  BY <1>6, UartAssumption DEF FlowControl, Begin, Runs, OwnerTypes
<1>7. ASSUME NEW on \in BOOLEAN, SetLoopback(on) PROVE OwnerTypes'
  BY <1>7, UartAssumption DEF SetLoopback, Begin, Runs, OwnerTypes
<1>8. CASE Connect
  BY <1>8 DEF Connect, Step, Runs, OwnerTypes
<1>9. CASE Format
  BY <1>9 DEF Format, Step, Runs, LcrTaken, OwnerTypes
<1>10. CASE Reset
  BY <1>10 DEF Reset, Step, Runs, ResetController, Lose, OwnerTypes
<1>11. CASE Halt
  BY <1>11 DEF Halt, Step, Runs, ForcedWhenHalted, OwnerTypes
<1>12. CASE SetDlab
  BY <1>12 DEF SetDlab, Step, Runs, LcrTaken, OwnerTypes
<1>13. CASE WriteDivisor
  BY <1>13 DEF WriteDivisor, Step, Runs, OwnerTypes
<1>14. CASE ClearDlab
  BY <1>14 DEF ClearDlab, Step, Runs, OwnerTypes
<1>15. CASE Release
  BY <1>15, UartAssumption DEF Release, Step, OwnerReturn, OwnerIdle, Runs, OwnerTypes
<1>16. CASE Claim
  BY <1>16, UartAssumption DEF Claim, Step, OwnerReturn, OwnerIdle, Runs, OwnerTypes
<1>17. CASE Enable
  BY <1>17 DEF Enable, Step, Runs, OwnerTypes
<1>18. CASE Create
  BY <1>18, UartAssumption DEF Create, Step, OwnerReturn, OwnerIdle, Runs, Lose, NoBox,
     OwnerTypes
<1>19. CASE EnableRdi
  BY <1>19, UartAssumption DEF EnableRdi, OwnerReturn, OwnerIdle, Runs, OwnerTypes
<1>20. CASE Off
  BY <1>20 DEF Off, Step, Runs, OwnerTypes
<1>21. CASE Mask
  BY <1>21 DEF Mask, Step, Runs, IrqAfterMask, OwnerTypes
<1>22. CASE Delete
  BY <1>22, UartAssumption DEF Delete, OwnerReturn, OwnerIdle, Runs, Lose,
     ClaimedAfterDelete, OwnerTypes
<1>23. CASE Isr
  BY <1>23, IsrFrame DEF OwnerTypes
<1>24. CASE Line
  BY <1>24, LineFrame DEF OwnerTypes
<1>25. CASE Receivers
  BY <1>25, ReceiversFrame DEF OwnerTypes
<1>26. ASSUME NEW s \in Senders, SendBegin(s) \/ SendPoll(s) \/ SendWrite(s) PROVE
   OwnerTypes'
  BY <1>26, SendFrame DEF OwnerTypes
<1>27. CASE UNCHANGED uartVars
  BY <1>27 DEF OwnerTypes
<1> QED
  BY <1>1, <1>2, <1>3, <1>4, <1>5, <1>6, <1>7, <1>8, <1>9, <1>10, <1>11, <1>12, <1>13,
     <1>14, <1>15, <1>16, <1>17, <1>18, <1>19, <1>20, <1>21, <1>22, <1>23, <1>24, <1>25,
     <1>26, <1>27 DEF UartNext, Task, OwnerCall, OwnerStep, Receivers

LEMMA ReadValueType == ASSUME ByteTypes PROVE ReadValue \in 0 .. MaxBytes
<1>1. CASE dlab \/ fifo = <<>>
  BY <1>1, UartAssumption DEF ReadValue, Junk
<1>2. CASE ~ (dlab \/ fifo = <<>>)
  <2>1. Head(fifo) \in 1 .. MaxBytes
    BY <1>2, InSeqTail DEF ByteTypes
  <2> QED
    BY <1>2, <2>1, UartAssumption DEF ReadValue
<1> QED
  BY <1>1, <1>2

LEMMA TaskTypesStep ==
  ASSUME TaskTypes, ByteTypes, [UartNext]_uartVars
  PROVE  TaskTypes'
<1>1. CASE InitBegin
  BY <1>1 DEF InitBegin, Begin, Runs, TaskTypes
<1>2. CASE DeinitBegin
  BY <1>2 DEF DeinitBegin, Begin, Runs, TaskTypes
<1>3. CASE Standby
  BY <1>3 DEF Standby, Begin, Runs, ResetController, Lose, TaskTypes
<1>4. ASSUME NEW rate \in Rates, ControlBegin(rate) PROVE TaskTypes'
  BY <1>4 DEF ControlBegin, Begin, Runs, TaskTypes
<1>5. ASSUME NEW on \in BOOLEAN, SwitchRx(on) PROVE TaskTypes'
  BY <1>5 DEF SwitchRx, Begin, Runs, TaskTypes
<1>6. ASSUME NEW on \in BOOLEAN, FlowControl(on) PROVE TaskTypes'
  BY <1>6 DEF FlowControl, Begin, Runs, TaskTypes
<1>7. ASSUME NEW on \in BOOLEAN, SetLoopback(on) PROVE TaskTypes'
  BY <1>7 DEF SetLoopback, Begin, Runs, TaskTypes
<1>8. CASE Connect
  BY <1>8 DEF Connect, Step, Runs, TaskTypes
<1>9. CASE Format
  BY <1>9 DEF Format, Step, Runs, LcrTaken, TaskTypes
<1>10. CASE Reset
  BY <1>10 DEF Reset, Step, Runs, ResetController, Lose, TaskTypes
<1>11. CASE Halt
  BY <1>11 DEF Halt, Step, Runs, ForcedWhenHalted, TaskTypes
<1>12. CASE SetDlab
  BY <1>12 DEF SetDlab, Step, Runs, LcrTaken, TaskTypes
<1>13. CASE WriteDivisor
  BY <1>13 DEF WriteDivisor, Step, Runs, TaskTypes
<1>14. CASE ClearDlab
  BY <1>14 DEF ClearDlab, Step, Runs, TaskTypes
<1>15. CASE Release
  BY <1>15 DEF Release, Step, OwnerReturn, OwnerIdle, Runs, TaskTypes
<1>16. CASE Claim
  BY <1>16 DEF Claim, Step, OwnerReturn, OwnerIdle, Runs, TaskTypes
<1>17. CASE Enable
  BY <1>17 DEF Enable, Step, Runs, TaskTypes
<1>18. CASE Create
  BY <1>18 DEF Create, Step, OwnerReturn, OwnerIdle, Runs, Lose, NoBox, TaskTypes
<1>19. CASE EnableRdi
  BY <1>19 DEF EnableRdi, OwnerReturn, OwnerIdle, Runs, TaskTypes
<1>20. CASE Off
  BY <1>20 DEF Off, Step, Runs, TaskTypes
<1>21. CASE Mask
  BY <1>21 DEF Mask, Step, Runs, IrqAfterMask, TaskTypes
<1>22. CASE Delete
  BY <1>22 DEF Delete, OwnerReturn, OwnerIdle, Runs, Lose, ClaimedAfterDelete, TaskTypes
<1>23. ASSUME NEW how \in {"wait", "timed"}, ReceiveBegin(how) PROVE TaskTypes'
  BY <1>23 DEF ReceiveBegin, Runs, TaskTypes
<1>24. CASE Receive
  BY <1>24 DEF Receive, Runs, TaskTypes
<1>25. CASE ReceiveTimeout
  BY <1>25 DEF ReceiveTimeout, Runs, TaskTypes
<1>26. ASSUME NEW s \in Senders, SendBegin(s) PROVE TaskTypes'
  BY <1>26 DEF SendBegin, Runs, TaskTypes
<1>27. ASSUME NEW s \in Senders, SendPoll(s) PROVE TaskTypes'
  BY <1>27 DEF SendPoll, Runs, RoomSeen, TaskTypes
<1>28. ASSUME NEW s \in Senders, SendWrite(s) PROVE TaskTypes'
  BY <1>28 DEF SendWrite, Runs, TaskTypes
<1>29. CASE IsrEnter
  <2>1. isr'.iir \in {"BUSBSY", "RX", "MSTA"} /\ isr' = [IsrIdle EXCEPT !.pc = "lsr", !.iir = isr'.iir]
    BY <1>29 DEF IsrEnter, IsrIdle
  <2>2. isr' = [pc |-> "lsr", iir |-> isr'.iir, hand |-> Junk]
    BY <2>1 DEF IsrIdle
  <2>3. Junk \in 0 .. MaxBytes
    BY UartAssumption DEF Junk
  <2>4. isr' \in [pc: {"lsr"}, iir: {"BUSBSY", "RX", "MSTA"}, hand: 0 .. MaxBytes]
    BY <2>1, <2>2, <2>3
  <2>5. UNCHANGED <<reader, sender>>
    BY <1>29 DEF IsrEnter
  <2> QED
    BY <2>4, <2>5 DEF TaskTypes
<1>30. CASE IsrStatus
  BY <1>30, UartAssumption DEF IsrStatus, IsrIdle, TaskTypes, Junk
<1>31. CASE IsrBusy
  BY <1>31, UartAssumption DEF IsrBusy, BusyAfterUsr, IsrIdle, Lose, TaskTypes, Junk
<1>32. CASE IsrIgnore
  BY <1>32, UartAssumption DEF IsrIgnore, ReadRbr, Popped, ReadValue, IsrIdle, Lose,
     TaskTypes, Junk
<1>33. CASE IsrRead
  BY <1>33, ReadValueType DEF IsrRead, TaskTypes
<1>34. CASE IsrSend
  <2>1. isr' = [isr EXCEPT !.pc = "more", !.hand = Junk] /\ UNCHANGED <<reader, sender>>
    BY <1>34 DEF IsrSend
  <2>2. Junk \in 0 .. MaxBytes
    BY UartAssumption DEF Junk
  <2> QED
    BY <2>1, <2>2 DEF TaskTypes
<1>35. CASE IsrMore
  BY <1>35, UartAssumption DEF IsrMore, MoreToRead, IsrIdle, TaskTypes, Junk
<1>36. CASE Line
  BY <1>36, LineFrame DEF TaskTypes
<1>37. CASE UNCHANGED uartVars
  BY <1>37 DEF TaskTypes
<1> QED
  BY <1>1, <1>2, <1>3, <1>4, <1>5, <1>6, <1>7, <1>8, <1>9, <1>10, <1>11, <1>12, <1>13,
     <1>14, <1>15, <1>16, <1>17, <1>18, <1>19, <1>20, <1>21, <1>22, <1>23, <1>24, <1>25,
     <1>26, <1>27, <1>28, <1>29, <1>30, <1>31, <1>32, <1>33, <1>34, <1>35, <1>36, <1>37
     DEF UartNext, Task, OwnerCall, OwnerStep, Isr

\* Room that one sender saw is still there when it writes.
LEMMA SendStep ==
  ASSUME ByteFlags, TaskTypes, ByteTypes, SendInv, [UartNext]_uartVars
  PROVE  SendInv'
<1>1. CASE InitBegin
  BY <1>1 DEF InitBegin, Begin, Runs, SendInv
<1>2. CASE DeinitBegin
  BY <1>2 DEF DeinitBegin, Begin, Runs, SendInv
<1>3. CASE Standby
  BY <1>3, UartAssumption DEF Standby, Begin, Runs, ResetController, Lose, SendInv,
     ByteTypes
<1>4. ASSUME NEW rate \in Rates, ControlBegin(rate) PROVE SendInv'
  BY <1>4 DEF ControlBegin, Begin, Runs, SendInv
<1>5. ASSUME NEW on \in BOOLEAN, SwitchRx(on) PROVE SendInv'
  BY <1>5 DEF SwitchRx, Begin, Runs, SendInv
<1>6. ASSUME NEW on \in BOOLEAN, FlowControl(on) PROVE SendInv'
  BY <1>6 DEF FlowControl, Begin, Runs, SendInv
<1>7. ASSUME NEW on \in BOOLEAN, SetLoopback(on) PROVE SendInv'
  BY <1>7 DEF SetLoopback, Begin, Runs, SendInv
<1>8. CASE Connect
  BY <1>8 DEF Connect, Step, Runs, SendInv
<1>9. CASE Format
  BY <1>9 DEF Format, Step, Runs, LcrTaken, SendInv
<1>10. CASE Reset
  BY <1>10, UartAssumption DEF Reset, Step, Runs, ResetController, Lose, SendInv, ByteTypes
<1>11. CASE Halt
  BY <1>11 DEF Halt, Step, Runs, ForcedWhenHalted, SendInv
<1>12. CASE SetDlab
  BY <1>12 DEF SetDlab, Step, Runs, LcrTaken, SendInv
<1>13. CASE WriteDivisor
  BY <1>13 DEF WriteDivisor, Step, Runs, SendInv
<1>14. CASE ClearDlab
  BY <1>14 DEF ClearDlab, Step, Runs, SendInv
<1>15. CASE Release
  BY <1>15 DEF Release, Step, OwnerReturn, OwnerIdle, Runs, SendInv
<1>16. CASE Claim
  BY <1>16 DEF Claim, Step, OwnerReturn, OwnerIdle, Runs, SendInv
<1>17. CASE Enable
  BY <1>17 DEF Enable, Step, Runs, SendInv
<1>18. CASE Create
  BY <1>18 DEF Create, Step, OwnerReturn, OwnerIdle, Runs, Lose, NoBox, SendInv
<1>19. CASE EnableRdi
  BY <1>19 DEF EnableRdi, OwnerReturn, OwnerIdle, Runs, SendInv
<1>20. CASE Off
  BY <1>20 DEF Off, Step, Runs, SendInv
<1>21. CASE Mask
  BY <1>21 DEF Mask, Step, Runs, IrqAfterMask, SendInv
<1>22. CASE Delete
  BY <1>22 DEF Delete, OwnerReturn, OwnerIdle, Runs, Lose, ClaimedAfterDelete, SendInv
<1>23. ASSUME NEW s \in Senders, SendBegin(s) PROVE SendInv'
  BY <1>23 DEF SendBegin, Runs, SendInv
<1>24. ASSUME NEW s \in Senders, SendPoll(s) PROVE SendInv'
  <2>1. sender' = [sender EXCEPT ![s] = "write"] /\ txLevel < FifoDepth
    BY <1>24 DEF SendPoll, RoomSeen
  <2>2. UNCHANGED <<txLevel, txLost>>
    BY <1>24 DEF SendPoll
  <2>3. txRaced' = (txRaced \/ \E o \in Senders \ {s} : sender[o] = "write")
    BY <1>24 DEF SendPoll
  <2> SUFFICES ASSUME ~ txRaced' PROVE SendInv'
    BY DEF SendInv
  <2>4. ~ txRaced /\ \A o \in Senders \ {s} : sender[o] # "write"
    BY <2>3
  <2>5. \A o \in Senders : sender'[o] = IF o = s THEN "write" ELSE sender[o]
    BY <2>1 DEF TaskTypes
  <2> QED
    BY <2>1, <2>2, <2>4, <2>5 DEF SendInv
<1>25. ASSUME NEW s \in Senders, SendWrite(s) PROVE SendInv'
  <2>1. sender' = [sender EXCEPT ![s] = "idle"] /\ sender[s] = "write" /\ txRaced' = txRaced
    BY <1>25 DEF SendWrite
  <2> SUFFICES ASSUME ~ txRaced' PROVE SendInv'
    BY DEF SendInv
  <2>2. ~ txLost /\ txLevel < FifoDepth /\ \A o \in Senders \ {s} : sender[o] # "write"
    BY <2>1 DEF SendInv
  <2>3. ~ txLost'
    <3>1. txLevel # FifoDepth
      BY <2>2, UartAssumption DEF ByteTypes
    <3>2. CASE dlab
      BY <1>25, <2>2, <3>2 DEF SendWrite
    <3>3. CASE ~ dlab
      BY <1>25, <2>2, <3>1, <3>3 DEF SendWrite
    <3> QED
      BY <3>2, <3>3
  <2>4. \A o \in Senders : sender'[o] # "write"
    BY <2>1, <2>2 DEF TaskTypes
  <2> QED
    BY <2>3, <2>4 DEF SendInv
<1>26. CASE IsrEnter
  BY <1>26 DEF IsrEnter, UartInterrupt, IsrIdle, SendInv
<1>27. CASE IsrStatus
  BY <1>27 DEF IsrStatus, IsrIdle, SendInv
<1>28. CASE IsrBusy
  BY <1>28, UartAssumption DEF IsrBusy, BusyAfterUsr, IsrIdle, Lose, SendInv, ByteTypes
<1>29. CASE IsrIgnore
  BY <1>29 DEF IsrIgnore, ReadRbr, Popped, ReadValue, IsrIdle, Lose, SendInv
<1>30. CASE IsrRead
  BY <1>30 DEF IsrRead, ReadRbr, Popped, ReadValue, SendInv
<1>31. CASE IsrSend
  BY <1>31 DEF IsrSend, SpaceInBox, Lose, SendInv
<1>32. CASE IsrMore
  BY <1>32 DEF IsrMore, MoreToRead, IsrIdle, SendInv
<1>33. CASE FromPeer
  BY <1>33 DEF FromPeer, Arrive, Lose, SendInv
<1>34. CASE Transmit
  BY <1>34, UartAssumption DEF Transmit, Arrive, Lose, SendInv, ByteTypes
<1>35. CASE CharTimeout
  BY <1>35 DEF CharTimeout, SendInv
<1>36. CASE ModemChange
  BY <1>36 DEF ModemChange, SendInv
<1>37. CASE Receivers
  BY <1>37, ReceiversFrame DEF SendInv
<1>38. CASE UNCHANGED uartVars
  BY <1>38 DEF SendInv
<1> QED
  BY <1>1, <1>2, <1>3, <1>4, <1>5, <1>6, <1>7, <1>8, <1>9, <1>10, <1>11, <1>12, <1>13,
     <1>14, <1>15, <1>16, <1>17, <1>18, <1>19, <1>20, <1>21, <1>22, <1>23, <1>24, <1>25,
     <1>26, <1>27, <1>28, <1>29, <1>30, <1>31, <1>32, <1>33, <1>34, <1>35, <1>36, <1>37,
     <1>38 DEF UartNext, Task, OwnerCall, OwnerStep, Isr, Line, Receivers

LEMMA PoppedTypes ==
  ASSUME ByteTypes
  PROVE  Popped \in Seq(1 .. MaxBytes) /\ Len(Popped) <= FifoDepth
<1>1. CASE dlab \/ fifo = <<>>
  BY <1>1 DEF Popped, ByteTypes
<1>2. CASE ~ (dlab \/ fifo = <<>>)
  <2>1. Tail(fifo) \in Seq(1 .. MaxBytes) /\ Len(Tail(fifo)) = Len(fifo) - 1
    BY <1>2, InSeqTail DEF ByteTypes
  <2>2. Len(fifo) \in Nat
    BY LenProperties DEF ByteTypes
  <2> QED
    BY <1>2, <2>1, <2>2, UartAssumption DEF Popped, ByteTypes
<1> QED
  BY <1>1, <1>2

LEMMA ArriveTypes ==
  ASSUME ByteTypes, Arrive
  PROVE  /\ fifo' \in Seq(1 .. MaxBytes) /\ Len(fifo') <= FifoDepth
         /\ came' \in 0 .. MaxBytes /\ lost' \in [Reasons -> SUBSET (1 .. MaxBytes)]
<1>1. came' \in 0 .. MaxBytes /\ came + 1 \in 1 .. MaxBytes /\ came' = came + 1
  BY UartAssumption DEF Arrive, ByteTypes
<1>2. CASE Len(fifo) < FifoDepth
  <2>1. fifo' = Append(fifo, came + 1) /\ lost' = lost
    BY <1>2 DEF Arrive
  <2>2. fifo' \in Seq(1 .. MaxBytes) /\ Len(fifo') = Len(fifo) + 1
    BY <1>1, <2>1, InSeqAppend DEF ByteTypes
  <2>3. Len(fifo) \in Nat
    BY LenProperties DEF ByteTypes
  <2> QED
    BY <1>1, <1>2, <2>1, <2>2, <2>3, UartAssumption DEF ByteTypes
<1>3. CASE ~ (Len(fifo) < FifoDepth)
  <2>1. Lose({came + 1}, "overrun") /\ fifo' = fifo
    BY <1>3 DEF Arrive
  <2>2. {came + 1} \in SUBSET (0 .. MaxBytes)
    BY <1>1
  <2>3. lost' \in [Reasons -> SUBSET (1 .. MaxBytes)]
    BY <2>1, <2>2, LoseGone DEF Reasons
  <2> QED
    BY <1>1, <2>1, <2>3 DEF ByteTypes
<1> QED
  BY <1>2, <1>3

\* A sequence of bytes holds bytes.
LEMMA Inside ==
  ASSUME ByteTypes
  PROVE  /\ InSeq(fifo) \in SUBSET (0 .. MaxBytes) /\ InSeq(fifo) \in SUBSET (1 .. MaxBytes)
         /\ InSeq(box.q) \in SUBSET (0 .. MaxBytes)
<1>1. fifo \in Seq(1 .. MaxBytes) /\ box.q \in Seq(0 .. MaxBytes)
  BY DEF ByteTypes
<1>2. InSeq(fifo) \subseteq 1 .. MaxBytes /\ InSeq(box.q) \subseteq 0 .. MaxBytes
  BY <1>1, InSeqType
<1> QED
  BY <1>2, UartAssumption

LEMMA ByteTypesStep ==
  ASSUME TaskTypes, ByteTypes, IsrInv, [UartNext]_uartVars
  PROVE  ByteTypes'
<1>1. CASE InitBegin
  BY <1>1 DEF InitBegin, Begin, Runs, ByteTypes
<1>2. CASE DeinitBegin
  BY <1>2 DEF DeinitBegin, Begin, Runs, ByteTypes
<1>3. CASE Standby
  <2>1. lost' \in [Reasons -> SUBSET (1 .. MaxBytes)]
    BY <1>3, LoseGone, Inside DEF Standby, ResetController, Reasons
  <2>2. <<>> \in Seq(1 .. MaxBytes) /\ Len(<<>>) = 0
    OBVIOUS
  <2>3. fifo' = <<>> /\ txLevel' = 0 /\ UNCHANGED <<box, came, got>>
    BY <1>3 DEF Standby, ResetController
  <2> QED
    BY <2>1, <2>2, <2>3, UartAssumption DEF ByteTypes
<1>4. ASSUME NEW rate \in Rates, ControlBegin(rate) PROVE ByteTypes'
  BY <1>4 DEF ControlBegin, Begin, Runs, ByteTypes
<1>5. ASSUME NEW on \in BOOLEAN, SwitchRx(on) PROVE ByteTypes'
  BY <1>5 DEF SwitchRx, Begin, Runs, ByteTypes
<1>6. ASSUME NEW on \in BOOLEAN, FlowControl(on) PROVE ByteTypes'
  BY <1>6 DEF FlowControl, Begin, Runs, ByteTypes
<1>7. ASSUME NEW on \in BOOLEAN, SetLoopback(on) PROVE ByteTypes'
  BY <1>7 DEF SetLoopback, Begin, Runs, ByteTypes
<1>8. CASE Connect
  BY <1>8 DEF Connect, Step, Runs, ByteTypes
<1>9. CASE Format
  BY <1>9 DEF Format, Step, Runs, LcrTaken, ByteTypes
<1>10. CASE Reset
  <2>1. lost' \in [Reasons -> SUBSET (1 .. MaxBytes)]
    BY <1>10, LoseGone, Inside DEF Reset, ResetController, Reasons
  <2>2. <<>> \in Seq(1 .. MaxBytes) /\ Len(<<>>) = 0
    OBVIOUS
  <2>3. fifo' = <<>> /\ txLevel' = 0 /\ UNCHANGED <<box, came, got>>
    BY <1>10 DEF Reset, ResetController
  <2> QED
    BY <2>1, <2>2, <2>3, UartAssumption DEF ByteTypes
<1>11. CASE Halt
  BY <1>11 DEF Halt, Step, Runs, ForcedWhenHalted, ByteTypes
<1>12. CASE SetDlab
  BY <1>12 DEF SetDlab, Step, Runs, LcrTaken, ByteTypes
<1>13. CASE WriteDivisor
  BY <1>13 DEF WriteDivisor, Step, Runs, ByteTypes
<1>14. CASE ClearDlab
  BY <1>14 DEF ClearDlab, Step, Runs, ByteTypes
<1>15. CASE Release
  BY <1>15 DEF Release, Step, OwnerReturn, OwnerIdle, Runs, ByteTypes
<1>16. CASE Claim
  BY <1>16 DEF Claim, Step, OwnerReturn, OwnerIdle, Runs, ByteTypes
<1>17. CASE Enable
  BY <1>17 DEF Enable, Step, Runs, ByteTypes
<1>18. CASE Create
  <2>1. lost' \in [Reasons -> SUBSET (1 .. MaxBytes)]
    BY <1>18, LoseGone, Inside DEF Create, Reasons
  <2>2. <<>> \in Seq(0 .. MaxBytes) /\ Len(<<>>) = 0
    OBVIOUS
  <2>3. /\ box' = [st |-> "alive", q |-> <<>>] \/ box' = [st |-> "none", q |-> <<>>]
        /\ UNCHANGED <<fifo, txLevel, came, got>>
    BY <1>18 DEF Create, NoBox
  <2>4. box' \in [st: {"alive", "none"}, q: Seq(0 .. MaxBytes)] /\ box'.q = <<>>
    <3>1. CASE box' = [st |-> "alive", q |-> <<>>]
      BY <2>2, <3>1
    <3>2. CASE box' = [st |-> "none", q |-> <<>>]
      BY <2>2, <3>2
    <3> QED
      BY <2>3, <3>1, <3>2
  <2> QED
    BY <2>1, <2>2, <2>3, <2>4, UartAssumption DEF ByteTypes
<1>19. CASE EnableRdi
  BY <1>19 DEF EnableRdi, OwnerReturn, OwnerIdle, Runs, ByteTypes
<1>20. CASE Off
  BY <1>20 DEF Off, Step, Runs, ByteTypes
<1>21. CASE Mask
  BY <1>21 DEF Mask, Step, Runs, IrqAfterMask, ByteTypes
<1>22. CASE Delete
  <2>1. lost' \in [Reasons -> SUBSET (1 .. MaxBytes)]
    BY <1>22, LoseGone, Inside DEF Delete, Reasons
  <2>2. <<>> \in Seq(0 .. MaxBytes) /\ Len(<<>>) = 0
    OBVIOUS
  <2>3. box' = [st |-> "dead", q |-> <<>>] /\ UNCHANGED <<fifo, txLevel, came, got>>
    BY <1>22 DEF Delete
  <2> QED
    BY <2>1, <2>2, <2>3, UartAssumption DEF ByteTypes
<1>23. ASSUME NEW how \in {"wait", "timed"}, ReceiveBegin(how) PROVE ByteTypes'
  BY <1>23 DEF ReceiveBegin, Runs, ByteTypes
<1>24. CASE Receive
  <2>1. /\ box.q # <<>> /\ box' = [box EXCEPT !.q = Tail(box.q)] /\ got' = got \cup {Head(box.q)}
        /\ UNCHANGED <<fifo, txLevel, came, lost>>
    BY <1>24 DEF Receive
  <2>2. /\ Tail(box.q) \in Seq(0 .. MaxBytes) /\ Len(Tail(box.q)) = Len(box.q) - 1
        /\ InSeq(box.q) = InSeq(Tail(box.q)) \cup {Head(box.q)}
    BY <2>1, InSeqTail DEF ByteTypes
  <2>3. Head(box.q) # Junk /\ Head(box.q) \in 0 .. MaxBytes
    <3>1. Head(box.q) \in 0 .. MaxBytes
      BY <2>1, InSeqTail DEF ByteTypes
    <3>2. isr.pc = "idle"
      BY <1>24 DEF Receive, Runs
    <3> QED
      BY <2>2, <3>1, <3>2 DEF IsrInv
  <2>4. Head(box.q) \in 1 .. MaxBytes
    BY <2>3, UartAssumption DEF Junk
  <2>5. Len(box.q) \in Nat
    BY LenProperties DEF ByteTypes
  <2>6. box'.q = Tail(box.q) /\ box' \in [st: {"none", "alive", "dead"}, q: Seq(0 .. MaxBytes)]
    BY <2>1, <2>2 DEF ByteTypes
  <2>7. Len(box'.q) <= UART_FIFO_SIZE
    BY <2>2, <2>5, <2>6, UartAssumption DEF ByteTypes
  <2>8. got' \in SUBSET (1 .. MaxBytes)
    BY <2>1, <2>4 DEF ByteTypes
  <2> QED
    BY <2>1, <2>6, <2>7, <2>8 DEF ByteTypes
<1>25. CASE ReceiveTimeout
  BY <1>25 DEF ReceiveTimeout, Runs, ByteTypes
<1>26. ASSUME NEW s \in Senders, SendBegin(s) PROVE ByteTypes'
  BY <1>26 DEF SendBegin, Runs, ByteTypes
<1>27. ASSUME NEW s \in Senders, SendPoll(s) PROVE ByteTypes'
  BY <1>27 DEF SendPoll, Runs, RoomSeen, ByteTypes
<1>28. ASSUME NEW s \in Senders, SendWrite(s) PROVE ByteTypes'
  <2>1. /\ UNCHANGED <<fifo, box, came, got, lost>>
        /\ \/ txLevel' = txLevel
           \/ txLevel < FifoDepth /\ txLevel' = txLevel + 1
    <3>1. CASE dlab
      BY <1>28, <3>1 DEF SendWrite
    <3>2. CASE ~ dlab
      BY <1>28, <3>2 DEF SendWrite
    <3> QED
      BY <3>1, <3>2
  <2> QED
    BY <2>1, UartAssumption DEF ByteTypes
<1>29. CASE IsrEnter
  BY <1>29 DEF IsrEnter, UartInterrupt, IsrIdle, ByteTypes
<1>30. CASE IsrStatus
  BY <1>30 DEF IsrStatus, IsrIdle, ByteTypes
<1>31. CASE IsrBusy
  <2>1. lost' \in [Reasons -> SUBSET (1 .. MaxBytes)]
    BY <1>31, LoseGone, Inside DEF IsrBusy, Reasons
  <2>2. <<>> \in Seq(1 .. MaxBytes) /\ Len(<<>>) = 0
    OBVIOUS
  <2>3. fifo' = <<>> /\ txLevel' = 0 /\ UNCHANGED <<box, came, got>>
    BY <1>31 DEF IsrBusy
  <2> QED
    BY <2>1, <2>2, <2>3, UartAssumption DEF ByteTypes
<1>32. CASE IsrIgnore
  <2>1. lost' \in [Reasons -> SUBSET (1 .. MaxBytes)]
    <3>1. {ReadValue} \in SUBSET (0 .. MaxBytes)
      BY ReadValueType
    <3> QED
      BY <1>32, <3>1, LoseGone DEF IsrIgnore, Reasons
  <2>2. fifo' = Popped /\ UNCHANGED <<txLevel, box, came, got>>
    BY <1>32 DEF IsrIgnore, ReadRbr
  <2> QED
    BY <2>1, <2>2, PoppedTypes DEF ByteTypes
<1>33. CASE IsrRead
  <2>1. fifo' = Popped /\ UNCHANGED <<txLevel, box, came, got, lost>>
    BY <1>33 DEF IsrRead, ReadRbr
  <2> QED
    BY <2>1, PoppedTypes DEF ByteTypes
<1>34. CASE IsrSend
  <2>1. UNCHANGED <<fifo, txLevel, came, got>> /\ isr.hand \in 0 .. MaxBytes
    BY <1>34 DEF IsrSend, TaskTypes
  <2>2. CASE box.st = "alive" /\ SpaceInBox
    <3>1. box' = [box EXCEPT !.q = Append(box.q, isr.hand)] /\ lost' = lost
      BY <1>34, <2>2 DEF IsrSend
    <3>2. /\ Append(box.q, isr.hand) \in Seq(0 .. MaxBytes)
          /\ Len(Append(box.q, isr.hand)) = Len(box.q) + 1
      BY <2>1, InSeqAppend DEF ByteTypes
    <3>3. Len(box.q) \in Nat /\ Len(box.q) < UART_FIFO_SIZE
      BY <2>2, LenProperties DEF ByteTypes, SpaceInBox
    <3>4. /\ box'.q = Append(box.q, isr.hand)
          /\ box' \in [st: {"none", "alive", "dead"}, q: Seq(0 .. MaxBytes)]
      BY <3>1, <3>2 DEF ByteTypes
    <3> QED
      BY <2>1, <3>1, <3>2, <3>3, <3>4, UartAssumption DEF ByteTypes
  <2>3. CASE ~ (box.st = "alive" /\ SpaceInBox)
    <3>1. /\ Lose({isr.hand}, IF box.st = "alive" THEN "full" ELSE "nowhere")
          /\ box' = box
      BY <1>34, <2>3 DEF IsrSend
    <3>2. /\ {isr.hand} \in SUBSET (0 .. MaxBytes)
          /\ (IF box.st = "alive" THEN "full" ELSE "nowhere") \in Reasons
      BY <2>1 DEF Reasons
    <3>3. lost' \in [Reasons -> SUBSET (1 .. MaxBytes)]
      BY <3>1, <3>2, LoseGone
    <3> QED
      BY <2>1, <3>1, <3>3 DEF ByteTypes
  <2> QED
    BY <2>2, <2>3
<1>35. CASE IsrMore
  BY <1>35 DEF IsrMore, MoreToRead, IsrIdle, ByteTypes
<1>36. CASE FromPeer
  <2>1. Arrive /\ UNCHANGED <<txLevel, box, got>>
    BY <1>36 DEF FromPeer
  <2> QED
    BY <2>1, ArriveTypes DEF ByteTypes
<1>37. CASE Transmit
  <2>1. txLevel' \in 0 .. FifoDepth /\ UNCHANGED <<box, got>>
    BY <1>37, UartAssumption DEF Transmit, ByteTypes
  <2>2. CASE loop
    <3>1. Arrive
      BY <1>37, <2>2 DEF Transmit
    <3> QED
      BY <2>1, <3>1, ArriveTypes DEF ByteTypes
  <2>3. CASE ~ loop
    <3>1. UNCHANGED <<came, lost, fifo>>
      BY <1>37, <2>3 DEF Transmit
    <3> QED
      BY <2>1, <3>1 DEF ByteTypes
  <2> QED
    BY <2>2, <2>3
<1>38. CASE CharTimeout
  BY <1>38 DEF CharTimeout, ByteTypes
<1>39. CASE ModemChange
  BY <1>39 DEF ModemChange, ByteTypes
<1>40. CASE UNCHANGED uartVars
  BY <1>40 DEF ByteTypes
<1> QED
  BY <1>1, <1>2, <1>3, <1>4, <1>5, <1>6, <1>7, <1>8, <1>9, <1>10, <1>11, <1>12, <1>13,
     <1>14, <1>15, <1>16, <1>17, <1>18, <1>19, <1>20, <1>21, <1>22, <1>23, <1>24, <1>25,
     <1>26, <1>27, <1>28, <1>29, <1>30, <1>31, <1>32, <1>33, <1>34, <1>35, <1>36, <1>37,
     <1>38, <1>39, <1>40 DEF UartNext, Task, OwnerCall, OwnerStep, Isr, Line

-----------------------------------------------------------------------------
(* Where the handler is.                                                   *)

\* While the handler does not run its invariant is about the mailbox alone.
LEMMA IdleKeeps ==
  ASSUME IsrInv, isr.pc = "idle", isr' = isr, InSeq(box'.q) \subseteq InSeq(box.q)
  PROVE  IsrInv'
<1>1. isr.iir = "none" /\ isr.hand = Junk /\ Junk \notin InSeq(box.q)
  BY DEF IsrInv
<1> QED
  BY <1>1 DEF IsrInv

LEMMA Arrives ==
  ASSUME ByteTypes, Line
  PROVE  /\ InSeq(fifo) \subseteq InSeq(fifo')
         /\ fifo # <<>> => fifo' # <<>>
<1>1. CASE Arrive
  <2>1. fifo' = fifo \/ (fifo' = Append(fifo, came + 1) /\ came + 1 \in 1 .. MaxBytes)
    BY <1>1, UartAssumption DEF Arrive, ByteTypes
  <2>2. CASE fifo' = Append(fifo, came + 1) /\ came + 1 \in 1 .. MaxBytes
    <3>1. fifo \in Seq(1 .. MaxBytes)
      BY DEF ByteTypes
    <3>2. /\ Append(fifo, came + 1) # <<>>
          /\ InSeq(Append(fifo, came + 1)) = InSeq(fifo) \cup {came + 1}
      BY <2>2, <3>1, InSeqAppend
    <3> QED
      BY <2>2, <3>2
  <2> QED
    BY <2>1, <2>2
<1>2. CASE fifo' = fifo
  BY <1>2
<1> QED
  BY <1>1, <1>2 DEF Line, FromPeer, Transmit, CharTimeout, ModemChange

\* The handler reads the divisor only in a turn it cannot end before DLAB is off.
LEMMA IsrStep ==
  ASSUME OwnerTypes, TaskTypes, ByteTypes, PortInv, IsrInv, [UartNext]_uartVars
  PROVE  IsrInv'
<1>1. CASE InitBegin
  BY <1>1, IdleKeeps DEF InitBegin, Begin, Runs
<1>2. CASE DeinitBegin
  BY <1>2, IdleKeeps DEF DeinitBegin, Begin, Runs
<1>3. CASE Standby
  BY <1>3, IdleKeeps DEF Standby, Begin, Runs
<1>4. ASSUME NEW rate \in Rates, ControlBegin(rate) PROVE IsrInv'
  BY <1>4, IdleKeeps DEF ControlBegin, Begin, Runs
<1>5. ASSUME NEW on \in BOOLEAN, SwitchRx(on) PROVE IsrInv'
  BY <1>5, IdleKeeps DEF SwitchRx, Begin, Runs
<1>6. ASSUME NEW on \in BOOLEAN, FlowControl(on) PROVE IsrInv'
  BY <1>6, IdleKeeps DEF FlowControl, Begin, Runs
<1>7. ASSUME NEW on \in BOOLEAN, SetLoopback(on) PROVE IsrInv'
  BY <1>7, IdleKeeps DEF SetLoopback, Begin, Runs
<1>8. CASE Connect
  BY <1>8, IdleKeeps DEF Connect, Step, Runs
<1>9. CASE Format
  BY <1>9, IdleKeeps DEF Format, Step, Runs, LcrTaken
<1>10. CASE Reset
  BY <1>10, IdleKeeps DEF Reset, Step, Runs
<1>11. CASE Halt
  BY <1>11, IdleKeeps DEF Halt, Step, Runs, ForcedWhenHalted
<1>12. CASE SetDlab
  BY <1>12, IdleKeeps DEF SetDlab, Step, Runs, LcrTaken
<1>13. CASE WriteDivisor
  BY <1>13, IdleKeeps DEF WriteDivisor, Step, Runs
<1>14. CASE ClearDlab
  BY <1>14, IdleKeeps DEF ClearDlab, Step, Runs
<1>15. CASE Release
  BY <1>15, IdleKeeps DEF Release, Step, OwnerReturn, OwnerIdle, Runs
<1>16. CASE Claim
  BY <1>16, IdleKeeps DEF Claim, Step, OwnerReturn, OwnerIdle, Runs
<1>17. CASE Enable
  BY <1>17, IdleKeeps DEF Enable, Step, Runs
<1>18. CASE Create
  <2>1. isr.pc = "idle" /\ isr' = isr /\ box'.q = <<>>
    BY <1>18 DEF Create, Step, OwnerReturn, Runs, NoBox
  <2> QED
    BY <2>1, IdleKeeps, InSeqEmpty
<1>19. CASE EnableRdi
  BY <1>19, IdleKeeps DEF EnableRdi, OwnerReturn, OwnerIdle, Runs
<1>20. CASE Off
  BY <1>20, IdleKeeps DEF Off, Step, Runs
<1>21. CASE Mask
  BY <1>21, IdleKeeps DEF Mask, Step, Runs, IrqAfterMask
<1>22. CASE Delete
  <2>1. isr.pc = "idle" /\ isr' = isr /\ box'.q = <<>>
    BY <1>22 DEF Delete, OwnerReturn, Runs
  <2> QED
    BY <2>1, IdleKeeps, InSeqEmpty
<1>23. ASSUME NEW how \in {"wait", "timed"}, ReceiveBegin(how) PROVE IsrInv'
  BY <1>23, IdleKeeps DEF ReceiveBegin, Runs
<1>24. CASE Receive
  <2>1. /\ isr.pc = "idle" /\ isr' = isr /\ box.q # <<>>
        /\ box' = [box EXCEPT !.q = Tail(box.q)]
    BY <1>24 DEF Receive, Runs
  <2>2. InSeq(box'.q) \subseteq InSeq(box.q)
    BY <2>1, InSeqTail DEF ByteTypes
  <2> QED
    BY <2>1, <2>2, IdleKeeps
<1>25. CASE ReceiveTimeout
  BY <1>25, IdleKeeps DEF ReceiveTimeout, Runs
<1>26. ASSUME NEW s \in Senders, SendBegin(s) PROVE IsrInv'
  BY <1>26, IdleKeeps DEF SendBegin, Runs
<1>27. ASSUME NEW s \in Senders, SendPoll(s) PROVE IsrInv'
  BY <1>27, IdleKeeps DEF SendPoll, Runs, RoomSeen
<1>28. ASSUME NEW s \in Senders, SendWrite(s) PROVE IsrInv'
  BY <1>28, IdleKeeps DEF SendWrite, Runs
<1>29. CASE IsrEnter
  <2>1. /\ irq = "on" /\ wired /\ isr.pc = "idle"
        /\ isr'.pc = "lsr" /\ isr'.hand = Junk /\ isr'.iir \in {"BUSBSY", "RX", "MSTA"}
        /\ isr'.iir # "BUSBSY" => ier # {}
    BY <1>29 DEF IsrEnter, UartInterrupt, IsrIdle
  <2> QED
    BY <1>29, <2>1, IsrFrame DEF IsrEnter, IsrInv, PortInv, Isr
<1>30. CASE IsrStatus
  BY <1>30 DEF IsrStatus, IsrIdle, TaskTypes, IsrInv
<1>31. CASE IsrBusy
  BY <1>31 DEF IsrBusy, BusyAfterUsr, IsrIdle, Lose, TaskTypes, IsrInv
<1>32. CASE IsrIgnore
  BY <1>32 DEF IsrIgnore, ReadRbr, Popped, ReadValue, IsrIdle, Lose, TaskTypes, IsrInv
<1>33. CASE IsrRead
  <2>1. /\ isr.pc = "read" /\ isr' = [isr EXCEPT !.pc = "send", !.hand = ReadValue]
        /\ fifo' = Popped /\ UNCHANGED <<dlab, box>>
    BY <1>33 DEF IsrRead, ReadRbr
  <2>2. isr'.pc = "send" /\ isr'.iir = isr.iir /\ isr'.hand = ReadValue
    BY <2>1 DEF TaskTypes
  <2>3. fifo # <<>>
    BY <2>1 DEF IsrInv
  <2>4. CASE dlab
    <3>1. fifo' = fifo
      BY <2>1, <2>4 DEF Popped
    <3> QED
      BY <1>33, <2>1, <2>2, <2>3, <2>4, <3>1, IsrFrame DEF IsrInv, Isr
  <2>5. CASE ~ dlab
    <3>1. Head(fifo) \in 1 .. MaxBytes /\ ReadValue = Head(fifo)
      BY <2>3, <2>5, InSeqTail DEF ByteTypes, ReadValue
    <3>2. isr'.hand # Junk
      BY <2>2, <3>1 DEF Junk
    <3> QED
      BY <1>33, <2>1, <2>2, <2>5, <3>2, IsrFrame DEF IsrInv, Isr
  <2> QED
    BY <2>4, <2>5
<1>34. CASE IsrSend
  <2>1. /\ isr.pc = "send" /\ isr' = [isr EXCEPT !.pc = "more", !.hand = Junk]
        /\ UNCHANGED <<dlab, fifo>>
    BY <1>34 DEF IsrSend
  <2>2. isr'.pc = "more" /\ isr'.iir = isr.iir /\ isr'.hand = Junk
    BY <2>1 DEF TaskTypes
  <2>3. Junk \in InSeq(box'.q) => Junk \in InSeq(box.q) \/ isr.hand = Junk
    <3>1. CASE box' = [box EXCEPT !.q = Append(box.q, isr.hand)]
      <4>1. isr.hand \in 0 .. MaxBytes /\ box.q \in Seq(0 .. MaxBytes)
        BY DEF TaskTypes, ByteTypes
      <4>2. box'.q = Append(box.q, isr.hand)
        BY <3>1 DEF ByteTypes
      <4>3. \A s \in Seq(0 .. MaxBytes), x \in 0 .. MaxBytes :
              InSeq(Append(s, x)) = InSeq(s) \cup {x}
        BY OneMore
      <4> QED
        BY <4>1, <4>2, <4>3
    <3>2. CASE box' = box
      BY <3>2
    <3> QED
      BY <1>34, <3>1, <3>2 DEF IsrSend
  <2> QED
    BY <1>34, <2>1, <2>2, <2>3, IsrFrame DEF IsrInv, Isr
<1>35. CASE IsrMore
  BY <1>35 DEF IsrMore, MoreToRead, IsrIdle, TaskTypes, IsrInv
<1>36. CASE Line
  BY <1>36, LineFrame, Arrives DEF IsrInv
<1>37. CASE UNCHANGED uartVars
  BY <1>37 DEF IsrInv
<1> QED
  BY <1>1, <1>2, <1>3, <1>4, <1>5, <1>6, <1>7, <1>8, <1>9, <1>10, <1>11, <1>12, <1>13,
     <1>14, <1>15, <1>16, <1>17, <1>18, <1>19, <1>20, <1>21, <1>22, <1>23, <1>24, <1>25,
     <1>26, <1>27, <1>28, <1>29, <1>30, <1>31, <1>32, <1>33, <1>34, <1>35, <1>36, <1>37
     DEF UartNext, Task, OwnerCall, OwnerStep, Isr

-----------------------------------------------------------------------------
(* Where the bytes are: received, in the mailbox, in the hand of the       *)
(* handler, in the FIFO, lost.                                             *)

InOrder(g, b, h, f, l, n) ==
  /\ g \cup b \cup h \cup f \cup l = 1 .. n
  /\ (g \cup b \cup h \cup f) \cap l = {}
  /\ Before(g, b \cup h \cup f)
  /\ Before(b, h \cup f) /\ Before(h, f)

LEMMA Places ==
  BytesInOrder <=> /\ InOrder(got, InBox, InHand, InSeq(fifo), Gone, came)
                   /\ Rising(box.q) /\ Rising(fifo)
BY DEF BytesInOrder, InOrder

LEMMA PlacesNext ==
  BytesInOrder' <=> /\ InOrder(got, InBox, InHand, InSeq(fifo), Gone, came)'
                    /\ Rising(box.q)' /\ Rising(fifo)'
BY DEF BytesInOrder, InOrder

LEMMA FifoLost ==
  ASSUME NEW g, NEW b, NEW h, NEW f, NEW l, NEW n \in Nat, InOrder(g, b, h, f, l, n)
  PROVE  InOrder(g, b, h, {}, l \cup f, n)
<1>1. \A x \in g \cup b \cup h : x \notin f
  BY DEF InOrder, Before
<1> QED
  BY <1>1 DEF InOrder, Before

LEMMA BoxLost ==
  ASSUME NEW g, NEW b, NEW h, NEW f, NEW l, NEW n \in Nat, InOrder(g, b, h, f, l, n)
  PROVE  InOrder(g, {}, h, f, l \cup b, n)
<1>1. \A x \in b : x \notin g \cup h \cup f
  BY DEF InOrder, Before
<1> QED
  BY <1>1 DEF InOrder, Before

LEMMA HandLost ==
  ASSUME NEW g, NEW b, NEW h, NEW f, NEW l, NEW n \in Nat, InOrder(g, b, h, f, l, n)
  PROVE  InOrder(g, b, {}, f, l \cup h, n)
<1>1. \A x \in h : x \notin g \cup b \cup f
  BY DEF InOrder, Before
<1> QED
  BY <1>1 DEF InOrder, Before

LEMMA HandToBox ==
  ASSUME NEW g, NEW b, NEW h, NEW f, NEW l, NEW n \in Nat, InOrder(g, b, h, f, l, n)
  PROVE  InOrder(g, b \cup h, {}, f, l, n)
BY DEF InOrder, Before

LEMMA BoxToReceiver ==
  ASSUME NEW g, NEW b, NEW h, NEW f, NEW l, NEW n \in Nat, NEW x, Before({x}, b),
         InOrder(g, b \cup {x}, h, f, l, n)
  PROVE  InOrder(g \cup {x}, b, h, f, l, n)
BY DEF InOrder, Before

LEMMA FifoToHand ==
  ASSUME NEW g, NEW b, NEW f, NEW l, NEW n \in Nat, NEW x, Before({x}, f),
         InOrder(g, b, {}, f \cup {x}, l, n)
  PROVE  InOrder(g, b, {x}, f, l, n)
BY DEF InOrder, Before

LEMMA HeadLost ==
  ASSUME NEW g, NEW b, NEW h, NEW f, NEW l, NEW n \in Nat, NEW x, Before({x}, f),
         InOrder(g, b, h, f \cup {x}, l, n)
  PROVE  InOrder(g, b, h, f, l \cup {x}, n)
<1>1. x \in 1 .. n
  BY DEF InOrder
<1>2. x \notin g \cup b \cup h \cup f
  BY <1>1 DEF InOrder, Before
<1> QED
  BY <1>2 DEF InOrder, Before

LEMMA Came ==
  ASSUME NEW g, NEW b, NEW h, NEW f, NEW l, NEW n \in Nat, InOrder(g, b, h, f, l, n)
  PROVE  /\ InOrder(g, b, h, f \cup {n + 1}, l, n + 1)
         /\ InOrder(g, b, h, f, l \cup {n + 1}, n + 1)
<1>1. 1 .. n + 1 = (1 .. n) \cup {n + 1}
  OBVIOUS
<1>2. /\ \A x \in 1 .. n : x < n + 1 /\ x # n + 1
      /\ g \subseteq 1 .. n /\ b \subseteq 1 .. n /\ h \subseteq 1 .. n /\ f \subseteq 1 .. n
      /\ l \subseteq 1 .. n
  BY DEF InOrder
<1>3. InOrder(g, b, h, f \cup {n + 1}, l, n + 1)
  BY <1>1, <1>2 DEF InOrder, Before
<1>4. InOrder(g, b, h, f, l \cup {n + 1}, n + 1)
  BY <1>1, <1>2 DEF InOrder, Before
<1> QED
  BY <1>3, <1>4

LEMMA BytesSame ==
  ASSUME BytesInOrder, UNCHANGED <<fifo, box, isr.hand, got, lost, came>>
  PROVE  BytesInOrder'
<1>1. UNCHANGED <<InBox, InHand, Gone, InSeq(fifo)>>
  BY DEF InBox, InHand, Gone
<1>2. InOrder(got, InBox, InHand, InSeq(fifo), Gone, came)'
  BY <1>1, Places
<1> QED
  BY <1>2, Places, PlacesNext

LEMMA InFifo == ASSUME ByteTypes PROVE InSeq(fifo) \ {Junk} = InSeq(fifo)
BY Inside DEF Junk

LEMMA ByteSequences ==
  ASSUME ByteTypes PROVE fifo \in Seq(Nat) /\ box.q \in Seq(Nat) /\ came \in Nat
<1>1. fifo \in Seq(1 .. MaxBytes) /\ box.q \in Seq(0 .. MaxBytes)
  BY DEF ByteTypes
<1>2. 1 .. MaxBytes \subseteq Nat /\ 0 .. MaxBytes \subseteq Nat
  BY UartAssumption
<1> QED
  BY <1>1, <1>2, SeqMonotonic, UartAssumption DEF ByteTypes

\* The FIFO is emptied.
LEMMA FlushBytes ==
  ASSUME ByteTypes, BytesInOrder, NEW why \in Reasons, fifo' = <<>>, Lose(InSeq(fifo), why),
         UNCHANGED <<box, isr.hand, got, came>>
  PROVE  BytesInOrder'
<1>1. Gone' = Gone \cup InSeq(fifo)
  BY LoseGone, Inside, InFifo
<1>2. UNCHANGED <<InBox, InHand>> /\ InSeq(fifo)' = {} /\ Rising(fifo)' /\ Rising(box.q)'
  BY InSeqEmpty, RisingEmpty, Places DEF InBox, InHand
<1>3. InOrder(got, InBox, InHand, {}, Gone \cup InSeq(fifo), came)
  BY Places, FifoLost, ByteSequences
<1>4. InOrder(got, InBox, InHand, InSeq(fifo), Gone, came)'
  BY <1>1, <1>2, <1>3
<1> QED
  BY <1>2, <1>4, Places, PlacesNext

\* The mailbox is replaced or deleted.
LEMMA CloseBytes ==
  ASSUME ByteTypes, BytesInOrder, box'.q = <<>>, Lose(InSeq(box.q), "closed"),
         UNCHANGED <<fifo, isr, got, came>>
  PROVE  BytesInOrder'
<1>1. Gone' = Gone \cup InBox
  BY LoseGone, Inside DEF Reasons, InBox
<1>2. UNCHANGED <<InSeq(fifo), InHand>> /\ InBox' = {} /\ Rising(fifo)' /\ Rising(box.q)'
  BY InSeqEmpty, RisingEmpty, Places DEF InBox, InHand
<1>3. InOrder(got, {}, InHand, InSeq(fifo), Gone \cup InBox, came)
  BY Places, BoxLost, ByteSequences
<1>4. InOrder(got, InBox, InHand, InSeq(fifo), Gone, came)'
  BY <1>1, <1>2, <1>3
<1> QED
  BY <1>2, <1>4, Places, PlacesNext

\* A receiver takes the first of the mailbox.
LEMMA ReceiveBytes ==
  ASSUME ByteTypes, IsrInv, BytesInOrder, Receive
  PROVE  BytesInOrder'
<1> DEFINE x == Head(box.q)
           s == Tail(box.q)
<1>1. /\ isr.pc = "idle" /\ box.q # <<>> /\ got' = got \cup {x}
      /\ box' = [box EXCEPT !.q = s] /\ UNCHANGED <<fifo, isr, came, lost>>
  BY DEF Receive, Runs
<1>2. box'.q = s
  BY <1>1 DEF ByteTypes
<1>3. InSeq(box.q) = InSeq(s) \cup {x}
  BY <1>1, InSeqTail DEF ByteTypes
<1>4. Junk \notin InSeq(box.q)
  BY <1>1 DEF IsrInv
<1>5. InBox = InSeq(s) \cup {x} /\ InBox' = InSeq(s)
  BY <1>2, <1>3, <1>4 DEF InBox
<1>6. Before({x}, InSeq(s)) /\ Rising(s)
  <2>1. Rising(s) /\ Before({x}, InSeq(s) \ {Junk})
    BY <1>1, <1>3, <1>4, RisingTail, ByteSequences, Places
  <2> QED
    BY <2>1, <1>3, <1>4
<1> HIDE DEF x, s
<1>7. UNCHANGED <<InSeq(fifo), InHand, Gone>>
  BY <1>1 DEF InHand, Gone
<1>8. InOrder(got, InSeq(s) \cup {x}, InHand, InSeq(fifo), Gone, came)
  BY <1>5, Places
<1>9. InOrder(got \cup {x}, InSeq(s), InHand, InSeq(fifo), Gone, came)
  BY <1>6, <1>8, BoxToReceiver, ByteSequences
<1>10. InOrder(got, InBox, InHand, InSeq(fifo), Gone, came)'
  BY <1>1, <1>5, <1>7, <1>9
<1>11. Rising(box.q)' /\ Rising(fifo)'
  BY <1>1, <1>2, <1>6, Places
<1> QED
  BY <1>10, <1>11, Places, PlacesNext

\* A read of RBR takes the first byte of the FIFO, or none.
LEMMA PoppedBytes ==
  ASSUME ByteTypes, BytesInOrder, fifo' = Popped
  PROVE  /\ Rising(fifo')
         /\ \/ ReadValue = Junk /\ fifo' = fifo
            \/ /\ ReadValue # Junk /\ InSeq(fifo) = InSeq(fifo') \cup {ReadValue}
               /\ Before({ReadValue}, InSeq(fifo'))
<1>1. CASE dlab \/ fifo = <<>>
  BY <1>1, Places DEF Popped, ReadValue
<1>2. CASE ~ (dlab \/ fifo = <<>>)
  <2>1. fifo' = Tail(fifo) /\ ReadValue = Head(fifo) /\ fifo # <<>>
    BY <1>2 DEF Popped, ReadValue
  <2>2. Head(fifo) \in 1 .. MaxBytes /\ InSeq(fifo) = InSeq(Tail(fifo)) \cup {Head(fifo)}
    BY <2>1, InSeqTail DEF ByteTypes
  <2>3. Head(fifo) # Junk /\ InSeq(Tail(fifo)) \ {Junk} = InSeq(Tail(fifo))
    BY <2>2, InFifo DEF Junk
  <2>4. Rising(Tail(fifo)) /\ Before({Head(fifo)}, InSeq(Tail(fifo)))
    BY <2>1, <2>3, RisingTail, ByteSequences, Places
  <2> QED
    BY <2>1, <2>2, <2>3, <2>4
<1> QED
  BY <1>1, <1>2

LEMMA IgnoreBytes ==
  ASSUME ByteTypes, TaskTypes, BytesInOrder, IsrInv, IsrIgnore
  PROVE  BytesInOrder'
<1>1. /\ isr.pc = "ignore" /\ isr' = IsrIdle /\ fifo' = Popped
      /\ Lose({ReadValue}, "ignored") /\ UNCHANGED <<box, got, came>>
  BY DEF IsrIgnore, ReadRbr
<1>2. InHand = {} /\ InHand' = {}
  BY <1>1 DEF InHand, IsrIdle, IsrInv
<1>3. UNCHANGED InBox /\ Rising(box.q)'
  BY <1>1, Places DEF InBox
<1>4. Gone' = Gone \cup ({ReadValue} \ {Junk})
  <2>1. {ReadValue} \in SUBSET (0 .. MaxBytes)
    BY ReadValueType
  <2> QED
    BY <1>1, <2>1, LoseGone DEF Reasons
<1>5. InOrder(got, InBox, {}, InSeq(fifo), Gone, came)
  BY <1>2, Places
<1>6. CASE ReadValue = Junk /\ fifo' = fifo
  <2>1. InOrder(got, InBox, InHand, InSeq(fifo), Gone, came)'
    BY <1>1, <1>2, <1>3, <1>4, <1>5, <1>6
  <2> QED
    BY <1>3, <1>6, <2>1, Places, PlacesNext
<1>7. CASE /\ ReadValue # Junk /\ InSeq(fifo) = InSeq(fifo') \cup {ReadValue}
           /\ Before({ReadValue}, InSeq(fifo')) /\ Rising(fifo')
  <2>1. InOrder(got, InBox, {}, InSeq(fifo'), Gone \cup {ReadValue}, came)
    BY <1>5, <1>7, HeadLost, ByteSequences
  <2>2. InOrder(got, InBox, InHand, InSeq(fifo), Gone, came)'
    BY <1>1, <1>2, <1>3, <1>4, <1>7, <2>1
  <2> QED
    BY <1>3, <1>7, <2>2, Places, PlacesNext
<1> QED
  BY <1>1, <1>6, <1>7, PoppedBytes

LEMMA ReadBytes ==
  ASSUME ByteTypes, TaskTypes, BytesInOrder, IsrInv, IsrRead
  PROVE  BytesInOrder'
<1>1. /\ isr.pc = "read" /\ isr' = [isr EXCEPT !.pc = "send", !.hand = ReadValue]
      /\ fifo' = Popped /\ UNCHANGED <<box, got, came, lost>>
  BY DEF IsrRead, ReadRbr
<1>2. InHand = {} /\ InHand' = {ReadValue} \ {Junk}
  <2>1. isr'.hand = ReadValue /\ isr.hand = Junk
    BY <1>1 DEF TaskTypes, IsrInv
  <2> QED
    BY <2>1 DEF InHand
<1>3. UNCHANGED <<InBox, Gone>> /\ Rising(box.q)'
  BY <1>1, Places DEF InBox, Gone
<1>4. InOrder(got, InBox, {}, InSeq(fifo), Gone, came)
  BY <1>2, Places
<1>5. CASE ReadValue = Junk /\ fifo' = fifo
  <2>1. InOrder(got, InBox, InHand, InSeq(fifo), Gone, came)'
    BY <1>1, <1>2, <1>3, <1>4, <1>5
  <2> QED
    BY <1>3, <1>5, <2>1, Places, PlacesNext
<1>6. CASE /\ ReadValue # Junk /\ InSeq(fifo) = InSeq(fifo') \cup {ReadValue}
           /\ Before({ReadValue}, InSeq(fifo')) /\ Rising(fifo')
  <2>1. InOrder(got, InBox, {ReadValue}, InSeq(fifo'), Gone, came)
    BY <1>4, <1>6, FifoToHand, ByteSequences
  <2>2. InOrder(got, InBox, InHand, InSeq(fifo), Gone, came)'
    BY <1>1, <1>2, <1>3, <1>6, <2>1
  <2> QED
    BY <1>3, <1>6, <2>2, Places, PlacesNext
<1> QED
  BY <1>1, <1>5, <1>6, PoppedBytes

LEMMA SentBytes ==
  ASSUME ByteTypes, TaskTypes, BytesInOrder, IsrSend
  PROVE  BytesInOrder'
<1>1. /\ isr' = [isr EXCEPT !.pc = "more", !.hand = Junk] /\ UNCHANGED <<fifo, got, came>>
      /\ \/ box' = [box EXCEPT !.q = Append(box.q, isr.hand)] /\ UNCHANGED lost
         \/ /\ Lose({isr.hand}, IF box.st = "alive" THEN "full" ELSE "nowhere")
            /\ UNCHANGED box
  BY DEF IsrSend
<1>2. InHand' = {} /\ UNCHANGED InSeq(fifo) /\ Rising(fifo)'
  BY <1>1, Places DEF InHand, TaskTypes
<1>3. isr.hand \in 0 .. MaxBytes /\ isr.hand \in Nat
  BY UartAssumption DEF TaskTypes
<1>4. CASE box' = [box EXCEPT !.q = Append(box.q, isr.hand)] /\ UNCHANGED lost
  <2>1. box'.q = Append(box.q, isr.hand)
    BY <1>4 DEF ByteTypes
  <2>2. InSeq(box'.q) = InSeq(box.q) \cup {isr.hand}
    <3>1. \A s \in Seq(0 .. MaxBytes), x \in 0 .. MaxBytes :
            InSeq(Append(s, x)) = InSeq(s) \cup {x}
      BY OneMore
    <3> QED
      BY <1>3, <2>1, <3>1 DEF ByteTypes
  <2>3. InBox' = InBox \cup InHand /\ UNCHANGED Gone
    BY <1>4, <2>2 DEF InBox, InHand, Gone
  <2>4. Rising(box.q)'
    <3>1. isr.hand # Junk => Before(InSeq(box.q) \ {Junk}, {isr.hand})
      BY DEF BytesInOrder, Before, InBox, InHand
    <3> QED
      BY <1>3, <2>1, <3>1, RisingAppend, ByteSequences, Places, PlacesNext
  <2>5. InOrder(got, InBox \cup InHand, {}, InSeq(fifo), Gone, came)
    BY Places, HandToBox, ByteSequences
  <2>6. InOrder(got, InBox, InHand, InSeq(fifo), Gone, came)'
    BY <1>1, <1>2, <2>3, <2>5
  <2> QED
    BY <1>2, <2>4, <2>6, Places, PlacesNext
<1>5. CASE /\ Lose({isr.hand}, IF box.st = "alive" THEN "full" ELSE "nowhere")
           /\ UNCHANGED box
  <2>1. /\ {isr.hand} \in SUBSET (0 .. MaxBytes)
        /\ (IF box.st = "alive" THEN "full" ELSE "nowhere") \in Reasons
    BY <1>3 DEF Reasons
  <2>2. Gone' = Gone \cup InHand
    BY <1>5, <2>1, LoseGone DEF InHand
  <2>3. UNCHANGED InBox /\ Rising(box.q)'
    BY <1>5, Places DEF InBox
  <2>4. InOrder(got, InBox, {}, InSeq(fifo), Gone \cup InHand, came)
    BY Places, HandLost, ByteSequences
  <2>5. InOrder(got, InBox, InHand, InSeq(fifo), Gone, came)'
    BY <1>1, <1>2, <2>2, <2>3, <2>4
  <2> QED
    BY <1>2, <2>3, <2>5, Places, PlacesNext
<1> QED
  BY <1>1, <1>4, <1>5

LEMMA ArriveBytes ==
  ASSUME ByteTypes, BytesInOrder, Arrive, UNCHANGED <<box, isr, got>>
  PROVE  BytesInOrder'
<1>1. came' = came + 1 /\ came \in Nat /\ came + 1 \in 1 .. MaxBytes
  BY UartAssumption, ByteSequences DEF Arrive, ByteTypes
<1>2. UNCHANGED <<InBox, InHand>> /\ Rising(box.q)'
  BY Places DEF InBox, InHand
<1>3. InOrder(got, InBox, InHand, InSeq(fifo), Gone, came)
  BY Places
<1>4. CASE fifo' = Append(fifo, came + 1) /\ UNCHANGED lost
  <2>1. InSeq(fifo)' = InSeq(fifo) \cup {came + 1} /\ UNCHANGED Gone
    BY <1>1, <1>4, OneMore, ByteSequences DEF Gone
  <2>2. Rising(fifo)'
    <3>1. Before(InSeq(fifo) \ {Junk}, {came + 1})
      BY <1>1, <1>3 DEF Before, InOrder
    <3> QED
      BY <1>1, <1>4, <3>1, RisingAppend, ByteSequences, Places, PlacesNext
  <2>3. InOrder(got, InBox, InHand, InSeq(fifo) \cup {came + 1}, Gone, came + 1)
    BY <1>1, <1>3, Came
  <2>4. InOrder(got, InBox, InHand, InSeq(fifo), Gone, came)'
    BY <1>1, <1>2, <2>1, <2>3
  <2> QED
    BY <1>2, <2>2, <2>4, Places, PlacesNext
<1>5. CASE Lose({came + 1}, "overrun") /\ UNCHANGED fifo
  <2>1. {came + 1} \in SUBSET (0 .. MaxBytes) /\ {came + 1} \ {Junk} = {came + 1}
    BY <1>1 DEF Junk
  <2>2. Gone' = Gone \cup {came + 1} /\ UNCHANGED InSeq(fifo) /\ Rising(fifo)'
    BY <1>5, <2>1, LoseGone, Places DEF Reasons
  <2>3. InOrder(got, InBox, InHand, InSeq(fifo), Gone \cup {came + 1}, came + 1)
    BY <1>1, <1>3, Came
  <2>4. InOrder(got, InBox, InHand, InSeq(fifo), Gone, came)'
    BY <1>1, <1>2, <2>2, <2>3
  <2> QED
    BY <1>2, <2>2, <2>4, Places, PlacesNext
<1> QED
  BY <1>4, <1>5 DEF Arrive

\* Every action keeps the places of the bytes.
LEMMA BytesStep ==
  ASSUME TaskTypes, ByteTypes, IsrInv, BytesInOrder, [UartNext]_uartVars
  PROVE  BytesInOrder'
<1>1. CASE InitBegin
  BY <1>1, BytesSame DEF InitBegin, Begin, Runs
<1>2. CASE DeinitBegin
  BY <1>2, BytesSame DEF DeinitBegin, Begin, Runs
<1>3. CASE Standby
  BY <1>3, FlushBytes DEF Standby, ResetController, Reasons
<1>4. ASSUME NEW rate \in Rates, ControlBegin(rate) PROVE BytesInOrder'
  BY <1>4, BytesSame DEF ControlBegin, Begin, Runs
<1>5. ASSUME NEW on \in BOOLEAN, SwitchRx(on) PROVE BytesInOrder'
  BY <1>5, BytesSame DEF SwitchRx, Begin, Runs
<1>6. ASSUME NEW on \in BOOLEAN, FlowControl(on) PROVE BytesInOrder'
  BY <1>6, BytesSame DEF FlowControl, Begin, Runs
<1>7. ASSUME NEW on \in BOOLEAN, SetLoopback(on) PROVE BytesInOrder'
  BY <1>7, BytesSame DEF SetLoopback, Begin, Runs
<1>8. CASE Connect
  BY <1>8, BytesSame DEF Connect, Step, Runs
<1>9. CASE Format
  BY <1>9, BytesSame DEF Format, Step, Runs, LcrTaken
<1>10. CASE Reset
  BY <1>10, FlushBytes DEF Reset, ResetController, Reasons
<1>11. CASE Halt
  BY <1>11, BytesSame DEF Halt, Step, Runs, ForcedWhenHalted
<1>12. CASE SetDlab
  BY <1>12, BytesSame DEF SetDlab, Step, Runs, LcrTaken
<1>13. CASE WriteDivisor
  BY <1>13, BytesSame DEF WriteDivisor, Step, Runs
<1>14. CASE ClearDlab
  BY <1>14, BytesSame DEF ClearDlab, Step, Runs
<1>15. CASE Release
  BY <1>15, BytesSame DEF Release, Step, OwnerReturn, OwnerIdle, Runs
<1>16. CASE Claim
  BY <1>16, BytesSame DEF Claim, Step, OwnerReturn, OwnerIdle, Runs
<1>17. CASE Enable
  BY <1>17, BytesSame DEF Enable, Step, Runs
<1>18. CASE Create
  <2>1. box'.q = <<>>
    BY <1>18 DEF Create, NoBox
  <2> QED
    BY <1>18, <2>1, CloseBytes DEF Create
<1>19. CASE EnableRdi
  BY <1>19, BytesSame DEF EnableRdi, OwnerReturn, OwnerIdle, Runs
<1>20. CASE Off
  BY <1>20, BytesSame DEF Off, Step, Runs
<1>21. CASE Mask
  BY <1>21, BytesSame DEF Mask, Step, Runs, IrqAfterMask
<1>22. CASE Delete
  <2>1. box'.q = <<>>
    BY <1>22 DEF Delete
  <2> QED
    BY <1>22, <2>1, CloseBytes DEF Delete
<1>23. ASSUME NEW how \in {"wait", "timed"}, ReceiveBegin(how) PROVE BytesInOrder'
  BY <1>23, BytesSame DEF ReceiveBegin, Runs
<1>24. CASE Receive
  BY <1>24, ReceiveBytes
<1>25. CASE ReceiveTimeout
  BY <1>25, BytesSame DEF ReceiveTimeout, Runs
<1>26. ASSUME NEW s \in Senders, SendBegin(s) PROVE BytesInOrder'
  BY <1>26, BytesSame DEF SendBegin, Runs
<1>27. ASSUME NEW s \in Senders, SendPoll(s) PROVE BytesInOrder'
  BY <1>27, BytesSame DEF SendPoll, Runs, RoomSeen
<1>28. ASSUME NEW s \in Senders, SendWrite(s) PROVE BytesInOrder'
  BY <1>28, BytesSame DEF SendWrite, Runs
<1>29. CASE IsrEnter
  <2>1. isr'.hand = isr.hand /\ UNCHANGED <<fifo, box, got, lost, came>>
    BY <1>29 DEF IsrEnter, IsrIdle, IsrInv, TaskTypes
  <2> QED
    BY <2>1, BytesSame
<1>30. CASE IsrStatus
  <2>1. isr'.hand = isr.hand /\ UNCHANGED <<fifo, box, got, lost, came>>
    BY <1>30 DEF IsrStatus, IsrIdle, IsrInv, TaskTypes
  <2> QED
    BY <2>1, BytesSame
<1>31. CASE IsrBusy
  <2>1. isr'.hand = isr.hand
    BY <1>31 DEF IsrBusy, IsrIdle, IsrInv
  <2> QED
    BY <1>31, <2>1, FlushBytes DEF IsrBusy, Reasons
<1>32. CASE IsrIgnore
  BY <1>32, IgnoreBytes
<1>33. CASE IsrRead
  BY <1>33, ReadBytes
<1>34. CASE IsrSend
  BY <1>34, SentBytes
<1>35. CASE IsrMore
  <2>1. isr'.hand = isr.hand /\ UNCHANGED <<fifo, box, got, lost, came>>
    BY <1>35 DEF IsrMore, IsrIdle, IsrInv, TaskTypes
  <2> QED
    BY <2>1, BytesSame
<1>36. CASE FromPeer
  BY <1>36, ArriveBytes DEF FromPeer
<1>37. CASE Transmit
  BY <1>37, ArriveBytes, BytesSame DEF Transmit
<1>38. CASE CharTimeout
  BY <1>38, BytesSame DEF CharTimeout
<1>39. CASE ModemChange
  BY <1>39, BytesSame DEF ModemChange
<1>40. CASE UNCHANGED uartVars
  BY <1>40, BytesSame
<1> QED
  BY <1>1, <1>2, <1>3, <1>4, <1>5, <1>6, <1>7, <1>8, <1>9, <1>10, <1>11, <1>12, <1>13,
     <1>14, <1>15, <1>16, <1>17, <1>18, <1>19, <1>20, <1>21, <1>22, <1>23, <1>24, <1>25,
     <1>26, <1>27, <1>28, <1>29, <1>30, <1>31, <1>32, <1>33, <1>34, <1>35, <1>36, <1>37,
     <1>38, <1>39, <1>40 DEF UartNext, Task, OwnerCall, OwnerStep, Isr, Line

-----------------------------------------------------------------------------
(* The theorems.                                                           *)

LEMMA UartStart == UartInit => UartInv
<1> SUFFICES ASSUME UartInit PROVE UartInv
  OBVIOUS
<1> USE UartAssumption DEF UartInit, OwnerIdle, IsrIdle, NoBox, Junk
<1>1. UartFlags
  BY DEF UartFlags, PortFlags, HistoryFlags, ByteFlags
<1>2. RegisterTypes
  BY DEF RegisterTypes
<1>3. OwnerTypes
  BY DEF OwnerTypes
<1>4. TaskTypes
  BY DEF TaskTypes
<1>5. ByteTypes
  BY DEF ByteTypes
<1>6. CallInv /\ WindowInv /\ BusyInv /\ PortInv
  BY DEF CallInv, WindowInv, InWindow, LateInit, BusyInv, PortInv
<1>7. InSeq(box.q) = {} /\ InSeq(fifo) = {} /\ Rising(box.q) /\ Rising(fifo)
  BY InSeqEmpty, RisingEmpty
<1>8. IsrInv
  BY <1>7 DEF IsrInv
<1>9. RateInv /\ SendInv
  BY DEF RateInv, SendInv, PastDivisor, LateInit
<1>10. BytesInOrder
  <2>1. InBox = {} /\ InHand = {} /\ Gone = {}
    BY <1>7 DEF InBox, InHand, Gone
  <2>2. InOrder({}, {}, {}, {}, {}, 0)
    BY DEF InOrder, Before
  <2> QED
    BY <1>7, <2>1, <2>2, Places
<1> QED
  BY <1>1, <1>2, <1>3, <1>4, <1>5, <1>6, <1>8, <1>9, <1>10 DEF UartInv, UartTypeOK

LEMMA UartStep == UartInv /\ [UartNext]_uartVars => UartInv'
<1> SUFFICES ASSUME UartInv, [UartNext]_uartVars PROVE UartInv'
  OBVIOUS
<1>1. /\ PortFlags /\ HistoryFlags /\ ByteFlags
      /\ RegisterTypes /\ OwnerTypes /\ TaskTypes /\ ByteTypes
      /\ CallInv /\ WindowInv /\ BusyInv /\ PortInv /\ IsrInv /\ RateInv /\ SendInv
      /\ BytesInOrder
  BY DEF UartInv, UartTypeOK, UartFlags
<1>2. (PortFlags /\ HistoryFlags /\ ByteFlags)'
  BY <1>1, PortFlagsStep, HistoryFlagsStep, ByteFlagsStep
<1>3. (RegisterTypes /\ OwnerTypes /\ TaskTypes /\ ByteTypes)'
  BY <1>1, RegisterTypesStep, OwnerTypesStep, TaskTypesStep, ByteTypesStep
<1>4. (CallInv /\ WindowInv /\ BusyInv /\ PortInv /\ IsrInv)'
  BY <1>1, CallStep, WindowStep, BusyStep, PortStep, IsrStep
<1>5. (RateInv /\ SendInv /\ BytesInOrder)'
  BY <1>1, RateStep, SendStep, BytesStep
<1> QED
  BY <1>2, <1>3, <1>4, <1>5 DEF UartInv, UartTypeOK, UartFlags

\* UartInv is an inductive invariant of one port, its tasks and its handler,
\* for any number of senders, depths of FIFO and mailbox, and rates.
THEOREM UartInvariant == UartSpec => []UartInv
<1> QED
  BY UartStart, UartStep, PTL DEF UartSpec

\* Each byte that came is received once and in the order it came in, or lost in
\* one of the ways named; what is read of the divisor is never received.
THEOREM BytesAccounted == UartSpec => []BytesInOrder
<1>1. UartInv => BytesInOrder
  BY DEF UartInv
<1> QED
  BY <1>1, UartInvariant, PTL

\* The handler has no mailbox to send to only inside a later init, before
\* hal_mailbox_create, or after an init that found none.
THEOREM MailboxThere == UartSpec => []HandlerHasMailbox
<1>1. UartInv => HandlerHasMailbox
  BY DEF UartInv, IsrInv, PortInv, HandlerHasMailbox
<1> QED
  BY <1>1, UartInvariant, PTL

\* A port that is open and was not refused its interrupt receives, unless
\* disable_rx switched it off.
THEOREM OpenPortReceives == UartSpec => []OpenReceives
<1>1. UartInv => OpenReceives
  BY DEF UartInv, CallInv, PortInv, OpenReceives
<1> QED
  BY <1>1, UartInvariant, PTL

\* Between calls the divisor is that of the rate asked for, or of the default
\* after a standby, unless a byte was sent into it.
THEOREM RateKept == UartSpec => []DivisorRight
<1>1. UartInv => DivisorRight
  BY DEF UartInv, CallInv, RateInv, DivisorRight
<1> QED
  BY <1>1, UartInvariant, PTL

\* A byte to send is overwritten only if two senders saw the same room.
THEOREM SentBytesKept == UartSpec => []TxKept
<1>1. UartInv => TxKept
  <2>1. UartInv => ByteFlags /\ SendInv
    BY DEF UartInv, UartTypeOK, UartFlags
  <2> QED
    BY <2>1 DEF SendInv, TxKept, ByteFlags
<1> QED
  BY <1>1, UartInvariant, PTL

-----------------------------------------------------------------------------
(* The port implements ByteLine.                                           *)

\* A step brings a byte, delivers one, or leaves both counts as they are; and
\* what is lost stays lost.
LEMMA ByteMoves ==
  ASSUME [UartNext]_uartVars
  PROVE  \/ Arrive /\ UNCHANGED <<box, isr, got>>
         \/ Receive
         \/ UNCHANGED <<came, got, lost>>
         \/ /\ UNCHANGED <<came, got>>
            /\ \E bytes, why : Lose(bytes, why)
<1>1. CASE InitBegin \/ DeinitBegin \/ Connect \/ Format \/ Halt
  BY <1>1 DEF InitBegin, DeinitBegin, Connect, Format, Halt
<1>2. CASE Standby \/ Reset
  BY <1>2 DEF Standby, Reset, ResetController
<1>3. ASSUME NEW rate \in Rates, ControlBegin(rate) PROVE UNCHANGED <<came, got, lost>>
  BY <1>3 DEF ControlBegin
<1>4. ASSUME NEW on \in BOOLEAN, SwitchRx(on) \/ FlowControl(on) \/ SetLoopback(on)
      PROVE  UNCHANGED <<came, got, lost>>
  BY <1>4 DEF SwitchRx, FlowControl, SetLoopback
<1>5. CASE SetDlab \/ WriteDivisor \/ ClearDlab \/ Release \/ Claim \/ Enable \/ EnableRdi
  BY <1>5 DEF SetDlab, WriteDivisor, ClearDlab, Release, Claim, Enable, EnableRdi
<1>6. CASE Create \/ Delete
  BY <1>6 DEF Create, Delete
<1>7. CASE Off \/ Mask
  BY <1>7 DEF Off, Mask
<1>8. ASSUME NEW how \in {"wait", "timed"}, ReceiveBegin(how)
      PROVE  UNCHANGED <<came, got, lost>>
  BY <1>8 DEF ReceiveBegin
<1>9. CASE ReceiveTimeout
  BY <1>9 DEF ReceiveTimeout
<1>10. ASSUME NEW s \in Senders, SendBegin(s) \/ SendPoll(s) \/ SendWrite(s)
       PROVE  UNCHANGED <<came, got, lost>>
  BY <1>10, SendFrame
<1>11. CASE IsrEnter \/ IsrStatus \/ IsrRead \/ IsrMore
  BY <1>11 DEF IsrEnter, IsrStatus, IsrRead, IsrMore
<1>12. CASE IsrBusy \/ IsrIgnore
  BY <1>12 DEF IsrBusy, IsrIgnore
<1>13. CASE IsrSend
  BY <1>13 DEF IsrSend
<1>14. CASE FromPeer \/ Transmit
  BY <1>14 DEF FromPeer, Transmit
<1>15. CASE CharTimeout \/ ModemChange
  BY <1>15 DEF CharTimeout, ModemChange
<1>16. CASE UNCHANGED uartVars
  BY <1>16
<1> QED
  BY <1>1, <1>2, <1>3, <1>4, <1>5, <1>6, <1>7, <1>8, <1>9, <1>10, <1>11, <1>12, <1>13,
     <1>14, <1>15, <1>16 DEF UartNext, Task, OwnerCall, OwnerStep, Isr, Line

\* The bytes on their way are those that came and are neither received nor lost.
LEMMA OnWayIsRest ==
  ASSUME BytesInOrder, came \in Nat
  PROVE  /\ OnWay = (1 .. came) \ (got \cup Gone)
         /\ got \cap Gone = {} /\ Before(got, OnWay)
<1>1. /\ got \cup OnWay \cup Gone = 1 .. came /\ (got \cup OnWay) \cap Gone = {}
      /\ Before(got, OnWay)
  BY DEF BytesInOrder, OnWay
<1>2. got \cap OnWay = {}
  BY <1>1 DEF Before
<1> QED
  BY <1>1, <1>2

LEMMA OnWayNext ==
  ASSUME BytesInOrder', came' \in Nat
  PROVE  /\ OnWay' = (1 .. came') \ (got' \cup Gone')
         /\ got' \cap Gone' = {} /\ Before(got, OnWay)'
<1>1. /\ got' \cup OnWay' \cup Gone' = 1 .. came' /\ (got' \cup OnWay') \cap Gone' = {}
      /\ Before(got, OnWay)'
  BY DEF BytesInOrder, OnWay
<1>2. got' \cap OnWay' = {}
  BY <1>1 DEF Before
<1> QED
  BY <1>1, <1>2

\* A receive delivers the first of the bytes on their way.
LEMMA DeliverStep ==
  ASSUME ByteTypes, IsrInv, BytesInOrder, BytesInOrder', Receive
  PROVE  \E byte \in OnWay : Received!Deliver(byte)
<1> DEFINE x == Head(box.q)
<1>1. isr.pc = "idle" /\ box.q # <<>> /\ got' = got \cup {x} /\ UNCHANGED <<came, lost>>
  BY DEF Receive, Runs
<1>2. x \in OnWay
  <2>1. InSeq(box.q) = InSeq(Tail(box.q)) \cup {x} /\ Junk \notin InSeq(box.q)
    BY <1>1, InSeqTail DEF ByteTypes, IsrInv
  <2> QED
    BY <2>1 DEF OnWay, InBox
<1> HIDE DEF x
<1>3. UNCHANGED Gone /\ came \in Nat /\ came' \in Nat
  BY <1>1, ByteSequences DEF Gone
<1>4. OnWay' = OnWay \ {x}
  <2>1. OnWay = (1 .. came) \ (got \cup Gone)
    BY <1>3, OnWayIsRest
  <2>2. OnWay' = (1 .. came') \ (got' \cup Gone')
    BY <1>3, OnWayNext
  <2> QED
    BY <1>1, <1>3, <2>1, <2>2
<1>5. \A other \in OnWay \ {x} : x < other
  <2>1. Before(got, OnWay)'
    BY <1>3, OnWayNext
  <2> QED
    BY <1>1, <1>4, <2>1 DEF Before
<1>6. Received!Deliver(x)
  BY <1>1, <1>3, <1>4, <1>5 DEF Received!Deliver
<1> QED
  BY <1>2, <1>6

LEMMA AcceptStep ==
  ASSUME ByteTypes, BytesInOrder, BytesInOrder', Arrive, UNCHANGED <<box, isr, got>>
  PROVE  Received!Accept \/ Received!Overrun
<1>1. came \in Nat /\ came' = came + 1 /\ came' \in Nat /\ came + 1 \in 1 .. MaxBytes
  BY UartAssumption, ByteSequences DEF Arrive, ByteTypes
<1>2. OnWay = (1 .. came) \ (got \cup Gone) /\ OnWay' = (1 .. came + 1) \ (got \cup Gone')
  BY <1>1, OnWayIsRest, OnWayNext
<1>3. 1 .. came + 1 = (1 .. came) \cup {came + 1} /\ came + 1 \notin 1 .. came
  BY <1>1
<1>4. got \cup Gone \subseteq 1 .. came
  BY DEF BytesInOrder
<1>5. CASE UNCHANGED lost
  <2>1. Gone' = Gone
    BY <1>5 DEF Gone
  <2>2. OnWay' = OnWay \cup {came + 1}
    BY <1>2, <1>3, <1>4, <2>1
  <2> QED
    BY <1>1, <2>1, <2>2 DEF Received!Accept
<1>6. CASE Lose({came + 1}, "overrun")
  <2>1. {came + 1} \in SUBSET (0 .. MaxBytes) /\ {came + 1} \ {Junk} = {came + 1}
    BY <1>1 DEF Junk
  <2>2. Gone' = Gone \cup {came + 1}
    BY <1>6, <2>1, LoseGone DEF Reasons
  <2>3. OnWay' = OnWay
    BY <1>2, <1>3, <1>4, <2>2
  <2> QED
    BY <1>1, <2>2, <2>3 DEF Received!Overrun
<1> QED
  BY <1>5, <1>6 DEF Arrive

\* Whatever a step loses was on its way.
LEMMA DropStep ==
  ASSUME ByteTypes, BytesInOrder, BytesInOrder', UNCHANGED <<came, got>>, Gone \subseteq Gone'
  PROVE  \E bytes \in SUBSET OnWay : Received!Drop(bytes)
<1> DEFINE bytes == Gone' \ Gone
<1>1. came \in Nat /\ came' \in Nat
  BY ByteSequences
<1>2. OnWay = (1 .. came) \ (got \cup Gone)
  BY <1>1, OnWayIsRest
<1>3. OnWay' = (1 .. came) \ (got \cup Gone') /\ got \cap Gone' = {}
  BY <1>1, OnWayNext
<1>4. Gone' \subseteq 1 .. came
  BY DEF BytesInOrder
<1>5. bytes \subseteq OnWay /\ OnWay' = OnWay \ bytes /\ Gone' = Gone \cup bytes
  BY <1>2, <1>3, <1>4
<1> QED
  BY <1>5 DEF Received!Drop

\* A port implements the line that delivers bytes once and in order or drops
\* them (LineSpec), through every call of its owner, and for any depth of the
\* FIFO and of the mailbox.
THEOREM LineKept == UartSpec => LineSpec
<1>1. UartInit => Received!Init
  <2> SUFFICES ASSUME UartInit PROVE Received!Init
    OBVIOUS
  <2>1. box.q = <<>> /\ fifo = <<>> /\ isr.hand = Junk /\ got = {} /\ came = 0
    BY DEF UartInit, NoBox, IsrIdle
  <2>2. Gone = {}
    BY DEF UartInit, Gone
  <2>3. OnWay = {}
    BY <2>1, InSeqEmpty DEF OnWay, InBox, InHand
  <2> QED
    BY <2>1, <2>2, <2>3 DEF Received!Init
<1>2. UartInv /\ UartInv' /\ [UartNext]_uartVars
        => [Received!Next]_<<came, OnWay, got, Gone>>
  <2> SUFFICES ASSUME UartInv, UartInv', [UartNext]_uartVars
               PROVE  Received!Next \/ UNCHANGED <<came, OnWay, got, Gone>>
    OBVIOUS
  <2>1. ByteTypes /\ IsrInv /\ BytesInOrder /\ BytesInOrder'
    BY DEF UartInv, UartTypeOK
  <2>2. CASE Arrive /\ UNCHANGED <<box, isr, got>>
    BY <2>1, <2>2, AcceptStep DEF Received!Next
  <2>3. CASE Receive
    BY <2>1, <2>3, DeliverStep DEF Received!Next
  <2>4. CASE UNCHANGED <<came, got>> /\ Gone \subseteq Gone'
    BY <2>1, <2>4, DropStep DEF Received!Next
  <2>5. ASSUME UNCHANGED lost PROVE Gone \subseteq Gone'
    BY <2>5 DEF Gone
  <2>6. ASSUME NEW bytes, NEW why, Lose(bytes, why) PROVE Gone \subseteq Gone'
    BY <2>1, <2>6 DEF Lose, Gone, ByteTypes
  <2> QED
    BY <2>2, <2>3, <2>4, <2>5, <2>6, ByteMoves
<1> QED
  BY <1>1, <1>2, UartInvariant, PTL DEF UartSpec, LineSpec, Received!Spec

=============================================================================
