--------------------------- MODULE MsgboxSxProofs ---------------------------
(***************************************************************************)
(* Theorems about MsgboxSx, for any endpoints, channels, bounds and depth  *)
(* of the queues.                                                          *)
(***************************************************************************)
EXTENDS MsgboxSx, SequenceTheorems, WellFoundedInduction, TLAPS

-----------------------------------------------------------------------------
(* The handler's loop: the least channel it has to serve.                  *)

\* A set of numbers that is not empty has a least one.
LEMMA LeastExists ==
  ASSUME NEW S \in SUBSET Nat, S # {}
  PROVE  \E x \in S : \A y \in S : x <= y
<1> DEFINE R == OpToRel(<, Nat)
<1>1. IsWellFoundedOn(R, Nat)
  BY NatLessThanWellFounded
<1>2. \A x, y \in Nat : y < x => <<y, x>> \in R
  BY DEF OpToRel
<1> HIDE DEF R
<1>3. PICK x \in S : \A y \in S : <<y, x>> \notin R
  BY <1>1, WFMin
<1>4. ASSUME NEW y \in S  PROVE x <= y
  <2>1. x \in Nat /\ y \in Nat
    OBVIOUS
  <2>2. ~ (y < x)
    BY <1>2, <1>3, <2>1
  <2> QED
    BY <2>1, <2>2
<1> QED
  BY <1>4

LEMMA MinIsIn ==
  ASSUME NEW S \in SUBSET Nat, S # {}
  PROVE  Min(S) \in S
BY LeastExists DEF Min

-----------------------------------------------------------------------------
(* The channels of endpoints.                                              *)

\* Every channel belongs to one endpoint and has one direction.
LEMMA OwnChannels ==
  ASSUME NEW e \in Edps
  PROVE  /\ RecCh[e] \in Channels /\ SendCh[e] \in Channels
         /\ Sending(SendCh[e]) /\ ~ Sending(RecCh[e])
         /\ Owner(SendCh[e]) = e
<1>1. \A o \in Edps : SendCh[e] \in {RecCh[o], SendCh[o]} => o = e
  BY ChannelAssumption
<1> QED
  BY <1>1, ChannelAssumption DEF Channels, Sending, Owner

LEMMA ChannelsAreNumbers == Channels \subseteq Nat
BY ChannelAssumption DEF Channels

\* The channel the handler serves is one it has to serve.
LEMMA ServedIsListed ==
  ASSUME TypeOK, isr.chs # {}
  PROVE  Min(isr.chs) \in isr.chs
<1>1. isr.chs \in SUBSET Nat
  BY ChannelsAreNumbers DEF TypeOK
<1> QED
  BY <1>1, MinIsIn

LEMMA SenderOf ==
  ASSUME NEW ch, Sending(ch)
  PROVE  Owner(ch) \in Edps /\ SendCh[Owner(ch)] = ch
<1>1. PICK e \in Edps : SendCh[e] = ch
  BY DEF Sending
<1> QED
  BY <1>1, OwnChannels

-----------------------------------------------------------------------------
(* Types.                                                                  *)

LEMMA InitTypes == Init => TypeOK
BY ChannelAssumption DEF Init, TypeOK, Quiet, Idle

LEMMA FillTypes ==
  ASSUME TypeOK, NEW e \in Edps, NEW n \in 1 .. MsgWords, Fill(e, n)
  PROVE  len' \in [Edps -> Nat] /\ idx' \in [Edps -> Nat] /\ asked' \in [Edps -> Nat]
<1>1. n \in Nat /\ asked[e] + n \in Nat
  BY BoundAssumption DEF TypeOK
<1> QED
  BY <1>1 DEF TypeOK, Fill, IdxAtStart

TaskState == [pc : {"idle", "recEn", "filled", "sendEn", "recOff", "half", "sendOff"},
              val : SUBSET Channels]

LEMMA TaskTypes ==
  ASSUME TypeOK, NEW e \in Edps, Task(e)
  PROVE  TypeOK'
<1> USE DEF queues, message, At
<1>0. RecCh[e] \in Channels /\ SendCh[e] \in Channels /\ task[e].val \subseteq Channels
  BY OwnChannels DEF TypeOK
<1>1. ASSUME NEW from, NEW to \in {"recEn", "sendEn", "recOff", "sendOff"},
             ReadEnable(e, from, to)
      PROVE  task' \in [Edps -> TaskState]
  BY <1>1 DEF TypeOK, ReadEnable, TaskState
<1>2. ASSUME NEW from, NEW to \in {"idle", "half"}, NEW ch \in Channels, NEW bits \in SUBSET Channels,
             WriteEnable(e, from, to, ch, bits)
      PROVE  task' \in [Edps -> TaskState] /\ enable' \subseteq Channels /\ raced' \subseteq Channels
  BY <1>2 DEF TypeOK, WriteEnable, Quiet, TaskState
<1>3. CASE Alloc(e)
  BY <1>0, <1>1, <1>3 DEF TypeOK, Alloc, TaskState
<1>4. CASE AllocEnable(e)
  <2> DEFINE bits == task[e].val \cup {RecCh[e]}
  <2>1. bits \in SUBSET Channels
    BY <1>0
  <2>2. WriteEnable(e, "recEn", "idle", RecCh[e], bits)
    BY <1>4 DEF AllocEnable
  <2> HIDE DEF bits
  <2>3. task' \in [Edps -> TaskState] /\ enable' \subseteq Channels /\ raced' \subseteq Channels
    BY <1>0, <1>2, <2>1, <2>2
  <2> QED
    BY <1>0, <1>4, <2>3 DEF TypeOK, AllocEnable, TaskState
<1>5. CASE Send(e)
  <2>1. len' \in [Edps -> Nat] /\ idx' \in [Edps -> Nat] /\ asked' \in [Edps -> Nat]
    BY <1>5, FillTypes DEF Send
  <2>2. task' \in [Edps -> TaskState]
    BY <1>5 DEF Send, TypeOK, TaskState
  <2> QED
    BY <1>5, <2>1, <2>2 DEF Send, TypeOK, TaskState
<1>6. CASE SendEnable(e)
  <2>1. CASE ReadEnable(e, "filled", "sendEn") /\ UNCHANGED <<enable, queues, cb, message, open, isr, raced>>
    BY <1>1, <2>1 DEF TypeOK, TaskState
  <2>2. CASE /\ WriteEnable(e, "sendEn", "idle", SendCh[e], task[e].val \cup {SendCh[e]})
             /\ UNCHANGED <<queues, cb, message, open, isr>>
    <3> DEFINE bits == task[e].val \cup {SendCh[e]}
    <3>1. bits \in SUBSET Channels
      BY <1>0
    <3>2. WriteEnable(e, "sendEn", "idle", SendCh[e], bits)
      BY <2>2
    <3> HIDE DEF bits
    <3>3. task' \in [Edps -> TaskState] /\ enable' \subseteq Channels /\ raced' \subseteq Channels
      BY <1>0, <1>2, <3>1, <3>2
    <3> QED
      BY <1>0, <2>2, <3>3 DEF TypeOK, TaskState
  <2> QED
    BY <1>6, <2>1, <2>2 DEF SendEnable
<1>7. CASE Free(e)
  BY <1>1, <1>7 DEF TypeOK, Free, TaskState
<1>8. CASE FreeDisable(e)
  <2>1. CASE /\ WriteEnable(e, "recOff", "half", RecCh[e], task[e].val \ {RecCh[e]})
             /\ cb' = cb \ {RecCh[e]} /\ UNCHANGED <<queues, message, open, isr>>
    <3> DEFINE bits == task[e].val \ {RecCh[e]}
    <3>1. bits \in SUBSET Channels
      BY <1>0
    <3>2. WriteEnable(e, "recOff", "half", RecCh[e], bits)
      BY <2>1
    <3> HIDE DEF bits
    <3>3. task' \in [Edps -> TaskState] /\ enable' \subseteq Channels /\ raced' \subseteq Channels
      BY <1>0, <1>2, <3>1, <3>2
    <3> QED
      BY <1>0, <2>1, <3>3 DEF TypeOK, TaskState
  <2>2. CASE ReadEnable(e, "half", "sendOff") /\ UNCHANGED <<enable, queues, cb, message, open, isr, raced>>
    BY <1>1, <2>2 DEF TypeOK, TaskState
  <2>3. CASE /\ WriteEnable(e, "sendOff", "idle", SendCh[e], task[e].val \ {SendCh[e]})
             /\ cb' = cb \ {SendCh[e]} /\ UNCHANGED <<queues, message, open, isr>>
    <3> DEFINE bits == task[e].val \ {SendCh[e]}
    <3>1. bits \in SUBSET Channels
      BY <1>0
    <3>2. WriteEnable(e, "sendOff", "idle", SendCh[e], bits)
      BY <2>3
    <3> HIDE DEF bits
    <3>3. task' \in [Edps -> TaskState] /\ enable' \subseteq Channels /\ raced' \subseteq Channels
      BY <1>0, <1>2, <3>1, <3>2
    <3> QED
      BY <1>0, <2>3, <3>3 DEF TypeOK, TaskState
  <2> QED
    BY <1>8, <2>1, <2>2, <2>3 DEF FreeDisable
<1> QED
  BY <1>3, <1>4, <1>5, <1>6, <1>7, <1>8 DEF Task

LEMMA IsrTypes ==
  ASSUME TypeOK, IsrInv, Isr
  PROVE  TypeOK'
<1> USE DEF TypeOK, queues, message, Serving, Served
<1>1. CASE IsrEnter
  BY <1>1 DEF IsrEnter
<1>2. CASE IsrReturn
  BY <1>2 DEF IsrReturn, Idle
<1>3. ASSUME NEW ch \in Channels, IsrReceive(ch)  PROVE TypeOK'
  <2>1. CASE fifo[ch] # <<>>
    <3>1. Tail(fifo[ch]) \in Seq(Nat) /\ Append(taken[ch], Head(fifo[ch])) \in Seq(Nat)
      BY <2>1
    <3>2. fifo' \in [Channels -> Seq(Nat)] /\ taken' \in [Channels -> Seq(Nat)]
      BY <1>3, <2>1, <3>1 DEF IsrReceive
    <3> QED
      BY <1>3, <2>1, <3>2 DEF IsrReceive
  <2>2. CASE fifo[ch] = <<>>
    BY <1>3, <2>2 DEF IsrReceive
  <2> QED
    BY <2>1, <2>2
<1>4. ASSUME NEW ch \in Channels, IsrFull(ch)  PROVE TypeOK'
  BY <1>4 DEF IsrFull
<1>5. ASSUME NEW ch \in Channels, IsrWrite(ch)  PROVE TypeOK'
  <2>1. Owner(ch) \in Edps
    BY <1>5, SenderOf DEF IsrWrite
  <2>2. Len(sent[ch]) + 1 \in Nat
    OBVIOUS
  <2>3. /\ fifo' \in [Channels -> Seq(Nat)] /\ sent' \in [Channels -> Seq(Nat)]
        /\ idx' \in [Edps -> Nat]
    BY <1>5, <2>1, <2>2 DEF IsrWrite
  <2> QED
    BY <1>5, <2>3 DEF IsrWrite
<1>6. ASSUME NEW ch \in Channels, IsrFinish(ch)  PROVE TypeOK'
  BY <1>6 DEF IsrFinish, EnableAfterEnd
<1>7. ASSUME NEW ch \in Channels, IsrReport(ch)  PROVE TypeOK'
  <2> DEFINE e == Owner(ch)
  <2>1. isr' \in [pc : {"idle", "serve", "report"}, chs : SUBSET Channels]
    BY <1>7 DEF IsrReport
  <2>2. Sending(ch)
    BY <1>7 DEF IsrReport, IsrInv
  <2>3. e \in Edps
    BY <2>2, SenderOf
  <2>4. spurious' \subseteq Edps
    BY <1>7, <2>3 DEF IsrReport
  <2>5. CASE busy' = busy \ {e} /\ UNCHANGED <<enable, len, idx, asked>>
    BY <1>7, <2>1, <2>4, <2>5 DEF IsrReport
  <2>6. CASE /\ e \in busy /\ UNCHANGED busy
             /\ \E n \in 1 .. MsgWords : Fill(e, n)
             /\ enable' = enable \cup {ch}
    <3>1. len' \in [Edps -> Nat] /\ idx' \in [Edps -> Nat] /\ asked' \in [Edps -> Nat]
      BY <2>3, <2>6, FillTypes
    <3> QED
      BY <1>7, <2>1, <2>4, <2>6, <3>1 DEF IsrReport
  <2> QED
    BY <1>7, <2>5, <2>6 DEF IsrReport
<1> QED
  BY <1>1, <1>2, <1>3, <1>4, <1>5, <1>6, <1>7 DEF Isr

LEMMA PeerTypes ==
  ASSUME TypeOK, NEW ch \in Channels, PeerTake(ch) \/ PeerPut(ch)
  PROVE  TypeOK'
<1> USE DEF TypeOK, message
<1>1. CASE PeerTake(ch)
  <2>1. Tail(fifo[ch]) \in Seq(Nat) /\ Append(taken[ch], Head(fifo[ch])) \in Seq(Nat)
    BY <1>1 DEF PeerTake
  <2> QED
    BY <1>1, <2>1 DEF PeerTake
<1>2. CASE PeerPut(ch)
  <2>1. Len(sent[ch]) + 1 \in Nat
    OBVIOUS
  <2> QED
    BY <1>2, <2>1 DEF PeerPut
<1> QED
  BY <1>1, <1>2

-----------------------------------------------------------------------------
(* What is open, and what the handler is at.                               *)

LEMMA ClosedKept ==
  ASSUME TypeOK, Closed, [Next]_vars
  PROVE  Closed'
<1> USE DEF Closed, TypeOK
<1>1. ASSUME UNCHANGED <<task, open>>  PROVE Closed'
  BY <1>1
<1>2. ASSUME NEW e \in Edps, Task(e)  PROVE Closed'
  <2> USE DEF At, ReadEnable, WriteEnable, Quiet
  <2>1. CASE Alloc(e)
    BY <2>1 DEF Alloc
  <2>2. CASE AllocEnable(e)
    BY <2>2 DEF AllocEnable
  <2>3. CASE Send(e)
    BY <2>3 DEF Send
  <2>4. CASE SendEnable(e)
    <3>1. CASE ReadEnable(e, "filled", "sendEn") /\ open' = open
      BY <3>1
    <3>2. CASE WriteEnable(e, "sendEn", "idle", SendCh[e], task[e].val \cup {SendCh[e]}) /\ open' = open
      BY <3>2
    <3> QED
      BY <2>4, <3>1, <3>2 DEF SendEnable
  <2>5. CASE Free(e)
    BY <2>5 DEF Free
  <2>6. CASE FreeDisable(e)
    BY <2>6 DEF FreeDisable
  <2> QED
    BY <1>2, <2>1, <2>2, <2>3, <2>4, <2>5, <2>6 DEF Task
<1>3. ASSUME Isr  PROVE UNCHANGED <<task, open>>
  BY <1>3 DEF Isr, IsrEnter, IsrReturn, IsrReceive, IsrFull, IsrWrite, IsrFinish, IsrReport
<1>4. ASSUME NEW ch \in Channels, PeerTake(ch) \/ PeerPut(ch)  PROVE UNCHANGED <<task, open>>
  BY <1>4 DEF PeerTake, PeerPut
<1> QED
  BY <1>1, <1>2, <1>3, <1>4 DEF Next, vars

\* Tasks and the other core do not touch what the handler is at, and tasks
\* run only when it has returned.
LEMMA OutsideIsr ==
  /\ \A e \in Edps : Task(e) => isr.pc = "idle" /\ isr' = isr
  /\ \A ch \in Channels : PeerTake(ch) \/ PeerPut(ch) => isr' = isr
<1>1. ASSUME NEW e \in Edps, Task(e)  PROVE isr.pc = "idle" /\ isr' = isr
  BY <1>1 DEF Task, Alloc, AllocEnable, Send, SendEnable, Free, FreeDisable, At, ReadEnable, WriteEnable
<1>2. ASSUME NEW ch \in Channels, PeerTake(ch) \/ PeerPut(ch)  PROVE isr' = isr
  BY <1>2 DEF PeerTake, PeerPut
<1> QED
  BY <1>1, <1>2

LEMMA IsrKept ==
  ASSUME TypeOK, IsrInv, [Next]_vars
  PROVE  IsrInv'
<1> USE DEF IsrInv, Serving, Served
<1>0. isr \in [pc : {"idle", "serve", "report"}, chs : SUBSET Channels]
  BY DEF TypeOK
<1>1. ASSUME UNCHANGED isr  PROVE IsrInv'
  BY <1>1
<1>2. CASE IsrEnter
  BY <1>2 DEF IsrEnter
<1>3. CASE IsrReturn
  BY <1>3 DEF IsrReturn, Idle
<1>4. ASSUME NEW ch \in Channels, IsrReceive(ch)  PROVE IsrInv'
  BY <1>0, <1>4 DEF IsrReceive
<1>5. ASSUME NEW ch \in Channels, IsrFull(ch)  PROVE IsrInv'
  BY <1>0, <1>5 DEF IsrFull
<1>6. ASSUME NEW ch \in Channels, IsrWrite(ch)  PROVE IsrInv'
  BY <1>6 DEF IsrWrite
<1>7. ASSUME NEW ch \in Channels, IsrFinish(ch)  PROVE IsrInv'
  BY <1>0, <1>7 DEF IsrFinish
<1>8. ASSUME NEW ch \in Channels, IsrReport(ch)  PROVE IsrInv'
  BY <1>0, <1>8 DEF IsrReport
<1> QED
  BY <1>1, <1>2, <1>3, <1>4, <1>5, <1>6, <1>7, <1>8, OutsideIsr DEF Next, Isr, vars

-----------------------------------------------------------------------------
(* The queues.                                                             *)

\* A word put at the end of a queue goes behind all that was sent.
LEMMA QueuePut ==
  ASSUME NEW s \in Seq(Nat), NEW q \in Seq(Nat), NEW w \in Nat
  PROVE  Append(s \o q, w) = s \o Append(q, w) /\ Len(Append(q, w)) = Len(q) + 1
<1>1. Append(s \o q, w) \in Seq(Nat) /\ s \o Append(q, w) \in Seq(Nat)
  OBVIOUS
<1>2. Len(Append(s \o q, w)) = Len(s \o Append(q, w))
  OBVIOUS
<1>3. ASSUME NEW i \in 1 .. Len(Append(s \o q, w))
      PROVE  Append(s \o q, w)[i] = (s \o Append(q, w))[i]
  OBVIOUS
<1>4. Append(s \o q, w) = s \o Append(q, w)
  BY <1>1, <1>2, <1>3, SeqEqual
<1>5. Len(Append(q, w)) = Len(q) + 1
  OBVIOUS
<1> QED
  BY <1>4, <1>5

\* A word taken from the head of a queue is the one sent after those taken.
LEMMA QueueTake ==
  ASSUME NEW s \in Seq(Nat), NEW q \in Seq(Nat), q # <<>>
  PROVE  /\ Append(s, Head(q)) \o Tail(q) = s \o q
         /\ Len(Tail(q)) \in Nat /\ Len(Tail(q)) <= Len(q)
         /\ Len(s) < Len(s \o q) /\ (s \o q)[Len(s) + 1] = Head(q)
<1>1. /\ Head(q) \in Nat /\ Tail(q) \in Seq(Nat) /\ Len(q) \in Nat \ {0} /\ Len(s) \in Nat
      /\ Append(s, Head(q)) \in Seq(Nat) /\ Len(Tail(q)) = Len(q) - 1
  OBVIOUS
<1>2. Append(s, Head(q)) \o Tail(q) \in Seq(Nat) /\ s \o q \in Seq(Nat)
  BY <1>1
<1>3. Len(Append(s, Head(q)) \o Tail(q)) = Len(s \o q)
  BY <1>1
<1>4. ASSUME NEW i \in 1 .. Len(s \o q)
      PROVE  (Append(s, Head(q)) \o Tail(q))[i] = (s \o q)[i]
  BY <1>1
<1>5. Append(s, Head(q)) \o Tail(q) = s \o q
  BY <1>2, <1>3, <1>4, SeqEqual
<1> QED
  BY <1>1, <1>5

\* One channel gains a word, or loses one.
Puts(ch) ==
  /\ Len(fifo[ch]) < MSGBOX_CHANNEL_DEPTH
  /\ fifo' = [fifo EXCEPT ![ch] = Append(@, Len(sent[ch]) + 1)]
  /\ sent' = [sent EXCEPT ![ch] = Append(@, Len(sent[ch]) + 1)]
  /\ taken' = taken

Takes(ch) ==
  /\ fifo[ch] # <<>>
  /\ fifo' = [fifo EXCEPT ![ch] = Tail(@)]
  /\ taken' = [taken EXCEPT ![ch] = Append(@, Head(fifo[ch]))]
  /\ sent' = sent

\* Every step does that to one channel, or leaves the queues alone.
LEMMA QueueSteps ==
  ASSUME TypeOK, [Next]_vars
  PROVE  \/ UNCHANGED queues
         \/ \E ch \in Channels : Puts(ch) /\ (IsrWrite(ch) \/ PeerPut(ch))
         \/ \E ch \in Channels : Takes(ch)
<1> USE DEF queues
<1>1. ASSUME NEW e \in Edps, Task(e)  PROVE UNCHANGED queues
  BY <1>1 DEF Task, Alloc, AllocEnable, Send, SendEnable, Free, FreeDisable
<1>2. ASSUME NEW ch \in Channels, IsrReceive(ch)  PROVE Takes(ch) \/ UNCHANGED queues
  BY <1>2 DEF IsrReceive, Takes
<1>3. ASSUME NEW ch \in Channels, IsrWrite(ch)  PROVE Puts(ch)
  BY <1>3 DEF IsrWrite, HasRoom, Puts, TypeOK
<1>4. ASSUME NEW ch \in Channels, IsrFull(ch) \/ IsrFinish(ch) \/ IsrReport(ch)  PROVE UNCHANGED queues
  BY <1>4 DEF IsrFull, IsrFinish, IsrReport
<1>5. ASSUME NEW ch \in Channels, PeerTake(ch)  PROVE Takes(ch)
  BY <1>5 DEF PeerTake, Takes
<1>6. ASSUME NEW ch \in Channels, PeerPut(ch)  PROVE Puts(ch)
  BY <1>6 DEF PeerPut, Puts, TypeOK
<1>7. ASSUME IsrEnter \/ IsrReturn \/ UNCHANGED vars  PROVE UNCHANGED queues
  BY <1>7 DEF IsrEnter, IsrReturn, vars
<1> QED
  BY <1>1, <1>2, <1>3, <1>4, <1>5, <1>6, <1>7 DEF Next, Isr

LEMMA QueueKept ==
  ASSUME TypeOK, QueueInv, [Next]_vars
  PROVE  QueueInv'
<1> USE DEF QueueInv
<1>0. \A c \in Channels : /\ fifo[c] \in Seq(Nat) /\ sent[c] \in Seq(Nat) /\ taken[c] \in Seq(Nat)
                          /\ Len(sent[c]) + 1 \in Nat /\ Len(fifo[c]) \in Nat
  BY DEF TypeOK
<1>1. CASE UNCHANGED queues
  BY <1>1 DEF queues
<1>2. ASSUME NEW ch \in Channels, Puts(ch)  PROVE QueueInv'
  <2>1. Append(sent[ch], Len(sent[ch]) + 1) = taken[ch] \o Append(fifo[ch], Len(sent[ch]) + 1)
        /\ Len(Append(fifo[ch], Len(sent[ch]) + 1)) = Len(fifo[ch]) + 1
    <3>1. sent[ch] = taken[ch] \o fifo[ch]
      OBVIOUS
    <3> QED
      BY <1>0, <3>1, QueuePut
  <2>2. /\ fifo'[ch] = Append(fifo[ch], Len(sent[ch]) + 1)
        /\ sent'[ch] = Append(sent[ch], Len(sent[ch]) + 1)
        /\ \A c \in Channels \ {ch} : fifo'[c] = fifo[c] /\ sent'[c] = sent[c]
    BY <1>2 DEF Puts, TypeOK
  <2>3. Len(fifo[ch]) + 1 <= MSGBOX_CHANNEL_DEPTH
    BY <1>0, <1>2, BoundAssumption DEF Puts
  <2>4. taken' = taken
    BY <1>2 DEF Puts
  <2> QED
    BY <2>1, <2>2, <2>3, <2>4
<1>3. ASSUME NEW ch \in Channels, Takes(ch)  PROVE QueueInv'
  <2>1. sent[ch] = Append(taken[ch], Head(fifo[ch])) \o Tail(fifo[ch])
        /\ Len(Tail(fifo[ch])) \in Nat /\ Len(Tail(fifo[ch])) <= Len(fifo[ch])
    BY <1>0, <1>3, QueueTake DEF Takes
  <2>2. /\ fifo'[ch] = Tail(fifo[ch])
        /\ taken'[ch] = Append(taken[ch], Head(fifo[ch]))
        /\ \A c \in Channels \ {ch} : fifo'[c] = fifo[c] /\ taken'[c] = taken[c]
    BY <1>3 DEF Takes, TypeOK
  <2>3. Len(Tail(fifo[ch])) <= MSGBOX_CHANNEL_DEPTH
    <3>1. Len(fifo[ch]) <= MSGBOX_CHANNEL_DEPTH
      OBVIOUS
    <3> QED
      BY <1>0, <2>1, <3>1, BoundAssumption
  <2>4. sent' = sent
    BY <1>3 DEF Takes
  <2> QED
    BY <2>1, <2>2, <2>3, <2>4
<1> QED
  BY <1>1, <1>2, <1>3, QueueSteps

-----------------------------------------------------------------------------
(* Messages and the words sent for them.                                   *)

WordsOf(e) == Len(sent[SendCh[e]])

\* A message is left with its channel.
Leaves(e, n) ==
  /\ asked[e] + n <= MaxWords[SendCh[e]]
  /\ asked'[e] = asked[e] + n /\ len'[e] = n /\ idx'[e] = 0
  /\ \A o \in Edps \ {e} : asked'[o] = asked[o] /\ len'[o] = len[o] /\ idx'[o] = idx[o]
  /\ UNCHANGED sent

\* A word of one is sent.
Sends(e) ==
  /\ idx[e] < len[e] /\ idx'[e] = idx[e] + 1 /\ WordsOf(e)' = WordsOf(e) + 1
  /\ \A o \in Edps \ {e} : idx'[o] = idx[o] /\ WordsOf(o)' = WordsOf(o)
  /\ UNCHANGED <<len, asked>>

\* Neither.
Waits == UNCHANGED <<len, idx, asked>> /\ \A e \in Edps : WordsOf(e)' = WordsOf(e)

LEMMA WordTypes ==
  ASSUME TypeOK, NEW e \in Edps
  PROVE  /\ WordsOf(e) \in Nat /\ len[e] \in Nat /\ idx[e] \in Nat /\ asked[e] \in Nat
         /\ MaxWords[SendCh[e]] \in Nat
BY OwnChannels, BoundAssumption DEF TypeOK, WordsOf

LEMMA FillLeaves ==
  ASSUME TypeOK, NEW e \in Edps, NEW n \in 1 .. MsgWords, Fill(e, n), UNCHANGED sent
  PROVE  Leaves(e, n)
BY DEF TypeOK, Fill, IdxAtStart, Leaves

LEMMA WriteSends ==
  ASSUME TypeOK, NEW e \in Edps, IsrWrite(SendCh[e])
  PROVE  Sends(e)
<1>1. Owner(SendCh[e]) = e /\ SendCh[e] \in Channels
  BY OwnChannels
<1>2. idx[e] < len[e] /\ idx' = [idx EXCEPT ![e] = @ + 1] /\ UNCHANGED <<len, asked>>
  BY <1>1, WordTypes DEF IsrWrite, AtEnd
<1>3. sent' = [sent EXCEPT ![SendCh[e]] = Append(@, Len(sent[SendCh[e]]) + 1)]
  BY DEF IsrWrite
<1>4. sent'[SendCh[e]] = Append(sent[SendCh[e]], Len(sent[SendCh[e]]) + 1)
  BY <1>1, <1>3 DEF TypeOK
<1>5. WordsOf(e)' = WordsOf(e) + 1
  BY <1>1, <1>4 DEF TypeOK, WordsOf
<1>6. \A o \in Edps \ {e} : sent'[SendCh[o]] = sent[SendCh[o]]
  BY <1>3, OwnChannels, ChannelAssumption DEF TypeOK
<1> QED
  BY <1>2, <1>5, <1>6 DEF TypeOK, Sends, WordsOf

LEMMA MessageSteps ==
  ASSUME TypeOK, IsrInv, [Next]_vars
  PROVE  \/ Waits
         \/ \E e \in Edps, n \in 1 .. MsgWords : Leaves(e, n)
         \/ \E e \in Edps : Sends(e)
<1> USE DEF message, queues
<1>0. ASSUME UNCHANGED <<len, idx, asked, sent>>  PROVE Waits
  BY <1>0 DEF Waits, WordsOf
<1>1. ASSUME NEW e \in Edps, Task(e), ~ Send(e)  PROVE UNCHANGED <<len, idx, asked, sent>>
  BY <1>1 DEF Task, Alloc, AllocEnable, SendEnable, Free, FreeDisable
<1>2. ASSUME NEW e \in Edps, Send(e)  PROVE \E n \in 1 .. MsgWords : Leaves(e, n)
  <2>1. PICK n \in 1 .. MsgWords : Fill(e, n)
    BY <1>2 DEF Send
  <2> QED
    BY <1>2, <2>1, FillLeaves DEF Send
<1>3. ASSUME NEW ch \in Channels, IsrReceive(ch) \/ IsrFull(ch) \/ IsrFinish(ch) \/ PeerTake(ch)
      PROVE  UNCHANGED <<len, idx, asked, sent>>
  BY <1>3 DEF IsrReceive, IsrFull, IsrFinish, PeerTake
<1>4. ASSUME NEW ch \in Channels, IsrWrite(ch)  PROVE \E e \in Edps : Sends(e)
  <2>1. Owner(ch) \in Edps /\ SendCh[Owner(ch)] = ch
    BY <1>4, SenderOf DEF IsrWrite
  <2> QED
    BY <1>4, <2>1, WriteSends
<1>5. ASSUME NEW ch \in Channels, IsrReport(ch)
      PROVE  UNCHANGED <<len, idx, asked, sent>> \/ \E e \in Edps, n \in 1 .. MsgWords : Leaves(e, n)
  <2>1. Owner(ch) \in Edps
    BY <1>5, SenderOf DEF IsrReport, IsrInv
  <2>2. UNCHANGED sent
    BY <1>5 DEF IsrReport
  <2>3. CASE UNCHANGED <<enable, len, idx, asked>>
    BY <2>2, <2>3
  <2>4. CASE \E n \in 1 .. MsgWords : Fill(Owner(ch), n)
    BY <2>1, <2>2, <2>4, FillLeaves
  <2> QED
    BY <1>5, <2>3, <2>4 DEF IsrReport
<1>6. ASSUME NEW ch \in Channels, PeerPut(ch)  PROVE Waits
  <2>1. \A e \in Edps : SendCh[e] # ch
    BY <1>6 DEF PeerPut, Sending
  <2>2. \A e \in Edps : sent'[SendCh[e]] = sent[SendCh[e]]
    BY <1>6, <2>1, OwnChannels DEF PeerPut, TypeOK
  <2> QED
    BY <1>6, <2>2 DEF PeerPut, Waits, WordsOf
<1>7. ASSUME IsrEnter \/ IsrReturn \/ UNCHANGED vars  PROVE UNCHANGED <<len, idx, asked, sent>>
  BY <1>7 DEF IsrEnter, IsrReturn, vars
<1> QED
  BY <1>0, <1>1, <1>2, <1>3, <1>4, <1>5, <1>6, <1>7 DEF Next, Isr

LEMMA WithinKept ==
  ASSUME TypeOK, IsrInv, WithinMessages, [Next]_vars
  PROVE  WithinMessages'
<1> SUFFICES ASSUME NEW o \in Edps
             PROVE  /\ idx'[o] <= len'[o] /\ asked'[o] <= MaxWords[SendCh[o]]
                    /\ WordsOf(o)' + (len'[o] - idx'[o]) <= asked'[o]
  BY DEF WithinMessages, WordsOf
<1>0. /\ WordsOf(o) \in Nat /\ len[o] \in Nat /\ idx[o] \in Nat /\ asked[o] \in Nat
      /\ MaxWords[SendCh[o]] \in Nat
  BY WordTypes
<1>1. /\ idx[o] <= len[o] /\ asked[o] <= MaxWords[SendCh[o]]
      /\ WordsOf(o) + (len[o] - idx[o]) <= asked[o]
  BY DEF WithinMessages, WordsOf
<1>2. CASE Waits
  BY <1>1, <1>2 DEF Waits
<1>3. ASSUME NEW e \in Edps, NEW n \in 1 .. MsgWords, Leaves(e, n)
      PROVE  /\ idx'[o] <= len'[o] /\ asked'[o] <= MaxWords[SendCh[o]]
             /\ WordsOf(o)' + (len'[o] - idx'[o]) <= asked'[o]
  <2>1. n \in Nat /\ WordsOf(o)' = WordsOf(o)
    BY <1>3, BoundAssumption DEF Leaves, WordsOf
  <2>2. CASE o = e
    BY <1>0, <1>1, <1>3, <2>1, <2>2 DEF Leaves
  <2>3. CASE o # e
    BY <1>1, <1>3, <2>1, <2>3 DEF Leaves
  <2> QED
    BY <2>2, <2>3
<1>4. ASSUME NEW e \in Edps, Sends(e)
      PROVE  /\ idx'[o] <= len'[o] /\ asked'[o] <= MaxWords[SendCh[o]]
             /\ WordsOf(o)' + (len'[o] - idx'[o]) <= asked'[o]
  <2>1. CASE o = e
    BY <1>0, <1>1, <1>4, <2>1 DEF Sends
  <2>2. CASE o # e
    BY <1>1, <1>4, <2>2 DEF Sends
  <2> QED
    BY <2>1, <2>2
<1> QED
  BY <1>2, <1>3, <1>4, MessageSteps

-----------------------------------------------------------------------------
(* An endpoint whose enable bit nobody wrote over.                         *)

Sound(e) ==
  /\ e \notin spurious
  /\ Counted(e) /\ BitCurrent(e) /\ ServedWhenBusy(e) /\ OffWhenTold(e)

\* A task's copy of the bit stays good when neither changes, and when it is
\* read.
LEMMA BitStays ==
  ASSUME NEW e \in Edps, BitCurrent(e),
         SendCh[e] \in enable' <=> SendCh[e] \in enable,
         \A o \in Edps : Reading(o)' =>
           \/ Reading(o) /\ task'[o].val = task[o].val
           \/ task'[o].val = enable
  PROVE  BitCurrent(e)'
BY DEF BitCurrent

\* A task reads the register.
LEMMA ReadKeeps ==
  ASSUME TypeOK, NEW e \in Edps, Sound(e), NEW t \in Edps, NEW from, NEW to,
         ReadEnable(t, from, to), to \in {"recEn", "sendEn", "recOff", "sendOff"},
         to = "sendEn" => from = "filled",
         from = "idle" => t \notin busy,
         UNCHANGED <<enable, queues, message, isr>>
  PROVE  Sound(e)'
<1> USE DEF queues, message
<1>1. /\ isr.pc = "idle" /\ task[t].pc = from
      /\ task' = [task EXCEPT ![t] = [pc |-> to, val |-> enable]]
  BY DEF ReadEnable, At
<1>2. task'[t] = [pc |-> to, val |-> enable] /\ \A o \in Edps \ {t} : task'[o] = task[o]
  BY <1>1 DEF TypeOK
<1>3. e \notin spurious'
  BY DEF Sound
<1>4. Counted(e)'
  <2>1. task'[e].pc \in {"filled", "sendEn"} => e \in busy
    BY <1>1, <1>2 DEF Sound, Counted
  <2> QED
    BY <2>1 DEF Sound, Counted
<1>5. BitCurrent(e)'
  <2>1. \A o \in Edps : Reading(o)' => \/ Reading(o) /\ task'[o].val = task[o].val
                                       \/ task'[o].val = enable
    BY <1>2 DEF Reading
  <2> QED
    BY <2>1, BitStays DEF Sound
<1>6. ServedWhenBusy(e)'
  BY <1>1, <1>2 DEF Sound, ServedWhenBusy
<1>7. OffWhenTold(e)'
  BY <1>1 DEF OffWhenTold
<1> QED
  BY <1>3, <1>4, <1>5, <1>6, <1>7 DEF Sound

\* A task writes the register, as it read it but for a channel of its own.
LEMMA WriteKeeps ==
  ASSUME TypeOK, NEW e \in Edps, Sound(e), SendCh[e] \notin raced',
         NEW t \in Edps, NEW from, NEW to, NEW ch, NEW bits,
         WriteEnable(t, from, to, ch, bits), from \in {"recEn", "sendEn", "recOff", "sendOff"},
         to \in {"idle", "half"}, to = "half" => t \notin busy,
         ch \in {RecCh[t], SendCh[t]},
         \A c \in Channels \ {ch} : c \in bits <=> c \in task[t].val,
         ch = SendCh[t] => (ch \in bits <=> from = "sendEn"),
         UNCHANGED <<queues, message, isr>>
  PROVE  Sound(e)'
<1> USE DEF queues, message
<1>1. /\ isr.pc = "idle" /\ task[t].pc = from /\ enable' = bits
      /\ raced' = (IF Lapped(t) THEN raced \cup {ch} ELSE raced)
      /\ task' = [task EXCEPT ![t] = [Quiet EXCEPT !.pc = to]]
  BY DEF WriteEnable, At
<1>2. task'[t].pc = to /\ \A o \in Edps \ {t} : task'[o] = task[o]
  BY <1>1 DEF TypeOK, Quiet
<1>3. Reading(t) /\ SendCh[e] \in Channels
  BY <1>1, OwnChannels DEF Reading
<1>4. ~ Reading(t)' /\ \A o \in Edps \ {t} : Reading(o)' <=> Reading(o)
  BY <1>2 DEF Reading
<1>5. e \notin spurious'
  BY DEF Sound
<1>6. Counted(e)'
  <2>1. task'[e].pc \in {"filled", "sendEn"} => e \in busy
    BY <1>2 DEF Sound, Counted
  <2> QED
    BY <2>1 DEF Sound, Counted
<1>7. OffWhenTold(e)'
  BY <1>1 DEF OffWhenTold
<1>8. CASE SendCh[e] # ch
  <2>1. SendCh[e] \in enable' <=> SendCh[e] \in enable
    BY <1>1, <1>3, <1>8 DEF Sound, BitCurrent
  <2>2. BitCurrent(e)'
    <3>1. \A o \in Edps : Reading(o)' => Reading(o) /\ task'[o].val = task[o].val
      BY <1>2, <1>4
    <3> QED
      BY <2>1, <3>1, BitStays DEF Sound
  <2>3. ServedWhenBusy(e)'
    BY <1>1, <1>2, <2>1 DEF Sound, ServedWhenBusy
  <2> QED
    BY <1>5, <1>6, <1>7, <2>2, <2>3 DEF Sound
<1>9. CASE SendCh[e] = ch
  <2>1. t = e /\ ch = SendCh[t]
    BY <1>9, ChannelAssumption
  <2>2. ~ Lapped(e)
    BY <1>1, <1>9, <2>1
  <2>3. BitCurrent(e)'
    BY <1>4, <2>1, <2>2 DEF Lapped, BitCurrent
  <2>4. ServedWhenBusy(e)'
    <3>1. CASE from = "sendEn"
      BY <1>1, <1>2, <2>1, <3>1 DEF Sound, Counted, ServedWhenBusy
    <3>2. CASE from # "sendEn"
      BY <1>1, <1>2, <2>1, <3>2 DEF Sound, ServedWhenBusy
    <3> QED
      BY <3>1, <3>2
  <2> QED
    BY <1>5, <1>6, <1>7, <2>3, <2>4 DEF Sound
<1> QED
  BY <1>8, <1>9

\* A message is left with a channel on which none is under way.
LEMMA LeaveKeepsCount ==
  ASSUME TypeOK, NEW e \in Edps, NEW t \in Edps, NEW n \in 1 .. MsgWords, Leaves(t, n),
         Counted(e), t = e => idx[e] = len[e],
         busy' = busy \cup {t}, e # t => task'[e].pc = task[e].pc
  PROVE  Counted(e)'
<1>1. /\ WordsOf(e) \in Nat /\ len[e] \in Nat /\ idx[e] \in Nat /\ asked[e] \in Nat /\ n \in Nat
  BY WordTypes, BoundAssumption
<1>2. WordsOf(e)' = WordsOf(e)
  BY DEF Leaves, WordsOf
<1>3. CASE t = e
  BY <1>1, <1>2, <1>3 DEF Leaves, Counted, WordsOf
<1>4. CASE t # e
  BY <1>1, <1>2, <1>4 DEF Leaves, Counted, WordsOf
<1> QED
  BY <1>3, <1>4

LEMMA SendKeeps ==
  ASSUME TypeOK, Closed, IsrInv, NEW e \in Edps, Sound(e), NEW t \in Edps, Send(t)
  PROVE  Sound(e)'
<1>1. PICK n \in 1 .. MsgWords : Fill(t, n)
  BY DEF Send
<1>2. Leaves(t, n)
  BY <1>1, FillLeaves DEF Send, queues
<1>3. /\ isr.pc = "idle" /\ task[t].pc = "idle" /\ t \notin busy /\ busy' = busy \cup {t}
      /\ task' = [task EXCEPT ![t].pc = "filled"]
      /\ UNCHANGED <<enable, spurious, isr>>
  BY DEF Send, At
<1>4. /\ task'[t].pc = "filled" /\ task'[t].val = task[t].val
      /\ \A o \in Edps \ {t} : task'[o] = task[o]
  BY <1>3 DEF TypeOK
<1>5. Counted(e)'
  BY <1>2, <1>3, <1>4, LeaveKeepsCount DEF Sound, Counted
<1>6. BitCurrent(e)'
  <2>1. \A o \in Edps : Reading(o)' => Reading(o) /\ task'[o].val = task[o].val
    BY <1>3, <1>4 DEF Reading
  <2> QED
    BY <1>3, <2>1, BitStays DEF Sound
<1>7. ServedWhenBusy(e)'
  BY <1>3, <1>4 DEF Sound, ServedWhenBusy
<1>8. OffWhenTold(e)'
  BY <1>3 DEF OffWhenTold
<1> QED
  BY <1>3, <1>5, <1>6, <1>7, <1>8 DEF Sound

LEMMA TaskKeeps ==
  ASSUME TypeOK, Closed, IsrInv, NEW e \in Edps, Sound(e), SendCh[e] \notin raced',
         NEW t \in Edps, Task(t)
  PROVE  Sound(e)'
<1>0. /\ RecCh[t] \in Channels /\ SendCh[t] \in Channels /\ RecCh[t] # SendCh[t]
      /\ task[t].val \subseteq Channels
  BY OwnChannels, ChannelAssumption DEF TypeOK
<1>1. CASE Alloc(t)
  <2>1. ReadEnable(t, "idle", "recEn") /\ UNCHANGED <<enable, queues, message, isr>>
    BY <1>1 DEF Alloc
  <2>2. t \notin busy
    BY <1>1 DEF Alloc, TypeOK
  <2> QED
    BY <2>1, <2>2, ReadKeeps
<1>2. CASE AllocEnable(t)
  <2> DEFINE bits == task[t].val \cup {RecCh[t]}
  <2>1. WriteEnable(t, "recEn", "idle", RecCh[t], bits) /\ UNCHANGED <<queues, message, isr>>
    BY <1>2 DEF AllocEnable
  <2>2. \A c \in Channels \ {RecCh[t]} : c \in bits <=> c \in task[t].val
    OBVIOUS
  <2> HIDE DEF bits
  <2> QED
    BY <1>0, <2>1, <2>2, WriteKeeps
<1>3. CASE Send(t)
  BY <1>3, SendKeeps
<1>4. CASE SendEnable(t)
  <2>1. CASE ReadEnable(t, "filled", "sendEn") /\ UNCHANGED <<enable, queues, cb, message, open, isr, raced>>
    BY <2>1, ReadKeeps
  <2>2. CASE /\ WriteEnable(t, "sendEn", "idle", SendCh[t], task[t].val \cup {SendCh[t]})
             /\ UNCHANGED <<queues, cb, message, open, isr>>
    <3> DEFINE bits == task[t].val \cup {SendCh[t]}
    <3>1. WriteEnable(t, "sendEn", "idle", SendCh[t], bits) /\ UNCHANGED <<queues, message, isr>>
      BY <2>2
    <3>2. SendCh[t] \in bits /\ \A c \in Channels \ {SendCh[t]} : c \in bits <=> c \in task[t].val
      OBVIOUS
    <3> HIDE DEF bits
    <3> QED
      BY <1>0, <3>1, <3>2, WriteKeeps
  <2> QED
    BY <1>4, <2>1, <2>2 DEF SendEnable
<1>5. CASE Free(t)
  <2>1. ReadEnable(t, "idle", "recOff") /\ UNCHANGED <<enable, queues, message, isr>> /\ t \notin busy
    BY <1>5 DEF Free
  <2> QED
    BY <2>1, ReadKeeps
<1>6. CASE FreeDisable(t)
  <2>0. t \notin busy
    <3>1. task[t].pc \in {"recOff", "half", "sendOff"}
      BY <1>6 DEF FreeDisable, ReadEnable, WriteEnable, At
    <3> QED
      BY <3>1 DEF Closed, TypeOK
  <2>1. CASE /\ WriteEnable(t, "recOff", "half", RecCh[t], task[t].val \ {RecCh[t]})
             /\ cb' = cb \ {RecCh[t]} /\ UNCHANGED <<queues, message, open, isr>>
    <3> DEFINE bits == task[t].val \ {RecCh[t]}
    <3>1. WriteEnable(t, "recOff", "half", RecCh[t], bits) /\ UNCHANGED <<queues, message, isr>>
      BY <2>1
    <3>2. \A c \in Channels \ {RecCh[t]} : c \in bits <=> c \in task[t].val
      OBVIOUS
    <3> HIDE DEF bits
    <3> QED
      BY <1>0, <2>0, <3>1, <3>2, WriteKeeps
  <2>2. CASE ReadEnable(t, "half", "sendOff") /\ UNCHANGED <<enable, queues, cb, message, open, isr, raced>>
    BY <2>2, ReadKeeps
  <2>3. CASE /\ WriteEnable(t, "sendOff", "idle", SendCh[t], task[t].val \ {SendCh[t]})
             /\ cb' = cb \ {SendCh[t]} /\ UNCHANGED <<queues, message, open, isr>>
    <3> DEFINE bits == task[t].val \ {SendCh[t]}
    <3>1. WriteEnable(t, "sendOff", "idle", SendCh[t], bits) /\ UNCHANGED <<queues, message, isr>>
      BY <2>3
    <3>2. SendCh[t] \notin bits /\ \A c \in Channels \ {SendCh[t]} : c \in bits <=> c \in task[t].val
      OBVIOUS
    <3> HIDE DEF bits
    <3> QED
      BY <1>0, <3>1, <3>2, WriteKeeps
  <2> QED
    BY <1>6, <2>1, <2>2, <2>3 DEF FreeDisable
<1> QED
  BY <1>1, <1>2, <1>3, <1>4, <1>5, <1>6 DEF Task

-----------------------------------------------------------------------------
(* The same while the handler runs.                                        *)

\* The handler leaves the tasks alone.
LEMMA IsrSparesTasks == Isr => UNCHANGED <<task, open>>
BY DEF Isr, IsrEnter, IsrReturn, IsrReceive, IsrFull, IsrWrite, IsrFinish, IsrReport

\* It moves on to another channel.
LEMMA OnwardsKeeps ==
  ASSUME NEW e \in Edps, Sound(e), isr'.pc # "report", isr'.chs \subseteq enable \cup isr.chs,
         UNCHANGED <<enable, message, task>>, WordsOf(e)' = WordsOf(e)
  PROVE  Sound(e)'
<1> USE DEF message
<1>1. Counted(e)'
  BY DEF Sound, Counted, WordsOf
<1>2. BitCurrent(e)'
  BY DEF Sound, BitCurrent, Reading
<1>3. ServedWhenBusy(e)'
  BY DEF Sound, ServedWhenBusy
<1> QED
  BY <1>1, <1>2, <1>3 DEF Sound, OffWhenTold

LEMMA WriteWordKeeps ==
  ASSUME TypeOK, IsrInv, WithinMessages, NEW e \in Edps, Sound(e), NEW ch \in Channels, IsrWrite(ch)
  PROVE  Sound(e)'
<1> DEFINE w == Owner(ch)
<1>1. w \in Edps /\ SendCh[w] = ch
  BY SenderOf DEF IsrWrite
<1>2. Sends(w)
  BY <1>1, WriteSends
<1>3. ch \in isr.chs /\ isr.pc = "serve"
  BY ServedIsListed DEF IsrWrite, Serving
<1>4. UNCHANGED <<enable, busy, spurious, task, isr>>
  BY DEF IsrWrite
<1>5. /\ WordsOf(e) \in Nat /\ len[e] \in Nat /\ idx[e] \in Nat /\ asked[e] \in Nat
  BY WordTypes
<1>6. Counted(e)'
  <2>1. CASE w = e
    <3>1. e \in busy
      BY <1>1, <1>3, <2>1 DEF Sound, ServedWhenBusy
    <3>2. WordsOf(e) + (len[e] - idx[e]) = asked[e]
      BY DEF Sound, Counted, WordsOf
    <3>3. /\ idx'[e] = idx[e] + 1 /\ WordsOf(e)' = WordsOf(e) + 1
          /\ len'[e] = len[e] /\ asked'[e] = asked[e]
      BY <1>2, <2>1 DEF Sends
    <3>4. WordsOf(e)' + (len'[e] - idx'[e]) = asked'[e]
      BY <1>5, <3>2, <3>3
    <3> QED
      BY <1>4, <3>1, <3>4 DEF Counted, WordsOf
  <2>2. CASE w # e
    BY <1>2, <1>4, <1>5, <2>2 DEF Sound, Counted, Sends, WordsOf
  <2> QED
    BY <2>1, <2>2
<1>7. BitCurrent(e)'
  BY <1>4 DEF Sound, BitCurrent, Reading
<1>8. ServedWhenBusy(e)' /\ OffWhenTold(e)'
  BY <1>3, <1>4 DEF Sound, ServedWhenBusy, OffWhenTold
<1> QED
  BY <1>4, <1>6, <1>7, <1>8 DEF Sound

LEMMA FinishKeeps ==
  ASSUME TypeOK, IsrInv, WithinMessages, NEW e \in Edps, Sound(e), SendCh[e] \notin raced',
         NEW ch \in Channels, IsrFinish(ch)
  PROVE  Sound(e)'
<1> USE DEF message
<1>1. Owner(ch) \in Edps /\ SendCh[Owner(ch)] = ch
  BY SenderOf DEF IsrFinish
<1>2. /\ ch \in isr.chs /\ ch = Min(isr.chs) /\ isr'.chs = isr.chs /\ enable' = enable \ {ch}
      /\ UNCHANGED <<task, message, sent>>
  BY ServedIsListed DEF IsrFinish, Serving, EnableAfterEnd, queues, TypeOK
<1>3. Counted(e)'
  BY <1>2 DEF Sound, Counted
<1>4. ServedWhenBusy(e)'
  BY <1>2 DEF Sound, ServedWhenBusy
<1>5. CASE SendCh[e] = ch
  <2>1. Owner(ch) = e
    BY <1>5, OwnChannels
  <2>2. ~ Lapped(e)
    BY <1>5, <2>1 DEF IsrFinish
  <2>3. ~ Reading(e)
    BY <1>2, <1>5 DEF Sound, ServedWhenBusy, Reading
  <2>4. BitCurrent(e)' /\ ~ Lapped(e)'
    BY <1>2, <2>2, <2>3 DEF BitCurrent, Lapped, Reading
  <2>5. idx[e] = len[e]
    <3>1. idx[e] >= len[e] /\ idx[e] <= len[e]
      BY <2>1 DEF IsrFinish, AtEnd, WithinMessages
    <3> QED
      BY <3>1, WordTypes
  <2> QED
    BY <1>2, <1>3, <1>4, <1>5, <2>4, <2>5 DEF Sound, OffWhenTold
<1>6. CASE SendCh[e] # ch
  <2>1. BitCurrent(e)'
    BY <1>2, <1>6 DEF Sound, BitCurrent, Reading
  <2>2. OffWhenTold(e)'
    BY <1>2, <1>6 DEF OffWhenTold
  <2> QED
    BY <1>2, <1>3, <1>4, <2>1, <2>2 DEF Sound
<1> QED
  BY <1>5, <1>6

LEMMA ReportKeeps ==
  ASSUME TypeOK, IsrInv, NEW e \in Edps, Sound(e), NEW ch \in Channels, IsrReport(ch)
  PROVE  Sound(e)'
<1> DEFINE w == Owner(ch)
<1>1. w \in Edps /\ SendCh[w] = ch
  BY SenderOf DEF IsrReport, IsrInv
<1>2. /\ isr.pc = "report" /\ ch = Min(isr.chs) /\ ch \in isr.chs
      /\ isr'.pc = "serve" /\ isr'.chs = isr.chs \ {ch}
      /\ UNCHANGED <<task, sent>>
  BY ServedIsListed DEF IsrReport, IsrInv, queues
<1>3. w = e => SendCh[e] = ch
  BY <1>1
<1>4. w = e => e \in busy /\ task[e].pc = "idle" /\ SendCh[e] \notin enable /\ idx[e] = len[e]
               /\ \A o \in Edps : ~ Reading(o)
  BY <1>2, <1>3 DEF Sound, ServedWhenBusy, OffWhenTold, Lapped, Reading
<1>5. w # e => SendCh[e] # ch
  BY <1>1, ChannelAssumption
<1>6. e \notin spurious'
  BY <1>4 DEF IsrReport, Sound
<1>7. OffWhenTold(e)'
  BY <1>2 DEF OffWhenTold
<1>8. CASE busy' = busy \ {w} /\ UNCHANGED <<enable, len, idx, asked>>
  <2>1. Counted(e)'
    BY <1>2, <1>4, <1>8 DEF Sound, Counted
  <2>2. BitCurrent(e)'
    BY <1>2, <1>8 DEF Sound, BitCurrent, Reading
  <2>3. ServedWhenBusy(e)'
    <3>1. CASE w = e
      BY <1>2, <1>3, <1>4, <1>8, <3>1 DEF ServedWhenBusy
    <3>2. CASE w # e
      BY <1>2, <1>8, <3>2 DEF Sound, ServedWhenBusy
    <3> QED
      BY <3>1, <3>2
  <2> QED
    BY <1>6, <1>7, <2>1, <2>2, <2>3 DEF Sound
<1>9. ASSUME w \in busy, UNCHANGED busy, NEW n \in 1 .. MsgWords, Fill(w, n),
             enable' = enable \cup {ch}
      PROVE  Sound(e)'
  <2>1. Leaves(w, n)
    BY <1>1, <1>2, <1>9, FillLeaves
  <2>2. Counted(e)'
    <3>1. busy' = busy \cup {w}
      BY <1>9
    <3> QED
      BY <1>1, <1>2, <1>4, <2>1, <3>1, LeaveKeepsCount DEF Sound, Counted
  <2>3. BitCurrent(e)'
    <3>1. CASE w = e
      BY <1>2, <1>4, <3>1 DEF BitCurrent, Reading
    <3>2. CASE w # e
      BY <1>2, <1>5, <1>9, <3>2 DEF Sound, BitCurrent, Reading
    <3> QED
      BY <3>1, <3>2
  <2>4. ServedWhenBusy(e)'
    <3>1. CASE w = e
      BY <1>2, <1>4, <1>9, <3>1 DEF ServedWhenBusy
    <3>2. CASE w # e
      BY <1>2, <1>5, <1>9, <3>2 DEF Sound, ServedWhenBusy
    <3> QED
      BY <3>1, <3>2
  <2> QED
    BY <1>6, <1>7, <2>2, <2>3, <2>4 DEF Sound
<1> QED
  BY <1>8, <1>9 DEF IsrReport

LEMMA IsrKeeps ==
  ASSUME TypeOK, IsrInv, WithinMessages, NEW e \in Edps, Sound(e), SendCh[e] \notin raced', Isr
  PROVE  Sound(e)'
<1> USE DEF queues, message
<1>1. CASE IsrEnter
  <2>1. isr'.pc = "serve" /\ isr'.chs \subseteq enable
    BY <1>1 DEF IsrEnter
  <2>2. UNCHANGED <<enable, message, task>> /\ WordsOf(e)' = WordsOf(e)
    BY <1>1 DEF IsrEnter, WordsOf
  <2> QED
    BY <2>1, <2>2, OnwardsKeeps
<1>2. CASE IsrReturn
  BY <1>2, OnwardsKeeps DEF IsrReturn, Idle, WordsOf
<1>3. ASSUME NEW ch \in Channels, IsrReceive(ch) \/ IsrFull(ch)  PROVE Sound(e)'
  <2>1. isr'.pc = "serve" /\ isr'.chs \subseteq isr.chs
    BY <1>3 DEF IsrReceive, IsrFull, Serving, Served, TypeOK
  <2>2. UNCHANGED <<enable, message, task>> /\ WordsOf(e)' = WordsOf(e)
    BY <1>3 DEF IsrReceive, IsrFull, WordsOf
  <2> QED
    BY <2>1, <2>2, OnwardsKeeps
<1> QED
  BY <1>1, <1>2, <1>3, WriteWordKeeps, FinishKeeps, ReportKeeps DEF Isr

LEMMA SendKept ==
  ASSUME TypeOK, Closed, IsrInv, WithinMessages, SendInv, [Next]_vars
  PROVE  SendInv'
<1> SUFFICES ASSUME NEW e \in Edps, SendCh[e] \notin raced'  PROVE Sound(e)'
  BY DEF SendInv, Sound
<1>1. raced \subseteq raced'
  <2>1. \A t \in Edps : Task(t) => raced \subseteq raced'
    BY DEF Task, Alloc, AllocEnable, Send, SendEnable, Free, FreeDisable, WriteEnable
  <2>2. Isr => raced \subseteq raced'
    BY DEF Isr, IsrEnter, IsrReturn, IsrReceive, IsrFull, IsrWrite, IsrFinish, IsrReport
  <2> QED
    BY <2>1, <2>2 DEF Next, PeerTake, PeerPut, vars
<1>2. Sound(e)
  BY <1>1 DEF SendInv, Sound
<1>3. ASSUME UNCHANGED <<enable, message, task, isr>>, WordsOf(e)' = WordsOf(e)  PROVE Sound(e)'
  BY <1>2, <1>3 DEF Sound, Counted, BitCurrent, ServedWhenBusy, OffWhenTold, Lapped, Reading, WordsOf, message
<1>4. ASSUME NEW ch \in Channels, PeerTake(ch) \/ PeerPut(ch)  PROVE Sound(e)'
  <2>1. UNCHANGED <<enable, message, task, isr>>
    BY <1>4 DEF PeerTake, PeerPut
  <2>2. WordsOf(e)' = WordsOf(e)
    <3>1. CASE PeerTake(ch)
      BY <3>1 DEF PeerTake, WordsOf
    <3>2. CASE PeerPut(ch)
      BY <3>2, OwnChannels DEF PeerPut, WordsOf, TypeOK
    <3> QED
      BY <1>4, <3>1, <3>2
  <2> QED
    BY <1>3, <2>1, <2>2
<1>5. CASE UNCHANGED vars
  BY <1>3, <1>5 DEF vars, queues, WordsOf
<1> QED
  BY <1>2, <1>4, <1>5, TaskKeeps, IsrKeeps DEF Next

-----------------------------------------------------------------------------

\* IInv is an inductive invariant of the driver, the other core and the queues.
THEOREM SxInvariant == Spec => []IInv
<1>1. Init => IInv
  <2> SUFFICES ASSUME Init  PROVE IInv
    OBVIOUS
  <2>0. <<>> \o <<>> = <<>> /\ Len(<<>>) = 0
    OBVIOUS
  <2>1. \A e \in Edps : SendCh[e] \in Channels /\ MaxWords[SendCh[e]] \in Nat
    BY OwnChannels, BoundAssumption
  <2>2. Closed /\ IsrInv
    BY DEF Init, Closed, IsrInv, Quiet, Idle
  <2>3. QueueInv
    BY <2>0, BoundAssumption DEF Init, QueueInv
  <2>4. WithinMessages
    BY <2>0, <2>1 DEF Init, WithinMessages
  <2>5. SendInv
    BY <2>0, <2>1 DEF Init, SendInv, Counted, BitCurrent, ServedWhenBusy, OffWhenTold, Reading, Quiet, Idle
  <2> QED
    BY InitTypes, <2>2, <2>3, <2>4, <2>5 DEF IInv
<1>2. IInv /\ [Next]_vars => IInv'
  <2> SUFFICES ASSUME IInv, [Next]_vars  PROVE IInv'
    OBVIOUS
  <2>1. TypeOK'
    <3>1. CASE UNCHANGED vars
      BY <3>1 DEF IInv, TypeOK, vars, queues, message
    <3> QED
      BY <3>1, TaskTypes, IsrTypes, PeerTypes DEF IInv, Next
  <2> QED
    BY <2>1, ClosedKept, QueueKept, WithinKept, IsrKept, SendKept DEF IInv
<1> QED
  BY <1>1, <1>2, PTL DEF Spec

\* tx_done comes once for each message, not before its last word is in the
\* queue, unless a task wrote over a change of the enable bit (DoneExactly).
THEOREM DoneOnce == Spec => []DoneExactly
<1>1. IInv => DoneExactly
  <2> SUFFICES ASSUME IInv, NEW e \in Edps, SendCh[e] \notin raced
               PROVE  e \notin spurious /\ (e \notin busy => Len(sent[SendCh[e]]) = asked[e])
    BY DEF DoneExactly
  <2>1. e \notin spurious /\ Counted(e)
    BY DEF IInv, SendInv
  <2>2. WordsOf(e) \in Nat /\ len[e] \in Nat /\ idx[e] \in Nat /\ asked[e] \in Nat
    BY WordTypes DEF IInv
  <2> QED
    BY <2>1, <2>2 DEF Counted, WordsOf
<1> QED
  BY <1>1, SxInvariant, PTL

\* In both directions the driver, its queues and the other core implement the
\* abstract Mailbox (BoxSpec): no word is lost, none is repeated, their order
\* is kept, and no queue holds more than it has room for.
THEOREM MailboxKept == Spec => BoxSpec
<1>1. Init => Box!Init
  BY DEF Init, Box!Init
<1>2. IInv /\ [Next]_vars => [Box!Next]_<<sent, taken>>
  <2> SUFFICES ASSUME IInv, [Next]_vars  PROVE Box!Next \/ UNCHANGED <<sent, taken>>
    OBVIOUS
  <2>0. TypeOK /\ QueueInv /\ WithinMessages
    BY DEF IInv
  <2>1. CASE UNCHANGED queues
    BY <2>1 DEF queues
  <2>2. ASSUME NEW ch \in Channels, Puts(ch), IsrWrite(ch) \/ PeerPut(ch)  PROVE Box!Next
    <3> DEFINE word == Len(sent[ch]) + 1
    <3>1. sent[ch] \in Seq(Nat) /\ taken[ch] \in Seq(Nat) /\ fifo[ch] \in Seq(Nat)
      BY <2>0 DEF TypeOK
    <3>2. Len(sent[ch]) = Len(taken[ch]) + Len(fifo[ch])
      <4>1. sent[ch] = taken[ch] \o fifo[ch]
        BY <2>0 DEF QueueInv
      <4> QED
        BY <3>1, <4>1
    <3>3. Len(sent[ch]) < Len(taken[ch]) + MSGBOX_CHANNEL_DEPTH
      <4>1. Len(fifo[ch]) < MSGBOX_CHANNEL_DEPTH
        BY <2>2 DEF Puts
      <4>2. Len(taken[ch]) \in Nat /\ Len(fifo[ch]) \in Nat /\ MSGBOX_CHANNEL_DEPTH \in Nat
        BY <3>1, BoundAssumption
      <4>3. \A b, c, d \in Nat : c < d => b + c < b + d
        OBVIOUS
      <4>4. Len(taken[ch]) + Len(fifo[ch]) < Len(taken[ch]) + MSGBOX_CHANNEL_DEPTH
        BY <4>1, <4>2, <4>3
      <4> QED
        BY <3>2, <4>4
    <3>4. Len(sent[ch]) < MaxWords[ch]
      <4>1. CASE PeerPut(ch)
        BY <4>1 DEF PeerPut
      <4>2. CASE IsrWrite(ch)
        <5> DEFINE e == Owner(ch)
        <5>1. e \in Edps /\ SendCh[e] = ch
          BY <4>2, SenderOf DEF IsrWrite
        <5>2. Sends(e)
          BY <2>0, <4>2, <5>1, WriteSends
        <5>3. /\ WordsOf(e) \in Nat /\ len[e] \in Nat /\ idx[e] \in Nat /\ asked[e] \in Nat
              /\ MaxWords[SendCh[e]] \in Nat
          BY <2>0, <5>1, WordTypes
        <5>4. asked[e] <= MaxWords[SendCh[e]] /\ WordsOf(e) + (len[e] - idx[e]) <= asked[e]
          BY <2>0, <5>1 DEF WithinMessages, WordsOf
        <5>5. idx[e] < len[e]
          BY <5>2 DEF Sends
        <5>6. WordsOf(e) < MaxWords[SendCh[e]]
          BY <5>3, <5>4, <5>5
        <5> QED
          BY <5>1, <5>6 DEF WordsOf
      <4> QED
        BY <2>2, <4>1, <4>2
    <3>5. word \in Words
      <4>1. MaxWords[ch] \in Nat
        BY BoundAssumption
      <4>2. word \in 1 .. MaxWords[ch]
        BY <3>1, <3>4, <4>1
      <4> QED
        BY <4>2 DEF Words
    <3>6. sent' = [sent EXCEPT ![ch] = Append(@, word)] /\ taken' = taken
      BY <2>2 DEF Puts
    <3>7. Box!Put(ch, word)
      BY <3>3, <3>6 DEF Box!Put
    <3> QED
      BY <3>5, <3>7 DEF Box!Next
  <2>3. ASSUME NEW ch \in Channels, Takes(ch)  PROVE Box!Next
    <3>1. /\ sent[ch] \in Seq(Nat) /\ taken[ch] \in Seq(Nat) /\ fifo[ch] \in Seq(Nat)
          /\ sent[ch] = taken[ch] \o fifo[ch]
      BY <2>0 DEF TypeOK, QueueInv
    <3>2. Len(taken[ch]) < Len(sent[ch]) /\ sent[ch][Len(taken[ch]) + 1] = Head(fifo[ch])
      BY <2>3, <3>1, QueueTake DEF Takes
    <3>3. taken' = [taken EXCEPT ![ch] = Append(@, Head(fifo[ch]))] /\ sent' = sent
      BY <2>3 DEF Takes
    <3>4. Box!Take(ch)
      BY <2>0, <3>2, <3>3 DEF Box!Take, TypeOK
    <3> QED
      BY <3>4 DEF Box!Next
  <2> QED
    BY <2>0, <2>1, <2>2, <2>3, QueueSteps
<1> QED
  BY <1>1, <1>2, SxInvariant, PTL DEF Spec, BoxSpec, Box!Spec

=============================================================================
