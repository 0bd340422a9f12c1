------------------------------ MODULE MsgboxSx ------------------------------
(***************************************************************************)
(* The message box driver of the SX cores,                                 *)
(* src/hal/source/msgbox/msgbox_sx: hal_msgbox_sx.c, msgbox_sx.c and       *)
(* msgbox_adapt.c.  A send leaves the message with its channel and enables *)
(* the channel's interrupt; the handler moves words to the queue while it  *)
(* has room and reports the end to the client, whose callback may send the *)
(* next message at once.  An endpoint has a receiving and a sending        *)
(* channel, and a task that opens it, sends and closes it.  A client sends *)
(* its next message only when tx_done has reported the one before.         *)
(*                                                                         *)
(* The handler runs between any two steps of a task, and to its end; the   *)
(* other core takes and puts words at any time.  The hardware keeps a      *)
(* receiving channel pending while its queue holds a word, and a sending   *)
(* one while its queue has room; writing the bit has no effect on that.    *)
(***************************************************************************)
EXTENDS Naturals, Sequences, FiniteSetsExt

CONSTANTS Edps,      \* endpoints, each with its task
          RecCh, SendCh,   \* the channels of an endpoint, numbers
          MSGBOX_CHANNEL_DEPTH,
          MsgWords,  \* bound: words of a message
          MaxWords   \* bound: words sent on each channel

Channels == {RecCh[e] : e \in Edps} \cup {SendCh[e] : e \in Edps}

ASSUME ChannelAssumption ==
  /\ RecCh \in [Edps -> Nat] /\ SendCh \in [Edps -> Nat]
  /\ \A e, o \in Edps :
       RecCh[e] # SendCh[o] /\ (e # o => RecCh[e] # RecCh[o] /\ SendCh[e] # SendCh[o])
ASSUME BoundAssumption ==
  MSGBOX_CHANNEL_DEPTH \in Nat \ {0} /\ MsgWords \in Nat /\ MaxWords \in [Channels -> Nat]

VARIABLES
  enable,   \* the interrupt enable register
  fifo,     \* the hardware queues
  cb,       \* channels with a handler (cb_of_msg_queue)
  len, idx, \* of the message of an endpoint, in words
  task,     \* where the task of an endpoint is, and the register value it read
  open,     \* endpoints whose allocation returned
  busy,     \* endpoints that wait for tx_done
  isr,      \* the handler: channels it has to serve, and what it does there
  \* history: words written and read, words of the messages of an endpoint,
  \* endpoints told tx_done with no message under way, and channels whose bit
  \* was written while a task was about to write the register it had read
  sent, taken, asked, spurious, raced

queues == <<fifo, sent, taken>>
message == <<len, idx, busy, asked, spurious>>
vars == <<enable, queues, cb, message, task, open, isr, raced>>

Quiet == [pc |-> "idle", val |-> {}]
Idle == [pc |-> "idle", chs |-> {}]

Init ==
  /\ enable = {} /\ cb = {}
  /\ fifo = [ch \in Channels |-> <<>>]
  /\ len = [e \in Edps |-> 0] /\ idx = [e \in Edps |-> 0]
  /\ task = [e \in Edps |-> Quiet]
  /\ open = {} /\ busy = {}
  /\ isr = Idle
  /\ sent = [ch \in Channels |-> <<>>] /\ taken = [ch \in Channels |-> <<>>]
  /\ asked = [e \in Edps |-> 0]
  /\ spurious = {} /\ raced = {}

-----------------------------------------------------------------------------
(* Tasks: hal_msgbox_alloc_channel, _channel_send and _free_channel.       *)

At(e, pc) == task[e].pc = pc /\ isr.pc = "idle"

\* A task between its read and its write of the register loses this write.
Reading(e) == task[e].pc \in {"recEn", "sendEn", "recOff", "sendOff"}
Lapped(e) == \E o \in Edps \ {e} : Reading(o)

\* msg_queue_irq_t and msg_queue_irq_r read the register, then write it.
ReadEnable(e, from, to) ==
  /\ At(e, from)
  /\ task' = [task EXCEPT ![e] = [pc |-> to, val |-> enable]]

WriteEnable(e, from, to, ch, bits) ==
  /\ At(e, from)
  /\ enable' = bits
  /\ raced' = IF Lapped(e) THEN raced \cup {ch} ELSE raced
  /\ task' = [task EXCEPT ![e] = [Quiet EXCEPT !.pc = to]]

\* The receiving channel gets its callback before its interrupt, the sending
\* one no interrupt before a message.
Alloc(e) ==
  /\ ReadEnable(e, "idle", "recEn")
  /\ e \notin open
  /\ cb' = cb \cup {RecCh[e]}
  /\ UNCHANGED <<enable, queues, message, open, isr, raced>>

AllocEnable(e) ==
  /\ WriteEnable(e, "recEn", "idle", RecCh[e], task[e].val \cup {RecCh[e]})
  /\ cb' = cb \cup {SendCh[e]}
  /\ open' = open \cup {e}
  /\ UNCHANGED <<queues, message, isr>>

\* The message, left with the channel.
IdxAtStart_kept(e) == idx[e]
IdxAtStart(e) == 0

Fill(e, n) ==
  /\ asked[e] + n <= MaxWords[SendCh[e]]
  /\ asked' = [asked EXCEPT ![e] = @ + n]
  /\ len' = [len EXCEPT ![e] = n]
  /\ idx' = [idx EXCEPT ![e] = IdxAtStart(e)]

Send(e) ==
  /\ At(e, "idle")
  /\ e \in open /\ e \notin busy
  /\ \E n \in 1 .. MsgWords : Fill(e, n)
  /\ busy' = busy \cup {e}
  /\ task' = [task EXCEPT ![e].pc = "filled"]
  /\ UNCHANGED <<enable, queues, cb, spurious, open, isr, raced>>

SendEnable(e) ==
  \/ /\ ReadEnable(e, "filled", "sendEn")
     /\ UNCHANGED <<enable, queues, cb, message, open, isr, raced>>
  \/ /\ WriteEnable(e, "sendEn", "idle", SendCh[e], task[e].val \cup {SendCh[e]})
     /\ UNCHANGED <<queues, cb, message, open, isr>>

Free(e) ==
  /\ ReadEnable(e, "idle", "recOff")
  /\ e \in open /\ e \notin busy
  /\ open' = open \ {e}
  /\ UNCHANGED <<enable, queues, cb, message, isr, raced>>

\* Each channel: interrupt off, then the callbacks cleared.
FreeDisable(e) ==
  \/ /\ WriteEnable(e, "recOff", "half", RecCh[e], task[e].val \ {RecCh[e]})
     /\ cb' = cb \ {RecCh[e]}
     /\ UNCHANGED <<queues, message, open, isr>>
  \/ /\ ReadEnable(e, "half", "sendOff")
     /\ UNCHANGED <<enable, queues, cb, message, open, isr, raced>>
  \/ /\ WriteEnable(e, "sendOff", "idle", SendCh[e], task[e].val \ {SendCh[e]})
     /\ cb' = cb \ {SendCh[e]}
     /\ UNCHANGED <<queues, message, open, isr>>

Task(e) ==
  Alloc(e) \/ AllocEnable(e) \/ Send(e) \/ SendEnable(e) \/ Free(e) \/ FreeDisable(e)

-----------------------------------------------------------------------------
(* The interrupt handler, msg_irq_handler_sx.                              *)

Sending(ch) == \E e \in Edps : SendCh[e] = ch
Owner(ch) == CHOOSE e \in Edps : ch \in {RecCh[e], SendCh[e]}

Pending ==
  {ch \in Channels : IF Sending(ch) THEN Len(fifo[ch]) < MSGBOX_CHANNEL_DEPTH ELSE fifo[ch] # <<>>}

\* Status and enable are read once, at the start.
IsrEnter ==
  /\ isr.pc = "idle" /\ Pending \cap enable # {}
  /\ isr' = [pc |-> "serve", chs |-> Pending \cap enable \cap cb]
  /\ UNCHANGED <<enable, queues, cb, message, task, open, raced>>

Serving(ch) == isr.pc = "serve" /\ isr.chs # {} /\ ch = Min(isr.chs)
Served(ch) == isr' = [isr EXCEPT !.chs = @ \ {ch}]

\* msgbox_rev_handler: a word is read and handed to the client.
IsrReceive(ch) ==
  /\ Serving(ch) /\ ~Sending(ch)
  /\ IF fifo[ch] # <<>>
       THEN /\ fifo' = [fifo EXCEPT ![ch] = Tail(@)]
            /\ taken' = [taken EXCEPT ![ch] = Append(@, Head(fifo[ch]))]
            /\ UNCHANGED isr
       ELSE Served(ch) /\ UNCHANGED <<fifo, taken>>
  /\ UNCHANGED <<enable, cb, message, task, open, sent, raced>>

\* msgbox_send_handler, once round its loop: the queue is full, or the message
\* has a word left, or it is at its end and the interrupt goes off.
AtEnd(e) == idx[e] >= len[e]

HasRoom_any(ch) == TRUE
HasRoom(ch) == Len(fifo[ch]) < MSGBOX_CHANNEL_DEPTH

IsrFull(ch) ==
  /\ Serving(ch) /\ Sending(ch)
  /\ ~HasRoom(ch)
  /\ Served(ch)
  /\ UNCHANGED <<enable, queues, cb, message, task, open, raced>>

IsrWrite(ch) ==
  LET e == Owner(ch)  word == Len(sent[ch]) + 1 IN
  /\ Serving(ch) /\ Sending(ch)
  /\ HasRoom(ch) /\ ~AtEnd(e)
  /\ idx' = [idx EXCEPT ![e] = @ + 1]
  /\ fifo' = [fifo EXCEPT ![ch] = IF Len(@) < MSGBOX_CHANNEL_DEPTH THEN Append(@, word) ELSE @]
  /\ sent' = [sent EXCEPT ![ch] = Append(@, word)]
  /\ UNCHANGED <<enable, cb, len, busy, asked, spurious, task, open, isr, taken, raced>>

EnableAfterEnd_all(ch) == {}
EnableAfterEnd(ch) == enable \ {ch}

IsrFinish(ch) ==
  /\ Serving(ch) /\ Sending(ch)
  /\ HasRoom(ch) /\ AtEnd(Owner(ch))
  /\ enable' = EnableAfterEnd(ch)
  /\ raced' = IF Lapped(Owner(ch)) THEN raced \cup {ch} ELSE raced
  /\ isr' = [isr EXCEPT !.pc = "report"]
  /\ UNCHANGED <<queues, cb, message, task, open>>

\* tx_done: the client is told, and may send again from the callback.
IsrReport(ch) ==
  LET e == Owner(ch) IN
  /\ isr.pc = "report" /\ ch = Min(isr.chs)
  /\ isr' = [pc |-> "serve", chs |-> isr.chs \ {ch}]
  /\ spurious' = IF e \in busy THEN spurious ELSE spurious \cup {e}
  /\ \/ busy' = busy \ {e} /\ UNCHANGED <<enable, len, idx, asked>>
     \/ /\ e \in busy /\ UNCHANGED busy
        /\ \E n \in 1 .. MsgWords : Fill(e, n)
        /\ enable' = enable \cup {ch}
  /\ UNCHANGED <<queues, cb, task, open, raced>>

IsrReturn ==
  /\ isr = [pc |-> "serve", chs |-> {}]
  /\ isr' = Idle
  /\ UNCHANGED <<enable, queues, cb, message, task, open, raced>>

Isr ==
  \/ IsrEnter \/ IsrReturn
  \/ \E ch \in Channels :
       IsrReceive(ch) \/ IsrFull(ch) \/ IsrWrite(ch) \/ IsrFinish(ch) \/ IsrReport(ch)

-----------------------------------------------------------------------------
(* The other core.                                                         *)

PeerTake(ch) ==
  /\ Sending(ch) /\ fifo[ch] # <<>>
  /\ fifo' = [fifo EXCEPT ![ch] = Tail(@)]
  /\ taken' = [taken EXCEPT ![ch] = Append(@, Head(fifo[ch]))]
  /\ UNCHANGED <<enable, cb, message, task, open, isr, sent, raced>>

PeerPut(ch) ==
  /\ ~Sending(ch) /\ Len(fifo[ch]) < MSGBOX_CHANNEL_DEPTH /\ Len(sent[ch]) < MaxWords[ch]
  /\ fifo' = [fifo EXCEPT ![ch] = Append(@, Len(sent[ch]) + 1)]
  /\ sent' = [sent EXCEPT ![ch] = Append(@, Len(@) + 1)]
  /\ UNCHANGED <<enable, cb, message, task, open, isr, taken, raced>>

Next ==
  \/ \E e \in Edps : Task(e)
  \/ Isr
  \/ \E ch \in Channels : PeerTake(ch) \/ PeerPut(ch)

Spec == Init /\ [][Next]_vars

\* A call that began goes on, interrupts are taken and return, and the other
\* core reads what is sent to it.
Fairness ==
  /\ \A e \in Edps : WF_vars(Task(e) /\ task[e].pc # "idle")
  /\ WF_vars(Isr)
  /\ \A ch \in Channels : WF_vars(PeerTake(ch))

FairSpec == Spec /\ Fairness

-----------------------------------------------------------------------------

TypeOK ==
  /\ enable \subseteq Channels /\ cb \subseteq Channels /\ raced \subseteq Channels
  /\ fifo \in [Channels -> Seq(Nat)]
  /\ sent \in [Channels -> Seq(Nat)] /\ taken \in [Channels -> Seq(Nat)]
  /\ len \in [Edps -> Nat] /\ idx \in [Edps -> Nat] /\ asked \in [Edps -> Nat]
  /\ task \in [Edps -> [pc : {"idle", "recEn", "filled", "sendEn", "recOff", "half", "sendOff"},
                       val : SUBSET Channels]]
  /\ busy \subseteq open /\ open \subseteq Edps /\ spurious \subseteq Edps
  /\ isr \in [pc : {"idle", "serve", "report"}, chs : SUBSET Channels]

\* An endpoint that is being opened or closed is not open: no message of its
\* own is under way.
Closed == \A e \in Edps : task[e].pc \in {"recEn", "recOff", "half", "sendOff"} => e \notin open

\* The queues hold what was sent and not taken.
QueueInv ==
  \A ch \in Channels :
    sent[ch] = taken[ch] \o fifo[ch] /\ Len(fifo[ch]) <= MSGBOX_CHANNEL_DEPTH

\* No endpoint sends more words than its messages have.
WithinMessages ==
  \A e \in Edps :
    /\ idx[e] <= len[e] /\ asked[e] <= MaxWords[SendCh[e]]
    /\ Len(sent[SendCh[e]]) + (len[e] - idx[e]) <= asked[e]

\* The message of an endpoint: all words but those still to come are sent, and
\* none is to come when nobody waits.
Counted(e) ==
  /\ Len(sent[SendCh[e]]) + (len[e] - idx[e]) = asked[e]
  /\ e \notin busy => idx[e] = len[e]
  /\ task[e].pc \in {"filled", "sendEn"} => e \in busy

\* A task about to write the register has read the endpoint's bit as it is.
BitCurrent(e) ==
  \A o \in Edps : Reading(o) => (SendCh[e] \in task[o].val <=> SendCh[e] \in enable)

\* The handler serves an endpoint's message only while the task waits for it.
ServedWhenBusy(e) ==
  SendCh[e] \in enable \cup isr.chs => e \in busy /\ task[e].pc = "idle"

\* Between the end of a message and tx_done its bit is off, and nobody is
\* about to write it.
OffWhenTold(e) ==
  isr.pc = "report" /\ SendCh[e] = Min(isr.chs) =>
    SendCh[e] \notin enable /\ idx[e] = len[e] /\ ~ Lapped(e)

SendInv ==
  \A e \in Edps : SendCh[e] \notin raced =>
    e \notin spurious /\ Counted(e) /\ BitCurrent(e) /\ ServedWhenBusy(e) /\ OffWhenTold(e)

IsrInv ==
  /\ isr.pc = "idle" => isr.chs = {}
  /\ isr.pc = "report" => isr.chs # {} /\ Sending(Min(isr.chs))

IInv == TypeOK /\ Closed /\ QueueInv /\ WithinMessages /\ IsrInv /\ SendInv

\* In both directions a channel is a queue that loses no word, repeats none
\* and keeps their order.
Words == UNION {1 .. MaxWords[ch] : ch \in Channels}
Box == INSTANCE Mailbox WITH Room <- MSGBOX_CHANNEL_DEPTH
BoxSpec == Box!Spec

\* tx_done comes once for each message, and not before its last word is in
\* the queue, whether the message was sent by the task or by the callback of
\* the one before - unless a task wrote over a change of its enable bit.
DoneExactly ==
  \A e \in Edps : SendCh[e] \notin raced =>
    e \notin spurious /\ (e \notin busy => Len(sent[SendCh[e]]) = asked[e])

\* The moment tx_done is called.
Told(e) == isr.pc = "report" /\ Min(isr.chs) = SendCh[e]

\* An interrupt nobody serves is enabled, as a lost write can leave one: the
\* handler may run for it for ever.
Orphaned == ~(enable \subseteq cb)

\* A message is sent and its tx_done called, however its end meets a full
\* queue, the reads of the other core and the calls of other tasks; and a word
\* for an endpoint that stays open is handed to it.
SendsComplete ==
  \A e \in Edps :
    /\ e \in busy ~> Told(e) \/ SendCh[e] \in raced \/ Orphaned
    /\ \A n \in 1 .. MaxWords[RecCh[e]] :
         e \in open /\ Len(sent[RecCh[e]]) >= n ~> Len(taken[RecCh[e]]) >= n \/ e \notin open
           \/ RecCh[e] \in raced \/ Orphaned

=============================================================================
