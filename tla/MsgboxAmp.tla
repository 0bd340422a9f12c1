----------------------------- MODULE MsgboxAmp -----------------------------
(***************************************************************************)
(* The message box between two cores,                                      *)
(* src/hal/source/msgbox/msgbox_amp/msgbox_amp.c.  The receiving core      *)
(* keeps a list of endpoints, which its tasks extend and shorten and its   *)
(* interrupt handler walks; the other core writes words into the hardware  *)
(* queue of a channel.  A task is preempted by the handler and by other    *)
(* tasks between any two accesses to the list or to a register; the        *)
(* handler runs to its end.  The other core runs in parallel with both.    *)
(*                                                                         *)
(* Two assumptions about what is not in the repository.  The hardware      *)
(* keeps a channel's pending bit while the queue holds a word: writing the *)
(* bit clears it only when the queue is empty.  A word written to a full   *)
(* queue is lost.  Standby loses the enable register of the receiving      *)
(* core, which is all that msgbox_resume restores, and nothing else.       *)
(***************************************************************************)
EXTENDS Naturals, Sequences, FiniteSets

CONSTANTS Tasks,     \* tasks of the receiving core that call the API
          PmTasks,   \* those the power management may run in
          Edps,      \* their struct msg_endpoint objects
          Senders,   \* the endpoints of the other core, one task each
          Channels,
          ReadCh,    \* the channel an endpoint reads
          WriteCh,   \* the channel a sender writes
          MsgWords,  \* bound: words in a message
          MaxWords,  \* bound: words a sender sends
          MSGBOX_MAX_QUEUE,
          NULL

ASSUME ChannelAssumption ==
  ReadCh \in [Edps -> Channels] /\ WriteCh \in [Senders -> Channels]
ASSUME PmAssumption == PmTasks \subseteq Tasks
ASSUME BoundAssumption ==
  MSGBOX_MAX_QUEUE \in Nat /\ MsgWords \in Nat /\ MaxWords \in Nat
ASSUME NullAssumption == NULL \notin Edps \cup Tasks

VARIABLES
  \* the list and its mutex
  it_edp, next, it_edp_mutex,
  \* registers of the receiving core, and the hardware queues
  recEn, pending, fifo,
  \* the interrupt handler
  isr,
  \* the tasks: call in progress, its endpoint, its pointer and register value
  task,
  own,     \* who may do what with an endpoint object
  \* the senders: where each is, words left of its message, words sent
  send,
  \* history: the words written to, and read from, each channel; two
  \* calls overlapped that do not free
  sent, taken, overlapped

listVars == <<it_edp, next, it_edp_mutex>>
boxVars == <<recEn, pending, fifo>>
words == <<sent, taken>>
history == <<words, overlapped>>
vars == <<listVars, boxVars, isr, task, own, send, history>>

AllocPcs == {"lock", "walk", "clear", "enableRead", "enableWrite"}
ResumePcs == {"resumeLock", "resumeRead", "resumeWrite"}
FreePcs == {"unlink", "seek", "forget", "scan", "disableRead", "disableWrite"}

Words == Senders \X (1 .. MaxWords)

Pointers == Edps \cup {NULL}

\* Every variable has its type (struct msg_endpoint, the registers of
\* msgbox-sun20iw3.h, the locals of msgbox_amp.c); a queue fits the hardware.
TypeOK ==
  /\ it_edp \in Pointers
  /\ next \in [Edps -> Pointers]
  /\ it_edp_mutex \in Tasks \cup {NULL}
  /\ recEn \subseteq Channels /\ pending \subseteq Channels
  /\ {fifo, sent, taken} \subseteq [Channels -> Seq(Words)]
  /\ \A ch \in Channels : Len(fifo[ch]) <= MSGBOX_MAX_QUEUE
  /\ isr \in [pc: {"idle", "drain", "ack"}, at: Pointers]
  /\ isr.pc = "ack" => isr.at # NULL
  /\ task \in [Tasks -> [pc: {"idle", "asleep"} \cup AllocPcs \cup ResumePcs \cup FreePcs,
                         edp: Pointers, at: Pointers, val: SUBSET Channels]]
  /\ own \in [Edps -> {"out", "calling", "in"}]
  /\ send \in [Senders -> [pc: {"idle", "poll", "write"}, left: 0 .. MsgWords, n: 0 .. MaxWords]]
  /\ overlapped \in BOOLEAN

Quiet == [pc |-> "idle", edp |-> NULL, at |-> NULL, val |-> {}]

\* After hal_msgbox_init; the endpoint objects are zeroed.
Init ==
  /\ it_edp = NULL
  /\ next = [e \in Edps |-> NULL]
  /\ it_edp_mutex = NULL
  /\ recEn = {} /\ pending = {}
  /\ fifo = [ch \in Channels |-> <<>>]
  /\ isr = [pc |-> "idle", at |-> NULL]
  /\ task = [t \in Tasks |-> Quiet]
  /\ own = [e \in Edps |-> "out"]
  /\ send = [s \in Senders |-> [pc |-> "idle", left |-> 0, n |-> 0]]
  /\ sent = [ch \in Channels |-> <<>>]
  /\ taken = [ch \in Channels |-> <<>>]
  /\ overlapped = FALSE

-----------------------------------------------------------------------------
(* Tasks of the receiving core.                                            *)

Awake == \A t \in Tasks : task[t].pc # "asleep"

\* The task is at pc, and the core is awake and not in the handler.
At(t, pc) == task[t].pc = pc /\ isr.pc = "idle" /\ Awake

GoTo(t, pc) == task' = [task EXCEPT ![t].pc = pc]
GoToAt(t, pc, e) == task' = [task EXCEPT ![t].pc = pc, ![t].at = e]

\* hal_msgbox_free_channel takes no mutex, so callers let it overlap nothing.
MayCall(pcs) ==
  \A t \in Tasks : task[t].pc \in {"idle"} \cup pcs

MayOverlap == AllocPcs \cup ResumePcs

Overlaps == overlapped \/ \E u \in Tasks : task[u].pc # "idle"

AllocBegin(t, e) ==
  /\ At(t, "idle")
  /\ MayCall(MayOverlap)
  /\ own[e] = "out"
  /\ own' = [own EXCEPT ![e] = "calling"]
  /\ task' = [task EXCEPT ![t] = [Quiet EXCEPT !.pc = "lock", !.edp = e]]
  /\ overlapped' = Overlaps
  /\ UNCHANGED <<listVars, boxVars, isr, send, words>>

\* Lock, and look at the head of the list.
MutexFree_any == TRUE
MutexFree == it_edp_mutex = NULL

AllocLock(t) ==
  /\ At(t, "lock")
  /\ MutexFree
  /\ it_edp_mutex' = t
  /\ IF it_edp = NULL
       THEN it_edp' = task[t].edp /\ GoTo(t, "clear")
       ELSE UNCHANGED it_edp /\ GoToAt(t, "walk", it_edp)
  /\ UNCHANGED <<next, boxVars, isr, own, send, history>>

AllocWalk(t) ==
  LET at == task[t].at IN
  /\ At(t, "walk")
  /\ IF next[at] = NULL
       THEN next' = [next EXCEPT ![at] = task[t].edp] /\ GoTo(t, "clear")
       ELSE UNCHANGED next /\ GoToAt(t, "walk", next[at])
  /\ UNCHANGED <<it_edp, it_edp_mutex, boxVars, isr, own, send, history>>

Unlocked_not == it_edp_mutex
Unlocked == NULL

\* edp->next = NULL and unlock.
AllocClear(t) ==
  /\ At(t, "clear")
  /\ next' = [next EXCEPT ![task[t].edp] = NULL]
  /\ it_edp_mutex' = Unlocked
  /\ GoTo(t, "enableRead")
  /\ UNCHANGED <<it_edp, boxVars, isr, own, send, history>>

\* msgbox_enable_rec_int and msgbox_disable_rec_int read the register, and
\* then write it, without a lock.
ReadEnables(t, from, to) ==
  /\ At(t, from)
  /\ task' = [task EXCEPT ![t].pc = to, ![t].val = recEn]
  /\ UNCHANGED <<listVars, boxVars, isr, own, send, history>>

\* The last step of a call.
WriteEnables(t, from, bits, status) ==
  /\ At(t, from)
  /\ recEn' = bits
  /\ own' = [own EXCEPT ![task[t].edp] = status]
  /\ task' = [task EXCEPT ![t] = Quiet]
  /\ UNCHANGED <<listVars, pending, fifo, isr, send, history>>

Bit(t) == {ReadCh[task[t].edp]}

EnabledBits_only(t) == Bit(t)
EnabledBits(t) == task[t].val \cup Bit(t)

AllocEnable(t) ==
  \/ ReadEnables(t, "enableRead", "enableWrite")
  \/ WriteEnables(t, "enableWrite", EnabledBits(t), "in")

FreeBegin(t, e) ==
  /\ At(t, "idle") /\ MayCall({})
  /\ own[e] = "in"
  /\ own' = [own EXCEPT ![e] = "calling"]
  /\ task' = [task EXCEPT ![t] = [Quiet EXCEPT !.pc = "unlink", !.edp = e]]
  /\ UNCHANGED <<listVars, boxVars, isr, send, history>>

\* The list with the endpoint taken out behind pointer `at'.
Unlinked(at, e) == [next EXCEPT ![at] = next[e]]

FreeUnlink(t) ==
  LET e == task[t].edp IN
  /\ At(t, "unlink")
  /\ IF it_edp = e
       THEN it_edp' = next[e] /\ GoTo(t, "forget")
       ELSE UNCHANGED it_edp /\ GoToAt(t, "seek", it_edp)
  /\ UNCHANGED <<next, it_edp_mutex, boxVars, isr, own, send, history>>

FreeSeek(t) ==
  LET e == task[t].edp  at == task[t].at IN
  /\ At(t, "seek")
  /\ \/ at = NULL /\ GoTo(t, "forget") /\ UNCHANGED next
     \/ at # NULL /\ next[at] = e /\ GoTo(t, "forget") /\ next' = Unlinked(at, e)
     \/ at # NULL /\ next[at] # e /\ GoToAt(t, "seek", next[at]) /\ UNCHANGED next
  /\ UNCHANGED <<it_edp, it_edp_mutex, boxVars, isr, own, send, history>>

FreeForget(t) ==
  /\ At(t, "forget")
  /\ next' = [next EXCEPT ![task[t].edp] = NULL]
  /\ GoTo(t, "scan")
  /\ UNCHANGED <<it_edp, it_edp_mutex, boxVars, isr, own, send, history>>

\* Every endpoint reads a channel, so the loop looks at the head alone: the
\* interrupt is disabled only with the last endpoint.
FreeScan(t) ==
  /\ At(t, "scan")
  /\ IF it_edp = NULL
       THEN GoTo(t, "disableRead") /\ UNCHANGED own
       ELSE /\ own' = [own EXCEPT ![task[t].edp] = "out"]
            /\ task' = [task EXCEPT ![t] = Quiet]
  /\ UNCHANGED <<listVars, boxVars, isr, send, history>>

FreeDisable(t) ==
  \/ ReadEnables(t, "disableRead", "disableWrite")
  \/ WriteEnables(t, "disableWrite", task[t].val \ Bit(t), "out")

\* Standby comes at any time but in a free; a task of the power management
\* then calls msgbox_resume, which enables the interrupts of the listed
\* endpoints again.
Suspend(t) ==
  /\ At(t, "idle") /\ MayCall(MayOverlap)
  /\ recEn' = {}
  /\ task' = [task EXCEPT ![t] = [Quiet EXCEPT !.pc = "asleep"]]
  /\ overlapped' = Overlaps
  /\ UNCHANGED <<listVars, pending, fifo, isr, own, send, words>>

WakeUp(t) ==
  /\ task[t].pc = "asleep"
  /\ GoTo(t, "resumeLock")
  /\ UNCHANGED <<listVars, boxVars, isr, own, send, history>>

ResumeLock(t) ==
  /\ At(t, "resumeLock")
  /\ MutexFree
  /\ it_edp_mutex' = t
  /\ GoToAt(t, "resumeRead", it_edp)
  /\ UNCHANGED <<it_edp, next, boxVars, isr, own, send, history>>

ResumeEnable(t) ==
  LET at == task[t].at IN
  \/ at # NULL /\ ReadEnables(t, "resumeRead", "resumeWrite")
  \/ /\ At(t, "resumeWrite")
     /\ recEn' = task[t].val \cup {ReadCh[at]}
     /\ GoToAt(t, "resumeRead", next[at])
     /\ UNCHANGED <<listVars, pending, fifo, isr, own, send, history>>

ResumeUnlock(t) ==
  /\ At(t, "resumeRead") /\ task[t].at = NULL
  /\ it_edp_mutex' = NULL
  /\ task' = [task EXCEPT ![t] = Quiet]
  /\ UNCHANGED <<it_edp, next, boxVars, isr, own, send, history>>

Begin(t) == \E e \in Edps : AllocBegin(t, e) \/ FreeBegin(t, e)

Proceed(t) ==
  \/ AllocLock(t) \/ AllocWalk(t) \/ AllocClear(t) \/ AllocEnable(t)
  \/ FreeUnlink(t) \/ FreeSeek(t) \/ FreeForget(t) \/ FreeScan(t) \/ FreeDisable(t)
  \/ ResumeLock(t) \/ ResumeEnable(t) \/ ResumeUnlock(t)

-----------------------------------------------------------------------------
(* The interrupt handler, irq_msgbox_handler.                              *)

IrqEnter ==
  /\ isr.pc = "idle"
  /\ pending \cap recEn # {}
  /\ isr' = [pc |-> "drain", at |-> it_edp]
  /\ UNCHANGED <<listVars, boxVars, task, own, send, history>>

\* The loop of irq_msgbox_channel_handler: while the channel's status counts
\* words, read one and hand it to the endpoint.
IrqDrain ==
  LET ch == ReadCh[isr.at] IN
  /\ isr.pc = "drain" /\ isr.at # NULL
  /\ IF fifo[ch] # <<>>
       THEN /\ fifo' = [fifo EXCEPT ![ch] = Tail(@)]
            /\ taken' = [taken EXCEPT ![ch] = Append(@, Head(fifo[ch]))]
            /\ UNCHANGED isr
       ELSE isr' = [isr EXCEPT !.pc = "ack"] /\ UNCHANGED <<fifo, taken>>
  /\ UNCHANGED <<listVars, recEn, pending, task, own, send, sent, overlapped>>

\* A word may arrive after the loop ended and before the bit is written.
PendingAfterAck(ch) == IF fifo[ch] = <<>> THEN pending \ {ch} ELSE pending

IrqAck ==
  /\ isr.pc = "ack"
  /\ pending' = PendingAfterAck(ReadCh[isr.at])
  /\ isr' = [pc |-> "drain", at |-> next[isr.at]]
  /\ UNCHANGED <<listVars, recEn, fifo, task, own, send, history>>

IrqReturn ==
  /\ isr.pc = "drain" /\ isr.at = NULL
  /\ isr' = [isr EXCEPT !.pc = "idle"]
  /\ UNCHANGED <<listVars, boxVars, task, own, send, history>>

Isr == IrqEnter \/ IrqDrain \/ IrqAck \/ IrqReturn

-----------------------------------------------------------------------------
(* The other core: hal_msgbox_channel_send.                                *)

SendBegin(s) ==
  /\ send[s].pc = "idle"
  /\ \E len \in 1 .. MsgWords :
       /\ send[s].n + len <= MaxWords
       /\ send' = [send EXCEPT ![s].pc = "poll", ![s].left = len]
  /\ UNCHANGED <<listVars, boxVars, isr, task, own, history>>

\* Leave the loop that waits while the queue is full.
HasRoom_any(ch) == TRUE
HasRoom(ch) == Len(fifo[ch]) # MSGBOX_MAX_QUEUE

SendPoll(s) ==
  /\ send[s].pc = "poll"
  /\ HasRoom(WriteCh[s])
  /\ send' = [send EXCEPT ![s].pc = "write"]
  /\ UNCHANGED <<listVars, boxVars, isr, task, own, history>>

\* The word holds the last byte of the message.
LastWord(s) == send[s].left = 1

SendWrite(s) ==
  LET ch == WriteCh[s]  word == <<s, send[s].n + 1>> IN
  /\ send[s].pc = "write"
  /\ fifo' = [fifo EXCEPT ![ch] = IF Len(@) < MSGBOX_MAX_QUEUE THEN Append(@, word) ELSE @]
  /\ pending' = pending \cup {ch}
  /\ sent' = [sent EXCEPT ![ch] = Append(@, word)]
  /\ send' = [send EXCEPT ![s].pc = IF LastWord(s) THEN "idle" ELSE "poll",
                          ![s].left = @ - 1, ![s].n = @ + 1]
  /\ UNCHANGED <<listVars, recEn, isr, task, own, taken, overlapped>>

Sender(s) == SendBegin(s) \/ SendPoll(s) \/ SendWrite(s)

-----------------------------------------------------------------------------

Next ==
  \/ \E t \in Tasks : Begin(t) \/ Proceed(t) \/ WakeUp(t)
  \/ \E t \in PmTasks : Suspend(t)
  \/ Isr
  \/ \E s \in Senders : Sender(s)

Spec == Init /\ [][Next]_vars

\* A task inside a call runs when it can, but standby may last; interrupts are taken and the
\* handler returns; the other core goes on with a message it began.
Fairness ==
  /\ \A t \in Tasks : WF_vars(Proceed(t))
  /\ WF_vars(Isr)
  /\ \A s \in Senders : WF_vars(SendPoll(s) \/ SendWrite(s))

FairSpec == Spec /\ Fairness

-----------------------------------------------------------------------------

\* The endpoints that loops over the links f reach from pointer `at': those of
\* every set that holds it and the successors of its members.
ClosedUnder(f, S) == \A e \in S : f[e] \in S \cup {NULL}
ReachedBy(f, at) ==
  {e \in Edps : \A S \in SUBSET Edps : at \in S \cup {NULL} /\ ClosedUnder(f, S) => e \in S}

Reached == ReachedBy(next, it_edp)

\* A handler that starts between any two steps of overlapping allocations, or
\* of a free, still reaches every endpoint whose allocation returned, never
\* one that was freed, and comes to the end of the list.
ListEnds == it_edp = NULL \/ \E e \in Reached : next[e] = NULL
ListIntact ==
  /\ \A e \in Edps : (own[e] = "in" => e \in Reached) /\ (own[e] = "out" => e \notin Reached)
  /\ ListEnds

\* A call works on one endpoint that no other works on, and a free runs alone.
CallsApart ==
  \A t \in Tasks :
    /\ task[t].pc \in AllocPcs \cup FreePcs <=> task[t].edp # NULL
    /\ task[t].edp # NULL => own[task[t].edp] = "calling"
    /\ \A u \in Tasks \ {t} : /\ task[t].edp = task[u].edp => task[t].edp = NULL
                              /\ task[t].pc \in FreePcs => task[u].pc = "idle"
                              /\ ~ overlapped => "idle" \in {task[t].pc, task[u].pc}

\* Who is in a loop over the list, but the one of a free, has the mutex.
Locked ==
  \A t \in Tasks :
    task[t].pc \in {"walk", "clear", "resumeRead", "resumeWrite"} => it_edp_mutex = t

\* The endpoints a call has put on the list and none has taken off it.
LinkedPcs == {"clear", "enableRead", "enableWrite", "unlink", "seek"}
Listed ==
  {e \in Edps : own[e] = "in" \/ \E t \in Tasks : task[t].edp = e /\ task[t].pc \in LinkedPcs}

\* The list is one chain of the listed endpoints, whose head follows nobody;
\* an object that is not on it links nowhere, but in the middle of its free.
Chain ==
  /\ Reached = Listed
  /\ \A e \in Listed : next[e] # NULL =>
       next[e] # it_edp /\ \A f \in Listed \ {e} : next[f] # next[e]
  /\ \A e \in Edps \ Listed :
       next[e] = NULL \/ \E t \in Tasks : task[t].pc = "forget" /\ task[t].edp = e

\* The pointers of the loops are on the list; the one of a free has its
\* endpoint still ahead.
TaskPointed(t) ==
  LET at == task[t].at  edp == task[t].edp IN
  /\ task[t].pc \in {"walk", "seek", "resumeWrite"} => at \in Listed
  /\ task[t].pc = "resumeRead" => at \in Listed \cup {NULL}
  /\ task[t].pc = "clear" => next[edp] = NULL
  /\ task[t].pc = "seek" => edp \in ReachedBy(next, at) \ {at}
  /\ task[t].pc \in {"disableRead", "disableWrite"} => it_edp = NULL

Pointed ==
  /\ isr.at \in Listed \cup {NULL} /\ (isr.pc = "idle" => isr.at = NULL)
  /\ \A t \in Tasks : TaskPointed(t)

ListInv == TypeOK /\ CallsApart /\ Locked /\ Chain /\ ListIntact /\ Pointed

\* No word a core wrote is lost or overtaken between the status read of the
\* sender, its write, the handler's loop and the list that changes under it.
Box == INSTANCE Mailbox WITH Room <- MSGBOX_MAX_QUEUE
BoxSpec == Box!Spec

\* No task sleeps, or has yet to restore what standby lost.
Restored == \A t \in Tasks : task[t].pc \notin {"asleep"} \cup ResumePcs

\* While allocations and standby do not overlap: an endpoint that is allocated
\* can be interrupted for its channel, after standby too, and its words do not
\* wait unseen: while its queue holds a word the interrupt is pending.
WordsSeen ==
  \A e \in Edps : own[e] = "in" /\ Restored /\ ~overlapped =>
    /\ ReadCh[e] \in recEn
    /\ fifo[ReadCh[e]] # <<>> => ReadCh[e] \in pending

\* A queue with words has its pending bit; while calls do not overlap, what a
\* task read of the register is the register still, and a resume has enabled
\* the interrupts of the endpoints it has passed.
Resuming(t) == task[t].pc \in {"resumeRead", "resumeWrite"}
SeenInv ==
  /\ \A ch \in Channels : fifo[ch] # <<>> => ch \in pending
  /\ ~ overlapped => \A t \in Tasks :
       /\ task[t].pc \in {"enableWrite", "disableWrite", "resumeWrite"} => task[t].val = recEn
       /\ Resuming(t) => \A e \in Edps : own[e] = "in" =>
            ReadCh[e] \in recEn \/ e \in ReachedBy(next, task[t].at)

\* A sender in a message has words of it to write, and no more than it may.
SendInv ==
  \A s \in Senders :
    send[s].pc # "idle" => send[s].left > 0 /\ send[s].n + send[s].left <= MaxWords

\* What was written and not read is in the queue, in its order; a queue keeps
\* the room a sender saw until the sender writes.
QueueInv ==
  /\ \A ch \in Channels : sent[ch] = taken[ch] \o fifo[ch]
  /\ \A s \in Senders : send[s].pc = "write" => HasRoom(WriteCh[s])

\* All of it, from which each of the box's promises follows: the list is what
\* the handler can rely on when it interrupts a task between two of its steps,
\* the interrupts are those of the list, the queues are those of the words.
IInv == ListInv /\ SendInv /\ WordsSeen /\ SeenInv /\ QueueInv

\* An endpoint that reads the channel is allocated, the core is awake, and no
\* allocation has overlapped another or standby.
Served(ch) ==
  /\ \E e \in Edps : ReadCh[e] = ch /\ own[e] = "in"
  /\ Awake /\ ~overlapped

\* A channel's interrupt is enabled and no endpoint of the list reads it: a
\* word that arrives then is never read, and interrupts for ever.
Orphaned == \E ch \in recEn : ch \notin {ReadCh[e] : e \in Reached}

\* Words reach an endpoint that stays allocated however the writes of the
\* other core meet the handler's last status read and its acknowledgement,
\* and words sent before the allocation, or during standby, are not left behind.
WordsTaken ==
  \A ch \in {WriteCh[s] : s \in Senders} :
    Served(ch) /\ fifo[ch] # <<>> ~> fifo[ch] = <<>> \/ ~Served(ch)

\* A send to a channel that is served comes back: the sender does not wait on
\* a full queue for ever. No task of a core that is awake, msgbox_resume
\* included, waits for ever for the list's mutex, or, unless a free left an
\* interrupt without a reader, for the handler.
CallsReturn ==
  /\ \A s \in Senders :
       send[s].pc # "idle" ~> send[s].pc = "idle" \/ ~Served(WriteCh[s])
  /\ \A t \in Tasks : task[t].pc # "idle" ~> task[t].pc = "idle" \/ Orphaned \/ ~ Awake

=============================================================================
