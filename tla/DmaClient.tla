----------------------------- MODULE DmaClient -----------------------------
(***************************************************************************)
(* The channel manager with clients that follow the order of calls of      *)
(* src/hal/test/dma/test_dma.c: request, install the callback, prepare,    *)
(* start, wait, stop, free the channel.  Two variations the API offers:    *)
(* after a stop the client may give its descriptors back and begin another *)
(* transfer on the same channel, and it may wait for its callback instead  *)
(* of polling hal_dma_tx_status.                                           *)
(***************************************************************************)
EXTENDS Dma

CONSTANTS Kinds,  \* the transfers the clients do: "single", "cyclic"
          Waits   \* TRUE: a client stops only after its callback told it to

ASSUME KindsAssumption == Kinds \subseteq {"single", "cyclic"}
ASSUME WaitsAssumption == Waits \in BOOLEAN

VARIABLES phase,     \* how far each client is
          notified,  \* its callback ran since it last looked (a semaphore)
          raised     \* history: interrupts of the transfer started last

ghosts == <<phase, notified, raised>>
allVars == <<vars, ghosts>>

Phases == {"out", "held", "hooked", "ready", "busy", "told", "stopped"}

\* Every variable of the composition has its type (test_dma.c and hal_dma.c).
ClientTypeOK ==
  /\ TypeOK
  /\ phase \in [Threads -> Phases]
  /\ notified \in [Threads -> BOOLEAN]
  /\ raised \in [Chans -> SUBSET Irqs]

ClientInit ==
  /\ Init
  /\ phase = [t \in Threads |-> "out"]
  /\ notified = [t \in Threads |-> FALSE]
  /\ raised = [c \in Chans |-> {}]

Go(t, from, to) == phase[t] = from /\ phase' = [phase EXCEPT ![t] = to]

\* What a client sees when hal_dma_prep_cyclic returns HAL_DMA_STATUS_OK.
PrepOk(c) == ring'[c]

\* A client that polls leaves its loop when a single transfer has no bytes
\* left; a cyclic transfer is stopped at any time.
Polled(t, c) == ~ Waits /\ phase[t] = "busy" /\ (cyclic[c] \/ TxComplete(c))

CallRequest(t) ==
  /\ \/ (RequestBegin(t) \/ RequestBusy(t)) /\ UNCHANGED phase
     \/ /\ RequestSlot(t)
        /\ phase' = [phase EXCEPT ![t] = IF used' = used THEN @ ELSE "held"]
  /\ UNCHANGED <<notified, raised>>

CallInstall(t) ==
  /\ \/ \E c \in Chans :
          InstallCallback(t, c) /\ phase[t] = "held" /\ UNCHANGED phase
     \/ InstallParam(t) /\ Go(t, "held", "hooked")
  /\ UNCHANGED <<notified, raised>>

CallPrep(t) ==
  /\ \E c \in Chans :
       \/ /\ "single" \in Kinds
          /\ PrepMemcpy(t, c) \/ PrepDevice(t, c)
          /\ Go(t, "hooked", "ready")
       \/ /\ "cyclic" \in Kinds
          /\ PrepCyclic(t, c)
          /\ Go(t, "hooked", IF PrepOk(c) THEN "ready" ELSE "stopped")
       \/ Holds(t, c) /\ Go(t, "hooked", "stopped") /\ UNCHANGED vars \* NO_MEM
  /\ UNCHANGED <<notified, raised>>

CallStart(t) ==
  \E c \in Chans :
    /\ Start(t, c)
    /\ Go(t, "ready", "busy")
    /\ raised' = [raised EXCEPT ![c] = {}]
    /\ UNCHANGED notified

\* The wait on the semaphore the callback posts.
CallWait(t) ==
  /\ Waits /\ CanRun
  /\ notified[t]
  /\ notified' = [notified EXCEPT ![t] = FALSE]
  /\ Go(t, "busy", "told")
  /\ UNCHANGED <<vars, raised>>

CallStop(t) ==
  \E c \in Chans :
    /\ Stop(t, c)
    /\ phase[t] = "told" \/ Polled(t, c)
    /\ phase' = [phase EXCEPT ![t] = "stopped"]
    /\ UNCHANGED <<notified, raised>>

\* The descriptors and the callback go; the channel is kept.
CallDescFree(t) ==
  /\ \/ \E c \in Chans :
          DescFree(t, c) /\ phase[t] = "stopped" /\ UNCHANGED phase
     \/ DescFreeUnhook(t) /\ Go(t, "stopped", "held")
  /\ UNCHANGED <<notified, raised>>

CallFree(t) ==
  \E c \in Chans :
    /\ ChanFree(t, c)
    /\ Go(t, "stopped", "out")
    /\ notified' = [notified EXCEPT ![t] = FALSE]
    /\ UNCHANGED raised

Client(t) ==
  \/ CallRequest(t) \/ CallInstall(t) \/ CallPrep(t) \/ CallStart(t)
  \/ CallWait(t) \/ CallStop(t) \/ CallDescFree(t) \/ CallFree(t)

\* The interrupts a hardware step raises belong to the transfer started last.
HwStep(c) ==
  /\ \/ HwPackage(c) /\ raised' = [raised EXCEPT ![c] = @ \cup {"PKG"}]
     \/ HwQueue(c) /\ raised' = [raised EXCEPT ![c] = Irqs]
  /\ UNCHANGED <<phase, notified>>

\* A callback posts the semaphore of the client it is called with.
IsrStep ==
  /\ Isr
  /\ notified' = IF isr.pc = "call" /\ Waits /\ isr.cb # NULL /\ isr.data # NULL
                   THEN [notified EXCEPT ![isr.data] = TRUE]
                   ELSE notified
  /\ UNCHANGED <<phase, raised>>

ClientNext ==
  \/ \E t \in Threads : Client(t)
  \/ \E c \in Chans : HwStep(c)
  \/ IsrStep

ClientSpec == ClientInit /\ [][ClientNext]_allVars

\* The hardware ends every item and, in the end, a list that is not circular;
\* the core takes an asserted interrupt and the handler returns; a client with
\* a transfer in progress is scheduled.
Fairness ==
  /\ \A c \in Chans :
       /\ WF_allVars(HwStep(c))
       /\ SF_allVars(HwStep(c) /\ HwQueue(c))
  /\ WF_allVars(IsrStep)
  /\ \A t \in Threads : SF_allVars(CallWait(t) \/ CallStop(t))

FairClientSpec == ClientSpec /\ Fairness

-----------------------------------------------------------------------------

\* The hardware never walks a list whose items were given back to the heap:
\* prep_cyclic, chan_free and desc_free release a list without stopping the
\* channel, so this rests on stop always coming first.
HwListAllocated ==
  \A c \in Chans : running[c] => hwList[c] \subseteq heap

\* A handler that runs late, for a channel that was stopped, released or has
\* changed hands, never meets a channel marked cyclic that has no list
\* (chan->desc->len of a NULL desc): stop clears cyclic before the list goes.
NoNullDesc == isr.pc # "fault"

\* A free channel moves no data into memory its holder gave back: chan_free
\* leaves the hardware alone, so the stop before it must have taken effect.
FreeChannelStopped == \A c \in Chans : ~ used[c] => ~ running[c]

\* A free channel has no interrupt enabled, although start only ever adds
\* enable bits and free removes only the one of the last irq_type.  (It holds
\* for holders that do one kind of transfer; one that mixes them leaves a bit.)
FreeChannelMasked == \A c \in Chans : ~ used[c] => irqEn[c] = {}

\* Every item allocated is on some channel's list: nothing the re-prepare,
\* the failed prepare, desc_free or chan_free drops stays allocated.
NoLeak == heap = UNION {desc[c] : c \in Chans}

\* A callback is run only for the holder of the channel, while it waits for
\* the transfer it started last, and that transfer raised the interrupt.
CallbackEarned ==
  isr.pc = "call" /\ isr.data # NULL =>
    /\ handle[isr.data] = isr.i
    /\ phase[isr.data] = "busy"
    /\ irqType[isr.i] \in raised[isr.i]

\* A client that starts a transfer is told that it ended, whatever the other
\* channels' interrupts do to the handler's snapshot meanwhile.
TransferEnds == \A t \in Threads : phase[t] = "busy" ~> phase[t] = "stopped"

\* What makes them inductive: a client's phase agrees with its handle and its
\* call; a channel runs, or is marked cyclic, only for a holder that started,
\* or prepared, its list; and the hardware walks the list of its channel.
PhaseHeld ==
  \A t \in Threads :
    /\ handle[t] = NULL <=> phase[t] = "out"
    /\ pc[t] = "install" => phase[t] = "held"
    /\ pc[t] = "unhook" => phase[t] = "stopped"

RunsForHolder ==
  \A c \in Chans : running[c] =>
    /\ hwList[c] \subseteq desc[c]
    /\ \E t \in Threads : handle[t] = c /\ phase[t] \in {"busy", "told"}

CyclicHasList ==
  \A c \in Chans : cyclic[c] =>
    /\ desc[c] # {}
    /\ \E t \in Threads : handle[t] = c /\ phase[t] \in {"ready", "busy", "told"}

\* The inductive invariant of the clients' order of calls (test_dma.c).
ClientInv ==
  /\ ClientTypeOK
  /\ IInv
  /\ PhaseHeld
  /\ RunsForHolder
  /\ CyclicHasList
  /\ NoNullDesc

\* With it, what makes NoLeak inductive: a channel has a list only while its
\* holder is at work on a transfer, so a prepare, which overwrites the list it
\* finds, finds none.
AtWork(t) == pc[t] # "unhook" /\ phase[t] \in {"ready", "busy", "told", "stopped"}

ListForTransfer ==
  \A c \in Chans : desc[c] # {} => \E t \in Threads : handle[t] = c /\ AtWork(t)

\* With it, what makes FreeChannelMasked inductive where clients do one kind
\* of transfer: only the bit of the last irq_type is ever set.
IrqOfKind(kind) == IF kind = "cyclic" THEN "PKG" ELSE "QUEUE"

MaskedByType(kind) ==
  /\ \A c \in Chans :
       /\ irqEn[c] # {} => used[c] /\ irqEn[c] = {irqType[c]}
       /\ irqType[c] \in {"NONE", IrqOfKind(kind)}
  /\ \A t \in Threads : phase[t] = "ready" => (cyclic[handle[t]] <=> kind = "cyclic")

\* The handler has read the channel's end of queue and has yet to come by.
InSnapshot(c) ==
  /\ "QUEUE" \in isr.snap[c]
  /\ isr.pc = "clear" \/ (isr.pc \in {"scan", "call"} /\ isr.i <= c)

\* With it, what makes CallbackEarned inductive where clients do single
\* transfers and wait: an end of queue that is latched, or that the handler
\* has read, is that of a holder still waiting to be told, on a channel that
\* has halted; and it is in one of the two places.
EndIsAwaited ==
  /\ \A c \in Chans : "QUEUE" \in irqStat[c] \/ InSnapshot(c) =>
       /\ ~ running[c] /\ "QUEUE" \in raised[c]
       /\ \E t \in Threads : handle[t] = c /\ phase[t] = "busy" /\ ~ notified[t]
  /\ \A c \in Chans : isr.pc # "clear" /\ InSnapshot(c) => "QUEUE" \notin irqStat[c]
  /\ \A t \in Threads :
       /\ notified[t] => phase[t] = "busy"
       /\ notified[t] \/ phase[t] = "told" => ~ running[handle[t]]
  /\ isr.pc = "call" =>
       /\ irqType[isr.i] = "QUEUE" /\ "QUEUE" \in isr.snap[isr.i]
       /\ isr.data # NULL => handle[isr.data] = isr.i

\* The inductive invariant of clients that do single transfers and wait for
\* their callback (hal_dma_callback_install and the handler).
WaitInv ==
  /\ ClientInv
  /\ NoLeak /\ ListForTransfer
  /\ MaskedByType("single")
  /\ EndIsAwaited

=============================================================================
