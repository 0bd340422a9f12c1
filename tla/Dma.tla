-------------------------------- MODULE Dma --------------------------------
(***************************************************************************)
(* The DMA channel manager, src/hal/source/dma/hal_dma.c: an array of      *)
(* channels guarded by one spin lock, their hardware (descriptor fetch,    *)
(* enable bit, interrupt enable and status), the interrupt handler that    *)
(* runs client callbacks, and clients calling the API on channels they     *)
(* requested.  A section under dma_lock is one step; everything the code   *)
(* does outside the lock is a step of its own.                             *)
(*                                                                         *)
(* A descriptor list is the set of its items: no property depends on the   *)
(* order in which the list links them.  An item is allocated or free.      *)
(***************************************************************************)
EXTENDS Naturals, FiniteSets

CONSTANTS Threads,     \* the clients
          NR_MAX_CHAN, \* the number of channels
          Items,       \* the memory descriptors are allocated from
          MaxPeriods,  \* bound on buf_len / period_len of a cyclic transfer
          Smp,         \* FALSE: handler and clients share one core
          NULL

ASSUME ChanAssumption == NR_MAX_CHAN \in Nat /\ MaxPeriods \in Nat
ASSUME SmpAssumption == Smp \in BOOLEAN
ASSUME NullAssumption == NULL \notin Threads /\ NULL \notin Nat

Chans == 0 .. NR_MAX_CHAN - 1

\* irq_type and the status and enable bits of a channel (IRQ_HALF is never
\* enabled, so it is left out).
Irqs == {"PKG", "QUEUE"}

VARIABLES
  \* struct sunxi_dma_chan
  used, irqType, cyclic, desc, callback, param,
  ring,     \* p_lln of the list's last item points back to its first
  \* the heap
  heap,     \* the items allocated
  \* registers and hardware
  irqEn, irqStat, running,
  hwList,   \* the items a running channel walks from LLI_ADDR
  hwRing,   \* ... and whether that list is circular
  \* the interrupt handler
  isr,
  \* the clients
  pc, handle, slot

chanVars == <<used, irqType, cyclic, desc, callback, param, ring, heap>>
hwVars == <<irqEn, irqStat, running, hwList, hwRing>>
clientVars == <<pc, handle, slot>>
vars == <<chanVars, hwVars, isr, clientVars>>

Idle == [pc |-> "idle", i |-> 0, snap |-> [c \in Chans |-> {}],
         cb |-> NULL, data |-> NULL]

IsrType ==
  [pc: {"idle", "clear", "scan", "call", "fault"}, i: 0 .. NR_MAX_CHAN,
   snap: [Chans -> SUBSET Irqs],
   cb: Threads \cup {NULL}, data: Threads \cup {NULL}]

\* Every variable has its type: the fields of the channels, the registers,
\* the handler's locals and the clients' control state of hal_dma.c.
TypeOK ==
  /\ used \in [Chans -> BOOLEAN]
  /\ irqType \in [Chans -> Irqs \cup {"NONE"}]
  /\ cyclic \in [Chans -> BOOLEAN]
  /\ desc \in [Chans -> SUBSET Items]
  /\ callback \in [Chans -> Threads \cup {NULL}]
  /\ param \in [Chans -> Threads \cup {NULL}]
  /\ ring \in [Chans -> BOOLEAN]
  /\ heap \in SUBSET Items
  /\ irqEn \in [Chans -> SUBSET Irqs]
  /\ irqStat \in [Chans -> SUBSET Irqs]
  /\ running \in [Chans -> BOOLEAN]
  /\ hwList \in [Chans -> SUBSET Items]
  /\ hwRing \in [Chans -> BOOLEAN]
  /\ isr \in IsrType /\ (isr.pc = "call" => isr.i \in Chans)
  /\ pc \in [Threads -> {"idle", "request", "install", "unhook"}]
  /\ handle \in [Threads -> Chans \cup {NULL}]
  /\ slot \in [Threads -> 0 .. NR_MAX_CHAN]

\* hal_dma_init: the channel array is zeroed, interrupts off, status cleared.
Init ==
  /\ used = [c \in Chans |-> FALSE]
  /\ irqType = [c \in Chans |-> "NONE"]
  /\ cyclic = [c \in Chans |-> FALSE]
  /\ desc = [c \in Chans |-> {}]
  /\ callback = [c \in Chans |-> NULL]
  /\ param = [c \in Chans |-> NULL]
  /\ ring = [c \in Chans |-> FALSE]
  /\ heap = {}
  /\ irqEn = [c \in Chans |-> {}]
  /\ irqStat = [c \in Chans |-> {}]
  /\ running = [c \in Chans |-> FALSE]
  /\ hwList = [c \in Chans |-> {}]
  /\ hwRing = [c \in Chans |-> FALSE]
  /\ isr = Idle
  /\ pc = [t \in Threads |-> "idle"]
  /\ handle = [t \in Threads |-> NULL]
  /\ slot = [t \in Threads |-> 0]

-----------------------------------------------------------------------------
(* Clients.  On one core the handler runs to its end before any of them.   *)

CanRun == Smp \/ isr.pc = "idle"

\* Client t is between calls and holds channel c.
Holds(t, c) == CanRun /\ pc[t] = "idle" /\ handle[t] = c

RequestBegin(t) ==
  /\ CanRun
  /\ pc[t] = "idle" /\ handle[t] = NULL
  /\ pc' = [pc EXCEPT ![t] = "request"]
  /\ UNCHANGED <<chanVars, hwVars, isr, handle, slot>>

\* A slot is taken when it is free and marked used in the same lock section.
SlotFree_any(c) == TRUE
SlotFree(c) == ~ used[c]

\* One turn of the loop of hal_dma_chan_request: lock, look at a slot, unlock.
RequestSlot(t) ==
  /\ CanRun
  /\ pc[t] = "request"
  /\ slot[t] \in Chans
  /\ IF SlotFree(slot[t])
       THEN /\ used' = [used EXCEPT ![slot[t]] = TRUE]
            /\ handle' = [handle EXCEPT ![t] = slot[t]]
            /\ pc' = [pc EXCEPT ![t] = "idle"]
            /\ slot' = [slot EXCEPT ![t] = 0]
       ELSE /\ slot' = [slot EXCEPT ![t] = slot[t] + 1]
            /\ UNCHANGED <<used, handle, pc>>
  /\ UNCHANGED <<irqType, cyclic, desc, callback, param, ring, heap, hwVars,
                 isr>>

\* No slot was free: HAL_DMA_CHAN_STATUS_BUSY.
RequestBusy(t) ==
  /\ CanRun
  /\ pc[t] = "request"
  /\ slot[t] = NR_MAX_CHAN
  /\ pc' = [pc EXCEPT ![t] = "idle"]
  /\ slot' = [slot EXCEPT ![t] = 0]
  /\ UNCHANGED <<chanVars, hwVars, isr, handle>>

\* hal_dma_callback_install writes the two fields without the lock.
InstallCallback(t, c) ==
  /\ Holds(t, c)
  /\ callback' = [callback EXCEPT ![c] = t]
  /\ pc' = [pc EXCEPT ![t] = "install"]
  /\ UNCHANGED <<used, irqType, cyclic, desc, param, ring, heap, hwVars, isr,
                 handle, slot>>

InstallParam(t) ==
  /\ CanRun
  /\ pc[t] = "install"
  /\ param' = [param EXCEPT ![handle[t]] = t]
  /\ pc' = [pc EXCEPT ![t] = "idle"]
  /\ UNCHANGED <<used, irqType, cyclic, desc, callback, ring, heap, hwVars,
                 isr, handle, slot>>

\* The one item of hal_dma_prep_memcpy and hal_dma_prep_device becomes the
\* channel's list (sunxi_lli_list with prev NULL), whatever the list was.
PrepSingle(t, c) ==
  /\ Holds(t, c)
  /\ \E item \in Items \ heap :
       /\ heap' = heap \cup {item}
       /\ desc' = [desc EXCEPT ![c] = {item}]
       /\ ring' = [ring EXCEPT ![c] = FALSE]
  /\ UNCHANGED <<used, irqType, cyclic, callback, param, hwVars, isr,
                 clientVars>>

PrepMemcpy(t, c) == PrepSingle(t, c)

PrepDevice(t, c) == PrepSingle(t, c)

\* The list hal_dma_prep_cyclic finds on the channel goes back to the heap.
Released(c) == desc[c]

\* hal_dma_prep_cyclic: the old list is freed, then `periods' items are
\* allocated one by one.  An allocation that fails returns NO_MEM and leaves
\* the items linked so far, no ring, and `cyclic' as it was.
PrepCyclic(t, c) ==
  /\ Holds(t, c)
  /\ \E periods \in 1 .. MaxPeriods :
     \E new \in SUBSET (Items \ (heap \ Released(c))) :
       /\ Cardinality(new) <= periods
       /\ heap' = (heap \ Released(c)) \cup new
       /\ desc' = [desc EXCEPT ![c] = new]
       /\ ring' = [ring EXCEPT ![c] = Cardinality(new) = periods]
       /\ cyclic' = [cyclic EXCEPT ![c] = @ \/ Cardinality(new) = periods]
  /\ UNCHANGED <<used, irqType, callback, param, hwVars, isr, clientVars>>

IrqTypeOf(c) == IF cyclic[c] THEN "PKG" ELSE "QUEUE"

\* hal_dma_start: choose the interrupt, enable it, point the hardware at the
\* list and start it.  A client starts only a channel it prepared.
Start(t, c) ==
  /\ Holds(t, c)
  /\ desc[c] # {}
  /\ irqType' = [irqType EXCEPT ![c] = IrqTypeOf(c)]
  /\ irqEn' = [irqEn EXCEPT ![c] = @ \cup {IrqTypeOf(c)}]
  /\ running' = [running EXCEPT ![c] = TRUE]
  /\ hwList' = [hwList EXCEPT ![c] = desc[c]]
  /\ hwRing' = [hwRing EXCEPT ![c] = ring[c]]
  /\ UNCHANGED <<used, cyclic, desc, callback, param, ring, heap, irqStat, isr,
                 clientVars>>

\* The channel halts; where it was in its list no longer matters.
HwHalts_not(c) == UNCHANGED <<running, hwList, hwRing>>
HwHalts(c) ==
  /\ running' = [running EXCEPT ![c] = FALSE]
  /\ hwList' = [hwList EXCEPT ![c] = {}]
  /\ hwRing' = [hwRing EXCEPT ![c] = FALSE]

CyclicAfterStop_kept(c) == cyclic[c]
CyclicAfterStop(c) == FALSE

\* hal_dma_stop: pause, stop, resume; interrupt enable and list stay.
Stop(t, c) ==
  /\ Holds(t, c)
  /\ HwHalts(c)
  /\ cyclic' = [cyclic EXCEPT ![c] = CyclicAfterStop(c)]
  /\ UNCHANGED <<used, irqType, desc, callback, param, ring, heap, irqEn,
                 irqStat, isr, clientVars>>

ListAfterFree(c) == {}

\* The items sunxi_dma_free_ill visits until there is no next one.
Freed_none(c) == {}
Freed(c) == desc[c]

IrqEnAfterFree_kept(c) == irqEn[c]
IrqEnAfterFree(c) == irqEn[c] \ {irqType[c]}

ParamAfterFree_kept(c) == param[c]
ParamAfterFree(c) == NULL

\* hal_dma_chan_free: mask the channel's current interrupt type, free the
\* list, forget the callback, give the slot back.  The hardware is not
\* touched, and cyclic, irq_type and latched status stay.
ChanFree(t, c) ==
  /\ Holds(t, c)
  /\ used[c]
  /\ irqEn' = [irqEn EXCEPT ![c] = IrqEnAfterFree(c)]
  /\ heap' = heap \ Freed(c)
  /\ desc' = [desc EXCEPT ![c] = ListAfterFree(c)]
  /\ callback' = [callback EXCEPT ![c] = NULL]
  /\ param' = [param EXCEPT ![c] = ParamAfterFree(c)]
  /\ used' = [used EXCEPT ![c] = FALSE]
  /\ handle' = [handle EXCEPT ![t] = NULL]
  /\ ring' = [ring EXCEPT ![c] = FALSE]
  /\ UNCHANGED <<irqType, cyclic, irqStat, running, hwList, hwRing, isr, pc,
                 slot>>

\* hal_dma_chan_desc_free runs sunxi_dma_free_ill without the lock: first the
\* list goes, later the callback.
DescFree(t, c) ==
  /\ Holds(t, c)
  /\ heap' = heap \ Freed(c)
  /\ desc' = [desc EXCEPT ![c] = ListAfterFree(c)]
  /\ ring' = [ring EXCEPT ![c] = FALSE]
  /\ pc' = [pc EXCEPT ![t] = "unhook"]
  /\ UNCHANGED <<used, irqType, cyclic, callback, param, hwVars, isr, handle,
                 slot>>

DescFreeUnhook(t) ==
  /\ CanRun
  /\ pc[t] = "unhook"
  /\ callback' = [callback EXCEPT ![handle[t]] = NULL]
  /\ param' = [param EXCEPT ![handle[t]] = NULL]
  /\ pc' = [pc EXCEPT ![t] = "idle"]
  /\ UNCHANGED <<used, irqType, cyclic, desc, ring, heap, hwVars, isr, handle,
                 slot>>

\* hal_dma_tx_status, for a transfer that is not cyclic: no bytes left.
TxComplete(c) == ~ cyclic[c] /\ ~ running[c]

-----------------------------------------------------------------------------
(* Hardware.                                                               *)

\* An item of the list completes; the queue is done after the last item of a
\* list that is not circular.
HwPackage(c) ==
  /\ running[c]
  /\ irqStat' = [irqStat EXCEPT ![c] = @ \cup {"PKG"}]
  /\ UNCHANGED <<chanVars, irqEn, running, hwList, hwRing, isr, clientVars>>

HwQueue(c) ==
  /\ running[c] /\ ~ hwRing[c]
  /\ irqStat' = [irqStat EXCEPT ![c] = Irqs]
  /\ HwHalts(c)
  /\ UNCHANGED <<chanVars, irqEn, isr, clientVars>>

-----------------------------------------------------------------------------
(* sunxi_dma_irq_handle.                                                   *)

Asserted(c) == irqStat[c] \cap irqEn[c] # {}

IrqRead ==
  /\ isr.pc = "idle"
  /\ \E c \in Chans : Asserted(c)
  /\ isr' = [isr EXCEPT !.pc = "clear", !.snap = irqStat]
  /\ UNCHANGED <<chanVars, hwVars, clientVars>>

\* The write that acknowledges clears the bits that were read, no others.
Acked_all(c) == Irqs
Acked_none(c) == {}
Acked(c) == isr.snap[c]

IrqClear ==
  /\ isr.pc = "clear"
  /\ irqStat' = [c \in Chans |-> irqStat[c] \ Acked(c)]
  /\ isr' = [isr EXCEPT !.pc = "scan", !.i = 0]
  /\ UNCHANGED <<chanVars, irqEn, running, hwList, hwRing, clientVars>>

\* The channel is in use and the snapshot holds the interrupt it waits for.
Mine(c) == used[c] /\ irqType[c] \in isr.snap[c]

\* One turn of the loop, under the lock: skip the channel, or copy its
\* callback.  The cyclic branch reads chan->desc->len; without a list that is
\* a NULL dereference, and the handler does not return.
IrqScan ==
  /\ isr.pc = "scan" /\ isr.i \in Chans
  /\ \/ /\ ~ Mine(isr.i)
        /\ isr' = [isr EXCEPT !.i = @ + 1]
     \/ /\ Mine(isr.i)
        /\ cyclic[isr.i] /\ desc[isr.i] = {}
        /\ isr' = [isr EXCEPT !.pc = "fault"]
     \/ /\ Mine(isr.i)
        /\ ~ (cyclic[isr.i] /\ desc[isr.i] = {})
        /\ isr' = [isr EXCEPT !.pc = "call", !.cb = callback[isr.i],
                              !.data = param[isr.i]]
  /\ UNCHANGED <<chanVars, hwVars, clientVars>>

\* The callback, if there is one, runs outside the lock.
IrqCall ==
  /\ isr.pc = "call"
  /\ isr' = [isr EXCEPT !.pc = "scan", !.i = @ + 1, !.cb = NULL, !.data = NULL]
  /\ UNCHANGED <<chanVars, hwVars, pc, handle, slot>>

IrqReturn ==
  /\ isr.pc = "scan" /\ isr.i = NR_MAX_CHAN
  /\ isr' = Idle
  /\ UNCHANGED <<chanVars, hwVars, clientVars>>

-----------------------------------------------------------------------------

ClientStep(t) ==
  \/ RequestBegin(t) \/ RequestSlot(t) \/ RequestBusy(t)
  \/ InstallParam(t) \/ DescFreeUnhook(t)
  \/ \E c \in Chans :
       \/ InstallCallback(t, c) \/ PrepMemcpy(t, c) \/ PrepDevice(t, c)
       \/ PrepCyclic(t, c) \/ Start(t, c) \/ Stop(t, c) \/ ChanFree(t, c) \/ DescFree(t, c)

Hw == \E c \in Chans : HwPackage(c) \/ HwQueue(c)

Isr == IrqRead \/ IrqClear \/ IrqScan \/ IrqCall \/ IrqReturn

Next == (\E t \in Threads : ClientStep(t)) \/ Hw \/ Isr

Spec == Init /\ [][Next]_vars

-----------------------------------------------------------------------------
(* What holds whatever order a channel's holder calls the API in.          *)

\* A channel has at most one holder, and a held channel is in use: the test
\* and the mark of hal_dma_chan_request are one lock section.
ChannelExclusive ==
  \A t \in Threads : handle[t] # NULL =>
    /\ used[handle[t]]
    /\ \A u \in Threads \ {t} : handle[u] # handle[t]

\* An item belongs to one channel's list and is allocated while it does: no
\* path frees an item twice or frees one that another channel is using.
ListsOwned ==
  /\ \A c \in Chans : desc[c] \subseteq heap
  /\ \A c, d \in Chans : c # d => desc[c] \cap desc[d] = {}

\* The pair of words the handler copies and calls outside the lock, and the
\* unlocked writes of hal_dma_callback_install, never combine into one
\* client's callback called with another client's parameter.
CallbackPaired == isr.cb # NULL => isr.data \in {isr.cb, NULL}

\* What makes the three inductive: a client has a handle exactly when its
\* calls need one, and a channel's callback and parameter are its holder's.
CallState ==
  \A t \in Threads :
    /\ pc[t] = "request" => handle[t] = NULL
    /\ pc[t] \in {"install", "unhook"} => handle[t] # NULL

CallbackHeld ==
  \A c \in Chans, t \in Threads : callback[c] = t \/ param[c] = t => handle[t] = c

\* The inductive invariant of the channel manager (hal_dma.c).
IInv ==
  /\ TypeOK
  /\ ChannelExclusive
  /\ CallState
  /\ CallbackHeld
  /\ ListsOwned
  /\ CallbackPaired

=============================================================================
