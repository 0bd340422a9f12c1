----------------------------- MODULE DmaProofs -----------------------------
(***************************************************************************)
(* Theorems about the channel manager with clients that call in any order, *)
(* and about clients that follow the order of calls of test_dma.c: for any *)
(* number of clients, channels and descriptors, on one core or several.    *)
(***************************************************************************)
EXTENDS DmaClient, FiniteSetTheorems, TLAPS

-----------------------------------------------------------------------------
(* The channel manager, clients calling in any order.                      *)

\* The index of the loops over the channel array stays in range.
LEMMA NextSlot == ASSUME NEW i \in Chans PROVE i + 1 \in 0 .. NR_MAX_CHAN
  BY ChanAssumption DEF Chans

\* Every channel, and the first turn of the loops, is in that range.
LEMMA ChansInRange == Chans \subseteq 0 .. NR_MAX_CHAN /\ 0 \in 0 .. NR_MAX_CHAN
  BY ChanAssumption DEF Chans

\* The steps of hal_dma.c and of the hardware keep every variable in its type.
LEMMA TypeStep == TypeOK /\ [Next]_vars => TypeOK'
<1> SUFFICES ASSUME TypeOK, [Next]_vars PROVE TypeOK'
  OBVIOUS
<1>1. ASSUME NEW t \in Threads, RequestBegin(t) PROVE TypeOK'
  BY <1>1 DEF RequestBegin, TypeOK, chanVars, hwVars
<1>2. ASSUME NEW t \in Threads, RequestSlot(t) PROVE TypeOK'
  <2>1. slot[t] \in Chans /\ slot[t] + 1 \in 0 .. NR_MAX_CHAN
    BY <1>2, NextSlot DEF RequestSlot
  <2>2. CASE SlotFree(slot[t])
    BY <1>2, <2>1, <2>2, ChansInRange DEF RequestSlot, TypeOK, hwVars
  <2>3. CASE ~ SlotFree(slot[t])
    BY <1>2, <2>1, <2>3 DEF RequestSlot, TypeOK, hwVars
  <2> QED
    BY <2>2, <2>3
<1>3. ASSUME NEW t \in Threads, RequestBusy(t) PROVE TypeOK'
  BY <1>3, ChansInRange DEF RequestBusy, TypeOK, chanVars, hwVars
<1>4. ASSUME NEW t \in Threads, InstallParam(t) PROVE TypeOK'
  BY <1>4 DEF InstallParam, TypeOK, hwVars
<1>5. ASSUME NEW t \in Threads, DescFreeUnhook(t) PROVE TypeOK'
  BY <1>5 DEF DescFreeUnhook, TypeOK, hwVars
<1>6. ASSUME NEW t \in Threads, NEW c \in Chans, InstallCallback(t, c) PROVE TypeOK'
  BY <1>6 DEF InstallCallback, TypeOK, hwVars
<1>7. ASSUME NEW t \in Threads, NEW c \in Chans, PrepSingle(t, c) PROVE TypeOK'
  BY <1>7 DEF PrepSingle, TypeOK, hwVars, clientVars
<1>8. ASSUME NEW t \in Threads, NEW c \in Chans, PrepCyclic(t, c) PROVE TypeOK'
  BY <1>8 DEF PrepCyclic, Released, TypeOK, hwVars, clientVars
<1>9. ASSUME NEW t \in Threads, NEW c \in Chans, Start(t, c) PROVE TypeOK'
  BY <1>9 DEF Start, IrqTypeOf, Irqs, TypeOK, clientVars
<1>10. ASSUME NEW t \in Threads, NEW c \in Chans, Stop(t, c) PROVE TypeOK'
  BY <1>10 DEF Stop, HwHalts, CyclicAfterStop, TypeOK, clientVars
<1>11. ASSUME NEW t \in Threads, NEW c \in Chans, ChanFree(t, c) PROVE TypeOK'
  BY <1>11 DEF ChanFree, Freed, IrqEnAfterFree, ListAfterFree, ParamAfterFree, TypeOK
<1>12. ASSUME NEW t \in Threads, NEW c \in Chans, DescFree(t, c) PROVE TypeOK'
  BY <1>12 DEF DescFree, Freed, ListAfterFree, TypeOK, hwVars
<1>13. ASSUME NEW c \in Chans, HwPackage(c) PROVE TypeOK'
  BY <1>13 DEF HwPackage, Irqs, TypeOK, chanVars, clientVars
<1>14. ASSUME NEW c \in Chans, HwQueue(c) PROVE TypeOK'
  BY <1>14 DEF HwQueue, HwHalts, Irqs, TypeOK, chanVars, clientVars
<1>15. CASE IrqRead
  BY <1>15 DEF IrqRead, TypeOK, IsrType, chanVars, hwVars, clientVars
<1>16. CASE IrqClear
  <2>1. isr' \in IsrType
    BY <1>16, ChansInRange DEF IrqClear, TypeOK, IsrType
  <2>2. irqStat' \in [Chans -> SUBSET Irqs]
    BY <1>16 DEF IrqClear, Acked, TypeOK
  <2> QED
    BY <1>16, <2>1, <2>2 DEF IrqClear, TypeOK, chanVars, clientVars
<1>17. CASE IrqScan
  <2>1. isr.i \in Chans /\ isr.i + 1 \in 0 .. NR_MAX_CHAN
    BY <1>17, NextSlot DEF IrqScan
  <2>2. callback[isr.i] \in Threads \cup {NULL} /\ param[isr.i] \in Threads \cup {NULL}
    BY <2>1 DEF TypeOK
  <2>3. isr' \in IsrType /\ (isr'.pc = "call" => isr'.i \in Chans)
    BY <1>17, <2>1, <2>2 DEF IrqScan, TypeOK, IsrType
  <2> QED
    BY <1>17, <2>3 DEF IrqScan, TypeOK, chanVars, hwVars, clientVars
<1>18. CASE IrqCall
  <2>1. isr' \in IsrType
    BY <1>18, NextSlot DEF IrqCall, TypeOK, IsrType
  <2> QED
    BY <1>18, <2>1 DEF IrqCall, TypeOK, chanVars, hwVars, clientVars
<1>19. CASE IrqReturn
  BY <1>19, ChansInRange DEF IrqReturn, Idle, TypeOK, IsrType, chanVars, hwVars, clientVars
<1>20. CASE UNCHANGED vars
  BY <1>20 DEF vars, TypeOK, chanVars, hwVars, clientVars
<1> QED
  BY <1>1, <1>2, <1>3, <1>4, <1>5, <1>6, <1>7, <1>8, <1>9, <1>10, <1>11,
     <1>12, <1>13, <1>14, <1>15, <1>16, <1>17, <1>18, <1>19, <1>20
  DEF Next, ClientStep, PrepMemcpy, PrepDevice, Hw, Isr

\* In every behaviour of the channel manager every variable has its type.
THEOREM TypeCorrect == Spec => []TypeOK
<1>1. Init => TypeOK
  BY ChansInRange DEF Init, TypeOK, Idle, IsrType
<1>2. TypeOK /\ [Next]_vars => TypeOK'
  BY TypeStep
<1> QED
  BY <1>1, <1>2, PTL DEF Spec

-----------------------------------------------------------------------------

\* The test and the mark of hal_dma_chan_request are one lock section, and
\* hal_dma_chan_free gives back only the caller's channel.
LEMMA ExclusiveStep ==
  ASSUME TypeOK, ChannelExclusive, CallState, [Next]_vars
  PROVE  ChannelExclusive' /\ CallState'
<1> USE NullAssumption
<1>1. ASSUME NEW t \in Threads, RequestBegin(t) PROVE ChannelExclusive' /\ CallState'
  BY <1>1 DEF RequestBegin, ChannelExclusive, CallState, TypeOK, chanVars
<1>2. ASSUME NEW t \in Threads, RequestSlot(t) PROVE ChannelExclusive' /\ CallState'
  <2>1. slot[t] \in Chans /\ slot[t] # NULL /\ handle[t] = NULL
    BY <1>2 DEF RequestSlot, CallState, Chans
  <2>2. CASE SlotFree(slot[t])
    <3>1. \A u \in Threads : handle[u] # slot[t]
      BY <2>1, <2>2 DEF SlotFree, ChannelExclusive
    <3> QED
      BY <1>2, <2>1, <2>2, <3>1
      DEF RequestSlot, ChannelExclusive, CallState, TypeOK
  <2>3. CASE ~ SlotFree(slot[t])
    BY <1>2, <2>3 DEF RequestSlot, ChannelExclusive, CallState
  <2> QED
    BY <2>2, <2>3
<1>3. ASSUME NEW t \in Threads, RequestBusy(t) PROVE ChannelExclusive' /\ CallState'
  BY <1>3 DEF RequestBusy, ChannelExclusive, CallState, TypeOK, chanVars
<1>4. ASSUME NEW t \in Threads, InstallParam(t) PROVE ChannelExclusive' /\ CallState'
  BY <1>4 DEF InstallParam, ChannelExclusive, CallState, TypeOK
<1>5. ASSUME NEW t \in Threads, DescFreeUnhook(t) PROVE ChannelExclusive' /\ CallState'
  BY <1>5 DEF DescFreeUnhook, ChannelExclusive, CallState, TypeOK
<1>6. ASSUME NEW t \in Threads, NEW c \in Chans, InstallCallback(t, c)
      PROVE  ChannelExclusive' /\ CallState'
  <2>1. c # NULL
    BY DEF Chans
  <2> QED
    BY <1>6, <2>1 DEF InstallCallback, Holds, ChannelExclusive, CallState, TypeOK
<1>7. ASSUME NEW t \in Threads, NEW c \in Chans, ChanFree(t, c)
      PROVE  ChannelExclusive' /\ CallState'
  BY <1>7 DEF ChanFree, Holds, ChannelExclusive, CallState, TypeOK
<1>8. ASSUME NEW t \in Threads, NEW c \in Chans, DescFree(t, c)
      PROVE  ChannelExclusive' /\ CallState'
  <2>1. c # NULL
    BY DEF Chans
  <2> QED
    BY <1>8, <2>1 DEF DescFree, Holds, ChannelExclusive, CallState, TypeOK
<1>9. ASSUME UNCHANGED <<used, handle, pc>> PROVE ChannelExclusive' /\ CallState'
  BY <1>9 DEF ChannelExclusive, CallState
<1>10. ASSUME NEW t \in Threads, NEW c \in Chans,
              \/ PrepSingle(t, c) \/ PrepCyclic(t, c) \/ Start(t, c) \/ Stop(t, c)
       PROVE  UNCHANGED <<used, handle, pc>>
  BY <1>10 DEF PrepSingle, PrepCyclic, Start, Stop, clientVars
<1>11. ASSUME Hw \/ Isr \/ UNCHANGED vars PROVE UNCHANGED <<used, handle, pc>>
  BY <1>11 DEF Hw, HwPackage, HwQueue, Isr, IrqRead, IrqClear, IrqScan, IrqCall,
               IrqReturn, vars, chanVars, clientVars
<1> QED
  BY <1>1, <1>2, <1>3, <1>4, <1>5, <1>6, <1>7, <1>8, <1>9, <1>10, <1>11
  DEF Next, ClientStep, PrepMemcpy, PrepDevice

-----------------------------------------------------------------------------

\* Only a channel's holder writes its callback and parameter, and it clears
\* them before it gives the channel back.
LEMMA CallbackStep ==
  ASSUME TypeOK, CallState, CallbackHeld, [Next]_vars
  PROVE  CallbackHeld'
<1> USE NullAssumption
<1>1. ASSUME NEW t \in Threads, RequestSlot(t) PROVE CallbackHeld'
  <2>1. handle[t] = NULL /\ NULL \notin Chans
    BY <1>1 DEF RequestSlot, CallState, Chans
  <2>2. UNCHANGED <<callback, param>> /\ \A u \in Threads \ {t} : handle'[u] = handle[u]
    BY <1>1 DEF RequestSlot, TypeOK
  <2> QED
    BY <2>1, <2>2 DEF CallbackHeld
<1>2. ASSUME NEW t \in Threads, InstallParam(t) PROVE CallbackHeld'
  <2>1. handle[t] \in Chans
    BY <1>2 DEF InstallParam, CallState, TypeOK
  <2> QED
    BY <1>2, <2>1 DEF InstallParam, CallbackHeld, TypeOK
<1>3. ASSUME NEW t \in Threads, DescFreeUnhook(t) PROVE CallbackHeld'
  <2>1. handle[t] \in Chans
    BY <1>3 DEF DescFreeUnhook, CallState, TypeOK
  <2> QED
    BY <1>3, <2>1 DEF DescFreeUnhook, CallbackHeld, TypeOK
<1>4. ASSUME NEW t \in Threads, NEW c \in Chans, InstallCallback(t, c) PROVE CallbackHeld'
  BY <1>4 DEF InstallCallback, Holds, CallbackHeld, TypeOK
<1>5. ASSUME NEW t \in Threads, NEW c \in Chans, ChanFree(t, c) PROVE CallbackHeld'
  <2>1. handle[t] = c /\ callback'[c] = NULL /\ param'[c] = NULL
    BY <1>5 DEF ChanFree, Holds, ParamAfterFree, TypeOK
  <2>2. ASSUME NEW d \in Chans \ {c}
        PROVE  callback'[d] = callback[d] /\ param'[d] = param[d]
    BY <1>5 DEF ChanFree, TypeOK
  <2>3. \A u \in Threads \ {t} : handle'[u] = handle[u]
    BY <1>5 DEF ChanFree, TypeOK
  <2> QED
    BY <2>1, <2>2, <2>3 DEF CallbackHeld
<1>6. ASSUME UNCHANGED <<callback, param, handle>> PROVE CallbackHeld'
  BY <1>6 DEF CallbackHeld
<1>7. ASSUME NEW t \in Threads, RequestBegin(t) \/ RequestBusy(t)
      PROVE  UNCHANGED <<callback, param, handle>>
  BY <1>7 DEF RequestBegin, RequestBusy, chanVars
<1>8. ASSUME NEW t \in Threads, NEW c \in Chans,
             \/ PrepSingle(t, c) \/ PrepCyclic(t, c) \/ Start(t, c)
             \/ Stop(t, c) \/ DescFree(t, c)
      PROVE  UNCHANGED <<callback, param, handle>>
  BY <1>8 DEF PrepSingle, PrepCyclic, Start, Stop, DescFree, clientVars
<1>9. ASSUME Hw \/ Isr \/ UNCHANGED vars
      PROVE  UNCHANGED <<callback, param, handle>>
  BY <1>9 DEF Hw, HwPackage, HwQueue, Isr, IrqRead, IrqClear, IrqScan, IrqCall,
              IrqReturn, vars, chanVars, clientVars
<1> QED
  BY <1>1, <1>2, <1>3, <1>4, <1>5, <1>6, <1>7, <1>8, <1>9
  DEF Next, ClientStep, PrepMemcpy, PrepDevice

\* The handler copies both words of a channel in one lock section, and a
\* channel has one holder.
LEMMA PairedStep ==
  ASSUME TypeOK, ChannelExclusive, CallbackHeld, CallbackPaired, [Next]_vars
  PROVE  CallbackPaired'
<1> USE NullAssumption
<1>1. CASE IrqScan
  <2>1. isr.i \in Chans
    BY <1>1 DEF IrqScan
  <2>2. \/ isr'.cb = isr.cb /\ isr'.data = isr.data
        \/ isr'.cb = callback[isr.i] /\ isr'.data = param[isr.i]
    BY <1>1 DEF IrqScan, TypeOK, IsrType
  <2>3. callback[isr.i] # NULL => param[isr.i] \in {callback[isr.i], NULL}
    <3>1. callback[isr.i] \in Threads \cup {NULL} /\ param[isr.i] \in Threads \cup {NULL}
      BY <2>1 DEF TypeOK
    <3>2. isr.i # NULL
      BY <2>1 DEF Chans
    <3> QED
      BY <2>1, <3>1, <3>2 DEF CallbackHeld, ChannelExclusive
  <2> QED
    BY <2>2, <2>3 DEF CallbackPaired
<1>2. CASE IrqRead
  BY <1>2 DEF IrqRead, CallbackPaired, TypeOK, IsrType
<1>3. CASE IrqClear
  BY <1>3 DEF IrqClear, CallbackPaired, TypeOK, IsrType
<1>4. CASE IrqCall
  BY <1>4 DEF IrqCall, CallbackPaired, TypeOK, IsrType
<1>5. CASE IrqReturn
  BY <1>5 DEF IrqReturn, Idle, CallbackPaired
<1>6. CASE UNCHANGED isr
  BY <1>6 DEF CallbackPaired
<1>7. ASSUME NEW t \in Threads, ClientStep(t) PROVE UNCHANGED isr
  BY <1>7 DEF ClientStep, RequestBegin, RequestSlot, RequestBusy, InstallParam,
     DescFreeUnhook, InstallCallback, PrepMemcpy, PrepDevice, PrepSingle,
     PrepCyclic, Start, Stop, ChanFree, DescFree
<1>8. ASSUME Hw \/ UNCHANGED vars PROVE UNCHANGED isr
  BY <1>8 DEF Hw, HwPackage, HwQueue, vars
<1> QED
  BY <1>1, <1>2, <1>3, <1>4, <1>5, <1>6, <1>7, <1>8 DEF Next, Isr

-----------------------------------------------------------------------------

\* An item that is allocated comes from outside the heap or from the list the
\* same step releases, so no other channel has it.
LEMMA ListsStep ==
  ASSUME TypeOK, ListsOwned, [Next]_vars
  PROVE  ListsOwned'
<1>1. ASSUME NEW t \in Threads, NEW c \in Chans, PrepSingle(t, c) PROVE ListsOwned'
  <2>1. PICK item \in Items \ heap :
          heap' = heap \cup {item} /\ desc' = [desc EXCEPT ![c] = {item}]
    BY <1>1 DEF PrepSingle
  <2>2. desc'[c] = {item} /\ \A d \in Chans \ {c} : desc'[d] = desc[d]
    BY <2>1 DEF TypeOK
  <2> QED
    BY <2>1, <2>2 DEF ListsOwned
<1>2. ASSUME NEW t \in Threads, NEW c \in Chans, PrepCyclic(t, c) PROVE ListsOwned'
  <2>1. PICK new \in SUBSET (Items \ (heap \ desc[c])) :
          heap' = (heap \ desc[c]) \cup new /\ desc' = [desc EXCEPT ![c] = new]
    BY <1>2 DEF PrepCyclic, Released
  <2>2. desc'[c] = new /\ \A d \in Chans \ {c} : desc'[d] = desc[d]
    BY <2>1 DEF TypeOK
  <2>3. ASSUME NEW d \in Chans \ {c}
        PROVE  desc[d] \subseteq heap \ desc[c] /\ desc[d] \cap new = {}
    BY <2>1 DEF ListsOwned
  <2> QED
    BY <2>1, <2>2, <2>3 DEF ListsOwned
<1>3. ASSUME NEW c \in Chans, heap' = heap \ desc[c], desc' = [desc EXCEPT ![c] = {}]
      PROVE  ListsOwned'
  <2>1. desc'[c] = {} /\ \A d \in Chans \ {c} : desc'[d] = desc[d]
    BY <1>3 DEF TypeOK
  <2> QED
    BY <1>3, <2>1 DEF ListsOwned
<1>4. ASSUME NEW t \in Threads, NEW c \in Chans, ChanFree(t, c) \/ DescFree(t, c)
      PROVE  heap' = heap \ desc[c] /\ desc' = [desc EXCEPT ![c] = {}]
  BY <1>4 DEF ChanFree, DescFree, Freed, ListAfterFree
<1>5. ASSUME UNCHANGED <<heap, desc>> PROVE ListsOwned'
  BY <1>5 DEF ListsOwned
<1>6. ASSUME NEW t \in Threads,
             \/ RequestBegin(t) \/ RequestSlot(t) \/ RequestBusy(t)
             \/ InstallParam(t) \/ DescFreeUnhook(t)
      PROVE  UNCHANGED <<heap, desc>>
  BY <1>6 DEF RequestBegin, RequestSlot, RequestBusy, InstallParam,
              DescFreeUnhook, chanVars
<1>7. ASSUME NEW t \in Threads, NEW c \in Chans,
             InstallCallback(t, c) \/ Start(t, c) \/ Stop(t, c)
      PROVE  UNCHANGED <<heap, desc>>
  BY <1>7 DEF InstallCallback, Start, Stop
<1>8. ASSUME Hw \/ Isr \/ UNCHANGED vars PROVE UNCHANGED <<heap, desc>>
  BY <1>8 DEF Hw, HwPackage, HwQueue, Isr, IrqRead, IrqClear, IrqScan, IrqCall,
              IrqReturn, vars, chanVars
<1> QED
  BY <1>1, <1>2, <1>3, <1>4, <1>5, <1>6, <1>7, <1>8
  DEF Next, ClientStep, PrepMemcpy, PrepDevice

-----------------------------------------------------------------------------

\* The channels start free and unhooked, the handler idle.
LEMMA InitInv == Init => IInv
<1>1. Init => TypeOK
  BY ChansInRange DEF Init, TypeOK, Idle, IsrType
<1> QED
  BY <1>1, NullAssumption
  DEF Init, IInv, ChannelExclusive, CallState, CallbackHeld, ListsOwned,
      CallbackPaired, Idle

\* Every step keeps all the parts of the invariant.
LEMMA InvStep == IInv /\ [Next]_vars => IInv'
  BY TypeStep, ExclusiveStep, CallbackStep, ListsStep, PairedStep DEF IInv

\* IInv is an inductive invariant of the channel manager.
THEOREM Inductive == Spec => []IInv
  BY InitInv, InvStep, PTL DEF Spec

\* No two clients ever hold the same channel (hal_dma_chan_request).
THEOREM ExclusiveChannels == Spec => []ChannelExclusive
  BY Inductive, PTL DEF IInv

\* No descriptor is on two lists, freed twice or freed while listed.
THEOREM DescriptorOwnership == Spec => []ListsOwned
  BY Inductive, PTL DEF IInv

\* The handler never calls one client's callback with another's parameter.
THEOREM CallbackPairing == Spec => []CallbackPaired
  BY Inductive, PTL DEF IInv

-----------------------------------------------------------------------------
(* Clients that call as test_dma.c does, for transfers of both kinds,      *)
(* whether they poll or wait.                                              *)

\* Every step of the clients, the hardware and the handler in the composition
\* is a step of the channel manager alone, or leaves it unchanged.
LEMMA StepRefines == ASSUME [ClientNext]_allVars PROVE [Next]_vars
<1>1. ASSUME NEW t \in Threads, Client(t) PROVE [Next]_vars
  <2>1. ClientStep(t) \/ UNCHANGED vars
    BY <1>1 DEF Client, CallRequest, CallInstall, CallPrep, CallStart, CallWait,
       CallStop, CallDescFree, CallFree, ClientStep
  <2> QED
    BY <2>1 DEF Next
<1>2. ASSUME NEW c \in Chans, HwStep(c) PROVE [Next]_vars
  BY <1>2 DEF HwStep, Next, Hw
<1>3. ASSUME IsrStep PROVE [Next]_vars
  BY <1>3 DEF IsrStep, Next
<1> QED
  BY <1>1, <1>2, <1>3 DEF ClientNext, allVars

\* The composition implements the channel manager: whatever holds for clients
\* that call hal_dma.c in any order holds for those of test_dma.c.
THEOREM ClientsImplementDma == ClientSpec => Spec
<1>1. ClientInit => Init
  BY DEF ClientInit
<1>2. [ClientNext]_allVars => [Next]_vars
  BY StepRefines
<1> QED
  BY <1>1, <1>2, PTL DEF ClientSpec, Spec

-----------------------------------------------------------------------------

\* The clients' own variables keep their types.
LEMMA GhostTypeStep ==
  ASSUME ClientTypeOK, [ClientNext]_allVars
  PROVE  ClientTypeOK'
<1>1. TypeOK'
  BY StepRefines, TypeStep DEF ClientTypeOK
<1>2. phase' \in [Threads -> Phases]
  BY DEF ClientNext, Client, CallRequest, CallInstall, CallPrep, CallStart,
     CallWait, CallStop, CallDescFree, CallFree, Go, HwStep, IsrStep,
     allVars, ghosts, ClientTypeOK, Phases
<1>3. notified' \in [Threads -> BOOLEAN]
  BY DEF ClientNext, Client, CallRequest, CallInstall, CallPrep, CallStart,
     CallWait, CallStop, CallDescFree, CallFree, HwStep, IsrStep,
     allVars, ghosts, ClientTypeOK
<1>4. raised' \in [Chans -> SUBSET Irqs]
  BY DEF ClientNext, Client, CallRequest, CallInstall, CallPrep, CallStart,
     CallWait, CallStop, CallDescFree, CallFree, HwStep, IsrStep,
     allVars, ghosts, ClientTypeOK, Irqs
<1> QED
  BY <1>1, <1>2, <1>3, <1>4 DEF ClientTypeOK

\* A channel whose holder has nothing started, and nothing prepared, does not
\* run and is not marked cyclic.
LEMMA QuietChannel ==
  ASSUME ClientInv, NEW t \in Threads, NEW c \in Chans, handle[t] = c,
         phase[t] \notin {"ready", "busy", "told"}
  PROVE  running[c] = FALSE /\ cyclic[c] = FALSE
<1>1. \A u \in Threads : handle[u] = c => u = t
  BY NullAssumption DEF ClientInv, IInv, ChannelExclusive, Chans
<1>2. running[c] \in BOOLEAN /\ cyclic[c] \in BOOLEAN
  BY DEF ClientInv, ClientTypeOK, TypeOK
<1> QED
  BY <1>1, <1>2 DEF ClientInv, RunsForHolder, CyclicHasList

\* A step that leaves the channels' lists and running hardware alone, and in
\* which no client with a prepared or started transfer loses it, keeps both
\* facts about channels.
LEMMA ChannelsKept ==
  ASSUME RunsForHolder, CyclicHasList,
         UNCHANGED <<running, hwList, cyclic, desc>>,
         \A t \in Threads : phase[t] \in {"busy", "told"} =>
           handle'[t] = handle[t] /\ phase'[t] \in {"busy", "told"},
         \A t \in Threads : phase[t] = "ready" =>
           handle'[t] = handle[t] /\ phase'[t] = "ready"
  PROVE  RunsForHolder' /\ CyclicHasList'
BY DEF RunsForHolder, CyclicHasList

\* A step that changes the list of channel c, which then neither runs nor
\* ran, by a client that had nothing prepared.
LEMMA ListChanged ==
  ASSUME RunsForHolder, CyclicHasList, TypeOK,
         NEW c \in Chans, NEW t \in Threads, handle[t] = c,
         running[c] = FALSE, UNCHANGED <<running, hwList>>,
         phase[t] \notin {"ready", "busy", "told"},
         \A d \in Chans \ {c} : desc'[d] = desc[d] /\ cyclic'[d] = cyclic[d],
         \A u \in Threads \ {t} : handle'[u] = handle[u] /\ phase'[u] = phase[u],
         cyclic'[c] => /\ desc'[c] # {}
                       /\ handle'[t] = c /\ phase'[t] = "ready"
  PROVE  RunsForHolder' /\ CyclicHasList'
<1>1. RunsForHolder'
  BY DEF RunsForHolder
<1>2. CyclicHasList'
  BY DEF CyclicHasList
<1> QED
  BY <1>1, <1>2

-----------------------------------------------------------------------------

\* Each call of a client, the hardware and the handler keep the invariant.

\* hal_dma_chan_request gives a client a channel that neither runs nor is cyclic.
LEMMA RequestKeeps ==
  ASSUME ClientInv, NEW t \in Threads, CallRequest(t)
  PROVE  PhaseHeld' /\ RunsForHolder' /\ CyclicHasList'
<1> USE NullAssumption DEF ClientInv, ClientTypeOK, TypeOK
<1>1. handle[t] = NULL /\ phase[t] = "out"
  BY DEF CallRequest, RequestBegin, RequestSlot, RequestBusy, PhaseHeld, IInv, CallState
<1>2. \A u \in Threads \ {t} : handle'[u] = handle[u] /\ phase'[u] = phase[u] /\ pc'[u] = pc[u]
  BY DEF CallRequest, RequestBegin, RequestSlot, RequestBusy
<1>3. UNCHANGED <<running, hwList, cyclic, desc>>
  BY DEF CallRequest, RequestBegin, RequestSlot, RequestBusy, chanVars, hwVars
<1>4. RunsForHolder' /\ CyclicHasList'
  BY <1>1, <1>2, <1>3, ChannelsKept
<1>5. (handle'[t] = NULL <=> phase'[t] = "out") /\ pc'[t] \notin {"install", "unhook"}
  <2>1. CASE RequestSlot(t) /\ SlotFree(slot[t])
    <3>1. used' # used
      BY <2>1 DEF RequestSlot, SlotFree
    <3>2. handle'[t] = slot[t] /\ slot[t] \in Chans
      BY <2>1 DEF RequestSlot
    <3>3. slot[t] # NULL
      BY <3>2 DEF Chans
    <3>4. phase'[t] = "held" /\ pc'[t] = "idle"
      BY <1>1, <2>1, <3>1 DEF CallRequest, RequestBegin, RequestBusy, RequestSlot
    <3> QED
      BY <3>2, <3>3, <3>4
  <2>2. CASE RequestSlot(t) /\ ~ SlotFree(slot[t])
    <3>1. phase' = phase /\ handle' = handle /\ pc' = pc /\ pc[t] = "request"
      BY <2>2 DEF CallRequest, RequestBegin, RequestBusy, RequestSlot
    <3> QED
      BY <1>1, <3>1
  <2>3. CASE (RequestBegin(t) \/ RequestBusy(t)) /\ UNCHANGED phase
    BY <1>1, <2>3 DEF RequestBegin, RequestBusy
  <2> QED
    BY <2>1, <2>2, <2>3 DEF CallRequest
<1>6. PhaseHeld'
  BY <1>2, <1>5 DEF PhaseHeld
<1> QED
  BY <1>4, <1>6

\* hal_dma_callback_install touches neither lists nor hardware.
LEMMA InstallKeeps ==
  ASSUME ClientInv, NEW t \in Threads, CallInstall(t)
  PROVE  PhaseHeld' /\ RunsForHolder' /\ CyclicHasList'
<1> USE DEF ClientInv, ClientTypeOK, TypeOK
<1>1. phase[t] = "held" /\ handle' = handle /\ handle[t] # NULL
  BY DEF CallInstall, InstallCallback, InstallParam, Go, PhaseHeld
<1>2. \A u \in Threads \ {t} : phase'[u] = phase[u] /\ pc'[u] = pc[u]
  BY DEF CallInstall, InstallCallback, InstallParam, Go
<1>3. UNCHANGED <<running, hwList, cyclic, desc>>
  BY DEF CallInstall, InstallCallback, InstallParam, hwVars
<1>4. RunsForHolder' /\ CyclicHasList'
  BY <1>1, <1>2, <1>3, ChannelsKept
<1>5. \/ phase'[t] = "held" /\ pc'[t] = "install"
      \/ phase'[t] = "hooked" /\ pc'[t] = "idle"
  BY <1>1 DEF CallInstall, InstallCallback, InstallParam, Go
<1>6. PhaseHeld'
  BY <1>1, <1>2, <1>5 DEF PhaseHeld
<1> QED
  BY <1>4, <1>6

\* A prepare that fails half way leaves a channel that is not marked cyclic,
\* because the client had stopped what the channel did before.
LEMMA PrepKeeps ==
  ASSUME ClientInv, NEW t \in Threads, CallPrep(t)
  PROVE  PhaseHeld' /\ RunsForHolder' /\ CyclicHasList'
<1> USE DEF ClientInv, ClientTypeOK, TypeOK
<1>1. PICK c \in Chans :
        \/ PrepSingle(t, c) /\ Go(t, "hooked", "ready")
        \/ PrepCyclic(t, c) /\ Go(t, "hooked", IF PrepOk(c) THEN "ready" ELSE "stopped")
        \/ Holds(t, c) /\ Go(t, "hooked", "stopped") /\ UNCHANGED vars
  BY DEF CallPrep, PrepMemcpy, PrepDevice
<1>2. handle[t] = c /\ phase[t] = "hooked" /\ pc[t] = "idle"
  BY <1>1 DEF PrepSingle, PrepCyclic, Holds, Go
<1>3. running[c] = FALSE /\ cyclic[c] = FALSE
  BY <1>2, QuietChannel
<1>4. handle' = handle /\ pc' = pc /\ UNCHANGED <<running, hwList>>
  BY <1>1 DEF PrepSingle, PrepCyclic, vars, clientVars, hwVars
<1>5. /\ phase'[t] \in {"ready", "stopped"}
      /\ \A u \in Threads \ {t} : phase'[u] = phase[u]
  BY <1>1 DEF Go
<1>6. \A d \in Chans \ {c} : desc'[d] = desc[d] /\ cyclic'[d] = cyclic[d]
  BY <1>1 DEF PrepSingle, PrepCyclic, vars, chanVars
<1>7. cyclic'[c] => desc'[c] # {} /\ phase'[t] = "ready"
  <2>1. CASE PrepSingle(t, c)
    BY <1>3, <2>1 DEF PrepSingle
  <2>2. CASE PrepCyclic(t, c) /\ Go(t, "hooked", IF PrepOk(c) THEN "ready" ELSE "stopped")
    <3>1. PICK periods \in 1 .. MaxPeriods,
               new \in SUBSET (Items \ (heap \ Released(c))) :
            /\ desc' = [desc EXCEPT ![c] = new]
            /\ ring' = [ring EXCEPT ![c] = Cardinality(new) = periods]
            /\ cyclic' = [cyclic EXCEPT ![c] = @ \/ Cardinality(new) = periods]
      BY <2>2 DEF PrepCyclic
    <3>2. new = {} => Cardinality(new) = 0
      BY FS_EmptySet
    <3>3. cyclic'[c] => Cardinality(new) = periods
      BY <1>3, <3>1
    <3>4. cyclic'[c] => new # {}
      BY <3>2, <3>3
    <3>5. desc'[c] = new
      BY <3>1
    <3>6. cyclic'[c] => ring'[c]
      BY <3>1, <3>3
    <3>7. ring'[c] => phase'[t] = "ready"
      BY <2>2 DEF Go, PrepOk
    <3> QED
      BY <3>4, <3>5, <3>6, <3>7
  <2>3. CASE UNCHANGED vars
    BY <1>3, <2>3 DEF vars, chanVars
  <2> QED
    BY <1>1, <2>1, <2>2, <2>3
<1>8. RunsForHolder' /\ CyclicHasList'
  BY <1>2, <1>3, <1>4, <1>5, <1>6, <1>7, ListChanged
<1>9. PhaseHeld'
  BY <1>2, <1>4, <1>5, NullAssumption DEF PhaseHeld, Chans
<1> QED
  BY <1>8, <1>9

\* hal_dma_start points the hardware at the channel's own list.
LEMMA StartKeeps ==
  ASSUME ClientInv, NEW t \in Threads, CallStart(t)
  PROVE  PhaseHeld' /\ RunsForHolder' /\ CyclicHasList'
<1> USE DEF ClientInv, ClientTypeOK, TypeOK
<1>1. PICK c \in Chans : Start(t, c) /\ Go(t, "ready", "busy")
  BY DEF CallStart
<1>2. handle[t] = c /\ pc[t] = "idle" /\ UNCHANGED <<handle, pc, cyclic, desc>>
  BY <1>1 DEF Start, Holds, clientVars
<1>3. /\ phase[t] = "ready" /\ phase'[t] = "busy"
      /\ \A u \in Threads \ {t} : phase'[u] = phase[u]
  BY <1>1 DEF Go
<1>4. /\ hwList'[c] = desc[c]
      /\ \A d \in Chans \ {c} : running'[d] = running[d] /\ hwList'[d] = hwList[d]
  BY <1>1 DEF Start
<1>5. RunsForHolder'
  BY <1>2, <1>3, <1>4 DEF RunsForHolder
<1>6. CyclicHasList'
  BY <1>2, <1>3 DEF CyclicHasList
<1>7. PhaseHeld'
  BY <1>2, <1>3 DEF PhaseHeld
<1> QED
  BY <1>5, <1>6, <1>7

\* The wait on the semaphore keeps the channel held and started.
LEMMA WaitKeeps ==
  ASSUME ClientInv, NEW t \in Threads, CallWait(t)
  PROVE  PhaseHeld' /\ RunsForHolder' /\ CyclicHasList'
<1> USE DEF ClientInv, ClientTypeOK, TypeOK
<1>1. UNCHANGED <<handle, pc, running, hwList, cyclic, desc>>
  BY DEF CallWait, vars, chanVars, hwVars, clientVars
<1>2. /\ phase[t] = "busy" /\ phase'[t] = "told"
      /\ \A u \in Threads \ {t} : phase'[u] = phase[u]
  BY DEF CallWait, Go
<1>3. RunsForHolder' /\ CyclicHasList'
  BY <1>1, <1>2, ChannelsKept
<1>4. PhaseHeld'
  BY <1>1, <1>2 DEF PhaseHeld
<1> QED
  BY <1>3, <1>4

\* hal_dma_stop halts the channel and clears the mark, so nothing is left that
\* needs the list.
LEMMA StopKeeps ==
  ASSUME ClientInv, NEW t \in Threads, CallStop(t)
  PROVE  PhaseHeld' /\ RunsForHolder' /\ CyclicHasList'
<1> USE DEF ClientInv, ClientTypeOK, TypeOK
<1>1. PICK c \in Chans :
        /\ Stop(t, c)
        /\ phase[t] = "told" \/ Polled(t, c)
        /\ phase' = [phase EXCEPT ![t] = "stopped"]
  BY DEF CallStop
<1>2. handle[t] = c /\ c # NULL /\ pc[t] = "idle" /\ UNCHANGED <<handle, pc, desc>>
  BY <1>1, NullAssumption DEF Stop, Holds, clientVars, Chans
<1>3. phase'[t] = "stopped" /\ \A u \in Threads \ {t} : phase'[u] = phase[u]
  BY <1>1
<1>4. running'[c] = FALSE /\ cyclic'[c] = FALSE
  BY <1>1 DEF Stop, HwHalts, CyclicAfterStop
<1>5. \A d \in Chans \ {c} : /\ running'[d] = running[d] /\ hwList'[d] = hwList[d]
                             /\ cyclic'[d] = cyclic[d]
  BY <1>1 DEF Stop, HwHalts
<1>6. RunsForHolder'
  BY <1>2, <1>3, <1>4, <1>5 DEF RunsForHolder
<1>7. CyclicHasList'
  BY <1>2, <1>3, <1>4, <1>5 DEF CyclicHasList
<1>8. PhaseHeld'
  BY <1>2, <1>3 DEF PhaseHeld
<1> QED
  BY <1>6, <1>7, <1>8

\* hal_dma_chan_desc_free comes after the stop, so nothing walks the list.
LEMMA DescFreeKeeps ==
  ASSUME ClientInv, NEW t \in Threads, CallDescFree(t)
  PROVE  PhaseHeld' /\ RunsForHolder' /\ CyclicHasList'
<1> USE DEF ClientInv, ClientTypeOK, TypeOK
<1>1. CASE \E c \in Chans : DescFree(t, c) /\ phase[t] = "stopped" /\ UNCHANGED phase
  <2>1. PICK c \in Chans : DescFree(t, c) /\ phase[t] = "stopped" /\ UNCHANGED phase
    BY <1>1
  <2>2. handle[t] = c /\ UNCHANGED <<handle, phase, running, hwList, cyclic>>
    BY <2>1 DEF DescFree, Holds, hwVars
  <2>3. running[c] = FALSE /\ cyclic[c] = FALSE
    BY <2>1, <2>2, QuietChannel
  <2>4. \A d \in Chans \ {c} : desc'[d] = desc[d]
    BY <2>1 DEF DescFree
  <2>5. RunsForHolder' /\ CyclicHasList'
    BY <2>1, <2>2, <2>3, <2>4, ListChanged
  <2>6. PhaseHeld'
    BY <2>1 DEF DescFree, PhaseHeld
  <2> QED
    BY <2>5, <2>6
<1>2. CASE DescFreeUnhook(t) /\ Go(t, "stopped", "held")
  <2>1. UNCHANGED <<handle, running, hwList, cyclic, desc>> /\ pc'[t] = "idle"
        /\ \A u \in Threads \ {t} : pc'[u] = pc[u]
    BY <1>2 DEF DescFreeUnhook, hwVars
  <2>2. /\ phase[t] = "stopped" /\ phase'[t] = "held"
        /\ \A u \in Threads \ {t} : phase'[u] = phase[u]
    BY <1>2 DEF Go
  <2>3. RunsForHolder' /\ CyclicHasList'
    BY <2>1, <2>2, ChannelsKept
  <2>4. PhaseHeld'
    BY <2>1, <2>2 DEF PhaseHeld
  <2> QED
    BY <2>3, <2>4
<1> QED
  BY <1>1, <1>2 DEF CallDescFree

\* hal_dma_chan_free does not touch the hardware: that the channel does not
\* run is the client's doing.
LEMMA FreeKeeps ==
  ASSUME ClientInv, NEW t \in Threads, CallFree(t)
  PROVE  PhaseHeld' /\ RunsForHolder' /\ CyclicHasList'
<1> USE DEF ClientInv, ClientTypeOK, TypeOK
<1>1. PICK c \in Chans : ChanFree(t, c) /\ Go(t, "stopped", "out")
  BY DEF CallFree
<1>2. handle[t] = c /\ pc[t] = "idle" /\ UNCHANGED <<pc, running, hwList, cyclic>>
  BY <1>1 DEF ChanFree, Holds
<1>3. /\ phase[t] = "stopped" /\ phase'[t] = "out" /\ handle'[t] = NULL
      /\ \A u \in Threads \ {t} : phase'[u] = phase[u] /\ handle'[u] = handle[u]
  BY <1>1 DEF ChanFree, Go
<1>4. running[c] = FALSE /\ cyclic[c] = FALSE
  BY <1>2, <1>3, QuietChannel
<1>5. \A d \in Chans \ {c} : desc'[d] = desc[d]
  BY <1>1 DEF ChanFree
<1>6. RunsForHolder' /\ CyclicHasList'
  BY <1>2, <1>3, <1>4, <1>5, ListChanged
<1>7. PhaseHeld'
  BY <1>2, <1>3 DEF PhaseHeld
<1> QED
  BY <1>6, <1>7

\* The hardware only ever stops a channel by itself.
LEMMA HwKeeps ==
  ASSUME ClientInv, NEW c \in Chans, HwStep(c)
  PROVE  PhaseHeld' /\ RunsForHolder' /\ CyclicHasList'
<1> USE DEF ClientInv, ClientTypeOK, TypeOK
<1>1. UNCHANGED <<handle, pc, phase, cyclic, desc>>
  BY DEF HwStep, HwPackage, HwQueue, chanVars, clientVars
<1>2. \A d \in Chans : running'[d] => running[d] /\ hwList'[d] = hwList[d]
  BY DEF HwStep, HwPackage, HwQueue, HwHalts
<1> QED
  BY <1>1, <1>2 DEF PhaseHeld, RunsForHolder, CyclicHasList

\* The handler writes no channel; it only reads callbacks and clears status.
LEMMA IsrKeeps ==
  ASSUME ClientInv, IsrStep \/ UNCHANGED allVars
  PROVE  PhaseHeld' /\ RunsForHolder' /\ CyclicHasList'
<1>1. UNCHANGED <<handle, pc, phase, running, hwList, cyclic, desc>>
  BY DEF IsrStep, Isr, IrqRead, IrqClear, IrqScan, IrqCall, IrqReturn, allVars,
         vars, ghosts, chanVars, hwVars, clientVars
<1> QED
  BY <1>1 DEF ClientInv, PhaseHeld, RunsForHolder, CyclicHasList

\* The handler faults only on a channel marked cyclic without a list.
LEMMA FaultStep ==
  ASSUME ClientInv, [ClientNext]_allVars
  PROVE  NoNullDesc'
<1>1. [Next]_vars
  BY StepRefines
<1>2. CASE Isr
  <2>1. isr \in IsrType /\ isr.pc # "fault"
    BY DEF ClientInv, ClientTypeOK, TypeOK, NoNullDesc
  <2>2. ASSUME isr.i \in Chans PROVE ~ (cyclic[isr.i] /\ desc[isr.i] = {})
    BY <2>2 DEF ClientInv, CyclicHasList
  <2>3. CASE IrqScan
    BY <2>1, <2>2, <2>3 DEF IrqScan, IsrType, NoNullDesc
  <2>4. CASE IrqRead
    BY <2>1, <2>4 DEF IrqRead, IsrType, NoNullDesc
  <2>5. CASE IrqClear
    BY <2>1, <2>5 DEF IrqClear, IsrType, NoNullDesc
  <2>6. CASE IrqCall
    BY <2>1, <2>6 DEF IrqCall, IsrType, NoNullDesc
  <2>7. CASE IrqReturn
    BY <2>7 DEF IrqReturn, Idle, NoNullDesc
  <2> QED
    BY <1>2, <2>3, <2>4, <2>5, <2>6, <2>7 DEF Isr
<1>3. CASE Hw \/ UNCHANGED vars
  BY <1>3 DEF Hw, HwPackage, HwQueue, vars, ClientInv, NoNullDesc
<1>4. ASSUME NEW t \in Threads, ClientStep(t) PROVE NoNullDesc'
  <2>1. UNCHANGED isr
    BY <1>4 DEF ClientStep, RequestBegin, RequestSlot, RequestBusy, InstallParam,
       DescFreeUnhook, InstallCallback, PrepMemcpy, PrepDevice, PrepSingle,
       PrepCyclic, Start, Stop, ChanFree, DescFree
  <2> QED
    BY <2>1 DEF ClientInv, NoNullDesc
<1> QED
  BY <1>1, <1>2, <1>3, <1>4 DEF Next

\* ClientInv is an inductive invariant of the composition.
THEOREM ClientInductive == ClientSpec => []ClientInv
<1>1. ClientInit => ClientInv
  <2>1. Init => IInv
    BY InitInv
  <2>2. ClientInit => ClientTypeOK
    BY <2>1 DEF ClientInit, ClientTypeOK, IInv, Phases
  <2> QED
    BY <2>1, <2>2 DEF ClientInit, ClientInv, Init, PhaseHeld, RunsForHolder,
       CyclicHasList, NoNullDesc, Idle
<1>2. ASSUME ClientInv, [ClientNext]_allVars PROVE ClientInv'
  <2>1. ClientTypeOK'
    BY <1>2, GhostTypeStep DEF ClientInv
  <2>2. IInv'
    BY <1>2, StepRefines, InvStep DEF ClientInv
  <2>3. PhaseHeld' /\ RunsForHolder' /\ CyclicHasList'
    BY <1>2, RequestKeeps, InstallKeeps, PrepKeeps, StartKeeps, WaitKeeps, StopKeeps,
       DescFreeKeeps, FreeKeeps, HwKeeps, IsrKeeps DEF ClientNext, Client
  <2>4. NoNullDesc'
    BY <1>2, FaultStep
  <2> QED
    BY <2>1, <2>2, <2>3, <2>4 DEF ClientInv
<1> QED
  BY <1>1, <1>2, PTL DEF ClientSpec

-----------------------------------------------------------------------------

\* The hardware never walks a descriptor list that went back to the heap.
THEOREM NoStaleDescriptors == ClientSpec => []HwListAllocated
<1>1. ClientInv => HwListAllocated
  BY DEF ClientInv, IInv, RunsForHolder, ListsOwned, HwListAllocated
<1> QED
  BY <1>1, ClientInductive, PTL

\* A late handler never meets a channel marked cyclic that has no list.
THEOREM HandlerNeverFaults == ClientSpec => []NoNullDesc
<1>1. ClientInv => NoNullDesc
  BY DEF ClientInv
<1> QED
  BY <1>1, ClientInductive, PTL

\* A free channel is always stopped.
THEOREM FreeMeansStopped == ClientSpec => []FreeChannelStopped
<1>1. ClientInv => FreeChannelStopped
  <2>1. NULL \notin Chans
    BY NullAssumption DEF Chans
  <2> QED
    BY <2>1 DEF ClientInv, IInv, ChannelExclusive, RunsForHolder, FreeChannelStopped
<1> QED
  BY <1>1, ClientInductive, PTL

-----------------------------------------------------------------------------

\* A step that touches no list, and after which whoever was at work on a
\* transfer still is.
LEMMA ListsUntouched ==
  ASSUME NoLeak, ListForTransfer, UNCHANGED <<heap, desc>>,
         \A t \in Threads : AtWork(t) => handle'[t] = handle[t] /\ AtWork(t)'
  PROVE  NoLeak' /\ ListForTransfer'
BY DEF NoLeak, ListForTransfer

\* A step in which a client gives back the list of its channel, if it has
\* one, and puts another in its place.
LEMMA ListReplaced ==
  ASSUME TypeOK, ListsOwned, NoLeak, ListForTransfer,
         NEW t \in Threads, NEW c \in Chans, handle[t] = c,
         NEW new \in SUBSET Items,
         heap' = (heap \ desc[c]) \cup new, desc' = [desc EXCEPT ![c] = new],
         \A u \in Threads \ {t} : UNCHANGED <<handle[u], phase[u], pc[u]>>,
         new # {} => handle'[t] = c /\ AtWork(t)'
  PROVE  NoLeak' /\ ListForTransfer'
<1>1. desc'[c] = new /\ \A d \in Chans \ {c} : desc'[d] = desc[d]
  BY DEF TypeOK
<1>2. \A d \in Chans \ {c} : desc[d] \cap desc[c] = {}
  BY DEF ListsOwned
<1>3. NoLeak'
  <2>1. \A m : m \in heap' => \E d \in Chans : m \in desc'[d]
    BY <1>1 DEF NoLeak
  <2>2. \A m, d : d \in Chans /\ m \in desc'[d] => m \in heap'
    BY <1>1, <1>2 DEF NoLeak
  <2> QED
    BY <2>1, <2>2 DEF NoLeak
<1>4. ASSUME NEW d \in Chans, desc'[d] # {}
      PROVE  \E u \in Threads : handle'[u] = d /\ AtWork(u)'
  <2>1. CASE d = c
    BY <1>1, <1>4, <2>1
  <2>2. CASE d # c
    <3>1. PICK u \in Threads : handle[u] = d /\ AtWork(u)
      BY <1>1, <1>4, <2>2 DEF ListForTransfer
    <3>2. handle'[u] = d /\ AtWork(u)'
      BY <2>2, <3>1 DEF AtWork
    <3> QED
      BY <3>2
  <2> QED
    BY <2>1, <2>2
<1> QED
  BY <1>3, <1>4 DEF ListForTransfer

\* A client that has prepared nothing finds no list on its channel.
LEMMA NothingToOverwrite ==
  ASSUME ClientInv, ListForTransfer, NEW t \in Threads, NEW c \in Chans,
         handle[t] = c, phase[t] = "hooked"
  PROVE  desc[c] = {}
<1>1. \A u \in Threads : handle[u] = c => u = t
  BY NullAssumption DEF ClientInv, IInv, ChannelExclusive, Chans
<1> QED
  BY <1>1 DEF ListForTransfer, AtWork

\* The steps that give descriptors back or take new ones (hal_dma_prep_memcpy,
\* hal_dma_prep_device, hal_dma_prep_cyclic, hal_dma_chan_desc_free and
\* hal_dma_chan_free) drop none.
LEMMA PrepLeaksNone ==
  ASSUME ClientInv, NoLeak, ListForTransfer, NEW t \in Threads, CallPrep(t)
  PROVE  NoLeak' /\ ListForTransfer'
<1> USE DEF ClientInv, ClientTypeOK, IInv
<1>1. PICK c \in Chans :
        \/ PrepSingle(t, c) /\ Go(t, "hooked", "ready")
        \/ PrepCyclic(t, c) /\ Go(t, "hooked", IF PrepOk(c) THEN "ready" ELSE "stopped")
        \/ Holds(t, c) /\ Go(t, "hooked", "stopped") /\ UNCHANGED vars
  BY DEF CallPrep, PrepMemcpy, PrepDevice
<1>2. handle[t] = c /\ phase[t] = "hooked" /\ pc[t] = "idle" /\ UNCHANGED <<handle, pc>>
  BY <1>1 DEF PrepSingle, PrepCyclic, Holds, Go, vars, clientVars
<1>3. /\ phase'[t] \in {"ready", "stopped"}
      /\ \A u \in Threads \ {t} : UNCHANGED <<handle[u], phase[u], pc[u]>>
  BY <1>1, <1>2 DEF Go
<1>4. AtWork(t)'
  BY <1>2, <1>3 DEF AtWork
<1>5. desc[c] = {}
  BY <1>2, NothingToOverwrite
<1>6. CASE PrepSingle(t, c)
  <2>1. PICK item \in Items \ heap :
          heap' = heap \cup {item} /\ desc' = [desc EXCEPT ![c] = {item}]
    BY <1>6 DEF PrepSingle
  <2> DEFINE new == {item}
  <2>2. new \in SUBSET Items /\ heap' = (heap \ desc[c]) \cup new
        /\ desc' = [desc EXCEPT ![c] = new]
    BY <1>5, <2>1
  <2> HIDE DEF new
  <2> QED
    BY <1>2, <1>3, <1>4, <2>2, ListReplaced
<1>7. CASE PrepCyclic(t, c)
  <2>1. PICK new \in SUBSET Items :
          heap' = (heap \ desc[c]) \cup new /\ desc' = [desc EXCEPT ![c] = new]
    BY <1>7 DEF PrepCyclic, Released
  <2> QED
    BY <1>2, <1>3, <1>4, <2>1, ListReplaced
<1>8. CASE UNCHANGED vars
  BY <1>2, <1>3, <1>4, <1>8, ListsUntouched DEF vars, chanVars, AtWork
<1> QED
  BY <1>1, <1>6, <1>7, <1>8

LEMMA FreesLeakNone ==
  ASSUME ClientInv, NoLeak, ListForTransfer, NEW t \in Threads,
         CallDescFree(t) \/ CallFree(t)
  PROVE  NoLeak' /\ ListForTransfer'
<1> USE DEF ClientInv, ClientTypeOK, IInv
<1>1. ASSUME NEW c \in Chans, DescFree(t, c) \/ ChanFree(t, c) PROVE NoLeak' /\ ListForTransfer'
  <2> DEFINE new == {}
  <2>1. /\ handle[t] = c /\ new \in SUBSET Items /\ new = {}
        /\ heap' = (heap \ desc[c]) \cup new /\ desc' = [desc EXCEPT ![c] = new]
    BY <1>1 DEF DescFree, ChanFree, Holds, Freed, ListAfterFree
  <2> HIDE DEF new
  <2>2. \A u \in Threads \ {t} : UNCHANGED <<handle[u], phase[u], pc[u]>>
    BY <1>1 DEF DescFree, ChanFree, CallDescFree, DescFreeUnhook, CallFree, Go, TypeOK
  <2> QED
    BY <2>1, <2>2, ListReplaced
<1>2. CASE DescFreeUnhook(t) /\ Go(t, "stopped", "held")
  <2>1. UNCHANGED <<heap, desc, handle>> /\ ~ AtWork(t)
        /\ \A u \in Threads \ {t} : UNCHANGED <<phase[u], pc[u]>>
    BY <1>2 DEF DescFreeUnhook, Go, AtWork, TypeOK
  <2> QED
    BY <2>1, ListsUntouched DEF AtWork
<1> QED
  BY <1>1, <1>2 DEF CallDescFree, CallFree

\* Every step keeps the heap equal to what the channels' lists hold.
LEMMA LeakStep ==
  ASSUME ClientInv, NoLeak, ListForTransfer, [ClientNext]_allVars
  PROVE  NoLeak' /\ ListForTransfer'
<1> USE DEF ClientInv, ClientTypeOK, TypeOK
<1>1. ASSUME NEW t \in Threads, CallRequest(t) PROVE NoLeak' /\ ListForTransfer'
  <2>1. UNCHANGED <<heap, desc>> /\ ~ AtWork(t)
    BY <1>1 DEF CallRequest, RequestBegin, RequestSlot, RequestBusy, chanVars, AtWork,
       PhaseHeld, IInv, CallState
  <2>2. \A u \in Threads \ {t} : UNCHANGED <<handle[u], phase[u], pc[u]>>
    BY <1>1 DEF CallRequest, RequestBegin, RequestSlot, RequestBusy
  <2> QED
    BY <2>1, <2>2, ListsUntouched DEF AtWork
<1>2. ASSUME NEW t \in Threads, CallInstall(t) PROVE NoLeak' /\ ListForTransfer'
  <2>1. UNCHANGED <<heap, desc, handle>> /\ phase[t] = "held"
    BY <1>2 DEF CallInstall, InstallCallback, InstallParam, Go
  <2>2. \A u \in Threads \ {t} : UNCHANGED <<phase[u], pc[u]>>
    BY <1>2 DEF CallInstall, InstallCallback, InstallParam, Go
  <2> QED
    BY <2>1, <2>2, ListsUntouched DEF AtWork
<1>3. ASSUME NEW t \in Threads, CallStart(t) \/ CallWait(t) \/ CallStop(t)
      PROVE  NoLeak' /\ ListForTransfer'
  <2>1. UNCHANGED <<heap, desc, handle, pc>>
    BY <1>3 DEF CallStart, CallWait, CallStop, Start, Stop, vars, chanVars, clientVars
  <2>2. /\ phase'[t] \in {"busy", "told", "stopped"}
        /\ \A u \in Threads \ {t} : phase'[u] = phase[u]
    BY <1>3 DEF CallStart, CallWait, CallStop, Go
  <2> QED
    BY <2>1, <2>2, ListsUntouched DEF AtWork
<1>4. ASSUME (\E c \in Chans : HwStep(c)) \/ IsrStep \/ UNCHANGED allVars
      PROVE  NoLeak' /\ ListForTransfer'
  <2>1. UNCHANGED <<heap, desc, handle, pc, phase>>
    BY <1>4 DEF HwStep, HwPackage, HwQueue, IsrStep, Isr, IrqRead, IrqClear, IrqScan,
       IrqCall, IrqReturn, allVars, ghosts, vars, chanVars, clientVars
  <2> QED
    BY <2>1, ListsUntouched DEF AtWork
<1> QED
  BY <1>1, <1>2, <1>3, <1>4, PrepLeaksNone, FreesLeakNone DEF ClientNext, Client

\* Nothing that the re-prepare, the failed prepare, desc_free or chan_free
\* drops stays allocated.
THEOREM NothingLeaks == ClientSpec => []NoLeak
<1>1. ClientInit => NoLeak /\ ListForTransfer
  BY DEF ClientInit, Init, NoLeak, ListForTransfer
<1>2. ClientInv /\ NoLeak /\ ListForTransfer /\ [ClientNext]_allVars
      => NoLeak' /\ ListForTransfer'
  BY LeakStep
<1> QED
  BY <1>1, <1>2, ClientInductive, PTL DEF ClientSpec

-----------------------------------------------------------------------------

\* A step that touches no interrupt enable and no irq_type, and after which
\* whoever is ready was, on a channel whose mark did not change.
LEMMA MaskUntouched ==
  ASSUME NEW kind, MaskedByType(kind), UNCHANGED <<irqEn, irqType>>,
         \A c \in Chans : used[c] => used'[c],
         \A t \in Threads : phase'[t] = "ready" =>
           /\ phase[t] = "ready" /\ handle'[t] = handle[t]
           /\ cyclic'[handle[t]] = cyclic[handle[t]]
  PROVE  MaskedByType(kind)'
BY DEF MaskedByType

\* Two clients never hold one channel, so a step on one leaves the other's.
LEMMA OthersChannel ==
  ASSUME ClientInv, NEW t \in Threads, NEW u \in Threads \ {t},
         handle[t] # NULL
  PROVE  handle[u] # handle[t]
BY DEF ClientInv, IInv, ChannelExclusive

\* A prepare of the one kind leaves the mark that kind needs.
LEMMA PrepMarks ==
  ASSUME NEW kind \in {"single", "cyclic"}, Kinds \subseteq {kind},
         ClientInv, MaskedByType(kind), NEW t \in Threads, CallPrep(t)
  PROVE  MaskedByType(kind)'
<1> USE DEF ClientInv, ClientTypeOK, TypeOK
<1>1. PICK c \in Chans :
        \/ kind = "single" /\ PrepSingle(t, c) /\ Go(t, "hooked", "ready")
        \/ /\ kind = "cyclic" /\ PrepCyclic(t, c)
           /\ Go(t, "hooked", IF PrepOk(c) THEN "ready" ELSE "stopped")
        \/ Holds(t, c) /\ Go(t, "hooked", "stopped") /\ UNCHANGED vars
  BY DEF CallPrep, PrepMemcpy, PrepDevice
<1>2. /\ handle[t] = c /\ phase[t] = "hooked"
      /\ UNCHANGED <<handle, irqEn, irqType, used>>
  BY <1>1 DEF PrepSingle, PrepCyclic, Holds, Go, vars, clientVars, chanVars, hwVars
<1>3. cyclic[c] = FALSE
  BY <1>2, QuietChannel
<1>4. /\ \A d \in Chans \ {c} : cyclic'[d] = cyclic[d]
      /\ \A u \in Threads \ {t} : phase'[u] = phase[u]
  BY <1>1 DEF PrepSingle, PrepCyclic, Go, vars, chanVars
<1>5. ASSUME NEW u \in Threads, phase'[u] = "ready"
      PROVE  cyclic'[handle'[u]] <=> kind = "cyclic"
  <2>1. CASE u = t /\ kind = "single" /\ PrepSingle(t, c)
    BY <1>1, <1>2, <1>3, <1>5, <2>1 DEF PrepSingle, Go
  <2>2. CASE u = t /\ kind = "cyclic" /\ PrepCyclic(t, c)
             /\ Go(t, "hooked", IF PrepOk(c) THEN "ready" ELSE "stopped")
    <3>1. ring'[c]
      BY <1>5, <2>2 DEF Go, PrepOk
    <3>2. ring'[c] => cyclic'[c]
      BY <2>2 DEF PrepCyclic
    <3> QED
      BY <1>2, <2>2, <3>1, <3>2
  <2>3. CASE u # t
    <3>1. phase[u] = "ready" /\ handle[u] \in Chans /\ handle[u] # c
      BY <1>2, <1>4, <1>5, <2>3, OthersChannel, NullAssumption DEF PhaseHeld, Chans
    <3> QED
      BY <1>2, <1>4, <3>1 DEF MaskedByType
  <2> QED
    BY <1>1, <1>2, <1>5, <2>1, <2>2, <2>3 DEF Go
<1> QED
  BY <1>2, <1>5 DEF MaskedByType

\* hal_dma_start sets the bit of the type it records, hal_dma_chan_free clears
\* it: with one kind of transfer the two are always the same bit.
LEMMA MaskStep ==
  ASSUME NEW kind \in {"single", "cyclic"}, Kinds \subseteq {kind},
         ClientInv, MaskedByType(kind), [ClientNext]_allVars
  PROVE  MaskedByType(kind)'
<1> USE DEF ClientInv, ClientTypeOK, TypeOK
<1>1. ASSUME NEW t \in Threads, CallRequest(t) PROVE MaskedByType(kind)'
  <2>1. UNCHANGED <<irqEn, irqType, cyclic>> /\ \A c \in Chans : used[c] => used'[c]
    BY <1>1 DEF CallRequest, RequestBegin, RequestSlot, RequestBusy, chanVars, hwVars
  <2>2. phase'[t] # "ready"
    BY <1>1 DEF CallRequest, RequestBegin, RequestSlot, RequestBusy, PhaseHeld, IInv, CallState
  <2>3. \A u \in Threads \ {t} : UNCHANGED <<handle[u], phase[u]>>
    BY <1>1 DEF CallRequest, RequestBegin, RequestSlot, RequestBusy
  <2> QED
    BY <2>1, <2>2, <2>3, MaskUntouched
<1>2. ASSUME NEW t \in Threads, CallInstall(t) \/ CallWait(t) \/ CallDescFree(t)
      PROVE  MaskedByType(kind)'
  <2>1. UNCHANGED <<irqEn, irqType, cyclic, used, handle>>
    BY <1>2 DEF CallInstall, InstallCallback, InstallParam, CallWait, CallDescFree,
       DescFree, DescFreeUnhook, vars, chanVars, hwVars, clientVars
  <2>2. \A u \in Threads : phase'[u] = "ready" => phase[u] = "ready"
    BY <1>2 DEF CallInstall, CallWait, CallDescFree, Go
  <2> QED
    BY <2>1, <2>2, MaskUntouched
<1>3. ASSUME NEW t \in Threads, CallStart(t) PROVE MaskedByType(kind)'
  <2>1. PICK c \in Chans : Start(t, c) /\ Go(t, "ready", "busy")
    BY <1>3 DEF CallStart
  <2>2. handle[t] = c /\ UNCHANGED <<handle, cyclic, used>> /\ used[c]
    BY <2>1, NullAssumption
    DEF Start, Holds, clientVars, IInv, ChannelExclusive, Chans
  <2>3. IrqTypeOf(c) = IrqOfKind(kind)
    BY <2>1, <2>2 DEF Go, MaskedByType, IrqTypeOf, IrqOfKind
  <2>4. irqEn[c] \in {{}, {IrqOfKind(kind)}}
    BY DEF MaskedByType, Irqs
  <2>5. irqType'[c] = IrqOfKind(kind) /\ irqEn'[c] = {IrqOfKind(kind)}
    BY <2>1, <2>3, <2>4 DEF Start
  <2>6. \A d \in Chans \ {c} : irqType'[d] = irqType[d] /\ irqEn'[d] = irqEn[d]
    BY <2>1 DEF Start
  <2>7. \A u \in Threads : phase'[u] = "ready" => phase[u] = "ready"
    BY <2>1 DEF Go
  <2> QED
    BY <2>2, <2>5, <2>6, <2>7 DEF MaskedByType
<1>4. ASSUME NEW t \in Threads, CallStop(t) PROVE MaskedByType(kind)'
  <2>1. PICK c \in Chans : Stop(t, c) /\ phase' = [phase EXCEPT ![t] = "stopped"]
    BY <1>4 DEF CallStop
  <2>2. handle[t] = c /\ handle[t] # NULL /\ UNCHANGED <<handle, irqEn, irqType, used>>
    BY <2>1, NullAssumption DEF Stop, Holds, clientVars, Chans
  <2>3. \A d \in Chans \ {c} : cyclic'[d] = cyclic[d]
    BY <2>1 DEF Stop
  <2>4. ASSUME NEW u \in Threads, phase'[u] = "ready"
        PROVE  phase[u] = "ready" /\ handle[u] \in Chans \ {c}
    BY <2>1, <2>2, <2>4, OthersChannel DEF PhaseHeld
  <2> QED
    BY <2>2, <2>3, <2>4, MaskUntouched
<1>5. ASSUME NEW t \in Threads, CallFree(t) PROVE MaskedByType(kind)'
  <2>1. PICK c \in Chans : ChanFree(t, c) /\ Go(t, "stopped", "out")
    BY <1>5 DEF CallFree
  <2>2. irqEn'[c] = {} /\ UNCHANGED <<irqType, cyclic>>
    BY <2>1 DEF ChanFree, IrqEnAfterFree, MaskedByType
  <2>3. \A d \in Chans \ {c} : irqEn'[d] = irqEn[d] /\ used'[d] = used[d]
    BY <2>1 DEF ChanFree
  <2>4. \A u \in Threads : phase'[u] = "ready" => phase[u] = "ready" /\ handle'[u] = handle[u]
    BY <2>1 DEF ChanFree, Go
  <2> QED
    BY <2>2, <2>3, <2>4 DEF MaskedByType
<1>6. ASSUME (\E c \in Chans : HwStep(c)) \/ IsrStep \/ UNCHANGED allVars
      PROVE  MaskedByType(kind)'
  <2>1. UNCHANGED <<irqEn, irqType, used, handle, cyclic, phase>>
    BY <1>6 DEF HwStep, HwPackage, HwQueue, IsrStep, Isr, IrqRead, IrqClear, IrqScan,
       IrqCall, IrqReturn, allVars, ghosts, vars, chanVars, hwVars, clientVars
  <2> QED
    BY <2>1 DEF MaskedByType
<1> QED
  BY <1>1, <1>2, <1>3, <1>4, <1>5, <1>6, PrepMarks DEF ClientNext, Client

\* Nothing is enabled, recorded or prepared at the start.
LEMMA MaskInit == ASSUME NEW kind, ClientInit PROVE MaskedByType(kind)
BY DEF ClientInit, Init, MaskedByType

\* A free channel interrupts nobody, as long as all transfers are of one kind
\* (with both kinds hal_dma_chan_free leaves the other kind's bit).
THEOREM FreeMeansMasked ==
  ASSUME NEW CONSTANT kind \in {"single", "cyclic"}, Kinds \subseteq {kind}
  PROVE  ClientSpec => []FreeChannelMasked
<1>1. ClientInit => MaskedByType(kind)
  BY MaskInit
<1>2. ClientInv /\ MaskedByType(kind) /\ [ClientNext]_allVars => MaskedByType(kind)'
  BY MaskStep
<1>3. ClientInv /\ MaskedByType(kind) => FreeChannelMasked
  BY DEF MaskedByType, FreeChannelMasked
<1> QED
  BY <1>1, <1>2, <1>3, ClientInductive, PTL DEF ClientSpec

-----------------------------------------------------------------------------

\* While the handler calls back, the client it calls is waiting for that call.
LEMMA CalledIsBusy ==
  ASSUME ClientInv, EndIsAwaited, isr.pc = "call"
  PROVE  /\ InSnapshot(isr.i) /\ isr.i \in Chans
         /\ isr.data # NULL => isr.data \in Threads /\ phase[isr.data] = "busy"
<1> USE DEF ClientInv, ClientTypeOK, TypeOK
<1>1. isr.i \in Chans /\ isr.i \in Nat /\ isr.data \in Threads \cup {NULL}
  BY ChanAssumption DEF IsrType, Chans
<1>2. InSnapshot(isr.i)
  BY <1>1 DEF EndIsAwaited, InSnapshot
<1>3. PICK u \in Threads : handle[u] = isr.i /\ phase[u] = "busy"
  BY <1>1, <1>2 DEF EndIsAwaited
<1>4. isr.data # NULL => isr.data = u
  BY <1>1, <1>3, OthersChannel, NullAssumption DEF EndIsAwaited, Chans
<1> QED
  BY <1>1, <1>2, <1>3, <1>4

\* What the handler is doing with channel c, and what the hardware and the
\* holder say of it, is all that EndIsAwaited reads; a step that leaves the
\* handler, the status and the started transfers alone keeps it.
LEMMA EndsUntouched ==
  ASSUME ClientInv, EndIsAwaited, UNCHANGED <<isr, irqStat, irqType, raised>>,
         \A c \in Chans : running'[c] => running[c],
         \A t \in Threads : phase[t] = "busy" =>
           UNCHANGED <<handle[t], phase[t], notified[t]>>,
         \A t \in Threads : notified'[t] \/ phase'[t] = "told" =>
           phase[t] \in {"busy", "told"} /\ UNCHANGED <<handle[t], phase[t], notified[t]>>
  PROVE  EndIsAwaited'
<1> USE DEF ClientInv, ClientTypeOK, TypeOK
<1>1. \A c \in Chans : InSnapshot(c)' <=> InSnapshot(c)
  BY DEF InSnapshot
<1>2. \A c \in Chans : ("QUEUE" \in irqStat[c] \/ InSnapshot(c))' =>
        /\ ~ running'[c] /\ "QUEUE" \in raised'[c]
        /\ \E t \in Threads : handle'[t] = c /\ phase'[t] = "busy" /\ ~ notified'[t]
  BY <1>1 DEF EndIsAwaited
<1>3. \A t \in Threads :
        /\ notified'[t] => phase'[t] = "busy"
        /\ notified'[t] \/ phase'[t] = "told" => ~ running'[handle'[t]]
  BY DEF EndIsAwaited, PhaseHeld
<1>4. isr'.pc = "call" =>
        /\ irqType'[isr'.i] = "QUEUE" /\ "QUEUE" \in isr'.snap[isr'.i]
        /\ isr'.data # NULL => handle'[isr'.data] = isr'.i
  BY CalledIsBusy DEF EndIsAwaited
<1> QED
  BY <1>1, <1>2, <1>3, <1>4 DEF EndIsAwaited

\* Until it waits again, nothing ends on the channel of a client that is not
\* busy or that has been told.
LEMMA NothingPending ==
  ASSUME ClientInv, EndIsAwaited, NEW t \in Threads, NEW c \in Chans, handle[t] = c,
         phase[t] # "busy" \/ notified[t]
  PROVE  "QUEUE" \notin irqStat[c] /\ ~ InSnapshot(c)
<1>1. \A u \in Threads : handle[u] = c => u = t
  BY OthersChannel, NullAssumption DEF Chans
<1> QED
  BY <1>1 DEF EndIsAwaited

\* The calls of a client that is not waiting do not concern the handler.
LEMMA CallsKeepEnds ==
  ASSUME Waits, ClientInv, EndIsAwaited, NEW t \in Threads,
         \/ CallRequest(t) \/ CallInstall(t) \/ CallPrep(t)
         \/ CallStop(t) \/ CallDescFree(t) \/ CallFree(t)
  PROVE  EndIsAwaited'
<1> USE DEF ClientInv, ClientTypeOK, TypeOK
<1>1. UNCHANGED <<isr, irqStat, irqType, raised>> /\ \A c \in Chans : running'[c] => running[c]
  <2>1. CASE CallRequest(t) \/ CallInstall(t) \/ CallPrep(t)
    BY <2>1 DEF CallRequest, RequestBegin, RequestSlot, RequestBusy, CallInstall,
       InstallCallback, InstallParam, CallPrep, PrepMemcpy, PrepDevice, PrepSingle,
       PrepCyclic, vars, chanVars, hwVars
  <2>2. CASE CallStop(t)
    BY <2>2 DEF CallStop, Stop, HwHalts
  <2>3. CASE CallDescFree(t) \/ CallFree(t)
    BY <2>3 DEF CallDescFree, DescFree, DescFreeUnhook, CallFree, ChanFree, hwVars
  <2> QED
    BY <2>1, <2>2, <2>3
<1>2. phase[t] # "busy" /\ phase'[t] \notin {"busy", "told"} /\ ~ notified'[t]
  <2>1. phase[t] # "busy" /\ phase'[t] \notin {"busy", "told"}
    <3>1. CASE CallRequest(t)
      BY <3>1 DEF CallRequest, RequestBegin, RequestSlot, RequestBusy, PhaseHeld, IInv,
         CallState
    <3>2. CASE CallInstall(t) \/ CallPrep(t) \/ CallDescFree(t) \/ CallFree(t)
      BY <3>2 DEF CallInstall, CallPrep, CallDescFree, CallFree, Go
    <3>3. CASE CallStop(t)
      BY <3>3 DEF CallStop, Polled
    <3> QED
      BY <3>1, <3>2, <3>3
  <2>2. notified'[t] => notified[t]
    BY DEF CallRequest, CallInstall, CallPrep, CallStop, CallDescFree, CallFree
  <2> QED
    BY <2>1, <2>2 DEF EndIsAwaited
<1>3. \A u \in Threads \ {t} : UNCHANGED <<handle[u], phase[u], notified[u]>>
  <2>1. CASE CallRequest(t) \/ CallInstall(t) \/ CallPrep(t)
    BY <2>1 DEF CallRequest, RequestBegin, RequestSlot, RequestBusy, CallInstall,
       InstallCallback, InstallParam, CallPrep, PrepMemcpy, PrepDevice, PrepSingle,
       PrepCyclic, Go, vars, clientVars
  <2>2. CASE CallStop(t) \/ CallDescFree(t) \/ CallFree(t)
    BY <2>2 DEF CallStop, Stop, CallDescFree, DescFree, DescFreeUnhook, CallFree,
       ChanFree, Go, clientVars
  <2> QED
    BY <2>1, <2>2
<1>4. \A u \in Threads : notified[u] => phase[u] = "busy"
  BY DEF EndIsAwaited
<1> QED
  BY <1>1, <1>2, <1>3, <1>4, EndsUntouched

\* hal_dma_start begins a transfer of which nothing has ended yet.
LEMMA StartKeepsEnds ==
  ASSUME Kinds \subseteq {"single"}, ClientInv, MaskedByType("single"), EndIsAwaited,
         NEW t \in Threads, CallStart(t)
  PROVE  EndIsAwaited'
<1> USE DEF ClientInv, ClientTypeOK, TypeOK
<1>1. PICK c \in Chans : /\ Start(t, c) /\ Go(t, "ready", "busy")
                         /\ raised' = [raised EXCEPT ![c] = {}] /\ UNCHANGED notified
  BY DEF CallStart
<1>2. /\ handle[t] = c /\ phase[t] = "ready" /\ phase'[t] = "busy"
      /\ \A u \in Threads \ {t} : phase'[u] = phase[u] /\ handle[u] # c
      /\ UNCHANGED <<handle, isr, irqStat, notified>>
  BY <1>1, OthersChannel, NullAssumption DEF Start, Holds, Go, clientVars, Chans
<1>3. /\ irqStat' = irqStat
      /\ \A d \in Chans \ {c} : UNCHANGED <<running[d], raised[d], irqType[d]>>
  BY <1>1 DEF Start
<1>4. "QUEUE" \notin irqStat[c] /\ ~ InSnapshot(c) /\ ~ notified[t]
  BY <1>2, NothingPending DEF EndIsAwaited
<1>5. \A d \in Chans : InSnapshot(d)' <=> InSnapshot(d)
  BY <1>2 DEF InSnapshot
<1>6. \A d \in Chans : ("QUEUE" \in irqStat[d] \/ InSnapshot(d))' =>
        /\ ~ running'[d] /\ "QUEUE" \in raised'[d]
        /\ \E u \in Threads : handle'[u] = d /\ phase'[u] = "busy" /\ ~ notified'[u]
  BY <1>2, <1>3, <1>4, <1>5 DEF EndIsAwaited
<1>7. \A u \in Threads :
        /\ notified'[u] => phase'[u] = "busy"
        /\ notified'[u] \/ phase'[u] = "told" => ~ running'[handle'[u]]
  BY <1>2, <1>3, <1>4 DEF EndIsAwaited, PhaseHeld
<1>8. isr.pc = "call" => isr.i \in Chans \ {c}
  BY <1>4, CalledIsBusy
<1>9. isr'.pc = "call" =>
        /\ irqType'[isr'.i] = "QUEUE" /\ "QUEUE" \in isr'.snap[isr'.i]
        /\ isr'.data # NULL => handle'[isr'.data] = isr'.i
  BY <1>2, <1>3, <1>8 DEF EndIsAwaited
<1> QED
  BY <1>2, <1>5, <1>6, <1>7, <1>9 DEF EndIsAwaited

\* The wait takes the token of an end that the handler is done with.
LEMMA WaitKeepsEnds ==
  ASSUME ClientInv, EndIsAwaited, NEW t \in Threads, CallWait(t)
  PROVE  EndIsAwaited'
<1> USE DEF ClientInv, ClientTypeOK, TypeOK
<1>1. /\ notified[t] /\ notified'[t] = FALSE /\ phase[t] = "busy" /\ phase'[t] = "told"
      /\ \A u \in Threads \ {t} : UNCHANGED <<notified[u], phase[u]>>
      /\ UNCHANGED <<handle, isr, irqStat, irqType, running, raised>>
  BY DEF CallWait, Go, vars, chanVars, hwVars, clientVars
<1>2. \A d \in Chans : InSnapshot(d)' <=> InSnapshot(d)
  BY <1>1 DEF InSnapshot
<1>3. \A d \in Chans : ("QUEUE" \in irqStat[d] \/ InSnapshot(d))' =>
        /\ ~ running'[d] /\ "QUEUE" \in raised'[d]
        /\ \E u \in Threads : handle'[u] = d /\ phase'[u] = "busy" /\ ~ notified'[u]
  BY <1>1, <1>2 DEF EndIsAwaited
<1> QED
  BY <1>1, <1>2, <1>3 DEF EndIsAwaited

\* The end of a queue finds its holder waiting, and not yet told.
LEMMA HwKeepsEnds ==
  ASSUME ClientInv, EndIsAwaited, NEW c \in Chans, HwStep(c)
  PROVE  EndIsAwaited'
<1> USE DEF ClientInv, ClientTypeOK, TypeOK
<1>1. UNCHANGED <<isr, handle, phase, notified, irqType>>
  BY DEF HwStep, HwPackage, HwQueue, chanVars, clientVars
<1>2. \A d \in Chans : InSnapshot(d)' <=> InSnapshot(d)
  BY <1>1 DEF InSnapshot
<1>3. PICK t \in Threads : handle[t] = c /\ phase[t] = "busy" /\ ~ notified[t]
  BY DEF HwStep, HwPackage, HwQueue, RunsForHolder, EndIsAwaited
<1>4. /\ \A d \in Chans \ {c} : UNCHANGED <<irqStat[d], running[d], raised[d]>>
      /\ running'[c] => running[c]
      /\ "QUEUE" \in irqStat'[c] => ~ running'[c] /\ "QUEUE" \in raised'[c]
      /\ running[c]
  BY DEF HwStep, HwPackage, HwQueue, HwHalts, EndIsAwaited, Irqs
<1>5. ~ InSnapshot(c)
  BY <1>4 DEF EndIsAwaited
<1>6. \A d \in Chans : ("QUEUE" \in irqStat[d] \/ InSnapshot(d))' =>
        /\ ~ running'[d] /\ "QUEUE" \in raised'[d]
        /\ \E u \in Threads : handle'[u] = d /\ phase'[u] = "busy" /\ ~ notified'[u]
  BY <1>1, <1>2, <1>3, <1>4, <1>5 DEF EndIsAwaited
<1>7. \A u \in Threads :
        /\ notified'[u] => phase'[u] = "busy"
        /\ notified'[u] \/ phase'[u] = "told" => ~ running'[handle'[u]]
  BY <1>1, <1>4 DEF EndIsAwaited, PhaseHeld
<1> QED
  BY <1>1, <1>2, <1>4, <1>5, <1>6, <1>7 DEF EndIsAwaited

\* The handler moves an end from the status register to its snapshot, and
\* from there to the semaphore of the one client that waits for it.
LEMMA IsrKeepsEnds ==
  ASSUME ClientInv, MaskedByType("single"), EndIsAwaited, IsrStep
  PROVE  EndIsAwaited'
<1> USE DEF ClientInv, ClientTypeOK, TypeOK
<1>1. UNCHANGED <<running, raised, handle, phase, irqType>>
  BY DEF IsrStep, Isr, IrqRead, IrqClear, IrqScan, IrqCall, IrqReturn, chanVars, hwVars,
     clientVars
<1>2. CASE IrqCall
  <2>1. isr.pc = "call" /\ irqStat' = irqStat
    BY <1>2 DEF IrqCall, hwVars
  <2>2. /\ isr.i \in Chans /\ InSnapshot(isr.i)
        /\ isr.data # NULL =>
             isr.data \in Threads /\ phase[isr.data] = "busy" /\ handle[isr.data] = isr.i
    BY <2>1, CalledIsBusy DEF EndIsAwaited
  <2>3. ~ running[isr.i] /\ "QUEUE" \notin irqStat[isr.i]
    BY <2>1, <2>2 DEF EndIsAwaited
  <2>4. \A u \in Threads : notified'[u] # notified[u] => u = isr.data /\ isr.data # NULL
    BY <1>2, <2>1 DEF IsrStep
  <2>5. \A d \in Chans : InSnapshot(d)' => d # isr.i /\ InSnapshot(d)
    BY <1>2, <2>1, <2>2, ChanAssumption DEF IrqCall, InSnapshot, Chans, IsrType
  <2>6. isr'.pc = "scan"
    BY <1>2 DEF IrqCall, IsrType
  <2>7. \A d \in Chans : ("QUEUE" \in irqStat[d] \/ InSnapshot(d))' =>
          /\ ~ running'[d] /\ "QUEUE" \in raised'[d]
          /\ \E u \in Threads : handle'[u] = d /\ phase'[u] = "busy" /\ ~ notified'[u]
    BY <1>1, <2>1, <2>2, <2>3, <2>4, <2>5 DEF EndIsAwaited
  <2>8. \A u \in Threads :
          /\ notified'[u] => phase'[u] = "busy"
          /\ notified'[u] \/ phase'[u] = "told" => ~ running'[handle'[u]]
    BY <1>1, <2>2, <2>3, <2>4 DEF EndIsAwaited
  <2> QED
    BY <2>1, <2>5, <2>6, <2>7, <2>8 DEF EndIsAwaited
<1>3. CASE ~ IrqCall
  <2>1. notified' = notified
    BY <1>3 DEF IsrStep, Isr, IrqRead, IrqClear, IrqScan, IrqReturn
  <2>2. ASSUME IrqScan
        PROVE  /\ isr.pc = "scan" /\ isr'.pc \in {"scan", "call", "fault"}
               /\ isr'.snap = isr.snap /\ irqStat' = irqStat
               /\ \A d \in Chans : isr'.i <= d => isr.i <= d
    <3>1. isr \in IsrType /\ isr.i \in Int
      BY ChanAssumption DEF IsrType
    <3>2. isr.pc = "scan" /\ irqStat' = irqStat
      BY <2>2 DEF IrqScan, hwVars
    <3>3. \/ isr' = [isr EXCEPT !.i = @ + 1]
          \/ isr' = [isr EXCEPT !.pc = "fault"]
          \/ isr' = [isr EXCEPT !.pc = "call", !.cb = callback[isr.i], !.data = param[isr.i]]
      BY <2>2 DEF IrqScan
    <3>4. isr'.snap = isr.snap /\ isr'.pc \in {"scan", "call", "fault"}
          /\ isr'.i \in {isr.i, isr.i + 1}
      BY <3>1, <3>2, <3>3 DEF IsrType
    <3> QED
      BY <3>1, <3>2, <3>4, ChanAssumption DEF Chans
  <2>3. \A d \in Chans : ("QUEUE" \in irqStat[d] \/ InSnapshot(d))' =>
          "QUEUE" \in irqStat[d] \/ InSnapshot(d)
    <3>1. CASE IrqRead
      BY <3>1 DEF IrqRead, InSnapshot, IsrType, hwVars
    <3>2. CASE IrqClear
      BY <3>2 DEF IrqClear, InSnapshot, IsrType
    <3>3. CASE IrqScan
      BY <2>2, <3>3 DEF InSnapshot
    <3>4. CASE IrqReturn
      BY <3>4 DEF IrqReturn, InSnapshot, Idle, hwVars
    <3> QED
      BY <1>3, <3>1, <3>2, <3>3, <3>4 DEF IsrStep, Isr
  <2>4. \A d \in Chans : isr'.pc # "clear" /\ InSnapshot(d)' => "QUEUE" \notin irqStat'[d]
    <3>1. CASE IrqRead
      BY <3>1 DEF IrqRead, IsrType
    <3>2. CASE IrqClear
      BY <3>2 DEF IrqClear, InSnapshot, IsrType, Acked
    <3>3. CASE IrqScan
      BY <2>2, <3>3 DEF InSnapshot, EndIsAwaited
    <3>4. CASE IrqReturn
      BY <3>4 DEF IrqReturn, InSnapshot, Idle
    <3> QED
      BY <1>3, <3>1, <3>2, <3>3, <3>4 DEF IsrStep, Isr
  <2>5. isr'.pc = "call" =>
          /\ irqType'[isr'.i] = "QUEUE" /\ "QUEUE" \in isr'.snap[isr'.i]
          /\ isr'.data # NULL => handle'[isr'.data] = isr'.i
    <3>1. IrqRead \/ IrqClear => isr'.pc # "call"
      BY DEF IrqRead, IrqClear, IsrType
    <3>2. IrqReturn => isr'.pc # "call"
      BY DEF IrqReturn, Idle
    <3>3. SUFFICES ASSUME isr'.pc = "call", IrqScan
                   PROVE  /\ irqType[isr'.i] = "QUEUE" /\ "QUEUE" \in isr'.snap[isr'.i]
                          /\ isr'.data # NULL => handle[isr'.data] = isr'.i
      BY <1>1, <1>3, <3>1, <3>2 DEF IsrStep, Isr
    <3>4. /\ isr.i \in Chans /\ irqType[isr.i] \in isr.snap[isr.i]
          /\ isr'.i = isr.i /\ isr'.snap = isr.snap /\ isr'.data = param[isr.i]
      BY <3>3 DEF IrqScan, Mine, IsrType
    <3>5. irqType[isr.i] = "QUEUE"
      BY <3>4 DEF MaskedByType, IrqOfKind, IsrType, Irqs
    <3>6. param[isr.i] # NULL => handle[param[isr.i]] = isr.i
      BY <3>4 DEF IInv, CallbackHeld
    <3> QED
      BY <3>4, <3>5, <3>6
  <2> QED
    BY <1>1, <2>1, <2>3, <2>4, <2>5 DEF EndIsAwaited
<1> QED
  BY <1>2, <1>3

\* WaitInv is an inductive invariant of clients that do single transfers and
\* stop only once they were told.
THEOREM WaitInductive ==
  ASSUME Kinds \subseteq {"single"}, Waits = TRUE PROVE ClientSpec => []WaitInv
<1>1. ClientInit => NoLeak /\ ListForTransfer /\ MaskedByType("single")
  BY MaskInit DEF ClientInit, Init, NoLeak, ListForTransfer
<1>2. ClientInit => EndIsAwaited
  BY DEF ClientInit, Init, EndIsAwaited, InSnapshot, Idle
<1>3. ASSUME ClientInv, MaskedByType("single"), EndIsAwaited, [ClientNext]_allVars
      PROVE  EndIsAwaited'
  <2>1. CASE UNCHANGED allVars
    <3>1. \A c \in Chans : InSnapshot(c)' <=> InSnapshot(c)
      BY <2>1 DEF InSnapshot, allVars, vars
    <3> QED
      BY <1>3, <2>1, <3>1 DEF EndIsAwaited, allVars, vars, ghosts, chanVars, hwVars, clientVars
  <2> QED
    BY <1>3, <2>1, CallsKeepEnds, StartKeepsEnds, WaitKeepsEnds, HwKeepsEnds, IsrKeepsEnds
    DEF ClientNext, Client
<1>4. ClientInv /\ MaskedByType("single") /\ [ClientNext]_allVars => MaskedByType("single")'
  BY MaskStep
<1>5. ClientInv /\ NoLeak /\ ListForTransfer /\ [ClientNext]_allVars
      => NoLeak' /\ ListForTransfer'
  BY LeakStep
<1> QED
  BY <1>1, <1>2, <1>3, <1>4, <1>5, ClientInductive, PTL DEF ClientSpec, WaitInv

\* A callback is run only for the holder, while it waits for the transfer it
\* started last, and only because that transfer ended.
THEOREM CallbacksEarned ==
  ASSUME Kinds \subseteq {"single"}, Waits = TRUE PROVE ClientSpec => []CallbackEarned
<1>1. WaitInv => CallbackEarned
  <2> SUFFICES ASSUME WaitInv, isr.pc = "call", isr.data # NULL
               PROVE  /\ handle[isr.data] = isr.i /\ phase[isr.data] = "busy"
                      /\ irqType[isr.i] \in raised[isr.i]
    BY DEF CallbackEarned
  <2> QED
    BY CalledIsBusy DEF WaitInv, EndIsAwaited
<1> QED
  BY <1>1, WaitInductive, PTL

=============================================================================
