--------------------------- MODULE IspStatProofs ---------------------------
(***************************************************************************)
(* Theorems about IspStat, for any number of buffers from three on.        *)
(***************************************************************************)
EXTENDS IspStat, WellFoundedInduction, TLAPS

-----------------------------------------------------------------------------
(* Choosing a buffer.                                                      *)

\* A set of numbers that is not empty has a least one.
LEMMA LeastExists ==
  ASSUME NEW S \in SUBSET Nat, S # {}
  PROVE  \E x \in S : \A y \in S : x <= y
<1> DEFINE R == OpToRel(<, Nat)
<1>1. IsWellFoundedOn(R, Nat)
  BY NatLessThanWellFounded
<1>2. \A x, y \in Nat : y < x => <<y, x>> \in R
  BY DEF OpToRel
<1> HIDE DEF R
<1>3. PICK x \in S : \A y \in S : <<y, x>> \notin R
  BY <1>1, WFMin
<1>4. ASSUME NEW y \in S  PROVE x <= y
  <2>1. x \in Nat /\ y \in Nat
    OBVIOUS
  <2>2. ~ (y < x)
    BY <1>2, <1>3, <2>1
  <2> QED
    BY <2>1, <2>2
<1> QED
  BY <1>4

LEMMA MinIsIn ==
  ASSUME NEW S \in SUBSET Nat, S # {}
  PROVE  Min(S) \in S
BY LeastExists DEF Min

\* What is kept of the buffers below n, given what was kept before.
Keeps(ready, frame, n, kept) ==
  IF n - 1 \in ready /\ (kept = NULL \/ Before(frame[n - 1], frame[kept]))
    THEN n - 1 ELSE kept

Run(f, ready, frame, m) ==
  f[0] = NULL /\ \A n \in 1 .. m : f[n] = Keeps(ready, frame, n, f[n - 1])

\* The loop runs for any number of buffers.
LEMMA LoopRuns ==
  ASSUME NEW ready, NEW frame, NEW m \in Nat
  PROVE  \E f : f = [n \in 0 .. m |-> f[n]] /\ Run(f, ready, frame, m)
<1> DEFINE Runs(k) == \E f : f = [n \in 0 .. k |-> f[n]] /\ Run(f, ready, frame, k)
           Fails == {k \in Nat : ~ Runs(k)}
<1>1. Runs(0)
  <2> DEFINE g == [n \in 0 .. 0 |-> NULL]
  <2>1. g = [n \in 0 .. 0 |-> g[n]] /\ Run(g, ready, frame, 0)
    BY DEF Run
  <2> QED
    BY <2>1
<1>2. ASSUME NEW k \in Nat, Runs(k)  PROVE Runs(k + 1)
  <2>1. PICK f : f = [n \in 0 .. k |-> f[n]] /\ Run(f, ready, frame, k)
    BY <1>2
  <2> DEFINE g == [n \in 0 .. k + 1 |->
                     IF n = k + 1 THEN Keeps(ready, frame, k + 1, f[k]) ELSE f[n]]
  <2>2. g = [n \in 0 .. k + 1 |-> g[n]]
    OBVIOUS
  <2>3. \A n \in 0 .. k : g[n] = f[n]
    OBVIOUS
  <2>4. g[k + 1] = Keeps(ready, frame, k + 1, f[k])
    OBVIOUS
  <2> HIDE DEF g
  <2>5. Run(g, ready, frame, k + 1)
    <3>1. g[0] = NULL
      BY <2>1, <2>3 DEF Run
    <3>2. ASSUME NEW n \in 1 .. k + 1  PROVE g[n] = Keeps(ready, frame, n, g[n - 1])
      <4>1. CASE n = k + 1
        BY <2>3, <2>4, <4>1
      <4>2. CASE n # k + 1
        <5>1. n \in 1 .. k /\ n - 1 \in 0 .. k /\ n \in 0 .. k
          BY <4>2
        <5> QED
          BY <2>1, <2>3, <5>1 DEF Run
      <4> QED
        BY <4>1, <4>2
    <3> QED
      BY <3>1, <3>2 DEF Run
  <2> QED
    BY <2>2, <2>5
<1> HIDE DEF Runs
<1>3. Fails = {}
  <2> SUFFICES ASSUME Fails # {}  PROVE FALSE
    OBVIOUS
  <2>1. PICK k \in Fails : \A j \in Fails : k <= j
    BY LeastExists
  <2>2. k \in Nat \ {0} /\ ~ Runs(k)
    BY <1>1
  <2>3. k - 1 \in Nat /\ k - 1 \notin Fails
    BY <2>1, <2>2
  <2> QED
    BY <1>2, <2>2, <2>3
<1> QED
  BY <1>3 DEF Runs

LEMMA OldestIsRun ==
  ASSUME NEW ready, NEW frame
  PROVE  \E f : Run(f, ready, frame, STAT_MAX_BUFS) /\ Oldest(ready, frame) = f[STAT_MAX_BUFS]
<1> DEFINE Body(f) == [n \in 0 .. STAT_MAX_BUFS |->
                         IF n = 0 THEN NULL
                         ELSE IF /\ n - 1 \in ready
                                 /\ f[n - 1] = NULL \/ Before(frame[n - 1], frame[f[n - 1]])
                           THEN n - 1 ELSE f[n - 1]]
           found == CHOOSE f : f = Body(f)
<1>0. STAT_MAX_BUFS \in Nat \ {0}
  BY BufsAssumption
<1>1. PICK g : /\ g = [n \in 0 .. STAT_MAX_BUFS |-> g[n]]
               /\ Run(g, ready, frame, STAT_MAX_BUFS)
  BY <1>0, LoopRuns
<1>2. g = Body(g)
  <2>1. ASSUME NEW n \in 0 .. STAT_MAX_BUFS  PROVE g[n] = Body(g)[n]
    <3>1. Body(g)[n] = IF n = 0 THEN NULL ELSE Keeps(ready, frame, n, g[n - 1])
      BY DEF Keeps
    <3> HIDE DEF Body, found
    <3>2. CASE n = 0
      BY <1>1, <3>1, <3>2 DEF Run
    <3>3. CASE n # 0
      <4>1. n \in 1 .. STAT_MAX_BUFS
        BY <1>0, <3>3
      <4> QED
        BY <1>1, <3>1, <3>3, <4>1 DEF Run
    <3> QED
      BY <3>2, <3>3
  <2> HIDE DEF Body
  <2>2. Body(g) = [n \in 0 .. STAT_MAX_BUFS |-> Body(g)[n]]
    BY DEF Body
  <2> QED
    BY <1>1, <2>1, <2>2
<1>3. found = Body(found)
  <2> HIDE DEF Body
  <2> QED
    BY <1>2
<1>4. Oldest(ready, frame) = found[STAT_MAX_BUFS]
  BY DEF Oldest
<1> HIDE DEF found
<1>5. Run(found, ready, frame, STAT_MAX_BUFS)
  BY <1>0, <1>3 DEF Run, Keeps
<1> QED
  BY <1>4, <1>5

\* A buffer is chosen out of those that are ready, if there is one.
LEMMA OldestFound ==
  ASSUME NEW ready \in SUBSET Bufs, NEW frame
  PROVE  /\ Oldest(ready, frame) \in ready \cup {NULL}
         /\ ready # {} => Oldest(ready, frame) # NULL
<1>0. STAT_MAX_BUFS \in Nat \ {0} /\ \A b \in ready : b \in Nat /\ b < STAT_MAX_BUFS
  BY BufsAssumption DEF Bufs
<1>1. PICK f : Run(f, ready, frame, STAT_MAX_BUFS) /\ Oldest(ready, frame) = f[STAT_MAX_BUFS]
  BY OldestIsRun
<1> DEFINE Right(n) == /\ f[n] \in ready \cup {NULL}
                       /\ (\E b \in ready : b < n) => f[n] # NULL
           Wrong == {n \in 0 .. STAT_MAX_BUFS : ~ Right(n)}
<1>2. Right(0)
  BY <1>0, <1>1 DEF Run
<1>3. ASSUME NEW n \in 1 .. STAT_MAX_BUFS, Right(n - 1)  PROVE Right(n)
  <2>1. f[n] = Keeps(ready, frame, n, f[n - 1]) /\ n \in Nat
    BY <1>0, <1>1 DEF Run
  <2>2. CASE n - 1 \in ready
    BY <1>0, <1>3, <2>1, <2>2, NullAssumption DEF Keeps
  <2>3. CASE n - 1 \notin ready
    <3>1. \A b \in ready : b < n => b < n - 1
      BY <1>0, <2>1, <2>3
    <3> QED
      BY <1>3, <2>1, <2>3, <3>1 DEF Keeps
  <2> QED
    BY <2>2, <2>3
<1> HIDE DEF Right
<1>4. Wrong = {}
  <2> SUFFICES ASSUME Wrong # {}  PROVE FALSE
    OBVIOUS
  <2>1. Wrong \in SUBSET Nat
    BY <1>0
  <2>2. PICK n \in Wrong : \A k \in Wrong : n <= k
    BY <2>1, LeastExists
  <2>3. n \in 1 .. STAT_MAX_BUFS
    BY <1>0, <1>2
  <2>4. n - 1 \in 0 .. STAT_MAX_BUFS /\ n - 1 \notin Wrong
    BY <1>0, <2>2, <2>3
  <2> QED
    BY <1>3, <2>3, <2>4
<1>5. Right(STAT_MAX_BUFS)
  BY <1>0, <1>4
<1> QED
  BY <1>0, <1>1, <1>5 DEF Right

\* The handler gets a buffer nobody uses and no stage of the hardware has.
LEMMA ChosenToFill ==
  ASSUME TypeOK
  PROVE  LET c == isp_stat_buf_find_oldest_or_empty
         IN c # NULL => c \in Bufs /\ ~ InUse(c) /\ state[c] \in {"READY", "IDLE"}
<1> DEFINE ready == {b \in {d \in Bufs : ~ InUse(d)} : state[b] = "READY"}
<1>1. CASE Vacant = {}
  <2>1. isp_stat_buf_find_oldest_or_empty = Oldest(ready, bufFrame)
    BY <1>1 DEF isp_stat_buf_find_oldest_or_empty, OldestReady
  <2>2. ready \in SUBSET Bufs
    OBVIOUS
  <2>3. Oldest(ready, bufFrame) \in ready \cup {NULL}
    <3> HIDE DEF ready
    <3> QED
      BY <2>2, OldestFound
  <2> QED
    BY <2>1, <2>3
<1>2. CASE Vacant # {}
  <2>1. Vacant \in SUBSET Nat
    BY BufsAssumption DEF Vacant, Bufs
  <2>2. Min(Vacant) \in Vacant
    BY <1>2, <2>1, MinIsIn
  <2> QED
    BY <1>2, <2>2 DEF isp_stat_buf_find_oldest_or_empty, Vacant
<1> QED
  BY <1>1, <1>2

\* The worker gets one that is ready.
LEMMA ChosenToCopy ==
  ASSUME TypeOK
  PROVE  LET c == isp_stat_buf_find_oldest
         IN c # NULL => c \in Bufs /\ ~ InUse(c) /\ state[c] = "READY"
<1> DEFINE ready == {b \in {d \in Bufs : ~ InUse(d) /\ ~ empty[d]} : state[b] = "READY"}
<1>1. isp_stat_buf_find_oldest = Oldest(ready, bufFrame)
  BY DEF isp_stat_buf_find_oldest, OldestReady
<1>2. ready \in SUBSET Bufs
  OBVIOUS
<1>3. Oldest(ready, bufFrame) \in ready \cup {NULL}
  <2> HIDE DEF ready
  <2> QED
    BY <1>2, OldestFound
<1> QED
  BY <1>1, <1>3

-----------------------------------------------------------------------------
(* The stages.                                                             *)

\* Stages, holders and the handler's choice stay as they are.
LEMMA StagesStay ==
  ASSUME StageInv, UNCHANGED <<state, empty, active_buf, locked_buf>>,
         isr' = isr \/ (isr # "check" /\ isr' # "check"),
         wk' = wk \/ {wk, wk'} \subseteq {"idle", "get", "publish"}
  PROVE  LockedHeld' /\ ActiveHeld' /\ IdleIsEmpty' /\ OnePerStage'
<1> USE DEF StageInv, TypeOK
<1>1. LockedHeld'
  BY DEF LockedHeld
<1>2. ActiveHeld'
  BY DEF ActiveHeld, LoadSetPending
<1>3. IdleIsEmpty'
  BY DEF IdleIsEmpty
<1>4. OnePerStage'
  BY DEF OnePerStage
<1> QED
  BY <1>1, <1>2, <1>3, <1>4

LEMMA HwStages ==
  ASSUME StageInv, Hw
  PROVE  StageInv'
<1> USE DEF statVars, flagVars, history
<1>1. /\ UNCHANGED <<state, empty, active_buf, locked_buf, isr, wk>>
  BY DEF Hw, FrameStart, FrameEnd
<1>2. TypeOK'
  <2>1. CASE FrameStart
    <3>1. cur' \in Bufs /\ pd' \subseteq {"LOAD", "SAVE"} /\ para' \in BOOLEAN /\ inFrame' = TRUE
      <4>1. CASE para
        BY <2>1, <4>1 DEF StageInv, TypeOK, FrameStart
      <4>2. CASE ~ para
        BY <2>1, <4>2 DEF StageInv, TypeOK, FrameStart
      <4> QED
        BY <4>1, <4>2
    <3> QED
      BY <2>1, <3>1 DEF StageInv, TypeOK, FrameStart
  <2>2. CASE FrameEnd
    BY <2>2 DEF StageInv, TypeOK, FrameEnd
  <2> QED
    BY <2>1, <2>2 DEF Hw
<1> QED
  BY <1>1, <1>2, StagesStay DEF StageInv

LEMMA EnterStages ==
  ASSUME StageInv, IsrEnter
  PROVE  StageInv'
<1> USE DEF statVars, flagVars, hwVars, history
<1>1. TypeOK'
  BY DEF StageInv, TypeOK, IsrEnter
<1> QED
  BY <1>1, StagesStay DEF StageInv, IsrEnter

LEMMA LoadStages ==
  ASSUME StageInv, IsrLoad
  PROVE  StageInv'
<1>0. /\ isr = "load" /\ UNCHANGED <<state, empty, locked_buf, cur, para, inFrame, wk>>
      /\ pd' \subseteq {"LOAD", "SAVE"}
  BY DEF IsrLoad, StageInv, TypeOK
<1>1. CASE Wanted /\ ~ LoadSetPending /\ active_buf' # NULL
  <2>1. /\ active_buf' \in Bufs /\ ~ InUse(active_buf') /\ state[active_buf'] \in {"READY", "IDLE"}
    BY <1>1, ChosenToFill DEF IsrLoad, StageInv
  <2>2. isr' = "check" /\ reg' = active_buf' /\ saved' = [saved EXCEPT ![active_buf'] = FALSE]
    BY <1>1 DEF IsrLoad
  <2>3. TypeOK'
    BY <1>0, <2>1, <2>2 DEF StageInv, TypeOK
  <2>4. LockedHeld' /\ IdleIsEmpty'
    BY <1>0 DEF StageInv, LockedHeld, IdleIsEmpty
  <2>5. ActiveHeld'
    BY <1>0, <1>1, <2>1, <2>2 DEF ActiveHeld, LoadSetPending
  <2>6. OnePerStage'
    BY <1>0, <2>1 DEF StageInv, OnePerStage, InUse
  <2> QED
    BY <2>3, <2>4, <2>5, <2>6 DEF StageInv
<1>2. CASE Wanted /\ ~ LoadSetPending /\ active_buf' = NULL
  <2>1. isr' = "loaded" /\ UNCHANGED <<reg, saved>>
    BY <1>2 DEF IsrLoad
  <2>2. TypeOK'
    BY <1>0, <1>2, <2>1 DEF StageInv, TypeOK
  <2>3. LockedHeld' /\ IdleIsEmpty' /\ ActiveHeld' /\ OnePerStage'
    BY <1>0, <1>2, <2>1 DEF StageInv, LockedHeld, IdleIsEmpty, ActiveHeld, OnePerStage
  <2> QED
    BY <2>2, <2>3 DEF StageInv
<1>3. CASE ~ (Wanted /\ ~ LoadSetPending)
  <2>1. isr' = "loaded" /\ UNCHANGED <<active_buf, reg, saved>>
    BY <1>3 DEF IsrLoad
  <2>2. TypeOK'
    BY <1>0, <2>1 DEF StageInv, TypeOK
  <2> QED
    BY <1>0, <2>1, <2>2, StagesStay DEF StageInv
<1> QED
  BY <1>1, <1>2, <1>3

LEMMA CheckStages ==
  ASSUME StageInv, IsrCheck
  PROVE  StageInv'
<1>0. /\ isr = "check" /\ isr' = "loaded" /\ UNCHANGED <<empty, locked_buf, hwVars, wk, saved>>
  BY DEF IsrCheck, history
<1>1. /\ active_buf \in Bufs /\ state[active_buf] \in {"READY", "IDLE"} /\ ~ LoadSetPending
      /\ active_buf # locked_buf /\ NULL \notin Bufs
  BY <1>0, NullAssumption, BufsAssumption DEF StageInv, TypeOK, ActiveHeld, OnePerStage, Bufs
<1>2. CASE "LOAD" \in pd
  <2>1. active_buf' = NULL /\ state' = state
    BY <1>2 DEF IsrCheck
  <2>2. TypeOK'
    BY <1>0, <2>1 DEF StageInv, TypeOK, hwVars
  <2>3. LockedHeld' /\ IdleIsEmpty' /\ ActiveHeld' /\ OnePerStage'
    BY <1>0, <2>1 DEF StageInv, LockedHeld, IdleIsEmpty, ActiveHeld, OnePerStage
  <2> QED
    BY <2>2, <2>3 DEF StageInv
<1>3. CASE "LOAD" \notin pd
  <2>1. active_buf' = active_buf /\ state' = [state EXCEPT ![active_buf] = "LOAD_SET"]
    BY <1>3 DEF IsrCheck
  <2>2. state'[active_buf] = "LOAD_SET" /\ \A b \in Bufs \ {active_buf} : state'[b] = state[b]
    BY <1>1, <2>1 DEF StageInv, TypeOK
  <2>3. TypeOK'
    BY <1>0, <2>1 DEF StageInv, TypeOK, hwVars, Stages
  <2>4. locked_buf # NULL => locked_buf \in Bufs /\ state'[locked_buf] = state[locked_buf]
    BY <1>1, <2>2 DEF StageInv, TypeOK
  <2>5. LockedHeld'
    BY <1>0, <2>4 DEF StageInv, LockedHeld
  <2>6. IdleIsEmpty'
    BY <1>0, <2>2 DEF StageInv, IdleIsEmpty
  <2>7. ActiveHeld'
    BY <1>0, <2>1, <2>2 DEF ActiveHeld
  <2>8. OnePerStage'
    BY <1>0, <1>1, <2>1, <2>2, <2>4 DEF StageInv, OnePerStage, LoadSetPending
  <2> QED
    BY <2>3, <2>5, <2>6, <2>7, <2>8 DEF StageInv
<1> QED
  BY <1>2, <1>3

LEMMA LoadedStages ==
  ASSUME StageInv, IsrLoaded
  PROVE  StageInv'
<1>1. UNCHANGED <<state, empty, active_buf, locked_buf, reg, cur, pd, inFrame, wk, saved>>
      /\ para' = TRUE /\ isr = "loaded" /\ isr' = "save"
  BY DEF IsrLoaded, statVars, history
<1>2. TypeOK'
  BY <1>1 DEF StageInv, TypeOK
<1> QED
  BY <1>1, <1>2, StagesStay DEF StageInv

LEMMA SaveStages ==
  ASSUME StageInv, IsrSave
  PROVE  StageInv'
<1>0. /\ isr = "save" /\ isr' = "idle" /\ UNCHANGED <<locked_buf, reg, cur, para, inFrame, wk, saved>>
      /\ pd' \subseteq pd
  BY DEF IsrSave, statVars, history
<1>1. CASE UNCHANGED <<state, empty, active_buf>>
  <2>1. TypeOK'
    BY <1>0, <1>1 DEF StageInv, TypeOK
  <2> QED
    BY <1>0, <1>1, <2>1, StagesStay DEF StageInv
<1>2. CASE StatIsr
  <2>1. /\ state' = [b \in Bufs |-> Advanced(state[b])]
        /\ empty' = [b \in Bufs |-> empty[b] /\ ~ Finished(state[b])]
        /\ active_buf' = NULL
    BY <1>2 DEF StatIsr
  <2>2. \A b \in Bufs : /\ state[b] \in Stages
                        /\ state'[b] = CASE state[b] = "SAVE_SET" -> "READY"
                                         [] state[b] = "LOAD_SET" -> "SAVE_SET"
                                         [] OTHER -> state[b]
                        /\ state[b] # "SAVE_SET" /\ empty[b] => empty'[b]
    BY <2>1 DEF StageInv, TypeOK, Advanced, Finished
  <2>3. TypeOK'
    <3>1. state' \in [Bufs -> Stages]
      BY <2>1, <2>2 DEF Stages
    <3>2. empty' \in [Bufs -> BOOLEAN]
      BY <2>1
    <3> QED
      BY <1>0, <2>1, <3>1, <3>2 DEF StageInv, TypeOK
  <2>4. locked_buf # NULL => locked_buf \in Bufs /\ state[locked_buf] \in {"READY", "IDLE"}
    BY DEF StageInv, TypeOK, OnePerStage
  <2>5. LockedHeld'
    BY <1>0, <2>2, <2>4 DEF StageInv, LockedHeld
  <2>6. IdleIsEmpty'
    BY <1>0, <2>2 DEF StageInv, IdleIsEmpty, Stages
  <2>7. ActiveHeld'
    BY <1>0, <2>1 DEF ActiveHeld
  <2>8. OnePerStage'
    BY <1>0, <2>1, <2>2, <2>4 DEF StageInv, OnePerStage, Stages
  <2> QED
    BY <2>3, <2>5, <2>6, <2>7, <2>8 DEF StageInv
<1> QED
  BY <1>1, <1>2 DEF IsrSave, statVars

LEMMA WorkerStages ==
  ASSUME StageInv, Worker
  PROVE  StageInv'
<1> USE DEF statVars, flagVars, hwVars, history, WorkAt
<1>0. NULL \notin Bufs
  BY NullAssumption, BufsAssumption DEF Bufs
<1>1. CASE WorkTake
  <2>1. TypeOK'
    BY <1>1 DEF StageInv, TypeOK, WorkTake
  <2> QED
    BY <1>1, <2>1, StagesStay DEF StageInv, WorkTake
<1>2. CASE WorkGet
  <2>1. CASE isp_stat_buf_find_oldest = NULL
    <3>1. TypeOK'
      BY <1>2, <2>1 DEF StageInv, TypeOK, WorkGet
    <3> QED
      BY <1>2, <2>1, <3>1, StagesStay DEF StageInv, WorkGet
  <2>2. CASE isp_stat_buf_find_oldest # NULL
    <3>1. /\ wk' = "copy" /\ locked_buf' = isp_stat_buf_find_oldest /\ wk = "get" /\ isr = "idle"
          /\ UNCHANGED <<state, empty, active_buf, hwVars, isr, saved>>
      BY <1>2, <2>2 DEF WorkGet
    <3>2. locked_buf' \in Bufs /\ ~ InUse(locked_buf') /\ state[locked_buf'] = "READY"
      BY <2>2, <3>1, ChosenToCopy DEF StageInv
    <3> HIDE DEF statVars, flagVars, history, WorkAt
    <3>3. TypeOK'
      BY <3>1, <3>2 DEF StageInv, TypeOK
    <3>4. LockedHeld'
      BY <1>0, <3>1, <3>2 DEF LockedHeld
    <3>5. IdleIsEmpty'
      BY <3>1 DEF StageInv, IdleIsEmpty
    <3>6. ActiveHeld'
      BY <3>1 DEF StageInv, ActiveHeld, LoadSetPending
    <3>7. OnePerStage'
      BY <3>1, <3>2 DEF StageInv, OnePerStage, InUse
    <3> QED
      BY <3>3, <3>4, <3>5, <3>6, <3>7 DEF StageInv
  <2> QED
    BY <2>1, <2>2
<1>3. CASE WorkCopied \/ WorkRelease
  <2>1. /\ wk \in {"copy", "release"} /\ wk' \in {"empty", "publish"}
        /\ wk = "copy" <=> wk' = "empty"
        /\ isr = "idle" /\ UNCHANGED <<empty, active_buf, hwVars, isr, saved>>
        /\ state' = [state EXCEPT ![locked_buf] = "IDLE"]
        /\ locked_buf' = IF wk = "copy" THEN locked_buf ELSE NULL
    BY <1>3 DEF WorkCopied, WorkRelease
  <2>2. locked_buf \in Bufs /\ state[locked_buf] \in {"READY", "IDLE"} /\ active_buf # locked_buf
    BY <1>0, <2>1 DEF StageInv, TypeOK, LockedHeld, OnePerStage
  <2>3. state'[locked_buf] = "IDLE" /\ \A b \in Bufs \ {locked_buf} : state'[b] = state[b]
    BY <2>1, <2>2 DEF StageInv, TypeOK
  <2> HIDE DEF statVars, flagVars, history, WorkAt
  <2>4. TypeOK'
    BY <2>1 DEF StageInv, TypeOK, Stages
  <2>5. LockedHeld'
    BY <1>0, <2>1, <2>2, <2>3 DEF LockedHeld
  <2>6. IdleIsEmpty'
    BY <2>1, <2>2, <2>3 DEF StageInv, IdleIsEmpty, LockedHeld
  <2>7. ActiveHeld'
    <3>1. active_buf # NULL => active_buf \in Bufs /\ state'[active_buf] = state[active_buf]
      BY <2>2, <2>3 DEF StageInv, TypeOK
    <3> QED
      BY <2>1, <3>1 DEF StageInv, ActiveHeld
  <2>8. OnePerStage'
    BY <1>0, <2>1, <2>2, <2>3 DEF StageInv, OnePerStage
  <2> QED
    BY <2>4, <2>5, <2>6, <2>7, <2>8 DEF StageInv
<1>4. CASE WorkEmpty
  <2>1. /\ wk = "empty" /\ wk' = "release" /\ empty' = [empty EXCEPT ![locked_buf] = TRUE]
        /\ isr = "idle" /\ UNCHANGED <<state, active_buf, locked_buf, hwVars, isr, saved>>
    BY <1>4 DEF WorkEmpty
  <2>2. locked_buf \in Bufs
    BY <2>1 DEF StageInv, TypeOK, LockedHeld
  <2>3. empty'[locked_buf] = TRUE /\ \A b \in Bufs \ {locked_buf} : empty'[b] = empty[b]
    BY <2>1, <2>2 DEF StageInv, TypeOK
  <2>4. TypeOK'
    BY <2>1 DEF StageInv, TypeOK
  <2>5. LockedHeld' /\ IdleIsEmpty'
    BY <2>1, <2>3 DEF StageInv, LockedHeld, IdleIsEmpty
  <2>6. ActiveHeld' /\ OnePerStage'
    BY <2>1 DEF StageInv, ActiveHeld, OnePerStage
  <2> QED
    BY <2>4, <2>5, <2>6 DEF StageInv
<1>5. CASE WorkPublish
  <2>1. TypeOK'
    BY <1>5 DEF StageInv, TypeOK, WorkPublish
  <2> QED
    BY <1>5, <2>1, StagesStay DEF StageInv, WorkPublish
<1> QED
  BY <1>1, <1>2, <1>3, <1>4, <1>5 DEF Worker

\* Every step keeps the stages of the buffers, and who holds them.
THEOREM StagesKept == Spec => []StageInv
<1>1. Init => StageInv
  <2> SUFFICES ASSUME Init  PROVE StageInv
    OBVIOUS
  <2>1. 0 \in Bufs /\ NULL \notin Bufs
    BY BufsAssumption, NullAssumption DEF Bufs
  <2>2. TypeOK
    BY <2>1 DEF Init, TypeOK, Stages
  <2>3. LockedHeld /\ ActiveHeld /\ IdleIsEmpty /\ OnePerStage
    BY DEF Init, LockedHeld, ActiveHeld, IdleIsEmpty, OnePerStage
  <2> QED
    BY <2>2, <2>3 DEF StageInv
<1>2. StageInv /\ [Next]_vars => StageInv'
  <2> SUFFICES ASSUME StageInv, [Next]_vars  PROVE StageInv'
    OBVIOUS
  <2>1. CASE Hw
    BY <2>1, HwStages
  <2>2. CASE Isr
    BY <2>2, EnterStages, LoadStages, CheckStages, LoadedStages, SaveStages DEF Isr
  <2>3. CASE Worker
    BY <2>3, WorkerStages
  <2>4. CASE UNCHANGED vars
    <3>1. UNCHANGED <<state, empty, active_buf, locked_buf, saved, reg, cur, para,
                      pd, inFrame, isr, wk>>
      BY <2>4 DEF vars, statVars, hwVars, history
    <3>2. TypeOK'
      BY <3>1 DEF StageInv, TypeOK
    <3> QED
      BY <3>1, <3>2, StagesStay DEF StageInv
  <2> QED
    BY <2>1, <2>2, <2>3, <2>4 DEF Next
<1> QED
  BY <1>1, <1>2, PTL DEF Spec

\* One buffer at a time waits to be loaded and one to be saved to, and the
\* buffer the worker holds is neither, although it changes fields without
\* the lock.
THEOREM OneEach == Spec => []OnePerStage
<1>1. StageInv => OnePerStage
  BY DEF StageInv
<1> QED
  BY <1>1, StagesKept, PTL

\* One of three buffers is not held by the worker and not being saved to.
LEMMA OneIsFound ==
  ASSUME STAT_MAX_BUFS >= 3, StageInv, isr = "load", ~ LoadSetPending
  PROVE  isp_stat_buf_find_oldest_or_empty # NULL
<1>1. {0, 1, 2} \subseteq Bufs /\ Bufs \in SUBSET Nat /\ NULL \notin Bufs
  BY BufsAssumption, NullAssumption DEF Bufs
<1>2. active_buf = NULL
  BY DEF StageInv, TypeOK, ActiveHeld, LoadSetPending
<1>3. PICK b \in {0, 1, 2} : b # locked_buf /\ state[b] # "SAVE_SET"
  <2>1. \A c, d \in {0, 1, 2} : state[c] = "SAVE_SET" /\ state[d] = "SAVE_SET" => c = d
    BY <1>1 DEF StageInv, OnePerStage
  <2> QED
    BY <2>1
<1>4. b \in Bufs /\ ~ InUse(b)
  BY <1>1, <1>2, <1>3 DEF InUse
<1>5. state[b] = "READY" \/ (state[b] = "IDLE" /\ empty[b])
  BY <1>3, <1>4 DEF StageInv, TypeOK, Stages, LoadSetPending, IdleIsEmpty
<1>6. CASE Vacant # {}
  <2>1. Vacant \in SUBSET Bufs
    BY DEF Vacant
  <2>2. Min(Vacant) \in Vacant
    BY <1>1, <1>6, <2>1, MinIsIn
  <2> QED
    BY <1>1, <1>6, <2>1, <2>2 DEF isp_stat_buf_find_oldest_or_empty
<1>7. CASE Vacant = {}
  <2> DEFINE ready == {d \in {c \in Bufs : ~ InUse(c)} : state[d] = "READY"}
  <2>1. b \in ready /\ ready \in SUBSET Bufs
    BY <1>4, <1>5, <1>7 DEF Vacant
  <2>2. isp_stat_buf_find_oldest_or_empty = Oldest(ready, bufFrame)
    BY <1>7 DEF isp_stat_buf_find_oldest_or_empty, OldestReady
  <2> HIDE DEF ready
  <2> QED
    BY <2>1, <2>2, OldestFound
<1> QED
  BY <1>6, <1>7

\* With three buffers or more the handler always finds one: one may be held
\* by the worker and one be saved to.
THEOREM ThreeAreEnough ==
  ASSUME STAT_MAX_BUFS >= 3
  PROVE  Spec => []BufferFound
<1>1. StageInv => BufferFound
  BY OneIsFound DEF BufferFound
<1> QED
  BY <1>1, StagesKept, PTL

-----------------------------------------------------------------------------
(* Where the statistics are, when each interrupt is served before the      *)
(* hardware's next event.                                                  *)

LEMMA HwFresh ==
  ASSUME Prompt, StageInv, InTurn, OnItsWay, Hw
  PROVE  InTurn' /\ OnItsWay'
<1> USE DEF statVars, flagVars, history
<1>0. /\ pd = {} /\ isr = "idle" /\ para
      /\ UNCHANGED <<state, active_buf, reg, isr>>
      /\ saved \in [Bufs -> BOOLEAN] /\ cur \in Bufs
  BY DEF Hw, FrameStart, FrameEnd, MayMove, InTurn, StageInv, TypeOK
<1>1. CASE FrameStart
  <2>1. ~ inFrame /\ inFrame' /\ cur' = reg /\ pd' = {"LOAD"} /\ saved' = saved
    BY <1>0, <1>1 DEF FrameStart
  <2>2. InTurn'
    BY <1>0, <2>1 DEF InTurn
  <2>3. OnItsWay'
    BY <1>0, <2>1 DEF OnItsWay
  <2> QED
    BY <2>2, <2>3
<1>2. CASE FrameEnd
  <2>1. inFrame /\ ~ inFrame' /\ pd' = {"SAVE"} /\ para' = para
    BY <1>0, <1>2 DEF FrameEnd
  <2>2. saved'[cur] /\ \A b \in Bufs : saved[b] => saved'[b]
    BY <1>0, <1>2 DEF FrameEnd
  <2>3. InTurn'
    BY <1>0, <2>1 DEF InTurn
  <2>4. OnItsWay'
    BY <1>0, <2>1, <2>2 DEF OnItsWay
  <2> QED
    BY <2>3, <2>4
<1> QED
  BY <1>1, <1>2 DEF Hw

LEMMA LoadFresh ==
  ASSUME StageInv, InTurn, OnItsWay, IsrLoad
  PROVE  InTurn' /\ OnItsWay'
<1>0. /\ isr = "load" /\ inFrame /\ pd' = pd \ {"LOAD"} /\ isr' \in {"check", "loaded"}
      /\ UNCHANGED <<state, cur, para, inFrame>> /\ saved \in [Bufs -> BOOLEAN]
      /\ NULL \notin Bufs
  BY NullAssumption, BufsAssumption DEF IsrLoad, InTurn, StageInv, TypeOK, Bufs
<1>1. InTurn'
  BY <1>0 DEF InTurn
<1>2. CASE Wanted /\ ~ LoadSetPending
  <2>1. active_buf = NULL /\ \A b \in Bufs : state[b] # "LOAD_SET"
    BY <1>0, <1>2 DEF StageInv, TypeOK, ActiveHeld, LoadSetPending
  <2>2. CASE active_buf' = NULL
    <3>1. isr' = "loaded" /\ UNCHANGED <<reg, saved>>
      BY <1>2, <2>2 DEF IsrLoad
    <3> QED
      BY <1>0, <1>1, <2>1, <2>2, <3>1 DEF OnItsWay
  <2>3. CASE active_buf' # NULL
    <3>1. isr' = "check" /\ reg' = active_buf' /\ saved' = [saved EXCEPT ![active_buf'] = FALSE]
      BY <1>2, <2>3 DEF IsrLoad
    <3>2. active_buf' \in Bufs /\ state[active_buf'] \in {"READY", "IDLE"}
      BY <1>2, <2>3, ChosenToFill DEF IsrLoad, StageInv
    <3>3. \A b \in Bufs \ {active_buf'} : saved'[b] = saved[b]
      BY <1>0, <3>1
    <3>4. ASSUME NEW b \in Bufs
          PROVE  \/ saved'[b] \/ state[b] = "IDLE"
                 \/ state[b] = "READY" /\ b = active_buf'
                 \/ state[b] = "SAVE_SET" /\ inFrame /\ cur = b
      <4>1. CASE b = active_buf'
        BY <3>2, <4>1
      <4>2. CASE b # active_buf'
        BY <1>0, <2>1, <3>3, <4>2 DEF OnItsWay
      <4> QED
        BY <4>1, <4>2
    <3> QED
      BY <1>0, <1>1, <3>1, <3>4 DEF OnItsWay
  <2> QED
    BY <2>2, <2>3
<1>3. CASE ~ (Wanted /\ ~ LoadSetPending)
  <2>1. isr' = "loaded" /\ UNCHANGED <<active_buf, reg, saved>>
    BY <1>3 DEF IsrLoad
  <2> QED
    BY <1>0, <1>1, <2>1 DEF OnItsWay
<1> QED
  BY <1>2, <1>3

LEMMA CheckFresh ==
  ASSUME StageInv, InTurn, OnItsWay, IsrCheck
  PROVE  InTurn' /\ OnItsWay'
<1>1. /\ isr = "check" /\ isr' = "loaded" /\ "LOAD" \notin pd /\ inFrame
      /\ state' = [state EXCEPT ![active_buf] = "LOAD_SET"]
      /\ UNCHANGED <<active_buf, reg, cur, para, pd, inFrame, saved>>
  BY DEF IsrCheck, InTurn, hwVars, history
<1>2. active_buf \in Bufs /\ reg = active_buf /\ \A b \in Bufs : state[b] # "LOAD_SET"
  BY <1>1 DEF StageInv, TypeOK, ActiveHeld, LoadSetPending, OnItsWay
<1>3. state'[active_buf] = "LOAD_SET" /\ \A b \in Bufs \ {active_buf} : state'[b] = state[b]
  BY <1>1, <1>2 DEF StageInv, TypeOK
<1>4. InTurn'
  BY <1>1 DEF InTurn
<1>5. OnItsWay'
  BY <1>1, <1>2, <1>3 DEF OnItsWay
<1> QED
  BY <1>4, <1>5

LEMMA SaveFresh ==
  ASSUME StageInv, InTurn, OnItsWay, IsrSave
  PROVE  InTurn' /\ OnItsWay'
<1>0. /\ isr = "save" /\ isr' = "idle" /\ "LOAD" \notin pd /\ para
      /\ pd' = pd \ {"SAVE"} /\ inFrame \in BOOLEAN
      /\ ("SAVE" \in pd /\ ~ inFrame) \/ ("SAVE" \notin pd /\ inFrame)
      /\ UNCHANGED <<reg, cur, para, inFrame, saved>>
  BY DEF IsrSave, InTurn, StageInv, TypeOK, history
<1>1. InTurn'
  <2>1. "SAVE" \notin pd' /\ "LOAD" \notin pd' /\ para'
    BY <1>0
  <2> QED
    BY <1>0, <2>1 DEF InTurn
<1>2. \A b \in Bufs : state[b] = "SAVE_SET" /\ "SAVE" \in pd => saved[b]
  BY <1>0 DEF OnItsWay
<1>3. \A b \in Bufs : state[b] = "READY" => saved[b]
  BY <1>0, NullAssumption, BufsAssumption DEF OnItsWay, StageInv, TypeOK, ActiveHeld, Bufs
<1>4. \A b \in Bufs : state[b] = "LOAD_SET" => saved[b] \/ reg = b
  BY DEF OnItsWay
<1>5. CASE UNCHANGED <<state, active_buf>>
  BY <1>0, <1>1, <1>2, <1>5 DEF OnItsWay
<1>6. CASE StatIsr /\ "SAVE" \in pd
  <2>1. \A b \in Bufs : state[b] \in Stages /\ state'[b] = Advanced(state[b])
    BY <1>6 DEF StatIsr, StageInv, TypeOK
  <2>2. ASSUME NEW b \in Bufs
        PROVE  saved[b] \/ state'[b] = "IDLE" \/ (state'[b] = "SAVE_SET" /\ reg = b)
    BY <1>2, <1>3, <1>4, <1>6, <2>1 DEF Advanced, Finished, Stages
  <2>3. isr' # "check" /\ ~ inFrame' /\ "SAVE" \notin pd' /\ reg' = reg /\ saved' = saved
    BY <1>0, <1>6
  <2> QED
    BY <1>1, <2>2, <2>3 DEF OnItsWay
<1> QED
  BY <1>5, <1>6 DEF IsrSave, statVars

LEMMA WorkerFresh ==
  ASSUME StageInv, InTurn, OnItsWay, Worker
  PROVE  InTurn' /\ OnItsWay'
<1> USE DEF statVars, flagVars, hwVars, history, WorkAt
<1>1. isr = "idle" /\ UNCHANGED <<active_buf, reg, cur, para, pd, inFrame, isr, saved>>
  BY DEF Worker, WorkTake, WorkGet, WorkCopied, WorkEmpty, WorkRelease, WorkPublish
<1>2. InTurn'
  BY <1>1 DEF InTurn
<1>3. CASE state' = state
  BY <1>1, <1>2, <1>3 DEF OnItsWay
<1>4. CASE state' = [state EXCEPT ![locked_buf] = "IDLE"]
  <2>1. \A b \in Bufs : state'[b] \in {state[b], "IDLE"}
    BY <1>4 DEF StageInv, TypeOK
  <2> QED
    BY <1>1, <1>2, <2>1 DEF OnItsWay
<1> QED
  BY <1>3, <1>4 DEF Worker, WorkTake, WorkGet, WorkCopied, WorkEmpty, WorkRelease, WorkPublish

\* The inductive invariant of prompt interrupts: the stages, and where the
\* statistics of every buffer are.
THEOREM FreshInductive ==
  ASSUME Prompt
  PROVE  Spec => []FreshInv
<1> DEFINE Fresh == InTurn /\ OnItsWay
<1>1. Init => Fresh
  BY DEF Init, InTurn, OnItsWay
<1>2. StageInv /\ Fresh /\ [Next]_vars => Fresh'
  <2> SUFFICES ASSUME StageInv, InTurn, OnItsWay, [Next]_vars  PROVE Fresh'
    OBVIOUS
  <2>1. CASE Hw
    BY <2>1, HwFresh
  <2>2. CASE IsrEnter
    BY <2>2 DEF IsrEnter, statVars, hwVars, history, InTurn, OnItsWay, StageInv, TypeOK
  <2>3. CASE IsrLoad \/ IsrCheck \/ IsrSave
    BY <2>3, LoadFresh, CheckFresh, SaveFresh
  <2>4. CASE IsrLoaded
    BY <2>4 DEF IsrLoaded, statVars, history, InTurn, OnItsWay
  <2>5. CASE Worker
    BY <2>5, WorkerFresh
  <2>6. CASE UNCHANGED vars
    BY <2>6 DEF vars, statVars, hwVars, history, InTurn, OnItsWay
  <2> QED
    BY <2>1, <2>2, <2>3, <2>4, <2>5, <2>6 DEF Next, Isr
<1>3. StageInv /\ Fresh => FreshInv
  BY DEF FreshInv
<1> HIDE DEF Fresh
<1> QED
  BY <1>1, <1>2, <1>3, StagesKept, PTL DEF Spec

\* The worker never takes a buffer the hardware has not saved to since it was
\* handed out, if each interrupt is served before the hardware's next event.
THEOREM FreshCopies ==
  ASSUME Prompt
  PROVE  Spec => []CopyIsFresh
<1>1. FreshInv => CopyIsFresh
  <2> SUFFICES ASSUME FreshInv, wk = "copy"  PROVE saved[locked_buf]
    BY DEF CopyIsFresh
  <2>1. NULL \notin Bufs
    BY NullAssumption, BufsAssumption DEF Bufs
  <2>2. locked_buf \in Bufs /\ state[locked_buf] = "READY" /\ active_buf # locked_buf
    BY <2>1 DEF FreshInv, StageInv, TypeOK, LockedHeld, OnePerStage
  <2> QED
    BY <2>2 DEF FreshInv, OnItsWay
<1> QED
  BY <1>1, FreshInductive, PTL


-----------------------------------------------------------------------------
(* The numbers of the statistics.                                          *)

\* A difference of two numbers, as the width of frame_number leaves it.
LEMMA Difference ==
  ASSUME NEW m \in Numbers, NEW n \in Numbers
  PROVE  (m - n) % FrameMod = IF m >= n THEN m - n ELSE m - n + FrameMod
<1>1. /\ m \in Nat /\ n \in Nat /\ FrameMod \in Nat /\ FrameMod > 0
      /\ m < FrameMod /\ n < FrameMod
  BY FrameAssumption DEF Numbers
<1>2. \A k \in Nat, f \in Nat : k < f => k % f = k
  OBVIOUS
<1>3. \A k \in Int, f \in Nat : k < 0 /\ k + f >= 0 /\ f > 0 => k % f = k + f
  OBVIOUS
<1>4. CASE m >= n
  BY <1>1, <1>2, <1>4
<1>5. CASE m < n
  BY <1>1, <1>3, <1>5
<1> QED
  BY <1>1, <1>4, <1>5

LEMMA LagIs ==
  ASSUME last \in Numbers, NEW m \in Numbers
  PROVE  /\ Lag(m) = IF m >= last THEN m - last ELSE m - last + FrameMod
         /\ Lag(m) \in Numbers /\ Lag(m) \in Nat
<1>1. Lag(m) = IF m >= last THEN m - last ELSE m - last + FrameMod
  BY Difference DEF Lag
<1>2. /\ m \in Nat /\ last \in Nat /\ FrameMod \in Nat /\ m < FrameMod /\ last < FrameMod
  BY FrameAssumption DEF Numbers
<1> QED
  BY <1>1, <1>2 DEF Numbers

LEMMA LagOnce ==
  ASSUME last \in Numbers, NEW m \in Numbers, NEW n \in Numbers
  PROVE  (Lag(m) = Lag(n) => m = n) /\ (Lag(m) = 0 <=> m = last)
<1>1. /\ m \in Nat /\ n \in Nat /\ last \in Nat /\ FrameMod \in Nat
      /\ m < FrameMod /\ n < FrameMod /\ last < FrameMod
  BY FrameAssumption DEF Numbers
<1> QED
  BY <1>1, LagIs

\* From an older number on.
LEMMA LagFrom ==
  ASSUME last \in Numbers, NEW m \in Numbers, NEW n \in Numbers, Lag(n) <= Lag(m)
  PROVE  (m - n) % FrameMod = Lag(m) - Lag(n)
<1>1. /\ m \in Nat /\ n \in Nat /\ last \in Nat /\ FrameMod \in Nat
      /\ m < FrameMod /\ n < FrameMod /\ last < FrameMod
  BY FrameAssumption DEF Numbers
<1>2. /\ Lag(m) = IF m >= last THEN m - last ELSE m - last + FrameMod
      /\ Lag(n) = IF n >= last THEN n - last ELSE n - last + FrameMod
      /\ (m - n) % FrameMod = IF m >= n THEN m - n ELSE m - n + FrameMod
  BY LagIs, Difference
<1> QED
  BY <1>1, <1>2

LEMMA LagNext ==
  ASSUME last \in Numbers, NEW m \in Numbers, Lag(m) + 1 < FrameMod
  PROVE  /\ (m + 1) % FrameMod \in Numbers
         /\ Lag((m + 1) % FrameMod) = Lag(m) + 1
<1>1. /\ m \in Nat /\ last \in Nat /\ FrameMod \in Nat /\ m < FrameMod /\ last < FrameMod
  BY FrameAssumption DEF Numbers
<1>2. (m + 1) % FrameMod = IF m + 1 = FrameMod THEN 0 ELSE m + 1
  <2>1. \A k \in Nat, f \in Nat : k < f => k % f = k
    OBVIOUS
  <2>2. \A f \in Nat : f > 0 => f % f = 0
    OBVIOUS
  <2>3. CASE m + 1 = FrameMod
    BY <1>1, <2>2, <2>3
  <2>4. CASE m + 1 # FrameMod
    <3>1. m + 1 \in Nat /\ m + 1 < FrameMod
      BY <1>1, <2>4
    <3> QED
      BY <1>1, <2>1, <2>4, <3>1
  <2> QED
    BY <2>3, <2>4
<1> DEFINE next == (m + 1) % FrameMod
<1>3. next \in Numbers
  BY <1>1, <1>2 DEF Numbers
<1>4. next = IF m + 1 = FrameMod THEN 0 ELSE m + 1
  BY <1>2
<1> HIDE DEF next
<1>5. /\ Lag(next) = IF next >= last THEN next - last ELSE next - last + FrameMod
      /\ Lag(m) = IF m >= last THEN m - last ELSE m - last + FrameMod
  BY <1>3, LagIs
<1>6. Lag(next) = Lag(m) + 1
  BY <1>1, <1>4, <1>5
<1> QED
  BY <1>3, <1>6 DEF next

LEMMA WindowIs ==
  ASSUME FrameMod >= 4
  PROVE  Window \in Nat /\ Window >= 2 /\ 2 * Window <= FrameMod /\ FrameMod <= 2 * Window + 1
BY FrameAssumption DEF Window

\* Within the window the sign of the difference says which is older.
LEMMA BeforeIsOlder ==
  ASSUME FrameMod >= 4, last \in Numbers, NEW m \in Numbers, NEW n \in Numbers,
         Lag(m) < Window, Lag(n) < Window
  PROVE  Before(m, n) <=> Lag(m) < Lag(n)
<1>1. Lag(m) \in Nat /\ Lag(n) \in Nat /\ FrameMod \in Nat
  BY LagIs, FrameAssumption
<1>2. CASE Lag(n) <= Lag(m)
  <2>1. (m - n) % FrameMod = Lag(m) - Lag(n)
    BY <1>2, LagFrom
  <2> QED
    BY <1>1, <1>2, <2>1, WindowIs DEF Before, Window
<1>3. CASE Lag(m) < Lag(n)
  <2>1. (n - m) % FrameMod = Lag(n) - Lag(m)
    BY <1>1, <1>3, LagFrom
  <2>2. (m - n) % FrameMod = FrameMod - (Lag(n) - Lag(m))
    <3>1. m \in Nat /\ n \in Nat
      BY FrameAssumption DEF Numbers
    <3>2. /\ (m - n) % FrameMod = IF m >= n THEN m - n ELSE m - n + FrameMod
          /\ (n - m) % FrameMod = IF n >= m THEN n - m ELSE n - m + FrameMod
      BY Difference
    <3> QED
      BY <1>1, <1>3, <2>1, <3>1, <3>2
  <2>3. FrameMod - (Lag(n) - Lag(m)) >= Window
    BY <1>1, <1>3, WindowIs
  <2> QED
    BY <1>3, <2>2, <2>3 DEF Before, Window
<1> QED
  BY <1>1, <1>2, <1>3

\* What the loop chooses is the oldest of all that are ready.
LEMMA OldestIsOldest ==
  ASSUME FrameMod >= 4, last \in Numbers, NEW ready \in SUBSET Bufs,
         NEW frame \in [Bufs -> Numbers],
         \A b \in ready : Lag(frame[b]) < Window,
         NEW r \in ready
  PROVE  /\ Oldest(ready, frame) \in ready
         /\ Lag(frame[Oldest(ready, frame)]) <= Lag(frame[r])
<1>0. /\ STAT_MAX_BUFS \in Nat \ {0} /\ \A b \in ready : b \in Nat /\ b < STAT_MAX_BUFS
      /\ \A b \in ready : frame[b] \in Numbers
  BY BufsAssumption DEF Bufs
<1>1. PICK f : Run(f, ready, frame, STAT_MAX_BUFS) /\ Oldest(ready, frame) = f[STAT_MAX_BUFS]
  BY OldestIsRun
<1> DEFINE Right(n) == \A b \in ready : b < n =>
                         f[n] \in ready /\ Lag(frame[f[n]]) <= Lag(frame[b])
           Chosen(n) == f[n] \in ready \cup {NULL}
           Wrong == {n \in 0 .. STAT_MAX_BUFS : ~ (Right(n) /\ Chosen(n))}
<1>2. Right(0) /\ Chosen(0)
  BY <1>0, <1>1 DEF Run
<1>3. ASSUME NEW n \in 1 .. STAT_MAX_BUFS, Right(n - 1), Chosen(n - 1)
      PROVE  Right(n) /\ Chosen(n)
  <2>1. f[n] = Keeps(ready, frame, n, f[n - 1]) /\ n \in Nat
    BY <1>0, <1>1 DEF Run
  <2>2. NULL \notin ready
    BY <1>0, NullAssumption
  <2>3. \A b \in ready : b < n => b < n - 1 \/ b = n - 1
    BY <1>0, <2>1
  <2>4. \A b \in ready : Lag(frame[b]) \in Nat
    BY <1>0, LagIs
  <2>5. CASE n - 1 \notin ready
    BY <1>3, <2>1, <2>3, <2>5 DEF Keeps
  <2>6. CASE n - 1 \in ready /\ f[n - 1] = NULL
    <3>1. f[n] = n - 1
      BY <2>1, <2>6 DEF Keeps
    <3>2. \A b \in ready : ~ (b < n - 1)
      BY <1>3, <2>2, <2>6
    <3>3. Lag(frame[n - 1]) <= Lag(frame[n - 1])
      BY <2>4, <2>6
    <3> QED
      BY <2>3, <2>6, <3>1, <3>2, <3>3
  <2>7. CASE n - 1 \in ready /\ f[n - 1] # NULL
    <3> DEFINE kept == f[n - 1]
    <3>1. kept \in ready
      BY <1>3, <2>7
    <3>2. Before(frame[n - 1], frame[kept]) <=> Lag(frame[n - 1]) < Lag(frame[kept])
      BY <1>0, <2>7, <3>1, BeforeIsOlder
    <3>3. f[n] = IF Lag(frame[n - 1]) < Lag(frame[kept]) THEN n - 1 ELSE kept
      BY <2>1, <2>7, <3>2 DEF Keeps
    <3>4. \A b \in ready : b < n - 1 => Lag(frame[kept]) <= Lag(frame[b])
      BY <1>3
    <3> HIDE DEF kept
    <3>5. f[n] \in ready
      BY <2>7, <3>1, <3>3
    <3>6. ASSUME NEW b \in ready, b < n  PROVE Lag(frame[f[n]]) <= Lag(frame[b])
      <4>1. Lag(frame[n - 1]) \in Nat /\ Lag(frame[kept]) \in Nat /\ Lag(frame[b]) \in Nat
        BY <2>4, <2>7, <3>1
      <4>2. b = n - 1 \/ Lag(frame[kept]) <= Lag(frame[b])
        BY <2>3, <3>4, <3>6
      <4>3. CASE Lag(frame[n - 1]) < Lag(frame[kept])
        BY <3>3, <4>1, <4>2, <4>3
      <4>4. CASE ~ (Lag(frame[n - 1]) < Lag(frame[kept]))
        BY <3>3, <4>1, <4>2, <4>4
      <4> QED
        BY <4>3, <4>4
    <3> QED
      BY <3>5, <3>6
  <2> QED
    BY <2>5, <2>6, <2>7
<1> HIDE DEF Right, Chosen
<1>4. Wrong = {}
  <2> SUFFICES ASSUME Wrong # {}  PROVE FALSE
    OBVIOUS
  <2>1. Wrong \in SUBSET Nat
    BY <1>0
  <2>2. PICK n \in Wrong : \A k \in Wrong : n <= k
    BY <2>1, LeastExists
  <2>3. n \in 1 .. STAT_MAX_BUFS
    BY <1>0, <1>2
  <2>4. n - 1 \in 0 .. STAT_MAX_BUFS /\ n - 1 \notin Wrong
    BY <1>0, <2>2, <2>3
  <2> QED
    BY <1>3, <2>3, <2>4
<1>5. Right(STAT_MAX_BUFS)
  BY <1>0, <1>4
<1> QED
  BY <1>0, <1>1, <1>5 DEF Right


-----------------------------------------------------------------------------
(* The order in which the worker gets them.                                *)

Ordered == NumbersOK /\ InOrder

\* Lags are numbers.
LEMMA LagTypes ==
  ASSUME NumbersOK, StageInv
  PROVE  /\ \A b \in Bufs : Number(b) \in Numbers /\ Lag(Number(b)) \in Nat
         /\ frame_number \in Numbers /\ last \in Numbers /\ Lag(frame_number) \in Nat
<1>1. /\ \A b \in Bufs : Number(b) \in Numbers
      /\ frame_number \in Numbers /\ last \in Numbers
  BY DEF NumbersOK, Number
<1> QED
  BY <1>1, LagIs

\* A step that keeps the numbers and the buffers that are coming.
LEMMA OrderStays ==
  ASSUME Ordered, StageInv, UNCHANGED <<bufFrame, frame_number, last, active_buf>>,
         Coming' = Coming,
         \A b \in Coming \ {active_buf} : state'[b] = state[b] /\ empty'[b] = empty[b]
  PROVE  Ordered'
<1>1. \A b : Number(b)' = Number(b)
  BY DEF Number
<1>2. \A n : Lag(n)' = Lag(n)
  BY DEF Lag
<1>3. NumbersOK'
  BY DEF Ordered, NumbersOK
<1>4. InOrder'
  <2>1. \A b \in Coming : Lag(Number(b))' = Lag(Number(b))
    BY <1>1 DEF Lag
  <2>2. Lag(frame_number)' = Lag(frame_number)
    BY DEF Lag
  <2> QED
    BY <1>1, <2>1, <2>2 DEF Ordered, InOrder
<1> QED
  BY <1>3, <1>4 DEF Ordered

\* ... and where the handler and the worker are.
LEMMA LateStays ==
  ASSUME NotTooLate, UNCHANGED <<frame_number, last, active_buf, inFrame, work, wk>>,
         isr' # "load", "LOAD" \notin pd', isr # "idle" \/ (isr' = "idle" /\ pd' = pd),
         Coming' = Coming, \A b \in Coming \ {active_buf} : state'[b] = state[b],
         active_buf = NULL => NULL \notin Bufs
  PROVE  NotTooLate'
<1>1. Lag(frame_number)' = Lag(frame_number)
  BY DEF Lag
<1>2. active_buf = NULL => active_buf \notin Coming
  BY DEF Coming
<1> QED
  BY <1>1, <1>2 DEF NotTooLate

LEMMA HwOrder ==
  ASSUME Prompt, FreshInv, Ordered, NotTooLate, FrameMod >= 4, Hw
  PROVE  Ordered' /\ NotTooLate'
<1> USE DEF statVars, flagVars, history
<1>1. /\ UNCHANGED <<state, empty, bufFrame, frame_number, last, active_buf, locked_buf, work, wk, isr>>
      /\ pd = {} /\ isr = "idle"
      /\ "LOAD" \in pd' => InWindow
      /\ inFrame' \/ inFrame
      /\ inFrame \/ InWindow
  BY DEF Hw, FrameStart, FrameEnd, MayMove
<1>2. Coming' = Coming
  BY <1>1 DEF Coming
<1>3. Ordered'
  BY <1>1, <1>2, OrderStays DEF FreshInv
<1>4. Lag(frame_number)' = Lag(frame_number)
  BY <1>1 DEF Lag
<1>5. InWindow => (work \/ wk # "idle" => Lag(frame_number) < Window - 1)
  BY DEF InWindow, Lag, Window
<1>6. Window \in Nat /\ Lag(frame_number) \in Nat
  BY WindowIs, LagTypes DEF Ordered, FreshInv
<1>7. Lag(frame_number) = Window => active_buf # NULL /\ ~ work /\ wk = "idle"
         /\ \E b \in Coming \ {active_buf} : state[b] \in {"READY", "SAVE_SET"}
  BY <1>1, <1>5, <1>6 DEF NotTooLate
<1> QED
  BY <1>1, <1>2, <1>3, <1>4, <1>5, <1>7 DEF NotTooLate

LEMMA EnterOrder ==
  ASSUME FreshInv, Ordered, NotTooLate, IsrEnter
  PROVE  Ordered' /\ NotTooLate'
<1> USE DEF statVars, flagVars, hwVars, history
<1>1. /\ UNCHANGED <<state, empty, bufFrame, frame_number, last, active_buf, locked_buf, work, wk,
                     pd, inFrame>>
      /\ pd # {}
      /\ isr' = "load" => "LOAD" \in pd
  BY DEF IsrEnter
<1>2. Coming' = Coming
  BY <1>1 DEF Coming
<1>3. Ordered'
  BY <1>1, <1>2, OrderStays DEF FreshInv
<1>4. Lag(frame_number)' = Lag(frame_number)
  BY <1>1 DEF Lag
<1> QED
  BY <1>1, <1>2, <1>3, <1>4 DEF NotTooLate

LEMMA CheckOrder ==
  ASSUME Prompt, FreshInv, Ordered, NotTooLate, IsrCheck \/ IsrLoaded
  PROVE  Ordered' /\ NotTooLate'
<1> USE DEF statVars, flagVars, hwVars, history
<1>0. "LOAD" \notin pd /\ isr \in {"check", "loaded"} /\ NULL \notin Bufs
  BY NullAssumption, BufsAssumption DEF IsrCheck, IsrLoaded, FreshInv, InTurn, Bufs
<1>1. /\ UNCHANGED <<empty, bufFrame, frame_number, last, active_buf, locked_buf, work, wk,
                     pd, inFrame>>
      /\ isr' \in {"loaded", "save"}
      /\ state' = state \/ (isr = "check" /\ state' = [state EXCEPT ![active_buf] = "LOAD_SET"])
  BY <1>0 DEF IsrCheck, IsrLoaded
<1>2. DOMAIN state = Bufs /\ (isr = "check" => active_buf \in Bufs /\ active_buf # locked_buf)
  BY <1>0 DEF FreshInv, StageInv, TypeOK, ActiveHeld, OnePerStage
<1>3. \A b \in Bufs : b # active_buf => state'[b] = state[b]
  BY <1>1, <1>2
<1>4. Coming' = Coming
  BY <1>1, <1>3 DEF Coming
<1>5. \A b \in Coming \ {active_buf} : state'[b] = state[b] /\ empty'[b] = empty[b]
  BY <1>1, <1>3 DEF Coming
<1>6. Ordered'
  BY <1>1, <1>4, <1>5, OrderStays DEF FreshInv
<1>7. NotTooLate'
  BY <1>0, <1>1, <1>4, <1>5, LateStays
<1> QED
  BY <1>6, <1>7

\* A new buffer gets the next number.
LEMMA LoadOrder ==
  ASSUME Prompt, FrameMod >= 4, STAT_MAX_BUFS >= 3, FreshInv, Ordered, NotTooLate, IsrLoad
  PROVE  Ordered' /\ NotTooLate'
<1>0. /\ isr = "load" /\ isr' \in {"check", "loaded"} /\ pd' = pd \ {"LOAD"}
      /\ UNCHANGED <<state, empty, bufFrame, locked_buf, inFrame, work, wk, last>>
      /\ NULL \notin Bufs /\ Bufs \subseteq Nat /\ {0, 1, 2} \subseteq Bufs
  BY NullAssumption, BufsAssumption DEF IsrLoad, Bufs
<1>1. /\ Window \in Nat /\ Window >= 2 /\ 2 * Window <= FrameMod /\ FrameMod \in Nat
      /\ Lag(frame_number) \in Nat /\ last \in Numbers /\ frame_number \in Numbers
      /\ \A b \in Bufs : Number(b) \in Numbers /\ Lag(Number(b)) \in Nat
  BY WindowIs, LagTypes, FrameAssumption DEF Ordered, FreshInv
<1>2. CASE ~ (Wanted /\ ~ LoadSetPending)
  <2>1. UNCHANGED <<frame_number, active_buf>> /\ isr' = "loaded"
    BY <1>2 DEF IsrLoad
  <2>2. Coming' = Coming
    BY <1>0, <2>1 DEF Coming
  <2>3. Ordered'
    BY <1>0, <2>1, <2>2, OrderStays DEF FreshInv
  <2>4. NotTooLate'
    BY <1>0, <2>1, <2>2, LateStays
  <2> QED
    BY <2>3, <2>4
<1>3. CASE Wanted /\ ~ LoadSetPending
  <2>6. PICK new : active_buf' = new
    OBVIOUS
  <2>1. /\ frame_number' = (frame_number + 1) % FrameMod
        /\ new = isp_stat_buf_find_oldest_or_empty
    BY <1>3, <2>6 DEF IsrLoad
  <2>2. active_buf = NULL /\ \A b \in Bufs : state[b] # "LOAD_SET"
    BY <1>0, <1>3 DEF FreshInv, StageInv, TypeOK, ActiveHeld, LoadSetPending
  <2>3. new # NULL /\ new \in Bufs /\ new # locked_buf /\ state[new] \in {"READY", "IDLE"}
    BY <1>0, <1>3, <2>1, OneIsFound, ChosenToFill DEF FreshInv, StageInv, InUse
  <2>4. Lag(frame_number) < Window
    BY <1>0, <1>1, <2>2 DEF NotTooLate
  <2>5. frame_number' \in Numbers /\ Lag(frame_number') = Lag(frame_number) + 1
    BY <1>1, <2>1, <2>4, LagNext
  <2>7. \A n : Lag(n)' = Lag(n)
    BY <1>0 DEF Lag
  <2>8. Coming' = Coming \cup {new}
    BY <1>0, <2>2, <2>3, <2>6 DEF Coming
  <2>9. \A b \in Bufs : /\ Number(b)' = IF b = new THEN frame_number' ELSE Number(b)
                        /\ Number(b) = bufFrame[b]
    BY <1>0, <2>2, <2>6 DEF Number
  <2>10. Lag(frame_number)' = Lag(frame_number) + 1
    BY <1>0, <2>5 DEF Lag
  <2>11. ASSUME NEW b \in Coming, b # new
         PROVE  /\ b \in Bufs /\ Number(b)' = Number(b) /\ Lag(Number(b))' = Lag(Number(b))
                /\ Lag(Number(b)) \in 1 .. Lag(frame_number)
                /\ state'[b] = state[b] /\ empty'[b] = empty[b]
    <3>1. b \in Bufs
      BY DEF Coming
    <3>2. Number(b)' = Number(b)
      BY <2>9, <2>11, <3>1
    <3>3. Lag(Number(b))' = Lag(Number(b))
      BY <1>0, <3>2 DEF Lag
    <3> QED
      BY <1>0, <3>1, <3>2, <3>3 DEF Ordered, InOrder
  <2>12. Number(new)' = frame_number' /\ Lag(Number(new))' = Lag(frame_number) + 1
    <3>1. Number(new)' = frame_number'
      BY <2>3, <2>9
    <3> QED
      BY <1>0, <2>5, <3>1 DEF Lag
  <2>13. NumbersOK'
    BY <1>0, <2>5 DEF Ordered, NumbersOK
  <2>14. InOrder'
    <3>1. ASSUME NEW b \in Coming'  PROVE Lag(Number(b))' \in 1 .. Lag(frame_number)'
      <4>1. CASE b = new
        BY <1>1, <2>10, <2>12, <4>1
      <4>2. CASE b # new
        <5>1. b \in Coming
          BY <2>8, <3>1, <4>2
        <5>2. Lag(Number(b))' = Lag(Number(b)) /\ Lag(Number(b)) \in 1 .. Lag(frame_number)
          BY <2>11, <4>2, <5>1
        <5> QED
          BY <1>1, <2>10, <5>2
      <4> QED
        BY <4>1, <4>2
    <3>2. ASSUME NEW b \in Coming', NEW c \in Coming', Number(b)' = Number(c)'
          PROVE  b = c
      <4>1. ASSUME NEW d \in Coming, d # new  PROVE Number(d)' # frame_number'
        <5>1. Number(d)' = Number(d) /\ Lag(Number(d)) \in 1 .. Lag(frame_number)
          BY <2>11, <4>1
        <5> QED
          BY <1>1, <2>5, <5>1
      <4>2. CASE b = new \/ c = new
        BY <2>8, <2>12, <3>2, <4>1, <4>2
      <4>3. CASE b # new /\ c # new
        <5>1. b \in Coming /\ c \in Coming
          BY <2>8, <3>2, <4>3
        <5>2. Number(b) = Number(c)
          BY <2>11, <3>2, <4>3, <5>1
        <5> QED
          BY <5>1, <5>2 DEF Ordered, InOrder
      <4> QED
        BY <4>2, <4>3
    <3>3. \E b \in Coming' : Number(b)' = frame_number'
      BY <2>8, <2>12
    <3>4. ASSUME NEW b \in Coming' \ {active_buf'}
          PROVE  /\ b \in Coming \ {active_buf} /\ Lag(Number(b))' = Lag(Number(b))
                 /\ state'[b] = state[b] /\ empty'[b] = empty[b]
      <4>1. b \in Coming /\ b # new /\ b # active_buf
        <5>1. b \in Coming /\ b # new
          BY <2>6, <2>8, <3>4
        <5>2. b \in Bufs
          BY <5>1 DEF Coming
        <5> QED
          BY <1>0, <2>2, <5>1, <5>2
      <4> QED
        BY <2>11, <4>1
    <3>5. \A b, c \in Coming' \ {active_buf'} :
            state'[b] = "READY" /\ state'[c] = "SAVE_SET" => Lag(Number(b))' < Lag(Number(c))'
      BY <3>4 DEF Ordered, InOrder
    <3>6. \A b \in Coming' \ {active_buf'} :
            /\ state'[b] # "LOAD_SET"
            /\ state'[b] = "READY" => ~ empty'[b] /\ Lag(Number(b))' < Window
      BY <3>4 DEF Ordered, InOrder
    <3> QED
      BY <3>1, <3>2, <3>3, <3>5, <3>6 DEF InOrder, Window
  <2>15. ASSUME Lag(frame_number)' = Window
         PROVE  /\ ~ work /\ wk = "idle"
                /\ \E b \in Coming \ {new} : state[b] \in {"READY", "SAVE_SET"}
    <3>1. Lag(frame_number) = Window - 1
      BY <1>1, <2>10, <2>15
    <3>2. ~ work /\ wk = "idle"
      BY <1>0, <1>1, <3>1 DEF NotTooLate
    <3>3. frame_number # last
      BY <1>1, <3>1, LagOnce
    <3>4. PICK b \in Coming : Number(b) = frame_number
      BY <3>3 DEF Ordered, InOrder
    <3>5. \A c \in Coming : c \in Bufs /\ state[c] \in {"READY", "SAVE_SET"}
      BY <1>0, <2>2 DEF Coming, FreshInv, StageInv, TypeOK, Stages
    <3>6. CASE b # new
      BY <3>2, <3>4, <3>5, <3>6
    <3>7. CASE b = new
      <4>1. state[new] = "READY"
        BY <2>3, <3>4, <3>5, <3>7
      <4>2. Vacant = {}
        <5> SUFFICES ASSUME Vacant # {}  PROVE FALSE
          OBVIOUS
        <5>1. Vacant \in SUBSET Nat
          BY <1>0 DEF Vacant
        <5>2. Min(Vacant) \in Vacant
          BY <5>1, MinIsIn
        <5>3. new = Min(Vacant)
          BY <2>1, <2>6 DEF isp_stat_buf_find_oldest_or_empty
        <5> QED
          BY <4>1, <5>2, <5>3 DEF Vacant
      <4>3. locked_buf = NULL
        BY <3>2 DEF FreshInv, StageInv, LockedHeld
      <4>4. PICK d \in {0, 1, 2} : d # new
        OBVIOUS
      <4>5. d \in Bufs /\ ~ InUse(d)
        BY <1>0, <2>2, <4>3, <4>4 DEF InUse
      <4>6. state[d] # "IDLE"
        BY <3>2, <4>2, <4>5 DEF Vacant, FreshInv, StageInv, IdleIsEmpty
      <4>7. d \in Coming
        BY <4>5, <4>6 DEF Coming, InUse
      <4> QED
        BY <3>2, <3>5, <4>4, <4>7
    <3> QED
      BY <3>6, <3>7
  <2>16. NotTooLate'
    <3>1. isr' # "load" /\ "LOAD" \notin pd'
      BY <1>0
    <3>2. Lag(frame_number)' <= Window
      BY <1>1, <2>4, <2>10
    <3>3. Lag(frame_number)' = Window =>
            /\ active_buf' # NULL /\ ~ work' /\ wk' = "idle"
            /\ \E b \in Coming' \ {active_buf'} : state'[b] \in {"READY", "SAVE_SET"}
      BY <1>0, <2>3, <2>6, <2>8, <2>15
    <3> QED
      BY <3>1, <3>2, <3>3 DEF NotTooLate, Window
  <2> QED
    BY <2>13, <2>14, <2>16 DEF Ordered
<1> QED
  BY <1>2, <1>3


\* The buffers move on by a stage.
LEMMA SaveOrder ==
  ASSUME Prompt, FrameMod >= 4, FreshInv, Ordered, NotTooLate, IsrSave
  PROVE  Ordered' /\ NotTooLate'
<1>0. /\ isr = "save" /\ isr' = "idle" /\ "LOAD" \notin pd /\ "LOAD" \notin pd' /\ wk' = wk
      /\ UNCHANGED <<inFrame, last>>
      /\ NULL \notin Bufs
      /\ "SAVE" \in pd => ~ inFrame /\ pd' = {}
  <2>1. pd \subseteq {"LOAD", "SAVE"}
    BY DEF FreshInv, StageInv, TypeOK
  <2>2. isr = "save" /\ isr' = "idle" /\ UNCHANGED <<wk, inFrame, last>>
    BY DEF IsrSave, history
  <2>3. "LOAD" \notin pd /\ ("SAVE" \in pd => ~ inFrame)
    BY <2>2 DEF FreshInv, InTurn
  <2>4. IF "SAVE" \in pd THEN pd' = pd \ {"SAVE"} ELSE pd' = pd
    BY DEF IsrSave
  <2>5. NULL \notin Bufs
    BY NullAssumption, BufsAssumption DEF Bufs
  <2> QED
    BY <2>1, <2>2, <2>3, <2>4, <2>5
<1>1. /\ Window \in Nat /\ Lag(frame_number) \in Nat /\ last \in Numbers /\ frame_number \in Numbers
      /\ \A b \in Bufs : Number(b) \in Numbers /\ Lag(Number(b)) \in Nat
  BY WindowIs, LagTypes DEF Ordered, FreshInv
<1>2. CASE UNCHANGED <<statVars, work>>
  <2>1. UNCHANGED <<state, empty, bufFrame, frame_number, active_buf, locked_buf, work>>
    BY <1>2 DEF statVars
  <2>2. Coming' = Coming
    BY <2>1 DEF Coming
  <2>3. Ordered'
    BY <1>0, <2>1, <2>2, OrderStays DEF FreshInv
  <2>4. Lag(frame_number)' = Lag(frame_number)
    BY <1>0, <2>1 DEF Lag
  <2>5. Lag(frame_number) = Window => active_buf # NULL /\ ~ work /\ wk = "idle"
           /\ \E b \in Coming \ {active_buf} : state[b] \in {"READY", "SAVE_SET"}
    BY <1>0 DEF NotTooLate
  <2>6. Lag(frame_number) <= Window
    BY DEF NotTooLate
  <2>7. NotTooLate'
    BY <1>0, <2>1, <2>2, <2>4, <2>5, <2>6 DEF NotTooLate
  <2> QED
    BY <2>3, <2>7
<1>3. CASE StatIsr /\ "SAVE" \in pd /\ UNCHANGED <<frame_number, locked_buf>>
  <2>1. /\ active_buf' = NULL /\ work' = TRUE
        /\ \A b \in Bufs : /\ state'[b] = Advanced(state[b])
                           /\ empty'[b] = (empty[b] /\ ~ Finished(state[b]))
                           /\ bufFrame'[b] = Number(b)
        /\ bufFrame' = [b \in Bufs |-> Number(b)]
    BY <1>3 DEF StatIsr, Number
  <2>2. active_buf # NULL => state[active_buf] = "LOAD_SET"
    BY <1>0 DEF FreshInv, StageInv, ActiveHeld
  <2>3. \A b \in Bufs : /\ state[b] \in Stages
                        /\ state[b] = "IDLE" <=> state'[b] = "IDLE"
                        /\ state'[b] = "READY" <=> state[b] \in {"READY", "SAVE_SET"}
                        /\ state'[b] = "SAVE_SET" <=> state[b] = "LOAD_SET"
                        /\ state'[b] # "LOAD_SET"
    BY <2>1 DEF FreshInv, StageInv, TypeOK, Stages, Advanced, Finished
  <2>4. Coming' = Coming
    BY <1>0, <1>3, <2>1, <2>2, <2>3 DEF Coming
  <2>5. \A b \in Bufs : Number(b)' = Number(b)
    BY <1>0, <2>1 DEF Number
  <2>6. \A b \in Bufs : Lag(Number(b))' = Lag(Number(b))
    BY <1>0, <2>5 DEF Lag
  <2>7. Lag(frame_number)' = Lag(frame_number)
    BY <1>0, <1>3 DEF Lag
  <2>8. Coming \subseteq Bufs
    BY DEF Coming
  <2>9. NumbersOK'
    BY <1>0, <1>1, <1>3, <2>1 DEF Ordered, NumbersOK
  <2>10. \A b \in Coming : Lag(Number(b)) \in 1 .. Lag(frame_number)
    BY DEF Ordered, InOrder
  <2>11. \A b, c \in Coming : Number(b) = Number(c) => b = c
    BY DEF Ordered, InOrder
  <2>12. frame_number = last \/ \E b \in Coming : Number(b) = frame_number
    BY DEF Ordered, InOrder
  <2>13. \A c \in Coming : state[c] = "LOAD_SET" => c = active_buf /\ Number(c) = frame_number
    BY DEF Ordered, InOrder, Number
  <2>14. ASSUME NEW b \in Coming, NEW c \in Coming, state'[b] = "READY", state'[c] = "SAVE_SET"
         PROVE  Lag(Number(b)) < Lag(Number(c))
    <3>1. b # c /\ Number(c) = frame_number
      BY <2>13, <2>3, <2>8, <2>14
    <3>2. Lag(Number(b)) # Lag(frame_number)
      <4>1. Number(b) # frame_number
        BY <2>11, <3>1
      <4> QED
        BY <1>1, <2>8, <4>1, LagOnce
    <3> QED
      BY <1>1, <2>8, <2>10, <3>1, <3>2
  <2>15. ASSUME NEW b \in Coming, state'[b] = "READY"
         PROVE  ~ empty'[b] /\ Lag(Number(b)) < Window
    <3>1. b \in Bufs /\ state[b] \in {"READY", "SAVE_SET"} /\ b # active_buf
      BY <1>0, <2>2, <2>3, <2>8, <2>15
    <3>2. CASE state[b] = "READY"
      <4>1. ~ empty[b] /\ Lag(Number(b)) < Window
        BY <3>1, <3>2 DEF Ordered, InOrder
      <4> QED
        BY <2>1, <3>1, <4>1
    <3>3. CASE state[b] = "SAVE_SET"
      <4>1. ~ empty'[b]
        BY <2>1, <3>1, <3>3 DEF Finished
      <4>2. Lag(Number(b)) <= Lag(frame_number) /\ Lag(frame_number) <= Window
        BY <1>1, <2>10, <3>1 DEF NotTooLate
      <4>3. ASSUME Lag(Number(b)) = Window  PROVE FALSE
        <5>1. Lag(frame_number) = Window
          BY <1>1, <3>1, <4>2, <4>3
        <5>2. active_buf # NULL
          BY <1>0, <5>1 DEF NotTooLate
        <5>3. Number(b) = frame_number
          BY <1>1, <3>1, <4>3, <5>1, LagOnce
        <5>4. active_buf \in Coming /\ Number(active_buf) = frame_number
          BY <5>2 DEF Coming, Number, FreshInv, StageInv, TypeOK, OnePerStage
        <5> QED
          BY <2>11, <3>1, <5>3, <5>4
      <4> QED
        BY <1>1, <3>1, <4>1, <4>2, <4>3
    <3> QED
      BY <3>1, <3>2, <3>3
  <2>16. InOrder'
    <3>1. \A b \in Coming' : Lag(Number(b))' \in 1 .. Lag(frame_number)'
      BY <2>4, <2>6, <2>7, <2>8, <2>10
    <3>2. \A b, c \in Coming' : Number(b)' = Number(c)' => b = c
      BY <2>4, <2>5, <2>8, <2>11
    <3>3. frame_number' = last' \/ \E b \in Coming' : Number(b)' = frame_number'
      BY <1>0, <1>3, <2>4, <2>5, <2>8, <2>12
    <3>4. \A b, c \in Coming' \ {active_buf'} :
            state'[b] = "READY" /\ state'[c] = "SAVE_SET" => Lag(Number(b))' < Lag(Number(c))'
      BY <2>4, <2>6, <2>8, <2>14
    <3>5. \A b \in Coming' \ {active_buf'} :
            /\ state'[b] # "LOAD_SET"
            /\ state'[b] = "READY" => ~ empty'[b] /\ Lag(Number(b))' < Window
      BY <2>3, <2>4, <2>6, <2>8, <2>15
    <3> QED
      BY <3>1, <3>2, <3>3, <3>4, <3>5 DEF InOrder, Window
  <2>17. NotTooLate'
    <3>1. Lag(frame_number)' <= Window
      BY <2>7 DEF NotTooLate
    <3>2. Lag(frame_number)' = Window => \E b \in Coming' : state'[b] = "READY"
      <4>1. Lag(frame_number) = Window =>
              \E b \in Coming \ {active_buf} : state[b] \in {"READY", "SAVE_SET"}
        BY <1>0 DEF NotTooLate
      <4> QED
        BY <2>3, <2>4, <2>7, <2>8, <4>1
    <3> QED
      BY <1>0, <1>3, <2>1, <3>1, <3>2 DEF NotTooLate, Window
  <2> QED
    BY <2>9, <2>16, <2>17 DEF Ordered
<1>4. UNCHANGED <<statVars, work>> \/ (StatIsr /\ "SAVE" \in pd /\ UNCHANGED <<frame_number, locked_buf>>)
  BY DEF IsrSave, statVars
<1> QED
  BY <1>2, <1>3, <1>4

\* What the worker takes is the oldest, and within the window.
LEMMA TakesOldest ==
  ASSUME FrameMod >= 4, FreshInv, Ordered, isr = "idle"
  PROVE  LET c == isp_stat_buf_find_oldest IN
         /\ (\E b \in Coming : state[b] = "READY") => c # NULL
         /\ c # NULL =>
              /\ c \in Coming /\ state[c] = "READY" /\ Number(c) = bufFrame[c]
              /\ Lag(Number(c)) < Window
              /\ \A b \in Coming : state[b] = "READY" => Lag(Number(c)) <= Lag(Number(b))
<1> DEFINE ready == {b \in {d \in Bufs : ~ InUse(d) /\ ~ empty[d]} : state[b] = "READY"}
           oldest == isp_stat_buf_find_oldest
<1>0. active_buf # NULL => state[active_buf] = "LOAD_SET"
  BY DEF FreshInv, StageInv, ActiveHeld
<1>1. oldest = Oldest(ready, bufFrame)
  BY DEF isp_stat_buf_find_oldest, OldestReady
<1>2. ASSUME NEW b \in Coming, state[b] = "READY"
      PROVE  b \in ready /\ Number(b) = bufFrame[b] /\ Lag(bufFrame[b]) < Window
  <2>1. b \in Bufs /\ b # locked_buf /\ b # active_buf
    BY <1>0, <1>2, NullAssumption, BufsAssumption DEF Coming, Bufs
  <2>2. ~ empty[b] /\ Lag(Number(b)) < Window
    BY <1>2, <2>1 DEF Ordered, InOrder
  <2> QED
    BY <1>2, <2>1, <2>2 DEF Number, InUse
<1>3. ASSUME NEW b \in ready  PROVE b \in Coming /\ state[b] = "READY"
  BY <1>3 DEF Coming, InUse
<1>4. ready \in SUBSET Bufs /\ bufFrame \in [Bufs -> Numbers] /\ last \in Numbers
      /\ NULL \notin ready
  BY NullAssumption, BufsAssumption DEF Ordered, NumbersOK, Bufs
<1> HIDE DEF ready, oldest
<1>5. \A b \in ready : Lag(bufFrame[b]) < Window
  BY <1>2, <1>3
<1>6. \A r \in ready : oldest \in ready /\ Lag(bufFrame[oldest]) <= Lag(bufFrame[r])
  BY <1>1, <1>4, <1>5, OldestIsOldest
<1>7. oldest # NULL => oldest \in ready
  BY <1>1, <1>4, OldestFound
<1>8. (\E b \in Coming : state[b] = "READY") => oldest # NULL
  BY <1>2, <1>4, <1>6
<1>9. oldest # NULL =>
        /\ oldest \in Coming /\ state[oldest] = "READY" /\ Number(oldest) = bufFrame[oldest]
        /\ Lag(Number(oldest)) < Window
        /\ \A b \in Coming : state[b] = "READY" => Lag(Number(oldest)) <= Lag(Number(b))
  BY <1>2, <1>3, <1>6, <1>7
<1> QED
  BY <1>8, <1>9 DEF oldest

\* The numbers are counted anew from the statistics the worker takes.
LEMMA GetOrder ==
  ASSUME FrameMod >= 4, FreshInv, Ordered, NotTooLate, WorkGet,
         isp_stat_buf_find_oldest # NULL
  PROVE  Ordered' /\ NotTooLate' /\ (last' - last) % FrameMod < Window
<1> DEFINE c == isp_stat_buf_find_oldest
<1>0. /\ isr = "idle" /\ pd = {} /\ wk = "get" /\ locked_buf = NULL /\ NULL \notin Bufs
      /\ UNCHANGED <<state, empty, bufFrame, frame_number, active_buf, isr, pd>>
      /\ locked_buf' = c /\ last' = bufFrame[c]
  BY NullAssumption, BufsAssumption
     DEF WorkGet, WorkAt, hwVars, Bufs, FreshInv, StageInv, LockedHeld
<1>1. /\ c \in Coming /\ state[c] = "READY" /\ Number(c) = bufFrame[c] /\ Lag(Number(c)) < Window
      /\ \A b \in Coming : state[b] = "READY" => Lag(Number(c)) <= Lag(Number(b))
  BY <1>0, TakesOldest
<1> HIDE DEF c
<1>2. /\ Window \in Nat /\ Lag(frame_number) \in Nat /\ last \in Numbers /\ frame_number \in Numbers
      /\ \A b \in Bufs : Number(b) \in Numbers /\ Lag(Number(b)) \in Nat
  BY WindowIs, LagTypes DEF Ordered, FreshInv
<1>3. Coming \subseteq Bufs /\ Coming' = Coming \ {c}
  BY <1>0 DEF Coming
<1>4. \A b : Number(b)' = Number(b)
  BY <1>0 DEF Number
<1>5. c # active_buf
  BY <1>0, <1>1, <1>3 DEF FreshInv, StageInv, ActiveHeld
<1>6. \A b \in Coming : Lag(Number(b)) \in 1 .. Lag(frame_number)
  BY DEF Ordered, InOrder
<1>7. ASSUME NEW b \in Coming, b # c  PROVE Lag(Number(c)) < Lag(Number(b))
  <2>1. b \in Bufs /\ c \in Bufs /\ Lag(Number(b)) # Lag(Number(c))
    <3>1. Number(b) # Number(c)
      BY <1>1, <1>7 DEF Ordered, InOrder
    <3> QED
      BY <1>1, <1>2, <1>3, <3>1, LagOnce
  <2>2. CASE b = active_buf
    <3>1. Number(b) = frame_number
      BY <2>2 DEF Number
    <3> QED
      BY <1>1, <1>2, <1>6, <2>1, <3>1
  <2>3. CASE b # active_buf /\ state[b] = "READY"
    BY <1>1, <1>2, <2>1, <2>3
  <2>4. CASE b # active_buf /\ state[b] = "SAVE_SET"
    BY <1>1, <1>5, <1>7, <2>4 DEF Ordered, InOrder
  <2>5. state[b] \in Stages /\ (b # active_buf => state[b] # "IDLE" /\ state[b] # "LOAD_SET")
    BY <2>1 DEF Coming, Ordered, InOrder, FreshInv, StageInv, TypeOK
  <2> QED
    BY <2>2, <2>3, <2>4, <2>5 DEF Stages
<1>8. last' = Number(c) /\ last' \in Numbers /\ Lag(last') = Lag(Number(c))
  BY <1>0, <1>1, <1>2, <1>3
<1>9. \A n \in Numbers : Lag(Number(c)) <= Lag(n) => (n - last') % FrameMod = Lag(n) - Lag(Number(c))
  BY <1>2, <1>8, LagFrom
<1>10. Lag(frame_number)' = Lag(frame_number) - Lag(Number(c)) /\ Lag(Number(c)) \in 1 .. Lag(frame_number)
  <2>1. Lag(Number(c)) \in 1 .. Lag(frame_number)
    BY <1>1, <1>6
  <2>2. Lag(Number(c)) <= Lag(frame_number)
    BY <1>2, <2>1
  <2>3. Lag(frame_number)' = (frame_number - last') % FrameMod
    BY <1>0 DEF Lag
  <2> QED
    BY <1>2, <1>9, <2>1, <2>2, <2>3
<1>11. ASSUME NEW b \in Coming'
       PROVE  Lag(Number(b))' = Lag(Number(b)) - Lag(Number(c)) /\ b \in Coming /\ b # c
  <2>1. b \in Coming /\ b # c /\ b \in Bufs /\ c \in Bufs
    BY <1>1, <1>3, <1>11
  <2>2. Lag(Number(c)) <= Lag(Number(b))
    BY <1>2, <1>7, <2>1
  <2>3. Lag(Number(b))' = (Number(b) - last') % FrameMod
    BY <1>4 DEF Lag
  <2> QED
    BY <1>2, <1>9, <2>1, <2>2, <2>3
<1>12. NumbersOK'
  BY <1>0, <1>8 DEF Ordered, NumbersOK
<1>13. InOrder'
  <2>1. ASSUME NEW b \in Coming'  PROVE Lag(Number(b))' \in 1 .. Lag(frame_number)'
    <3>1. b \in Bufs /\ Lag(Number(c)) < Lag(Number(b)) /\ Lag(Number(b)) \in 1 .. Lag(frame_number)
      BY <1>3, <1>6, <1>7, <1>11, <2>1
    <3> QED
      BY <1>1, <1>2, <1>3, <1>10, <1>11, <2>1, <3>1
  <2>2. \A b, d \in Coming' : Number(b)' = Number(d)' => b = d
    BY <1>3, <1>4 DEF Ordered, InOrder
  <2>3. frame_number' = last' \/ \E b \in Coming' : Number(b)' = frame_number'
    <3>1. frame_number # last
      BY <1>2, <1>10, LagOnce
    <3>2. PICK b \in Coming : Number(b) = frame_number
      BY <3>1 DEF Ordered, InOrder
    <3> QED
      BY <1>0, <1>3, <1>4, <1>8, <3>2
  <2>4. \A b, d \in Coming' \ {active_buf'} :
          state'[b] = "READY" /\ state'[d] = "SAVE_SET" => Lag(Number(b))' < Lag(Number(d))'
    <3> SUFFICES ASSUME NEW b \in Coming' \ {active_buf'}, NEW d \in Coming' \ {active_buf'},
                        state'[b] = "READY", state'[d] = "SAVE_SET"
                 PROVE  Lag(Number(b))' < Lag(Number(d))'
      OBVIOUS
    <3>1. b \in Bufs /\ d \in Bufs /\ c \in Bufs
      BY <1>1, <1>3
    <3>2. Lag(Number(b)) < Lag(Number(d))
      BY <1>0, <1>3 DEF Ordered, InOrder
    <3> QED
      BY <1>2, <1>11, <3>1, <3>2
  <2>5. \A b \in Coming' \ {active_buf'} :
          /\ state'[b] # "LOAD_SET"
          /\ state'[b] = "READY" => ~ empty'[b] /\ Lag(Number(b))' < Window
    <3> SUFFICES ASSUME NEW b \in Coming' \ {active_buf'}
                 PROVE  /\ state'[b] # "LOAD_SET"
                        /\ state'[b] = "READY" => ~ empty'[b] /\ Lag(Number(b))' < Window
      OBVIOUS
    <3>1. b \in Bufs /\ c \in Bufs
      BY <1>1, <1>3
    <3>2. /\ state'[b] # "LOAD_SET"
          /\ state'[b] = "READY" => ~ empty'[b] /\ Lag(Number(b)) < Window
      BY <1>0, <1>3 DEF Ordered, InOrder
    <3>3. Lag(Number(b))' <= Lag(Number(b))
      BY <1>2, <1>11, <3>1
    <3> QED
      BY <1>2, <1>11, <3>1, <3>2, <3>3
  <2> QED
    BY <2>1, <2>2, <2>3, <2>4, <2>5 DEF InOrder, Window
<1>14. NotTooLate'
  <2>1. Lag(frame_number)' < Window
    BY <1>1, <1>2, <1>3, <1>10 DEF NotTooLate
  <2>2. Lag(frame_number)' <= Window /\ Lag(frame_number)' # Window
    BY <1>1, <1>2, <1>3, <1>10, <2>1
  <2> QED
    BY <1>0, <2>2 DEF NotTooLate, Window
<1>15. (last' - last) % FrameMod < Window
  BY <1>1, <1>8 DEF Lag
<1> QED
  BY <1>12, <1>13, <1>14, <1>15 DEF Ordered

\* The rest of the worker: the buffer it holds is not to come any more.
LEMMA WorkerOrder ==
  ASSUME FrameMod >= 4, FreshInv, Ordered, NotTooLate, Worker
  PROVE  Ordered' /\ NotTooLate'
<1> USE DEF statVars, flagVars, hwVars, history
<1>0. isr = "idle" /\ pd = {} /\ isr' = "idle" /\ pd' = {} /\ NULL \notin Bufs
  BY NullAssumption, BufsAssumption
     DEF Worker, WorkTake, WorkGet, WorkCopied, WorkEmpty, WorkRelease, WorkPublish, WorkAt, Bufs
<1>1. CASE WorkGet /\ isp_stat_buf_find_oldest # NULL
  BY <1>1, GetOrder
<1>2. ASSUME UNCHANGED <<bufFrame, frame_number, last, active_buf, inFrame>>,
             Coming' = Coming,
             \A b \in Coming \ {active_buf} : state'[b] = state[b] /\ empty'[b] = empty[b],
             Lag(frame_number) = Window =>
               /\ active_buf = NULL /\ ~ inFrame
               /\ work' \/ wk' = "get"
               /\ \E b \in Coming : state[b] = "READY"
      PROVE  Ordered' /\ NotTooLate'
  <2>1. Ordered'
    BY <1>2, OrderStays DEF FreshInv
  <2>2. Lag(frame_number)' = Lag(frame_number)
    BY <1>2 DEF Lag
  <2>3. Lag(frame_number) <= Window
    BY DEF NotTooLate
  <2>4. Coming \subseteq Bufs
    BY DEF Coming
  <2>5. Lag(frame_number)' = Window =>
          /\ active_buf' = NULL /\ ~ inFrame'
          /\ work' \/ wk' = "get"
          /\ \E b \in Coming' : state'[b] = "READY"
    BY <1>0, <1>2, <2>2, <2>4
  <2> QED
    BY <1>0, <2>1, <2>2, <2>3, <2>5 DEF NotTooLate, Window
<1>3. Lag(frame_number) = Window =>
        \/ ~ work /\ wk = "idle"
        \/ active_buf = NULL /\ ~ inFrame /\ (work \/ wk = "get") /\ \E b \in Coming : state[b] = "READY"
  BY DEF NotTooLate
<1>4. CASE WorkTake
  <2>1. /\ UNCHANGED <<state, empty, bufFrame, frame_number, last, active_buf, locked_buf, inFrame>>
        /\ work /\ wk' = "get"
    BY <1>4 DEF WorkTake
  <2>2. Coming' = Coming
    BY <2>1 DEF Coming
  <2> QED
    BY <1>2, <1>3, <2>1, <2>2
<1>5. CASE WorkGet /\ isp_stat_buf_find_oldest = NULL
  <2>1. /\ UNCHANGED <<state, empty, bufFrame, frame_number, last, active_buf, locked_buf, inFrame>>
        /\ wk = "get"
    BY <1>5 DEF WorkGet, WorkAt
  <2>2. Coming' = Coming
    BY <2>1 DEF Coming
  <2>3. ~ \E b \in Coming : state[b] = "READY"
    BY <1>0, <1>5, TakesOldest
  <2>4. Lag(frame_number) # Window
    BY <1>3, <2>1, <2>3
  <2> QED
    BY <1>2, <2>1, <2>2, <2>4
<1>6. CASE WorkCopied \/ WorkEmpty \/ WorkRelease
  <2>1. /\ UNCHANGED <<bufFrame, frame_number, last, active_buf, inFrame, work>>
        /\ wk \in {"copy", "empty", "release"}
        /\ \/ state' = [state EXCEPT ![locked_buf] = "IDLE"] /\ empty' = empty
           \/ empty' = [empty EXCEPT ![locked_buf] = TRUE] /\ state' = state
        /\ locked_buf' = locked_buf \/ (wk = "release" /\ locked_buf' = NULL)
    <3>1. CASE WorkCopied
      BY <3>1 DEF WorkCopied, WorkAt
    <3>2. CASE WorkEmpty
      BY <3>2 DEF WorkEmpty, WorkAt
    <3>3. CASE WorkRelease
      BY <3>3 DEF WorkRelease, WorkAt
    <3> QED
      BY <1>6, <3>1, <3>2, <3>3
  <2>2. /\ locked_buf \in Bufs /\ active_buf # locked_buf /\ DOMAIN state = Bufs /\ DOMAIN empty = Bufs
        /\ state[locked_buf] \in {"READY", "IDLE"} /\ (wk = "release" => state[locked_buf] = "IDLE")
    BY <1>0, <2>1 DEF FreshInv, StageInv, TypeOK, LockedHeld, OnePerStage
  <2>3. \A b \in Bufs \ {locked_buf} : state'[b] = state[b] /\ empty'[b] = empty[b]
    BY <2>1, <2>2
  <2>4. wk = "release" => state'[locked_buf] = "IDLE"
    BY <2>1, <2>2
  <2>5. Coming' = Coming
    BY <1>0, <2>1, <2>2, <2>3, <2>4 DEF Coming
  <2>6. \A b \in Coming \ {active_buf} : state'[b] = state[b] /\ empty'[b] = empty[b]
    BY <2>3 DEF Coming
  <2>7. ASSUME Lag(frame_number) = Window
        PROVE  /\ active_buf = NULL /\ ~ inFrame /\ work'
               /\ \E b \in Coming : state[b] = "READY"
    BY <1>3, <2>1, <2>7
  <2> QED
    BY <1>2, <2>1, <2>5, <2>6, <2>7
<1>7. CASE WorkPublish
  <2>1. /\ UNCHANGED <<state, empty, bufFrame, frame_number, last, active_buf, locked_buf, inFrame, work>>
        /\ wk = "publish"
    BY <1>7 DEF WorkPublish, WorkAt
  <2>2. Coming' = Coming
    BY <2>1 DEF Coming
  <2> QED
    BY <1>2, <1>3, <2>1, <2>2
<1> QED
  BY <1>1, <1>4, <1>5, <1>6, <1>7 DEF Worker

\* The inductive invariant of the order: from the statistics taken last, the
\* numbers of those to come stay within half the width of frame_number.
THEOREM OrderInductive ==
  ASSUME Prompt, STAT_MAX_BUFS >= 3, FrameMod >= 4
  PROVE  Spec => []OrderInv
<1> DEFINE Counted == Ordered /\ NotTooLate
<1>1. Init => Counted
  <2> SUFFICES ASSUME Init  PROVE Ordered /\ NotTooLate
    OBVIOUS
  <2>1. 0 \in Numbers /\ Window \in Nat /\ Window >= 2 /\ NULL \notin Bufs
    BY FrameAssumption, WindowIs, NullAssumption, BufsAssumption DEF Numbers, Bufs
  <2>2. NumbersOK
    BY <2>1 DEF Init, NumbersOK
  <2>3. Coming = {}
    BY <2>1 DEF Init, Coming
  <2>4. InOrder
    BY <2>3 DEF Init, InOrder
  <2>5. Lag(frame_number) = 0
    BY <2>1, LagOnce DEF Init
  <2>6. Lag(frame_number) <= Window /\ Lag(frame_number) # Window /\ 0 < Window - 1
    BY <2>1, <2>5
  <2>7. NotTooLate
    BY <2>5, <2>6 DEF Init, NotTooLate
  <2> QED
    BY <2>2, <2>4, <2>7 DEF Ordered
<1>2. FreshInv /\ Counted /\ [Next]_vars => Counted'
  <2> SUFFICES ASSUME FreshInv, Ordered, NotTooLate, [Next]_vars  PROVE Ordered' /\ NotTooLate'
    OBVIOUS
  <2>1. CASE Hw
    BY <2>1, HwOrder
  <2>2. CASE IsrEnter
    BY <2>2, EnterOrder
  <2>3. CASE IsrLoad
    BY <2>3, LoadOrder
  <2>4. CASE IsrCheck \/ IsrLoaded
    BY <2>4, CheckOrder
  <2>5. CASE IsrSave
    BY <2>5, SaveOrder
  <2>6. CASE Worker
    BY <2>6, WorkerOrder
  <2>7. CASE UNCHANGED vars
    <3>1. UNCHANGED <<state, empty, bufFrame, frame_number, last, active_buf, locked_buf, work, wk,
                      isr, pd, inFrame>>
      BY <2>7 DEF vars, statVars, hwVars, history
    <3>2. Coming' = Coming
      BY <3>1 DEF Coming
    <3>3. Ordered'
      BY <3>1, <3>2, OrderStays DEF FreshInv
    <3>4. Lag(frame_number)' = Lag(frame_number)
      BY <3>1 DEF Lag
    <3> QED
      BY <3>1, <3>2, <3>3, <3>4 DEF NotTooLate
  <2> QED
    BY <2>1, <2>2, <2>3, <2>4, <2>5, <2>6, <2>7 DEF Next, Isr
<1>3. FreshInv /\ Counted => OrderInv
  BY DEF Ordered, OrderInv
<1> HIDE DEF Counted
<1> QED
  BY <1>1, <1>2, <1>3, FreshInductive, PTL DEF Spec

\* The worker sees the statistics in the order of their frames, also when
\* frame_number wraps: if each interrupt is served before the hardware's next
\* event and there are three buffers.
THEOREM InOrderTaken ==
  ASSUME Prompt, STAT_MAX_BUFS >= 3, FrameMod >= 4
  PROVE  Spec => TakenInOrder
<1>1. OrderInv /\ [Next]_vars =>
        [last' # last => (last' - last) % FrameMod < FrameMod \div 2]_vars
  <2> SUFFICES ASSUME OrderInv, Next, last' # last
               PROVE  (last' - last) % FrameMod < Window
    BY DEF Window
  <2>1. WorkGet /\ isp_stat_buf_find_oldest # NULL
    BY DEF Next, Hw, FrameStart, FrameEnd, Isr, IsrEnter, IsrLoad, IsrCheck, IsrLoaded, IsrSave,
           Worker, WorkTake, WorkGet, WorkCopied, WorkEmpty, WorkRelease, WorkPublish, history
  <2> QED
    BY <2>1, GetOrder DEF OrderInv, Ordered
<1> QED
  BY <1>1, OrderInductive, PTL DEF Spec, TakenInOrder

=============================================================================
