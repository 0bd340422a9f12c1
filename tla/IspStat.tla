------------------------------ MODULE IspStat ------------------------------
(***************************************************************************)
(* The statistics buffers of the image processor, one stream session:      *)
(* src/hal/source/vin/vin_stat/vin_h3a.c and the parts of                  *)
(* src/hal/source/vin/vin_isp/sunxi_isp.c and vin_link_server.c that drive *)
(* them.  Each frame the hardware loads its parameters, the address the    *)
(* statistics go to among them, and at the end of the frame saves the      *)
(* statistics there.  The interrupt handler hands it the next buffer; a    *)
(* work item copies a finished buffer, runs the 3A algorithms on it and    *)
(* leaves new parameters for the handler to load.                          *)
(*                                                                         *)
(* Handler and worker share one core: the worker is preempted between any  *)
(* two steps.  The hardware moves in parallel with both.  Two assumptions  *)
(* about it, which the two-step life of a buffer (LOAD_SET, SAVE_SET) rests *)
(* on: the address register takes effect at the next load, and keeps its   *)
(* value until it is written again.                                        *)
(***************************************************************************)
EXTENDS Integers, FiniteSetsExt

CONSTANTS STAT_MAX_BUFS,
          FrameMod,   \* 2^w: the width of frame_number
          LostMax,    \* the frames without statistics before they are forced
          Prompt,     \* TRUE: an interrupt is handled before the hardware's
                      \* next frame event
          NULL

ASSUME BufsAssumption == STAT_MAX_BUFS \in Nat \ {0}
ASSUME FrameAssumption == FrameMod \in Nat \ {0} /\ LostMax \in Nat
ASSUME PromptAssumption == Prompt \in BOOLEAN
ASSUME NullAssumption == NULL \notin Nat

Bufs == 0 .. STAT_MAX_BUFS - 1

VARIABLES
  \* struct isp_stat and its buffers
  state, empty, bufFrame, frame_number, active_buf, locked_buf,
  \* struct isp_dev
  save_get_flag, load_flag, save_stat_end, load_stat_end, event_lost_cnt,
  f1_after_librun,
  \* the hardware: address register, address loaded, PARA_READY, pending
  \* interrupts, and whether a frame is being processed
  reg, cur, para, pd, inFrame,
  isr,        \* the handler
  work, wk,   \* the work item is queued; where the worker is
  \* history: the buffer holds statistics saved since it was handed out; the
  \* number of the statistics taken last
  saved, last

statVars == <<state, empty, bufFrame, frame_number, active_buf, locked_buf>>
flagVars == <<save_get_flag, load_flag, save_stat_end, load_stat_end,
              event_lost_cnt, f1_after_librun>>
hwVars == <<reg, cur, para, pd, inFrame>>
history == <<saved, last>>
vars == <<statVars, flagVars, hwVars, isr, work, wk, history>>

\* After isp_probe and stream on: the first buffer's address is in the
\* register, and vin_server_init may have left parameters to load.
Init ==
  /\ state = [b \in Bufs |-> "IDLE"] /\ empty = [b \in Bufs |-> TRUE]
  /\ bufFrame = [b \in Bufs |-> 0] /\ frame_number = 0
  /\ active_buf = NULL /\ locked_buf = NULL
  /\ save_get_flag = FALSE /\ load_flag \in BOOLEAN
  /\ save_stat_end = FALSE /\ load_stat_end = FALSE
  /\ event_lost_cnt = 0 /\ f1_after_librun = FALSE
  /\ reg = 0 /\ cur = 0 /\ para = TRUE /\ pd = {} /\ inFrame = FALSE
  /\ isr = "idle" /\ work = FALSE /\ wk = "idle"
  /\ saved = [b \in Bufs |-> FALSE] /\ last = 0

-----------------------------------------------------------------------------
(* Choosing a buffer: __isp_stat_buf_find.                                 *)

\* (s32)m - (s32)n < 0
Before_newest(m, n) == (m - n) % FrameMod < FrameMod \div 2 /\ m # n
Before(m, n) == (m - n) % FrameMod >= FrameMod \div 2

InUse(b) == b = locked_buf \/ b = active_buf

\* The loop over the buffers keeps the first that is ready, and each later one
\* that is older than the one kept.
Oldest(ready, frame) ==
  LET found[n \in 0 .. STAT_MAX_BUFS] ==
        IF n = 0 THEN NULL
        ELSE IF /\ n - 1 \in ready
                /\ found[n - 1] = NULL \/ Before(frame[n - 1], frame[found[n - 1]])
          THEN n - 1 ELSE found[n - 1]
  IN found[STAT_MAX_BUFS]

OldestReady(S) == Oldest({b \in S : state[b] = "READY"}, bufFrame)

isp_stat_buf_find_oldest == OldestReady({b \in Bufs : ~ InUse(b) /\ ~ empty[b]})

Vacant == {b \in Bufs : ~ InUse(b) /\ empty[b] /\ state[b] = "IDLE"}

\* Without a vacant buffer the oldest finished one is given up.
isp_stat_buf_find_oldest_or_empty_vacant ==
  IF Vacant = {} THEN NULL ELSE Min(Vacant)
isp_stat_buf_find_oldest_or_empty ==
  IF Vacant = {} THEN OldestReady({b \in Bufs : ~ InUse(b)}) ELSE Min(Vacant)

-----------------------------------------------------------------------------
(* The hardware.                                                           *)

MayMove == Prompt => pd = {} /\ isr = "idle"

\* Bound: a worker with work to do lags behind by less than half the width of
\* frame_number (2^31 frames in the code), so that the difference has a sign.
InWindow ==
  work \/ wk # "idle" => (frame_number - last) % FrameMod < FrameMod \div 2 - 1

\* The frame begins with a load, when the parameters are ready.  Whether the
\* load clears PARA_READY is the hardware's affair.
FrameStart ==
  /\ MayMove /\ InWindow
  /\ ~ inFrame /\ inFrame' = TRUE
  /\ IF para
       THEN cur' = reg /\ pd' = pd \cup {"LOAD"} /\ para' \in BOOLEAN
       ELSE UNCHANGED <<cur, pd, para>>
  /\ UNCHANGED <<statVars, flagVars, reg, isr, work, wk, history>>

FrameEnd ==
  /\ MayMove
  /\ inFrame /\ inFrame' = FALSE
  /\ pd' = pd \cup {"SAVE"}
  /\ saved' = [saved EXCEPT ![cur] = TRUE]
  /\ UNCHANGED <<statVars, flagVars, reg, cur, para, isr, work, wk, last>>

Hw == FrameStart \/ FrameEnd

-----------------------------------------------------------------------------
(* The interrupt handler: isp_isr.                                         *)

Wanted == save_get_flag \/ load_flag \/ event_lost_cnt = LostMax

LoadSetPending == \E b \in Bufs : state[b] = "LOAD_SET"

IsrEnter ==
  /\ isr = "idle" /\ pd # {}
  /\ isr' = IF "LOAD" \in pd THEN "load" ELSE "save"
  /\ UNCHANGED <<statVars, flagVars, hwVars, work, wk, history>>

\* isp_stat_load_set, when a buffer is wanted and none waits to be loaded:
\* number the frame, pick a buffer and write its address.
IsrLoad ==
  /\ isr = "load"
  /\ pd' = pd \ {"LOAD"}
  /\ IF Wanted /\ ~ LoadSetPending
       THEN /\ frame_number' = (frame_number + 1) % FrameMod
            /\ active_buf' = isp_stat_buf_find_oldest_or_empty
            /\ IF active_buf' = NULL
                 THEN isr' = "loaded" /\ UNCHANGED <<reg, saved>>
                 ELSE /\ isr' = "check"
                      /\ reg' = active_buf'
                      /\ saved' = [saved EXCEPT ![active_buf'] = FALSE]
       ELSE isr' = "loaded" /\ UNCHANGED <<frame_number, active_buf, reg, saved>>
  /\ UNCHANGED <<state, empty, bufFrame, locked_buf, flagVars, cur, para,
                 inFrame, work, wk, last>>

\* A load that came meanwhile may have taken either address: give up the
\* buffer, which leaves the register pointing at it.
IsrCheck ==
  /\ isr = "check"
  /\ IF "LOAD" \in pd
       THEN active_buf' = NULL /\ UNCHANGED state
       ELSE state' = [state EXCEPT ![active_buf] = "LOAD_SET"] /\ UNCHANGED active_buf
  /\ isr' = "loaded"
  /\ UNCHANGED <<empty, bufFrame, frame_number, locked_buf, flagVars, hwVars,
                 work, wk, history>>

\* The rest of the load interrupt; the parameters are ready again.
IsrLoaded ==
  LET done == save_stat_end \/ Wanted IN
  /\ isr = "loaded"
  /\ save_stat_end' = (done /\ ~ load_stat_end)
  /\ load_stat_end' = (load_stat_end /\ ~ done)
  /\ load_flag' = (load_flag /\ ~ (done /\ load_stat_end))
  /\ para' = TRUE
  /\ isr' = "save"
  /\ UNCHANGED <<statVars, save_get_flag, event_lost_cnt, f1_after_librun, reg,
                 cur, pd, inFrame, work, wk, history>>

\* The life of a buffer: its address was written, was loaded, was saved to.
Finished_early(s) == s = "LOAD_SET"
Finished(s) == s = "SAVE_SET"

Advanced(s) ==
  CASE Finished(s) -> "READY" [] s = "LOAD_SET" -> "SAVE_SET" [] OTHER -> s

\* isp_stat_isr, and the work item queued behind it.
StatIsr ==
  /\ state' = [b \in Bufs |-> Advanced(state[b])]
  /\ empty' = [b \in Bufs |-> empty[b] /\ ~ Finished(state[b])]
  /\ save_get_flag' = (\A b \in Bufs : ~ Finished(state[b]))
  /\ bufFrame' = [b \in Bufs |-> IF b = active_buf THEN frame_number ELSE bufFrame[b]]
  /\ active_buf' = NULL
  /\ work' = TRUE

LostCount_stuck == event_lost_cnt
LostCount == event_lost_cnt + 1

\* The save interrupt: the first one always, then those that are wanted.
IsrSave ==
  /\ isr = "save" /\ isr' = "idle"
  /\ IF "SAVE" \notin pd
       THEN UNCHANGED <<statVars, flagVars, pd, work>>
       ELSE /\ pd' = pd \ {"SAVE"}
            /\ f1_after_librun' = TRUE
            /\ IF ~ f1_after_librun \/ Wanted
                 THEN StatIsr
                 ELSE UNCHANGED <<state, empty, bufFrame, active_buf, save_get_flag, work>>
            /\ LET loaded == load_stat_end \/ (f1_after_librun /\ Wanted) IN
               /\ load_stat_end' = (loaded /\ ~ save_stat_end)
               /\ save_stat_end' = (save_stat_end /\ ~ loaded)
               /\ load_flag' = (load_flag /\ ~ (loaded /\ save_stat_end))
            /\ event_lost_cnt' = IF ~ f1_after_librun THEN event_lost_cnt
                                 ELSE IF Wanted THEN 0 ELSE LostCount
            /\ UNCHANGED <<frame_number, locked_buf>>
  /\ UNCHANGED <<reg, cur, para, inFrame, wk, history>>

Isr == IsrEnter \/ IsrLoad \/ IsrCheck \/ IsrLoaded \/ IsrSave

-----------------------------------------------------------------------------
(* The worker: __isp_server_run_handle.                                    *)

WorkAt(pc) == wk = pc /\ isr = "idle" /\ pd = {}

WorkTake ==
  /\ WorkAt("idle") /\ work
  /\ work' = FALSE /\ wk' = "get"
  /\ UNCHANGED <<statVars, flagVars, hwVars, isr, history>>

\* isp_stat_buf_get: without a buffer the work is over.
WorkGet ==
  /\ WorkAt("get")
  /\ IF isp_stat_buf_find_oldest = NULL
       THEN wk' = "idle" /\ UNCHANGED <<locked_buf, last>>
       ELSE /\ wk' = "copy"
            /\ locked_buf' = isp_stat_buf_find_oldest
            /\ last' = bufFrame[locked_buf']
  /\ UNCHANGED <<state, empty, bufFrame, frame_number, active_buf, flagVars,
                 hwVars, isr, work, saved>>

\* The copy has ended; the buffer's fields change without the lock.
WorkCopied ==
  /\ WorkAt("copy")
  /\ state' = [state EXCEPT ![locked_buf] = "IDLE"]
  /\ wk' = "empty"
  /\ UNCHANGED <<empty, bufFrame, frame_number, active_buf, locked_buf,
                 flagVars, hwVars, isr, work, history>>

WorkEmpty ==
  /\ WorkAt("empty")
  /\ empty' = [empty EXCEPT ![locked_buf] = TRUE]
  /\ wk' = "release"
  /\ UNCHANGED <<state, bufFrame, frame_number, active_buf, locked_buf,
                 flagVars, hwVars, isr, work, history>>

\* isp_stat_buf_release.
WorkRelease ==
  /\ WorkAt("release")
  /\ state' = [state EXCEPT ![locked_buf] = "IDLE"]
  /\ locked_buf' = NULL
  /\ wk' = "publish"
  /\ UNCHANGED <<empty, bufFrame, frame_number, active_buf, flagVars, hwVars,
                 isr, work, history>>

\* The algorithms ran: isp_set_load_reg.
WorkPublish ==
  /\ WorkAt("publish")
  /\ load_flag' = TRUE
  /\ wk' = "idle"
  /\ UNCHANGED <<statVars, save_get_flag, save_stat_end, load_stat_end,
                 event_lost_cnt, f1_after_librun, hwVars, isr, work, history>>

Worker == \/ WorkTake \/ WorkGet \/ WorkCopied \/ WorkEmpty \/ WorkRelease
          \/ WorkPublish

-----------------------------------------------------------------------------

Next == Hw \/ Isr \/ Worker

Spec == Init /\ [][Next]_vars

\* Frames keep coming, interrupts are taken, the worker is scheduled: it
\* needs the core between two interrupts again and again.
Fairness == WF_vars(Hw) /\ WF_vars(Isr) /\ SF_vars(Worker)

FairSpec == Spec /\ Fairness

-----------------------------------------------------------------------------

\* One buffer at a time waits to be loaded and one to be saved to, and the
\* buffer the worker holds is neither, although it changes fields without
\* the lock.
OnePerStage ==
  /\ \A b, d \in Bufs :
       state[b] = state[d] /\ state[b] \in {"LOAD_SET", "SAVE_SET"} => b = d
  /\ locked_buf # NULL => state[locked_buf] \in {"READY", "IDLE"}
  /\ active_buf # NULL => active_buf # locked_buf

Stages == {"IDLE", "LOAD_SET", "SAVE_SET", "READY"}

TypeOK ==
  /\ state \in [Bufs -> Stages] /\ empty \in [Bufs -> BOOLEAN] /\ saved \in [Bufs -> BOOLEAN]
  /\ active_buf \in Bufs \cup {NULL} /\ locked_buf \in Bufs \cup {NULL}
  /\ reg \in Bufs /\ cur \in Bufs /\ para \in BOOLEAN /\ inFrame \in BOOLEAN
  /\ pd \subseteq {"LOAD", "SAVE"}
  /\ isr \in {"idle", "load", "check", "loaded", "save"}
  /\ wk \in {"idle", "get", "copy", "empty", "release", "publish"}

\* The worker holds a buffer from its choice to its release.
LockedHeld ==
  /\ locked_buf # NULL <=> wk \in {"copy", "empty", "release"}
  /\ wk = "copy" => state[locked_buf] = "READY"
  /\ wk \in {"empty", "release"} => state[locked_buf] = "IDLE"
  /\ wk = "release" => empty[locked_buf]

\* The handler has chosen a buffer until its first save interrupt.
ActiveHeld ==
  /\ active_buf # NULL => isr = "check" \/ state[active_buf] = "LOAD_SET"
  /\ isr = "check" => /\ active_buf # NULL /\ state[active_buf] \in {"READY", "IDLE"}
                      /\ ~ LoadSetPending

\* A buffer that is idle can be handed out, but for the one being emptied.
IdleIsEmpty ==
  \A b \in Bufs : state[b] = "IDLE" => empty[b] \/ (b = locked_buf /\ wk = "empty")

StageInv == TypeOK /\ LockedHeld /\ ActiveHeld /\ IdleIsEmpty /\ OnePerStage

\* A frame and its interrupts, if each is served before the next event.
InTurn ==
  /\ IF inFrame THEN "SAVE" \notin pd ELSE "LOAD" \notin pd /\ isr \in {"idle", "save"}
  /\ isr = "load" => "LOAD" \in pd
  /\ isr \in {"check", "loaded", "save"} => "LOAD" \notin pd
  /\ isr = "save" /\ ~ inFrame => "SAVE" \in pd
  /\ para \/ "LOAD" \in pd \/ isr \in {"check", "loaded"}

\* Where the statistics of a buffer are, from its choice to the worker: the
\* register has its address, the hardware has loaded it, it is saved.
OnItsWay ==
  /\ isr = "check" => reg = active_buf
  /\ \A b \in Bufs :
       \/ saved[b] \/ state[b] = "IDLE"
       \/ state[b] = "READY" /\ b = active_buf
       \/ state[b] = "LOAD_SET" /\ reg = b
       \/ state[b] = "SAVE_SET" /\ inFrame /\ cur = b
       \/ state[b] = "SAVE_SET" /\ ~ inFrame /\ reg = b /\ "SAVE" \notin pd

FreshInv == StageInv /\ (Prompt => InTurn /\ OnItsWay)

\* The numbers of the statistics, counted from those taken last.
Window == FrameMod \div 2
Lag(n) == (n - last) % FrameMod
Numbers == 0 .. FrameMod - 1

\* The buffers whose statistics the worker can still get, and their number: a
\* buffer gets the number of the frame when the handler next looks at it.
Coming == {b \in Bufs : b # locked_buf /\ (state[b] # "IDLE" \/ b = active_buf)}
Number(b) == IF b = active_buf THEN frame_number ELSE bufFrame[b]

NumbersOK == bufFrame \in [Bufs -> Numbers] /\ frame_number \in Numbers /\ last \in Numbers

\* They have different numbers since the last, the one with the newest number
\* among them, and those that are ready are older than those to come.
InOrder ==
  /\ \A b \in Coming : Lag(Number(b)) \in 1 .. Lag(frame_number)
  /\ \A b, c \in Coming : Number(b) = Number(c) => b = c
  /\ frame_number = last \/ \E b \in Coming : Number(b) = frame_number
  /\ \A b, c \in Coming \ {active_buf} :
       state[b] = "READY" /\ state[c] = "SAVE_SET" => Lag(Number(b)) < Lag(Number(c))
  /\ \A b \in Coming \ {active_buf} :
       /\ state[b] # "LOAD_SET"
       /\ state[b] = "READY" => ~ empty[b] /\ Lag(Number(b)) < Window

\* While the worker is idle the newest number may come to the edge of the
\* window, with older statistics on their way that the worker gets first.
NotTooLate ==
  /\ isr = "load" \/ "LOAD" \in pd =>
       (work \/ wk # "idle" => Lag(frame_number) < Window - 1)
  /\ Lag(frame_number) <= Window
  /\ Lag(frame_number) = Window =>
       \/ /\ active_buf # NULL /\ ~ work /\ wk = "idle"
          /\ \E b \in Coming \ {active_buf} : state[b] \in {"READY", "SAVE_SET"}
       \/ /\ active_buf = NULL /\ ~ inFrame /\ pd = {} /\ isr = "idle"
          /\ work \/ wk = "get"
          /\ \E b \in Coming : state[b] = "READY"

OrderInv == FreshInv /\ NumbersOK /\ InOrder /\ NotTooLate

\* Three buffers are enough: with one being copied and one being written
\* there is always one to hand out, full or not.
BufferFound ==
  isr = "load" /\ ~ LoadSetPending => isp_stat_buf_find_oldest_or_empty # NULL

\* The worker never takes a buffer the hardware has not saved to since it was
\* handed out.
CopyIsFresh == wk = "copy" => saved[locked_buf]

\* The worker sees the statistics in the order of their frames, also when
\* frame_number wraps.
TakenInOrder ==
  [][last' # last => (last' - last) % FrameMod < FrameMod \div 2]_vars

\* "Don't select the buffer which is being copied to userspace or used by the
\* module" (vin_h3a.c:29): the hardware saves to no buffer being copied.
CopiedNotWritten == [][FrameEnd => ~ (wk = "copy" /\ cur = locked_buf)]_vars

\* Statistics keep reaching the worker, whatever the exchange of flags
\* between handler and worker does: frames that pass without any are counted,
\* and after LostMax of them a buffer is handed out all the same.
StatsKeepComing == []<>(wk = "copy")

=============================================================================
