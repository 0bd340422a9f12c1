---------------------------- MODULE VinPipeline ----------------------------
(***************************************************************************)
(* One run of csi_init, src/hal/source/vin/vin.c: it probes and starts the *)
(* video channels of the board one after the other, waits until auto       *)
(* exposure of each has settled, stops it and frees its sub-devices.  The  *)
(* channels of an offline board share the hardware of one logic device per *)
(* kind, which counts them.  Interrupt handlers and the work queues of the *)
(* ISPs run between any two sub-device calls.                              *)
(*                                                                         *)
(* The boards are the two tables of platform/vin_config_sun8iw21p1.c, in   *)
(* which csi_sel, mipi_sel, isp_sel and tdm_rx_sel are a video's own       *)
(* number.  Allocations and requests of interrupts succeed.                *)
(* VinPipelineProofs is about any boards that BoardAssumption admits.      *)
(*                                                                         *)
(* What freed memory holds is unknown: a counter read from a freed device  *)
(* may say anything, and the byte behind tdm_probe_flag too.               *)
(***************************************************************************)
EXTENDS Integers, Sequences, FiniteSetsExt

CONSTANTS Boards,    \* records [used: the videos, online: BOOLEAN, tdm: BOOLEAN]
          Frames     \* bound: frames until exposure has settled at the latest

ASSUME BoardAssumption ==
  \A b \in Boards :
    /\ b.used \subseteq 0 .. 3 /\ 0 \in b.used
    /\ b.online => b.used = {0}
    /\ b.tdm \in BOOLEAN
ASSUME FramesAssumption == Frames \in Nat \ {0}

VARIABLES
  board,
  todo,        \* the sub-device calls csi_init has still to make
  mem, flag,   \* of a device: its memory, its xxx_probe_flag
  count,       \* stream_count of a device, of a receiver for "tdm"
  logicCount,  \* logic_top_stream_count, stream_cnt of the TDM
  path,        \* channels switched on in the hardware
  tops,        \* kinds whose shared part is switched on
  handlers,    \* devices whose interrupt handler is installed
  work,        \* the work of an ISP's queue
  seen,        \* frames the exposure algorithm of an ISP has seen
  dmaIrq, dmaInt, dmaStatus, first_frame, vir_prosess_ch,  \* of vin_isr
  stale,       \* history: calls that read a freed device
  wild         \* the run went on with a pointer from outside an array

memory == <<mem, flag, count, logicCount, stale, wild>>
hardware == <<path, tops>>
worker == <<work, seen>>
dma == <<dmaIrq, dmaInt, dmaStatus, first_frame, vir_prosess_ch>>
vars == <<board, todo, memory, hardware, handlers, worker, dma>>

Videos == UNION {b.used : b \in Boards}
Kinds == {"mipi", "csi", "tdm", "isp", "vipp", "vinc"}
Shared == {"tdm", "isp", "vipp", "vinc"}

\* Four channels share a logic device; there is one TDM.
Logic == 0
Dev(kind, v) == <<kind, IF kind = "tdm" THEN Logic ELSE v>>
Devs == {Dev(k, v) : k \in Kinds, v \in Videos}
Channels == (Kinds \cup {"sensor"}) \X Videos

-----------------------------------------------------------------------------
(* The calls of csi_init, in their order.                                  *)

Do(op, kinds, v) == [i \in DOMAIN kinds |-> [op |-> op, kind |-> kinds[i], video |-> v]]

Tdm(b) == IF b.tdm THEN <<"tdm">> ELSE <<>>

vin_probe(b, v) == Do("probe", <<"mipi", "csi">> \o Tdm(b) \o <<"isp", "vipp", "vinc">>, v)
vin_free(b, v) == Do("remove", <<"mipi", "csi">> \o Tdm(b) \o <<"isp", "vipp", "vinc">>, v)
vin_pipeline_set_mbus_config(b, v) ==
  Do("config", <<"vinc", "mipi", "csi">> \o Tdm(b) \o <<"isp">>, v)

StreamOn(b, v) ==
  Do("on", Tdm(b) \o <<"mipi", "isp", "vipp", "vinc", "csi", "sensor">>, v)

\* ISP_SERVER_FASTINIT leaves the MIPI receiver and the sensor running.
StreamOff(b, v) == Do("off", <<"vinc", "vipp", "isp">> \o Tdm(b) \o <<"csi">>, v)

Opening(b, v) == vin_probe(b, v) \o vin_pipeline_set_mbus_config(b, v) \o StreamOn(b, v)

Closing_freeFirst(b, v) == Do("wait", <<"isp">>, v) \o vin_free(b, v) \o StreamOff(b, v)
Closing(b, v) == Do("wait", <<"isp">>, v) \o StreamOff(b, v) \o vin_free(b, v)

\* One after the other, the videos that are used.
Each(b, calls) ==
  LET Used(v) == IF v \in b.used THEN calls[v] ELSE <<>>
  IN Used(0) \o Used(1) \o Used(2) \o Used(3)

csi_init(b) ==
  Each(b, [v \in 0 .. 3 |-> Opening(b, v)])
    \o Each(b, [v \in 0 .. 3 |-> Closing(b, v)])
    \o Each(b, [v \in 0 .. 3 |-> Do("reset", <<"isp">>, v)])

Init ==
  /\ board \in Boards
  /\ todo = csi_init(board)
  /\ mem = [d \in Devs |-> "none"] /\ flag = [d \in Devs |-> FALSE]
  /\ count = [c \in Channels |-> 0] /\ logicCount = [k \in Shared |-> 0]
  /\ path = {} /\ tops = {} /\ handlers = {}
  /\ work = [v \in Videos |-> "none"] /\ seen = [v \in Videos |-> 0]
  /\ dmaIrq = FALSE /\ dmaInt = {} /\ dmaStatus = {} /\ first_frame = {} /\ vir_prosess_ch = 0
  /\ stale = {} /\ wild = FALSE

\* The next call is `op' for a device of the kind.
Call(op, kind, v) ==
  /\ todo # <<>>
  /\ Head(todo) = [op |-> op, kind |-> kind, video |-> v]
  /\ todo' = Tail(todo)
  /\ UNCHANGED board

\* The call reads these devices.
Reads(op, v, devs) ==
  stale' = stale \cup {[op |-> op, video |-> v, dev |-> d] : d \in {d \in devs : mem[d] = "freed"}}

-----------------------------------------------------------------------------
(* xxx_probe and xxx_remove.                                               *)

\* The device has an interrupt handler of its own: virtual channels of VIPP
\* and DMA have none.
HasHandler(kind, v) == kind \in {"isp", "tdm"} \/ (kind \in {"vipp", "vinc"} /\ v = Logic)

Probe(kind, v) ==
  LET d == Dev(kind, v) IN
  /\ Call("probe", kind, v)
  /\ Reads("probe", v, IF kind \in {"vipp", "vinc"} THEN {Dev(kind, Logic)} ELSE {})
  /\ IF flag[d]
       THEN UNCHANGED <<mem, flag, count, logicCount, handlers, work, vir_prosess_ch>>
       ELSE /\ flag' = [flag EXCEPT ![d] = TRUE]
            /\ mem' = [mem EXCEPT ![d] = "live"]
            /\ count' = [count EXCEPT ![<<kind, v>>] = 0]
            /\ logicCount' = IF kind \in Shared /\ v = Logic
                               THEN [logicCount EXCEPT ![kind] = 0] ELSE logicCount
            /\ handlers' = IF HasHandler(kind, v) THEN handlers \cup {d} ELSE handlers
            /\ work' = IF kind = "isp" THEN [work EXCEPT ![v] = "idle"] ELSE work
            /\ vir_prosess_ch' = IF <<kind, v>> = <<"vinc", Logic>> THEN v ELSE vir_prosess_ch
  /\ UNCHANGED <<wild, hardware, seen, dmaIrq, dmaInt, dmaStatus, first_frame>>

HandlersLeft(kind, v) == IF HasHandler(kind, v) THEN handlers \ {Dev(kind, v)} ELSE handlers

\* isp_remove keeps the device for the server, and ends its work queue.
Release(kind, v) ==
  LET d == Dev(kind, v) IN
  /\ Call("remove", kind, v)
  /\ kind = "tdm" => v = Logic
  /\ flag[d]
  /\ Reads("remove", v, {d})
  /\ flag' = [flag EXCEPT ![d] = FALSE]
  /\ mem' = IF kind = "isp" THEN mem ELSE [mem EXCEPT ![d] = "freed"]
  /\ work' = IF kind = "isp" THEN [work EXCEPT ![v] = "none"] ELSE work
  /\ handlers' = HandlersLeft(kind, v)
  /\ UNCHANGED <<count, logicCount, wild, hardware, seen, dma>>

\* tdm_remove takes its argument for the number of a TDM where tdm_probe took
\* it for a receiver's: the second video tests a flag that is not there.
ReleaseBeyond(v) ==
  /\ Call("remove", "tdm", v)
  /\ v # Logic
  /\ \/ UNCHANGED wild
     \/ wild' = TRUE
  /\ UNCHANGED <<mem, flag, count, logicCount, stale, hardware, handlers, worker, dma>>

Configure(kind, v) ==
  /\ Call("config", kind, v)
  /\ Reads("config", v, {Dev(kind, v)})
  /\ UNCHANGED <<mem, flag, count, logicCount, wild, hardware, handlers, worker, dma>>

-----------------------------------------------------------------------------
(* xxx_s_stream.                                                           *)

\* A channel is switched on by the first to count, and with it, by the first
\* of its channels, the shared part.
On(kind, v) ==
  /\ Call("on", kind, v)
  /\ Reads("on", v, IF kind = "sensor" THEN {}
                    ELSE {Dev(kind, v)} \cup IF kind \in Shared THEN {Dev(kind, Logic)} ELSE {})
  /\ count' = [count EXCEPT ![<<kind, v>>] = @ + 1]
  /\ path' = path \cup {<<kind, v>>}
  /\ IF kind \in Shared /\ count[<<kind, v>>] = 0
       THEN logicCount' = [logicCount EXCEPT ![kind] = @ + 1] /\ tops' = tops \cup {kind}
       ELSE UNCHANGED <<logicCount, tops>>
  /\ IF kind = "vinc"
       THEN dmaInt' = dmaInt \cup {v} /\ dmaStatus' = dmaStatus \ {v} /\ dmaIrq' = (dmaIrq \/ v = Logic)
       ELSE UNCHANGED <<dmaInt, dmaStatus, dmaIrq>>
  /\ UNCHANGED <<mem, flag, wild, handlers, worker, first_frame, vir_prosess_ch>>

\* What an online TDM, or the logic ISP of an offline one, switches off.
Dark_tdm(kind) == {kind}
Dark(kind) ==
  CASE kind = "isp" -> IF board.online THEN {"isp"} ELSE {"isp", "tdm"}
    [] kind = "tdm" -> IF board.online THEN {"tdm"} ELSE {}
    [] OTHER -> {kind}

\* The shared part's count goes down, and with the last channel it is
\* switched off; or its device is freed, and either may happen.
LastOff_any(kind) == TRUE
LastOff(kind) == logicCount[kind] = 1

TopOff(kind) ==
  IF mem[Dev(kind, Logic)] = "freed"
    THEN tops' \in {tops, tops \ Dark(kind)} /\ UNCHANGED logicCount
    ELSE /\ logicCount' = [logicCount EXCEPT ![kind] = @ - 1]
         /\ tops' = IF LastOff(kind) THEN tops \ Dark(kind) ELSE tops

\* isp_stop cancels the work before it disables the interrupt, which may
\* queue it again.  A receiver of a freed TDM may be left on.
Off(kind, v) ==
  /\ Call("off", kind, v)
  /\ Reads("off", v, {Dev(kind, v)} \cup IF kind \in Shared THEN {Dev(kind, Logic)} ELSE {})
  /\ count' = [count EXCEPT ![<<kind, v>>] = @ - 1]
  /\ \/ path' = path \ {<<kind, v>>}
     \/ mem[Dev(kind, v)] = "freed" /\ path' = path
  /\ IF kind \in Shared THEN TopOff(kind) ELSE UNCHANGED <<logicCount, tops>>
  /\ IF kind = "vinc"
       THEN dmaInt' = dmaInt \ {v} /\ dmaStatus' = dmaStatus \ {v} /\ dmaIrq' = (dmaIrq /\ v # Logic)
       ELSE UNCHANGED <<dmaInt, dmaStatus, dmaIrq>>
  /\ IF kind = "isp" /\ work[v] # "running"
       THEN \E left \in {"idle", "queued"} : work' = [work EXCEPT ![v] = left]
       ELSE UNCHANGED work
  /\ UNCHANGED <<mem, flag, wild, handlers, seen, first_frame, vir_prosess_ch>>

-----------------------------------------------------------------------------
(* The loop on sunxi_isp_ae_done, and sunxi_isp_reset_server.              *)

AeDone(v) == seen[v] = Frames

Wait(v) ==
  /\ Call("wait", "isp", v)
  /\ AeDone(v)
  /\ UNCHANGED <<memory, hardware, handlers, worker, dma>>

Reset(v) ==
  /\ Call("reset", "isp", v)
  /\ Reads("reset", v, {Dev("isp", v)})
  /\ UNCHANGED <<mem, flag, count, logicCount, wild, hardware, handlers, worker, dma>>

\* The DMA's interrupt line: a channel has a status and its interrupt enabled.
Asserted ==
  dmaIrq /\ Dev("vinc", Logic) \in handlers /\ dmaStatus \cap dmaInt # {}

\* A thread runs: the interrupt comes first.
ThreadRuns == ~wild /\ ~Asserted

Main ==
  /\ ThreadRuns
  /\ \/ \E k \in Kinds, v \in Videos : Probe(k, v) \/ Release(k, v) \/ Configure(k, v) \/ Off(k, v)
     \/ \E k \in Kinds \cup {"sensor"}, v \in Videos : On(k, v)
     \/ \E v \in Videos : ReleaseBeyond(v) \/ Wait(v) \/ Reset(v)

-----------------------------------------------------------------------------
(* Frames, the interrupt handlers and the work queues.                     *)

\* The way of a frame to the ISP is open.
Flows(v) ==
  /\ \A k \in {"sensor", "csi", "mipi", "isp"} : <<k, v>> \in path
  /\ "isp" \in tops
  /\ board.tdm => <<"tdm", v>> \in path /\ "tdm" \in tops

\* A frame reaches the ISP, whose handler queues its work, and the DMA.
Frame(v) ==
  /\ ~wild
  /\ Flows(v)
  /\ work' = IF Dev("isp", v) \in handlers /\ work[v] = "idle"
               THEN [work EXCEPT ![v] = "queued"] ELSE work
  /\ dmaStatus' = IF <<"vinc", v>> \in path /\ {"vipp", "vinc"} \subseteq tops
                    THEN dmaStatus \cup {v} ELSE dmaStatus
  /\ UNCHANGED <<board, todo, memory, hardware, handlers, seen, dmaIrq, dmaInt, first_frame, vir_prosess_ch>>

\* __isp_server_run_handle: nothing to do for an ISP that was stopped.
WorkBegin(v) ==
  /\ ThreadRuns
  /\ work[v] = "queued"
  /\ work' = [work EXCEPT ![v] = IF count[<<"isp", v>>] = 0 THEN "idle" ELSE "running"]
  /\ UNCHANGED <<board, todo, memory, hardware, handlers, seen, dma>>

\* The algorithms have settled, or have seen so many frames.
WorkEnd(v) ==
  /\ ThreadRuns
  /\ work[v] = "running"
  /\ work' = [work EXCEPT ![v] = "idle"]
  /\ \E n \in {seen[v] + 1, Frames} : seen' = [seen EXCEPT ![v] = Min({n, Frames})]
  /\ UNCHANGED <<board, todo, memory, hardware, handlers, dma>>

\* The channel vin_isr looks at, and where it looks next.
Looked == IF board.online THEN Logic ELSE vir_prosess_ch

NextChannel_clamped == Min({vir_prosess_ch + 1, 3})
NextChannel == (vir_prosess_ch + 1) % 4

\* One channel at each interrupt; its first frame ends its interrupts.
VinIsr ==
  /\ ~wild /\ Asserted
  /\ vir_prosess_ch' = IF board.online THEN vir_prosess_ch ELSE NextChannel
  /\ IF Looked \in dmaStatus
       THEN /\ Reads("isr", Looked, {Dev("vinc", Looked)})
            /\ dmaStatus' = dmaStatus \ {Looked}
            /\ first_frame' = first_frame \cup {Looked}
            /\ dmaInt' = IF Looked \in first_frame THEN dmaInt ELSE dmaInt \ {Looked}
       ELSE UNCHANGED <<stale, dmaStatus, first_frame, dmaInt>>
  /\ UNCHANGED <<board, todo, mem, flag, count, logicCount, wild, hardware, handlers, worker, dmaIrq>>

Next == Main \/ VinIsr \/ \E v \in Videos : Frame(v) \/ WorkBegin(v) \/ WorkEnd(v)

Spec == Init /\ [][Next]_vars

\* csi_init goes on, sensors send frames, interrupts are taken, and the work
\* queues preempt the busy loop of csi_init.
Fairness ==
  /\ WF_vars(Main) /\ WF_vars(VinIsr)
  /\ \A v \in Videos : WF_vars(Frame(v)) /\ WF_vars(WorkBegin(v)) /\ WF_vars(WorkEnd(v))

FairSpec == Spec /\ Fairness

-----------------------------------------------------------------------------

\* The shared parts a frame crosses before it leaves the kind.
Upstream(kind) ==
  CASE kind = "isp" -> {"isp"}
    [] kind = "vipp" -> {"isp", "vipp"}
    [] kind = "vinc" -> {"isp", "vipp", "vinc"}

\* Stopping one video never takes a shared part from another that still
\* streams through it, and in offline mode the top of the TDM closes after
\* the top of the ISP ("otherwise isp int will occur err").
TopsFollowStreams ==
  /\ \A v \in Videos, k \in {"isp", "vipp", "vinc"} :
       <<k, v>> \in path => Upstream(k) \subseteq tops
  /\ board.tdm /\ "isp" \in tops => "tdm" \in tops

\* No handler is installed for a device that is not there, and a freed
\* device is read only to stop a video that shared it, never to start one,
\* to free one, or in an interrupt.
FreedIsIdle ==
  /\ \A d \in handlers : mem[d] = "live"
  /\ \A r \in stale : r.op = "off" /\ r.dev = Dev(r.dev[1], Logic) /\ r.video # Logic

\* When csi_init has returned nothing is left installed or allocated but the
\* ISPs, kept for the server; ISP and TDM are dark, and so is the rest of the
\* path up to the receivers and sensors unless freed memory was read.
ShutDownComplete ==
  todo = <<>> /\ ~wild =>
    /\ handlers = {}
    /\ \A d \in Devs : mem[d] = "live" => d[1] = "isp"
    /\ tops \cap {"isp", "tdm"} = {}
    /\ stale = {} => tops = {} /\ \A c \in path : c[1] \in {"mipi", "sensor"}

\* csi_init comes back: each video it waits for keeps getting frames, though
\* others were stopped and freed before.
InitReturns == <>(todo = <<>> \/ wild)

\* The handler, which looks at one channel at each interrupt, comes to the
\* first frame of every channel whose status holds the line: it never goes
\* round the channels without end while the threads wait.
FirstFrames ==
  \A v \in Videos : Asserted /\ v \in dmaInt \cap dmaStatus ~> v \notin dmaInt

-----------------------------------------------------------------------------
(* What makes the properties inductive: where csi_init is in its calls.    *)

CallOf(op, kind, v) == [op |-> op, kind |-> kind, video |-> v]
Ops == {"probe", "config", "on", "wait", "off", "remove", "reset"}
Parts == Kinds \cup {"sensor"}
Calls == [op : Ops, kind : Parts, video : 0 .. 3]

CallsOf(s) == {s[i] : i \in DOMAIN s}
Due == CallsOf(csi_init(board))
Left == CallsOf(todo)
Ahead(op, kind, v) == CallOf(op, kind, v) \in Left

\* A number for each call, in the order in which csi_init makes them: the
\* part of csi_init, the video, the function, the device.
Place(op, kind) ==
  CASE op \in {"probe", "remove"} ->
         CASE kind = "mipi" -> 0 [] kind = "csi" -> 1 [] kind = "tdm" -> 2
           [] kind = "isp" -> 3 [] kind = "vipp" -> 4 [] OTHER -> 5
    [] op = "config" ->
         CASE kind = "vinc" -> 0 [] kind = "mipi" -> 1 [] kind = "csi" -> 2
           [] kind = "tdm" -> 3 [] OTHER -> 4
    [] op = "on" ->
         CASE kind = "tdm" -> 0 [] kind = "mipi" -> 1 [] kind = "isp" -> 2
           [] kind = "vipp" -> 3 [] kind = "vinc" -> 4 [] kind = "csi" -> 5 [] OTHER -> 6
    [] op = "off" ->
         CASE kind = "vinc" -> 0 [] kind = "vipp" -> 1 [] kind = "isp" -> 2
           [] kind = "tdm" -> 3 [] OTHER -> 4
    [] OTHER -> 0

Start(op) ==
  CASE op = "probe" -> 0 [] op = "config" -> 10 [] op = "on" -> 20
    [] op = "wait" -> 200 [] op = "off" -> 210 [] op = "remove" -> 220
    [] OTHER -> 400

Rank(c) == Start(c.op) + 30 * c.video + Place(c.op, c.kind)

\* The calls come in that order, and those left are the last of them.
Rising(s) == \A i, j \in DOMAIN s : i < j => Rank(s[i]) < Rank(s[j])

TodoInv ==
  /\ todo \in Seq(Calls) /\ Rising(todo)
  /\ Left \subseteq Due
  /\ \A c \in Due \ Left, d \in Left : Rank(c) < Rank(d)

TypeOK ==
  /\ board \in Boards
  /\ mem \in [Devs -> {"none", "live", "freed"}] /\ flag \in [Devs -> BOOLEAN]
  /\ count \in [Channels -> Int] /\ logicCount \in [Shared -> Int]
  /\ path \subseteq Channels /\ tops \subseteq Shared
  /\ handlers \subseteq Devs /\ dmaStatus \subseteq Videos
  /\ stale \subseteq [op : Ops \cup {"isr"}, video : Videos, dev : Devs]

\* A device is there until its remove, and so is its handler.
DeviceInv ==
  \A d \in Devs :
    LET remove == CallOf("remove", d[1], d[2]) IN
    /\ mem[d] = "live" => d[1] = "isp" \/ remove \in Left
    /\ mem[d] = "freed" => d[1] # "isp" /\ remove \in Due \ Left
    /\ d \in handlers => mem[d] = "live" /\ HasHandler(d[1], d[2]) /\ remove \in Left

\* A channel is on until it is switched off, but for a receiver of a freed
\* TDM; the DMA has a status for channels that are on.
PathInv ==
  /\ \A c \in path : c[1] \notin {"mipi", "sensor"} =>
       /\ ~ Ahead("on", c[1], c[2])
       /\ Ahead("off", c[1], c[2]) \/ (c[1] = "tdm" /\ c[2] # Logic /\ stale # {})
  /\ \A v \in dmaStatus : <<"vinc", v>> \in path

\* The videos that stream through a kind, and the count of them its shared
\* part keeps as long as it is there.
Streams(kind) == {v \in Videos : ~ Ahead("on", kind, v) /\ Ahead("off", kind, v)}

CountInv ==
  /\ \A k \in Shared, v \in Videos : Ahead("on", k, v) => count[<<k, v>>] = 0
  /\ \A k \in Shared : mem[Dev(k, Logic)] # "freed" => logicCount[k] = Cardinality(Streams(k))

\* Who keeps a shared part on: its streams, or those of the ISP for the TDM of
\* an offline board.
KeptOn(kind) ==
  IF kind = "tdm" THEN \E v \in Videos : Ahead("off", IF board.online THEN "tdm" ELSE "isp", v)
                  ELSE Streams(kind) # {}
DarkInv ==
  \A k \in tops : k \in {"isp", "tdm"} \/ stale = {} => KeptOn(k)

\* The shared parts are on while they are streamed through, if no more than
\* one video outlives the first; the TDM is on before the ISP.
TwoVideos == \E v \in 0 .. 3 : board.used \subseteq {Logic, v}

LightInv ==
  /\ TwoVideos => \A k \in {"isp", "vipp", "vinc"} : Streams(k) # {} => k \in tops
  /\ board.tdm =>
       /\ "isp" \in tops => "tdm" \in tops
       /\ Ahead("wait", "isp", Logic) /\ (\E v \in board.used : ~ Ahead("on", "tdm", v))
            => "tdm" \in tops

\* The calls of csi_init that read a freed device: a stop, of a video that
\* shared it.
StaleInv ==
  \A r \in stale : r.op = "off" /\ r.dev = Dev(r.dev[1], Logic) /\ r.video # Logic

IInv ==
  /\ TypeOK /\ TodoInv /\ DeviceInv /\ PathInv /\ CountInv /\ DarkInv /\ LightInv /\ StaleInv

=============================================================================
