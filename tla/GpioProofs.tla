----------------------------- MODULE GpioProofs -----------------------------
(***************************************************************************)
(* Proofs about the pin interrupts, for any number of tasks and pins: the  *)
(* descriptors agree with what the pins' tasks have done, whatever becomes *)
(* of the registers.                                                       *)
(***************************************************************************)
EXTENDS Gpio, TLAPS

Images == [ctrl : SUBSET Pins, cfg : [Pins -> Types], mux : SUBSET Pins, status : SUBSET Pins]

Values == {NULL} \cup (SUBSET Pins) \cup [Pins -> Types]

\* Between the request and the free, and the ends of the two.
Settled == {"requested", "type", "typed", "function", "held", "acked", "unmask", "on", "mask"}
Places == Settled \cup {"idle", "data", "freed"}
TaskType == [pc : Places, pin : Pins \cup {NULL}, val : Values]

\* Every variable that a call of a handler depends on has its type.
TypeOK ==
  /\ handle_irq \in [Pins -> Tasks \cup {bad_gpio_irq_handle}]
  /\ data \in [Pins -> Tasks \cup {NULL}]
  /\ ctrl \in SUBSET Pins /\ cfg \in [Pins -> Types] /\ mux \in SUBSET Pins /\ status \in SUBSET Pins
  /\ task \in [Tasks -> TaskType]
  /\ isr \in [pc : {"idle", "call"}, pin : Pins \cup {NULL},
              user : Tasks \cup {NULL, bad_gpio_irq_handle}, data : Tasks \cup {NULL}, due : BOOLEAN]
  /\ reg_dump \in {NULL} \cup Images

\* The bank is without its registers only in standby, with a copy to restore.
CopyKept == bank # "on" => reg_dump # NULL

\* A task between the read and the write of a register has read it.
ValuesRead ==
  \A t \in Tasks :
    /\ task[t].pc \in {"unmask", "mask", "function"} => task[t].val \in SUBSET Pins
    /\ task[t].pc = "type" => task[t].val \in [Pins -> Types]

\* A task has a pin while it is inside its calls, and no two have the same.
PinsOwned ==
  /\ \A t \in Tasks : task[t].pc = "idle" <=> task[t].pin = NULL
  /\ \A t, u \in Tasks : task[t].pin = task[u].pin /\ task[t].pin # NULL => t = u

\* What a pin's descriptor holds follows from where the pin's task is.
DescFollows ==
  /\ \A p \in Pins :
       (\A t \in Tasks : task[t].pin # p) => handle_irq[p] = bad_gpio_irq_handle /\ data[p] = NULL
  /\ \A t \in Tasks : task[t].pin # NULL =>
       /\ handle_irq[task[t].pin] = IF task[t].pc = "freed" THEN bad_gpio_irq_handle ELSE t
       /\ data[task[t].pin] = IF task[t].pc = "data" THEN NULL ELSE t

\* What the handler called is what the descriptor of its pin holds.
CallFollows ==
  isr.pc = "call" => isr.pin \in Pins /\ isr.user = handle_irq[isr.pin] /\ isr.data = data[isr.pin]

Inv == TypeOK /\ CopyKept /\ ValuesRead /\ PinsOwned /\ DescFollows /\ CallFollows

-----------------------------------------------------------------------------
(* How a step moves a task.                                                *)

\* Task t goes to `to' with the value v, and keeps its pin; no other moves.
Moved(f, t, to, v) == [f EXCEPT ![t].pc = to, ![t].val = v]
Moves(f, g, t, to, v) ==
  /\ g \in [Tasks -> TaskType]
  /\ g[t].pc = to /\ g[t].val = v
  /\ \A u \in Tasks : g[u].pin = f[u].pin
  /\ \A u \in Tasks \ {t} : g[u] = f[u]

\* A task that reads or writes a register keeps its pin.
LEMMA Accesses ==
  ASSUME NEW f \in [Tasks -> TaskType], NEW t \in Tasks, NEW to \in Places, NEW v \in Values
  PROVE  Moves(f, Moved(f, t, to, v), t, to, v)
<1> DEFINE g == Moved(f, t, to, v)
<1>1. f[t] \in TaskType
  OBVIOUS
<1>2. g[t] = [f[t] EXCEPT !.pc = to, !.val = v]
  BY DEF Moved
<1>3. g[t] \in TaskType /\ g[t].pc = to /\ g[t].pin = f[t].pin /\ g[t].val = v
  BY <1>1, <1>2 DEF TaskType
<1>4. \A u \in Tasks \ {t} : g[u] = f[u]
  BY DEF Moved
<1>5. g \in [Tasks -> TaskType]
  BY <1>3 DEF Moved
<1> QED
  BY <1>3, <1>4, <1>5 DEF Moves

\* A task that goes on keeps its pin and the value it read.
Gone(f, t, to) == [f EXCEPT ![t].pc = to]
LEMMA GoesOn ==
  ASSUME NEW f \in [Tasks -> TaskType], NEW t \in Tasks, NEW to \in Places
  PROVE  Gone(f, t, to) = Moved(f, t, to, f[t].val)
<1>1. f[t] \in TaskType
  OBVIOUS
<1>2. [f[t] EXCEPT !.pc = to] = [f[t] EXCEPT !.pc = to, !.val = f[t].val]
  BY <1>1 DEF TaskType
<1> QED
  BY <1>2 DEF Gone, Moved

\* The value fits the register the task is about to write.
Fits(to, v) ==
  /\ to \in {"unmask", "mask", "function"} => v \in SUBSET Pins
  /\ to = "type" => v \in [Pins -> Types]

\* The rest of the request, enable and disable leave the descriptors alone.
LEMMA Settling ==
  ASSUME TypeOK, NEW t \in Tasks,
         \/ gpio_irq_set_type(t) \/ hal_gpio_pinmux_set_function(t)
         \/ EnableAck(t) \/ Unmask(t) \/ hal_gpio_irq_disable(t)
  PROVE  /\ task[t].pc \in Settled /\ UNCHANGED <<handle_irq, data, isr>>
         /\ \E to \in Settled, v \in Values : task' = Moved(task, t, to, v) /\ Fits(to, v)
<1>1. task \in [Tasks -> TaskType] /\ task[t].val \in Values
  BY DEF TypeOK, TaskType
<1>2. NULL \in Values /\ ctrl \in Values /\ mux \in Values /\ cfg \in Values
  BY DEF TypeOK, Values
<1>3. Fits("type", cfg) /\ Fits("function", mux) /\ Fits("unmask", ctrl) /\ Fits("mask", ctrl)
  BY DEF TypeOK, Fits
<1>4. Fits("typed", NULL) /\ Fits("held", NULL) /\ Fits("on", NULL) /\ Fits("acked", task[t].val)
  BY DEF Fits
<1>5. CASE gpio_irq_set_type(t)
  <2>1. UNCHANGED <<handle_irq, data, isr>>
    BY <1>5 DEF gpio_irq_set_type, desc
  <2>2. \/ task[t].pc = "requested" /\ task' = Moved(task, t, "type", cfg)
        \/ task[t].pc = "type" /\ task' = Moved(task, t, "typed", NULL)
    <3>1. CASE Read(t, "requested", "type", cfg)
      BY <3>1 DEF Read, At, Moved
    <3>2. CASE Written(t, "type", "typed", "cfg")
      BY <3>2 DEF Written, At, Moved
    <3> QED
      BY <1>5, <3>1, <3>2 DEF gpio_irq_set_type
  <2> QED
    BY <1>2, <1>3, <1>4, <2>1, <2>2 DEF Settled
<1>6. CASE hal_gpio_pinmux_set_function(t)
  <2>1. UNCHANGED <<handle_irq, data, isr>>
    BY <1>6 DEF hal_gpio_pinmux_set_function, desc
  <2>2. \/ task[t].pc = "typed" /\ task' = Moved(task, t, "function", mux)
        \/ task[t].pc = "function" /\ task' = Moved(task, t, "held", NULL)
    <3>1. CASE Read(t, "typed", "function", mux)
      BY <3>1 DEF Read, At, Moved
    <3>2. CASE Written(t, "function", "held", "mux")
      BY <3>2 DEF Written, At, Moved
    <3> QED
      BY <1>6, <3>1, <3>2 DEF hal_gpio_pinmux_set_function
  <2> QED
    BY <1>2, <1>3, <1>4, <2>1, <2>2 DEF Settled
<1>7. CASE EnableAck(t)
  <2>1. task[t].pc = "held" /\ task' = Gone(task, t, "acked") /\ UNCHANGED <<handle_irq, data, isr>>
    BY <1>7 DEF EnableAck, At, Go, Gone, desc
  <2>2. task' = Moved(task, t, "acked", task[t].val)
    BY <1>1, <2>1, GoesOn DEF Places, Settled
  <2> QED
    BY <1>1, <1>4, <2>1, <2>2 DEF Settled
<1>8. CASE Unmask(t)
  <2>1. UNCHANGED <<handle_irq, data, isr>>
    BY <1>8 DEF Unmask, desc
  <2>2. \/ task[t].pc = "acked" /\ task' = Moved(task, t, "unmask", ctrl)
        \/ task[t].pc = "unmask" /\ task' = Moved(task, t, "on", NULL)
    <3>1. CASE Read(t, "acked", "unmask", ctrl)
      BY <3>1 DEF Read, At, Moved
    <3>2. CASE Written(t, "unmask", "on", "ctrl")
      BY <3>2 DEF Written, At, Moved
    <3> QED
      BY <1>8, <3>1, <3>2 DEF Unmask
  <2> QED
    BY <1>2, <1>3, <1>4, <2>1, <2>2 DEF Settled
<1>9. CASE hal_gpio_irq_disable(t)
  <2>1. UNCHANGED <<handle_irq, data, isr>>
    BY <1>9 DEF hal_gpio_irq_disable, desc
  <2>2. \/ task[t].pc = "on" /\ task' = Moved(task, t, "mask", ctrl)
        \/ task[t].pc = "mask" /\ task' = Moved(task, t, "held", NULL)
    <3>1. CASE Read(t, "on", "mask", ctrl)
      BY <3>1 DEF Read, At, Moved
    <3>2. CASE Written(t, "mask", "held", "ctrl")
      BY <3>2 DEF Written, At, Moved
    <3> QED
      BY <1>9, <3>1, <3>2 DEF hal_gpio_irq_disable
  <2> QED
    BY <1>2, <1>3, <1>4, <2>1, <2>2 DEF Settled
<1> QED
  BY <1>5, <1>6, <1>7, <1>8, <1>9

-----------------------------------------------------------------------------
(* Tasks, and the values they read.                                        *)

\* A task that moves inside its calls stays the one owner of its pin.
LEMMA Carried ==
  ASSUME task \in [Tasks -> TaskType], ValuesRead, PinsOwned,
         NEW t \in Tasks, NEW to \in Places \ {"idle"}, NEW v \in Values,
         task[t].pc # "idle", Fits(to, v), task' = Moved(task, t, to, v)
  PROVE  task' \in [Tasks -> TaskType] /\ ValuesRead' /\ PinsOwned'
<1>1. Moves(task, task', t, to, v)
  BY Accesses
<1>2. ValuesRead'
  BY <1>1 DEF Moves, ValuesRead, Fits
<1>3. PinsOwned'
  BY <1>1 DEF Moves, PinsOwned
<1> QED
  BY <1>1, <1>2, <1>3 DEF Moves

Standby == hal_gpio_suspend \/ PowerOff \/ hal_gpio_resume

\* Standby touches no task, no descriptor and no handler that runs.
LEMMA StandbyFrame == ASSUME Standby PROVE UNCHANGED <<desc, task, isr>>
BY DEF Standby, hal_gpio_suspend, PowerOff, hal_gpio_resume, RestoreFunctions, RestoreTypes, RestoreRest

\* No step gives a pin to two tasks.
LEMMA TaskStep ==
  ASSUME Inv, [Next]_vars
  PROVE  task' \in [Tasks -> TaskType] /\ ValuesRead' /\ PinsOwned'
<1> USE NoneAssumption
<1>1. task \in [Tasks -> TaskType] /\ ValuesRead /\ PinsOwned
  BY DEF Inv, TypeOK
<1>2. \A t \in Tasks : task[t] \in TaskType /\ task[t].val \in Values
  BY <1>1 DEF TaskType
<1>3. ASSUME NEW t \in Tasks, NEW p \in Pins, RequestHandler(t, p)
      PROVE  task' \in [Tasks -> TaskType] /\ ValuesRead' /\ PinsOwned'
  <2>1. /\ task' = [task EXCEPT ![t] = [pc |-> "data", pin |-> p, val |-> NULL]]
        /\ \A o \in Tasks : task[o].pin # p
    BY <1>3 DEF RequestHandler
  <2>2. [pc |-> "data", pin |-> p, val |-> NULL] \in TaskType
    BY DEF TaskType, Values, Places
  <2>3. task' \in [Tasks -> TaskType]
    BY <1>1, <2>1, <2>2
  <2>4. ValuesRead'
    BY <1>1, <2>1 DEF ValuesRead
  <2>5. PinsOwned'
    BY <1>1, <2>1 DEF PinsOwned
  <2> QED
    BY <2>3, <2>4, <2>5
<1>4. ASSUME NEW t \in Tasks, RequestData(t)
      PROVE  task' \in [Tasks -> TaskType] /\ ValuesRead' /\ PinsOwned'
  <2>1. task[t].pc = "data" /\ task' = Gone(task, t, "requested")
    BY <1>4 DEF RequestData, At, Go, Gone
  <2>2. task' = Moved(task, t, "requested", task[t].val) /\ Fits("requested", task[t].val)
    BY <1>1, <2>1, GoesOn DEF Fits, Places, Settled
  <2> QED
    BY <1>1, <1>2, <2>1, <2>2, Carried DEF Places, Settled
<1>5. ASSUME NEW t \in Tasks,
             \/ gpio_irq_set_type(t) \/ hal_gpio_pinmux_set_function(t)
             \/ EnableAck(t) \/ Unmask(t) \/ hal_gpio_irq_disable(t)
      PROVE  task' \in [Tasks -> TaskType] /\ ValuesRead' /\ PinsOwned'
  <2>1. PICK to \in Settled, v \in Values : task' = Moved(task, t, to, v) /\ Fits(to, v)
    BY <1>5, Settling DEF Inv
  <2>2. task[t].pc \in Settled
    BY <1>5, Settling DEF Inv
  <2>3. to \in Places \ {"idle"} /\ task[t].pc # "idle"
    BY <2>2 DEF Settled, Places
  <2> QED
    BY <1>1, <2>1, <2>3, Carried
<1>6. ASSUME NEW t \in Tasks, FreeHandler(t)
      PROVE  task' \in [Tasks -> TaskType] /\ ValuesRead' /\ PinsOwned'
  <2>1. task[t].pc = "held" /\ task' = Gone(task, t, "freed")
    BY <1>6 DEF FreeHandler, At, Go, Gone
  <2>2. task' = Moved(task, t, "freed", task[t].val) /\ Fits("freed", task[t].val)
    BY <1>1, <2>1, GoesOn DEF Fits, Places, Settled
  <2> QED
    BY <1>1, <1>2, <2>1, <2>2, Carried DEF Places, Settled
<1>7. ASSUME NEW t \in Tasks, FreeData(t)
      PROVE  task' \in [Tasks -> TaskType] /\ ValuesRead' /\ PinsOwned'
  <2>1. task' = [task EXCEPT ![t] = [pc |-> "idle", pin |-> NULL, val |-> NULL]]
    BY <1>7 DEF FreeData, Idle
  <2>2. [pc |-> "idle", pin |-> NULL, val |-> NULL] \in TaskType
    BY DEF TaskType, Values, Places
  <2>3. task' \in [Tasks -> TaskType]
    BY <1>1, <2>1, <2>2
  <2>4. ValuesRead'
    BY <1>1, <2>1 DEF ValuesRead
  <2>5. PinsOwned'
    BY <1>1, <2>1 DEF PinsOwned
  <2> QED
    BY <2>3, <2>4, <2>5
<1>8. ASSUME UNCHANGED task
      PROVE  task' \in [Tasks -> TaskType] /\ ValuesRead' /\ PinsOwned'
  BY <1>1, <1>8 DEF ValuesRead, PinsOwned
<1>9. CASE Isr \/ Standby \/ UNCHANGED vars
  BY <1>8, <1>9, StandbyFrame DEF Isr, Call, gpio_irq_ack, vars
<1>10. CASE \E p \in Pins, type \in Types : Edge(p, type)
  BY <1>8, <1>10 DEF Edge
<1> QED
  BY <1>3, <1>4, <1>5, <1>6, <1>7, <1>9, <1>10 DEF Next, Task, Standby

-----------------------------------------------------------------------------
(* Registers and descriptors.                                              *)

\* A task inside its calls has a pin of the bank.
LEMMA HasPin ==
  ASSUME task \in [Tasks -> TaskType], PinsOwned, NEW t \in Tasks, task[t].pc # "idle"
  PROVE  task[t].pin \in Pins
<1>1. task[t] \in TaskType /\ task[t].pin # NULL
  BY DEF PinsOwned
<1> QED
  BY <1>1 DEF TaskType

Registers ==
  ctrl \in SUBSET Pins /\ cfg \in [Pins -> Types] /\ mux \in SUBSET Pins /\ status \in SUBSET Pins

\* What is written to a register fits it, stale as it may be.
LEMMA RegistersStep ==
  ASSUME Inv, [Next]_vars
  PROVE  Registers' /\ reg_dump' \in {NULL} \cup Images /\ CopyKept'
<1> DEFINE Goal == Registers' /\ reg_dump' \in {NULL} \cup Images /\ CopyKept'
<1> USE DEF CopyKept, standby
<1>1. CopyKept /\ Registers /\ reg_dump \in {NULL} \cup Images
  BY DEF Inv, TypeOK, Registers
<1>2. task \in [Tasks -> TaskType] /\ ValuesRead /\ PinsOwned
  BY DEF Inv, TypeOK
<1>3. ASSUME NEW t \in Tasks, gpio_irq_set_type(t)
      PROVE  Goal
  <2>1. CASE UNCHANGED registers
    BY <1>1, <1>3, <2>1 DEF Registers, registers, gpio_irq_set_type
  <2>2. CASE /\ Written(t, "type", "typed", "cfg")
             /\ cfg' = [task[t].val EXCEPT ![task[t].pin] = TypeOf[t]]
             /\ UNCHANGED <<desc, ctrl, mux, status, isr, standby, history>>
    <3>1. task[t].pc = "type"
      BY <2>2 DEF Written, At
    <3>2. task[t].val \in [Pins -> Types] /\ TypeOf[t] \in Types
      BY <1>2, <3>1, TypeAssumption DEF ValuesRead, Types
    <3>3. cfg' \in [Pins -> Types]
      BY <2>2, <3>2
    <3> QED
      BY <1>1, <2>2, <3>3 DEF Registers
  <2> QED
    BY <1>3, <2>1, <2>2 DEF gpio_irq_set_type
<1>4. ASSUME NEW t \in Tasks, hal_gpio_pinmux_set_function(t)
      PROVE  Goal
  <2>1. CASE UNCHANGED registers
    BY <1>1, <1>4, <2>1 DEF Registers, registers, hal_gpio_pinmux_set_function
  <2>2. CASE /\ Written(t, "function", "held", "mux")
             /\ mux' = task[t].val \cup {task[t].pin}
             /\ UNCHANGED <<desc, ctrl, cfg, status, isr, standby, history>>
    <3>1. task[t].pc = "function"
      BY <2>2 DEF Written, At
    <3>2. task[t].val \in SUBSET Pins /\ task[t].pin \in Pins
      BY <1>2, <3>1, HasPin DEF ValuesRead
    <3> QED
      BY <1>1, <2>2, <3>2 DEF Registers
  <2> QED
    BY <1>4, <2>1, <2>2 DEF hal_gpio_pinmux_set_function
<1>5. ASSUME NEW t \in Tasks, Unmask(t)
      PROVE  Goal
  <2>1. CASE UNCHANGED registers
    BY <1>1, <1>5, <2>1 DEF Registers, registers, Unmask
  <2>2. CASE /\ Written(t, "unmask", "on", "ctrl")
             /\ ctrl' = task[t].val \cup {task[t].pin}
             /\ UNCHANGED <<desc, cfg, mux, status, isr, standby, history>>
    <3>1. task[t].pc = "unmask"
      BY <2>2 DEF Written, At
    <3>2. task[t].val \in SUBSET Pins /\ task[t].pin \in Pins
      BY <1>2, <3>1, HasPin DEF ValuesRead
    <3> QED
      BY <1>1, <2>2, <3>2 DEF Registers
  <2> QED
    BY <1>5, <2>1, <2>2 DEF Unmask
<1>6. ASSUME NEW t \in Tasks, hal_gpio_irq_disable(t)
      PROVE  Goal
  <2>1. CASE UNCHANGED registers
    BY <1>1, <1>6, <2>1 DEF Registers, registers, hal_gpio_irq_disable
  <2>2. CASE /\ Written(t, "mask", "held", "ctrl")
             /\ ctrl' = task[t].val \ {task[t].pin}
             /\ UNCHANGED <<desc, cfg, mux, status, isr, standby, history>>
    <3>1. task[t].pc = "mask"
      BY <2>2 DEF Written, At
    <3>2. task[t].val \in SUBSET Pins
      BY <1>2, <3>1 DEF ValuesRead
    <3> QED
      BY <1>1, <2>2, <3>2 DEF Registers
  <2> QED
    BY <1>6, <2>1, <2>2 DEF hal_gpio_irq_disable
<1>7. ASSUME NEW t \in Tasks,
             (\E p \in Pins : RequestHandler(t, p)) \/ RequestData(t) \/ EnableAck(t)
             \/ FreeHandler(t) \/ FreeData(t)
      PROVE  Goal
  BY <1>1, <1>7 DEF Registers, registers, RequestHandler, RequestData, EnableAck, FreeHandler, FreeData
<1>8. CASE Isr \/ UNCHANGED vars
  BY <1>1, <1>8 DEF Registers, registers, Isr, Call, gpio_irq_ack, vars
<1>9. CASE hal_gpio_suspend \/ PowerOff
  BY <1>1, <1>9 DEF Registers, registers, hal_gpio_suspend, PowerOff, ResetTypes, Types, Images, Awake
<1>10. CASE hal_gpio_resume
  <2>1. reg_dump \in Images
    BY <1>1, <1>10 DEF hal_gpio_resume, RestoreFunctions, RestoreTypes, RestoreRest, Awake
  <2> QED
    BY <1>1, <1>10, <2>1
    DEF Registers, hal_gpio_resume, RestoreFunctions, RestoreTypes, RestoreRest, Images
<1>11. ASSUME NEW p \in Pins, NEW type \in Types, Edge(p, type)
       PROVE  Goal
  BY <1>1, <1>11 DEF Registers, Edge
<1> QED
  BY <1>3, <1>4, <1>5, <1>6, <1>7, <1>8, <1>9, <1>10, <1>11 DEF Next, Task

\* No step lets a descriptor and its pin's task disagree.
LEMMA DescStep ==
  ASSUME Inv, [Next]_vars
  PROVE  /\ handle_irq' \in [Pins -> Tasks \cup {bad_gpio_irq_handle}]
         /\ data' \in [Pins -> Tasks \cup {NULL}]
         /\ DescFollows'
<1> DEFINE Typed == /\ handle_irq \in [Pins -> Tasks \cup {bad_gpio_irq_handle}]
                    /\ data \in [Pins -> Tasks \cup {NULL}]
           Goal == Typed' /\ DescFollows'
<1> USE NoneAssumption
<1>1. Typed /\ DescFollows /\ PinsOwned /\ task \in [Tasks -> TaskType]
  BY DEF Inv, TypeOK
<1>2. \A t \in Tasks : task[t] \in TaskType /\ task[t].val \in Values
  BY <1>1 DEF TaskType
<1>3. ASSUME NEW t \in Tasks, NEW p \in Pins, RequestHandler(t, p) PROVE Goal
  <2>1. /\ task' = [task EXCEPT ![t] = [pc |-> "data", pin |-> p, val |-> NULL]]
        /\ task[t].pc = "idle" /\ \A o \in Tasks : task[o].pin # p
    BY <1>3 DEF RequestHandler, At
  <2>2. /\ handle_irq' = IF handle_irq[p] = bad_gpio_irq_handle
                           THEN [handle_irq EXCEPT ![p] = t] ELSE handle_irq
        /\ data' = data
    BY <1>3 DEF RequestHandler
  <2>3. handle_irq[p] = bad_gpio_irq_handle /\ data[p] = NULL
    BY <1>1, <2>1 DEF DescFollows
  <2>4. handle_irq' = [handle_irq EXCEPT ![p] = t]
    BY <2>2, <2>3
  <2>5. /\ task'[t].pc = "data" /\ task'[t].pin = p
        /\ \A u \in Tasks \ {t} : task'[u] = task[u]
    BY <1>1, <2>1
  <2>6. task[t].pin = NULL
    BY <1>1, <2>1 DEF PinsOwned
  <2>7. Typed'
    BY <1>1, <2>2, <2>4
  <2>8. ASSUME NEW q \in Pins, \A u \in Tasks : task'[u].pin # q
        PROVE  handle_irq'[q] = bad_gpio_irq_handle /\ data'[q] = NULL
    <3>1. q # p /\ \A u \in Tasks : task[u].pin # q
      BY <2>5, <2>6, <2>8
    <3> QED
      BY <1>1, <2>2, <2>4, <3>1 DEF DescFollows
  <2>9. ASSUME NEW u \in Tasks, task'[u].pin # NULL
        PROVE  /\ handle_irq'[task'[u].pin] = IF task'[u].pc = "freed" THEN bad_gpio_irq_handle ELSE u
               /\ data'[task'[u].pin] = IF task'[u].pc = "data" THEN NULL ELSE u
    <3>1. CASE u = t
      BY <1>1, <2>2, <2>3, <2>4, <2>5, <3>1
    <3>2. CASE u # t
      <4>1. task'[u] = task[u] /\ task[u].pin \in Pins \ {p}
        BY <1>2, <2>1, <2>5, <2>9, <3>2 DEF TaskType
      <4> QED
        BY <1>1, <2>2, <2>4, <4>1 DEF DescFollows
    <3> QED
      BY <3>1, <3>2
  <2> QED
    BY <2>7, <2>8, <2>9 DEF DescFollows
<1>4. ASSUME NEW t \in Tasks, RequestData(t) PROVE Goal
  <2>1. /\ task[t].pc = "data" /\ task' = Gone(task, t, "requested")
        /\ data' = [data EXCEPT ![task[t].pin] = t] /\ handle_irq' = handle_irq
    BY <1>4 DEF RequestData, At, Go, Gone
  <2>2. Moves(task, task', t, "requested", task[t].val) /\ task[t].pin \in Pins
    BY <1>1, <1>2, <2>1, GoesOn, Accesses, HasPin DEF Places, Settled
  <2>3. task'[t].pc = "requested" /\ task'[t].pin = task[t].pin
        /\ \A u \in Tasks \ {t} : task'[u] = task[u] /\ (task[u].pin # NULL => task[u].pin # task[t].pin)
    BY <1>1, <2>2 DEF Moves, PinsOwned
  <2>4. Typed'
    BY <1>1, <2>1, <2>2
  <2> QED
    BY <1>1, <1>2, <2>1, <2>2, <2>3, <2>4 DEF DescFollows, TaskType
<1>5. ASSUME NEW t \in Tasks,
             \/ gpio_irq_set_type(t) \/ hal_gpio_pinmux_set_function(t)
             \/ EnableAck(t) \/ Unmask(t) \/ hal_gpio_irq_disable(t)
      PROVE  Goal
  <2>1. PICK to \in Settled, v \in Values : task' = Moved(task, t, to, v)
    BY <1>5, Settling DEF Inv
  <2>2. task[t].pc \in Settled /\ handle_irq' = handle_irq /\ data' = data
    BY <1>5, Settling DEF Inv
  <2>3. Moves(task, task', t, to, v)
    BY <1>1, <2>1, Accesses DEF Places
  <2>4. /\ task'[t].pc \in Settled /\ task'[t].pin = task[t].pin
        /\ \A u \in Tasks \ {t} : task'[u] = task[u]
    BY <2>3 DEF Moves
  <2> QED
    BY <1>1, <2>2, <2>4 DEF DescFollows, Settled
<1>6. ASSUME NEW t \in Tasks, FreeHandler(t) PROVE Goal
  <2>1. /\ task[t].pc = "held" /\ task' = Gone(task, t, "freed")
        /\ handle_irq' = [handle_irq EXCEPT ![task[t].pin] = bad_gpio_irq_handle] /\ data' = data
    BY <1>6 DEF FreeHandler, At, Go, Gone
  <2>2. Moves(task, task', t, "freed", task[t].val) /\ task[t].pin \in Pins
    BY <1>1, <1>2, <2>1, GoesOn, Accesses, HasPin DEF Places, Settled
  <2>3. task'[t].pc = "freed" /\ task'[t].pin = task[t].pin
        /\ \A u \in Tasks \ {t} : task'[u] = task[u] /\ (task[u].pin # NULL => task[u].pin # task[t].pin)
    BY <1>1, <2>2 DEF Moves, PinsOwned
  <2>4. Typed'
    BY <1>1, <2>1, <2>2
  <2> QED
    BY <1>1, <1>2, <2>1, <2>2, <2>3, <2>4 DEF DescFollows, TaskType
<1>7. ASSUME NEW t \in Tasks, FreeData(t) PROVE Goal
  <2>1. /\ task[t].pc = "freed" /\ task' = [task EXCEPT ![t] = Idle]
        /\ data' = [data EXCEPT ![task[t].pin] = NULL] /\ handle_irq' = handle_irq
    BY <1>7 DEF FreeData, At, DataAfterFree
  <2>2. task[t].pin \in Pins
    BY <1>1, <2>1, HasPin
  <2>3. /\ task'[t].pin = NULL /\ handle_irq[task[t].pin] = bad_gpio_irq_handle
        /\ \A u \in Tasks \ {t} : task'[u] = task[u] /\ (task[u].pin # NULL => task[u].pin # task[t].pin)
    BY <1>1, <2>1, <2>2 DEF Idle, PinsOwned, DescFollows
  <2>4. Typed'
    BY <1>1, <2>1, <2>2
  <2> QED
    BY <1>1, <1>2, <2>1, <2>2, <2>3, <2>4 DEF DescFollows, TaskType
<1>8. ASSUME UNCHANGED <<task, handle_irq, data>> PROVE Goal
  BY <1>1, <1>8 DEF DescFollows
<1>9. CASE Isr \/ Standby \/ UNCHANGED vars
  BY <1>8, <1>9, StandbyFrame DEF Isr, Call, gpio_irq_ack, vars, desc
<1>10. CASE \E p \in Pins, type \in Types : Edge(p, type)
  BY <1>8, <1>10 DEF Edge, desc
<1> QED
  BY <1>3, <1>4, <1>5, <1>6, <1>7, <1>9, <1>10 DEF Next, Task, Standby

-----------------------------------------------------------------------------
(* The handler.                                                            *)

IsrType ==
  [pc : {"idle", "call"}, pin : Pins \cup {NULL},
   user : Tasks \cup {NULL, bad_gpio_irq_handle}, data : Tasks \cup {NULL}, due : BOOLEAN]

\* Tasks stand still while a handler runs, so its call stays the descriptor's.
LEMMA IsrStep ==
  ASSUME Inv, [Next]_vars
  PROVE  isr' \in IsrType /\ CallFollows'
<1>1. isr \in IsrType /\ CallFollows
  BY DEF Inv, TypeOK, IsrType
<1>2. ASSUME NEW t \in Tasks, Task(t) PROVE isr' \in IsrType /\ CallFollows'
  <2>1. isr' = isr /\ isr.pc = "idle"
    BY <1>2 DEF Task, RequestHandler, RequestData, gpio_irq_set_type, hal_gpio_pinmux_set_function,
                EnableAck, Unmask, hal_gpio_irq_disable, FreeHandler, FreeData, Read, Written, At
  <2> QED
    BY <1>1, <2>1 DEF CallFollows
<1>3. CASE Call
  <2>1. PICK p \in status :
          /\ isr' = [pc |-> "call", pin |-> p, user |-> handle_irq[p], data |-> data[p], due |-> p \in unseen]
          /\ UNCHANGED desc
    BY <1>3 DEF Call
  <2>2. p \in Pins /\ handle_irq[p] \in Tasks \cup {bad_gpio_irq_handle} /\ data[p] \in Tasks \cup {NULL}
    BY DEF Inv, TypeOK
  <2>3. (p \in unseen) \in BOOLEAN
    OBVIOUS
  <2>4. isr' \in IsrType
    BY <2>1, <2>2, <2>3 DEF IsrType
  <2>5. CallFollows'
    BY <2>1, <2>2 DEF CallFollows, desc
  <2> QED
    BY <2>4, <2>5
<1>4. CASE gpio_irq_ack
  <2>1. isr' = [pc |-> "idle", pin |-> NULL, user |-> NULL, data |-> NULL, due |-> FALSE]
    BY <1>4 DEF gpio_irq_ack, Quiet
  <2> QED
    BY <2>1 DEF IsrType, CallFollows
<1>5. ASSUME UNCHANGED <<isr, desc>> PROVE isr' \in IsrType /\ CallFollows'
  BY <1>1, <1>5 DEF CallFollows, desc
<1>6. CASE Standby \/ UNCHANGED vars
  BY <1>5, <1>6, StandbyFrame DEF vars
<1>7. CASE \E p \in Pins, type \in Types : Edge(p, type)
  BY <1>5, <1>7 DEF Edge
<1> QED
  BY <1>2, <1>3, <1>4, <1>6, <1>7 DEF Next, Isr, Standby

-----------------------------------------------------------------------------

\* At the start no pin has a task, and every descriptor is empty.
LEMMA InitInv == Init => Inv
<1> SUFFICES ASSUME Init PROVE Inv
  OBVIOUS
<1> USE NoneAssumption DEF Init
<1>1. \A t \in Tasks : task[t] = [pc |-> "idle", pin |-> NULL, val |-> NULL]
  BY DEF Idle
<1>2. task \in [Tasks -> TaskType]
  <2>1. [pc |-> "idle", pin |-> NULL, val |-> NULL] \in TaskType
    BY DEF TaskType, Places, Values
  <2> QED
    BY <2>1 DEF Idle
<1>3. isr = [pc |-> "idle", pin |-> NULL, user |-> NULL, data |-> NULL, due |-> FALSE]
  BY DEF Quiet
<1>4. isr \in IsrType
  BY <1>3 DEF IsrType
<1>5. TypeOK
  BY <1>2, <1>4 DEF TypeOK, IsrType, Types, ResetTypes
<1>6. ValuesRead /\ PinsOwned
  BY <1>1 DEF ValuesRead, PinsOwned
<1>7. DescFollows /\ CallFollows
  BY <1>1, <1>3 DEF DescFollows, CallFollows
<1> QED
  BY <1>5, <1>6, <1>7 DEF Inv, CopyKept

\* The parts put together.
LEMMA InvStep == Inv /\ [Next]_vars => Inv'
<1> SUFFICES ASSUME Inv, [Next]_vars PROVE Inv'
  OBVIOUS
<1>1. TypeOK'
  BY TaskStep, RegistersStep, DescStep, IsrStep DEF TypeOK, Registers, IsrType
<1> QED
  BY <1>1, TaskStep, RegistersStep, DescStep, IsrStep DEF Inv

\* For any tasks, any pins of the bank, any trigger types and any number of
\* edges: in every state the variables have their types, no pin has two
\* tasks, and what a descriptor holds follows from the calls the pin's task
\* has made, although the registers themselves may hold stale bits.
THEOREM DescriptorsFollow == Spec => []Inv
  BY InitInv, InvStep, PTL DEF Spec

\* The handler never gets one user's function with another's data, and from
\* the request to the free a pin's task gets its own, whatever interleaving
\* of gpio_irq_handle with the two writes of hal_gpio_irq_request and
\* hal_gpio_irq_free, and whatever other tasks write to the bank's registers.
THEOREM HandlersAlwaysPaired == Spec => []HandlersPaired
<1>1. Inv => HandlersPaired
  <2> SUFFICES ASSUME Inv, isr.pc = "call"
               PROVE  /\ isr.user # bad_gpio_irq_handle => isr.data \in {isr.user, NULL}
                      /\ \A t \in Tasks :
                           task[t].pin = isr.pin /\ task[t].pc \notin {"data", "freed"}
                             => isr.user = t /\ isr.data = t
    BY DEF HandlersPaired
  <2>1. isr.pin \in Pins /\ isr.user = handle_irq[isr.pin] /\ isr.data = data[isr.pin] /\ isr.pin # NULL
    BY NoneAssumption DEF Inv, CallFollows
  <2>2. CASE \A t \in Tasks : task[t].pin # isr.pin
    BY <2>1, <2>2 DEF Inv, DescFollows
  <2>3. ASSUME NEW t \in Tasks, task[t].pin = isr.pin
        PROVE  /\ isr.user = IF task[t].pc = "freed" THEN bad_gpio_irq_handle ELSE t
               /\ isr.data = IF task[t].pc = "data" THEN NULL ELSE t
    BY <2>1, <2>3 DEF Inv, DescFollows
  <2> QED
    BY <2>2, <2>3
<1> QED
  BY <1>1, DescriptorsFollow, PTL

-----------------------------------------------------------------------------
(* Calls and edges.                                                        *)

\* A pin has a status since an edge that no handler run has followed; only
\* the status of the pin being served is older.
StatusIsNews == status \ (IF isr.pc = "call" THEN {isr.pin} ELSE {}) \subseteq unseen

\* Every step that drops a pin from `unseen' clears its status, or serves it.
LEMMA NewsStep ==
  ASSUME StatusIsNews, NoSpuriousCall, [Next]_vars
  PROVE  StatusIsNews' /\ NoSpuriousCall'
<1>1. ASSUME NEW t \in Tasks, Task(t) PROVE StatusIsNews' /\ NoSpuriousCall'
  <2>1. CASE EnableAck(t)
    BY <2>1 DEF EnableAck, At, AckedAtEnable, StatusIsNews, NoSpuriousCall
  <2>2. CASE ~EnableAck(t)
    <3>1. status' = status /\ unseen' = unseen /\ isr' = isr
      BY <1>1, <2>2 DEF Task, RequestHandler, RequestData, gpio_irq_set_type, hal_gpio_pinmux_set_function,
                        Unmask, hal_gpio_irq_disable, FreeHandler, FreeData, registers, history
    <3> QED
      BY <3>1 DEF StatusIsNews, NoSpuriousCall
  <2> QED
    BY <2>1, <2>2
<1>2. CASE Call
  <2>1. PICK p \in status :
          /\ isr.pc = "idle"
          /\ isr' = [pc |-> "call", pin |-> p, user |-> handle_irq[p], data |-> data[p], due |-> p \in unseen]
          /\ unseen' = unseen \ {p} /\ status' = status
    BY <1>2 DEF Call, registers
  <2>2. isr'.pc = "call" /\ isr'.pin = p /\ isr'.due = (p \in unseen)
    BY <2>1
  <2>3. p \in unseen
    BY <2>1 DEF StatusIsNews
  <2>4. StatusIsNews'
    BY <2>1, <2>2 DEF StatusIsNews
  <2> QED
    BY <2>2, <2>3, <2>4 DEF NoSpuriousCall
<1>3. CASE gpio_irq_ack
  <2>1. isr'.pc = "idle"
    BY <1>3 DEF gpio_irq_ack, Quiet
  <2>2. StatusIsNews'
    BY <1>3, <2>1 DEF gpio_irq_ack, Acked, StatusIsNews
  <2> QED
    BY <2>1, <2>2 DEF NoSpuriousCall
<1>4. CASE hal_gpio_suspend \/ UNCHANGED vars
  BY <1>4 DEF hal_gpio_suspend, vars, registers, history, StatusIsNews, NoSpuriousCall
<1>5. CASE PowerOff \/ hal_gpio_resume
  <2>1. isr' = isr /\ unseen' = unseen /\ status' \subseteq status
    BY <1>5 DEF PowerOff, hal_gpio_resume, RestoreFunctions, RestoreTypes, RestoreRest, history
  <2> QED
    BY <2>1 DEF StatusIsNews, NoSpuriousCall
<1>6. ASSUME NEW p \in Pins, NEW type \in Types, Edge(p, type)
      PROVE  StatusIsNews' /\ NoSpuriousCall'
  <2>1. isr' = isr /\ unseen' = unseen \cup {p} /\ status' \subseteq status \cup {p}
    BY <1>6 DEF Edge
  <2> QED
    BY <2>1 DEF StatusIsNews, NoSpuriousCall
<1> QED
  BY <1>1, <1>2, <1>3, <1>4, <1>5, <1>6 DEF Next, Isr

\* A handler never runs for an edge it has run for before, nor for one that
\* hal_gpio_irq_enable has voided, in whatever order tasks, standby and edges
\* come between the call of a handler and the clearing of its status.
THEOREM NoCallWithoutEdge == Spec => []NoSpuriousCall
<1>1. Init => StatusIsNews /\ NoSpuriousCall
  BY DEF Init, Quiet, StatusIsNews, NoSpuriousCall
<1> QED
  BY <1>1, NewsStep, PTL DEF Spec

=============================================================================
