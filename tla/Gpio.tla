-------------------------------- MODULE Gpio --------------------------------
(***************************************************************************)
(* The pin interrupts of one bank, src/hal/source/gpio/hal_gpio.c.  Tasks  *)
(* request a pin, enable and disable its interrupt and free it, in the     *)
(* order of src/hal/test/gpio/test_gpio.c.  The registers of the bank hold *)
(* bits of every pin and are read, changed and written with no lock; the   *)
(* bank's handler, gpio_irq_handle, runs between any two accesses of a     *)
(* task, to its end, and serves one pin: the lowest with a status.         *)
(*                                                                         *)
(* A pin belongs to one task at a time.  A pin whose function is EINT sets *)
(* its status at the edge its trigger type names, masked or not; the line  *)
(* of the bank is up while an enabled pin has a status.  Writing ones to   *)
(* the status register clears them.  Standby may take the power of the     *)
(* bank, and with it every register.                                       *)
(***************************************************************************)
EXTENDS Naturals

CONSTANTS Tasks, Pins,   \* pins of one bank, numbers
          NULL,
          bad_gpio_irq_handle,
          TypeOf,        \* the trigger type a task requests
          PinsOf,        \* the pins a task may request
          MaxEdges       \* bound: edges on each pin

ASSUME PinAssumption == Pins \subseteq Nat
ASSUME NoneAssumption ==
  {NULL, bad_gpio_irq_handle} \cap Tasks = {} /\ NULL \notin Pins /\ NULL # bad_gpio_irq_handle
ASSUME TypeAssumption == TypeOf \in [Tasks -> {"EDGE_RISING", "EDGE_FALLING"}]
ASSUME PinsOfAssumption == PinsOf \in [Tasks -> SUBSET Pins]
ASSUME EdgesAssumption == MaxEdges \in [Pins -> Nat]

VARIABLES
  handle_irq, data,          \* of a pin's descriptor: whose handler, whose data
  ctrl, cfg, mux, status,    \* registers: pins enabled, trigger types, pins that are EINT, pins pending
  task,                      \* where a task is: its pin, and the register value it read
  isr,                       \* the handler: the pin it serves, and what it called with what
  reg_dump,                  \* what hal_gpio_suspend saved
  bank,                      \* whether the bank has power, and how far it is restored
  \* history: edges on each pin, pins with an edge no handler run has followed
  \* or enable has voided, pins whose last edge was cleared or not latched
  \* (see EdgeAnswered), and pins whose task wrote a register while another
  \* was about to
  edges, unseen, lost, raced

desc == <<handle_irq, data>>
registers == <<ctrl, cfg, mux, status>>
standby == <<reg_dump, bank>>
history == <<edges, unseen, lost>>
vars == <<desc, registers, task, isr, standby, history, raced>>

Types == {"EDGE_RISING", "EDGE_FALLING"}
ResetTypes == [p \in Pins |-> "EDGE_RISING"]
Awake == reg_dump = NULL
Idle == [pc |-> "idle", pin |-> NULL, val |-> NULL]
Quiet == [pc |-> "idle", pin |-> NULL, user |-> NULL, data |-> NULL, due |-> FALSE]

Init ==
  /\ handle_irq = [p \in Pins |-> bad_gpio_irq_handle] /\ data = [p \in Pins |-> NULL]
  /\ ctrl = {} /\ cfg = ResetTypes /\ mux = {} /\ status = {}
  /\ task = [t \in Tasks |-> Idle] /\ isr = Quiet /\ reg_dump = NULL /\ bank = "on"
  /\ edges = [p \in Pins |-> 0] /\ unseen = {} /\ lost = {} /\ raced = {}

-----------------------------------------------------------------------------
(* Tasks.                                                                  *)

\* The task runs, and goes on.
At(t, pc) == task[t].pc = pc /\ isr.pc = "idle" /\ Awake
Go(t, pc) == task' = [task EXCEPT ![t].pc = pc]

\* A register is read and written in two steps; what is written while another
\* task is between the two, that task writes away.
Read(t, from, to, reg) ==
  /\ At(t, from)
  /\ task' = [task EXCEPT ![t].pc = to, ![t].val = reg]

Between(name) ==
  {t \in Tasks : task[t].pc \in CASE name = "ctrl" -> {"unmask", "mask"}
                                  [] name = "cfg" -> {"type"}
                                  [] name = "mux" -> {"function"}}

Written(t, from, to, name) ==
  /\ At(t, from)
  /\ task' = [task EXCEPT ![t].pc = to, ![t].val = NULL]
  /\ raced' = IF Between(name) \subseteq {t} THEN raced ELSE raced \cup {task[t].pin}

\* hal_gpio_irq_request: the descriptor, the trigger type, the pin's function.
RequestHandler(t, p) ==
  /\ At(t, "idle") /\ p \in PinsOf[t]
  /\ \A o \in Tasks : task[o].pin # p
  /\ task' = [task EXCEPT ![t] = [pc |-> "data", pin |-> p, val |-> NULL]]
  /\ handle_irq' = IF handle_irq[p] = bad_gpio_irq_handle
                     THEN [handle_irq EXCEPT ![p] = t] ELSE handle_irq
  /\ UNCHANGED <<data, registers, isr, standby, history, raced>>

RequestData(t) ==
  /\ At(t, "data")
  /\ Go(t, "requested")
  /\ data' = [data EXCEPT ![task[t].pin] = t]
  /\ UNCHANGED <<handle_irq, registers, isr, standby, history, raced>>

gpio_irq_set_type(t) ==
  \/ /\ Read(t, "requested", "type", cfg)
     /\ UNCHANGED <<desc, registers, isr, standby, history, raced>>
  \/ /\ Written(t, "type", "typed", "cfg")
     /\ cfg' = [task[t].val EXCEPT ![task[t].pin] = TypeOf[t]]
     /\ UNCHANGED <<desc, ctrl, mux, status, isr, standby, history>>

hal_gpio_pinmux_set_function(t) ==
  \/ /\ Read(t, "typed", "function", mux)
     /\ UNCHANGED <<desc, registers, isr, standby, history, raced>>
  \/ /\ Written(t, "function", "held", "mux")
     /\ mux' = task[t].val \cup {task[t].pin}
     /\ UNCHANGED <<desc, ctrl, cfg, status, isr, standby, history>>

\* hal_gpio_irq_enable: what is pending goes, then the interrupt comes on.
AckedAtEnable_none(p) == {}
AckedAtEnable(p) == {p}

EnableAck(t) ==
  /\ At(t, "held")
  /\ Go(t, "acked")
  /\ status' = status \ AckedAtEnable(task[t].pin)
  /\ unseen' = unseen \ {task[t].pin}
  /\ lost' = lost \ {task[t].pin}
  /\ UNCHANGED <<desc, ctrl, cfg, mux, isr, standby, edges, raced>>

Unmask(t) ==
  \/ /\ Read(t, "acked", "unmask", ctrl)
     /\ UNCHANGED <<desc, registers, isr, standby, history, raced>>
  \/ /\ Written(t, "unmask", "on", "ctrl")
     /\ ctrl' = task[t].val \cup {task[t].pin}
     /\ UNCHANGED <<desc, cfg, mux, status, isr, standby, history>>

hal_gpio_irq_disable(t) ==
  \/ /\ Read(t, "on", "mask", ctrl)
     /\ UNCHANGED <<desc, registers, isr, standby, history, raced>>
  \/ /\ Written(t, "mask", "held", "ctrl")
     /\ ctrl' = task[t].val \ {task[t].pin}
     /\ UNCHANGED <<desc, cfg, mux, status, isr, standby, history>>

\* hal_gpio_irq_free leaves the registers as they are.
FreeHandler(t) ==
  /\ At(t, "held")
  /\ Go(t, "freed")
  /\ handle_irq' = [handle_irq EXCEPT ![task[t].pin] = bad_gpio_irq_handle]
  /\ UNCHANGED <<data, registers, isr, standby, history, raced>>

DataAfterFree_kept(p) == data[p]
DataAfterFree(p) == NULL

FreeData(t) ==
  /\ At(t, "freed")
  /\ data' = [data EXCEPT ![task[t].pin] = DataAfterFree(task[t].pin)]
  /\ task' = [task EXCEPT ![t] = Idle]
  /\ raced' = raced \ {task[t].pin}
  /\ UNCHANGED <<handle_irq, registers, isr, standby, history>>

Task(t) ==
  \/ \E p \in Pins : RequestHandler(t, p)
  \/ RequestData(t) \/ gpio_irq_set_type(t) \/ hal_gpio_pinmux_set_function(t)
  \/ EnableAck(t) \/ Unmask(t) \/ hal_gpio_irq_disable(t)
  \/ FreeHandler(t) \/ FreeData(t)

-----------------------------------------------------------------------------
(* gpio_irq_handle.                                                        *)

\* The lowest pin with a status is served, whether its interrupt is enabled
\* or not; its handler runs before the status is cleared.
Call ==
  \E p \in status :
    /\ \A q \in status : p =< q
    /\ isr.pc = "idle" /\ status \cap ctrl # {} /\ bank = "on"
    /\ isr' = [pc |-> "call", pin |-> p, user |-> handle_irq[p], data |-> data[p], due |-> p \in unseen]
    /\ unseen' = unseen \ {p}
    /\ lost' = lost \ {p}
    /\ UNCHANGED <<desc, registers, task, standby, edges, raced>>

Acked_all(p) == status
Acked(p) == {p}

gpio_irq_ack ==
  /\ isr.pc = "call"
  /\ isr' = Quiet
  /\ status' = status \ Acked(isr.pin)
  /\ lost' = lost \cup ({isr.pin} \cap unseen)
  /\ UNCHANGED <<desc, ctrl, cfg, mux, task, standby, edges, unseen, raced>>

Isr == Call \/ gpio_irq_ack

-----------------------------------------------------------------------------
(* Standby: every register is copied and written back, the status too.  In *)
(* between handlers go on until the power goes, if it does.                *)

hal_gpio_suspend ==
  /\ Awake /\ isr.pc = "idle"
  /\ reg_dump' = [ctrl |-> ctrl, cfg |-> cfg, mux |-> mux, status |-> status]
  /\ UNCHANGED <<desc, registers, task, isr, bank, history, raced>>

\* The registers go to what they are after a reset, and what was pending goes.
PowerOff ==
  /\ ~Awake /\ bank = "on" /\ isr.pc = "idle"
  /\ bank' = "off"
  /\ ctrl' = {} /\ cfg' = ResetTypes /\ mux' = {} /\ status' = {}
  /\ lost' = lost \cup unseen
  /\ UNCHANGED <<desc, task, isr, reg_dump, edges, unseen, raced>>

\* hal_gpio_resume, with interrupts off, writes the bank in the order of the
\* addresses: functions, trigger types, then enable bits and status.  A bank
\* that kept its power holds the first two already.
RestoreFunctions ==
  /\ bank = "off"
  /\ bank' = "functions"
  /\ mux' = reg_dump.mux
  /\ UNCHANGED <<desc, ctrl, cfg, status, task, isr, reg_dump, history, raced>>

RestoreTypes ==
  /\ bank = "functions"
  /\ bank' = "types"
  /\ cfg' = reg_dump.cfg
  /\ UNCHANGED <<desc, ctrl, mux, status, task, isr, reg_dump, history, raced>>

RestoreRest ==
  /\ ~Awake /\ bank \in {"on", "types"} /\ isr.pc = "idle"
  /\ bank' = "on" /\ reg_dump' = NULL
  /\ ctrl' = reg_dump.ctrl
  /\ status' = status \ reg_dump.status
  /\ lost' = lost \cup (status \cap reg_dump.status \cap unseen)
  /\ UNCHANGED <<desc, cfg, mux, task, isr, edges, unseen, raced>>

hal_gpio_resume == RestoreFunctions \/ RestoreTypes \/ RestoreRest

-----------------------------------------------------------------------------
(* The pins.                                                               *)

\* Enabled, by a task whose call has returned.
Watched(p) == \E t \in Tasks : task[t].pin = p /\ task[t].pc = "on"
TypeWanted(p, type) == \E t \in Tasks : task[t].pin = p /\ TypeOf[t] = type

\* An edge that is latched, or that a user waits for; no other has an effect.
\* A bank whose function or type registers are not restored latches none.
Edge(p, type) ==
  LET latched == p \in mux /\ cfg[p] = type IN
  /\ edges[p] < MaxEdges[p]
  /\ latched \/ (Watched(p) /\ TypeWanted(p, type))
  /\ edges' = [edges EXCEPT ![p] = @ + 1]
  /\ status' = IF latched THEN status \cup {p} ELSE status
  /\ unseen' = unseen \cup {p}
  /\ lost' = IF ~latched /\ bank \in {"off", "functions"} THEN lost \cup {p} ELSE lost \ {p}
  /\ UNCHANGED <<desc, ctrl, cfg, mux, task, isr, standby, raced>>

Next ==
  \/ \E t \in Tasks : Task(t)
  \/ Isr
  \/ hal_gpio_suspend \/ PowerOff \/ hal_gpio_resume
  \/ \E p \in Pins, type \in Types : Edge(p, type)

Spec == Init /\ [][Next]_vars

\* Interrupts are taken, their handler returns, and a resume that has begun
\* runs to its end.
Runs == Isr \/ (hal_gpio_resume /\ bank # "off" /\ bank # "on")
FairSpec == Spec /\ WF_vars(Runs)

-----------------------------------------------------------------------------

\* A handler is never called with the data of a user before: at worst, when
\* an edge latched before meets the two writes of a request, with none.  From
\* then on, and until the free, the pin's task gets its own handler and data,
\* whatever other tasks did to the registers.
HandlersPaired ==
  isr.pc = "call" =>
    /\ isr.user # bad_gpio_irq_handle => isr.data \in {isr.user, NULL}
    /\ \A t \in Tasks :
         task[t].pin = isr.pin /\ task[t].pc \notin {"data", "freed"} => isr.user = t /\ isr.data = t

\* Every run of a handler follows an edge of its own: one since the run
\* before, and since the pin was last enabled.
NoSpuriousCall == isr.pc = "call" => isr.due

\* A watched pin's handler runs after its edge, which the runs of other pins,
\* standby and calls for other pins do not take away.  Excepted are the edges
\* the code cannot keep: one between the call of the handler and the clearing
\* of the status; one that is written away as the status is restored; one that
\* was pending when standby took the power, or that comes before functions and
\* types are restored; and a pin whose task wrote a register while another had
\* read it.
EdgeAnswered ==
  \A p \in Pins :
    Watched(p) /\ p \in unseen ~> p \notin unseen \/ p \in lost \/ ~Watched(p) \/ p \in raced

=============================================================================
