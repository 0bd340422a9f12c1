-------------------------- MODULE MsgboxAmpProofs --------------------------
(***************************************************************************)
(* What TLAPS proves of the message box between two cores (MsgboxAmp), for *)
(* any number of tasks, endpoints, channels and senders: the list of       *)
(* endpoints stays the chain its loops and the interrupt handler need, the *)
(* interrupts that are enabled are those of the list, and each channel is  *)
(* the queue that module Mailbox specifies.                                *)
(***************************************************************************)
EXTENDS MsgboxAmp, SequenceTheorems, TLAPS

Links == [Edps -> Pointers]

-----------------------------------------------------------------------------
(* Chains of links, whatever they stand for.                               *)

\* What is reached from a pointer is reached by following it once, and on.
LEMMA ReachedOnce ==
  ASSUME NEW f \in Links, NEW a \in Edps
  PROVE  ReachedBy(f, a) = {a} \cup ReachedBy(f, f[a])
<1>1. a \in ReachedBy(f, a)
  BY NullAssumption DEF ReachedBy
<1>2. ASSUME NEW e \in ReachedBy(f, f[a])  PROVE e \in ReachedBy(f, a)
  <2> SUFFICES ASSUME NEW S \in SUBSET Edps, a \in S \cup {NULL}, ClosedUnder(f, S)  PROVE e \in S
    BY <1>2 DEF ReachedBy
  <2>1. f[a] \in S \cup {NULL}
    BY NullAssumption DEF ClosedUnder
  <2> QED
    BY <2>1, <1>2 DEF ReachedBy
<1>3. ASSUME NEW e \in ReachedBy(f, a), e # a  PROVE e \in ReachedBy(f, f[a])
  <2> SUFFICES ASSUME NEW S \in SUBSET Edps, f[a] \in S \cup {NULL}, ClosedUnder(f, S)  PROVE e \in S
    BY <1>3 DEF ReachedBy
  <2>1. S \cup {a} \in SUBSET Edps /\ ClosedUnder(f, S \cup {a})
    BY DEF ClosedUnder
  <2>2. e \in S \cup {a}
    BY <2>1, <1>3 DEF ReachedBy
  <2> QED
    BY <2>2, <1>3
<1> QED
  BY <1>1, <1>2, <1>3

\* Nothing is reached from the end.
LEMMA NothingReached == ASSUME NEW f  PROVE ReachedBy(f, NULL) = {}
<1>1. {} \in SUBSET Edps /\ NULL \in {} \cup {NULL} /\ ClosedUnder(f, {})
  BY DEF ClosedUnder
<1>2. ASSUME NEW e \in ReachedBy(f, NULL)  PROVE FALSE
  <2>1. e \in {}
    BY <1>1, <1>2 DEF ReachedBy
  <2> QED
    BY <2>1
<1> QED
  BY <1>2

\* A chain holds the successors of its members, and the chains that begin at them.
LEMMA ReachedClosed ==
  ASSUME NEW f \in Links, NEW a \in Pointers, NEW b \in ReachedBy(f, a)
  PROVE  /\ b \in Edps
         /\ f[b] \in ReachedBy(f, a) \cup {NULL}
         /\ ReachedBy(f, b) \subseteq ReachedBy(f, a)
<1>1. b \in Edps
  BY DEF ReachedBy
<1>2. ASSUME NEW S \in SUBSET Edps, a \in S \cup {NULL}, ClosedUnder(f, S)
      PROVE  b \in S /\ f[b] \in S \cup {NULL}
  BY <1>2 DEF ReachedBy, ClosedUnder
<1>3. f[b] \in ReachedBy(f, a) \cup {NULL}
  <2>1. f[b] \in Edps \cup {NULL}
    BY <1>1 DEF Links, Pointers
  <2> QED
    BY <1>2, <2>1 DEF ReachedBy
<1>4. ASSUME NEW e \in ReachedBy(f, b)  PROVE e \in ReachedBy(f, a)
  BY <1>2, <1>4 DEF ReachedBy
<1> QED
  BY <1>1, <1>3, <1>4

\* A chain is a closed set.
LEMMA ReachedIsClosed ==
  ASSUME NEW f \in Links, NEW a \in Pointers
  PROVE  ReachedBy(f, a) \in SUBSET Edps /\ ClosedUnder(f, ReachedBy(f, a))
BY ReachedClosed DEF ReachedBy, ClosedUnder

\* A link that is not on the chain may change.
LEMMA ReachedElsewhere ==
  ASSUME NEW f \in Links, NEW g \in Links, NEW a \in Pointers,
         \A e \in ReachedBy(f, a) : g[e] = f[e]
  PROVE  ReachedBy(g, a) = ReachedBy(f, a)
<1> DEFINE R == ReachedBy(f, a)
<1>1. R \in SUBSET Edps /\ ClosedUnder(f, R) /\ a \in R \cup {NULL}
  BY ReachedIsClosed, ReachedOnce DEF Pointers
<1>2. ClosedUnder(g, R)
  BY <1>1 DEF ClosedUnder
<1>3. ReachedBy(g, a) \subseteq R
  BY <1>1, <1>2 DEF ReachedBy
<1>4. ASSUME NEW e \in R, NEW S \in SUBSET Edps, a \in S \cup {NULL}, ClosedUnder(g, S)
      PROVE  e \in S
  <2>1. S \cap R \in SUBSET Edps /\ a \in (S \cap R) \cup {NULL}
    BY <1>1, <1>4
  <2>2. ClosedUnder(f, S \cap R)
    <3> SUFFICES ASSUME NEW x \in S \cap R  PROVE f[x] \in (S \cap R) \cup {NULL}
      BY DEF ClosedUnder
    <3>1. f[x] \in R \cup {NULL}
      BY <1>1 DEF ClosedUnder
    <3>2. g[x] \in S \cup {NULL}
      BY <1>4 DEF ClosedUnder
    <3> QED
      BY <3>1, <3>2
  <2>3. e \in S \cap R
    BY <2>1, <2>2 DEF ReachedBy
  <2> QED
    BY <2>3
<1>5. R \subseteq ReachedBy(g, a)
  BY <1>1, <1>4 DEF ReachedBy
<1> QED
  BY <1>3, <1>5

\* An object that links nowhere, appended behind the last one.
LEMMA ReachedAppended ==
  ASSUME NEW f \in Links, NEW h \in Pointers, NEW a \in ReachedBy(f, h), NEW e \in Edps,
         f[a] = NULL, f[e] = NULL,
         NEW g \in Links, g[a] = e, \A x \in Edps \ {a} : g[x] = f[x]
  PROVE  ReachedBy(g, h) = ReachedBy(f, h) \cup {e}
<1> DEFINE R == ReachedBy(f, h)
<1>1. R \in SUBSET Edps /\ ClosedUnder(f, R) /\ h \in R \cup {NULL} /\ a \in Edps /\ NULL \notin Edps
  BY ReachedIsClosed, ReachedOnce, NullAssumption DEF Pointers
<1>2. g[a] = e /\ \A x \in Edps : x # a => g[x] = f[x]
  OBVIOUS
<1>3. ClosedUnder(g, R \cup {e})
  BY <1>1, <1>2 DEF ClosedUnder
<1>4. ReachedBy(g, h) \subseteq R \cup {e}
  BY <1>1, <1>3 DEF ReachedBy
<1>5. ASSUME NEW S \in SUBSET Edps, h \in S \cup {NULL}, ClosedUnder(g, S)
      PROVE  R \cup {e} \subseteq S
  <2>1. ClosedUnder(f, S)
    BY <1>2, <1>5 DEF ClosedUnder
  <2>2. R \subseteq S
    BY <1>5, <2>1 DEF ReachedBy
  <2>3. g[a] \in S \cup {NULL}
    BY <2>2, <1>5 DEF ClosedUnder
  <2> QED
    BY <2>2, <2>3, <1>1, <1>2
<1>6. R \cup {e} \subseteq ReachedBy(g, h)
  BY <1>1, <1>5 DEF ReachedBy
<1>7. ReachedBy(g, h) = R \cup {e}
  BY <1>4, <1>6
<1> QED
  BY <1>7

\* The head, which follows nobody, taken off.
LEMMA ReachedBehindHead ==
  ASSUME NEW f \in Links, NEW h \in Edps, \A x \in ReachedBy(f, h) : f[x] # h
  PROVE  ReachedBy(f, f[h]) = ReachedBy(f, h) \ {h}
<1> DEFINE R == ReachedBy(f, h)
<1>1. R \in SUBSET Edps /\ ClosedUnder(f, R) /\ h \in R /\ R = {h} \cup ReachedBy(f, f[h])
  BY ReachedIsClosed, ReachedOnce DEF Pointers
<1>2. ClosedUnder(f, R \ {h}) /\ f[h] \in (R \ {h}) \cup {NULL}
  BY <1>1 DEF ClosedUnder
<1>3. ReachedBy(f, f[h]) \subseteq R \ {h}
  BY <1>1, <1>2 DEF ReachedBy
<1> QED
  BY <1>1, <1>3

\* Any other, which follows one object, taken out behind it.
LEMMA ReachedWithout ==
  ASSUME NEW f \in Links, NEW h \in Pointers, NEW a \in ReachedBy(f, h), NEW e \in Edps,
         f[a] = e, e # a, e # h, \A x \in ReachedBy(f, h) \ {a} : f[x] # e,
         NEW g \in Links, g[a] = f[e], \A x \in Edps \ {a} : g[x] = f[x]
  PROVE  ReachedBy(g, h) = ReachedBy(f, h) \ {e}
<1> DEFINE R == ReachedBy(f, h)
<1>1. R \in SUBSET Edps /\ ClosedUnder(f, R) /\ h \in R \cup {NULL} /\ a \in Edps /\ NULL \notin Edps
  BY ReachedIsClosed, ReachedOnce, NullAssumption DEF Pointers
<1>2. g[a] = f[e] /\ \A x \in Edps : x # a => g[x] = f[x]
  OBVIOUS
<1>3. e \in R /\ f[e] \in R \cup {NULL}
  BY <1>1 DEF ClosedUnder
<1>4. f[e] # e
  BY <1>3
<1>5. ClosedUnder(g, R \ {e})
  <2> SUFFICES ASSUME NEW x \in R \ {e}  PROVE g[x] \in (R \ {e}) \cup {NULL}
    BY DEF ClosedUnder
  <2>1. CASE x = a
    BY <2>1, <1>2, <1>3, <1>4
  <2>2. CASE x # a
    BY <2>2, <1>1, <1>2 DEF ClosedUnder
  <2> QED
    BY <2>1, <2>2
<1>6. ReachedBy(g, h) \subseteq R \ {e}
  BY <1>1, <1>5 DEF ReachedBy
<1>7. ASSUME NEW S \in SUBSET Edps, h \in S \cup {NULL}, ClosedUnder(g, S)
      PROVE  R \subseteq S \cup {e}
  <2>1. CASE a \in S
    <3>1. g[a] \in S \cup {NULL}
      BY <2>1, <1>7 DEF ClosedUnder
    <3>2. ClosedUnder(f, S \cup {e})
      BY <3>1, <1>2, <1>7 DEF ClosedUnder
    <3> QED
      BY <3>2, <1>7 DEF ReachedBy
  <2>2. CASE a \notin S
    <3>1. ClosedUnder(f, S)
      BY <2>2, <1>2, <1>7 DEF ClosedUnder
    <3> QED
      BY <3>1, <1>7 DEF ReachedBy
  <2> QED
    BY <2>1, <2>2
<1>8. R \ {e} \subseteq ReachedBy(g, h)
  BY <1>1, <1>7 DEF ReachedBy
<1>9. ReachedBy(g, h) = R \ {e}
  BY <1>6, <1>8
<1> QED
  BY <1>9

\* One object that links nowhere is a chain.
LEMMA ReachedAlone ==
  ASSUME NEW f \in Links, NEW e \in Edps, f[e] = NULL
  PROVE  ReachedBy(f, e) = {e}
BY ReachedOnce, NothingReached

-----------------------------------------------------------------------------
(* The types, and who is in which call.                                    *)

TaskPcs == {"idle", "asleep"} \cup AllocPcs \cup ResumePcs \cup FreePcs
TaskType == [pc: TaskPcs, edp: Pointers, at: Pointers, val: SUBSET Channels]
SendType == [pc: {"idle", "poll", "write"}, left: 0 .. MsgWords, n: 0 .. MaxWords]

\* Task t takes these values, and the others are as they were.
Moves(t, pc, edp, at, val) ==
  /\ task' \in [Tasks -> TaskType]
  /\ task'[t] = [pc |-> pc, edp |-> edp, at |-> at, val |-> val]
  /\ \A u \in Tasks \ {t} : task'[u] = task[u]

Stays(t, pc, at) == Moves(t, pc, task[t].edp, at, task[t].val)
Rests(t) == Moves(t, "idle", NULL, NULL, {})
Begins(t, pc, edp) == Moves(t, pc, edp, NULL, {})
Reads(t, pc) == Moves(t, pc, task[t].edp, task[t].at, recEn)

\* The ways tasks move.
LEMMA Moving ==
  ASSUME TypeOK, NEW t \in Tasks
  PROVE  /\ task[t] \in TaskType
         /\ \A pc \in TaskPcs : GoTo(t, pc) => Stays(t, pc, task[t].at)
         /\ \A pc \in TaskPcs, at \in Pointers : GoToAt(t, pc, at) => Stays(t, pc, at)
         /\ task' = [task EXCEPT ![t] = Quiet] => Rests(t)
         /\ \A pc \in TaskPcs, e \in Pointers :
              task' = [task EXCEPT ![t] = [Quiet EXCEPT !.pc = pc, !.edp = e]] => Begins(t, pc, e)
         /\ task' = [task EXCEPT ![t] = [Quiet EXCEPT !.pc = "asleep"]] => Begins(t, "asleep", NULL)
         /\ \A pc \in TaskPcs :
              task' = [task EXCEPT ![t].pc = pc, ![t].val = recEn] => Reads(t, pc)
<1> USE DEF Moves, TaskType
<1>1. task \in [Tasks -> TaskType] /\ task[t] \in TaskType
  BY DEF TypeOK, TaskPcs
<1>2. ASSUME NEW pc \in TaskPcs, GoTo(t, pc)  PROVE Stays(t, pc, task[t].at)
  BY <1>1, <1>2 DEF GoTo, Stays
<1>3. ASSUME NEW pc \in TaskPcs, NEW at \in Pointers, GoToAt(t, pc, at)  PROVE Stays(t, pc, at)
  BY <1>1, <1>3 DEF GoToAt, Stays
<1>4. ASSUME task' = [task EXCEPT ![t] = Quiet]  PROVE Rests(t)
  BY <1>1, <1>4 DEF Rests, Quiet, Pointers, TaskPcs
<1>5. ASSUME NEW pc \in TaskPcs, NEW e \in Pointers,
             task' = [task EXCEPT ![t] = [Quiet EXCEPT !.pc = pc, !.edp = e]]
      PROVE  Begins(t, pc, e)
  BY <1>1, <1>5 DEF Begins, Quiet, Pointers
<1>6. ASSUME task' = [task EXCEPT ![t] = [Quiet EXCEPT !.pc = "asleep"]]
      PROVE  Begins(t, "asleep", NULL)
  BY <1>1, <1>6 DEF Begins, Quiet, Pointers, TaskPcs
<1>7. ASSUME NEW pc \in TaskPcs, task' = [task EXCEPT ![t].pc = pc, ![t].val = recEn]
      PROVE  Reads(t, pc)
  <2>1. recEn \in SUBSET Channels
    BY DEF TypeOK
  <2> QED
    BY <1>1, <1>7, <2>1 DEF Reads
<1> QED
  BY <1>1, <1>2, <1>3, <1>4, <1>5, <1>6, <1>7

\* What the invariant says of the list and of a task's pointers, as types.
LEMMA Shape ==
  ASSUME ListInv, NEW t \in Tasks
  PROVE  /\ it_edp \in Pointers /\ next \in Links /\ NULL \notin Edps
         /\ task[t] \in TaskType /\ own \in [Edps -> {"out", "calling", "in"}]
         /\ task[t].pc \in AllocPcs \cup FreePcs => task[t].edp \in Edps
         /\ task[t].pc \in {"walk", "seek", "resumeWrite"} => task[t].at \in Edps
         /\ task[t].pc \in {"walk", "clear", "resumeRead", "resumeWrite"} => it_edp_mutex = t
         /\ TaskPointed(t)
<1>1. it_edp \in Pointers /\ next \in Links /\ task[t] \in TaskType /\ NULL \notin Edps
      /\ own \in [Edps -> {"out", "calling", "in"}]
  BY NullAssumption DEF ListInv, TypeOK, TaskType, TaskPcs, Links
<1>2. task[t].pc \in AllocPcs \cup FreePcs => task[t].edp \in Edps
  BY <1>1 DEF ListInv, CallsApart, TaskType, Pointers
<1>3. TaskPointed(t)
  BY DEF ListInv, Pointed
<1>4. task[t].pc \in {"walk", "seek", "resumeWrite"} => task[t].at \in Edps
  BY <1>3 DEF TaskPointed, Listed
<1>5. task[t].pc \in {"walk", "clear", "resumeRead", "resumeWrite"} => it_edp_mutex = t
  BY DEF ListInv, Locked
<1> QED
  BY <1>1, <1>2, <1>3, <1>4, <1>5

\* How each step of a task moves it.
LEMMA AllocMoves ==
  ASSUME ListInv, NEW t \in Tasks
  PROVE  /\ \A e \in Edps : AllocBegin(t, e) => Begins(t, "lock", e)
         /\ AllocLock(t) => \/ it_edp = NULL /\ Stays(t, "clear", task[t].at)
                            \/ it_edp # NULL /\ Stays(t, "walk", it_edp)
         /\ AllocWalk(t) =>
              \/ next[task[t].at] = NULL /\ Stays(t, "clear", task[t].at)
              \/ next[task[t].at] # NULL /\ Stays(t, "walk", next[task[t].at])
         /\ AllocClear(t) => Stays(t, "enableRead", task[t].at)
         /\ ReadEnables(t, "enableRead", "enableWrite") => Reads(t, "enableWrite")
         /\ WriteEnables(t, "enableWrite", EnabledBits(t), "in") => Rests(t)
<1>1. TypeOK
  BY DEF ListInv
<1>2. \A e \in Edps : AllocBegin(t, e) => Begins(t, "lock", e)
  BY <1>1, Moving DEF AllocBegin, TaskPcs, AllocPcs, Pointers
<1>3. ASSUME AllocLock(t)
      PROVE  \/ it_edp = NULL /\ Stays(t, "clear", task[t].at)
             \/ it_edp # NULL /\ Stays(t, "walk", it_edp)
  BY <1>1, <1>3, Moving, Shape DEF AllocLock, TaskPcs, AllocPcs
<1>4. ASSUME AllocWalk(t)
      PROVE  \/ next[task[t].at] = NULL /\ Stays(t, "clear", task[t].at)
             \/ next[task[t].at] # NULL /\ Stays(t, "walk", next[task[t].at])
  <2>1. next[task[t].at] \in Pointers
    BY <1>4, Shape DEF AllocWalk, At, Links
  <2> QED
    BY <1>1, <1>4, <2>1, Moving DEF AllocWalk, TaskPcs, AllocPcs
<1>5. AllocClear(t) => Stays(t, "enableRead", task[t].at)
  BY <1>1, Moving DEF AllocClear, TaskPcs, AllocPcs
<1>6. ReadEnables(t, "enableRead", "enableWrite") => Reads(t, "enableWrite")
  BY <1>1, Moving DEF ReadEnables, TaskPcs, AllocPcs
<1>7. WriteEnables(t, "enableWrite", EnabledBits(t), "in") => Rests(t)
  BY <1>1, Moving DEF WriteEnables
<1> QED
  BY <1>2, <1>3, <1>4, <1>5, <1>6, <1>7

LEMMA FreeMoves ==
  ASSUME ListInv, NEW t \in Tasks
  PROVE  /\ \A e \in Edps : FreeBegin(t, e) => Begins(t, "unlink", e)
         /\ FreeUnlink(t) => \/ it_edp = task[t].edp /\ Stays(t, "forget", task[t].at)
                             \/ it_edp # task[t].edp /\ Stays(t, "seek", it_edp)
         /\ FreeSeek(t) =>
              \/ next[task[t].at] = task[t].edp /\ Stays(t, "forget", task[t].at)
                   /\ next' = Unlinked(task[t].at, task[t].edp)
              \/ next[task[t].at] # task[t].edp /\ Stays(t, "seek", next[task[t].at])
                   /\ next' = next
         /\ FreeForget(t) => Stays(t, "scan", task[t].at)
         /\ FreeScan(t) => \/ it_edp = NULL /\ Stays(t, "disableRead", task[t].at)
                           \/ it_edp # NULL /\ Rests(t)
         /\ ReadEnables(t, "disableRead", "disableWrite") => Reads(t, "disableWrite")
         /\ WriteEnables(t, "disableWrite", task[t].val \ Bit(t), "out") => Rests(t)
<1>1. TypeOK
  BY DEF ListInv
<1>2. \A e \in Edps : FreeBegin(t, e) => Begins(t, "unlink", e)
  BY <1>1, Moving DEF FreeBegin, TaskPcs, FreePcs, Pointers
<1>3. ASSUME FreeUnlink(t)
      PROVE  \/ it_edp = task[t].edp /\ Stays(t, "forget", task[t].at)
             \/ it_edp # task[t].edp /\ Stays(t, "seek", it_edp)
  BY <1>1, <1>3, Moving, Shape DEF FreeUnlink, TaskPcs, FreePcs
<1>4. ASSUME FreeSeek(t)
      PROVE  \/ next[task[t].at] = task[t].edp /\ Stays(t, "forget", task[t].at)
                  /\ next' = Unlinked(task[t].at, task[t].edp)
             \/ next[task[t].at] # task[t].edp /\ Stays(t, "seek", next[task[t].at])
                  /\ next' = next
  <2>1. task[t].at \in Edps /\ task[t].at # NULL /\ next[task[t].at] \in Pointers
    BY <1>4, Shape DEF FreeSeek, At, Links
  <2> QED
    BY <1>1, <1>4, <2>1, Moving DEF FreeSeek, TaskPcs, FreePcs
<1>5. FreeForget(t) => Stays(t, "scan", task[t].at)
  BY <1>1, Moving DEF FreeForget, TaskPcs, FreePcs
<1>6. ASSUME FreeScan(t)
      PROVE  \/ it_edp = NULL /\ Stays(t, "disableRead", task[t].at)
             \/ it_edp # NULL /\ Rests(t)
  BY <1>1, <1>6, Moving DEF FreeScan, TaskPcs, FreePcs
<1>7. ReadEnables(t, "disableRead", "disableWrite") => Reads(t, "disableWrite")
  BY <1>1, Moving DEF ReadEnables, TaskPcs, FreePcs
<1>8. WriteEnables(t, "disableWrite", task[t].val \ Bit(t), "out") => Rests(t)
  BY <1>1, Moving DEF WriteEnables
<1> QED
  BY <1>2, <1>3, <1>4, <1>5, <1>6, <1>7, <1>8

LEMMA ResumeMoves ==
  ASSUME ListInv, NEW t \in Tasks
  PROVE  /\ Suspend(t) => Begins(t, "asleep", NULL)
         /\ WakeUp(t) => Stays(t, "resumeLock", task[t].at)
         /\ ResumeLock(t) => Stays(t, "resumeRead", it_edp)
         /\ ReadEnables(t, "resumeRead", "resumeWrite") => Reads(t, "resumeWrite")
         /\ ResumeEnable(t) => \/ task[t].at # NULL /\ ReadEnables(t, "resumeRead", "resumeWrite")
                               \/ /\ At(t, "resumeWrite")
                                  /\ recEn' = task[t].val \cup {ReadCh[task[t].at]}
                                  /\ Stays(t, "resumeRead", next[task[t].at])
                                  /\ UNCHANGED <<listVars, pending, fifo, isr, own, send, history>>
         /\ ResumeUnlock(t) => Rests(t)
<1>1. TypeOK
  BY DEF ListInv
<1>2. Suspend(t) => Begins(t, "asleep", NULL)
  BY <1>1, Moving DEF Suspend
<1>3. WakeUp(t) => Stays(t, "resumeLock", task[t].at)
  BY <1>1, Moving DEF WakeUp, TaskPcs, ResumePcs
<1>4. ResumeLock(t) => Stays(t, "resumeRead", it_edp)
  BY <1>1, Moving, Shape DEF ResumeLock, TaskPcs, ResumePcs
<1>5. ReadEnables(t, "resumeRead", "resumeWrite") => Reads(t, "resumeWrite")
  BY <1>1, Moving DEF ReadEnables, TaskPcs, ResumePcs
<1>6. ASSUME At(t, "resumeWrite"), GoToAt(t, "resumeRead", next[task[t].at])
      PROVE  Stays(t, "resumeRead", next[task[t].at])
  <2>1. next[task[t].at] \in Pointers
    BY <1>6, Shape DEF At, Links
  <2> QED
    BY <1>1, <1>6, <2>1, Moving DEF TaskPcs, ResumePcs
<1>7. ResumeUnlock(t) => Rests(t)
  BY <1>1, Moving DEF ResumeUnlock
<1> QED
  BY <1>2, <1>3, <1>4, <1>5, <1>6, <1>7 DEF ResumeEnable

\* The words and calls of the other core, and the handler, keep the types.
LEMMA BoxTypes ==
  ASSUME TypeOK, SendInv, Isr \/ \E s \in Senders : Sender(s)
  PROVE  TypeOK'
<1>0. /\ fifo \in [Channels -> Seq(Words)] /\ sent \in [Channels -> Seq(Words)]
      /\ taken \in [Channels -> Seq(Words)] /\ \A ch \in Channels : Len(fifo[ch]) <= MSGBOX_MAX_QUEUE
      /\ next \in Links /\ it_edp \in Pointers /\ send \in [Senders -> SendType]
      /\ MSGBOX_MAX_QUEUE \in Nat /\ MaxWords \in Nat /\ MsgWords \in Nat
      /\ ReadCh \in [Edps -> Channels] /\ WriteCh \in [Senders -> Channels]
  BY BoundAssumption, ChannelAssumption DEF TypeOK, Links, SendType
<1>1. CASE IrqEnter
  BY <1>1 DEF IrqEnter, TypeOK, listVars, boxVars, history, words
<1>2. CASE IrqDrain
  <2> DEFINE ch == ReadCh[isr.at]
  <2>1. isr.at \in Edps /\ isr.pc = "drain"
    BY <1>2 DEF IrqDrain, TypeOK, Pointers
  <2>2. ch \in Channels
    BY <1>0, <2>1
  <2>3. CASE fifo[ch] # <<>>
    <3> DEFINE w == Head(fifo[ch])
    <3>1. w \in Words /\ Tail(fifo[ch]) \in Seq(Words) /\ Len(Tail(fifo[ch])) <= Len(fifo[ch])
      BY <1>0, <2>2, <2>3
    <3>2. fifo' = [fifo EXCEPT ![ch] = Tail(@)] /\ taken' = [taken EXCEPT ![ch] = Append(@, w)]
      BY <1>2, <2>3 DEF IrqDrain
    <3>3. fifo' \in [Channels -> Seq(Words)] /\ taken' \in [Channels -> Seq(Words)]
      BY <1>0, <2>2, <3>1, <3>2
    <3>4. ASSUME NEW c \in Channels  PROVE Len(fifo'[c]) <= MSGBOX_MAX_QUEUE
      BY <1>0, <2>2, <3>1, <3>2
    <3> QED
      BY <1>2, <2>3, <3>3, <3>4 DEF IrqDrain, TypeOK, listVars
  <2>4. CASE fifo[ch] = <<>>
    <3>1. isr \in [pc: {"idle", "drain", "ack"}, at: Pointers] /\ isr.at # NULL
      BY <1>2 DEF IrqDrain, TypeOK
    <3>2. isr' \in [pc: {"idle", "drain", "ack"}, at: Pointers] /\ isr'.at # NULL
      BY <1>2, <2>4, <3>1 DEF IrqDrain
    <3> QED
      BY <1>2, <2>4, <3>2 DEF IrqDrain, TypeOK, listVars
  <2> QED
    BY <2>3, <2>4
<1>3. CASE IrqAck
  <2>1. isr.at \in Edps
    BY <1>3 DEF IrqAck, TypeOK, Pointers
  <2>2. next[isr.at] \in Pointers
    BY <1>0, <2>1 DEF Links
  <2>3. pending' \subseteq Channels
    BY <1>3 DEF IrqAck, PendingAfterAck, TypeOK
  <2> QED
    BY <1>3, <2>2, <2>3 DEF IrqAck, TypeOK, listVars, history, words
<1>4. CASE IrqReturn
  BY <1>4 DEF IrqReturn, TypeOK, listVars, boxVars, history, words
<1>5. ASSUME NEW s \in Senders, SendBegin(s)  PROVE TypeOK'
  <2>1. PICK len \in 1 .. MsgWords : send' = [send EXCEPT ![s].pc = "poll", ![s].left = len]
    BY <1>5 DEF SendBegin
  <2>2. len \in 0 .. MsgWords
    BY <1>0
  <2>3. send' \in [Senders -> SendType]
    BY <1>0, <2>1, <2>2 DEF SendType
  <2> QED
    BY <1>5, <2>3 DEF SendBegin, TypeOK, SendType, listVars, boxVars, history, words
<1>6. ASSUME NEW s \in Senders, SendPoll(s)  PROVE TypeOK'
  <2>1. send' \in [Senders -> SendType]
    BY <1>0, <1>6 DEF SendPoll, SendType
  <2> QED
    BY <1>6, <2>1 DEF SendPoll, TypeOK, SendType, listVars, boxVars, history, words
<1>7. ASSUME NEW s \in Senders, SendWrite(s)  PROVE TypeOK'
  <2> DEFINE ch == WriteCh[s]  word == <<s, send[s].n + 1>>
  <2>1. send[s] \in SendType /\ send[s].left > 0 /\ send[s].n + send[s].left <= MaxWords
    BY <1>0, <1>7 DEF SendWrite, SendInv
  <2>2. /\ send[s].pc \in {"idle", "poll", "write"}
        /\ send[s].left \in 1 .. MsgWords /\ send[s].n + 1 \in 1 .. MaxWords
    BY <1>0, <2>1 DEF SendType
  <2>3. word \in Words /\ ch \in Channels
    BY <1>0, <2>2 DEF Words
  <2>4. send' \in [Senders -> SendType]
    <3>1. /\ send[s].left - 1 \in 0 .. MsgWords /\ send[s].n + 1 \in 0 .. MaxWords
          /\ (IF LastWord(s) THEN "idle" ELSE "poll") \in {"idle", "poll", "write"}
      BY <1>0, <2>2
    <3>2. [send[s] EXCEPT !.pc = IF LastWord(s) THEN "idle" ELSE "poll",
                          !.left = @ - 1, !.n = @ + 1] \in SendType
      BY <1>0, <3>1 DEF SendType
    <3>3. send' = [send EXCEPT ![s] = [send[s] EXCEPT !.pc = IF LastWord(s) THEN "idle" ELSE "poll",
                                                      !.left = @ - 1, !.n = @ + 1]]
      BY <1>0, <1>7 DEF SendWrite, SendType
    <3> QED
      BY <1>0, <3>2, <3>3
  <2>5. sent' \in [Channels -> Seq(Words)]
    BY <1>0, <1>7, <2>3 DEF SendWrite
  <2>6. fifo' = [fifo EXCEPT ![ch] = IF Len(@) < MSGBOX_MAX_QUEUE THEN Append(@, word) ELSE @]
    BY <1>7 DEF SendWrite
  <2>7. fifo' \in [Channels -> Seq(Words)]
    BY <1>0, <2>3, <2>6
  <2>8. ASSUME NEW c \in Channels  PROVE Len(fifo'[c]) <= MSGBOX_MAX_QUEUE
    BY <1>0, <2>3, <2>6
  <2> QED
    BY <1>7, <2>3, <2>4, <2>5, <2>7, <2>8 DEF SendWrite, TypeOK, SendType, listVars
<1> QED
  BY <1>1, <1>2, <1>3, <1>4, <1>5, <1>6, <1>7 DEF Isr, Sender

\* So do the calls of the tasks, whose pointers are where the loops need them.
LEMMA TaskTypes ==
  ASSUME ListInv, NEW t \in Tasks, Begin(t) \/ Proceed(t) \/ WakeUp(t) \/ Suspend(t)
  PROVE  TypeOK'
<1>0. TypeOK /\ t \in Tasks \cup {NULL} /\ ReadCh \in [Edps -> Channels]
      /\ task[t].val \subseteq Channels /\ next \in Links
  BY ChannelAssumption, Shape DEF ListInv, TaskType
<1> USE <1>0 DEF listVars, boxVars, history, words
<1>1. ASSUME task' \in [Tasks -> TaskType],
             it_edp' \in Pointers, next' \in Links, it_edp_mutex' \in Tasks \cup {NULL},
             recEn' \subseteq Channels, own' \in [Edps -> {"out", "calling", "in"}],
             overlapped' \in BOOLEAN, UNCHANGED <<pending, fifo, isr, send, words>>
      PROVE  TypeOK'
  BY <1>1 DEF TypeOK, TaskType, TaskPcs, Links
<1>2. ASSUME NEW e \in Edps, AllocBegin(t, e)  PROVE TypeOK'
  BY <1>1, <1>2, AllocMoves DEF AllocBegin, Begins, Moves, TypeOK, Links, Overlaps
<1>3. CASE AllocLock(t)
  <2>1. it_edp' \in Pointers
    BY <1>3, Shape DEF AllocLock, At, AllocPcs, Pointers
  <2> QED
    BY <1>1, <1>3, <2>1, AllocMoves DEF AllocLock, Stays, Moves, TypeOK, Links
<1>4. CASE AllocWalk(t)
  <2>1. next' \in Links
    BY <1>4, Shape DEF AllocWalk, At, AllocPcs, Pointers, Links
  <2> QED
    BY <1>1, <1>4, <2>1, AllocMoves DEF AllocWalk, Stays, Moves, TypeOK
<1>5. CASE AllocClear(t)
  <2>1. next' \in Links
    BY <1>5 DEF AllocClear, Pointers, Links
  <2> QED
    BY <1>1, <1>5, <2>1, AllocMoves DEF AllocClear, Unlocked, Stays, Moves, TypeOK
<1>6. ASSUME NEW from, NEW to, ReadEnables(t, from, to), Reads(t, to)  PROVE TypeOK'
  BY <1>1, <1>6 DEF ReadEnables, Reads, Moves, TypeOK, Links
<1>7. ASSUME NEW from, NEW bits \in SUBSET Channels, NEW to \in {"in", "out"},
             WriteEnables(t, from, bits, to), Rests(t)
      PROVE  TypeOK'
  BY <1>1, <1>7 DEF WriteEnables, Rests, Moves, TypeOK, Links
<1>8. CASE AllocEnable(t)
  <2>1. CASE WriteEnables(t, "enableWrite", EnabledBits(t), "in")
    <3>1. EnabledBits(t) \in SUBSET Channels
      BY <2>1, Shape DEF WriteEnables, At, AllocPcs, EnabledBits, Bit
    <3> QED
      BY <1>7, <2>1, <3>1, AllocMoves
  <2> QED
    BY <1>6, <1>8, <2>1, AllocMoves DEF AllocEnable
<1>9. ASSUME NEW e \in Edps, FreeBegin(t, e)  PROVE TypeOK'
  BY <1>1, <1>9, FreeMoves DEF FreeBegin, Begins, Moves, TypeOK, Links
<1>10. CASE FreeUnlink(t)
  <2>1. it_edp' \in Pointers
    BY <1>10, Shape DEF FreeUnlink, At, FreePcs, Links
  <2> QED
    BY <1>1, <1>10, <2>1, FreeMoves DEF FreeUnlink, Stays, Moves, TypeOK, Links
<1>11. CASE FreeSeek(t)
  <2>1. task[t].edp \in Edps
    BY <1>11, Shape DEF FreeSeek, At, FreePcs
  <2>2. Unlinked(task[t].at, task[t].edp) \in Links
    BY <2>1 DEF Unlinked, Links
  <2>3. next' \in Links
    BY <1>11, <2>2, FreeMoves
  <2> QED
    BY <1>1, <1>11, <2>3, FreeMoves DEF FreeSeek, Stays, Moves, TypeOK
<1>12. CASE FreeForget(t)
  <2>1. next' \in Links
    BY <1>12 DEF FreeForget, Links, Pointers
  <2> QED
    BY <1>1, <1>12, <2>1, FreeMoves DEF FreeForget, Stays, Moves, TypeOK
<1>13. CASE FreeScan(t)
  <2>1. own' \in [Edps -> {"out", "calling", "in"}]
    BY <1>13 DEF FreeScan, TypeOK
  <2> QED
    BY <1>1, <1>13, <2>1, FreeMoves DEF FreeScan, Stays, Rests, Moves, TypeOK, Links
<1>14. CASE FreeDisable(t)
  BY <1>6, <1>7, <1>14, FreeMoves DEF FreeDisable
<1>15. CASE Suspend(t)
  BY <1>1, <1>15, ResumeMoves DEF Suspend, Begins, Moves, TypeOK, Links, Overlaps
<1>16. CASE WakeUp(t)
  BY <1>1, <1>16, ResumeMoves DEF WakeUp, Stays, Moves, TypeOK, Links
<1>17. CASE ResumeLock(t)
  BY <1>1, <1>17, ResumeMoves DEF ResumeLock, Stays, Moves, TypeOK, Links
<1>18. CASE ResumeEnable(t)
  <2>1. CASE ReadEnables(t, "resumeRead", "resumeWrite")
    BY <1>6, <2>1, ResumeMoves
  <2>2. CASE /\ At(t, "resumeWrite")
             /\ recEn' = task[t].val \cup {ReadCh[task[t].at]}
             /\ Stays(t, "resumeRead", next[task[t].at])
             /\ UNCHANGED <<listVars, pending, fifo, isr, own, send, history>>
    <3>1. recEn' \subseteq Channels
      BY <2>2, Shape DEF At
    <3> QED
      BY <1>1, <2>2, <3>1 DEF Stays, Moves, TypeOK, Links
  <2> QED
    BY <1>18, <2>1, <2>2, ResumeMoves
<1>19. CASE ResumeUnlock(t)
  BY <1>1, <1>19, ResumeMoves DEF ResumeUnlock, Rests, Moves, TypeOK, Links
<1> QED
  BY <1>2, <1>3, <1>4, <1>5, <1>8, <1>9, <1>10, <1>11, <1>12, <1>13, <1>14, <1>15, <1>16, <1>17,
     <1>18, <1>19 DEF Begin, Proceed

\* A step within a call, and the end of one.
LEMMA WithinCall ==
  ASSUME ListInv, NEW t \in Tasks, NEW pc, NEW at, NEW val,
         Moves(t, pc, task[t].edp, at, val), UNCHANGED <<own, overlapped>>,
         task[t].pc # "idle" /\ pc # "idle",
         \E pcs \in {AllocPcs, FreePcs, {"asleep"} \cup ResumePcs} : {task[t].pc, pc} \subseteq pcs
  PROVE  CallsApart'
BY DEF ListInv, CallsApart, Moves, AllocPcs, FreePcs, ResumePcs

LEMMA EndOfCall ==
  ASSUME ListInv, NEW t \in Tasks, Rests(t), task[t].pc # "idle", UNCHANGED overlapped,
         task[t].edp # NULL => \E x : own' = [own EXCEPT ![task[t].edp] = x],
         task[t].edp = NULL => own' = own
  PROVE  CallsApart'
<1>1. ASSUME NEW u \in Tasks \ {t}
      PROVE  task'[u] = task[u] /\ (task[u].edp # NULL => own'[task[u].edp] = own[task[u].edp])
  <2>1. task[u].edp \in Pointers /\ (task[u].edp # NULL => task[u].edp # task[t].edp)
    BY Shape DEF ListInv, CallsApart, TaskType
  <2>2. own \in [Edps -> {"out", "calling", "in"}]
    BY Shape
  <2> QED
    BY <2>1, <2>2 DEF Rests, Moves, Pointers
<1> QED
  BY <1>1 DEF ListInv, CallsApart, Rests, Moves, AllocPcs, FreePcs

\* Calls stay apart.
LEMMA CallsKept ==
  ASSUME ListInv, NEW t \in Tasks, Begin(t) \/ Proceed(t) \/ WakeUp(t) \/ Suspend(t)
  PROVE  CallsApart'
<1> USE DEF At, history, words
<1>0. CallsApart /\ NULL \notin Edps /\ own \in [Edps -> {"out", "calling", "in"}]
  BY Shape DEF ListInv
<1>1. ASSUME NEW e \in Edps, AllocBegin(t, e)  PROVE CallsApart'
  <2>1. Begins(t, "lock", e) /\ own' = [own EXCEPT ![e] = "calling"] /\ own[e] # "calling"
        /\ task[t].pc = "idle" /\ \A u \in Tasks : task[u].pc \notin FreePcs
        /\ overlapped' = Overlaps
    BY <1>1, AllocMoves DEF AllocBegin, MayCall, MayOverlap, AllocPcs, FreePcs, ResumePcs
  <2>2. ASSUME NEW u \in Tasks \ {t}
        PROVE  /\ task'[u] = task[u] /\ task[u].edp # e
               /\ task[u].edp # NULL => own'[task[u].edp] = own[task[u].edp]
               /\ ~ overlapped' => task[u].pc = "idle" /\ ~ overlapped
    <3>1. task'[u] = task[u]
      BY <2>1 DEF Begins, Moves
    <3>2. task[u].edp # e
      BY <1>0, <2>1 DEF CallsApart
    <3>3. ~ overlapped' => task[u].pc = "idle" /\ ~ overlapped
      BY <2>1 DEF Overlaps
    <3>4. task[u].edp \in Pointers
      BY Shape DEF TaskType
    <3> QED
      BY <1>0, <2>1, <3>1, <3>2, <3>3, <3>4 DEF Pointers
  <2>3. task'[t].pc = "lock" /\ task'[t].edp = e /\ own'[e] = "calling" /\ e # NULL
    BY <1>0, <2>1 DEF Begins, Moves
  <2> QED
    BY <1>0, <2>1, <2>2, <2>3 DEF CallsApart, AllocPcs, FreePcs
<1>2. ASSUME NEW e \in Edps, FreeBegin(t, e)  PROVE CallsApart'
  <2>1. Begins(t, "unlink", e) /\ own' = [own EXCEPT ![e] = "calling"] /\ own[e] # "calling"
        /\ \A u \in Tasks : task[u].pc = "idle"
    BY <1>2, FreeMoves DEF FreeBegin, MayCall
  <2>2. ASSUME NEW u \in Tasks \ {t}  PROVE task'[u] = task[u] /\ task[u].edp = NULL
    BY <1>0, <2>1 DEF CallsApart, Begins, Moves, AllocPcs, FreePcs
  <2>3. task'[t].pc = "unlink" /\ task'[t].edp = e /\ own'[e] = "calling" /\ e # NULL
    BY <1>0, <2>1 DEF Begins, Moves
  <2> QED
    BY <1>0, <2>1, <2>2, <2>3 DEF CallsApart, AllocPcs, FreePcs
<1>3. CASE Suspend(t)
  <2>1. Begins(t, "asleep", NULL) /\ own' = own /\ task[t].pc = "idle"
        /\ \A u \in Tasks : task[u].pc \notin FreePcs
        /\ overlapped' = Overlaps
    BY <1>3, ResumeMoves DEF Suspend, MayCall, MayOverlap, AllocPcs, FreePcs, ResumePcs
  <2>2. ASSUME NEW u \in Tasks \ {t}
        PROVE  task'[u] = task[u] /\ (~ overlapped' => task[u].pc = "idle" /\ ~ overlapped)
    BY <2>1 DEF Begins, Moves, Overlaps
  <2>3. task'[t].pc = "asleep" /\ task'[t].edp = NULL
    BY <2>1 DEF Begins, Moves
  <2> QED
    BY <1>0, <2>1, <2>2, <2>3 DEF CallsApart, AllocPcs, FreePcs
<1>4. CASE \/ AllocLock(t) \/ AllocWalk(t) \/ AllocClear(t)
           \/ ReadEnables(t, "enableRead", "enableWrite")
  BY <1>4, AllocMoves, WithinCall
     DEF AllocLock, AllocWalk, AllocClear, ReadEnables, Stays, Reads, AllocPcs
<1>5. CASE \/ FreeUnlink(t) \/ FreeSeek(t) \/ FreeForget(t) \/ (FreeScan(t) /\ it_edp = NULL)
           \/ ReadEnables(t, "disableRead", "disableWrite")
  <2>1. UNCHANGED <<own, overlapped>>
    BY <1>5 DEF FreeUnlink, FreeSeek, FreeForget, FreeScan, ReadEnables
  <2> QED
    BY <1>5, <2>1, FreeMoves, WithinCall
       DEF FreeUnlink, FreeSeek, FreeForget, FreeScan, ReadEnables, Stays, Reads, FreePcs
<1>6. CASE WakeUp(t) \/ ResumeLock(t) \/ ResumeEnable(t)
  BY <1>6, ResumeMoves, WithinCall
     DEF WakeUp, ResumeLock, ReadEnables, Stays, Reads, ResumePcs
<1>7. CASE \/ WriteEnables(t, "enableWrite", EnabledBits(t), "in")
           \/ WriteEnables(t, "disableWrite", task[t].val \ Bit(t), "out")
           \/ (FreeScan(t) /\ it_edp # NULL)
  <2>1. Rests(t) /\ task[t].pc \in AllocPcs \cup FreePcs /\ task[t].pc # "idle" /\ UNCHANGED overlapped
        /\ \E x : own' = [own EXCEPT ![task[t].edp] = x]
    BY <1>7, AllocMoves, FreeMoves DEF WriteEnables, FreeScan, AllocPcs, FreePcs
  <2>2. task[t].edp # NULL
    BY <1>0, <2>1 DEF CallsApart
  <2> QED
    BY <2>1, <2>2, EndOfCall
<1>8. CASE ResumeUnlock(t)
  <2>1. task[t].edp = NULL /\ task[t].pc # "idle"
    BY <1>0, <1>8 DEF ResumeUnlock, CallsApart, AllocPcs, FreePcs
  <2> QED
    BY <1>8, <2>1, ResumeMoves, EndOfCall DEF ResumeUnlock
<1>9. ASSUME AllocEnable(t) \/ FreeDisable(t)  PROVE CallsApart'
  BY <1>4, <1>5, <1>7, <1>9 DEF AllocEnable, FreeDisable
<1>10. ASSUME FreeScan(t)  PROVE CallsApart'
  BY <1>5, <1>7, <1>10
<1>11. ASSUME Begin(t)  PROVE CallsApart'
  BY <1>1, <1>2, <1>11 DEF Begin
<1>12. ASSUME Proceed(t)  PROVE CallsApart'
  BY <1>4, <1>5, <1>6, <1>8, <1>9, <1>10, <1>12 DEF Proceed
<1> QED
  BY <1>3, <1>6, <1>11, <1>12

\* The mutex keeps the loops apart.
LoopPcs == {"walk", "clear", "resumeRead", "resumeWrite"}
LEMMA LockStep ==
  ASSUME Locked, NULL \notin Tasks, NEW t \in Tasks, NEW pc, NEW edp, NEW at, NEW val,
         Moves(t, pc, edp, at, val),
         \/ pc \in LoopPcs /\ it_edp_mutex' = t /\ it_edp_mutex \in {t, NULL}
         \/ pc \notin LoopPcs /\ it_edp_mutex' = it_edp_mutex
         \/ pc \notin LoopPcs /\ it_edp_mutex = t
  PROVE  Locked'
BY DEF Locked, Moves, LoopPcs

LEMMA LockKept ==
  ASSUME ListInv, NEW t \in Tasks, Begin(t) \/ Proceed(t) \/ WakeUp(t) \/ Suspend(t)
  PROVE  Locked'
<1> USE DEF At, listVars, Stays, Rests, Begins, Reads, LoopPcs
<1>0. Locked /\ NULL \notin Tasks
  BY NullAssumption DEF ListInv
<1>1. ASSUME NEW e \in Edps, AllocBegin(t, e) \/ FreeBegin(t, e)  PROVE Locked'
  BY <1>0, <1>1, AllocMoves, FreeMoves, LockStep DEF AllocBegin, FreeBegin
<1>2. CASE AllocLock(t)
  BY <1>0, <1>2, AllocMoves, LockStep DEF AllocLock, MutexFree
<1>3. CASE AllocWalk(t)
  BY <1>0, <1>3, AllocMoves, Shape, LockStep DEF AllocWalk
<1>4. CASE AllocClear(t)
  BY <1>0, <1>4, AllocMoves, Shape, LockStep DEF AllocClear
<1>5. CASE AllocEnable(t)
  BY <1>0, <1>5, AllocMoves, LockStep DEF AllocEnable, ReadEnables, WriteEnables
<1>6. CASE FreeUnlink(t) \/ FreeForget(t)
  BY <1>0, <1>6, FreeMoves, LockStep DEF FreeUnlink, FreeForget
<1>7. CASE FreeSeek(t) \/ FreeScan(t)
  BY <1>0, <1>7, FreeMoves, LockStep DEF FreeSeek, FreeScan
<1>8. CASE FreeDisable(t)
  BY <1>0, <1>8, FreeMoves, LockStep DEF FreeDisable, ReadEnables, WriteEnables
<1>9. CASE Suspend(t) \/ WakeUp(t)
  BY <1>0, <1>9, ResumeMoves, LockStep DEF Suspend, WakeUp
<1>10. CASE ResumeLock(t)
  BY <1>0, <1>10, ResumeMoves, LockStep DEF ResumeLock, MutexFree
<1>11. CASE ResumeUnlock(t)
  BY <1>0, <1>11, ResumeMoves, Shape, LockStep DEF ResumeUnlock
<1>12. CASE ResumeEnable(t)
  <2>1. it_edp_mutex = t /\ it_edp_mutex' = it_edp_mutex
    BY <1>12, Shape DEF ResumeEnable, ReadEnables
  <2> QED
    BY <1>0, <1>12, <2>1, ResumeMoves, LockStep
<1> QED
  BY <1>1, <1>2, <1>3, <1>4, <1>5, <1>6, <1>7, <1>8, <1>9, <1>10, <1>11, <1>12 DEF Begin, Proceed

-----------------------------------------------------------------------------
(* The list.                                                               *)

\* Which endpoints are listed after a step of the call that works on x.
LEMMA ListedAfter ==
  ASSUME ListInv, NEW t \in Tasks, NEW pc, NEW edp, NEW at, NEW val, Moves(t, pc, edp, at, val),
         NEW x \in Edps, \A u \in Tasks \ {t} : task[u].edp # x,
         task[t].edp \in {x, NULL}, edp \in {x, NULL},
         \A e \in Edps \ {x} : own'[e] = own[e]
  PROVE  /\ x \in Listed <=> own[x] = "in" \/ (task[t].edp = x /\ task[t].pc \in LinkedPcs)
         /\ Listed' = IF own'[x] = "in" \/ (edp = x /\ pc \in LinkedPcs)
                        THEN Listed \cup {x} ELSE Listed \ {x}
<1>1. NULL \notin Edps
  BY NullAssumption
<1>2. x \in Listed <=> own[x] = "in" \/ (task[t].edp = x /\ task[t].pc \in LinkedPcs)
  BY DEF Listed
<1>3. x \in Listed' <=> own'[x] = "in" \/ (edp = x /\ pc \in LinkedPcs)
  BY DEF Listed, Moves
<1>4. ASSUME NEW e \in Edps, e # x  PROVE e \in Listed' <=> e \in Listed
  BY <1>1, <1>4 DEF Listed, Moves
<1>5. Listed \subseteq Edps /\ Listed' \subseteq Edps
  BY DEF Listed
<1> QED
  BY <1>2, <1>3, <1>4, <1>5

\* A call that goes on with the endpoint it has.
LEMMA ListedGoesOn ==
  ASSUME ListInv, NEW t \in Tasks, NEW pc, NEW at, NEW val, Moves(t, pc, task[t].edp, at, val),
         task[t].edp # NULL, own' = own
  PROVE  Listed' = IF pc \in LinkedPcs THEN Listed \cup {task[t].edp} ELSE Listed \ {task[t].edp}
<1>1. task[t].edp \in Edps /\ own[task[t].edp] = "calling"
      /\ \A u \in Tasks \ {t} : task[u].edp # task[t].edp
  BY Shape DEF ListInv, CallsApart, TaskType, Pointers
<1> QED
  BY <1>1, ListedAfter

LEMMA ListedStays ==
  ASSUME ListInv, NEW t \in Tasks, NEW pc, NEW at, NEW val, Moves(t, pc, task[t].edp, at, val),
         task[t].edp # NULL, own' = own, pc \in LinkedPcs <=> task[t].pc \in LinkedPcs
  PROVE  Listed' = Listed
<1>1. task[t].edp \in Edps /\ own[task[t].edp] = "calling"
      /\ \A u \in Tasks \ {t} : task[u].edp # task[t].edp
  BY Shape DEF ListInv, CallsApart, TaskType, Pointers
<1> DEFINE e == task[t].edp
<1>2. e \in Listed <=> task[t].pc \in LinkedPcs
  BY <1>1, ListedAfter
<1>3. Listed' = IF pc \in LinkedPcs THEN Listed \cup {e} ELSE Listed \ {e}
  BY <1>1, ListedGoesOn
<1> HIDE DEF e
<1> QED
  BY <1>2, <1>3

\* The first and the last step of a call, if it changes nothing about its endpoint.
LEMMA ListedStill ==
  ASSUME ListInv, NEW t \in Tasks, NEW pc, NEW edp, NEW at, NEW val, Moves(t, pc, edp, at, val),
         NEW x \in Edps, \A u \in Tasks \ {t} : task[u].edp # x,
         task[t].edp \in {x, NULL}, edp \in {x, NULL},
         \A e \in Edps \ {x} : own'[e] = own[e],
         (own[x] = "in" \/ (task[t].edp = x /\ task[t].pc \in LinkedPcs))
           <=> (own'[x] = "in" \/ (edp = x /\ pc \in LinkedPcs))
  PROVE  Listed' = Listed
<1>1. x \in Listed <=> own[x] = "in" \/ (task[t].edp = x /\ task[t].pc \in LinkedPcs)
  BY ListedAfter
<1>2. Listed' = IF own'[x] = "in" \/ (edp = x /\ pc \in LinkedPcs)
                  THEN Listed \cup {x} ELSE Listed \ {x}
  BY ListedAfter
<1> QED
  BY <1>1, <1>2

LEMMA ListedByOthers ==
  ASSUME ListInv, NEW t \in Tasks, NEW pc, NEW at, NEW val, Moves(t, pc, NULL, at, val),
         task[t].edp = NULL, own' = own
  PROVE  Listed' = Listed
<1>1. NULL \notin Edps
  BY NullAssumption
<1>2. ASSUME NEW e \in Edps  PROVE e \in Listed' <=> e \in Listed
  BY <1>1 DEF Listed, Moves
<1>3. Listed \subseteq Edps /\ Listed' \subseteq Edps
  BY DEF Listed
<1> QED
  BY <1>2, <1>3

\* Where an endpoint of a call is, by the place of the call.
LEMMA ListedNow ==
  ASSUME ListInv, NEW t \in Tasks, task[t].edp # NULL
  PROVE  /\ task[t].edp \in Edps /\ own[task[t].edp] = "calling"
         /\ task[t].edp \in Listed <=> task[t].pc \in LinkedPcs
<1>1. task[t].edp \in Edps /\ own[task[t].edp] = "calling"
  BY Shape DEF ListInv, CallsApart, TaskType, Pointers
<1>2. \A u \in Tasks : task[u].edp = task[t].edp => u = t
  BY DEF ListInv, CallsApart
<1> QED
  BY <1>1, <1>2 DEF Listed

\* What the list promises the handler follows from the chain.
LEMMA ChainIsIntact ==
  ASSUME CallsApart', Chain', ListEnds'
  PROVE  ListIntact'
<1>1. ASSUME NEW e \in Edps
      PROVE  (own'[e] = "in" => e \in Listed') /\ (own'[e] = "out" => e \notin Listed')
  <2>1. ASSUME NEW u \in Tasks, task'[u].edp = e  PROVE own'[e] = "calling"
    BY <2>1, NullAssumption DEF CallsApart
  <2> QED
    BY <2>1 DEF Listed
<1> QED
  BY <1>1 DEF Chain, ListIntact

\* Steps that leave the list alone.
LEMMA ChainSame ==
  ASSUME ListInv, UNCHANGED <<it_edp, next>>, Listed' = Listed,
         \A u \in Tasks : task[u].pc = "forget" => task'[u].pc = "forget" /\ task'[u].edp = task[u].edp
  PROVE  Chain' /\ ListEnds'
<1>1. Reached' = Reached
  BY DEF Reached, ReachedBy, ClosedUnder
<1>2. ASSUME NEW e \in Edps \ Listed
      PROVE  next[e] = NULL \/ \E u \in Tasks : task'[u].pc = "forget" /\ task'[u].edp = e
  BY DEF ListInv, Chain
<1>3. Chain'
  BY <1>1, <1>2 DEF ListInv, Chain
<1> QED
  BY <1>1, <1>3 DEF ListInv, ListIntact, ListEnds

LEMMA PointedSame ==
  ASSUME ListInv, NEW t \in Tasks, NEW pc, NEW edp, NEW at, NEW val, Moves(t, pc, edp, at, val),
         UNCHANGED <<it_edp, next, isr>>, Listed' = Listed, TaskPointed(t)'
  PROVE  Pointed'
<1>1. ASSUME NEW u \in Tasks \ {t}  PROVE TaskPointed(u)'
  <2>1. TaskPointed(u) /\ task'[u] = task[u]
    BY DEF ListInv, Pointed, Moves
  <2> QED
    BY <2>1 DEF TaskPointed, ReachedBy, ClosedUnder
<1> QED
  BY <1>1 DEF ListInv, Pointed

\* Steps that only one task with a pointer can take.
PointerPcs == {"walk", "seek", "clear", "resumeRead", "resumeWrite", "disableRead", "disableWrite"}
LEMMA PointedAlone ==
  ASSUME ListInv, NEW t \in Tasks, NEW pc, NEW edp, NEW at, NEW val, Moves(t, pc, edp, at, val),
         isr' = isr, isr.pc = "idle", \A u \in Tasks \ {t} : task[u].pc \notin PointerPcs,
         TaskPointed(t)'
  PROVE  Pointed'
BY DEF ListInv, Pointed, TaskPointed, Moves, PointerPcs

LEMMA LockedOut ==
  ASSUME ListInv, NEW t \in Tasks, it_edp_mutex \in {t, NULL}, task[t].pc \in AllocPcs
  PROVE  \A u \in Tasks \ {t} : task[u].pc \notin PointerPcs \cup FreePcs
<1>1. NULL \notin Tasks
  BY NullAssumption
<1> QED
  BY <1>1 DEF ListInv, Locked, CallsApart, AllocPcs, FreePcs, PointerPcs

LEMMA FreeIsAlone ==
  ASSUME ListInv, NEW t \in Tasks, task[t].pc \in FreePcs
  PROVE  \A u \in Tasks \ {t} : task[u].pc \notin PointerPcs \cup FreePcs
BY DEF ListInv, CallsApart, FreePcs, PointerPcs

\* The chain holds its head and its links.
LEMMA ChainFacts ==
  ASSUME ListInv
  PROVE  /\ it_edp \in Pointers /\ next \in Links /\ NULL \notin Edps
         /\ Listed \subseteq Edps /\ ReachedBy(next, it_edp) = Listed
         /\ it_edp \in Listed \cup {NULL} /\ \A x \in Listed : next[x] \in Listed \cup {NULL}
<1>1. it_edp \in Pointers /\ next \in Links /\ NULL \notin Edps
  BY NullAssumption DEF ListInv, TypeOK, Links
<1>2. ReachedBy(next, it_edp) = Listed /\ Listed \subseteq Edps
  BY DEF ListInv, Chain, Reached, Listed
<1>3. it_edp \in Listed \cup {NULL}
  BY <1>1, <1>2, ReachedOnce DEF Pointers
<1>4. \A x \in Listed : next[x] \in Listed \cup {NULL}
  BY <1>1, <1>2, ReachedClosed
<1> QED
  BY <1>1, <1>2, <1>3, <1>4

\* The end of an allocation's walk: the endpoint becomes the last one.
LEMMA AppendKept ==
  ASSUME ListInv, NEW t \in Tasks, NEW e \in Edps, task[t].edp = e,
         task[t].pc \in AllocPcs \ LinkedPcs, Stays(t, "clear", task[t].at), UNCHANGED <<own, isr>>,
         isr.pc = "idle", it_edp_mutex \in {t, NULL},
         \/ it_edp = NULL /\ it_edp' = e /\ next' = next
         \/ \E a \in Listed :
              next[a] = NULL /\ it_edp' = it_edp /\ next' = [next EXCEPT ![a] = e]
  PROVE  Chain' /\ ListEnds' /\ Pointed'
<1>0. /\ it_edp \in Pointers /\ next \in Links /\ NULL \notin Edps /\ Listed \subseteq Edps
      /\ ReachedBy(next, it_edp) = Listed
      /\ it_edp \in Listed \cup {NULL} /\ \A x \in Listed : next[x] \in Listed \cup {NULL}
  BY ChainFacts
<1>1. e \notin Listed
  BY <1>0, ListedNow
<1>2. Listed' = Listed \cup {e}
  BY <1>0, ListedGoesOn DEF Stays, LinkedPcs
<1>3. \A u \in Tasks \ {t} : task[u].pc \notin PointerPcs \cup FreePcs
  BY LockedOut
<1>4. \A x \in Edps \ Listed : next[x] = NULL
  <2>1. \A u \in Tasks : task[u].pc # "forget"
    BY <1>3 DEF AllocPcs, FreePcs
  <2> QED
    BY <2>1 DEF ListInv, Chain
<1>5. ASSUME it_edp = NULL, it_edp' = e, next' = next
      PROVE  Chain' /\ ListEnds'
  <2>1. Listed = {} /\ Reached' = {e}
    BY <1>0, <1>1, <1>4, <1>5, NothingReached, ReachedAlone DEF Reached
  <2>2. Listed' = {e} /\ next'[e] = NULL /\ \A x \in Edps \ {e} : next'[x] = NULL
    BY <1>2, <1>4, <1>5, <2>1
  <2>3. Chain'
    BY <2>1, <2>2 DEF Chain
  <2>4. ListEnds'
    BY <2>1, <2>2 DEF ListEnds
  <2> QED
    BY <2>3, <2>4
<1>6. ASSUME NEW a \in Listed,
             next[a] = NULL, it_edp' = it_edp, next' = [next EXCEPT ![a] = e]
      PROVE  Chain' /\ ListEnds'
  <2>1. next' \in Links /\ next'[a] = e /\ \A x \in Edps : x # a => next'[x] = next[x]
    BY <1>0, <1>6 DEF Links, Pointers
  <2>2. Reached' = Listed \cup {e}
    <3>1. Reached' = ReachedBy(next', it_edp)
      BY <1>6 DEF Reached
    <3>2. a \in ReachedBy(next, it_edp) /\ next[e] = NULL
      BY <1>0, <1>1, <1>4
    <3>3. /\ next \in Links /\ it_edp \in Pointers /\ next[a] = NULL
          /\ next' \in Links /\ next'[a] = e /\ \A x \in Edps \ {a} : next'[x] = next[x]
      BY <1>0, <1>6, <2>1
    <3>4. ReachedBy(next', it_edp) = ReachedBy(next, it_edp) \cup {e}
      BY <3>2, <3>3, ReachedAppended
    <3> QED
      BY <1>0, <3>1, <3>4
  <2>3. ASSUME NEW x \in Listed \cup {e}, next'[x] # NULL
        PROVE  next'[x] # it_edp' /\ \A f \in (Listed \cup {e}) \ {x} : next'[f] # next'[x]
    <3>1. next[x] # NULL => x \in Listed
      BY <1>1, <1>4
    <3>2. next'[e] = NULL
      BY <1>1, <1>4, <1>6, <2>1
    <3>3. CASE x = a
      BY <1>0, <1>1, <1>6, <2>1, <3>2, <3>3
    <3>4. CASE x # a
      <4>1. x \in Listed /\ next'[x] = next[x]
        BY <1>0, <2>1, <2>3, <3>1, <3>2, <3>4
      <4>2. next[x] # it_edp /\ \A f \in Listed \ {x} : next[f] # next[x]
        BY <2>3, <4>1 DEF ListInv, Chain
      <4> QED
        BY <1>0, <1>1, <1>6, <2>1, <2>3, <3>2, <4>1, <4>2
    <3> QED
      BY <3>3, <3>4
  <2>4. \A x \in Edps \ (Listed \cup {e}) : next'[x] = NULL
    BY <1>0, <1>4, <2>1
  <2>5. next'[e] = NULL
    BY <1>1, <1>4, <1>6, <2>1
  <2> QED
    BY <1>2, <2>2, <2>3, <2>4, <2>5 DEF Chain, ListEnds
<1>7. next'[e] = NULL
  BY <1>0, <1>1, <1>4 DEF Links
<1>8. TaskPointed(t)'
  BY <1>7 DEF TaskPointed, Stays, Moves
<1>9. Pointed'
  BY <1>3, <1>8, PointedAlone DEF Stays
<1> QED
  BY <1>5, <1>6, <1>9

\* An endpoint taken off by its free, which then holds its old link still.
LEMMA UnlinkKept ==
  ASSUME ListInv, NEW t \in Tasks, NEW e \in Edps, task[t].edp = e,
         task[t].pc \in FreePcs \cap LinkedPcs, Stays(t, "forget", task[t].at), UNCHANGED <<own, isr>>,
         isr.pc = "idle",
         \/ it_edp = e /\ it_edp' = next[e] /\ next' = next
         \/ \E a \in Listed \ {e} :
              it_edp # e /\ next[a] = e /\ it_edp' = it_edp /\ next' = [next EXCEPT ![a] = next[e]]
  PROVE  Chain' /\ ListEnds' /\ Pointed'
<1>0. /\ it_edp \in Pointers /\ next \in Links /\ NULL \notin Edps /\ Listed \subseteq Edps
      /\ ReachedBy(next, it_edp) = Listed
      /\ it_edp \in Listed \cup {NULL} /\ \A x \in Listed : next[x] \in Listed \cup {NULL}
  BY ChainFacts
<1>1. e \in Listed
  BY <1>0, ListedNow
<1>2. Listed' = Listed \ {e}
  <2>1. "forget" \notin LinkedPcs
    BY DEF LinkedPcs
  <2> QED
    BY <1>0, <2>1, ListedGoesOn DEF Stays
<1>3. \A u \in Tasks \ {t} : task[u].pc \notin PointerPcs \cup FreePcs
  BY FreeIsAlone
<1>4. task'[t].pc = "forget" /\ task'[t].edp = e
  BY DEF Stays, Moves
<1>5. /\ \A x \in Listed : next[x] # NULL =>
           next[x] # it_edp /\ \A f \in Listed \ {x} : next[f] # next[x]
      /\ \A x \in Edps \ Listed : next[x] = NULL
  <2>1. \A u \in Tasks : task[u].pc # "forget"
    BY <1>3 DEF FreePcs, LinkedPcs
  <2> QED
    BY <2>1 DEF ListInv, Chain
<1>6. PICK last \in Listed : next[last] = NULL
  <2>1. it_edp # NULL
    BY <1>0, <1>1, NothingReached
  <2> QED
    BY <1>0, <2>1 DEF ListInv, ListIntact, ListEnds, Reached
<1>7. ASSUME it_edp = e, it_edp' = next[e], next' = next
      PROVE  Chain' /\ ListEnds'
  <2>1. Reached' = Listed \ {e}
    <3>1. \A x \in Listed : next[x] # e
      BY <1>0, <1>5, <1>7
    <3>2. Reached' = ReachedBy(next, next[e])
      BY <1>7 DEF Reached
    <3> QED
      BY <1>0, <1>7, <3>1, <3>2, ReachedBehindHead
  <2>2. ASSUME NEW x \in Listed \ {e}, next[x] # NULL
        PROVE  next[x] # next[e] /\ \A f \in (Listed \ {e}) \ {x} : next[f] # next[x]
    BY <1>1, <1>5, <2>2
  <2>3. next[e] = NULL \/ last # e
    BY <1>6
  <2>4. Chain'
    BY <1>2, <1>4, <1>5, <1>7, <2>1, <2>2 DEF Chain
  <2>5. ListEnds'
    BY <1>6, <1>7, <2>1, <2>3 DEF ListEnds
  <2> QED
    BY <2>4, <2>5
<1>8. ASSUME NEW a \in Listed \ {e}, it_edp # e, next[a] = e, it_edp' = it_edp,
             next' = [next EXCEPT ![a] = next[e]]
      PROVE  Chain' /\ ListEnds'
  <2>1. next' \in Links /\ next'[a] = next[e] /\ \A x \in Edps : x # a => next'[x] = next[x]
    BY <1>0, <1>8 DEF Links
  <2>2. Reached' = Listed \ {e}
    <3>1. \A x \in Listed \ {a} : next[x] # e
      BY <1>0, <1>5, <1>8
    <3>2. Reached' = ReachedBy(next', it_edp)
      BY <1>8 DEF Reached
    <3>3. a \in ReachedBy(next, it_edp) /\ e # a /\ e # it_edp
          /\ \A x \in ReachedBy(next, it_edp) \ {a} : next[x] # e
      BY <1>0, <1>8, <3>1
    <3>4. /\ next \in Links /\ it_edp \in Pointers /\ next[a] = e
          /\ next' \in Links /\ next'[a] = next[e] /\ \A x \in Edps \ {a} : next'[x] = next[x]
      BY <1>0, <1>8, <2>1
    <3>5. ReachedBy(next', it_edp) = ReachedBy(next, it_edp) \ {e}
      BY <3>3, <3>4, ReachedWithout
    <3> QED
      BY <1>0, <3>2, <3>5
  <2>3. ASSUME NEW x \in Listed \ {e}, next'[x] # NULL
        PROVE  next'[x] # it_edp' /\ \A f \in (Listed \ {e}) \ {x} : next'[f] # next'[x]
    <3>1. CASE x = a
      BY <1>0, <1>1, <1>5, <1>8, <2>1, <2>3, <3>1
    <3>2. CASE x # a
      BY <1>0, <1>1, <1>5, <1>8, <2>1, <2>3, <3>2
    <3> QED
      BY <3>1, <3>2
  <2>4. \A x \in Edps \ Listed : next'[x] = NULL
    BY <1>5, <1>8, <2>1
  <2>5. \E x \in Listed \ {e} : next'[x] = NULL
    <3>1. CASE last = e
      BY <1>6, <1>8, <2>1, <3>1
    <3>2. CASE last # e
      BY <1>0, <1>6, <1>8, <2>1, <3>2
    <3> QED
      BY <3>1, <3>2
  <2> QED
    BY <1>2, <1>4, <2>2, <2>3, <2>4, <2>5 DEF Chain, ListEnds
<1>9. TaskPointed(t)'
  BY <1>4 DEF TaskPointed
<1>10. Pointed'
  BY <1>3, <1>9, PointedAlone DEF Stays
<1> QED
  BY <1>7, <1>8, <1>10

\* The freed endpoint forgets its link, which no one follows.
LEMMA ForgetKept ==
  ASSUME ListInv, NEW t \in Tasks, FreeForget(t)
  PROVE  Chain' /\ ListEnds' /\ Pointed'
<1> DEFINE e == task[t].edp
<1>0. /\ it_edp \in Pointers /\ next \in Links /\ NULL \notin Edps /\ Listed \subseteq Edps
      /\ ReachedBy(next, it_edp) = Listed
  BY ChainFacts
<1>1. /\ task[t].pc = "forget" /\ isr.pc = "idle" /\ next' = [next EXCEPT ![e] = NULL]
      /\ UNCHANGED <<it_edp, own, isr>> /\ Stays(t, "scan", task[t].at)
  BY FreeMoves DEF FreeForget, At
<1>2. e \in Edps
  BY <1>1, Shape DEF FreePcs
<1>3. e \notin Listed /\ Listed' = Listed
  <2>1. e \notin Listed
    BY <1>0, <1>1, <1>2, ListedNow DEF LinkedPcs
  <2>2. Listed' = Listed \ {e}
    BY <1>0, <1>1, <1>2, ListedGoesOn DEF Stays, LinkedPcs
  <2> QED
    BY <2>1, <2>2
<1>4. next' \in Links /\ next'[e] = NULL /\ \A x \in Edps \ {e} : next'[x] = next[x]
  BY <1>0, <1>1, <1>2 DEF Links, Pointers
<1>5. Reached' = Listed
  <2>1. Reached' = ReachedBy(next', it_edp)
    BY <1>1 DEF Reached
  <2> QED
    BY <1>0, <1>3, <1>4, <2>1, ReachedElsewhere
<1>6. \A u \in Tasks \ {t} : task[u].pc \notin PointerPcs \cup FreePcs
  BY <1>1, FreeIsAlone DEF FreePcs
<1>7. \A x \in Edps \ Listed : next'[x] = NULL
  <2> SUFFICES ASSUME NEW x \in Edps \ Listed, x # e  PROVE next[x] = NULL
    BY <1>4
  <2>1. \A u \in Tasks : ~ (task[u].pc = "forget" /\ task[u].edp = x)
    BY <1>6 DEF FreePcs
  <2> QED
    BY <2>1 DEF ListInv, Chain
<1>8. Chain'
  BY <1>0, <1>1, <1>3, <1>4, <1>5, <1>7 DEF ListInv, Chain
<1>9. ListEnds'
  BY <1>0, <1>1, <1>3, <1>4, <1>5 DEF ListInv, ListIntact, ListEnds, Reached
<1>10. TaskPointed(t)'
  BY <1>1 DEF TaskPointed, Stays, Moves
<1>11. Pointed'
  BY <1>1, <1>6, <1>10, PointedAlone DEF Stays
<1> QED
  BY <1>8, <1>9, <1>11

\* The other steps of the calls leave the list as it is; what a task's pointer
\* is at follows from where it was.
LEMMA SameListKept ==
  ASSUME ListInv, NEW t \in Tasks, NEW pc, NEW edp, NEW at, NEW val, Moves(t, pc, edp, at, val),
         UNCHANGED <<it_edp, next, isr>>, Listed' = Listed, task[t].pc # "forget",
         pc \in {"walk", "seek", "resumeWrite"} => at \in Listed,
         pc = "resumeRead" => at \in Listed \cup {NULL},
         pc = "clear" => next[edp] = NULL,
         pc = "seek" => edp \in ReachedBy(next, at) \ {at},
         pc \in {"disableRead", "disableWrite"} => it_edp = NULL
  PROVE  Chain' /\ ListEnds' /\ Pointed'
<1>1. \A u \in Tasks : task[u].pc = "forget" => task'[u].pc = "forget" /\ task'[u].edp = task[u].edp
  BY DEF Moves
<1>2. TaskPointed(t)'
  BY DEF TaskPointed, Moves, ReachedBy, ClosedUnder
<1> QED
  BY <1>1, <1>2, ChainSame, PointedSame

LEMMA AllocKeepsList ==
  ASSUME ListInv, NEW t \in Tasks, AllocLock(t) \/ AllocWalk(t) \/ AllocClear(t) \/ AllocEnable(t)
  PROVE  Chain' /\ ListEnds' /\ Pointed'
<1> DEFINE e == task[t].edp  a == task[t].at
<1> USE DEF At, listVars
<1>0. /\ it_edp \in Pointers /\ next \in Links /\ NULL \notin Edps /\ Listed \subseteq Edps
      /\ it_edp \in Listed \cup {NULL} /\ \A x \in Listed : next[x] \in Listed \cup {NULL}
  BY ChainFacts
<1>1. task[t].pc \in AllocPcs /\ isr' = isr /\ isr.pc = "idle"
  BY DEF AllocLock, AllocWalk, AllocClear, AllocEnable, ReadEnables, WriteEnables, AllocPcs
<1>2. e \in Edps /\ own[e] = "calling" /\ (e \in Listed <=> task[t].pc \in LinkedPcs)
  BY <1>0, <1>1, Shape, ListedNow
<1>3. CASE AllocLock(t)
  <2>1. it_edp_mutex = NULL /\ task[t].pc = "lock" /\ UNCHANGED <<next, own>>
    BY <1>3 DEF AllocLock, MutexFree
  <2>2. CASE it_edp = NULL
    <3>1. Stays(t, "clear", a) /\ it_edp' = e
      BY <1>3, <2>2, AllocMoves DEF AllocLock
    <3>2. task[t].pc \in AllocPcs \ LinkedPcs
      BY <2>1 DEF AllocPcs, LinkedPcs
    <3> QED
      BY <1>1, <1>2, <2>1, <2>2, <3>1, <3>2, AppendKept
  <2>3. CASE it_edp # NULL
    <3>1. Stays(t, "walk", it_edp) /\ it_edp' = it_edp
      BY <1>3, <2>3, AllocMoves DEF AllocLock
    <3>2. Listed' = Listed
      BY <1>0, <1>2, <2>1, <3>1, ListedStays DEF Stays, LinkedPcs
    <3> QED
      BY <1>0, <1>1, <2>1, <2>3, <3>1, <3>2, SameListKept DEF Stays
  <2> QED
    BY <2>2, <2>3
<1>4. CASE AllocWalk(t)
  <2>1. task[t].pc = "walk" /\ UNCHANGED <<it_edp, own>>
    BY <1>4 DEF AllocWalk
  <2>2. a \in Listed /\ it_edp_mutex = t
    BY <2>1, Shape DEF TaskPointed
  <2>3. CASE next[a] = NULL
    <3>1. Stays(t, "clear", a) /\ next' = [next EXCEPT ![a] = e]
      BY <1>4, <2>3, AllocMoves DEF AllocWalk
    <3>2. task[t].pc \in AllocPcs \ LinkedPcs
      BY <2>1 DEF AllocPcs, LinkedPcs
    <3> QED
      BY <1>1, <1>2, <2>1, <2>2, <2>3, <3>1, <3>2, AppendKept
  <2>4. CASE next[a] # NULL
    <3>1. Stays(t, "walk", next[a]) /\ next' = next
      BY <1>4, <2>4, AllocMoves DEF AllocWalk
    <3>2. Listed' = Listed
      BY <1>0, <1>2, <2>1, <3>1, ListedStays DEF Stays, LinkedPcs
    <3> QED
      BY <1>0, <1>1, <2>1, <2>2, <2>4, <3>1, <3>2, SameListKept DEF Stays
  <2> QED
    BY <2>3, <2>4
<1>5. CASE AllocClear(t)
  <2>1. /\ task[t].pc = "clear" /\ UNCHANGED <<it_edp, own>> /\ next' = [next EXCEPT ![e] = NULL]
        /\ Stays(t, "enableRead", a)
    BY <1>5, AllocMoves DEF AllocClear
  <2>2. next[e] = NULL
    BY <2>1, Shape DEF TaskPointed
  <2>3. next' = next
    BY <1>0, <1>2, <2>1, <2>2 DEF Links
  <2>4. Listed' = Listed
    BY <1>0, <1>2, <2>1, ListedStays DEF Stays, LinkedPcs
  <2> QED
    BY <1>1, <2>1, <2>3, <2>4, SameListKept DEF Stays
<1>6. CASE ReadEnables(t, "enableRead", "enableWrite")
  <2>1. task[t].pc = "enableRead" /\ UNCHANGED <<it_edp, next, own>> /\ Reads(t, "enableWrite")
    BY <1>6, AllocMoves DEF ReadEnables
  <2>2. Listed' = Listed
    BY <1>0, <1>2, <2>1, ListedStays DEF Reads, LinkedPcs
  <2> QED
    BY <1>1, <2>1, <2>2, SameListKept DEF Reads
<1>7. CASE WriteEnables(t, "enableWrite", EnabledBits(t), "in")
  <2>1. /\ task[t].pc = "enableWrite" /\ UNCHANGED <<it_edp, next>> /\ Rests(t)
        /\ own' = [own EXCEPT ![e] = "in"]
    BY <1>7, AllocMoves DEF WriteEnables
  <2>2. own'[e] = "in" /\ \A x \in Edps \ {e} : own'[x] = own[x]
    BY <1>2, <2>1, Shape
  <2>3. \A u \in Tasks \ {t} : task[u].edp # e
    BY <1>0, <1>2 DEF ListInv, CallsApart
  <2>4. Listed' = Listed
    BY <1>2, <2>1, <2>2, <2>3, ListedStill DEF Rests, LinkedPcs
  <2> QED
    BY <1>1, <2>1, <2>4, SameListKept DEF Rests
<1> QED
  BY <1>3, <1>4, <1>5, <1>6, <1>7 DEF AllocEnable

LEMMA FreeKeepsList ==
  ASSUME ListInv, NEW t \in Tasks,
         FreeUnlink(t) \/ FreeSeek(t) \/ FreeScan(t) \/ FreeDisable(t)
  PROVE  Chain' /\ ListEnds' /\ Pointed'
<1> DEFINE e == task[t].edp  a == task[t].at
<1> USE DEF At, listVars
<1>0. /\ it_edp \in Pointers /\ next \in Links /\ NULL \notin Edps /\ Listed \subseteq Edps
      /\ ReachedBy(next, it_edp) = Listed
      /\ it_edp \in Listed \cup {NULL} /\ \A x \in Listed : next[x] \in Listed \cup {NULL}
  BY ChainFacts
<1>1. task[t].pc \in FreePcs /\ isr' = isr /\ isr.pc = "idle"
  BY DEF FreeUnlink, FreeSeek, FreeScan, FreeDisable, ReadEnables, WriteEnables, FreePcs
<1>2. e \in Edps /\ own[e] = "calling" /\ (e \in Listed <=> task[t].pc \in LinkedPcs)
  BY <1>0, <1>1, Shape, ListedNow
<1>3. CASE FreeUnlink(t)
  <2>1. task[t].pc = "unlink" /\ UNCHANGED <<next, own>>
    BY <1>3 DEF FreeUnlink
  <2>2. e \in Listed /\ task[t].pc \in FreePcs \cap LinkedPcs
    BY <1>2, <2>1 DEF FreePcs, LinkedPcs
  <2>3. CASE it_edp = e
    <3>1. Stays(t, "forget", a) /\ it_edp' = next[e]
      BY <1>0, <1>2, <1>3, <2>3, FreeMoves DEF FreeUnlink
    <3> QED
      BY <1>1, <1>2, <2>1, <2>2, <2>3, <3>1, UnlinkKept
  <2>4. CASE it_edp # e
    <3>1. Stays(t, "seek", it_edp) /\ it_edp' = it_edp
      BY <1>3, <2>4, FreeMoves DEF FreeUnlink
    <3>2. Listed' = Listed
      BY <1>0, <1>2, <2>2, <2>1, <3>1, ListedStays DEF Stays, LinkedPcs
    <3>3. it_edp \in Listed /\ e \in ReachedBy(next, it_edp) \ {it_edp}
      BY <1>0, <2>2, <2>4, NothingReached
    <3> QED
      BY <1>1, <2>1, <3>1, <3>2, <3>3, SameListKept DEF Stays
  <2> QED
    BY <2>3, <2>4
<1>4. CASE FreeSeek(t)
  <2>1. task[t].pc = "seek" /\ UNCHANGED <<it_edp, own>>
    BY <1>4 DEF FreeSeek
  <2>2. /\ a \in Listed /\ a \in Edps /\ e \in ReachedBy(next, a) \ {a}
        /\ e \in Listed /\ task[t].pc \in FreePcs \cap LinkedPcs
    BY <1>0, <1>2, <2>1, Shape DEF TaskPointed, FreePcs, LinkedPcs
  <2>3. ASSUME next[a] = e, Stays(t, "forget", a), next' = Unlinked(a, e)
        PROVE  Chain' /\ ListEnds' /\ Pointed'
    <3>1. it_edp # e
      BY <1>0, <1>2, <2>2, <2>3 DEF ListInv, Chain
    <3> QED
      BY <1>1, <1>2, <2>1, <2>2, <2>3, <3>1, UnlinkKept DEF Unlinked
  <2>4. ASSUME next[a] # e, Stays(t, "seek", next[a]), next' = next
        PROVE  Chain' /\ ListEnds' /\ Pointed'
    <3>1. Listed' = Listed
      BY <1>0, <1>2, <2>1, <2>2, <2>4, ListedStays DEF Stays, LinkedPcs
    <3>2. e \in ReachedBy(next, next[a]) \ {next[a]}
      BY <1>0, <2>2, <2>4, ReachedOnce
    <3>3. next[a] \in Listed
      BY <1>0, <2>2, <3>2, NothingReached
    <3> QED
      BY <1>1, <2>1, <2>4, <3>1, <3>2, <3>3, SameListKept DEF Stays
  <2> QED
    BY <1>4, <2>3, <2>4, FreeMoves
<1>5. CASE FreeScan(t) /\ it_edp = NULL
  <2>1. task[t].pc = "scan" /\ UNCHANGED <<it_edp, next, own>> /\ Stays(t, "disableRead", a)
    BY <1>5, FreeMoves DEF FreeScan
  <2>2. "disableRead" \notin LinkedPcs /\ "scan" \notin LinkedPcs
    BY DEF LinkedPcs
  <2>3. Listed' = Listed
    BY <1>0, <1>2, <2>1, <2>2, ListedStays DEF Stays, LinkedPcs
  <2> QED
    BY <1>1, <1>5, <2>1, <2>3, SameListKept DEF Stays
<1>6. CASE ReadEnables(t, "disableRead", "disableWrite")
  <2>1. task[t].pc = "disableRead" /\ UNCHANGED <<it_edp, next, own>> /\ Reads(t, "disableWrite")
    BY <1>6, FreeMoves DEF ReadEnables
  <2>2. "disableRead" \notin LinkedPcs /\ "disableWrite" \notin LinkedPcs
    BY DEF LinkedPcs
  <2>3. Listed' = Listed
    BY <1>0, <1>2, <2>1, <2>2, ListedStays DEF Reads, LinkedPcs
  <2>4. it_edp = NULL
    BY <2>1, Shape DEF TaskPointed
  <2> QED
    BY <1>1, <2>1, <2>3, <2>4, SameListKept DEF Reads
<1>7. CASE \/ WriteEnables(t, "disableWrite", task[t].val \ Bit(t), "out")
           \/ (FreeScan(t) /\ it_edp # NULL)
  <2>1. /\ task[t].pc \in {"scan", "disableWrite"} /\ UNCHANGED <<it_edp, next>> /\ Rests(t)
        /\ own' = [own EXCEPT ![e] = "out"]
    BY <1>7, FreeMoves DEF WriteEnables, FreeScan
  <2>2. own'[e] = "out" /\ \A x \in Edps \ {e} : own'[x] = own[x]
    BY <1>2, <2>1, Shape
  <2>3. \A u \in Tasks \ {t} : task[u].edp # e
    BY <1>0, <1>2 DEF ListInv, CallsApart
  <2>4. Listed' = Listed
    BY <1>0, <1>2, <2>1, <2>2, <2>3, ListedStill DEF Rests, LinkedPcs
  <2> QED
    BY <1>1, <2>1, <2>4, SameListKept DEF Rests
<1> QED
  BY <1>3, <1>4, <1>5, <1>6, <1>7 DEF FreeDisable

LEMMA ResumeKeepsList ==
  ASSUME ListInv, NEW t \in Tasks,
         Suspend(t) \/ WakeUp(t) \/ ResumeLock(t) \/ ResumeEnable(t) \/ ResumeUnlock(t)
  PROVE  Chain' /\ ListEnds' /\ Pointed'
<1> USE DEF At, listVars
<1>0. it_edp \in Listed \cup {NULL} /\ \A x \in Listed : next[x] \in Listed \cup {NULL}
  BY ChainFacts
<1>1. /\ UNCHANGED <<it_edp, next, isr, own>> /\ task[t].pc \notin AllocPcs \cup FreePcs
      /\ task[t].pc # "forget"
  <2>1. /\ UNCHANGED <<it_edp, next, isr, own>>
        /\ task[t].pc \in {"idle", "asleep", "resumeLock", "resumeRead", "resumeWrite"}
    BY ResumeMoves DEF Suspend, WakeUp, ResumeLock, ResumeUnlock, ReadEnables
  <2> QED
    BY <2>1 DEF AllocPcs, FreePcs
<1>2. task[t].edp = NULL
  BY <1>1 DEF ListInv, CallsApart
<1>3. ASSUME NEW pc \in {"idle", "asleep", "resumeLock"}, NEW at, NEW val, Moves(t, pc, NULL, at, val)
      PROVE  Chain' /\ ListEnds' /\ Pointed'
  BY <1>1, <1>2, <1>3, ListedByOthers, SameListKept
<1>4. CASE Suspend(t) \/ WakeUp(t) \/ ResumeUnlock(t)
  BY <1>2, <1>3, <1>4, ResumeMoves DEF Begins, Stays, Rests
<1>5. CASE ResumeLock(t)
  <2>1. Moves(t, "resumeRead", NULL, it_edp, task[t].val)
    BY <1>2, <1>5, ResumeMoves DEF Stays
  <2>2. Listed' = Listed
    BY <1>1, <1>2, <2>1, ListedByOthers
  <2> QED
    BY <1>0, <1>1, <2>1, <2>2, SameListKept
<1>6. CASE task[t].at # NULL /\ ReadEnables(t, "resumeRead", "resumeWrite")
  <2>1. Moves(t, "resumeWrite", NULL, task[t].at, recEn) /\ task[t].pc = "resumeRead"
    BY <1>2, <1>6, ResumeMoves DEF Reads, ReadEnables
  <2>2. Listed' = Listed
    BY <1>1, <1>2, <2>1, ListedByOthers
  <2>3. task[t].at \in Listed
    BY <1>6, <2>1, Shape DEF TaskPointed
  <2> QED
    BY <1>1, <2>1, <2>2, <2>3, SameListKept
<1>7. CASE task[t].pc = "resumeWrite" /\ Stays(t, "resumeRead", next[task[t].at])
  <2>1. Moves(t, "resumeRead", NULL, next[task[t].at], task[t].val)
    BY <1>2, <1>7 DEF Stays
  <2>2. Listed' = Listed
    BY <1>1, <1>2, <2>1, ListedByOthers
  <2>3. task[t].at \in Listed
    BY <1>7, Shape DEF TaskPointed
  <2> QED
    BY <1>0, <1>1, <2>1, <2>2, <2>3, SameListKept
<1> QED
  BY <1>4, <1>5, <1>6, <1>7, ResumeMoves

LEMMA BeginKeepsList ==
  ASSUME ListInv, NEW t \in Tasks, Begin(t)
  PROVE  Chain' /\ ListEnds' /\ Pointed'
<1>1. PICK e \in Edps : AllocBegin(t, e) \/ FreeBegin(t, e)
  BY DEF Begin
<1>2. /\ task[t].pc = "idle" /\ UNCHANGED <<it_edp, next, isr>> /\ own' = [own EXCEPT ![e] = "calling"]
      /\ own[e] # "calling" /\ \/ own[e] = "out" /\ Begins(t, "lock", e)
                               \/ own[e] = "in" /\ Begins(t, "unlink", e)
  BY <1>1, AllocMoves, FreeMoves DEF AllocBegin, FreeBegin, At, listVars
<1>3. NULL \notin Edps /\ task[t].edp = NULL /\ \A u \in Tasks : task[u].edp # e
  BY <1>2, NullAssumption DEF ListInv, CallsApart, AllocPcs, FreePcs
<1>4. own'[e] = "calling" /\ \A x \in Edps \ {e} : own'[x] = own[x]
  BY <1>2, Shape
<1>5. "lock" \notin LinkedPcs /\ "unlink" \in LinkedPcs
  BY DEF LinkedPcs
<1>6. Listed' = Listed
  <2>1. CASE own[e] = "out" /\ Begins(t, "lock", e)
    BY <1>3, <1>4, <1>5, <2>1, ListedStill DEF Begins
  <2>2. CASE own[e] = "in" /\ Begins(t, "unlink", e)
    BY <1>3, <1>4, <1>5, <2>2, ListedStill DEF Begins
  <2> QED
    BY <1>2, <2>1, <2>2
<1> QED
  BY <1>2, <1>6, SameListKept DEF Begins

\* The handler's pointer goes along the list, and the other core touches none
\* of it.
LEMMA BoxKeepsList ==
  ASSUME ListInv, SendInv, Isr \/ \E s \in Senders : Sender(s)
  PROVE  ListInv'
<1> USE DEF listVars, boxVars, history, words
<1>0. it_edp \in Listed \cup {NULL} /\ \A x \in Listed : next[x] \in Listed \cup {NULL}
  BY ChainFacts
<1>1. TypeOK'
  BY BoxTypes DEF ListInv
<1>2. UNCHANGED <<it_edp, next, it_edp_mutex, task, own, overlapped>>
  BY DEF Isr, IrqEnter, IrqDrain, IrqAck, IrqReturn, Sender, SendBegin, SendPoll, SendWrite
<1>3. Listed' = Listed
  BY <1>2 DEF Listed
<1>4. CallsApart' /\ Locked'
  BY <1>2 DEF ListInv, CallsApart, Locked
<1>5. Chain' /\ ListEnds'
  BY <1>2, <1>3, ChainSame
<1>6. ListIntact'
  <2>1. ListIntact' = ListIntact
    BY <1>2 DEF ListIntact, ListEnds, Reached, ReachedBy, ClosedUnder
  <2> QED
    BY <2>1 DEF ListInv
<1>7. isr'.at \in Listed \cup {NULL} /\ (isr'.pc = "idle" => isr'.at = NULL)
  <2>0. /\ isr \in [pc: {"idle", "drain", "ack"}, at: Pointers] /\ (isr.pc = "ack" => isr.at # NULL)
        /\ isr.at \in Listed \cup {NULL} /\ (isr.pc = "idle" => isr.at = NULL)
    BY DEF ListInv, Pointed, TypeOK
  <2>1. CASE IrqEnter
    BY <1>0, <2>1 DEF IrqEnter
  <2>2. CASE IrqDrain
    BY <2>0, <2>2 DEF IrqDrain
  <2>3. CASE IrqAck
    BY <1>0, <2>0, <2>3 DEF IrqAck
  <2>4. CASE IrqReturn
    BY <2>0, <2>4 DEF IrqReturn
  <2>5. CASE \E s \in Senders : Sender(s)
    BY <2>0, <2>5 DEF Sender, SendBegin, SendPoll, SendWrite
  <2> QED
    BY <2>1, <2>2, <2>3, <2>4, <2>5 DEF Isr
<1>8. ASSUME NEW t \in Tasks  PROVE TaskPointed(t)'
  <2>1. TaskPointed(t)
    BY DEF ListInv, Pointed
  <2> QED
    BY <1>2, <1>3, <2>1 DEF TaskPointed, ReachedBy, ClosedUnder
<1>9. Pointed'
  BY <1>3, <1>7, <1>8 DEF Pointed
<1> QED
  BY <1>1, <1>4, <1>5, <1>6, <1>9 DEF ListInv

\* So the list is kept by every step.
LEMMA TaskKeepsList ==
  ASSUME ListInv, NEW t \in Tasks, Begin(t) \/ Proceed(t) \/ WakeUp(t) \/ Suspend(t)
  PROVE  ListInv'
<1>1. TypeOK' /\ CallsApart' /\ Locked'
  BY TaskTypes, CallsKept, LockKept
<1>2. Chain' /\ ListEnds' /\ Pointed'
  BY BeginKeepsList, AllocKeepsList, FreeKeepsList, ForgetKept, ResumeKeepsList DEF Proceed
<1> QED
  BY <1>1, <1>2, ChainIsIntact DEF ListInv

LEMMA InitIsListInv == Init => ListInv /\ SendInv
<1> SUFFICES ASSUME Init  PROVE ListInv /\ SendInv
  OBVIOUS
<1>0. /\ NULL \notin Edps /\ MSGBOX_MAX_QUEUE \in Nat /\ MaxWords \in Nat /\ MsgWords \in Nat
  BY NullAssumption, BoundAssumption
<1>1. TypeOK
  <2>1. [ch \in Channels |-> <<>>] \in [Channels -> Seq(Words)]
    OBVIOUS
  <2>2. send \in [Senders -> SendType]
    BY <1>0 DEF Init, SendType
  <2>3. task \in [Tasks -> TaskType]
    BY DEF Init, Quiet, TaskType, TaskPcs, Pointers
  <2>4. overlapped \in BOOLEAN
    BY Zenon DEF Init
  <2>5. \A ch \in Channels : Len(fifo[ch]) <= MSGBOX_MAX_QUEUE
    BY <1>0 DEF Init
  <2>6. /\ it_edp \in Pointers /\ next \in [Edps -> Pointers] /\ it_edp_mutex \in Tasks \cup {NULL}
        /\ isr \in [pc: {"idle", "drain", "ack"}, at: Pointers] /\ isr.pc # "ack"
        /\ own \in [Edps -> {"out", "calling", "in"}]
    BY DEF Init, Pointers
  <2>7. {fifo, sent, taken} \subseteq [Channels -> Seq(Words)] /\ recEn = {} /\ pending = {}
    BY <2>1 DEF Init
  <2> QED
    BY <2>2, <2>3, <2>4, <2>5, <2>6, <2>7 DEF TypeOK, SendType, TaskType, TaskPcs
<1>2. CallsApart /\ Locked
  BY DEF Init, CallsApart, Locked, Quiet, AllocPcs, FreePcs
<1>3. Listed = {} /\ Reached = {}
  BY NothingReached DEF Init, Listed, Quiet, LinkedPcs, Reached
<1>4. Chain /\ ListIntact
  BY <1>3 DEF Init, Chain, ListIntact, ListEnds
<1>5. Pointed
  BY DEF Init, Pointed, TaskPointed, Quiet
<1>6. SendInv
  BY DEF Init, SendInv
<1> QED
  BY <1>1, <1>2, <1>4, <1>5, <1>6 DEF ListInv

\* A sender's words and bounds.
LEMMA SendKept ==
  ASSUME TypeOK, SendInv, [Next]_vars
  PROVE  SendInv'
<1>0. /\ send \in [Senders -> SendType] /\ MaxWords \in Nat /\ MsgWords \in Nat
  BY BoundAssumption DEF TypeOK, SendType
<1>1. CASE send' = send
  BY <1>1 DEF SendInv
<1>2. ASSUME NEW s \in Senders, NEW len \in 1 .. MsgWords, send[s].n + len <= MaxWords,
             send' = [send EXCEPT ![s].pc = "poll", ![s].left = len]
      PROVE  SendInv'
  <2>1. send'[s].left = len /\ send'[s].n = send[s].n /\ \A u \in Senders \ {s} : send'[u] = send[u]
    BY <1>0, <1>2 DEF SendType
  <2> QED
    BY <1>0, <1>2, <2>1 DEF SendInv
<1>3. ASSUME NEW s \in Senders, SendPoll(s)  PROVE SendInv'
  BY <1>0, <1>3 DEF SendPoll, SendInv, SendType
<1>4. ASSUME NEW s \in Senders, SendWrite(s)  PROVE SendInv'
  <2>1. send[s].left > 0 /\ send[s].n + send[s].left <= MaxWords /\ send[s].n \in Nat /\ send[s].left \in Nat
    BY <1>0, <1>4 DEF SendWrite, SendInv, SendType
  <2>2. /\ send'[s].pc = IF LastWord(s) THEN "idle" ELSE "poll"
        /\ send'[s].left = send[s].left - 1 /\ send'[s].n = send[s].n + 1
        /\ \A u \in Senders \ {s} : send'[u] = send[u]
    BY <1>0, <1>4 DEF SendWrite, SendType
  <2> QED
    BY <2>1, <2>2 DEF SendInv, LastWord
<1>5. ASSUME NEW s \in Senders, Sender(s)  PROVE SendInv'
  BY <1>2, <1>3, <1>4, <1>5 DEF Sender, SendBegin
<1>6. ASSUME NEW t \in Tasks, Begin(t) \/ Proceed(t) \/ WakeUp(t) \/ Suspend(t)  PROVE send' = send
  BY <1>6 DEF Begin, AllocBegin, FreeBegin, Proceed, AllocLock, AllocWalk, AllocClear, AllocEnable,
     FreeUnlink, FreeSeek, FreeForget, FreeScan, FreeDisable, ResumeLock, ResumeEnable, ResumeUnlock,
     WakeUp, Suspend, ReadEnables, WriteEnables
<1>7. Isr => send' = send
  BY DEF Isr, IrqEnter, IrqDrain, IrqAck, IrqReturn
<1> QED
  BY <1>1, <1>5, <1>6, <1>7, PmAssumption DEF Next, vars

\* The handler can rely on the list between any two steps of the tasks: every
\* endpoint whose allocation returned is on it, none that was freed is, and it
\* has an end (ListInv), whatever allocations, frees and standby there are.
THEOREM ListKept == Spec => [](ListInv /\ SendInv)
<1>1. ListInv /\ SendInv /\ [Next]_vars => ListInv' /\ SendInv'
  <2> SUFFICES ASSUME ListInv, SendInv, [Next]_vars  PROVE ListInv'
    BY SendKept DEF ListInv
  <2>1. CASE UNCHANGED vars
    <3> USE <2>1 DEF vars, listVars, boxVars, history, words
    <3>1. TypeOK' /\ CallsApart' /\ Locked'
      BY DEF ListInv, TypeOK, CallsApart, Locked
    <3>2. Listed' = Listed
      BY DEF Listed
    <3>3. Chain' /\ ListEnds'
      BY <3>2, ChainSame
    <3>4. Pointed'
      BY <3>2 DEF ListInv, Pointed, TaskPointed, ReachedBy, ClosedUnder
    <3> QED
      BY <3>1, <3>3, <3>4, ChainIsIntact DEF ListInv
  <2>2. CASE Next
    BY <2>2, BoxKeepsList, TaskKeepsList, PmAssumption DEF Next
  <2> QED
    BY <2>1, <2>2
<1> QED
  BY <1>1, InitIsListInv, PTL DEF Spec

-----------------------------------------------------------------------------
(* The interrupts.                                                         *)

\* The two halves of what the invariant says of them: the bits of the queues,
\* and the enables of the endpoints.
HasBit == \A ch \in Channels : fifo[ch] # <<>> => ch \in pending
Enabled(e, at) == own[e] = "in" => ReadCh[e] \in recEn \/ e \in ReachedBy(next, at)
Unrestored == {"asleep"} \cup ResumePcs
TaskEnables(t) ==
  /\ task[t].pc \in {"enableWrite", "disableWrite", "resumeWrite"} => task[t].val = recEn
  /\ Resuming(t) => \A e \in Edps : Enabled(e, task[t].at)
Enables ==
  ~ overlapped =>
    /\ Restored => \A e \in Edps : Enabled(e, NULL)
    /\ \A t \in Tasks : TaskEnables(t)

LEMMA SeenHalves ==
  (WordsSeen /\ SeenInv <=> HasBit /\ Enables)
<1>1. \A e \in Edps : ReadCh[e] \in Channels
  BY ChannelAssumption
<1>2. \A e \in Edps : Enabled(e, NULL) <=> (own[e] = "in" => ReadCh[e] \in recEn)
  BY NothingReached DEF Enabled
<1> QED
  BY <1>1, <1>2 DEF WordsSeen, SeenInv, HasBit, Enables, TaskEnables, Enabled

LEMMA SeenHalvesNext ==
  (WordsSeen' /\ SeenInv' <=> HasBit' /\ Enables')
<1>1. \A e \in Edps : ReadCh[e] \in Channels
  BY ChannelAssumption
<1>2. \A e \in Edps : Enabled(e, NULL)' <=> (own'[e] = "in" => ReadCh[e] \in recEn')
  BY NothingReached DEF Enabled
<1> QED
  BY <1>1, <1>2 DEF WordsSeen, SeenInv, HasBit, Enables, TaskEnables, Enabled

\* A bit goes only when its queue is empty.
LEMMA BitsKept ==
  ASSUME TypeOK, HasBit, [Next]_vars
  PROVE  HasBit'
<1>0. fifo \in [Channels -> Seq(Words)] /\ ReadCh \in [Edps -> Channels] /\ NULL \notin Edps
  BY ChannelAssumption, NullAssumption DEF TypeOK
<1>1. CASE UNCHANGED <<fifo, pending>>
  BY <1>1 DEF HasBit
<1>2. CASE IrqDrain
  BY <1>0, <1>2 DEF IrqDrain, HasBit
<1>3. CASE IrqAck
  BY <1>3 DEF IrqAck, HasBit, PendingAfterAck, boxVars
<1>4. ASSUME NEW s \in Senders, SendWrite(s)  PROVE HasBit'
  BY <1>0, <1>4 DEF SendWrite, HasBit
<1>5. ASSUME NEW t \in Tasks, Begin(t) \/ Proceed(t) \/ WakeUp(t) \/ Suspend(t)
      PROVE  UNCHANGED <<fifo, pending>>
  BY <1>5 DEF boxVars, Begin, AllocBegin, FreeBegin, Proceed, AllocLock, AllocWalk, AllocClear, AllocEnable,
     FreeUnlink, FreeSeek, FreeForget, FreeScan, FreeDisable, ResumeLock, ResumeEnable, ResumeUnlock,
     WakeUp, Suspend, ReadEnables, WriteEnables
<1>6. ASSUME IrqEnter \/ IrqReturn \/ \E s \in Senders : SendBegin(s) \/ SendPoll(s)
      PROVE  UNCHANGED <<fifo, pending>>
  BY <1>6 DEF boxVars, IrqEnter, IrqReturn, SendBegin, SendPoll
<1>7. CASE UNCHANGED vars
  BY <1>1, <1>7 DEF vars, boxVars
<1> QED
  BY <1>1, <1>2, <1>3, <1>4, <1>5, <1>6, <1>7, PmAssumption DEF Next, Isr, Sender

\* A step of the only task that is in a call.
LEMMA EnablesStep ==
  ASSUME NEW t \in Tasks, NEW pc, NEW edp, NEW at, NEW val, Moves(t, pc, edp, at, val),
         \A u \in Tasks \ {t} : task[u].pc = "idle",
         pc \in {"enableWrite", "disableWrite", "resumeWrite"} => val = recEn',
         pc \in {"resumeRead", "resumeWrite"} =>
           \A e \in Edps : own'[e] = "in" => ReadCh[e] \in recEn' \/ e \in ReachedBy(next', at),
         pc \notin Unrestored => \A e \in Edps : own'[e] = "in" => ReadCh[e] \in recEn'
  PROVE  Enables'
<1>1. ASSUME NEW u \in Tasks \ {t}  PROVE TaskEnables(u)'
  BY DEF Moves, TaskEnables, Resuming
<1>2. TaskEnables(t)'
  BY DEF Moves, TaskEnables, Resuming, Enabled
<1>3. Restored' => pc \notin Unrestored
  BY DEF Restored, Moves, Unrestored
<1>4. pc \notin Unrestored => \A e \in Edps : Enabled(e, NULL)'
  BY DEF Enabled
<1> QED
  BY <1>1, <1>2, <1>3, <1>4 DEF Enables

\* A step within a call begins no other.
LEMMA ProceedsInCall ==
  ASSUME NEW t \in Tasks, Proceed(t)
  PROVE  task[t].pc # "idle" /\ UNCHANGED overlapped
<1> USE DEF At, history
<1>1. CASE AllocLock(t) \/ AllocWalk(t) \/ AllocClear(t) \/ AllocEnable(t)
  BY <1>1 DEF AllocLock, AllocWalk, AllocClear, AllocEnable, ReadEnables, WriteEnables
<1>2. CASE FreeUnlink(t) \/ FreeSeek(t) \/ FreeForget(t) \/ FreeScan(t) \/ FreeDisable(t)
  BY <1>2 DEF FreeUnlink, FreeSeek, FreeForget, FreeScan, FreeDisable, ReadEnables, WriteEnables
<1>3. CASE ResumeLock(t) \/ ResumeEnable(t) \/ ResumeUnlock(t)
  BY <1>3 DEF ResumeLock, ResumeEnable, ResumeUnlock, ReadEnables
<1> QED
  BY <1>1, <1>2, <1>3 DEF Proceed

\* While calls do not overlap, the steps of a call.
LEMMA CallsEnable ==
  ASSUME ListInv, Enables, ~ overlapped', NEW t \in Tasks, task[t].pc \notin Unrestored,
         Begin(t) \/ Proceed(t) \/ Suspend(t)
  PROVE  Enables'
<1> USE DEF At, listVars, boxVars, history, words
<1>1. ~ overlapped /\ (task[t].pc = "idle" => \A u \in Tasks : task[u].pc = "idle")
  <2>1. CASE Suspend(t) \/ \E e \in Edps : AllocBegin(t, e)
    <3>1. overlapped' = Overlaps
      BY <2>1 DEF Suspend, AllocBegin
    <3> QED
      BY <3>1 DEF Overlaps
  <2>2. CASE \E e \in Edps : FreeBegin(t, e)
    BY <2>2 DEF FreeBegin, MayCall
  <2>3. CASE Proceed(t)
    <3>1. task[t].pc # "idle" /\ UNCHANGED overlapped
      BY <2>3, ProceedsInCall
    <3> QED
      BY <3>1
  <2> QED
    BY <2>1, <2>2, <2>3 DEF Begin
<1>2. \A u \in Tasks \ {t} : task[u].pc = "idle"
  BY <1>1 DEF ListInv, CallsApart
<1>3. Restored
  BY <1>2 DEF Restored, Unrestored, ResumePcs
<1>4. \A e \in Edps : Enabled(e, NULL) /\ (own[e] = "in" => ReadCh[e] \in recEn)
  BY <1>1, <1>3, NothingReached DEF Enables, Enabled
<1>5. TaskEnables(t) /\ own \in [Edps -> {"out", "calling", "in"}]
  BY <1>1, Shape DEF Enables
<1>6. ASSUME NEW pc, NEW edp, NEW at, NEW val, Moves(t, pc, edp, at, val),
             pc \notin {"resumeRead", "resumeWrite"},
             pc \in {"enableWrite", "disableWrite"} => val = recEn',
             pc # "asleep" => \A e \in Edps : own'[e] = "in" => ReadCh[e] \in recEn'
      PROVE  Enables'
  BY <1>2, <1>6, EnablesStep DEF Enabled, Unrestored, ResumePcs
<1>7. ASSUME NEW e \in Edps, AllocBegin(t, e) \/ FreeBegin(t, e)  PROVE Enables'
  <2>1. own' = [own EXCEPT ![e] = "calling"] /\ recEn' = recEn
        /\ (Begins(t, "lock", e) \/ Begins(t, "unlink", e))
    BY <1>7, AllocMoves, FreeMoves DEF AllocBegin, FreeBegin
  <2>2. \A x \in Edps : own'[x] = "in" => ReadCh[x] \in recEn'
    BY <1>4, <1>5, <2>1
  <2> QED
    BY <1>6, <2>1, <2>2 DEF Begins
<1>8. CASE AllocLock(t) \/ AllocWalk(t) \/ AllocClear(t)
  BY <1>4, <1>6, <1>8, AllocMoves DEF AllocLock, AllocWalk, AllocClear, Stays
<1>9. CASE FreeUnlink(t) \/ FreeSeek(t) \/ FreeForget(t)
  <2>1. UNCHANGED <<own, recEn>>
    BY <1>9 DEF FreeUnlink, FreeSeek, FreeForget
  <2>2. \E pc \in {"forget", "seek", "scan"}, at \in {task[t].at, it_edp, next[task[t].at]} :
          Stays(t, pc, at)
    BY <1>9, FreeMoves
  <2> QED
    BY <1>4, <1>6, <2>1, <2>2 DEF Stays
<1>10. CASE FreeScan(t)
  <2>1. recEn' = recEn /\ (own' = own \/ own' = [own EXCEPT ![task[t].edp] = "out"])
        /\ (Stays(t, "disableRead", task[t].at) \/ Rests(t))
    BY <1>10, FreeMoves DEF FreeScan
  <2>2. \A x \in Edps : own'[x] = "in" => ReadCh[x] \in recEn'
    BY <1>4, <1>5, <2>1
  <2> QED
    BY <1>6, <2>1, <2>2 DEF Stays, Rests
<1>11. CASE ReadEnables(t, "enableRead", "enableWrite") \/ ReadEnables(t, "disableRead", "disableWrite")
  <2>1. UNCHANGED <<own, recEn>> /\ (Reads(t, "enableWrite") \/ Reads(t, "disableWrite"))
    BY <1>11, AllocMoves, FreeMoves DEF ReadEnables
  <2> QED
    BY <1>4, <1>6, <2>1 DEF Reads
<1>12. CASE WriteEnables(t, "enableWrite", EnabledBits(t), "in")
  <2>1. Rests(t) /\ recEn' = recEn \cup {ReadCh[task[t].edp]} /\ own' = [own EXCEPT ![task[t].edp] = "in"]
    BY <1>5, <1>12, AllocMoves DEF WriteEnables, EnabledBits, Bit, TaskEnables
  <2> QED
    BY <1>4, <1>5, <1>6, <2>1 DEF Rests
<1>13. CASE WriteEnables(t, "disableWrite", task[t].val \ Bit(t), "out")
  <2>1. Rests(t) /\ own' = [own EXCEPT ![task[t].edp] = "out"] /\ task[t].pc = "disableWrite"
    BY <1>13, FreeMoves DEF WriteEnables
  <2>2. it_edp = NULL
    BY <2>1, Shape DEF TaskPointed
  <2>3. \A e \in Edps : own[e] # "in"
    BY <2>2, ChainFacts, NothingReached DEF Listed
  <2> QED
    BY <1>5, <1>6, <2>1, <2>3 DEF Rests
<1>14. CASE Suspend(t)
  BY <1>6, <1>14, ResumeMoves DEF Begins
<1>15. ~ (ResumeLock(t) \/ ResumeEnable(t) \/ ResumeUnlock(t))
  BY DEF ResumeLock, ResumeEnable, ResumeUnlock, ReadEnables, Unrestored, ResumePcs
<1> QED
  BY <1>7, <1>8, <1>9, <1>10, <1>11, <1>12, <1>13, <1>14, <1>15
     DEF Begin, Proceed, AllocEnable, FreeDisable

\* And those of a resume, which enables the endpoints its pointer passes.
LEMMA ResumeEnables ==
  ASSUME ListInv, Enables, ~ overlapped', NEW t \in Tasks, task[t].pc \in Unrestored,
         Proceed(t) \/ WakeUp(t)
  PROVE  Enables'
<1> USE DEF At, listVars, boxVars, history, words
<1>0. WakeUp(t) \/ ResumeLock(t) \/ ResumeEnable(t) \/ ResumeUnlock(t)
  BY DEF Proceed, AllocLock, AllocWalk, AllocClear, AllocEnable, FreeUnlink, FreeSeek, FreeForget,
     FreeScan, FreeDisable, ReadEnables, WriteEnables, Unrestored, ResumePcs
<1>1. ~ overlapped /\ UNCHANGED <<next, own>>
  <2>1. UNCHANGED overlapped
    BY ProceedsInCall DEF WakeUp
  <2>2. UNCHANGED <<next, own>>
    BY <1>0, ResumeMoves DEF WakeUp, ResumeLock, ResumeUnlock, ReadEnables
  <2> QED
    BY <2>1, <2>2
<1>2. \A u \in Tasks \ {t} : task[u].pc = "idle"
  BY <1>1 DEF ListInv, CallsApart, Unrestored, ResumePcs
<1>3. TaskEnables(t) /\ next \in Links
  BY <1>1, Shape DEF Enables
<1>4. CASE WakeUp(t)
  BY <1>2, <1>4, ResumeMoves, EnablesStep DEF Stays, Unrestored, ResumePcs
<1>5. CASE ResumeLock(t)
  <2>1. Stays(t, "resumeRead", it_edp) /\ UNCHANGED <<it_edp, recEn>>
    BY <1>5, ResumeMoves DEF ResumeLock
  <2>2. \A e \in Edps : own'[e] = "in" => ReadCh[e] \in recEn' \/ e \in ReachedBy(next', it_edp)
    BY <1>1, <2>1, ChainFacts DEF Enabled, Listed
  <2> QED
    BY <1>2, <2>1, <2>2, EnablesStep DEF Stays, Unrestored, ResumePcs
<1>6. CASE ReadEnables(t, "resumeRead", "resumeWrite")
  <2>1. Reads(t, "resumeWrite") /\ recEn' = recEn /\ Resuming(t)
    BY <1>6, ResumeMoves DEF ReadEnables, Resuming
  <2>2. \A e \in Edps : own'[e] = "in" => ReadCh[e] \in recEn' \/ e \in ReachedBy(next', task[t].at)
    BY <1>1, <1>3, <2>1 DEF Enabled, TaskEnables
  <2> QED
    BY <1>2, <2>1, <2>2, EnablesStep DEF Reads, Unrestored, ResumePcs
<1>7. CASE /\ At(t, "resumeWrite")
           /\ recEn' = task[t].val \cup {ReadCh[task[t].at]}
           /\ Stays(t, "resumeRead", next[task[t].at])
  <2>1. task[t].val = recEn /\ \A e \in Edps : Enabled(e, task[t].at)
    BY <1>3, <1>7 DEF TaskEnables, Resuming
  <2>2. ReachedBy(next, task[t].at) = {task[t].at} \cup ReachedBy(next, next[task[t].at])
    BY <1>3, <1>7, Shape, ReachedOnce
  <2>3. \A e \in Edps : own'[e] = "in" => ReadCh[e] \in recEn' \/ e \in ReachedBy(next', next[task[t].at])
    BY <1>1, <1>7, <2>1, <2>2 DEF Enabled
  <2> QED
    BY <1>2, <1>7, <2>3, EnablesStep DEF Stays, Unrestored, ResumePcs
<1>8. CASE ResumeUnlock(t)
  <2>1. Rests(t) /\ recEn' = recEn /\ task[t].at = NULL /\ Resuming(t)
    BY <1>8, ResumeMoves DEF ResumeUnlock, Resuming
  <2>2. \A e \in Edps : own'[e] = "in" => ReadCh[e] \in recEn'
    BY <1>1, <1>3, <2>1, NothingReached DEF Enabled, TaskEnables
  <2> QED
    BY <1>2, <2>1, <2>2, EnablesStep DEF Rests
<1> QED
  BY <1>0, <1>4, <1>5, <1>6, <1>7, <1>8, ResumeMoves

LEMMA EnablesKept ==
  ASSUME ListInv, Enables, [Next]_vars
  PROVE  Enables'
<1>1. CASE overlapped'
  BY <1>1 DEF Enables
<1>2. ASSUME ~ overlapped', NEW t \in Tasks, Begin(t) \/ Proceed(t) \/ WakeUp(t) \/ Suspend(t)
      PROVE  Enables'
  <2>1. (WakeUp(t) => task[t].pc \in Unrestored) /\ (Begin(t) \/ Suspend(t) => task[t].pc \notin Unrestored)
    BY DEF WakeUp, Begin, AllocBegin, FreeBegin, Suspend, At, Unrestored, ResumePcs
  <2> QED
    BY <1>2, <2>1, CallsEnable, ResumeEnables
<1>3. ASSUME Isr \/ (\E s \in Senders : Sender(s)) \/ UNCHANGED vars  PROVE Enables'
  <2>1. UNCHANGED <<next, task, own, recEn, overlapped>>
    BY <1>3 DEF vars, listVars, boxVars, history, words,
       Isr, IrqEnter, IrqDrain, IrqAck, IrqReturn, Sender, SendBegin, SendPoll, SendWrite
  <2>2. Restored' = Restored
    BY <2>1 DEF Restored
  <2>3. \A e \in Edps : Enabled(e, NULL)' = Enabled(e, NULL)
    BY <2>1 DEF Enabled, ReachedBy, ClosedUnder
  <2>4. \A t \in Tasks : TaskEnables(t)' = TaskEnables(t)
    BY <2>1 DEF TaskEnables, Resuming, Enabled, ReachedBy, ClosedUnder
  <2> QED
    BY <2>1, <2>2, <2>3, <2>4 DEF Enables
<1> QED
  BY <1>1, <1>2, <1>3, PmAssumption DEF Next

\* An endpoint that is allocated has its interrupt, after standby too, and the
\* interrupt is pending while its queue holds a word (WordsSeen); the reason,
\* that a task's copy of the enable register is good while calls do not
\* overlap, holds with it.
THEOREM EndpointsSeeWords == Spec => [](WordsSeen /\ SeenInv)
<1>1. Init => HasBit /\ Enables
  BY DEF Init, HasBit, Enables, Restored, Enabled, TaskEnables, Resuming, Quiet
<1>2. ListInv /\ SendInv /\ HasBit /\ Enables /\ [Next]_vars => HasBit' /\ Enables'
  BY BitsKept, EnablesKept DEF ListInv
<1>3. HasBit /\ Enables => WordsSeen /\ SeenInv
  BY SeenHalves
<1> QED
  BY <1>1, <1>2, <1>3, ListKept, PTL DEF Spec

-----------------------------------------------------------------------------
(* The queues.                                                             *)

\* A word taken from the head of a queue goes behind those taken before.
LEMMA TakeFromQueue ==
  ASSUME NEW s \in Seq(Words), NEW q \in Seq(Words), q # <<>>
  PROVE  /\ Append(s, Head(q)) \o Tail(q) = s \o q
         /\ Len(s) < Len(s \o q) /\ (s \o q)[Len(s) + 1] = Head(q)
<1>1. /\ Head(q) \in Words /\ Tail(q) \in Seq(Words) /\ Len(q) \in Nat \ {0} /\ Len(s) \in Nat
      /\ Append(s, Head(q)) \in Seq(Words)
  OBVIOUS
<1>2. Append(s, Head(q)) \o Tail(q) \in Seq(Words) /\ s \o q \in Seq(Words)
  BY <1>1
<1>3. Len(Append(s, Head(q)) \o Tail(q)) = Len(s \o q)
  BY <1>1
<1>4. ASSUME NEW i \in 1 .. Len(s \o q)
      PROVE  (Append(s, Head(q)) \o Tail(q))[i] = (s \o q)[i]
  BY <1>1
<1>5. Append(s, Head(q)) \o Tail(q) = s \o q
  BY <1>2, <1>3, <1>4, SeqEqual
<1> QED
  BY <1>1, <1>5

\* One put at the end of a queue goes behind all of them.
LEMMA PutInQueue ==
  ASSUME NEW s \in Seq(Words), NEW q \in Seq(Words), NEW w \in Words
  PROVE  Append(s \o q, w) = s \o Append(q, w) /\ Len(s \o q) = Len(s) + Len(q)
<1>1. Append(s \o q, w) \in Seq(Words) /\ s \o Append(q, w) \in Seq(Words)
  OBVIOUS
<1>2. Len(Append(s \o q, w)) = Len(s \o Append(q, w)) /\ Len(s \o q) = Len(s) + Len(q)
  OBVIOUS
<1>3. ASSUME NEW i \in 1 .. Len(Append(s \o q, w))
      PROVE  Append(s \o q, w)[i] = (s \o Append(q, w))[i]
  OBVIOUS
<1> QED
  BY <1>1, <1>2, <1>3, SeqEqual

\* No two senders write one channel: a sender looks at the status and writes
\* without a lock.
OneWriter == \A s, u \in Senders : WriteCh[s] = WriteCh[u] => s = u

LEMMA Typed ==
  ASSUME TypeOK
  PROVE  /\ fifo \in [Channels -> Seq(Words)] /\ sent \in [Channels -> Seq(Words)]
         /\ taken \in [Channels -> Seq(Words)] /\ send \in [Senders -> SendType]
         /\ \A ch \in Channels : Len(fifo[ch]) <= MSGBOX_MAX_QUEUE
         /\ ReadCh \in [Edps -> Channels] /\ WriteCh \in [Senders -> Channels]
         /\ MSGBOX_MAX_QUEUE \in Nat /\ MaxWords \in Nat
BY ChannelAssumption, BoundAssumption DEF TypeOK, SendType

\* What a write does when the room that the sender saw is still there.
LEMMA WriteHasRoom ==
  ASSUME TypeOK, SendInv, QueueInv, NEW s \in Senders, SendWrite(s)
  PROVE  LET ch == WriteCh[s]  word == <<s, send[s].n + 1>> IN
         /\ ch \in Channels /\ word \in Words /\ Len(fifo[ch]) < MSGBOX_MAX_QUEUE
         /\ fifo' = [fifo EXCEPT ![ch] = Append(@, word)]
         /\ sent' = [sent EXCEPT ![ch] = Append(@, word)] /\ taken' = taken
<1> DEFINE ch == WriteCh[s]  word == <<s, send[s].n + 1>>
<1>1. ch \in Channels
  BY Typed
<1>2. word \in Words
  <2>1. send[s].n \in Nat /\ send[s].left \in Nat /\ send[s].left > 0 /\ send[s].n + send[s].left <= MaxWords
    BY Typed DEF SendWrite, SendInv, SendType
  <2> QED
    BY <2>1, Typed DEF Words
<1>3. Len(fifo[ch]) < MSGBOX_MAX_QUEUE
  <2>1. Len(fifo[ch]) # MSGBOX_MAX_QUEUE /\ Len(fifo[ch]) <= MSGBOX_MAX_QUEUE /\ fifo[ch] \in Seq(Words)
    BY <1>1, Typed DEF SendWrite, QueueInv, HasRoom
  <2> QED
    BY <2>1, Typed
<1>4. fifo' = [fifo EXCEPT ![ch] = Append(@, word)]
  BY <1>3 DEF SendWrite
<1> QED
  BY <1>1, <1>2, <1>3, <1>4 DEF SendWrite

LEMMA TasksLeaveWords ==
  ASSUME NEW t \in Tasks, Begin(t) \/ Proceed(t) \/ WakeUp(t) \/ Suspend(t)
  PROVE  UNCHANGED <<fifo, send, sent, taken>>
BY DEF boxVars, history, words, Begin, AllocBegin, FreeBegin, Proceed, AllocLock, AllocWalk, AllocClear,
   AllocEnable, FreeUnlink, FreeSeek, FreeForget, FreeScan, FreeDisable, ResumeLock, ResumeEnable,
   ResumeUnlock, WakeUp, Suspend, ReadEnables, WriteEnables

LEMMA QueueKept ==
  ASSUME OneWriter, TypeOK, SendInv, QueueInv, [Next]_vars
  PROVE  QueueInv'
<1> USE DEF boxVars, history, words
<1>1. CASE UNCHANGED <<fifo, send, sent, taken>>
  BY <1>1 DEF QueueInv, HasRoom
<1>2. CASE IrqDrain /\ fifo[ReadCh[isr.at]] # <<>>
  <2> DEFINE ch == ReadCh[isr.at]
  <2>1. ch \in Channels
    BY <1>2, Typed DEF IrqDrain, TypeOK, Pointers
  <2>2. /\ fifo' = [fifo EXCEPT ![ch] = Tail(@)] /\ UNCHANGED <<sent, send>>
        /\ taken' = [taken EXCEPT ![ch] = Append(@, Head(fifo[ch]))]
    BY <1>2 DEF IrqDrain
  <2>3. ASSUME NEW c \in Channels  PROVE sent'[c] = taken'[c] \o fifo'[c]
    <3>1. CASE c = ch
      <4>1. Append(taken[ch], Head(fifo[ch])) \o Tail(fifo[ch]) = taken[ch] \o fifo[ch]
        <5>1. taken[ch] \in Seq(Words) /\ fifo[ch] \in Seq(Words) /\ fifo[ch] # <<>>
          BY <1>2, <2>1, Typed
        <5> QED
          BY <5>1, TakeFromQueue
      <4>2. fifo'[ch] = Tail(fifo[ch]) /\ taken'[ch] = Append(taken[ch], Head(fifo[ch]))
        BY <2>1, <2>2, Typed
      <4> QED
        BY <2>1, <2>2, <3>1, <4>1, <4>2 DEF QueueInv
    <3>2. CASE c # ch
      BY <2>2, <3>2, Typed DEF QueueInv
    <3> QED
      BY <3>1, <3>2
  <2>4. ASSUME NEW s \in Senders, send'[s].pc = "write"  PROVE HasRoom(WriteCh[s])'
    <3>1. WriteCh[s] \in Channels /\ Len(fifo[WriteCh[s]]) # MSGBOX_MAX_QUEUE
      BY <2>2, <2>4, Typed DEF QueueInv, HasRoom
    <3>2. CASE WriteCh[s] = ch
      <4>1. Len(fifo[ch]) \in Nat /\ Len(Tail(fifo[ch])) = Len(fifo[ch]) - 1
            /\ Len(fifo[ch]) <= MSGBOX_MAX_QUEUE
        BY <1>2, <2>1, Typed
      <4>2. fifo'[ch] = Tail(fifo[ch])
        BY <2>1, <2>2, Typed
      <4> QED
        BY <3>2, <4>1, <4>2, Typed DEF HasRoom
    <3>3. CASE WriteCh[s] # ch
      BY <2>2, <3>1, <3>3, Typed DEF HasRoom
    <3> QED
      BY <3>2, <3>3
  <2> QED
    BY <2>3, <2>4 DEF QueueInv
<1>3. ASSUME Isr, ~ (IrqDrain /\ fifo[ReadCh[isr.at]] # <<>>)  PROVE UNCHANGED <<fifo, send, sent, taken>>
  BY <1>3 DEF Isr, IrqEnter, IrqDrain, IrqAck, IrqReturn
<1>4. ASSUME NEW s \in Senders, SendBegin(s)  PROVE QueueInv'
  BY <1>4, Typed DEF SendBegin, QueueInv, HasRoom, SendType
<1>5. ASSUME NEW s \in Senders, SendPoll(s)  PROVE QueueInv'
  BY <1>5, Typed DEF SendPoll, QueueInv, HasRoom, SendType
<1>6. ASSUME NEW s \in Senders, SendWrite(s)  PROVE QueueInv'
  <2> DEFINE ch == WriteCh[s]  word == <<s, send[s].n + 1>>
  <2>1. /\ ch \in Channels /\ word \in Words
        /\ fifo' = [fifo EXCEPT ![ch] = Append(@, word)]
        /\ sent' = [sent EXCEPT ![ch] = Append(@, word)] /\ taken' = taken
    BY <1>6, WriteHasRoom
  <2>2. send'[s].pc # "write" /\ \A u \in Senders \ {s} : send'[u] = send[u] /\ WriteCh[u] # ch
    BY <1>6, Typed DEF SendWrite, OneWriter, SendType
  <2> HIDE DEF word
  <2>3. ASSUME NEW c \in Channels  PROVE sent'[c] = taken'[c] \o fifo'[c]
    <3>1. CASE c = ch
      <4>1. Append(taken[ch] \o fifo[ch], word) = taken[ch] \o Append(fifo[ch], word)
        <5>1. taken[ch] \in Seq(Words) /\ fifo[ch] \in Seq(Words) /\ word \in Words
          BY <2>1, Typed
        <5> QED
          BY <5>1, PutInQueue
      <4>2. fifo'[ch] = Append(fifo[ch], word) /\ sent'[ch] = Append(sent[ch], word)
        BY <2>1, Typed
      <4> QED
        BY <2>1, <3>1, <4>1, <4>2 DEF QueueInv
    <3>2. CASE c # ch
      BY <2>1, <3>2, Typed DEF QueueInv
    <3> QED
      BY <3>1, <3>2
  <2>4. ASSUME NEW u \in Senders, send'[u].pc = "write"  PROVE HasRoom(WriteCh[u])'
    BY <2>1, <2>2, <2>4, Typed DEF QueueInv, HasRoom
  <2> QED
    BY <2>3, <2>4 DEF QueueInv
<1>7. ASSUME NEW t \in Tasks, Begin(t) \/ Proceed(t) \/ WakeUp(t) \/ Suspend(t)  PROVE QueueInv'
  BY <1>1, <1>7, TasksLeaveWords
<1>8. ASSUME Isr  PROVE QueueInv'
  BY <1>1, <1>2, <1>3, <1>8
<1>9. CASE UNCHANGED vars
  BY <1>1, <1>9 DEF vars
<1> QED
  BY <1>4, <1>5, <1>6, <1>7, <1>8, <1>9, PmAssumption DEF Next, Sender

\* All of the invariant, when no two senders share a channel.
THEOREM BoxInvariant ==
  ASSUME OneWriter
  PROVE  Spec => []IInv
<1>1. Init => QueueInv
  <2> SUFFICES ASSUME Init  PROVE QueueInv
    OBVIOUS
  <2>1. <<>> \o <<>> = <<>>
    OBVIOUS
  <2> QED
    BY <2>1 DEF Init, QueueInv
<1>2. ListInv /\ SendInv /\ QueueInv /\ [Next]_vars => QueueInv'
  BY QueueKept DEF ListInv
<1> QED
  BY <1>1, <1>2, ListKept, EndpointsSeeWords, PTL DEF Spec, IInv

\* The box implements its abstract specification: each channel is a queue that
\* loses no word, repeats none, keeps their order and never holds more than
\* the hardware has room for (BoxSpec), whatever happens to the list.
THEOREM MailboxKept ==
  ASSUME OneWriter
  PROVE  Spec => BoxSpec
<1> USE DEF boxVars, history, words
<1>1. Init => Box!Init
  BY DEF Init, Box!Init
<1>2. IInv /\ [Next]_vars => [Box!Next]_<<sent, taken>>
  <2> SUFFICES ASSUME IInv, [Next]_vars  PROVE Box!Next \/ UNCHANGED <<sent, taken>>
    OBVIOUS
  <2>0. TypeOK /\ SendInv /\ QueueInv
    BY DEF IInv, ListInv
  <2>1. CASE IrqDrain /\ fifo[ReadCh[isr.at]] # <<>>
    <3> DEFINE ch == ReadCh[isr.at]
    <3>1. ch \in Channels
      BY <2>0, <2>1, Typed DEF IrqDrain, TypeOK, Pointers
    <3>2. taken' = [taken EXCEPT ![ch] = Append(@, Head(fifo[ch]))] /\ sent' = sent
      BY <2>1 DEF IrqDrain
    <3>3. Len(taken[ch]) < Len(sent[ch]) /\ sent[ch][Len(taken[ch]) + 1] = Head(fifo[ch])
      <4>1. taken[ch] \in Seq(Words) /\ fifo[ch] \in Seq(Words) /\ fifo[ch] # <<>>
        BY <2>0, <2>1, <3>1, Typed
      <4>2. sent[ch] = taken[ch] \o fifo[ch]
        BY <2>0, <3>1 DEF QueueInv
      <4>3. /\ Len(taken[ch]) < Len(taken[ch] \o fifo[ch])
            /\ (taken[ch] \o fifo[ch])[Len(taken[ch]) + 1] = Head(fifo[ch])
        BY <4>1, TakeFromQueue
      <4> QED
        BY <4>2, <4>3
    <3>4. Box!Take(ch)
      BY <3>2, <3>3 DEF Box!Take
    <3> QED
      BY <3>1, <3>4 DEF Box!Next
  <2>2. ASSUME NEW s \in Senders, SendWrite(s)  PROVE Box!Next
    <3> DEFINE ch == WriteCh[s]  word == <<s, send[s].n + 1>>
    <3>1. /\ ch \in Channels /\ word \in Words /\ Len(fifo[ch]) < MSGBOX_MAX_QUEUE
          /\ sent' = [sent EXCEPT ![ch] = Append(@, word)] /\ taken' = taken
      BY <2>0, <2>2, WriteHasRoom
    <3>2. Len(sent[ch]) = Len(taken[ch]) + Len(fifo[ch]) /\ Len(taken[ch]) \in Nat /\ Len(fifo[ch]) \in Nat
      BY <2>0, <3>1, Typed DEF QueueInv
    <3>3. Len(sent[ch]) < Len(taken[ch]) + MSGBOX_MAX_QUEUE
      BY <2>0, <3>1, <3>2, Typed
    <3>4. Box!Put(ch, word)
      BY <3>1, <3>3 DEF Box!Put
    <3> QED
      BY <3>1, <3>4 DEF Box!Next
  <2>3. ASSUME NEW s \in Senders, SendBegin(s) \/ SendPoll(s)  PROVE UNCHANGED <<sent, taken>>
    BY <2>3 DEF SendBegin, SendPoll
  <2>4. ASSUME Isr, ~ (IrqDrain /\ fifo[ReadCh[isr.at]] # <<>>)  PROVE UNCHANGED <<sent, taken>>
    BY <2>4 DEF Isr, IrqEnter, IrqDrain, IrqAck, IrqReturn
  <2>5. ASSUME NEW t \in Tasks, Begin(t) \/ Proceed(t) \/ WakeUp(t) \/ Suspend(t)
        PROVE  UNCHANGED <<sent, taken>>
    BY <2>5, TasksLeaveWords
  <2>6. UNCHANGED vars => UNCHANGED <<sent, taken>>
    BY DEF vars
  <2> QED
    BY <2>1, <2>2, <2>3, <2>4, <2>5, <2>6, PmAssumption DEF Next, Sender
<1> QED
  BY <1>1, <1>2, BoxInvariant, PTL DEF Spec, BoxSpec, Box!Spec

=============================================================================
