-------------------------------- MODULE Rtc --------------------------------
(***************************************************************************)
(* The real time clock, src/hal/source/rtc/hal_rtc.c with the calendar of  *)
(* rtc-lib.c, in the build with SUNXI_SIMPLIFIED_TIMER: the hardware       *)
(* counts days from 1 January 1970, which is day 1, and the driver turns   *)
(* days into dates and back.  The clock ticks while tasks read it, set it  *)
(* and set the alarm; a register that was written takes its value later.   *)
(* Nothing is locked.  Hours, minutes and seconds are one number below     *)
(* SEC_IN_DAY.                                                             *)
(***************************************************************************)
EXTENDS Integers, FiniteSets

CONSTANTS Tasks,
          SEC_IN_DAY, \* 24 * 60 * 60 in the code
          StartDays,  \* what the day counter may hold when the core comes up
          SweepDays,  \* ... and these, if the clock is only read
          Dates,      \* the dates passed to hal_rtc_settime
          AlarmDates, \* the dates passed to hal_rtc_setalarm
          MaxCalls,   \* bound on the calls that change something
          MaxTicks,   \* bound on the ticks of the clock
          LastDate,   \* what the statics of hal_rtc_day_to_ymd hold
          NONE

ASSUME DayAssumption == SEC_IN_DAY \in Nat \ {0}
ASSUME BoundAssumption == MaxCalls \in Nat /\ MaxTicks \in Nat
ASSUME DaysAssumption == StartDays \cup SweepDays \subseteq Nat
ASSUME LastDateAssumption == LastDate \in [year : Int, mon : Int, mday : Int]
ASSUME NoneAssumption == NONE \notin Int /\ NONE \notin {"get", "set", "alarm", "irq"}

Seconds == 0 .. SEC_IN_DAY - 1

\* data_year_param
MinYear == 1970
MaxYear == 2097

-----------------------------------------------------------------------------
(* The calendar.  A struct rtc_time counts years from 1900, months from 0. *)

is_leap_year(year) == (year % 4 = 0 /\ year % 100 # 0) \/ year % 400 = 0

YearLen(year) == IF is_leap_year(year) THEN 366 ELSE 365

\* month_days[2][13] as it lies in memory: a walk past the December of an
\* ordinary year goes on in the row of leap years.
month_days == [n \in 0 .. 25 |->
  <<0, 31, 28, 31, 30, 31, 30, 31, 31, 30, 31, 30, 31,
    0, 31, 29, 31, 30, 31, 30, 31, 31, 30, 31, 30, 31>>[n + 1]]

Row(leap) == IF leap THEN 13 ELSE 0
MonthLen(leap, mon) == month_days[Row(leap) + mon]

\* The loops of hal_rtc_day_to_ymd: the year and what is left of the days, then
\* the place in the table and what is left.
afterYears[year \in Nat] == [days \in Nat |->
  IF days > YearLen(year) THEN afterYears[year + 1][days - YearLen(year)]
  ELSE <<year, days>>]

afterMonths[i \in 0 .. 25] == [days \in Nat |->
  IF i < 25 /\ days > month_days[i] THEN afterMonths[i + 1][days - month_days[i]]
  ELSE <<i, days>>]

\* The leap year is looked up for the year counted from 1900.
LeapRow(year) == Row(is_leap_year(year - 1900))

\* hal_rtc_day_to_ymd, and the tm_mon -= 1 of its caller.  last_date is never
\* written: only day 0 finds itself there, and gets the statics beside it, the
\* date of the conversion before, whoever made it.  LastDate stands for it.
day_to_ymd(day) ==
  IF day = 0
    THEN [LastDate EXCEPT !.mon = @ - 1]
    ELSE LET yd == afterYears[MinYear][day]
             row == LeapRow(yd[1])
             md == afterMonths[row + 1][yd[2]]
         IN [year |-> yd[1] - 1900, mon |-> md[1] - row - 1, mday |-> md[2]]

\* The two sums of hal_rtc_settime.
daysOfMonths(leap, months) ==
  LET sum[mon \in 0 .. 12] ==
        IF mon = 0 THEN 0 ELSE MonthLen(leap, mon) + sum[mon - 1]
  IN sum[months]

daysOfYears[year \in Nat] ==
  IF year < MinYear THEN 0 ELSE YearLen(year) + daysOfYears[year - 1]

SetDay(tm) ==
  LET year == tm.year + 1900
  IN tm.mday + daysOfMonths(is_leap_year(year), tm.mon) + daysOfYears[year - 1]

\* mktime64 of rtc-lib.c: February comes last.
mktime64(tm) ==
  LET early == tm.mon + 1 <= 2
      mon == IF early THEN tm.mon + 11 ELSE tm.mon - 1
      year == tm.year + 1900 - (IF early THEN 1 ELSE 0)
  IN (year \div 4 - year \div 100 + year \div 400 + (367 * mon) \div 12 + tm.mday
      + year * 365 - 719499) * SEC_IN_DAY + tm.sec

\* rtc_valid_tm
rtc_valid_tm(tm) ==
  /\ tm.year >= 70
  /\ tm.mon \in 0 .. 11
  /\ tm.mday >= 1
  /\ tm.mday <= MonthLen(is_leap_year(tm.year + 1900), tm.mon + 1)
  /\ tm.sec \in Seconds

\* hal_rtc_settime looks at the year alone: what it is passed is a date.
DatesValid ==
  \A tm \in Dates : tm.year + 1900 \in MinYear .. MaxYear =>
    tm.mon \in 0 .. 11 /\ tm.mday \in Nat /\ tm.sec \in Seconds

\* An alarm has a day of the month and a time of the day.
AlarmsValid == \A tm \in AlarmDates : tm.mday \in Int /\ tm.sec \in Seconds

ASSUME DatesAssumption == DatesValid /\ AlarmsValid

\* The calendar by which the properties judge: the number of the day of a date.
RefDay(tm) ==
  LET year == tm.year + 1900
  IN 365 * (year - 1970) + Cardinality({y \in 1970 .. year - 1 : is_leap_year(y)})
     + <<0, 31, 59, 90, 120, 151, 181, 212, 243, 273, 304, 334>>[tm.mon + 1]
     + (IF tm.mon > 1 /\ is_leap_year(year) THEN 1 ELSE 0) + tm.mday

\* hal_rtc_day_to_ymd misreads day 0, which a clock that lost its power may
\* hold, and 2000 from 29 February on, since year 100 is no leap year.  In 2300,
\* since year 400 is one, and later it goes wrong again.
Misread == {0} \cup RefDay([year |-> 100, mon |-> 1, mday |-> 29])
                   .. RefDay([year |-> 100, mon |-> 11, mday |-> 31])

Readable(day) ==
  day \notin Misread /\ day < RefDay([year |-> 400, mon |-> 0, mday |-> 1])

-----------------------------------------------------------------------------

VARIABLES
  ymd, hms, \* SUNXI_RTC_YMD and SUNXI_RTC_HMS
  acc,      \* what was written to them and has not taken effect (LOSC_CTRL)
  alrm,     \* the alarm: day, second, enable, interrupt enable and pending
  user_callback,
  pc, op,   \* where each task is, and in which call
  read,     \* what its gettime read: day and second
  arg,      \* what it passed
  left,     \* calls left that change something
  ticks,
  \* history
  seen,     \* what the clock showed since the task's gettime began
  turns,    \* how often the date changed since it first read it, in this round
  goal,     \* the setting in progress or done: what the clock should show
  due,      \* the alarm accepted last
  rang,     \* the callback ran for it
  missed    \* hal_rtc_setalarm enabled it when its time had come

regs == <<ymd, hms, acc>>
tasks == <<pc, op, read, arg>>
vars == <<regs, alrm, user_callback, tasks, left, ticks, seen, turns, goal, due, rang,
          missed>>

\* A moment as the number of ticks since day 0.
At(day, sec) == day * SEC_IN_DAY + sec
Now == At(ymd, hms)

NoGoal == [asked |-> 0, shows |-> NONE, dated |-> FALSE,
           rolled |-> 0, set |-> FALSE]

\* After hal_rtc_init: the alarm is off, the clock went on without the core.
Init ==
  /\ \/ ymd \in StartDays /\ hms \in Seconds /\ left = MaxCalls /\ ticks = 0
        /\ user_callback \in BOOLEAN
     \/ ymd \in SweepDays /\ hms = 0 /\ left = 0 /\ ticks = MaxTicks
        /\ user_callback = FALSE
  /\ acc = [ymd |-> NONE, hms |-> NONE]
  /\ alrm = [day |-> 0, sec |-> 0, en |-> FALSE, irqEn |-> FALSE, pend |-> FALSE]
  /\ pc = [t \in Tasks |-> "idle"]
  /\ op = [t \in Tasks |-> NONE]
  /\ read = [t \in Tasks |-> <<0, 0>>]
  /\ arg = [t \in Tasks |-> NONE]
  /\ seen = [t \in Tasks |-> {}]
  /\ turns = [t \in Tasks |-> 0]
  /\ goal = NoGoal
  /\ due = NONE
  /\ rang = FALSE
  /\ missed = FALSE

Goto(t, from, to) == pc[t] = from /\ pc' = [pc EXCEPT ![t] = to]

\* Task t calls something; calls that change the clock or the alarm do not
\* overlap each other, and of tasks that only read, which leave everything as
\* it is, there is one at a time.
Free(what) ==
  IF what = "get" THEN \A u \in Tasks : op[u] # "get"
  ELSE left > 0 /\ \A u \in Tasks : op[u] \in {NONE, "get"}

Begins(t, what, first) ==
  /\ Goto(t, "idle", first)
  /\ Free(what)
  /\ op' = [op EXCEPT ![t] = what]
  /\ left' = IF what = "get" THEN left ELSE left - 1

Returns(t, from) ==
  /\ Goto(t, from, "idle")
  /\ op' = [op EXCEPT ![t] = NONE]
  /\ arg' = [arg EXCEPT ![t] = NONE]
  /\ read' = [read EXCEPT ![t] = <<0, 0>>]
  /\ seen' = [seen EXCEPT ![t] = {}]
  /\ turns' = [turns EXCEPT ![t] = 0]

\* A call of one step.
Quick(t) ==
  /\ pc[t] = "idle" /\ Free("quick")
  /\ left' = left - 1
  /\ UNCHANGED <<tasks, seen, turns>>

-----------------------------------------------------------------------------
(* hal_rtc_gettime: both registers are read until two readings agree.      *)

GetTime(t) ==
  /\ Begins(t, "get", "date")
  /\ seen' = [seen EXCEPT ![t] = {<<ymd, hms>>}]
  /\ UNCHANGED <<regs, alrm, user_callback, read, arg, ticks, turns, goal, due, rang,
                 missed>>

ReadDate(t) ==
  /\ Goto(t, "date", "time")
  /\ read' = [read EXCEPT ![t] = <<ymd, @[2]>>]
  /\ turns' = [turns EXCEPT ![t] = 0]
  /\ UNCHANGED <<regs, alrm, user_callback, op, arg, left, ticks, seen, goal, due,
                 rang, missed>>

ReadTime(t) ==
  /\ Goto(t, "time", "date2")
  /\ read' = [read EXCEPT ![t] = <<@[1], hms>>]
  /\ UNCHANGED <<regs, alrm, user_callback, op, arg, left, ticks, seen, turns,
                 goal, due, rang, missed>>

SameDate_any(t) == TRUE
SameDate(t) == ymd = read[t][1]

ReadDateAgain(t) ==
  /\ Goto(t, "date2", IF SameDate(t) THEN "time2" ELSE "date")
  /\ UNCHANGED <<regs, alrm, user_callback, op, read, arg, left, ticks, seen,
                 turns, goal, due, rang, missed>>

ReadTimeAgain(t) ==
  /\ Goto(t, "time2", IF hms = read[t][2] THEN "got" ELSE "date")
  /\ UNCHANGED <<regs, alrm, user_callback, op, read, arg, left, ticks, seen,
                 turns, goal, due, rang, missed>>

\* What the caller gets.
Got(t) ==
  LET date == day_to_ymd(read[t][1])
  IN [year |-> date.year, mon |-> date.mon, mday |-> date.mday, sec |-> read[t][2]]

GetReturns(t) ==
  /\ op[t] = "get"
  /\ Returns(t, "got")
  /\ UNCHANGED <<regs, alrm, user_callback, left, ticks, goal, due, rang, missed>>

-----------------------------------------------------------------------------
(* hal_rtc_settime.  Each step sleeps, gives up if the register in question *)
(* still has a value on its way, and writes.                               *)

SetTime(t) ==
  \E tm \in Dates :
    IF tm.year + 1900 \in MinYear .. MaxYear
      THEN /\ Begins(t, "set", "zero")
           /\ arg' = [arg EXCEPT ![t] = [date |-> SetDay(tm), time |-> tm.sec]]
           /\ goal' = [NoGoal EXCEPT !.asked = At(RefDay(tm), tm.sec)]
           /\ UNCHANGED <<regs, alrm, user_callback, read, ticks, seen, turns, due, rang,
                          missed>>
      ELSE /\ Quick(t)
           /\ UNCHANGED <<regs, alrm, user_callback, ticks, goal, due, rang, missed>>

\* The register each step waits for.
WaitsFor == [zero |-> "hms", hms |-> "hms", settle |-> "hms", ymd |-> "ymd",
             last |-> "ymd"]

Settled(r) == acc[r] = NONE

\* hal_rtc_wait
Waited_not(t) == TRUE
Waited(t) == Settled(WaitsFor[pc[t]])

\* A write that finds one on its way is lost.
SetWrites(t, from, to, r, val) ==
  /\ Goto(t, from, to)
  /\ Waited(t)
  /\ acc' = [acc EXCEPT ![r] = IF Settled(r) THEN val ELSE @]
  /\ UNCHANGED <<ymd, hms, alrm, user_callback, op, read, arg, left, ticks, seen,
                 turns, goal, due, rang, missed>>

SetZero(t) == SetWrites(t, "zero", "hms", "hms", 0)

SetHms(t) == SetWrites(t, "hms", "settle", "hms", arg[t].time)

SetSettles(t) ==
  /\ Goto(t, "settle", "ymd")
  /\ Waited(t)
  /\ UNCHANGED <<regs, alrm, user_callback, op, read, arg, left, ticks, seen,
                 turns, goal, due, rang, missed>>

SetYmd(t) == SetWrites(t, "ymd", "last", "ymd", arg[t].date)

SetReturns(t) ==
  /\ Returns(t, "last")
  /\ Waited(t)
  /\ goal' = [goal EXCEPT !.set = TRUE]
  /\ UNCHANGED <<regs, alrm, user_callback, left, ticks, due, rang, missed>>

\* The register did not settle within the sleep.
SetFails(t) ==
  /\ op[t] = "set"
  /\ ~ Waited(t)
  /\ Returns(t, pc[t])
  /\ UNCHANGED <<regs, alrm, user_callback, left, ticks, goal, due, rang, missed>>

-----------------------------------------------------------------------------
(* The alarm.                                                              *)

SetAlarm(t) ==
  /\ Begins(t, "alarm", "date")
  /\ \E tm \in AlarmDates, enabled \in BOOLEAN :
       arg' = [arg EXCEPT ![t] = [tm |-> tm, enabled |-> enabled]]
  /\ seen' = [seen EXCEPT ![t] = {<<ymd, hms>>}]
  /\ UNCHANGED <<regs, alrm, user_callback, read, ticks, turns, goal, due, rang, missed>>

\* "Date to set in the past", "Day must be in the range 0 - 255"
Acceptable(t) ==
  mktime64(arg[t].tm) - mktime64(Got(t)) \in 1 .. 255 * SEC_IN_DAY

AlarmRefused(t) ==
  /\ pc[t] = "got" /\ op[t] = "alarm"
  /\ ~ Acceptable(t)
  /\ Returns(t, "got")
  /\ UNCHANGED <<regs, alrm, user_callback, left, ticks, goal, due, rang, missed>>

\* hal_rtc_setaie acknowledges what is pending before it disables the alarm.
Acked_not(a) == a
Acked(a) == [a EXCEPT !.pend = FALSE]

Disabled(a) == [a EXCEPT !.en = FALSE, !.irqEn = FALSE]

Enabled(to, a) ==
  IF to THEN [a EXCEPT !.en = TRUE, !.irqEn = TRUE] ELSE Disabled(Acked(a))

\* An alarm that is pending when it is acknowledged is not due any more.
NotPending == IF alrm.pend THEN NONE ELSE due

AlarmAck(t) ==
  /\ Goto(t, "got", "off")
  /\ op[t] = "alarm" /\ Acceptable(t)
  /\ alrm' = Acked(alrm) /\ due' = NotPending
  /\ seen' = [seen EXCEPT ![t] = {}]
  /\ turns' = [turns EXCEPT ![t] = 0]
  /\ UNCHANGED <<regs, user_callback, op, read, arg, left, ticks, goal, rang, missed>>

\* The alarm comes as many days after today as its day of the month is greater
\* than today's; "today" is the day counter, read again.
AlarmDay(t) == arg[t].tm.mday - Got(t).mday + ymd

\* Where that is the alarm's day: in this month, if the dates of this year are
\* right, and if it is still today.
DayRight(t) ==
  /\ arg[t].tm.year = Got(t).year /\ arg[t].tm.mon = Got(t).mon
  /\ ymd = read[t][1] /\ Readable(ymd)

\* The alarm before went off after its acknowledgement and is still pending.
Slipped(t) == alrm.en /\ <<alrm.day, alrm.sec>> \in seen[t]

AlarmProgram(t) ==
  /\ Goto(t, "off", "arm")
  /\ op[t] = "alarm"
  /\ alrm' = [Disabled(alrm) EXCEPT !.day = AlarmDay(t), !.sec = arg[t].tm.sec]
  /\ due' = IF DayRight(t) /\ ~ Slipped(t) THEN At(RefDay(arg[t].tm), arg[t].tm.sec)
            ELSE NONE
  /\ rang' = FALSE /\ missed' = FALSE
  /\ seen' = [seen EXCEPT ![t] = {}]
  /\ UNCHANGED <<regs, user_callback, op, read, arg, left, ticks, turns, goal>>

\* Nothing looks at the clock again before the alarm is enabled: one whose time
\* has come since it was accepted is not due any more.
TooLate(to) == to /\ ~ alrm.en /\ due # NONE /\ due <= Now

StillDue(to) == IF TooLate(to) THEN NONE ELSE due

AlarmArm(t) ==
  /\ Returns(t, "arm")
  /\ alrm' = Enabled(arg[t].enabled, [alrm EXCEPT !.irqEn = TRUE])
  /\ due' = StillDue(arg[t].enabled)
  /\ missed' = TooLate(arg[t].enabled)
  /\ UNCHANGED <<regs, user_callback, left, ticks, goal, rang>>

\* hal_rtc_alarm_irq_enable
AlarmIrqEnable(t) ==
  /\ Quick(t)
  /\ alrm' = Enabled(TRUE, alrm) /\ due' = StillDue(TRUE)
  /\ UNCHANGED <<regs, user_callback, ticks, goal, rang, missed>>

AlarmIrqAck(t) ==
  /\ Begins(t, "irq", "off")
  /\ alrm' = Acked(alrm) /\ due' = NotPending
  /\ UNCHANGED <<regs, user_callback, read, arg, ticks, seen, turns, goal, rang, missed>>

AlarmIrqDisable(t) ==
  /\ op[t] = "irq"
  /\ Returns(t, "off")
  /\ alrm' = Disabled(alrm)
  /\ UNCHANGED <<regs, user_callback, left, ticks, goal, due, rang, missed>>

\* hal_rtc_register_callback
RegisterCallback(t) ==
  /\ Quick(t)
  /\ user_callback' = TRUE
  /\ UNCHANGED <<regs, alrm, ticks, goal, due, rang, missed>>

\* hal_rtc_init once more, as each run of the test does.
Reinit(t) ==
  /\ Quick(t)
  /\ alrm' = Enabled(FALSE, alrm)
  /\ due' = NONE /\ missed' = FALSE
  /\ UNCHANGED <<regs, user_callback, ticks, goal, rang>>

\* hal_rtc_alarmirq: acknowledge, then call.
AlarmIrq ==
  /\ alrm.pend /\ alrm.irqEn
  /\ alrm' = [alrm EXCEPT !.pend = FALSE]
  /\ rang' = (rang \/ user_callback)
  /\ due' = IF user_callback THEN due ELSE NONE
  /\ UNCHANGED <<regs, user_callback, tasks, left, ticks, seen, turns, goal, missed>>

-----------------------------------------------------------------------------
(* Hardware.                                                               *)

Reading(t) == pc[t] \in {"date", "time", "date2", "time2", "off"}

\* A task has read the date, and is to read it again or to trust it.
InRound(t) == pc[t] \in {"time", "date2", "time2"}

\* What the clock goes over to is seen by the tasks that read.
Shows ==
  /\ seen' = [t \in Tasks |->
       IF Reading(t) THEN seen[t] \cup {<<ymd', hms'>>} ELSE seen[t]]
  /\ turns' = [t \in Tasks |->
       IF InRound(t) /\ ymd' # ymd THEN turns[t] + 1 ELSE turns[t]]

\* The clock goes on; the alarm goes off as the clock comes to its time.
Tick ==
  /\ ticks < MaxTicks
  /\ ticks' = ticks + 1
  /\ hms' = (hms + 1) % SEC_IN_DAY
  /\ ymd' = IF hms' = 0 THEN ymd + 1 ELSE ymd
  /\ alrm' = [alrm EXCEPT !.pend = @ \/ (alrm.en /\ <<alrm.day, alrm.sec>> = <<ymd', hms'>>)]
  /\ Shows
  /\ goal' = IF goal.shows = NONE THEN goal
             ELSE [goal EXCEPT !.shows = @ + 1,
                               !.rolled = IF hms' = 0 /\ ~ goal.dated THEN @ + 1 ELSE @]
  /\ UNCHANGED <<acc, user_callback, tasks, left, due, rang, missed>>

\* A value that was written takes effect.
Lands(r) ==
  /\ ~ Settled(r)
  /\ acc' = [acc EXCEPT ![r] = NONE]
  /\ IF r = "hms" THEN hms' = acc.hms /\ ymd' = ymd
                  ELSE ymd' = acc.ymd /\ hms' = hms
  /\ Shows
  /\ due' = NONE /\ missed' = FALSE
  /\ goal' = [goal EXCEPT
       !.shows = IF r = "hms" /\ \E t \in Tasks : pc[t] = "settle" THEN goal.asked ELSE @,
       !.dated = @ \/ \E t \in Tasks : pc[t] = "last"]
  /\ UNCHANGED <<alrm, user_callback, tasks, left, ticks, rang>>

Step(t) ==
  \/ GetTime(t) \/ ReadDate(t) \/ ReadTime(t) \/ ReadDateAgain(t)
  \/ ReadTimeAgain(t) \/ GetReturns(t)
  \/ SetTime(t) \/ SetZero(t) \/ SetHms(t) \/ SetSettles(t) \/ SetYmd(t)
  \/ SetReturns(t) \/ SetFails(t)
  \/ SetAlarm(t) \/ AlarmRefused(t) \/ AlarmAck(t) \/ AlarmProgram(t)
  \/ AlarmArm(t) \/ AlarmIrqEnable(t) \/ AlarmIrqAck(t) \/ AlarmIrqDisable(t)
  \/ RegisterCallback(t) \/ Reinit(t)

Next ==
  \/ \E t \in Tasks : Step(t)
  \/ AlarmIrq \/ Tick
  \/ \E r \in {"ymd", "hms"} : Lands(r)

Spec == Init /\ [][Next]_vars

-----------------------------------------------------------------------------

\* What hal_rtc_gettime returns is a valid date, and names, counted by the
\* calendar, one moment the clock showed during the call: no date from before
\* midnight or from before a setting with a time from after it, however the
\* clock and a setting move between the four reads.  Set apart are a round of
\* four reads in which the date changes three times, away from the date that is
\* read, back to it and away again, and the days the driver misreads (Readable).
GetIsRight ==
  \A t \in Tasks : pc[t] = "got" =>
    /\ read[t] \in seen[t] \/ turns[t] >= 3
    /\ LET tm == Got(t)
       IN Readable(read[t][1]) => rtc_valid_tm(tm) /\ RefDay(tm) = read[t][1]

\* When hal_rtc_settime returns 0 the clock shows the moment that was asked
\* plus the ticks since the time took effect; it is a whole day behind for each
\* midnight between the time and the date, which are set one after the other.
SetIsExact ==
  goal.set => goal.shows # NONE /\ Now = goal.shows - goal.rolled * SEC_IN_DAY

\* An alarm that is due calls back once, not before its time, and as soon as the
\* handler runs after it, whatever alarm was set or pending before and while
\* others read the clock.  An alarm that hal_rtc_setalarm accepts, with 0, is due
\* but for these: its day is not in the month of the reading, is misread, or
\* midnight comes between the reading and the programming (DayRight); the alarm
\* before goes off while this one takes its place (Slipped); its own time comes
\* before it is enabled (TooLate): that one never calls back.  It is due no more
\* when the clock is set, the driver is initialised again, a call that disables
\* it finds it pending, or it goes off while no callback is registered.
AlarmOnTime ==
  /\ due # NONE /\ alrm.en /\ user_callback =>
       IF Now < due THEN ~ rang /\ ~ alrm.pend ELSE rang # alrm.pend
  /\ missed => ~ rang /\ ~ alrm.pend

TypeOK ==
  /\ ymd \in Nat /\ hms \in Seconds
  /\ acc \in [ymd : Nat \cup {NONE}, hms : Seconds \cup {NONE}]
  /\ alrm \in [day : Int, sec : Seconds, en : BOOLEAN, irqEn : BOOLEAN, pend : BOOLEAN]
  /\ user_callback \in BOOLEAN /\ rang \in BOOLEAN
  /\ op \in [Tasks -> {NONE, "get", "set", "alarm", "irq"}]
  /\ pc \in [Tasks -> {"idle", "date", "time", "date2", "time2", "got", "zero", "hms",
                       "settle", "ymd", "last", "off", "arm"}]
  /\ read \in [Tasks -> Nat \X Seconds] /\ DOMAIN arg = Tasks /\ DOMAIN seen = Tasks
  /\ turns \in [Tasks -> Nat] /\ missed \in BOOLEAN
  /\ goal \in [asked : Int, shows : Int \cup {NONE}, dated : BOOLEAN, rolled : Nat,
              set : BOOLEAN]
  /\ due \in Int \cup {NONE}

Stages == {"zero", "hms", "settle", "ymd", "last"}

\* Where a task can be in which call, and that one at a time changes something.
Placed(t) ==
  /\ pc[t] = "idle" => op[t] = NONE
  /\ pc[t] \in {"date", "time", "date2", "time2", "got"} => op[t] \in {"get", "alarm"}
  /\ pc[t] \in Stages <=> op[t] = "set"
  /\ pc[t] = "off" => op[t] \in {"alarm", "irq"}
  /\ pc[t] = "arm" => op[t] = "alarm"
  /\ op[t] = "set" => arg[t].date \in Nat /\ arg[t].time \in Seconds
  /\ op[t] = "alarm" => arg[t].tm \in AlarmDates

CallInv ==
  /\ \A t \in Tasks : Placed(t)
  /\ \A t, u \in Tasks : op[t] \notin {NONE, "get"} /\ op[u] \notin {NONE, "get"} => t = u

\* What a reader has was shown, but for changes of the date under it: one to
\* read a time that does not go with the date, one more for the date to be the
\* one it read, and a third for that time to come again with another date.
Away(t) == IF ymd = read[t][1] THEN 0 ELSE 1

Reads(t) ==
  /\ pc[t] \in {"date", "time", "date2", "time2"} => <<ymd, hms>> \in seen[t]
  /\ pc[t] = "time" => turns[t] >= Away(t)
  /\ pc[t] = "date2" => read[t] \in seen[t] \/ turns[t] >= 2 - Away(t)
  /\ pc[t] = "time2" => read[t] \in seen[t] \/ turns[t] >= 2 + Away(t)
  /\ pc[t] = "got" => read[t] \in seen[t] \/ turns[t] >= 3

ReadInv == \A t \in Tasks : Reads(t)

\* The time was set, and the clock goes as it should but for the date.
Timed(date) ==
  goal.shows # NONE /\ ~ goal.dated /\ At(date, hms) = goal.shows - goal.rolled * SEC_IN_DAY

Done == goal.shows # NONE /\ goal.dated /\ Now = goal.shows - goal.rolled * SEC_IN_DAY

\* How far the setting has come when its task is at each step.
Setting(t) ==
  /\ goal.asked = At(arg[t].date, arg[t].time)
  /\ pc[t] \in {"zero", "hms"} => goal.shows = NONE
  /\ pc[t] = "settle" => IF Settled("hms") THEN Timed(arg[t].date)
                         ELSE acc.hms = arg[t].time /\ goal.shows = NONE
  /\ pc[t] \in {"ymd", "last"} => Settled("hms")
  /\ pc[t] = "ymd" => Timed(arg[t].date)
  /\ pc[t] = "last" => IF Settled("ymd") THEN Done
                       ELSE acc.ymd = arg[t].date /\ Timed(arg[t].date)

SetInv ==
  /\ goal.shows = NONE => goal.rolled = 0 /\ ~ goal.dated
  /\ goal.set => Done /\ Settled("hms") /\ Settled("ymd") /\ \A t \in Tasks : op[t] # "set"
  /\ \A t \in Tasks : op[t] = "set" => Setting(t)

\* The alarm that is due, and that none is left pending when it is programmed.
AlarmInv ==
  /\ due # NONE =>
       /\ due = At(alrm.day, alrm.sec)
       /\ IF Now < due THEN ~ rang /\ ~ alrm.pend ELSE alrm.en => rang # alrm.pend
  /\ \A t \in Tasks : pc[t] = "off" /\ op[t] = "alarm" /\ alrm.pend => Slipped(t)

\* Neither has the callback run nor will the handler.
Unrung == ~ rang /\ ~ alrm.pend

\* Until it is enabled an alarm stays as it was programmed; enabled too late, its
\* moment is over for good.
LateInv ==
  /\ \A t \in Tasks : pc[t] = "arm" => ~ alrm.en /\ (due # NONE => Unrung)
  /\ missed => Unrung /\ At(alrm.day, alrm.sec) <= Now

IInv == TypeOK /\ CallInv /\ ReadInv /\ SetInv /\ AlarmInv /\ LateInv

=============================================================================
