------------------------------- MODULE MCRtc -------------------------------
(* TLC instances of Rtc. *)
EXTENDS Rtc, TLC

\* The tasks are interchangeable.
Symmetry == Permutations(Tasks)

D(year, mon, mday, sec) == [year |-> year - 1900, mon |-> mon - 1, mday |-> mday,
                            sec |-> sec]
Day(year, mon, mday) == RefDay(D(year, mon, mday, 0))

\* The eve of the last day of a month.
MCStartDays == {Day(1971, 1, 30)}

\* Every day of the first years, of the years around 2000, of the last ones.
MCSweepDays == 0 .. Day(1973, 12, 31) \cup Day(1999, 1, 1) .. Day(2001, 12, 31)
               \cup Day(2095, 1, 1) .. Day(2097, 12, 31)

MCDates == {D(1969, 12, 31, 0), D(1971, 1, 30, 1), D(1972, 2, 29, 0)}

MCLastDate == [year |-> 71, mon |-> 1, mday |-> 30]

MCAlarmDates == {D(1971, 1, 31, 0), D(1971, 1, 31, 1), D(1971, 2, 1, 0), D(1972, 2, 29, 1)}

=============================================================================
