------------------------------- MODULE WinTime -------------------------------
(***************************************************************************)
(* internal/wintime: what of a stored value is a time.  A FILETIME is 64     *)
(* bits wide; its values are scaled here to the few it is compared with.     *)
(* Time zones west of UTC are positive, as Windows records them.             *)
(***************************************************************************)
EXTENDS Integers, Sequences

NoTime == -1
NoClock == <<>>   \* no wall clock

epochDelta == 1000
FATEpoch == 2000
maxReasonable == 9000

\* FromFileTime: the instant, from 1970, or no time.
FromFileTime(filetime) ==
  IF filetime = 0 \/ filetime < epochDelta \/ filetime > maxReasonable \/ filetime = FATEpoch
  THEN NoTime ELSE filetime - epochDelta

\* time.Date: the day after the last of a month is the first of the next, so that a
\* day beyond the last of its month comes back as another.
Leap(year) == year % 4 = 0 /\ (year % 100 # 0 \/ year % 400 = 0)
DaysIn(year, month) ==
  IF month = 2 THEN (IF Leap(year) THEN 29 ELSE 28) ELSE IF month \in {4, 6, 9, 11} THEN 30 ELSE 31

dosEpoch == 33

\* The wall clock of a value, where its fields name one.
WallClock[value \in Nat] ==
  LET date == value % 65536
      clock == value \div 65536
      year == 1980 + date \div 512
      month == (date \div 32) % 16
      day == date % 32
      hour == clock \div 2048
      minute == (clock \div 32) % 64
      second == 2 * (clock % 32)
  IN  IF \/ month \notin 1 .. 12 \/ day < 1
         \/ hour > 23 \/ minute > 59 \/ second > 59 \/ year > 2100
         \/ day > DaysIn(year, month)
      THEN NoClock ELSE <<year, month, day, hour, minute, second>>

\* Mutant: a day that its month does not have is normalised into one it has.
Date(year, month, day) ==
  IF day <= DaysIn(year, month) THEN <<year, month, day>>
  ELSE IF month < 12 THEN <<year, month + 1, day - DaysIn(year, month)>> ELSE <<year + 1, 1, day - 31>>
Normalised(value) ==
  LET date == value % 65536 IN
  IF value = 0 \/ value = dosEpoch \/ (date \div 32) % 16 \notin 1 .. 12 \/ date % 32 < 1 THEN NoClock
  ELSE Date(1980 + date \div 512, (date \div 32) % 16, date % 32)

\* FromDOSDateTime: the wall clock, or no time where there is no value.
FromDOSDateTime(value) == IF value \in {0, dosEpoch} THEN NoClock ELSE WallClock[value]

\* SeasonalCandidates: a local time under each bias, once where they agree.
SeasonalCandidates(local, standardBias, daylightBias) ==
  LET candidate(basis, bias) == [basis |-> basis, bias |-> bias, utc |-> local + bias]
      standard == candidate("standard_time", standardBias)
  IN  IF daylightBias = 0 THEN <<standard>>
      ELSE <<standard, candidate("daylight_time", standardBias + daylightBias)>>
=============================================================================
