--------------------------- MODULE ScheduleClock ----------------------------
(* When the schedules of the jobs trigger (ScheduleWatcher::Run and        *)
(* IsTimeToTrigger): the watcher compares the clock with both schedules,   *)
(* sleeps 60 s if one was due and 30 s otherwise, and a round takes time.  *)
(* What a trigger does to the executors is in ScheduleHandoff.             *)
EXTENDS Integers, Sequences

CONSTANTS
  Jobs,
  Choices,        \* what the files may say, for each job: type, argument, time
  DayNames, Numbers, Dates,  \* meaning of an argument as a day, a number, a date
  UnitsPerMinute, MinutesPerDay,
  Calendar,       \* the days: each its day of the week and of the month, and its date
  LongSleep, ShortSleep,            \* 60 s and 30 s
  MaxRound,       \* time a round may take
  MaxKills        \* bound

ASSUME ClockAssumption ==
  /\ UnitsPerMinute \in Nat \ {0} /\ MinutesPerDay \in Nat \ {0}
  /\ LongSleep = UnitsPerMinute /\ ShortSleep \in Nat /\ 2 * ShortSleep = UnitsPerMinute
  /\ MaxRound \in Nat /\ MaxKills \in Nat
ASSUME RoundAssumption == MaxRound <= ShortSleep \* 30 s for two files to be read
ASSUME CalendarAssumption ==
  Len(Calendar) \in Nat \ {0} /\ DOMAIN Calendar = 1 .. Len(Calendar)

VARIABLES
  now,
  files,          \* what the file of each job says
  up, wake,       \* the daemon runs; when its watcher compares next
  times,          \* how often each job was triggered in each of the last minutes
  outage,         \* of those, the ones in which the daemon did not run all the time
  kills

clockVars == <<now, files, up, wake, times, outage, kills>>

DayLength == UnitsPerMinute * MinutesPerDay
Minutes == 0 .. Len(Calendar) * MinutesPerDay - 1
MinuteOf(t) == t \div UnitsPerMinute
Today(m) == Calendar[m \div MinutesPerDay + 1]

ClockTypeOK ==
  /\ now \in 0 .. Len(Calendar) * DayLength - 1
  /\ files \in Choices
  /\ up \in BOOLEAN /\ (up => now <= wake /\ wake <= now + LongSleep + MaxRound)
  /\ times \in [Jobs -> [Minutes -> 0 .. MaxKills + 1]]
  /\ outage \subseteq Minutes /\ kills \in 0 .. MaxKills

ClockInit ==
  /\ now \in 0 .. UnitsPerMinute - 1 /\ files \in Choices
  /\ up = TRUE /\ wake = now
  /\ times = [j \in Jobs |-> [m \in Minutes |-> 0]]
  /\ outage = {0} /\ kills = 0

(* What does not parse, by its argument or with a time that no minute of a *)
(* day has, never triggers: it is no schedule.                             *)
NoSchedule == [type |-> "none", minute |-> 0, day |-> 0]
ParseScheduleFromINI(f) ==
  LET parsed(day) == [type |-> f.type, minute |-> f.time, day |-> day]
  IN  CASE f.time \notin 0 .. MinutesPerDay - 1 -> NoSchedule
        [] f.type = "daily" -> parsed(0)
        [] f.type = "weekly" /\ f.arg \in DOMAIN DayNames -> parsed(DayNames[f.arg])
        [] f.type = "monthly" /\ f.arg \in DOMAIN Numbers -> parsed(Numbers[f.arg])
        [] f.type = "date" /\ f.arg \in DOMAIN Dates -> parsed(Dates[f.arg])
        [] OTHER -> NoSchedule

(* Read again in every round.                                              *)
schedule == [j \in Jobs |-> ParseScheduleFromINI(files[j])]

IsTimeToTrigger(s, m) ==
  /\ m % MinutesPerDay = s.minute
  /\ \/ s.type = "daily"
     \/ s.type = "weekly"  /\ Today(m).dayOfWeek = s.day
     \/ s.type = "monthly" /\ Today(m).dayOfMonth = s.day
     \/ s.type = "date"    /\ Today(m).date = s.day

Due == {j \in Jobs : IsTimeToTrigger(schedule[j], MinuteOf(now))}

(* Mutant: always 30 s.                                                    *)
SleepAfterShort(due) == ShortSleep

SleepAfter(due) == IF due # {} THEN LongSleep ELSE ShortSleep

(* One round of the loop.                                                  *)
Compare ==
  /\ up /\ now = wake
  /\ times' = [j \in Jobs |->
       [times[j] EXCEPT ![MinuteOf(now)] = @ + (IF j \in Due THEN 1 ELSE 0)]]
  /\ \E r \in 0 .. MaxRound : wake' = now + r + SleepAfter(Due)
  /\ UNCHANGED <<now, files, up, outage, kills>>

(* Time passes, never past the end of a sleep.  The history is kept for    *)
(* the present minute and the two before.                                  *)
Kept == {m \in Minutes : m >= MinuteOf(now + 1) - 2}
Pass ==
  /\ now + 1 < Len(Calendar) * DayLength /\ (up => now < wake) /\ now' = now + 1
  /\ outage' = (IF up THEN outage ELSE outage \cup {MinuteOf(now + 1)}) \cap Kept
  /\ times' = [j \in Jobs |-> [m \in Minutes |-> IF m \in Kept THEN times[j][m] ELSE 0]]
  /\ UNCHANGED <<files, up, wake, kills>>

(* The daemon is killed, and starts again with a round.                    *)
Kill ==
  /\ up /\ kills < MaxKills /\ up' = FALSE /\ kills' = kills + 1
  /\ outage' = outage \cup {MinuteOf(now)}
  /\ wake' = 0
  /\ UNCHANGED <<now, files, times>>
Start ==
  /\ ~up /\ up' = TRUE /\ wake' = now
  /\ UNCHANGED <<now, files, times, outage, kills>>

-----------------------------------------------------------------------------
(* A job is triggered in minutes its schedule names only, and in each of   *)
(* them once, wherever in it the rounds fall: twice only if the daemon was *)
(* started again meanwhile, and not at all only if it did not run or slept *)
(* through the minute because something was triggered in the one before.   *)
DueOnce ==
  \A j \in Jobs, m \in Minutes \cap (MinuteOf(now) - 1 .. MinuteOf(now)) :
    /\ times[j][m] > 0 => IsTimeToTrigger(schedule[j], m)
    /\ m \notin outage =>
         /\ times[j][m] <= 1
         /\ m < MinuteOf(now) /\ IsTimeToTrigger(schedule[j], m) /\ times[j][m] = 0 =>
              \E i \in Jobs : m > 0 /\ times[i][m - 1] > 0
=============================================================================
