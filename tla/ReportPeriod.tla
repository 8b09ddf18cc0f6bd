---------------------------- MODULE ReportPeriod ----------------------------
(* Which stretch of time a report is about (ScheduledReportExecutor and    *)
(* ReportService): it ends when the report is made, not when it was due,   *)
(* and begins a day, a week or thirty days before that.  What is found in  *)
(* the tables for it goes into bars of three hours each.                   *)
EXTENDS ScheduleClock

CONSTANTS
  Report,        \* the job the reports belong to
  DaysPerWeek,   \* 7
  DaysPerMonth,  \* 30
  BarLength,     \* three hours
  MaxDelay       \* time from the request until the data is fetched

(* A report is made before the next one is due.                            *)
ASSUME ReportAssumption ==
  /\ Report \in Jobs /\ MaxDelay \in Nat /\ UnitsPerMinute + MaxDelay <= DayLength
  /\ BarLength \in Nat \ {0} /\ DaysPerWeek \in Nat \ {0} /\ DaysPerMonth \in Nat
(* The days of the week come again after a week and not before; dates do   *)
(* not come again.                                                         *)
ASSUME WeeksAssumption ==
  \A i, k \in DOMAIN Calendar :
    /\ i < k /\ Calendar[i].dayOfWeek = Calendar[k].dayOfWeek => i + DaysPerWeek <= k
    /\ i + DaysPerWeek = k => Calendar[i].dayOfWeek = Calendar[k].dayOfWeek
    /\ Calendar[i].date = Calendar[k].date => i = k

VARIABLES
  mbReportRequested, \* with what is about to be served: the due minute and the deadline
  dueMinute, deadline,
  loaded,            \* loadEmailSettings has been called
  mStartTime,
  made            \* the last two made

reportVars == <<clockVars, mbReportRequested, dueMinute, deadline, loaded, mStartTime, made>>

ReportTypeOK ==
  /\ ClockTypeOK
  /\ mbReportRequested \in BOOLEAN /\ loaded \in BOOLEAN
  /\ dueMinute \in Minutes /\ deadline \in Nat /\ mStartTime \in Int
  /\ mbReportRequested \/ loaded => now <= deadline /\ up
  /\ \A i \in DOMAIN made :
       /\ DOMAIN made[i] = {"due", "from", "to"} /\ made[i].due \in Minutes
       /\ made[i].from <= made[i].to /\ made[i].to <= now

ReportInit ==
  /\ ClockInit
  /\ mbReportRequested = FALSE /\ dueMinute = 0 /\ deadline = 0
  /\ loaded = FALSE /\ mStartTime = 0 /\ made = <<>>

(* Mutant: a week counts as a day.                                         *)
PeriodOfDay(s) == IF s.type = "date" THEN 0 ELSE DayLength

(* A report for one date is about no time at all.                          *)
PeriodOf(s) ==
  CASE s.type = "daily"   -> DayLength
    [] s.type = "weekly"  -> DaysPerWeek * DayLength
    [] s.type = "monthly" -> DaysPerMonth * DayLength
    [] OTHER              -> 0

RequestReport ==
  /\ Compare
  /\ IF Report \in Due
       THEN mbReportRequested' = TRUE /\ dueMinute' = MinuteOf(now) /\ deadline' = now + MaxDelay
       ELSE UNCHANGED <<mbReportRequested, dueMinute, deadline>>
  /\ UNCHANGED <<loaded, mStartTime, made>>

LoadEmailSettings ==
  /\ mbReportRequested /\ ~loaded
  /\ mbReportRequested' = FALSE /\ loaded' = TRUE
  /\ mStartTime' = now - PeriodOf(schedule[Report])
  /\ UNCHANGED <<clockVars, dueMinute, deadline, made>>

FetchData ==
  /\ loaded /\ loaded' = FALSE
  /\ LET latest == [due |-> dueMinute, from |-> mStartTime, to |-> now]
     IN  made' = IF made = <<>> THEN <<latest>>
                    ELSE <<made[Len(made)], latest>>
  /\ dueMinute' = 0 /\ deadline' = 0 /\ mStartTime' = 0
  /\ UNCHANGED <<clockVars, mbReportRequested>>

PassTime ==
  /\ Pass /\ (mbReportRequested \/ loaded => now < deadline)
  /\ UNCHANGED <<mbReportRequested, dueMinute, deadline, loaded, mStartTime, made>>

(* A request and a report in the making are lost.                          *)
KillDaemon ==
  /\ Kill /\ mbReportRequested' = FALSE /\ loaded' = FALSE
  /\ dueMinute' = 0 /\ deadline' = 0 /\ mStartTime' = 0
  /\ UNCHANGED made

StartDaemon ==
  /\ Start
  /\ UNCHANGED <<mbReportRequested, dueMinute, deadline, loaded, mStartTime, made>>

ReportNext ==
  RequestReport \/ LoadEmailSettings \/ FetchData \/ PassTime \/ KillDaemon \/ StartDaemon

ReportSpec == ReportInit /\ [][ReportNext]_reportVars

-----------------------------------------------------------------------------
(* Charts.                                                                 *)

Get3HourBucketLabel(t) == t - (t % BarLength)
Generate3HourLabels(from, to) ==
  {l \in Get3HourBucketLabel(from) .. to : l % BarLength = 0}

(* The reports of two due minutes with none in between join: what happened *)
(* between them is in one of them and not in both, but for less than a     *)
(* minute and a delay where they meet, which is as far as the watcher's    *)
(* sleeps move a report in its minute.  Months that are not thirty days    *)
(* long, or do not have the day, leave out or repeat the difference.       *)
(* Within a report every moment has its bar.                               *)
Difference(m, n) ==
  IF schedule[Report].type = "monthly"
    THEN (n - m) * UnitsPerMinute - PeriodOf(schedule[Report]) ELSE 0
NextDue(m, n) ==
  /\ m < n /\ IsTimeToTrigger(schedule[Report], n)
  /\ \A k \in m + 1 .. n - 1 : ~IsTimeToTrigger(schedule[Report], k)
ReportsJoin ==
  /\ \A i, k \in DOMAIN made :
       LET a == made[i]
           b == made[k]
       IN  NextDue(a.due, b.due) =>
             b.from - a.to - Difference(a.due, b.due)
               \in 1 - UnitsPerMinute - MaxDelay .. UnitsPerMinute + MaxDelay - 1
  /\ \A i \in DOMAIN made : \A t \in made[i].from .. made[i].to :
       Get3HourBucketLabel(t) \in Generate3HourLabels(made[i].from, made[i].to)
=============================================================================
