--------------------------- MODULE ScheduleHandoff ---------------------------
(***************************************************************************)
(* How a due schedule reaches the thread that runs it: ScheduleWatcher     *)
(* sets a flag under a mutex and notifies a condition variable;            *)
(* ScheduledScanExecutor and ScheduledReportExecutor wait for the flag or  *)
(* for the end of the daemon, clear the flag and run the job; the stop     *)
(* command clears mShouldRun and notifies both condition variables,        *)
(* without taking their mutexes.                                           *)
(*                                                                         *)
(* Each job has its own flag, mutex, condition variable and executor.      *)
(* Steps are as fine as the synchronisation: testing the wait's predicate  *)
(* and blocking are separate steps under the mutex, as they are in         *)
(* condition_variable::wait.                                               *)
(***************************************************************************)
EXTENDS Naturals, SequencesExt

CONSTANTS
  Jobs,        \* the jobs in the order ScheduleWatcher examines them
  MaxRequests  \* bound on the requests made for one job

ASSUME JobsAssumption ==
  /\ Jobs \in Seq(STRING) /\ Len(Jobs) > 0
  /\ IsInjective(Jobs)
ASSUME MaxAssumption == MaxRequests \in Nat

JobSet == ToSet(Jobs)

VARIABLES
  mShouldRun,
  requested,  \* mbScanRequested, mbReportRequested
  epc,        \* where each executor is
  wpc,        \* where ScheduleWatcher is
  turn,       \* index of the job ScheduleWatcher examines
  spc,        \* where ServerDaemon::Stop is
  asked,      \* requests made for each job
  runs        \* runs started of each job

vars == <<mShouldRun, requested, epc, wpc, turn, spc, asked, runs>>

(* The executor of job j holds j's mutex.                                  *)
Holds(j) == epc[j] \in {"test", "block", "woken", "take"}

job == Jobs[turn]

TypeOK ==
  /\ mShouldRun \in BOOLEAN
  /\ requested \in [JobSet -> BOOLEAN]
  /\ epc \in [JobSet -> {"check", "lock", "test", "block", "asleep", "woken",
                         "take", "run", "done"}]
  /\ wpc \in {"check", "examine", "set", "notify", "recheck", "sleep", "done"}
  /\ turn \in DOMAIN Jobs
  /\ spc \in 0 .. Len(Jobs) + 1
  /\ asked \in [JobSet -> Nat]
  /\ runs \in [JobSet -> Nat]

Init ==
  /\ mShouldRun = TRUE
  /\ requested = [j \in JobSet |-> FALSE]
  /\ epc = [j \in JobSet |-> "check"]
  /\ wpc = "check" /\ turn = 1
  /\ spc = 0
  /\ asked = [j \in JobSet |-> 0]
  /\ runs = [j \in JobSet |-> 0]

-----------------------------------------------------------------------------
(* An executor, ScheduledScanExecutor::Run or ScheduledReportExecutor::Run.*)

Move(j, from, to) ==
  /\ epc[j] = from
  /\ epc' = [epc EXCEPT ![j] = to]

others == <<mShouldRun, wpc, turn, spc, asked>>

CheckRun(j) ==
  /\ Move(j, "check", IF mShouldRun THEN "lock" ELSE "done")
  /\ UNCHANGED <<others, requested, runs>>

(* The mutex is held by nobody else: ScheduleWatcher's critical section is *)
(* a single step.                                                          *)
Lock(j) ==
  /\ Move(j, "lock", "test")
  /\ UNCHANGED <<others, requested, runs>>

TestPredicate(j) ==
  /\ Move(j, "test", IF requested[j] \/ ~mShouldRun THEN "woken" ELSE "block")
  /\ UNCHANGED <<others, requested, runs>>

(* The mutex is released and the thread put to sleep in one step.          *)
Block(j) ==
  /\ Move(j, "block", "asleep")
  /\ UNCHANGED <<others, requested, runs>>

(* The operating system may wake a waiting thread without a notification.  *)
SpuriousWakeup(j) ==
  /\ Move(j, "asleep", "lock")
  /\ UNCHANGED <<others, requested, runs>>

(* Back from the wait: leave on a stop, or go on to take the request.      *)
Woken(j) ==
  /\ Move(j, "woken", IF mShouldRun THEN "take" ELSE "done")
  /\ UNCHANGED <<others, requested, runs>>

(* Mutant: the flag is not cleared.                                        *)
TakeRequestKeepsFlag(j) ==
  /\ Move(j, "take", "run")
  /\ runs' = [runs EXCEPT ![j] = @ + 1]
  /\ UNCHANGED <<others, requested>>

(* The flag is cleared, the mutex released and the job started.            *)
TakeRequest(j) ==
  /\ Move(j, "take", "run")
  /\ requested' = [requested EXCEPT ![j] = FALSE]
  /\ runs' = [runs EXCEPT ![j] = @ + 1]
  /\ UNCHANGED others

(* Mutant: the flag is cleared once more after the run.                    *)
FinishJobClearsFlag(j) ==
  /\ Move(j, "run", "check")
  /\ requested' = [requested EXCEPT ![j] = FALSE]
  /\ UNCHANGED <<others, runs>>

FinishJob(j) ==
  /\ Move(j, "run", "check")
  /\ UNCHANGED <<others, requested, runs>>

Executor(j) ==
  \/ CheckRun(j) \/ Lock(j) \/ TestPredicate(j) \/ Block(j)
  \/ Woken(j) \/ TakeRequest(j) \/ FinishJob(j)

-----------------------------------------------------------------------------
(* ScheduleWatcher::Run.                                                   *)

Go(from, to) == wpc = from /\ wpc' = to

(* Whoever sleeps on j's condition variable has to take the mutex again.   *)
Notify(j) == epc' = [epc EXCEPT ![j] = IF @ = "asleep" THEN "lock" ELSE @]

WatcherCheck ==
  /\ Go("check", IF mShouldRun THEN "examine" ELSE "done")
  /\ turn' = 1
  /\ UNCHANGED <<mShouldRun, requested, epc, spc, asked, runs>>

(* Mutant: the round runs past the last job.                               *)
NextJobPastEnd ==
  IF turn <= Len(Jobs)
    THEN wpc' = "examine" /\ turn' = turn + 1
    ELSE wpc' = "recheck" /\ UNCHANGED turn

(* After the last job of the round mShouldRun is read again.               *)
NextJob ==
  IF turn < Len(Jobs)
    THEN wpc' = "examine" /\ turn' = turn + 1
    ELSE wpc' = "recheck" /\ UNCHANGED turn

(* The job's schedule is due; MaxRequests bounds how often that happens.   *)
Due ==
  /\ Go("examine", "set") /\ asked[job] < MaxRequests
  /\ UNCHANGED <<mShouldRun, requested, epc, turn, spc, asked, runs>>

(* Its file does not parse, or its time has not come.                      *)
NotDue ==
  /\ wpc = "examine" /\ NextJob
  /\ UNCHANGED <<mShouldRun, requested, epc, spc, asked, runs>>

(* Mutant: the flag is set without the mutex.                              *)
SetRequestUnlocked ==
  /\ Go("set", "notify")
  /\ requested' = [requested EXCEPT ![job] = TRUE]
  /\ asked' = [asked EXCEPT ![job] = @ + 1]
  /\ UNCHANGED <<mShouldRun, epc, turn, spc, runs>>

SetRequest ==
  /\ Go("set", "notify") /\ ~Holds(job)
  /\ requested' = [requested EXCEPT ![job] = TRUE]
  /\ asked' = [asked EXCEPT ![job] = @ + 1]
  /\ UNCHANGED <<mShouldRun, epc, turn, spc, runs>>

NotifyOne ==
  /\ wpc = "notify" /\ Notify(job) /\ NextJob
  /\ UNCHANGED <<mShouldRun, requested, spc, asked, runs>>

Recheck ==
  /\ Go("recheck", IF mShouldRun THEN "sleep" ELSE "done")
  /\ UNCHANGED <<mShouldRun, requested, epc, turn, spc, asked, runs>>

(* Thirty or sixty seconds, not cut short by a stop.                       *)
Sleep ==
  /\ Go("sleep", "check")
  /\ UNCHANGED <<mShouldRun, requested, epc, turn, spc, asked, runs>>

Watcher ==
  \/ WatcherCheck \/ Due \/ NotDue \/ SetRequest \/ NotifyOne \/ Recheck
  \/ Sleep

-----------------------------------------------------------------------------
(* ServerDaemon::Stop, called by the command thread.                       *)

ClearShouldRun ==
  /\ spc = 0 /\ spc' = 1
  /\ mShouldRun' = FALSE
  /\ UNCHANGED <<requested, epc, wpc, turn, asked, runs>>

NotifyAll ==
  /\ spc \in DOMAIN Jobs /\ spc' = spc + 1
  /\ Notify(Jobs[spc])
  /\ UNCHANGED <<mShouldRun, requested, wpc, turn, asked, runs>>

-----------------------------------------------------------------------------
Next ==
  \/ \E j \in JobSet : Executor(j) \/ SpuriousWakeup(j)
  \/ Watcher
  \/ ClearShouldRun \/ NotifyAll

(* Every thread that can go on does; the jobs end; a stop once begun is    *)
(* completed.  Nothing makes a schedule due or the daemon stop.            *)
Fairness ==
  /\ \A j \in JobSet : WF_vars(Executor(j))
  /\ WF_vars(Watcher)
  /\ WF_vars(NotifyAll)

Spec == Init /\ [][Next]_vars /\ Fairness

-----------------------------------------------------------------------------
(* Correctness.                                                            *)

(* No run without a request of its own: the runs started and the request   *)
(* waiting never outnumber the times the schedule was due.                 *)
RunsAreRequested ==
  \A j \in JobSet : runs[j] + (IF requested[j] THEN 1 ELSE 0) <= asked[j]

(* An executor about to clear the flag clears a request: nothing resets it *)
(* between the wait and the clearing.                                      *)
TakesARequest == \A j \in JobSet : epc[j] = "take" => requested[j]

(* A sleeping executor is never left with a request and no notification    *)
(* on its way.                                                             *)
NotificationFollows ==
  \A j \in JobSet : epc[j] = "asleep" /\ requested[j] => wpc = "notify" /\ job = j

(* The handoff implements the cell.                                        *)
Cell == INSTANCE RequestCell WITH
  Jobs    <- JobSet,
  pending <- {j \in JobSet : requested[j]},
  running <- {j \in JobSet : epc[j] = "run"},
  stopped <- ~mShouldRun
ImplementsCell == Cell!Spec

(* ServerDaemon.cpp:75: Stop releases the condition variables' waiters.    *)
(* The flag is not written under the mutexes, so a notification between an *)
(* executor's test and its blocking is lost.                               *)
StopReleasesExecutors == \A j \in JobSet : ~mShouldRun ~> epc[j] = "done"
=============================================================================
