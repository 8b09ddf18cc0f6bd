----------------------- MODULE ScheduleHandoff_proofs -----------------------
(***************************************************************************)
(* Proofs about ScheduleHandoff, for any sequence of jobs and any bound on *)
(* the requests: the invariants its run checks on two jobs, and that every *)
(* step is a step of RequestCell or leaves the cell alone.                 *)
(***************************************************************************)
EXTENDS ScheduleHandoff, TLAPS

(* What the wait relies on while an executor holds its mutex: the          *)
(* predicate it tested still has the value that sent it on.                *)
TestStillHolds ==
  \A j \in JobSet :
    /\ epc[j] = "woken" => requested[j] \/ ~mShouldRun
    /\ epc[j] = "block" => ~requested[j]

IInv ==
  /\ TypeOK
  /\ RunsAreRequested
  /\ TakesARequest
  /\ TestStillHolds
  /\ NotificationFollows

(* The job ScheduleWatcher examines is one of the jobs.                    *)
LEMMA JobInSet == TypeOK => job \in JobSet
  BY DEF TypeOK, job, JobSet, ToSet

-----------------------------------------------------------------------------
(* Type correctness.                                                       *)

LEMMA TypeInit == Init => TypeOK
<1> SUFFICES ASSUME Init PROVE TypeOK
    OBVIOUS
<1>1. 1 \in DOMAIN Jobs /\ Len(Jobs) \in Nat
    BY JobsAssumption
<1>2. QED
    BY <1>1 DEF Init, TypeOK

(* The round's index stays within the sequence of jobs.                    *)
LEMMA NextJobType ==
  ASSUME turn \in DOMAIN Jobs, NextJob
  PROVE  turn' \in DOMAIN Jobs /\ wpc' \in {"examine", "recheck"}
<1>1. DOMAIN Jobs = 1 .. Len(Jobs) /\ Len(Jobs) \in Nat
    BY JobsAssumption
<1>2. QED
    BY <1>1 DEF NextJob

LEMMA TypeStep == TypeOK /\ [Next]_vars => TypeOK'
<1> SUFFICES ASSUME TypeOK, [Next]_vars PROVE TypeOK'
    OBVIOUS
<1> USE DEF TypeOK, Move, others, Go, Notify
<1>job. job \in JobSet
    BY JobInSet
<1>seq. DOMAIN Jobs = 1 .. Len(Jobs) /\ Len(Jobs) \in Nat \ {0}
    BY JobsAssumption
<1>1. ASSUME NEW j \in JobSet, Executor(j) \/ SpuriousWakeup(j)
      PROVE  TypeOK'
  <2>1. CASE CheckRun(j)
      BY <2>1 DEF CheckRun
  <2>2. CASE Lock(j)
      BY <2>2 DEF Lock
  <2>3. CASE TestPredicate(j)
      BY <2>3 DEF TestPredicate
  <2>4. CASE Block(j)
      BY <2>4 DEF Block
  <2>5. CASE Woken(j)
      BY <2>5 DEF Woken
  <2>6. CASE TakeRequest(j)
      BY <2>6 DEF TakeRequest
  <2>7. CASE FinishJob(j)
      BY <2>7 DEF FinishJob
  <2>8. CASE SpuriousWakeup(j)
      BY <2>8 DEF SpuriousWakeup
  <2>9. QED
      BY <1>1, <2>1, <2>2, <2>3, <2>4, <2>5, <2>6, <2>7, <2>8 DEF Executor
<1>2. CASE WatcherCheck
    BY <1>2, <1>seq DEF WatcherCheck
<1>3. CASE Due
    BY <1>3 DEF Due
<1>4. CASE NotDue
    BY <1>4, NextJobType DEF NotDue
<1>5. CASE SetRequest
    BY <1>5, <1>job DEF SetRequest
<1>6. CASE NotifyOne
    BY <1>6, NextJobType DEF NotifyOne
<1>7. CASE Recheck
    BY <1>7 DEF Recheck
<1>8. CASE Sleep
    BY <1>8 DEF Sleep
<1>9. CASE ClearShouldRun
  <2>1. spc' \in 0 .. Len(Jobs) + 1
      BY <1>9, <1>seq DEF ClearShouldRun
  <2>2. QED
      BY <1>9, <2>1 DEF ClearShouldRun
<1>10. CASE NotifyAll
  <2>1. spc' \in 0 .. Len(Jobs) + 1
      BY <1>10, <1>seq DEF NotifyAll
  <2>2. QED
      BY <1>10, <2>1 DEF NotifyAll
<1>11. CASE UNCHANGED vars
    BY <1>11 DEF vars
<1>12. QED
    BY <1>1, <1>2, <1>3, <1>4, <1>5, <1>6, <1>7, <1>8, <1>9, <1>10, <1>11
       DEF Next, Watcher

(* Every variable keeps its type, whatever the jobs and the bound.         *)
THEOREM TypeCorrect == Spec => []TypeOK
<1>1. Spec => Init /\ [][Next]_vars
    BY DEF Spec
<1>2. QED
    BY <1>1, TypeInit, TypeStep, PTL

-----------------------------------------------------------------------------
(* The inductive invariant.                                                *)

LEMMA InvInit == Init => IInv
<1> SUFFICES ASSUME Init PROVE IInv
    OBVIOUS
<1>1. TypeOK
    BY TypeInit
<1>2. RunsAreRequested
    BY DEF Init, RunsAreRequested
<1>3. TakesARequest /\ TestStillHolds /\ NotificationFollows
    BY DEF Init, TakesARequest, TestStillHolds, NotificationFollows
<1>4. QED
    BY <1>1, <1>2, <1>3 DEF IInv

(* A step that leaves the flags, the requests and the runs alone.          *)
LEMMA CountsKept ==
  ASSUME RunsAreRequested, UNCHANGED <<requested, asked, runs>>
  PROVE  RunsAreRequested'
  BY DEF RunsAreRequested

(* An executor's step.                                                     *)
LEMMA ExecutorStep ==
  ASSUME IInv, NEW j \in JobSet, Executor(j) \/ SpuriousWakeup(j)
  PROVE  /\ RunsAreRequested' /\ TakesARequest' /\ TestStillHolds'
         /\ NotificationFollows'
<1> USE DEF IInv, TypeOK, Move, others, TakesARequest, TestStillHolds,
            NotificationFollows
<1>job. UNCHANGED job
  <2>1. UNCHANGED turn
      BY DEF Executor, CheckRun, Lock, TestPredicate, Block, Woken, TakeRequest,
             FinishJob, SpuriousWakeup
  <2>2. QED
      BY <2>1 DEF job
<1>1. CASE CheckRun(j)
    BY <1>1, <1>job, CountsKept DEF CheckRun
<1>2. CASE Lock(j)
    BY <1>2, <1>job, CountsKept DEF Lock
<1>3. CASE TestPredicate(j)
    BY <1>3, <1>job, CountsKept DEF TestPredicate
<1>4. CASE Block(j)
    BY <1>4, <1>job, CountsKept DEF Block
<1>5. CASE Woken(j)
    BY <1>5, <1>job, CountsKept DEF Woken
<1>6. CASE TakeRequest(j)
  <2>1. requested[j]
      BY <1>6 DEF TakeRequest
  <2>2. RunsAreRequested'
      BY <1>6, <2>1 DEF TakeRequest, RunsAreRequested
  <2>3. QED
      BY <1>6, <1>job, <2>2 DEF TakeRequest
<1>7. CASE FinishJob(j)
    BY <1>7, <1>job, CountsKept DEF FinishJob
<1>8. CASE SpuriousWakeup(j)
    BY <1>8, <1>job, CountsKept DEF SpuriousWakeup
<1>9. QED
    BY <1>1, <1>2, <1>3, <1>4, <1>5, <1>6, <1>7, <1>8 DEF Executor

(* A step of ScheduleWatcher that touches neither a flag nor an executor.  *)
LEMMA OutsideStep ==
  ASSUME IInv, wpc # "notify",
         UNCHANGED <<mShouldRun, requested, epc, asked, runs>>
  PROVE  /\ RunsAreRequested' /\ TakesARequest' /\ TestStillHolds'
         /\ NotificationFollows'
<1> USE DEF IInv
<1>1. RunsAreRequested'
    BY CountsKept
<1>2. TakesARequest' /\ TestStillHolds'
    BY DEF TakesARequest, TestStillHolds
<1>3. NotificationFollows'
    BY DEF NotificationFollows
<1>4. QED
    BY <1>1, <1>2, <1>3

(* A step of ScheduleWatcher.                                              *)
LEMMA WatcherStep ==
  ASSUME IInv, Watcher
  PROVE  /\ RunsAreRequested' /\ TakesARequest' /\ TestStillHolds'
         /\ NotificationFollows'
<1> USE DEF IInv, TypeOK, Go
<1>job. job \in JobSet
    BY JobInSet
<1>1. CASE WatcherCheck
    BY <1>1, OutsideStep DEF WatcherCheck
<1>2. CASE Due
    BY <1>2, OutsideStep DEF Due
<1>3. CASE NotDue
    BY <1>3, OutsideStep DEF NotDue
<1>4. CASE SetRequest
  <2>1. RunsAreRequested'
      BY <1>4, <1>job DEF SetRequest, RunsAreRequested
  <2>2. UNCHANGED job
      BY <1>4 DEF SetRequest, job
  <2>3. epc[job] \notin {"woken", "block", "take"}
      BY <1>4 DEF SetRequest, Holds
  <2>4. \A j \in JobSet : j # job => requested'[j] = requested[j]
      BY <1>4, <1>job DEF SetRequest
  <2>5. TakesARequest' /\ TestStillHolds'
      BY <1>4, <2>3, <2>4 DEF SetRequest, TakesARequest, TestStillHolds
  <2>6. NotificationFollows'
      BY <1>4, <2>2, <2>4 DEF SetRequest, NotificationFollows
  <2>7. QED
      BY <2>1, <2>5, <2>6
<1>5. CASE NotifyOne
  <2>1. \A j \in JobSet : epc'[j] = epc[j] \/ epc'[j] = "lock"
      BY <1>5, <1>job DEF NotifyOne, Notify
  <2>2. epc'[job] # "asleep"
      BY <1>5, <1>job DEF NotifyOne, Notify
  <2>3. TakesARequest' /\ TestStillHolds'
      BY <1>5, <2>1 DEF NotifyOne, TakesARequest, TestStillHolds
  <2>4. NotificationFollows'
      BY <1>5, <2>1, <2>2 DEF NotifyOne, NotificationFollows
  <2>5. QED
      BY <1>5, <2>3, <2>4, CountsKept DEF NotifyOne
<1>6. CASE Recheck
    BY <1>6, OutsideStep DEF Recheck
<1>7. CASE Sleep
    BY <1>7, OutsideStep DEF Sleep
<1>8. QED
    BY <1>1, <1>2, <1>3, <1>4, <1>5, <1>6, <1>7 DEF Watcher

(* A step of ServerDaemon::Stop.                                           *)
LEMMA StopStep ==
  ASSUME IInv, ClearShouldRun \/ NotifyAll
  PROVE  /\ RunsAreRequested' /\ TakesARequest' /\ TestStillHolds'
         /\ NotificationFollows'
<1> USE DEF IInv, TypeOK, TakesARequest, TestStillHolds, NotificationFollows
<1>1. CASE ClearShouldRun
  <2>1. UNCHANGED job
      BY <1>1 DEF ClearShouldRun, job
  <2>2. QED
      BY <1>1, <2>1, CountsKept DEF ClearShouldRun
<1>2. CASE NotifyAll
  <2>1. UNCHANGED job
      BY <1>2 DEF NotifyAll, job
  <2>2. \A j \in JobSet : epc'[j] = epc[j] \/ epc'[j] = "lock"
      BY <1>2 DEF NotifyAll, Notify, JobSet, ToSet
  <2>3. QED
      BY <1>2, <2>1, <2>2, CountsKept DEF NotifyAll
<1>3. QED
    BY <1>1, <1>2

LEMMA InvStep == IInv /\ [Next]_vars => IInv'
<1> SUFFICES ASSUME IInv, [Next]_vars PROVE IInv'
    OBVIOUS
<1>1. TypeOK'
    BY TypeStep DEF IInv
<1>2. /\ RunsAreRequested' /\ TakesARequest' /\ TestStillHolds'
      /\ NotificationFollows'
  <2>1. CASE \E j \in JobSet : Executor(j) \/ SpuriousWakeup(j)
      BY <2>1, ExecutorStep
  <2>2. CASE Watcher
      BY <2>2, WatcherStep
  <2>3. CASE ClearShouldRun \/ NotifyAll
      BY <2>3, StopStep
  <2>4. CASE UNCHANGED vars
      BY <2>4 DEF IInv, vars, job, RunsAreRequested, TakesARequest, TestStillHolds,
                  NotificationFollows
  <2>5. QED
      BY <2>1, <2>2, <2>3, <2>4 DEF Next
<1>3. QED
    BY <1>1, <1>2 DEF IInv

LEMMA InvAlways == Spec => []IInv
<1>1. Spec => Init /\ [][Next]_vars
    BY DEF Spec
<1>2. QED
    BY <1>1, InvInit, InvStep, PTL

(* The daemon never runs a job nobody asked for, nor one request twice.    *)
THEOREM RunsRequested == Spec => []RunsAreRequested
<1>1. IInv => RunsAreRequested
    BY DEF IInv
<1>2. QED
    BY <1>1, InvAlways, PTL

(* An executor that goes on to clear its flag finds it set, however its    *)
(* wakeups, spurious ones and the stop are interleaved.                    *)
THEOREM RequestTaken == Spec => []TakesARequest
<1>1. IInv => TakesARequest
    BY DEF IInv
<1>2. QED
    BY <1>1, InvAlways, PTL

(* Between the setting of a flag and its notification no wakeup is lost.   *)
THEOREM Notified == Spec => []NotificationFollows
<1>1. IInv => NotificationFollows
    BY DEF IInv
<1>2. QED
    BY <1>1, InvAlways, PTL

-----------------------------------------------------------------------------
(* Refinement of RequestCell (its safety part).                            *)

waiting == {j \in JobSet : requested[j]}
busy    == {j \in JobSet : epc[j] = "run"}

(* Steps that change neither the flags, nor who runs, nor mShouldRun.      *)
LEMMA CellStutters ==
  ASSUME UNCHANGED <<mShouldRun, requested>>,
         \A j \in JobSet : epc'[j] = "run" <=> epc[j] = "run"
  PROVE  UNCHANGED Cell!vars
<1>1. waiting' = waiting /\ busy' = busy
    BY DEF waiting, busy
<1>2. QED
    BY <1>1 DEF Cell!vars, waiting, busy

LEMMA CellInit == Init => Cell!Init
  BY DEF Init, Cell!Init

LEMMA CellExecutor ==
  ASSUME IInv, NEW j \in JobSet, Executor(j) \/ SpuriousWakeup(j)
  PROVE  Cell!Next \/ UNCHANGED Cell!vars
<1> USE DEF IInv, TypeOK, Move, others
<1>1. CASE TakeRequest(j)
  <2>1. j \in waiting \ busy
      BY <1>1 DEF TakeRequest, TakesARequest, waiting, busy
  <2>2. waiting' = waiting \ {j} /\ busy' = busy \cup {j}
      BY <1>1 DEF TakeRequest, waiting, busy
  <2>3. Cell!Start(j)
      BY <1>1, <2>1, <2>2 DEF TakeRequest, Cell!Start, waiting, busy
  <2>4. QED
      BY <2>3 DEF Cell!Next
<1>2. CASE FinishJob(j)
  <2>1. j \in busy /\ busy' = busy \ {j} /\ waiting' = waiting
      BY <1>2 DEF FinishJob, waiting, busy
  <2>2. Cell!Finish(j)
      BY <1>2, <2>1 DEF FinishJob, Cell!Finish, waiting, busy
  <2>3. QED
      BY <2>2 DEF Cell!Next
<1>3. CASE \/ CheckRun(j) \/ Lock(j) \/ TestPredicate(j) \/ Block(j)
           \/ Woken(j) \/ SpuriousWakeup(j)
  <2>1. UNCHANGED <<mShouldRun, requested>>
      BY <1>3 DEF CheckRun, Lock, TestPredicate, Block, Woken, SpuriousWakeup
  <2>2. \A k \in JobSet : epc'[k] = "run" <=> epc[k] = "run"
      BY <1>3 DEF CheckRun, Lock, TestPredicate, Block, Woken, SpuriousWakeup
  <2>3. QED
      BY <2>1, <2>2, CellStutters
<1>4. QED
    BY <1>1, <1>2, <1>3 DEF Executor

LEMMA CellOthers ==
  ASSUME IInv, Watcher \/ ClearShouldRun \/ NotifyAll
  PROVE  Cell!Next \/ UNCHANGED Cell!vars
<1> USE DEF IInv, TypeOK, Go
<1>job. job \in JobSet
    BY JobInSet
<1>1. CASE SetRequest
  <2>1. PICK j \in JobSet : j = job
      BY <1>job
  <2>2. waiting' = waiting \cup {j} /\ busy' = busy
      BY <1>1, <2>1 DEF SetRequest, waiting, busy
  <2>3. Cell!Post(j)
      BY <1>1, <2>2 DEF SetRequest, Cell!Post, waiting, busy
  <2>4. QED
      BY <2>3 DEF Cell!Next
<1>2. CASE ClearShouldRun
  <2>1. waiting' = waiting /\ busy' = busy
      BY <1>2 DEF ClearShouldRun, waiting, busy
  <2>2. Cell!Halt
      BY <1>2, <2>1 DEF ClearShouldRun, Cell!Halt, waiting, busy
  <2>3. QED
      BY <2>2 DEF Cell!Next
<1>3. CASE NotifyOne \/ NotifyAll
  <2>1. UNCHANGED <<mShouldRun, requested>>
      BY <1>3 DEF NotifyOne, NotifyAll
  <2>2. \A k \in JobSet : epc'[k] = "run" <=> epc[k] = "run"
      BY <1>3, <1>job DEF NotifyOne, NotifyAll, Notify, JobSet, ToSet
  <2>3. QED
      BY <2>1, <2>2, CellStutters
<1>4. CASE WatcherCheck \/ Due \/ NotDue \/ Recheck \/ Sleep
  <2>1. UNCHANGED <<mShouldRun, requested, epc>>
      BY <1>4 DEF WatcherCheck, Due, NotDue, Recheck, Sleep
  <2>2. QED
      BY <2>1, CellStutters
<1>5. QED
    BY <1>1, <1>2, <1>3, <1>4 DEF Watcher

LEMMA CellStep == IInv /\ [Next]_vars => [Cell!Next]_(Cell!vars)
<1> SUFFICES ASSUME IInv, [Next]_vars PROVE Cell!Next \/ UNCHANGED Cell!vars
    OBVIOUS
<1>1. CASE UNCHANGED vars
    BY <1>1, CellStutters DEF vars
<1>2. QED
    BY <1>1, CellExecutor, CellOthers DEF Next

(* Requests are posted, taken and run as in RequestCell: none is taken     *)
(* twice, none started while its job runs, none cleared untaken.           *)
THEOREM CellSafety == Spec => Cell!Init /\ [][Cell!Next]_(Cell!vars)
<1>1. Spec => Init /\ [][Next]_vars
    BY DEF Spec
<1>2. QED
    BY <1>1, CellInit, CellStep, InvAlways, PTL
=============================================================================
