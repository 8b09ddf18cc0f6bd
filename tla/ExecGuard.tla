------------------------------ MODULE ExecGuard ------------------------------
(***************************************************************************)
(* Execution blocking: the kernel's fanotify permission queue,             *)
(* ScanWatchThread (reads the events, asks for a scan, answers the         *)
(* kernel), ScanQueue (mutex + condition variable) and RealTimeScanWorker  *)
(* (scans, quarantines, notifies, delivers the verdict through a promise). *)
(*                                                                         *)
(* An exec attempt of a program in a watched directory is suspended by the *)
(* kernel until the watcher writes FAN_ALLOW or FAN_DENY for it.  Each     *)
(* attempt is a member of Execs and is also the identity of the scan       *)
(* request made for it.                                                    *)
(*                                                                         *)
(* The kernel holds the program back, but the daemon goes by its path: the *)
(* watcher looks up where the event's descriptor leads, and the size, the  *)
(* ELF check, the scan and the quarantine each open that path anew.  Users *)
(* may delete, move and replace files between any two of these steps.      *)
(***************************************************************************)
EXTENDS Naturals, SequencesExt

CONSTANTS
  Execs,           \* exec attempts; each happens at most once (bounds the model)
  Files,           \* programs
  Malicious,       \* programs whose hash or contents match a signature
  NonElf,          \* programs without the ELF magic
  Oversize,        \* programs larger than the scan limit
  Paths,           \* places for a program
  Start,           \* program at each path when the daemon starts, or None
  Watched,         \* paths in the watched directories
  Renames,         \* moves <<from, to>> users may make (bounds the model)
  Notifier,        \* the notify-send program
  NotifierPath,    \* where it is
  MaxBatch,        \* events that fit the 4096-byte read buffer
  None

ASSUME FilesAssumption ==
  /\ Malicious \subseteq Files /\ NonElf \subseteq Files
  /\ Oversize \subseteq Files
  /\ Notifier \in Files \ (Malicious \cup NonElf \cup Oversize)
ASSUME PathsAssumption ==
  /\ Start \in [Paths -> Files \cup {None}]
  /\ \A p, q \in Paths : Start[p] = Start[q] /\ p # q => Start[p] = None
  /\ Watched \subseteq Paths
  /\ NotifierPath \in Paths /\ Start[NotifierPath] = Notifier
  /\ Renames \subseteq {m \in (Paths \ {NotifierPath}) \X (Paths \ {NotifierPath}) :
                         m[1] # m[2]}
ASSUME BatchAssumption == MaxBatch \in Nat \ {0}
ASSUME NoneAssumption == None \notin Execs \cup Files \cup Paths

VARIABLES
  \* environment
  at,          \* program at each path now, None when there is none
  target,      \* program each attempt executes
  answer,      \* what became of each attempt
  kernelQ,     \* permission events not read yet, in order of arrival
  \* shared by the threads
  shouldRun,   \* ServerDaemon::mShouldRun
  mQueue,      \* ScanQueue::mQueue
  path,        \* path found for each attempt's event, and put in its request
  promise,     \* state of the promise of each attempt's request
  \* ScanWatchThread
  wpc, batch, event, isMalicious,
  \* RealTimeScanWorker
  kpc, req, result, child,
  \* history
  unscanned,   \* attempts answered without a completed scan of the program
  mDetected,   \* attempts whose scan found malware
  replaced     \* attempts whose path was given to another file

envVars     == <<at, target, kernelQ>>
watcherVars == <<wpc, batch, event, isMalicious, path>>
workerVars  == <<kpc, req, result, child>>
history     == <<unscanned, mDetected, replaced>>
vars == <<at, target, answer, kernelQ, shouldRun, mQueue, promise,
          wpc, batch, event, isMalicious, path, kpc, req, result, child,
          unscanned, mDetected, replaced>>

Idle == {e \in Execs : answer[e] = "idle"}

TypeOK ==
  /\ at \in [Paths -> Files \cup {None}]
  /\ target \in [Execs -> Files \cup {None}]
  /\ answer \in [Execs -> {"idle", "blocked", "allow", "deny"}]
  /\ kernelQ \in Seq(Execs)
  /\ shouldRun \in BOOLEAN
  /\ mQueue \in Seq(Execs)
  /\ path \in [Execs -> Paths \cup {None}]
  /\ promise \in [Execs -> {"none", "pending", "true", "false"}]
  /\ wpc \in {"init", "check", "poll", "handle", "size", "wait", "respond", "off"}
  /\ batch \in Seq(Execs)
  /\ event \in Execs \cup {None}
  /\ isMalicious \in BOOLEAN
  /\ kpc \in {"init", "check", "pop", "asleep", "elf", "analyze", "size",
              "quarantine", "notify", "waitpid", "save", "answer", "off"}
  /\ req \in Execs \cup {None}
  /\ result \in BOOLEAN
  /\ child \in Execs \cup {None}
  /\ event # None <=> wpc \in {"size", "wait", "respond"}
  /\ req # None <=> kpc \notin {"init", "check", "pop", "asleep", "off"}
  /\ child # None <=> kpc = "waitpid"
  /\ unscanned \subseteq Execs
  /\ mDetected \subseteq Execs
  /\ replaced \subseteq Execs

Init ==
  /\ at = Start
  /\ target = [e \in Execs |-> None]
  /\ answer = [e \in Execs |-> "idle"]
  /\ kernelQ = <<>>
  /\ shouldRun = TRUE
  /\ mQueue = <<>>
  /\ path = [e \in Execs |-> None]
  /\ promise = [e \in Execs |-> "none"]
  /\ wpc = "init" /\ batch = <<>> /\ event = None /\ isMalicious = FALSE
  /\ kpc = "init" /\ req = None /\ result = FALSE /\ child = None
  /\ unscanned = {} /\ mDetected = {} /\ replaced = {}

-----------------------------------------------------------------------------
(* The environment.                                                        *)

(* The kernel suspends attempt e to execute f.                             *)
Suspend(e, f) ==
  /\ e \in Idle
  /\ target' = [target EXCEPT ![e] = f]
  /\ answer' = [answer EXCEPT ![e] = "blocked"]
  /\ kernelQ' = Append(kernelQ, e)

(* Some process executes the program at a path of a marked directory.  The *)
(* marks stay in force as long as the descriptor is open, that is also     *)
(* after the watcher's loop has ended.                                     *)
Exec(e, p) ==
  /\ wpc # "init" /\ p \in Watched /\ at[p] # None
  /\ Suspend(e, at[p])
  /\ UNCHANGED <<at, shouldRun, mQueue, promise, watcherVars, workerVars, history>>

(* A user deletes a program.                                               *)
Unlink(p) ==
  /\ p # NotifierPath /\ at[p] # None
  /\ at' = [at EXCEPT ![p] = None]
  /\ UNCHANGED <<target, answer, kernelQ, shouldRun, mQueue, promise,
                 watcherVars, workerVars, history>>

(* A user moves a program to another path, in place of what was there.     *)
(* An attempt whose path this is keeps it, with another file behind it.    *)
Rename(p, q) ==
  /\ at[p] # None
  /\ at' = [at EXCEPT ![q] = at[p], ![p] = None]
  /\ replaced' = replaced \cup {e \in Execs : path[e] = q /\ target[e] # at[p]}
  /\ UNCHANGED <<target, answer, kernelQ, shouldRun, mQueue, promise,
                 watcherVars, workerVars, unscanned, mDetected>>

(* ServerDaemon::Stop, on the command thread.  Nothing calls               *)
(* ScanQueue::Stop.                                                        *)
Stop ==
  /\ shouldRun
  /\ shouldRun' = FALSE
  /\ UNCHANGED <<at, target, answer, kernelQ, mQueue, promise,
                 watcherVars, workerVars, history>>

-----------------------------------------------------------------------------
(* ScanWatchThread.                                                        *)

(* InitFanotify succeeded.  When it fails the thread ends without a mark   *)
(* and no attempt is ever suspended: that run has no step to show.         *)
InitFanotify ==
  /\ wpc = "init"
  /\ wpc' = "check"
  /\ UNCHANGED <<envVars, answer, shouldRun, mQueue, promise, batch, event,
                 isMalicious, path, workerVars, history>>

WatcherCheck ==
  /\ wpc = "check"
  /\ wpc' = IF shouldRun THEN "poll" ELSE "off"
  /\ UNCHANGED <<envVars, answer, shouldRun, mQueue, promise, batch, event,
                 isMalicious, path, workerVars, history>>

(* poll() timed out after a second without an event (errors of poll and    *)
(* read are left out).                                                     *)
PollTimeout ==
  /\ wpc = "poll" /\ kernelQ = <<>>
  /\ wpc' = "check"
  /\ UNCHANGED <<envVars, answer, shouldRun, mQueue, promise, batch, event,
                 isMalicious, path, workerVars, history>>

(* Mutant: the last event read stays in the queue.                         *)
ReadEventsOffByOne ==
  /\ wpc = "poll" /\ kernelQ # <<>>
  /\ LET n == IF Len(kernelQ) < MaxBatch THEN Len(kernelQ) ELSE MaxBatch
     IN  /\ batch' = SubSeq(kernelQ, 1, n)
         /\ kernelQ' = SubSeq(kernelQ, n, Len(kernelQ))
  /\ wpc' = "handle"
  /\ UNCHANGED <<at, target, answer, shouldRun, mQueue, promise, event,
                 isMalicious, path, workerVars, history>>

(* One read() takes as many events as the buffer holds.                    *)
ReadEvents ==
  /\ wpc = "poll" /\ kernelQ # <<>>
  /\ LET n == IF Len(kernelQ) < MaxBatch THEN Len(kernelQ) ELSE MaxBatch
     IN  /\ batch' = SubSeq(kernelQ, 1, n)
         /\ kernelQ' = SubSeq(kernelQ, n + 1, Len(kernelQ))
  /\ wpc' = "handle"
  /\ UNCHANGED <<at, target, answer, shouldRun, mQueue, promise, event,
                 isMalicious, path, workerVars, history>>

(* Mutant: the verdict is declared outside the loop and not reset.         *)
NextEventKeepsVerdict ==
  /\ wpc = "handle" /\ batch # <<>>
  /\ event' = Head(batch)
  /\ batch' = Tail(batch)
  /\ \E p \in {q \in Paths : at[q] = target[event']} \cup {None} :
       path' = [path EXCEPT ![event'] = p]
  /\ wpc' = "size"
  /\ UNCHANGED <<envVars, answer, shouldRun, mQueue, promise, isMalicious,
                 workerVars, history>>

(* The next event of the buffer: getPathFromFd finds where its program is  *)
(* now, which may be elsewhere than where it was executed from.  None is   *)
(* a path not found, which is possible for any program, or the path of a   *)
(* deleted program, which leads nowhere.                                   *)
NextEvent ==
  /\ wpc = "handle" /\ batch # <<>>
  /\ event' = Head(batch)
  /\ batch' = Tail(batch)
  /\ \E p \in {q \in Paths : at[q] = target[event']} \cup {None} :
       path' = [path EXCEPT ![event'] = p]
  /\ isMalicious' = FALSE
  /\ wpc' = "size"
  /\ UNCHANGED <<envVars, answer, shouldRun, mQueue, promise, workerVars, history>>

(* The file now at the event's path, if it has one.                        *)
fileOfEvent == IF path[event] = None THEN None ELSE at[path[event]]

(* There is no path, nothing is there any more (file_size throws), or what *)
(* is there is too large: the program is allowed unseen.                   *)
SkipScan ==
  /\ wpc = "size" /\ fileOfEvent \in Oversize \cup {None}
  /\ wpc' = "respond"
  /\ unscanned' = unscanned \cup {event}
  /\ UNCHANGED <<envVars, answer, shouldRun, mQueue, promise, batch, event,
                 isMalicious, path, workerVars, mDetected, replaced>>

(* Mutant: the worker is not notified.                                     *)
PushRequestSilently ==
  /\ wpc = "size" /\ fileOfEvent \in Files \ Oversize
  /\ mQueue' = Append(mQueue, event)
  /\ promise' = [promise EXCEPT ![event] = "pending"]
  /\ wpc' = "wait"
  /\ UNCHANGED <<envVars, answer, shouldRun, batch, event, isMalicious, path,
                 workerVars, history>>

(* What is at the path is small enough: ScanAndWait pushes a request for   *)
(* the path with a fresh promise and wakes the worker.                     *)
PushRequest ==
  /\ wpc = "size" /\ fileOfEvent \in Files \ Oversize
  /\ mQueue' = Append(mQueue, event)
  /\ promise' = [promise EXCEPT ![event] = "pending"]
  /\ kpc' = IF kpc = "asleep" THEN "pop" ELSE kpc
  /\ wpc' = "wait"
  /\ UNCHANGED <<envVars, answer, shouldRun, batch, event, isMalicious, path,
                 req, result, child, history>>

(* The promise was set within three seconds.                               *)
ResultReady ==
  /\ wpc = "wait" /\ promise[event] \in {"true", "false"}
  /\ isMalicious' = (promise[event] = "true")
  /\ wpc' = "respond"
  /\ UNCHANGED <<envVars, answer, shouldRun, mQueue, promise, batch, event,
                 path, workerVars, history>>

(* Mutant: future::wait in place of wait_for.                              *)
ScanTimeoutNever == FALSE /\ UNCHANGED vars

(* Three seconds passed first; the request stays where it is.              *)
ScanTimeout ==
  /\ wpc = "wait" /\ promise[event] = "pending"
  /\ isMalicious' = FALSE
  /\ wpc' = "respond"
  /\ unscanned' = unscanned \cup {event}
  /\ UNCHANGED <<envVars, answer, shouldRun, mQueue, promise, batch, event,
                 path, workerVars, mDetected, replaced>>

(* The response is written and the next event of the buffer is taken up;   *)
(* mShouldRun is read again only when the buffer is exhausted.             *)
Respond ==
  /\ wpc = "respond"
  /\ answer' = [answer EXCEPT ![event] = IF isMalicious THEN "deny" ELSE "allow"]
  /\ event' = None
  /\ wpc' = IF batch = <<>> THEN "check" ELSE "handle"
  /\ UNCHANGED <<envVars, shouldRun, mQueue, promise, batch, isMalicious,
                 path, workerVars, history>>

Watcher ==
  \/ InitFanotify \/ WatcherCheck \/ PollTimeout \/ ReadEvents
  \/ NextEvent \/ SkipScan \/ PushRequest \/ ResultReady \/ ScanTimeout \/ Respond

-----------------------------------------------------------------------------
(* RealTimeScanWorker and MalwareScan::RunSingleFile.                      *)

watcherSide == <<envVars, answer, shouldRun, watcherVars>>

(* The file now at the path of the request, which need not be the program  *)
(* whose execution waits for the verdict.                                  *)
fileAtPath == at[path[req]]

(* Compiling the YARA rules succeeded, or threw and the thread ends.       *)
WorkerInit ==
  /\ kpc = "init"
  /\ kpc' \in {"check", "off"}
  /\ UNCHANGED <<watcherSide, mQueue, promise, req, result, child, history>>

WorkerCheck ==
  /\ kpc = "check"
  /\ kpc' = IF shouldRun THEN "pop" ELSE "off"
  /\ UNCHANGED <<watcherSide, mQueue, promise, req, result, child, history>>

(* Mutant: the front is read and not popped.                               *)
PopKeepsFront ==
  /\ kpc = "pop"
  /\ IF mQueue # <<>>
       THEN /\ req' = Head(mQueue)
            /\ kpc' = "elf"
       ELSE /\ kpc' = "asleep"
            /\ UNCHANGED req
  /\ UNCHANGED <<watcherSide, mQueue, promise, result, child, history>>

(* ScanQueue::Pop: the oldest request, or sleep on the condition variable. *)
Pop ==
  /\ kpc = "pop"
  /\ IF mQueue # <<>>
       THEN /\ req' = Head(mQueue)
            /\ mQueue' = Tail(mQueue)
            /\ kpc' = "elf"
       ELSE /\ kpc' = "asleep"
            /\ UNCHANGED <<req, mQueue>>
  /\ UNCHANGED <<watcherSide, promise, result, child, history>>

(* A wait on a condition variable may return without a notification.       *)
SpuriousWakeup ==
  /\ kpc = "asleep"
  /\ kpc' = "pop"
  /\ UNCHANGED <<watcherSide, mQueue, promise, req, result, child, history>>

(* The scan ends with verdict v.                                           *)
Verdict(v) ==
  /\ result' = v
  /\ kpc' = "answer"

(* isELF: a path that cannot be opened or has another magic behind it is   *)
(* not scanned and counts as clean.                                          *)
IsELF ==
  /\ kpc = "elf"
  /\ IF fileAtPath \in Files \ NonElf
       THEN /\ kpc' = "analyze"
            /\ UNCHANGED <<result, unscanned>>
       ELSE /\ Verdict(FALSE)
            /\ unscanned' = unscanned \cup {req}
  /\ UNCHANGED <<watcherSide, mQueue, promise, req, child, mDetected,
                 replaced>>

(* An exception out of RunSingleFile is logged and counts as clean.        *)
ScanThrows ==
  /\ Verdict(FALSE)
  /\ unscanned' = unscanned \cup {req}

(* analyzeFile: looking up the hash may throw, or YARA fail, which counts   *)
(* as clean all the same; a program that vanished matches nothing.         *)
AnalyzeFile ==
  /\ kpc = "analyze"
  /\ \/ /\ fileAtPath \in Malicious
        /\ mDetected' = mDetected \cup {req}
        /\ kpc' = "size"
        /\ UNCHANGED <<result, unscanned>>
     \/ /\ fileAtPath \in Files \ Malicious
        /\ Verdict(FALSE)
        /\ UNCHANGED <<mDetected, unscanned>>
     \/ /\ ScanThrows
        /\ UNCHANGED mDetected
  /\ UNCHANGED <<watcherSide, mQueue, promise, req, child, replaced>>

(* The detected program's size is read for the report; reading the size of *)
(* a program that vanished throws.  The worker asks for quarantining with  *)
(* a literal, whatever MalScanConfig.ini says.                             *)
ReadSize ==
  /\ kpc = "size"
  /\ IF fileAtPath # None
       THEN /\ kpc' = "quarantine"
            /\ UNCHANGED <<result, unscanned>>
       ELSE ScanThrows
  /\ UNCHANGED <<watcherSide, mQueue, promise, req, child, mDetected,
                 replaced>>

(* Mutant: the outcome of the quarantine is returned as the verdict.       *)
TryQuarantineIsVerdict ==
  /\ kpc = "quarantine"
  /\ \/ /\ fileAtPath # None
        /\ at' = [at EXCEPT ![path[req]] = None]
        /\ kpc' = "notify"
        /\ UNCHANGED result
     \/ /\ Verdict(FALSE)
        /\ UNCHANGED at
  /\ UNCHANGED <<target, kernelQ, answer, shouldRun, watcherVars, mQueue,
                 promise, req, child, mDetected, unscanned, replaced>>

(* tryQuarantine: the program is moved and recorded; or it is moved and    *)
(* recording it throws; or it cannot be moved; or it is gone and reading   *)
(* its size throws.                                                        *)
TryQuarantine ==
  /\ kpc = "quarantine"
  /\ \/ /\ fileAtPath # None
        /\ at' = [at EXCEPT ![path[req]] = None]
        /\ \/ /\ kpc' = "notify"
              /\ UNCHANGED <<result, unscanned>>
           \/ ScanThrows
     \/ /\ fileAtPath # None
        /\ kpc' = "notify"
        /\ UNCHANGED <<at, result, unscanned>>
     \/ /\ fileAtPath = None
        /\ ScanThrows
        /\ UNCHANGED at
  /\ UNCHANGED <<target, kernelQ, answer, shouldRun, watcherVars, mQueue,
                 promise, req, child, mDetected, replaced>>

(* NotifyAllUrgent: one notify-send for each active user, waited for one   *)
(* after the other.  Executing notify-send in a watched directory is an    *)
(* attempt like any other.                                                 *)
NotifyUser ==
  /\ kpc = "notify" /\ NotifierPath \in Watched
  /\ \E e \in Idle : /\ Suspend(e, Notifier)
                     /\ child' = e
  /\ kpc' = "waitpid"
  /\ UNCHANGED <<at, shouldRun, watcherVars, mQueue, promise, req, result, history>>

WaitPid ==
  /\ kpc = "waitpid" /\ answer[child] \in {"allow", "deny"}
  /\ kpc' = "notify"
  /\ child' = None
  /\ UNCHANGED <<watcherSide, mQueue, promise, req, result, history>>

(* No further user to notify (with notify-send unwatched the processes     *)
(* spawned are of no interest here).                                       *)
UsersNotified ==
  /\ kpc = "notify"
  /\ kpc' = "save"
  /\ UNCHANGED <<watcherSide, mQueue, promise, req, result, child, history>>

(* SaveReportToDB: the insert succeeds or throws.                          *)
SaveReportToDB ==
  /\ kpc = "save"
  /\ \/ /\ Verdict(TRUE)
        /\ UNCHANGED unscanned
     \/ ScanThrows
  /\ UNCHANGED <<watcherSide, mQueue, promise, req, child, mDetected,
                 replaced>>

(* Mutant: the request is not given up once it is answered.                *)
SetValueKeepsRequest ==
  /\ kpc = "answer"
  /\ promise' = [promise EXCEPT ![req] = IF result THEN "true" ELSE "false"]
  /\ result' = FALSE
  /\ kpc' = "check"
  /\ UNCHANGED <<watcherSide, mQueue, req, child, history>>

(* resultPromise.set_value: nobody may be waiting any more.                *)
SetValue ==
  /\ kpc = "answer"
  /\ promise' = [promise EXCEPT ![req] = IF result THEN "true" ELSE "false"]
  /\ req' = None
  /\ result' = FALSE
  /\ kpc' = "check"
  /\ UNCHANGED <<watcherSide, mQueue, child, history>>

Worker ==
  \/ WorkerInit \/ WorkerCheck \/ Pop \/ IsELF \/ AnalyzeFile \/ ReadSize
  \/ TryQuarantine \/ NotifyUser \/ WaitPid \/ UsersNotified \/ SaveReportToDB
  \/ SetValue

-----------------------------------------------------------------------------
Environment ==
  \/ \E e \in Execs, p \in Paths : Exec(e, p)
  \/ \E p \in Paths : Unlink(p)
  \/ \E m \in Renames : Rename(m[1], m[2])
  \/ Stop
  \/ SpuriousWakeup

Next == Watcher \/ Worker \/ Environment

(* A thread that can take a step takes one; nothing makes a program start, *)
(* a user touch a file or the daemon stop.   The watcher's fairness alone  *)
(* allows a worker that hangs.                                             *)
WatcherFair == WF_vars(Watcher)
WorkerFair  == WF_vars(Worker)

Spec == Init /\ [][Next]_vars /\ WatcherFair /\ WorkerFair

WorkerMayHang == Init /\ [][Next]_vars /\ WatcherFair

-----------------------------------------------------------------------------
(* Correctness.                                                            *)

(* The events the daemon or the kernel still owes an answer, oldest first. *)
Unanswered == (IF event = None THEN <<>> ELSE <<event>>) \o batch \o kernelQ

(* No permission event is lost or answered twice on its way from the       *)
(* kernel's queue through the read buffer to the response: the attempts    *)
(* suspended are exactly the events in these places, each in one place.    *)
EventInOnePlace ==
  /\ IsInjective(Unanswered)
  /\ ToSet(Unanswered) = {e \in Execs : answer[e] = "blocked"}

(* The requests the worker still owes a verdict, oldest first.             *)
Unsettled == (IF req = None THEN <<>> ELSE <<req>>) \o mQueue

(* A request handed to ScanQueue is neither lost nor scanned twice, even   *)
(* when the watcher gave up on it: the unset promises are exactly the      *)
(* requests queued or being scanned.                                       *)
RequestInOnePlace ==
  /\ IsInjective(Unsettled)
  /\ ToSet(Unsettled) = {e \in Execs : promise[e] = "pending"}

(* The watcher waits for one request at a time and abandons it on a        *)
(* timeout, so every other request in the queue is stale and the one       *)
(* awaited has to be behind all of them.                                   *)
AwaitedIsNewest ==
  wpc = "wait" /\ promise[event] = "pending" =>
    Last(Unsettled) = event

(* Push notifies under the mutex Pop waits with: the worker never sleeps   *)
(* while a request is queued.                                              *)
NoLostWakeup == kpc = "asleep" => mQueue = <<>>

(* A program is kept from running only by a scan, completed for this very  *)
(* attempt, that found malware: no verdict of another attempt, late or     *)
(* left over, denies it.  The malware is the program itself, unless        *)
(* another file was put at its path before the scan was over.              *)
DenyJustified ==
  \A e \in Execs : answer[e] = "deny" =>
    /\ promise[e] = "true" /\ e \in mDetected
    /\ target[e] \in Malicious \/ e \in replaced

(* Malware is let through only unscanned (unresolved, vanished, too large, *)
(* not ELF, not scanned in time, or the scan threw), or when another file  *)
(* was put at its path and may have been scanned in its stead.             *)
FailOpenOnlyUnscanned ==
  \A e \in Execs : answer[e] = "allow" /\ target[e] \in Malicious =>
    e \in unscanned \/ e \in replaced

(* A promise is set once: set_value never throws for a verdict delivered   *)
(* already, and the watcher cannot see a verdict change.                   *)
SetOnce ==
  [][\A e \in Execs : promise[e] \in {"true", "false"} =>
       promise'[e] = promise[e]]_vars

(* While the daemon runs every attempt suspended is answered, whatever the *)
(* worker does: also when it failed to start, hangs behind stale requests, *)
(* or waits for a notify-send that itself waits for the watcher.           *)
AnsweredWhileRunning ==
  \A e \in Execs : answer[e] = "blocked" ~> (answer[e] # "blocked" \/ ~shouldRun)

(* While the daemon runs every request is eventually scanned by a worker   *)
(* that started and does not hang: waiting for notify-send never closes a  *)
(* cycle with the watcher.                                                 *)
SettledWhileRunning ==
  WorkerFair => \A e \in Execs :
    promise[e] = "pending" ~>
      (promise[e] # "pending" \/ ~shouldRun \/ kpc \in {"init", "off"})

(* Watcher and worker together keep the gate, and keep it moving as long   *)
(* as the watcher runs: each step suspends, settles or answers one attempt *)
(* as ExecGate allows, or is of no account to those who wait.              *)
Gate == INSTANCE ExecGate WITH
  Attempts   <- Execs,
  Programs   <- Files,
  program    <- target,
  found      <- mDetected,
  overlooked <- unscanned,
  stopped    <- ~shouldRun
ImplementsGate == Gate!Spec

-----------------------------------------------------------------------------
(* What comments say and the code does not do.                             *)

(* RealTimeScanWorker.cpp:50: the scan's result is delivered through the   *)
(* promise, and ScanWatchThread.cpp:332: false means the program is clean. *)
(* A detection followed by an exception is delivered as false.             *)
DetectionDelivered ==
  \A e \in Execs : promise[e] = "false" => e \notin mDetected

(* CommandReceiver.cpp:135: the stop command ends the server, and          *)
(* ServerDaemon.cpp:59: it waits until all threads have ended.  The worker *)
(* sleeps in Pop and nobody calls ScanQueue::Stop.                         *)
WorkerStops == ~shouldRun ~> kpc = "off"
=============================================================================
