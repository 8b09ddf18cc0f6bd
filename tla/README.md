# ManLab in TLA+

ManLab is a small security product for Linux: one daemon, nine threads, an
SQLite database, a command-line client. This directory holds TLA+ models of its
concurrent and stateful parts, the TLC configurations that check them on small
instances, and proofs, checked by TLAPS, that hold for every instance. Paths
below are relative to the repository's root; `server/` stands for `src/server/`.

* `PROJECT.json` lists the components, the runs, for each property a mutation of
  the code's model that breaks it, the source lines every definition stands for,
  the disagreements found, the hazards and the theorems.
* To run a check: `tlc -config ExecGuard_safety.cfg MCExecGuard.tla`.
* To check the proofs: `tlapm ExecGuard_proofs.tla`, and so on for each `_proofs` module.

## 1. The system

`ServerDaemon` (`server/ServerDaemon.cpp:40-57`) starts the threads; they share
`mShouldRun`, two request flags with a mutex and a condition variable each, the
`ScanQueue`, the database and the file system. `ServerDaemon::Stop`, run on the
command thread, clears `mShouldRun` and notifies the two condition variables;
`Run` joins all threads and the PID file is removed afterwards.

| Component | State | Operations | Interacts through | What is hard | What makes it correct |
|---|---|---|---|---|---|
| Execution blocking (`ScanWatchThread`, `ScanQueue`, `RealTimeScanWorker`, `UserNotifier`) | fanotify queue, read buffer, request queue, a promise per request | read events, push a request, wait at most 3 s, answer; pop, scan, quarantine, notify, deliver | kernel, queue, promise, `notify-send` which may itself be under a mark | timeout racing the verdict, stale requests, the worker waiting for a program that waits for the watcher, stop, vanished programs, exceptions | every attempt is answered once; denial only on its own scan; malware passes only unscanned, or with another file at its path; no wakeup lost |
| Schedule handoff (`ScheduleWatcher`, `ScheduledScanExecutor`, `ScheduledReportExecutor`, `ServerDaemon::Stop`) | two flags, mutexes, condition variables | set and notify; wait, clear, run | flags | spurious and lost wakeups, requests during a run, stop without the mutex | a request is run once and not forgotten; nothing runs unasked |
| Malware scan, quarantine, restore (`MalwareScan`, `QuarantineManager`, `RestoreManager`) | programs, quarantine directory with temporary files, table of quarantined files | collect, analyse, move, encrypt, record; find, decrypt, put back | three threads, no lock, one file system | two scanners on a file, death between two file operations, failing inserts, names with a resolution of a second | no file is lost; what is restored goes home; what is recorded is encrypted |
| Schedule parsing (`utils/ScheduleParser.cpp`, `ScheduleWatcher`) | next minute, sleeps of 30 s and 60 s | parse, match the minute | INI files, clock | a minute skipped or matched twice | each due minute triggers once |
| Daemon lifecycle (`server/main.cpp`, `DaemonUtils`, `ServerDaemon`) | PID file, process table | start, check, stop, clean up | files, `kill(pid, 0)` | two starts, stale or empty PID file, threads that never end | at most one daemon; a dead one does not prevent a start |
| Command server and client (`CommandReceiver`, `CommandBus`, `SocketOStream`, `src/cli/`) | listening socket, one client | accept, read, dispatch, answer | Unix socket | a client that goes away or says nothing, long commands, stop | each command is run once and answered; stop gets through |
| FIM integrity (`FIMBaselineGenerator`, `FIMIntegScan`, `FimCommandHandler`) | baseline and modified tables | generate, compare | files, database | a file deleted between two checks, failure in the middle | what differs is reported |
| FIM real-time (`RealTimeMonitor`) | marks, pending rename cookies, recent events | map masks, filter, merge, log | fanotify, inotify | masks arriving merged or apart, files changing between event and handling, halves of renames | creations, deletions and renames are logged as they happened; nothing is logged that did not happen |
| FIM log store (`FimLogToDB`, `RealtimeMonitorDaemon`) | log file, table, last time saved | parse lines newer than the last time | file, database, clock | restarts, rotation, equal timestamps, failed inserts, a clock set back | a line is stored, and once per start at most |
| Audit analysis (`AuditLogManager`, `LogStorageManager`) | open records, log position, detections | group lines, match rules, match the scenario | audit log | interleaved lines, records that come up again, half lines, steps of several users | an event is detected once, exactly as its lines say; no scenario missed or counted twice |
| Rsyslog analysis (`RsyslogManager`, `RsyslogRule`) | ten recent lines, failure windows | read, keep, match | log file | window boundaries, which analyser wins, restarts | bursts of failures are reported, changes put down to the right user |
| Hash database (`DBManager`) | hash table | initialise | file, database | initialising on every start, failing inserts | a daemon that serves knows all hashes |
| Reports and mail (`ReportService`, `GmailClient`) | none kept | period, bars, HTML, SMTP | database | the period depends on when the report is made | successive periods join; every moment has a bar |

## 2. Modules

| Module | Stands for |
|---|---|
| `ExecGate` | what execution blocking promises, without queues and threads |
| `ExecGuard` | execution blocking, composed with the environment, and its refinement of `ExecGate` |
| `MCExecGuard` | its instances |
| `ExecGuard_proofs` | its invariants and the safety part of the refinement, proved |
| `RequestCell` | what the schedule handoff promises, without flags and locks |
| `ScheduleHandoff` | the handoff as coded, and its refinement of `RequestCell` |
| `MCScheduleHandoff` | its instances |
| `ScheduleHandoff_proofs` | its invariants and the safety part of the refinement, proved |
| `Custody` | what the quarantine promises, without names, encryption, table and threads |
| `Quarantine` | scans, quarantine and restore on one disk, and its refinement of `Custody` |
| `MCQuarantine` | its instances |
| `Quarantine_proofs` | its types, and its invariants and the refinement where names do not clash, proved |
| `RealTimeMonitor` | the real-time file monitor: kernel queues, handlers, log lines |
| `FimLogStore` | its log file and the passes that store it |
| `FimRealTime` | both in their thread: `RealTimeMonitor` and `FimLogStore` composed |
| `FimIntegrity` | baseline and integrity check |
| `Fim` | the file monitoring: `FimRealTime` or `FimIntegrity` |
| `FimLogStore_proofs`, `FimRealTime_proofs`, `FimIntegrity_proofs` | the invariants of these, proved; the second covers `RealTimeMonitor` and `Fim` |
| `MCFim` | instances of `Fim` |
| `AuditLog` | the audit log's records, rules and scenario |
| `AuthLog` | failed logins and who made a change, from rsyslog's log |
| `ScheduleClock` | calendar, sleeps and triggers of the schedules |
| `ReportPeriod` | which time a report is about, on top of `ScheduleClock` |
| `SingleThread` | one of these analyses and schedules: `AuditLog`, `AuthLog`, `ReportPeriod` |
| `MCSingleThread` | its instances |
| `SingleThread_proofs` | the invariants of these five, proved |
| `Daemon` | life of the process, PID file, hashes, command socket, clients |
| `MCDaemon` | its instances |
| `Daemon_proofs` | its invariants, proved |

### ExecGate and ExecGuard

`ExecGate` is the promise seen from outside: an attempt is suspended, its program may be
found to be malware, and it is answered once, denied only if it was found. It says so of attempts
whose path was not given to another file meanwhile (`replaced`). The mapping is in `ExecGuard` (`Gate`).

An attempt to execute a program of a watched directory is a member of `Execs`;
it is also the identity of the scan request made for it. State and code:

* `kernelQ`, `answer`: fanotify's queue and what became of each attempt. These are
  the kernel's, modelled from how `ScanWatchThread` uses them.
* `wpc`, `batch`, `event`, `isMalicious`: `ScanWatchThread::Run`
  (`check`, `poll`), the buffer one `read` filled, the event being handled and the
  local variable of `processFanotifyEvents` (`handle`, `wait`, `respond`).
* `mQueue`, `promise`: `ScanQueue` and the promise inside each request
  (`none`, `pending`, or the value set).
* `kpc`, `req`, `result`, `child`: `RealTimeScanWorker::Run`, and inside
  `MalwareScan::RunSingleFile` one place for each call that may fail or block:
  `elf`, `analyze`, `size`, `quarantine`, `notify` and `waitpid`, `save`, `answer`.
* `at`, `path`: the file at each path, and the path that `getPathFromFd` found for an
  event, which is all that the request carries. The size test (`SkipScan`, `PushRequest`) and each
  step of the worker look at what is at the path when they are taken (`fileOfEvent`,
  `fileAtPath`), never at the file the kernel holds back (`target`).
* `unscanned`, `mDetected`, `replaced`: history, for the properties. `replaced` are the attempts
  to whose path another file was moved.

A critical section of the `ScanQueue` mutex is one step. The three-second timeout
is a step that may be taken whenever the promise is not set yet. Programs are
deleted (`Unlink`), moved, also in place of others (`Rename`), and the daemon stopped, at any moment; exceptions
out of the quarantine and out of the database are a choice where the code can throw. Left out: errors of poll and
read, the YARA rules and hashes (the set `Malicious`), the report text, walking the excluded directories
when marks are set (the set of watched paths), the user sessions
(`notify` may spawn any number of children), hard links (`PathsAssumption`: a file starts at one
path), a program that is written to in place, and another program in place of notify-send.

### RequestCell and ScheduleHandoff

`RequestCell` is a set of jobs with a request waiting, a set of jobs running, and
a bit. `ScheduleHandoff` has the two executors at the grain of
`condition_variable::wait`: take the mutex (`lock`), evaluate the predicate
(`test`), block and release (`block`, `asleep`), return (`woken`), clear the flag
and run. `ScheduleWatcher` examines the jobs one after the other; its critical
section is one step that needs the executor not to hold the mutex, and its notification
another. `Stop` clears `mShouldRun` and notifies each condition variable without
taking a mutex. The refinement mapping reads `requested` as the waiting jobs,
`epc = "run"` as the running ones and `~mShouldRun` as the bit.

### Custody and Quarantine

`Custody` knows what is at each path, where it was created and what is in custody; a program
is taken, is put back at its own path, and is let go of only when it is back or was overwritten. The
mapping (`Keeper` in `Quarantine`) takes a content as in custody when `vault`, `enc` or `dec` has a copy
of it under any name; `Encrypt`, `RemovePlain`, `Swap`, `Insert`, `Decrypt` and all that a death
leaves behind are steps that `Custody` does not see.

A file is a blob: whose content, and how many layers of encryption. The disk is
the original paths, `quarantine/<name>`, its `.enc` and its `.dec`; `rows` is the
table. Every call that changes the disk or the table is a step of the thread
(`pc`), with a failing variant where the code has one. `Throw` tells what an
exception does: the real-time worker catches it (`server/RealTimeScanWorker.cpp:43`), the
command and scheduled-scan threads do not, and the process ends. `Die` and
`Restart` may fall between any two steps; `FileSystemError`, `LookupThrows` and
`InsertThrows` are calls that fail. Encrypting and decrypting either write everything or fail
(the code does not notice a full disk: see the hazards). `Create` lets a user put a new program
at a free path. `replaced` and `interrupted` are history.

### RealTimeMonitor, FimLogStore, FimRealTime

`RealTimeMonitor` has the users' operations on files (`at`, `open`, `ops`), which
queue events as the kernel does: inotify by path, with a cookie on both halves of
a rename; fanotify by inode, merged into a queued event of the same inode and
process. `step` goes through `pollOnce`: both queues are read into `fanBatch` and
`inBatch` (what the poll said of inotify is kept in `inReady`), then handled one
event a step while files change; `recent` is `mRecentModifiedInodes`, `renameMap`
the pending halves. A fanotify event finds its file by the path the inode has when it is
handled. Its handle opens the one file it was made for (the kernel puts a generation
into it), but the code remembers writes by the bare `st_ino`: each inode therefore has a `Number`, which
a file created later can have again and a file of another filesystem (`Fs`) can have at the same time.
That a handle may also open a file of another watched filesystem, as the code tries the mounts in turn without
comparing the `fsid`, is left out. MD5 sums are reduced to whether there was a file to read, which decides
if a rename's line parses later.

`FimLogStore` is the log and `RealtimeMonitorDaemon`'s loop: `log` is the
current file (it rotates when full and the code never opens the older ones), a
pass goes over it from the start (`cursor`) and inserts lines later than `mark`
(`lastSavedTime`), and the mark then becomes the latest time of the table.
`FimRealTime` joins the two in the one thread that runs both, and adds the
property across them: from a user's change to a row of the database.

### FimIntegrity

`BaselineGenerator` and the check share the walk, content first (`hash`), then
metadata (`stat`), as separate steps with users in between; `look`, `compare`, `alert` are
the phases of a check. A file is content and metadata, a change may leave either
as it was. `changed`, `torn`, `touched`, `unsaved` are history: which row still describes
its file, and which differences a check could see.

### AuditLog and AuthLog

`AuditLog` writes the lines of several events in any interleaving; the reader
takes one per step (`pos`), also half of one, after which the stream fails for
good (`lost`), collects kinds of lines in `records`, and compares a complete
record with the rules one by one (`comparing`), scanning the user's detections for the scenario
after each detection. A rule is its key and which kinds of lines it looks at.
`recentEvents` is a vector in the code that is only appended to and erased from, so the set of
positions in `detections` says all of it.
`AuthLog` takes entries in the order of the log, through the analysers in the
code's order; `failureMap` and `recentLogs` are the code's, `entries` with who
really did it is history. Both lose their memory in a restart and keep what was stored.
A change may be made by anyone, with a sudo command that says so, with one that does not, or
without sudo. `Mentions` says which changes a user's sudo message is taken for: the code looks for a command
like `passwd v` anywhere in the message, so `passwd vic` is taken for it. `ChangersRight` names all the cases
in which the wrong one is blamed.

### ScheduleClock and ReportPeriod

`now` counts units of the clock (a minute is several); the watcher compares when its
sleep ends (`wake`), which is 60 s or 30 s after the round plus the time the round took.
`files` is what the file of each job says, as type, argument and time, and
`ParseScheduleFromINI` makes a schedule of it or, when it does not parse, none; the bounds
include a weekly job whose day is no day. `Calendar` gives each day its day of the week,
of the month, and its date. A trigger
requests a report, which loads its settings (`mStartTime` is then fixed) and fetches its
data (`mEndTime`) within `MaxDelay`. The histories keep the last three
minutes and the last two reports, which is what the properties look back at.

### Daemon

`pc[p]` is what the process with PID `p` does, through `ServerDaemon::Run`,
`LaunchDaemonIfNotRunning` and the command thread, for which the main thread
waits. The PID file is `NoFile`, `Empty` between opening and writing, or a PID;
`writers` are the processes that have it open, because a file removed meanwhile is
written in vain. The socket's path leads to a process that may be dead. `serving` and
`queue` are the connections accepted and waiting. `Kill` may strike anywhere; a dead
daemon's PID may go to another program (`other`) or to the next start. `reason` is history.

## 3. Runs

| Run | Shows |
|---|---|
| `exec_safety` | Three attempts on clean, malicious and non-ELF programs, notify-send watched, buffer of two events, the malicious program moved to the clean one's path and the other way round: `EventInOnePlace`, `RequestInOnePlace`, `NoLostWakeup`, `DenyJustified`, `FailOpenOnlyUnscanned`, `SetOnce`, types. |
| `exec_liveness` | `AnsweredWhileRunning` with a worker that may hang at any place; `SettledWhileRunning` for one that does not; `ImplementsGate`, the refinement of `ExecGate`. |
| `exec_delivered` | Violated: a detection followed by an exception is delivered as clean, and the program runs. |
| `exec_stop` | Violated: after `stop` the worker stays in `ScanQueue::Pop` and the daemon never ends. |
| `handoff` | `NotificationFollows`, types, and `ImplementsCell`, the refinement with its liveness. |
| `handoff_stop` | Violated: `Stop` between an executor's test and its blocking leaves it asleep. |
| `quarantine_safety` | `NothingLost`, `RestoredToOrigin`, `VaultRestorable`, `RowsAreEncrypted`, types, and `ImplementsCustody`, the refinement. |
| `quarantine_clash` | Violated: two equally named programs detected in one second share a name, and a restore brings one back as the other. |
| `fim` | Users, monitor, log store and integrity check: `EntriesExactWhileAlive`, `ContentLinesJustified`, `StoredOncePerStart`, `NothingPassedOver`, `ChangesStored` (liveness), `OnlyChangedFiles`, `ChangesFound`, `AlertsComplete`, types. |
| `fim_modified` | Violated: a file written and closed in different polls is never reported as modified. |
| `single_thread` | `DetectionsExact`, `ScenariosExact`; `FailureReportsJustified`, `BurstsReported`, `ChangersRight`; `DueOnce`, `ReportsJoin`; types. |
| `daemon` | `OneDaemon`, `StartsServe`, types, and `NothingHangs` (liveness). |

A run with several components that share nothing (`fim`, `single_thread`) chooses one at the
start (`part`); the others stand still.

Deadlock is not checked, but in `fim`: after a stop the threads end or sleep, and that is the
end of the behaviour (the properties about it are stated as liveness).

### Bounds, and why they suffice

* `ExecGuard`: three attempts are one that timed out and is still scanned, one stale
  in the queue and one awaited, or one awaited with the worker's `notify-send` as another;
  with two events in the buffer one waits in it while another is handled and
  a third is in the kernel. One program of each kind is enough as programs only
  differ by kind; several attempts execute the same one. Attempts are interchangeable
  and symmetric in the run without liveness. The liveness run has two attempts: the
  one that waits and the notification it must not wait for; its third program is too large instead of not ELF.
  Moves are bounded to those between the clean and the malicious program's paths (`Renames`), which put the
  wrong file there either way. The proofs cover any number, and any moves.
* `ScheduleHandoff`: two jobs as in the code; two requests each are one that is
  taken and one that arrives meanwhile. The proofs cover any number of both.
* `Quarantine`: two threads with a file each or on the same file, two paths with
  equal file names, three contents (one user-made), three seconds, one crash or
  failing call (insert, hash lookup, file operation) in a behaviour. Names are taken not to clash in this run
  (`NamesMayClash = FALSE` keeps only behaviours without two equal names in a second);
  `quarantine_clash` shows what happens when they do.

* `fim`: three inodes; two files and a temporary name in a watched directory, a
  path outside, and a watched directory on a second filesystem. Two inodes are there at the start, one on each
  filesystem and with the same number, a third is to be created. Three operations are a write, a close and what
  comes between, two halves of a rename and what takes their names, or a write to one file and a permission
  change and close of the other with its number. Part `store` has six lines in files of four, so that one
  rotates away, and two faults. The integrity check has two target paths (an exception
  ends one) that share a file, as `/etc` and `/etc/test.txt` of `conf/FIMIntegScan.ini` do, three files, two changes, one failure.
* `single_thread`: the events of one user add up to the scenario, and one of them meets several rules
  of its last step; the other user did that step alone; four entries of two users with a threshold of two
  and three remembered entries, so that an entry is forgotten and a window ends while one is counted in it;
  a sudo command that is taken for the change of another user's password, and one such change; four units to
  a minute, two minutes to a day, weeks of two days, a month of "thirty" (two) days that is
  three long: every job's neighbour minute is another's. The sleeps keep the code's
  proportion to the minute (1 and 1/2), a round takes less than half a minute.
* `Daemon`: three starts with two PIDs overlap, follow a dead one, or get its PID; two
  kills are one that leaves files and one in the start that finds them; two clients
  are one served and one waiting.

### Fairness

Weak fairness on each thread's steps: a thread that can go on does so; the operating system
schedules all of them. It needs no more, as none of the threads waits for a
condition that others make true and false again for ever. `ExecGuard`'s
`WorkerMayHang` assumes it for the watcher alone: scans have no time limit, so the
promise that an attempt is answered must not rest on them. Nothing makes a program
start, a schedule fall due, a user delete a file or a `stop` arrive, and the
timeout is a step of the watcher. In `fim` the monitor's thread is fair, users and
faults are not. In `Daemon` a start that is not killed goes on, the command
thread serves, and a connected client sends or goes (the client program does either
at once; one that does neither blocks all others, see the hazards); nothing is assumed of
the other threads, so a daemon told to stop may stay `closed` for ever, as it does in the code (`exec_stop`).
The models of `single_thread` have no fairness. `NotifyAll` is fair, because a `Stop` once begun runs through.

## 4. Proofs

`ExecGuard_proofs` proves, for any attempts, programs, paths, moves, buffer size and place of
notify-send, type correctness and all the invariants and the action property of `exec_safety`. From
the assumptions of `ExecGuard` only: `FilesAssumption` (what the kinds are subsets
of), `PathsAssumption` (what is where at the start), `BatchAssumption` (a buffer holds an event), `NoneAssumption`.
The inductive invariant `IInv` has five parts:

1. `TypeOK`, which also ties `event`, `req` and `child` to the places that use them.
2. `EventInv`: `EventInOnePlace`, and that the buffer is empty when it is read again.
   Reading must not reorder or drop: lemmas on sequences without duplicates
   (`AppendNew`, `TakeFirst`, `PutFirst`) carry the steps.
3. `RequestInv`: `RequestInOnePlace`, `AwaitedIsNewest`, `NoLostWakeup`, and
   `NotTakenUp`: no promise exists for an attempt not taken up yet. Without it a push could
   reset a verdict; it rests on `EventInOnePlace`.
4. `PathInv`: a request has a path, and as long as no other file was put there, what is at the path is
   the attempt's program or nothing. It is what makes a scan of the path one of the program.
5. `VerdictInv`: what each place knows: the worker (`WorkerSound`), the
   promise (`PromiseSound`), the watcher about to answer (`ResponseSound`) and the
   answer given (`AnswerSound`). `FindingsStay` says an attempt's program and
   findings do not change once it is made, so knowledge can be handed on.

`SetOnce` follows as `RequestInv` makes the request being scanned a pending one. `GateSafety` says that
every step is one of `ExecGate` or leaves it alone: malware is found in `AnalyzeFile` (in the attempt's
program, by `PathInv`, or at a path given to another file), scans are given up
where the code gives them up, and that `Respond` denies only what was found and allows malware only
when given up is `ResponseSound`.

`ScheduleHandoff_proofs` proves, for any sequence of different jobs and any
bound, the invariants of `handoff` and `CellSafety`, that every step is a step of
`RequestCell` or leaves it alone. Its `IInv` adds `TestStillHolds`: between the test
of the predicate and blocking or leaving, its value cannot have changed against
the executor, as the mutex is held (for the flag; `mShouldRun` may change, which
is why the invariant speaks of it in one direction only and why `handoff_stop` fails).

`Quarantine_proofs`: the types hold whatever clashes, fails or dies. The four other
invariants are proved under `~NamesMayClash`, the hypothesis that `quarantine_clash` shows
to be needed. `IInv` adds to the types `FilesExact`: no two quarantines under way use the same
name, nor one that has a row (`NamesOwned`), each place in the code knows how many layers its file has
(`StagesExact`), and rows, copies and original paths agree with that (`RowsExact`,
`CopiesExact`, `OrigExact`); nothing is lost because every content is in one of the places
where somebody will look for it (`AllKept`), and what is at rest in the quarantine has a row (`RestHasRow`).
`CustodySafety` is the refinement of `Custody`, whole, as `Custody` asks for no liveness: `MoveToVault` takes (into a
name that is free, `StagesExact`), `EncryptFails` and `Place` put back (the path they have is the file's own),
and `Discard` lets go of a last copy only when the file is back or overwritten (`AllKept`). Where names clash none of the four invariants
holds, whatever the threads: TLC finds each of them violated by a single scan.

`Daemon_proofs`: `DaemonIInv` says who waits for an answer (`HeldOnce`),
whose PID the file and the socket name and who may be between check and writing while
`overlapped` is false (`FilesTellDaemon`), what killed daemons leave (`LeftByKills`)
and how far the hashes are loaded (`HashesLoaded`).

`FimIntegrity_proofs`: one file is between its two reads (`OneChosen`); if nobody touched it meanwhile,
what was read is what it has, and otherwise it is on record as changed (`ReadHolds`); hence a row
describes every file not changed since (`RowHolds`), what a check is past is in the
table (`CheckedSoFar`), and what is in the table is told of (`AlertsToCome`).

`FimLogStore_proofs`: `StillOnce` carries that no start stores a line twice: a line it may
still store has fewer rows than starts that have seen it. `NothingLeft` carries that
the mark passes over nothing: whatever is written later is stamped later than the mark.

`FimRealTime_proofs`: of the content of files by counting (`ContentInv`): what is logged of
the files of one number, waits in the queues and is remembered of the number is together no more than was done to
them (`ModifiesOf`; of permission changes, file by file: `AttribsOf`). Of the directory entries by order (`EntriesInv`): what is logged, followed by what the waiting events will
give, is what was done; `Paired` says the halves of renames that wait will find each other.
The events' text is joined with `FlattenSeq`, of which what is needed follows by induction
on the length, over a set of numbers instead of a predicate. Both invariants of the
log store are proved again of the composition, where the monitor writes its lines.

`SingleThread_proofs` has an invariant for each of five matters:

* `AuthIInv`: the failures counted for a user since his window began are those of the
  log (`FailuresInv`), and the remembered entries are the last of the log, since the restart (`RecentInv`).
  From it `FailureReportsJustified`, `BurstsReported` and `ChangersRight`.
* `AuditIInv`: as long as no line is lost and nobody dies, a record holds
  what its event's lines say until they complete it, and has no SYSCALL line after
  that (`RecordsInv`, `LinesInv`); a rule has detected what it should but for those still ahead
  (`CountsInv`). From it `DetectionsExact`.
* `ScenarioIInv`: no choice of remembered detections makes up the scenario (`NoScenarioMissed`), and those
  no longer remembered are enough for the alarms given (`AlarmsServed`). That one scan
  decides it: the scan is at least as far as any choice of steps (`ScanIsAhead`), and
  each step it counts was found at a place of its own (`ScanFinds`). From it `ScenariosExact`.
* `ClockIInv`: the watcher has compared a minute at most once per start, and not yet if it may still compare it
  (`TimesInv`); a minute that is past was compared, or the daemon was down in it (`CoverInv`). From it `DueOnce`.
* `ReportIInv`: a request is of a minute that was due, is served before its deadline, and that is over
  before the next can be due (`PendingInv`); so is each report made (`MadeInv`). From it `ReportsJoin`: where one report ends the next begins, up to a
  minute, the delay and, for monthly reports, `Difference`, the days by which the month is not
  as long as the code's thirty.

`AwaitedIsNewest`, `RunsAreRequested` and `TakesARequest` are part of the inductive invariants and have
theorems of their own, but no run: what they are for, `DenyJustified` and the refinements, is what the runs check.

All invariants of the passing runs are proved so, those of the two compositions included: a behaviour of
`Fim` or `SingleThread` is one of the part chosen, in which the others stand still, so the
parts' theorems carry over (`FimTyped`, `FimRight`, `PartsTyped`, `PartsRight`).

Assumptions on the constants, all evaluated by TLC, and why the code justifies them. Values that stand
for nothing (`NothingAssumption`, `RowsAssumption`, `DaemonAssumption`, `NoneAssumption`)
differ from those that stand for something. `PathsAssumption`: no two files are at one path, or have
one number on one filesystem, at the start. `TargetsAssumption`: the target paths are sets of files, which
may overlap. `RoomAssumption`: a log file has room for two lines (it has
5 MB). `EventsAssumption`: an event has one SYSCALL line, as auditd writes it; rules and lines are
sequences. `ScenarioAssumption`: it has a step. `RoundAssumption`: the watcher's round takes at most half a
minute; a longer one may miss a minute. `CalendarAssumption`, `WeeksAssumption`: days of a month and of a week come up in
turn. `ReportAssumption`: a report is made within a day less a minute.

Only model-checked: all liveness (`AnsweredWhileRunning`, `SettledWhileRunning`, `ChangesStored`, `NothingHangs`
and the liveness of `ImplementsCell` and `ImplementsGate`), as fairness and ENABLED are out of the prover's
reach. The definitions that need induction over data (failures of a user,
matched steps of the scenario, joined sequences) are recursive functions, of which the
proofs establish that they exist and what each step adds, never what they compute for every input at once.

## 5. Disagreements between code and text

With a run, listed under "findings" in `PROJECT.json`: `exec_delivered`, `exec_stop`,
`handoff_stop`, `quarantine_clash`, `fim_modified`. Seen while modelling and visible in the models,
without a run of their own:

* The real-time worker quarantines whatever `conf/MalScanConfig.ini:33` says
  (`server/RealTimeScanWorker.cpp:41` passes `true`): `TryQuarantine` has no such guard.
* `conf/MalScanConfig.ini:20` lets files be excluded; marks only leave out
  directories, and events are not filtered.
* After a `stop` the fanotify marks outlive the loop that answers
  (`server/ScanWatchThread.cpp:106`): attempts then stay suspended. `AnsweredWhileRunning`
  therefore ends with `shouldRun`.
* A file that vanishes between collection and analysis ends the daemon
  (`server/MalwareScan.cpp:236`), while line 332 skips it: `Throw` in `Quarantine`.
* `server/DBManager.cpp:154` says hashes that exist are ignored; no key makes them so, and
  every start inserts all again (`InsertHash`; look-ups do not notice).
* The rules' conditions on lines that come after the one that completes a record are never
  met: `ShouldDetect` in `AuditLog` takes the lines up to there.
* A modification may be logged of a file nobody wrote to: `mRecentModifiedInodes` keeps the bare inode number of
  a write whose close came apart (for a second or, as it is purged only by the next write, longer;
  `server/RealTimeMonitor.cpp:226` speaks of ten seconds), and the next file of that number, created later or on
  another filesystem, is taken for it at line 341. `ContentLinesJustified` counts by number for that reason.
* The scan reads what is at the path, not the file that is about to run: when another file was moved there after the attempt, the verdict
  (and the quarantine) is that file's. A program that is not malicious is blocked, and a malicious one allowed after a clean scan
  (`server/ScanWatchThread.cpp:273`, `server/RealTimeScanWorker.cpp:41`; line 332 of the former says that true means malicious).
  `DenyJustified`, `FailOpenOnlyUnscanned` and `ExecGate` except such attempts by name (`replaced`).
* A change may be put down to a user who did not make it (`server/RsyslogRule.cpp:16`; line 7 says the sudo user is found, otherwise root):
  after `sudo passwd vic` by one user, a change of the password of `v` by another is put down to the first, and a user's change of
  his own password without sudo to root. `ChangersRight` excepts both (`Known`); TLC reaches both in `single_thread`.
* A window of failed logins starts with its first failure (`server/RsyslogRule.cpp:149`), so up
  to twice the threshold less two failures within its length go unreported: `BurstsReported`.
* A report for a single date (`Type = date:...`) is about no time at all:
  `server/ReportService.cpp:232` has no case for it, `PeriodOf` gives 0.
* Two starts that overlap both run; their ends remove each other's files. `OneDaemon` says what holds otherwise.

## 6. What is not modelled, and what is not proved

Not modelled, because it is pure input and output or third-party code: the mail
client (one SMTP submission), the HTML and scripts of reports, the tables and the manual that
commands print, session lookup for notifications, YARA and OpenSSL, the INI
reader, sqlite_orm and the other vendored libraries (which are three quarters of the lines of `src/`).

Left out of what is modelled: rotation of the audit and authentication logs; the regular
expressions that tell kinds of entries apart; the user name stored with a report of failed logins, which may be another than the
one they are counted for, or none (`server/RsyslogRule.cpp:162`); symbolic links; overflow of the kernel's
queues; clocks that are set while the watcher sleeps, and days that have not 24 hours;
INI files that are edited while the daemon runs (the schedules in `files` stay as they are in a behaviour); duplicate rows of hashes;
PIDs of different length in one file; threads that share the buffer of
`std::localtime` (see the hazards).

Not proved, though within reach of the method: that the mark of `FimLogStore` never moves back
within a start, and a refinement of an abstract specification for the file monitoring, the log
analyses and the daemon, whose promises are stated as invariants and proved as such.
