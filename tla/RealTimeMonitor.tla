-------------------------- MODULE RealTimeMonitor --------------------------
(***************************************************************************)
(* The real-time file monitor.  What processes do to files reaches it over *)
(* two kernel queues: inotify tells of creations, deletions and renames by *)
(* path, fanotify of writes, closes and permission changes by inode, and   *)
(* merges an event into a queued one of the same inode and process.  A     *)
(* round polls both, then handles the events one by one while the files    *)
(* go on changing; the handlers filter by directory and write the log.     *)
(*                                                                         *)
(* Files are inodes, each with a number that another file may have had     *)
(* before or may have on another filesystem; a handle, as in an event,     *)
(* opens the one file it was made for.  MD5 sums are reduced to whether    *)
(* there was a file to read.  Files open for writing are not removed or    *)
(* replaced; a queue never overflows.                                      *)
(***************************************************************************)
EXTENDS Integers, Sequences, FiniteSets, Folds, SequencesExt

CONSTANTS
  Inodes, Pids,
  Number,     \* st_ino of each inode
  Paths,      \* paths of files
  Fs,         \* filesystem of each path
  Dir,        \* directory of each path, or Unwatched
  Filter,     \* event types configured for each watched directory
  Hidden,     \* paths of excluded and temporary files
  FirstPath,  \* path of each inode at the start, or Nowhere
  MaxOps,     \* bound on what the processes do
  Unwatched, Nowhere

Types == {"CREATE", "DELETE", "MODIFY", "ATTRIB", "RENAME"}

ASSUME PathsAssumption ==
  /\ Nowhere \notin Paths
  /\ Hidden \subseteq Paths
  /\ Filter \in [{Dir[p] : p \in Paths} \ {Unwatched} -> SUBSET Types]
  /\ FirstPath \in [Inodes -> Paths \cup {Nowhere}]
  /\ \A i, j \in Inodes : FirstPath[i] = FirstPath[j] /\ FirstPath[i] # Nowhere => i = j
  /\ \A i, j \in Inodes :
       Nowhere \notin {FirstPath[i], FirstPath[j]} /\ Number[i] = Number[j]
         => Fs[FirstPath[i]] # Fs[FirstPath[j]] \/ i = j
ASSUME MaxOpsAssumption == MaxOps \in Nat

VARIABLES
  at,        \* path of each inode, or Nowhere
  open,      \* processes and the inodes they have open for writing
  ops,       \* what the processes did
  fanQueue, inQueue,   \* the kernel's queues
  step,      \* of the monitor: "poll", "fan", "ino" or "done"
  fanBatch, inBatch,   \* events read and not yet handled
  inReady,   \* what the poll said of the inotify queue
  recent,    \* mRecentModifiedInodes, by number
  renameMap, \* from each cookie to the path moved from
  logged     \* lines written, each with the inode of its event

userVars == <<at, open, ops>>
queues == <<fanQueue, inQueue>>
monitorVars == <<at, open, ops, fanQueue, inQueue, step, fanBatch, inBatch,
                 inReady, recent, renameMap, logged>>

Numbers == {Number[i] : i \in Inodes}
FanBits == {"MODIFY", "CLOSE_WRITE", "ATTRIB"}
FanEvents == [inode : Inodes, pid : Pids, mask : (SUBSET FanBits) \ {{}}]
InEvents ==
  [kind : {"CREATE", "DELETE", "FROM", "TO"}, path : Paths, cookie : 0 .. MaxOps]

MonitorTypeOK ==
  /\ at \in [Inodes -> Paths \cup {Nowhere}]
  /\ \A i, j \in Inodes : at[i] = at[j] /\ at[i] # Nowhere => i = j
  /\ open \subseteq Pids \X Inodes
  /\ \A o \in open : at[o[2]] # Nowhere
  /\ Len(ops) <= MaxOps
  /\ fanQueue \in Seq(FanEvents) /\ fanBatch \in Seq(FanEvents)
  /\ inQueue \in Seq(InEvents) /\ inBatch \in Seq(InEvents)
  /\ step \in {"poll", "fan", "ino", "done"}
  /\ fanBatch # <<>> => step = "fan"
  /\ inBatch # <<>> => step = "ino"
  /\ inReady \in BOOLEAN
  /\ recent \subseteq Numbers
  /\ renameMap \in SUBSET (Nat \X Paths)
  /\ \A m, n \in renameMap : m[1] = n[1] => m = n
  /\ \A n \in DOMAIN logged : logged[n].type \in Types

MonitorInit ==
  /\ at = FirstPath /\ open = {} /\ ops = <<>>
  /\ fanQueue = <<>> /\ inQueue = <<>>
  /\ step = "poll" /\ fanBatch = <<>> /\ inBatch = <<>> /\ inReady = FALSE
  /\ recent = {} /\ renameMap = {} /\ logged = <<>>

-----------------------------------------------------------------------------
(* What processes do, and the events the kernel queues for it.             *)

Free(p) == \A i \in Inodes : at[i] # p

Did(op, i, p, q) ==
  /\ Len(ops) < MaxOps
  /\ ops' = Append(ops, [op |-> op, inode |-> i, path |-> p, to |-> q])

(* Events of directories nobody watches are not queued.                    *)
Watched(e) == IF Dir[e.path] = Unwatched THEN <<>> ELSE <<e>>
Notify(events) == inQueue' = inQueue \o events

(* The kernel merges with any queued event of the same file and process.   *)
Mark(pid, i, bit) ==
  LET same == {n \in DOMAIN fanQueue : fanQueue[n].inode = i /\ fanQueue[n].pid = pid}
  IN  fanQueue' = IF Dir[at[i]] = Unwatched THEN fanQueue
                  ELSE IF same # {}
                    THEN LET n == CHOOSE n \in same : TRUE
                         IN  [fanQueue EXCEPT ![n].mask = @ \cup {bit}]
                    ELSE Append(fanQueue, [inode |-> i, pid |-> pid, mask |-> {bit}])

monitor == <<step, fanBatch, inBatch, inReady, recent, renameMap, logged>>

(* An inode that was there before; a number is free once its file is gone. *)
Used(i) == FirstPath[i] # Nowhere \/ \E n \in DOMAIN ops : ops[n].inode = i
FreeNumber(i, p) ==
  \A j \in Inodes : at[j] # Nowhere /\ Fs[at[j]] = Fs[p] => Number[j] # Number[i]

Create(pid, i, p) ==
  /\ ~Used(i) /\ FreeNumber(i, p) /\ Free(p)
  /\ at' = [at EXCEPT ![i] = p]
  /\ open' = open \cup {<<pid, i>>}
  /\ Did("CREATE", i, p, Nowhere)
  /\ Notify(Watched([kind |-> "CREATE", path |-> p, cookie |-> 0]))
  /\ UNCHANGED <<fanQueue, monitor>>

Write(pid, i) ==
  /\ at[i] # Nowhere
  /\ open' = open \cup {<<pid, i>>}
  /\ Did("WRITE", i, at[i], Nowhere)
  /\ Mark(pid, i, "MODIFY")
  /\ UNCHANGED <<at, inQueue, monitor>>

(* Closes a file open for writing, opening it before if it is not open.    *)
CloseWrite(pid, i) ==
  /\ at[i] # Nowhere
  /\ open' = open \ {<<pid, i>>}
  /\ Did("CLOSE", i, at[i], Nowhere)
  /\ Mark(pid, i, "CLOSE_WRITE")
  /\ UNCHANGED <<at, inQueue, monitor>>

Chmod(pid, i) ==
  /\ at[i] # Nowhere
  /\ Did("CHMOD", i, at[i], Nowhere)
  /\ Mark(pid, i, "ATTRIB")
  /\ UNCHANGED <<at, open, inQueue, monitor>>

Closed(i) == \A pid \in Pids : <<pid, i>> \notin open

Unlink(i) ==
  /\ at[i] # Nowhere /\ Closed(i)
  /\ at' = [at EXCEPT ![i] = Nowhere]
  /\ Did("DELETE", i, at[i], Nowhere)
  /\ Notify(Watched([kind |-> "DELETE", path |-> at[i], cookie |-> 0]))
  /\ UNCHANGED <<open, fanQueue, monitor>>

(* The file that has the new path is gone without an event of its own.     *)
Rename(i, q) ==
  /\ at[i] \notin {Nowhere, q} /\ Fs[at[i]] = Fs[q]
  /\ \A j \in Inodes : at[j] = q => Closed(j)
  /\ at' = [j \in Inodes |-> IF j = i THEN q
                             ELSE IF at[j] = q THEN Nowhere ELSE at[j]]
  /\ Did("RENAME", i, at[i], q)
  /\ LET cookie == Len(ops) + 1
     IN  Notify(Watched([kind |-> "FROM", path |-> at[i], cookie |-> cookie])
                  \o Watched([kind |-> "TO", path |-> q, cookie |-> cookie]))
  /\ UNCHANGED <<open, fanQueue, monitor>>

UserNext ==
  \/ \E pid \in Pids, i \in Inodes :
       \/ \E p \in Paths : Create(pid, i, p)
       \/ Write(pid, i) \/ CloseWrite(pid, i) \/ Chmod(pid, i)
  \/ \E i \in Inodes : Unlink(i) \/ \E q \in Paths : Rename(i, q)

-----------------------------------------------------------------------------
(* The handlers.                                                           *)

(* mapActualMaskToCustomMask: a close alone maps to nothing.               *)
CustomMask(mask) == mask \cap Types

(* ShouldDisplayEvent, IsExcludedFile and isTemporaryOrFile.               *)
Displayed(p, mask) ==
  /\ Dir[p] # Unwatched
  /\ CustomMask(mask) \cap Filter[Dir[p]] # {}
  /\ p \notin Hidden

(* ComputeMd5 gives the empty string for a file it cannot open.            *)
Md5Empty(p) == Free(p)

Line(type, i, p, q) ==
  [type |-> type, inode |-> i, path |-> p, to |-> q,
   md5Empty |-> IF type = "RENAME" THEN Md5Empty(q)
                ELSE type # "DELETE" /\ Md5Empty(p)]

(* FimLogToDB::parseLogLine insists on an MD5 sum for a rename only.       *)
Parses(line) == ~(line.type = "RENAME" /\ line.md5Empty)

Log(lines) == logged' = logged \o lines

(* A poll that finds fanotify events goes on with them, else with inotify. *)
PollOnce ==
  /\ step = "poll"
  /\ fanBatch' = fanQueue /\ fanQueue' = <<>>
  /\ inReady' = (inQueue # <<>>)
  /\ step' = IF fanQueue # <<>> THEN "fan" ELSE IF inQueue # <<>> THEN "ino" ELSE "done"
  /\ IF fanQueue = <<>> THEN inBatch' = inQueue /\ inQueue' = <<>>
                        ELSE UNCHANGED <<inBatch, inQueue>>
  /\ UNCHANGED <<userVars, recent, renameMap, logged>>

(* Numbers written to: one more, and some that have become too old go.     *)
Purged(number, keep) == (recent \cap keep) \cup {number}

(* Mutant: every close counts as the end of a modification.                *)
FanotifyEventAnyClose(e, keep) ==
  LET p == at[e.inode]
      report == "CLOSE_WRITE" \in e.mask
  IN  IF p # Nowhere /\ Displayed(p, e.mask)
        THEN /\ recent' = recent \ {Number[e.inode]}
             /\ Log((IF report THEN <<Line("MODIFY", e.inode, p, Nowhere)>> ELSE <<>>)
                    \o (IF "ATTRIB" \in e.mask
                          THEN <<Line("ATTRIB", e.inode, p, Nowhere)>> ELSE <<>>))
        ELSE UNCHANGED <<recent, logged>>

(* An event of a file that is gone is skipped; the path is the one of now. *)
FanotifyEvent(e, keep) ==
  LET p == at[e.inode]
      number == Number[e.inode]
      modified == IF "MODIFY" \in e.mask THEN Purged(number, keep) ELSE recent
      report == "CLOSE_WRITE" \in e.mask /\ number \in modified
  IN  IF p # Nowhere /\ Displayed(p, e.mask)
        THEN /\ recent' = IF report THEN modified \ {number} ELSE modified
             /\ Log((IF report THEN <<Line("MODIFY", e.inode, p, Nowhere)>> ELSE <<>>)
                    \o (IF "ATTRIB" \in e.mask
                          THEN <<Line("ATTRIB", e.inode, p, Nowhere)>> ELSE <<>>))
        ELSE UNCHANGED <<recent, logged>>

ReadInotify == inBatch' = inQueue /\ inQueue' = <<>> /\ step' = "ino"

(* After the last fanotify event the inotify queue is read, if the poll    *)
(* saw something in it.                                                    *)
ProcessFanotifyEvent ==
  /\ step = "fan"
  /\ \E keep \in SUBSET Numbers : FanotifyEvent(Head(fanBatch), keep)
  /\ fanBatch' = Tail(fanBatch)
  /\ IF Len(fanBatch) > 1 THEN UNCHANGED <<step, inBatch, inQueue>>
     ELSE IF inReady THEN ReadInotify
     ELSE step' = "done" /\ UNCHANGED <<inBatch, inQueue>>
  /\ UNCHANGED <<userVars, fanQueue, inReady, renameMap>>

MovedFrom(cookie) == {m \in renameMap : m[1] = cookie}

(* Mutant: a move is paired with any that is waiting.                      *)
InotifyEventAnyCookie(e) ==
  CASE e.kind \in {"CREATE", "DELETE"} /\ Displayed(e.path, {e.kind}) ->
         Log(<<Line(e.kind, Nowhere, e.path, Nowhere)>>) /\ UNCHANGED renameMap
    [] e.kind = "FROM" /\ Displayed(e.path, {"RENAME"}) ->
         renameMap' = (renameMap \ MovedFrom(e.cookie)) \cup {<<e.cookie, e.path>>}
           /\ UNCHANGED logged
    [] e.kind = "TO" /\ Displayed(e.path, {"RENAME"}) /\ renameMap # {} ->
         LET m == CHOOSE m \in renameMap : TRUE
         IN  renameMap' = renameMap \ {m} /\ Log(<<Line("RENAME", Nowhere, m[2], e.path)>>)
    [] OTHER -> UNCHANGED <<renameMap, logged>>

(* Both halves of a rename must be displayed; a first half whose second is *)
(* not stays in the map.                                                   *)
InotifyEvent(e) ==
  CASE e.kind \in {"CREATE", "DELETE"} /\ Displayed(e.path, {e.kind}) ->
         Log(<<Line(e.kind, Nowhere, e.path, Nowhere)>>) /\ UNCHANGED renameMap
    [] e.kind = "FROM" /\ Displayed(e.path, {"RENAME"}) ->
         renameMap' = (renameMap \ MovedFrom(e.cookie)) \cup {<<e.cookie, e.path>>}
           /\ UNCHANGED logged
    [] e.kind = "TO" /\ Displayed(e.path, {"RENAME"}) /\ MovedFrom(e.cookie) # {} ->
         LET m == CHOOSE m \in MovedFrom(e.cookie) : TRUE
         IN  renameMap' = renameMap \ {m} /\ Log(<<Line("RENAME", Nowhere, m[2], e.path)>>)
    [] OTHER -> UNCHANGED <<renameMap, logged>>

(* Mutant: the events after the first of a buffer are dropped.             *)
ProcessInotifyEventOnce ==
  /\ step = "ino"
  /\ InotifyEvent(Head(inBatch))
  /\ inBatch' = <<>> /\ step' = "done"
  /\ UNCHANGED <<userVars, queues, fanBatch, inReady, recent>>

ProcessInotifyEvent ==
  /\ step = "ino"
  /\ InotifyEvent(Head(inBatch))
  /\ inBatch' = Tail(inBatch)
  /\ step' = IF Len(inBatch) > 1 THEN step ELSE "done"
  /\ UNCHANGED <<userVars, queues, fanBatch, inReady, recent>>

RoundOver == step = "done" /\ step' = "poll"
  /\ UNCHANGED <<userVars, queues, fanBatch, inBatch, inReady, recent, renameMap, logged>>

HandlerNext == PollOnce \/ ProcessFanotifyEvent \/ ProcessInotifyEvent

(* The monitor on its own, its lines going nowhere.                        *)
MonitorNext == UserNext \/ HandlerNext \/ RoundOver
MonitorSpec == MonitorInit /\ [][MonitorNext]_monitorVars

(* The process is gone: the queues and what was read from them are lost.   *)
MonitorDies ==
  /\ fanQueue' = <<>> /\ inQueue' = <<>>
  /\ step' = "poll" /\ fanBatch' = <<>> /\ inBatch' = <<>> /\ inReady' = FALSE
  /\ recent' = {} /\ renameMap' = {}
  /\ UNCHANGED <<userVars, logged>>

-----------------------------------------------------------------------------
(* Correctness, as long as the process lives.                              *)

(* The lines the operation o should give: both ends of a rename count.     *)
Expected(o) ==
  CASE o.op \in {"CREATE", "DELETE"} /\ Displayed(o.path, {o.op}) ->
         <<<<o.op, o.path, o.to>>>>
    [] o.op = "RENAME" /\ Displayed(o.path, {"RENAME"}) /\ Displayed(o.to, {"RENAME"}) ->
         <<<<"RENAME", o.path, o.to>>>>
    [] OTHER -> <<>>

AllExpected == FlattenSeq([n \in DOMAIN ops |-> Expected(ops[n])])

(* The names in a line about the directory entries.                        *)
EntryOf(line) ==
  IF line.type \in {"CREATE", "DELETE", "RENAME"}
    THEN <<<<line.type, line.path, line.to>>>> ELSE <<>>
EntryLines == FlattenSeq([n \in DOMAIN logged |-> EntryOf(logged[n])])

(* Creations, deletions and renames are logged exactly as they happened:   *)
(* what is logged is a prefix of what was done, in the same order, no half *)
(* of one rename paired with another, and all of it once the queues are    *)
(* empty, whatever came between a change and the handling of its event.    *)
EntryLinesExact ==
  /\ IsPrefix(EntryLines, AllExpected)
  /\ inQueue = <<>> /\ inBatch = <<>> => EntryLines = AllExpected

CountOps(op, is) ==
  Cardinality({n \in DOMAIN ops : ops[n].op = op /\ ops[n].inode \in is})
CountLines(type, is) ==
  Cardinality({n \in DOMAIN logged : logged[n].type = type /\ logged[n].inode \in is})
SameNumber(i) == {j \in Inodes : Number[j] = Number[i]}

(* Merging, purging and numbers left in mRecentModifiedInodes never make   *)
(* more of the changes than they were: no more attribute changes of a file *)
(* are logged than were made, and no more modifications of the files of    *)
(* one number, taken together, than there were writes to them.  It may be  *)
(* the wrong one of them: a number left by one file's write is taken for a *)
(* write to the next file that has it.                                     *)
ContentLinesJustified ==
  \A i \in Inodes :
    /\ CountLines("MODIFY", SameNumber(i)) <= CountOps("WRITE", SameNumber(i))
    /\ CountLines("ATTRIB", {i}) <= CountOps("CHMOD", {i})

(* A file in a directory configured for MODIFY that was written to and     *)
(* closed has a modification in the log once all events are handled.       *)
Idle == step = "poll" /\ fanQueue = <<>> /\ inQueue = <<>>
ModificationsReported ==
  Idle => \A i \in Inodes :
            /\ CountOps("WRITE", {i}) > 0 /\ Closed(i)
            /\ at[i] # Nowhere /\ Displayed(at[i], {"MODIFY"})
            /\ \A n \in DOMAIN ops : ops[n].inode = i => ops[n].op # "RENAME"
            => CountLines("MODIFY", {i}) > 0
=============================================================================
