---------------------------- MODULE FimLogStore ----------------------------
(***************************************************************************)
(* From the log of the real-time file monitor into the database.  One      *)
(* thread writes the log and, once a minute, reads its current file from   *)
(* the start and inserts the lines with a timestamp later than the latest  *)
(* one in the database (RealtimeMonitorDaemon::Run, FimLogToDB).  The log  *)
(* rotates by size, the clock may be set back, inserts may fail, and the   *)
(* process may die between any two steps.                                  *)
(*                                                                         *)
(* A line is its number, its timestamp and whether parseLogLine accepts it.*)
(***************************************************************************)
EXTENDS Integers, Sequences, FiniteSets

CONSTANTS
  FileSize,   \* lines that fit into a log file (5 MB in the code)
  Minute,     \* rounds of the loop between two passes over the log
  MaxLines,   \* bound on the lines written, those of restarts left out
  MaxClock,   \* bound on the clock, in rounds
  MaxFaults   \* bound on deaths, failing calls and clock corrections

ASSUME FileSizeAssumption == FileSize \in Nat \ {0}
ASSUME MinuteAssumption == Minute \in Nat \ {0}
ASSUME LogBoundsAssumption ==
  MaxLines \in Nat \ {0} /\ MaxClock \in Nat \ {0} /\ MaxFaults \in Nat

VARIABLES
  log,      \* lines of the current log file
  rows,     \* lines in the database, in order of insertion
  mark,     \* lastSavedTime; 0 stands for 1970
  now,      \* the clock
  stage,    \* of the thread: "poll", "insert", "latest" or "down"
  cursor,   \* line of the file the pass is at
  rounds,   \* rounds since the last pass
  written,  \* lines written so far
  faults,   \* deaths, failing calls and clock corrections so far
  starts,   \* history: for each start, the lines written before it
  setBack,  \* history: the clock was set back
  missed    \* history: lines whose insert failed

storeVars == <<log, rows, mark, now, stage, cursor, rounds, written, faults,
               starts, setBack, missed>>

Ids == 1 .. MaxLines + MaxFaults
Lines == [id : Ids, time : 1 .. MaxClock, parses : BOOLEAN]

StoreTypeOK ==
  /\ log \in Seq(Lines) /\ Len(log) <= FileSize
  /\ rows \in Seq(Lines)
  /\ mark \in 0 .. MaxClock
  /\ now \in 1 .. MaxClock
  /\ stage \in {"poll", "insert", "latest", "down"}
  /\ cursor \in 1 .. FileSize + 1
  /\ rounds \in 0 .. Minute - 1
  /\ written \in Ids
  /\ faults \in 0 .. MaxFaults
  /\ starts \in Seq({0} \cup Ids)
  /\ setBack \in BOOLEAN
  /\ missed \subseteq Ids

(* New lines, which parse as parses tells, numbered and stamped.           *)
Stamped(parses) ==
  [i \in 1 .. Len(parses) |->
     [id |-> written + i, time |-> now, parses |-> parses[i]]]

(* Mutant: the log never rotates.                                          *)
RotatedNever(new) == log \o new

(* The rotating sink: a line that does not fit starts a new file.          *)
Rotated(new) ==
  IF Len(log) + Len(new) <= FileSize
    THEN log \o new
    ELSE SubSeq(new, FileSize - Len(log) + 1, Len(new))

StoreInit ==
  /\ log = <<[id |-> 1, time |-> 1, parses |-> FALSE]>>
  /\ rows = <<>> /\ mark = 0 /\ now = 1
  /\ stage = "poll" /\ cursor = 1 /\ rounds = 0 /\ written = 1 /\ faults = 0
  /\ starts = <<0>> /\ setBack = FALSE /\ missed = {}

-----------------------------------------------------------------------------
(* The thread.                                                             *)

(* The monitor logs what it saw.  None at the bound of the clock, where    *)
(* lines of different rounds would get the same time.                      *)
WriteLines(parses) ==
  /\ stage = "poll" /\ now < MaxClock
  /\ written + Len(parses) <= MaxLines
  /\ log' = Rotated(Stamped(parses))
  /\ written' = written + Len(parses)
  /\ UNCHANGED <<rows, mark, now, stage, cursor, rounds, faults, starts,
                 setBack, missed>>

(* The loop sleeps 100 ms between two rounds.                              *)
Sleep == stage' = "poll" /\ now' = IF now < MaxClock THEN now + 1 ELSE now

(* The poll is over; every Minute rounds a pass over the log begins.       *)
EndPoll ==
  /\ stage = "poll"
  /\ IF rounds + 1 = Minute
       THEN stage' = "insert" /\ cursor' = 1 /\ rounds' = 0 /\ UNCHANGED now
       ELSE rounds' = rounds + 1 /\ Sleep /\ UNCHANGED cursor
  /\ UNCHANGED <<log, rows, mark, written, faults, starts, setBack, missed>>

ToBeStored(line) == line.parses /\ line.time > mark

(* Mutant: the line at the cursor is taken whatever its time.              *)
StoreLineAgain ==
  /\ stage = "insert" /\ cursor <= Len(log)
  /\ cursor' = cursor + 1
  /\ rows' = IF log[cursor].parses THEN Append(rows, log[cursor]) ELSE rows
  /\ UNCHANGED <<log, mark, now, stage, rounds, written, faults, starts,
                 setBack, missed>>

StoreLine ==
  /\ stage = "insert" /\ cursor <= Len(log)
  /\ cursor' = cursor + 1
  /\ rows' = IF ToBeStored(log[cursor]) THEN Append(rows, log[cursor]) ELSE rows
  /\ UNCHANGED <<log, mark, now, stage, rounds, written, faults, starts,
                 setBack, missed>>

(* The insert throws; it is reported and the pass goes on.                 *)
InsertFails ==
  /\ stage = "insert" /\ cursor <= Len(log) /\ ToBeStored(log[cursor])
  /\ faults < MaxFaults /\ faults' = faults + 1
  /\ missed' = missed \cup {log[cursor].id}
  /\ cursor' = cursor + 1
  /\ UNCHANGED <<log, rows, mark, now, stage, rounds, written, starts, setBack>>

EndOfLog ==
  /\ stage = "insert" /\ cursor > Len(log)
  /\ stage' = "latest"
  /\ UNCHANGED <<log, rows, mark, now, cursor, rounds, written, faults, starts,
                 setBack, missed>>

Times(s) == {s[i].time : i \in DOMAIN s}
Latest(s) == IF s = <<>> THEN 0 ELSE CHOOSE t \in Times(s) : \A u \in Times(s) : u <= t

(* FimLogToDB::GetLatestTimestamp.                                         *)
GetLatestTimestamp ==
  /\ stage = "latest"
  /\ mark' = Latest(rows)
  /\ Sleep
  /\ UNCHANGED <<log, rows, cursor, rounds, written, faults, starts, setBack, missed>>

-----------------------------------------------------------------------------
(* Faults.                                                                 *)

(* The process is killed anywhere, or the select for the latest timestamp  *)
(* throws, which nobody catches.                                           *)
StoreDies ==
  /\ stage # "down" /\ faults < MaxFaults
  /\ stage' = "down" /\ faults' = faults + 1
  /\ UNCHANGED <<log, rows, mark, now, cursor, rounds, written, starts, setBack, missed>>

(* Mutant: the first pass after a start goes on from the database.         *)
StoreStartsFromRows ==
  /\ stage = "down"
  /\ mark' = Latest(rows) /\ rounds' = 0
  /\ log' = Rotated(Stamped(<<FALSE>>))
  /\ written' = written + 1
  /\ starts' = Append(starts, written)
  /\ Sleep
  /\ UNCHANGED <<rows, cursor, faults, setBack, missed>>

(* A start forgets the mark and logs a line that is no event.              *)
StoreStarts ==
  /\ stage = "down"
  /\ mark' = 0 /\ rounds' = 0
  /\ log' = Rotated(Stamped(<<FALSE>>))
  /\ written' = written + 1
  /\ starts' = Append(starts, written)
  /\ Sleep
  /\ UNCHANGED <<rows, cursor, faults, setBack, missed>>

(* The clock is set back.                                                  *)
SetClockBack ==
  /\ faults < MaxFaults /\ faults' = faults + 1
  /\ \E t \in 1 .. now - 1 : now' = t
  /\ setBack' = TRUE
  /\ UNCHANGED <<log, rows, mark, stage, cursor, rounds, written, starts, missed>>

Pass == StoreLine \/ EndOfLog \/ GetLatestTimestamp
StoreFault == InsertFails \/ StoreDies \/ SetClockBack

StoreNext ==
  \/ \E parses \in {<<TRUE>>, <<FALSE>>} : WriteLines(parses)
  \/ EndPoll \/ Pass \/ StoreStarts \/ StoreFault

StoreSpec == StoreInit /\ [][StoreNext]_storeVars

-----------------------------------------------------------------------------
(* Correctness.                                                            *)

Copies(id) == Cardinality({i \in DOMAIN rows : rows[i].id = id})
IsStored(id) == \E i \in DOMAIN rows : rows[i].id = id

(* The starts whose passes can have seen a line: the one in which it was   *)
(* written and those after it.                                             *)
StartsSeeing(id) ==
  Cardinality({k \in DOMAIN starts : k = Len(starts) \/ starts[k + 1] >= id})

(* However often the log is read, a line gets no more rows than there were *)
(* starts since it was written: the passes of one start never store it     *)
(* twice, also when the clock is set back or inserts fail.                 *)
StoredOncePerStart == \A id \in 1 .. written : Copies(id) <= StartsSeeing(id)

(* The mark passes over no line: as long as the clock was not set back and *)
(* no insert failed, every line of the file up to the mark is stored, also *)
(* after a death in the middle of a pass.                                  *)
NothingPassedOver ==
  ~setBack /\ missed = {} =>
    \A i \in DOMAIN log :
      log[i].parses /\ log[i].time <= mark => IsStored(log[i].id)
=============================================================================
