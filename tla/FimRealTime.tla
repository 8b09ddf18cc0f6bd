---------------------------- MODULE FimRealTime ----------------------------
(***************************************************************************)
(* The monitor thread as a whole (RealtimeMonitorDaemon::Run): a round of  *)
(* RealTimeMonitor, whose lines go into the log of FimLogStore, and once a *)
(* minute a pass that stores the log.                                      *)
(***************************************************************************)
EXTENDS RealTimeMonitor, FimLogStore

CONSTANT MaxEvents  \* bound on what users do and what goes wrong, together
ASSUME MaxEventsAssumption == MaxEvents \in Nat
(* One event gives at most two lines, and a file has room for them.        *)
ASSUME RoomAssumption == FileSize > 1

realTimeVars == <<monitorVars, storeVars>>

RealTimeInit == MonitorInit /\ StoreInit

MoreEvents == Len(ops) + faults < MaxEvents

(* What processes do while the monitor is down leaves no event and is left *)
(* out; so is what they do when the clock has no room for the lines.       *)
UserStep ==
  /\ MoreEvents /\ UserNext
  /\ stage # "down" /\ now < MaxClock - 1
  /\ UNCHANGED storeVars

NewLines == SubSeq(logged', Len(logged) + 1, Len(logged'))
NewParses == [n \in DOMAIN NewLines |-> Parses(NewLines[n])]

HandlerStep ==
  /\ stage = "poll"
  /\ HandlerNext
  /\ IF logged' = logged THEN UNCHANGED storeVars ELSE WriteLines(NewParses)

EndRound == RoundOver /\ EndPoll
PassStep == Pass /\ UNCHANGED monitorVars
Dies == StoreDies /\ MonitorDies
FaultStep ==
  /\ MoreEvents
  /\ \/ (InsertFails \/ SetClockBack) /\ UNCHANGED monitorVars
     \/ Dies
Starts == StoreStarts /\ UNCHANGED monitorVars

RealTimeNext == UserStep \/ HandlerStep \/ EndRound \/ PassStep \/ FaultStep \/ Starts

(* The thread is scheduled; nothing is assumed of users, faults, starts.   *)
ThreadStep == HandlerStep \/ EndRound \/ PassStep

RealTimeSpec ==
  RealTimeInit /\ [][RealTimeNext]_realTimeVars /\ WF_realTimeVars(ThreadStep)

-----------------------------------------------------------------------------
(* Correctness.                                                            *)

RealTimeTypeOK == MonitorTypeOK /\ StoreTypeOK

(* The log tells of the directory entries exactly as long as the process   *)
(* lives; what happened around its death is lost.                          *)
EntriesExactWhileAlive == Len(starts) = 1 /\ stage # "down" => EntryLinesExact

(* The line of the n-th change that is to be logged: its place among all   *)
(* lines, after "Logging started".                                         *)
IsEntryLine(k) == logged[k].type \in {"CREATE", "DELETE", "RENAME"}
LineOf(n) ==
  {k \in DOMAIN logged : IsEntryLine(k)
     /\ Cardinality({j \in 1 .. k : IsEntryLine(j)}) = n}
HasRow(n) == \E k \in LineOf(n) : IsStored(k + 1)
Unparsable(n) == \E k \in LineOf(n) : ~Parses(logged[k])

(* The process died, the file rotated, an insert failed or the clock was   *)
(* set back.                                                               *)
Disturbed ==
  stage = "down" \/ Len(starts) > 1 \/ setBack \/ missed # {} \/ written > FileSize

(* From a change to its row: every creation, deletion and rename that is   *)
(* to be displayed ends as a row of the database, but for a rename whose   *)
(* target was gone when it was hashed and for the disturbances above.      *)
ChangesStored ==
  \A n \in 1 .. MaxOps :
    Len(AllExpected) >= n ~> HasRow(n) \/ Unparsable(n) \/ Disturbed
=============================================================================
