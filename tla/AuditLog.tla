------------------------------ MODULE AuditLog ------------------------------
(***************************************************************************)
(* The analysis of the audit log (AuditLogManager).  Each event of the     *)
(* audit daemon is several lines, which may be mixed with those of other   *)
(* events; a thread reads one line per round, collects the lines of an     *)
(* event in a record, and as soon as the record has a SYSCALL line and an  *)
(* EXECVE or PATH line compares it with the rules and drops it.  What the  *)
(* rules detect of one user within a time window may add up to a scenario. *)
(*                                                                         *)
(* Of a line only event and kind are kept; of a rule, for each event whose *)
(* lines meet its conditions, its key and the kinds of lines it looks at.  *)
(***************************************************************************)
EXTENDS Naturals, Sequences, FiniteSets

CONSTANTS
  Events, Users,
  User,       \* user of each event
  LinesOf,    \* kinds of the lines of each event, in order
  RulesOf,    \* rules each event meets: key and kinds of lines needed
  Scenario,   \* shmScenario, a sequence of keys
  Window,     \* seconds in which a scenario must happen (300 in the code)
  MaxLag,     \* bound on the lines written and not read
  MaxSeconds, \* bound on the clock
  MaxDeaths   \* bound on deaths of the process

Kinds == {"SYSCALL", "EXECVE", "PARENT", "PATH", "OTHER"}

ASSUME EventsAssumption ==
  /\ User \in [Events -> Users]
  /\ \A e \in Events :
       /\ LinesOf[e] \in Seq(Kinds)
       /\ Len(RulesOf[e]) \in Nat /\ DOMAIN RulesOf[e] = 1 .. Len(RulesOf[e])
       /\ \A i \in DOMAIN RulesOf[e] : RulesOf[e][i].needs \subseteq Kinds
       /\ \A i, j \in DOMAIN LinesOf[e] :
            LinesOf[e][i] = "SYSCALL" /\ LinesOf[e][j] = "SYSCALL" => i = j
ASSUME ScenarioAssumption ==
  Len(Scenario) \in Nat \ {0} /\ DOMAIN Scenario = 1 .. Len(Scenario)
ASSUME AuditBoundsAssumption ==
  Window \in Nat /\ MaxLag \in Nat /\ MaxSeconds \in Nat \ {0} /\ MaxDeaths \in Nat

VARIABLES
  auditLog,   \* lines written
  half,       \* the last of them is not completely written yet
  pos,        \* lines read
  first,      \* lines that were there when the reader started
  lost,       \* the stream is at position -1 and fails for ever
  records,    \* kinds seen of each event, or NoRecord
  comparing,  \* complete record and the rule to compare it with next
  detections, \* what the rules detected: event, rule and time
  recentEvents, \* positions in detections of what may add up to a scenario
  alarms,     \* scenarios detected: user and time
  seconds,    \* the clock
  alive, deaths

found == <<detections, recentEvents, alarms>>
auditVars == <<auditLog, half, pos, first, lost, records, comparing, found,
               seconds, alive, deaths>>

NoRecord == {"none"}

Seen(rs, e) == IF rs[e] = NoRecord THEN {} ELSE rs[e]

Complete(rs, e) ==
  "SYSCALL" \in Seen(rs, e) /\ {"EXECVE", "PATH"} \cap Seen(rs, e) # {}

AuditTypeOK ==
  /\ auditLog \in Seq([event : Events, kind : Kinds])
  /\ half \in BOOLEAN /\ lost \in BOOLEAN /\ alive \in BOOLEAN
  /\ pos \in 0 .. Len(auditLog) /\ first \in 0 .. Len(auditLog)
  /\ records \in [Events -> (SUBSET Kinds) \cup {NoRecord}]
  /\ comparing # <<>> =>
       /\ comparing[1] \in Events /\ Complete(records, comparing[1])
       /\ comparing[2] \in 1 .. Len(RulesOf[comparing[1]]) + 1
  /\ \A i \in DOMAIN detections :
       /\ detections[i].event \in Events /\ detections[i].time \in 1 .. MaxSeconds
       /\ detections[i].rule \in DOMAIN RulesOf[detections[i].event]
  /\ recentEvents \subseteq DOMAIN detections
  /\ alarms \in Seq([user : Users, time : 1 .. MaxSeconds])
  /\ seconds \in 1 .. MaxSeconds /\ deaths \in 0 .. MaxDeaths

AuditInit ==
  /\ auditLog = <<>> /\ half = FALSE /\ pos = 0 /\ first = 0 /\ lost = FALSE
  /\ records = [e \in Events |-> NoRecord] /\ comparing = <<>>
  /\ detections = <<>> /\ recentEvents = {} /\ alarms = <<>>
  /\ seconds = 1 /\ alive = TRUE /\ deaths = 0

-----------------------------------------------------------------------------
(* The audit daemon.                                                       *)

Written(e) == {n \in DOMAIN auditLog : auditLog[n].event = e}
reader == <<pos, first, lost, records, comparing, found, alive, deaths>>

(* The next line of an event, in one piece or with its end still missing.  *)
WriteLine(e) ==
  /\ ~half
  /\ Cardinality(Written(e)) < Len(LinesOf[e])
  /\ alive => Len(auditLog) - pos < MaxLag
  /\ auditLog' = Append(auditLog, [event |-> e, kind |-> LinesOf[e][Cardinality(Written(e)) + 1]])
  /\ half' \in BOOLEAN
  /\ UNCHANGED <<reader, seconds>>

FinishLine == half /\ half' = FALSE /\ UNCHANGED <<auditLog, reader, seconds>>

PassSecond ==
  /\ seconds < MaxSeconds /\ seconds' = seconds + 1
  /\ UNCHANGED <<auditLog, half, reader>>

-----------------------------------------------------------------------------
(* A round of the reader.                                                  *)

(* parseLogLine: a PATH line of a parent directory is passed over; the     *)
(* record is there all the same.                                           *)
Collect(line) ==
  [records EXCEPT ![line.event] =
     Seen(records, line.event) \cup ({line.kind} \ {"PARENT", "OTHER"})]

KeyOf(d) == RulesOf[d.event][d.rule].key

(* What of a user's may still be part of a scenario.                       *)
RecentOf(events, ds, u, t) ==
  {d \in events : User[ds[d].event] = u /\ t - ds[d].time <= Window}

(* Mutant: a key that is not the next one of the scenario starts it anew.  *)
ScenarioMatchConsecutive(events, ds, u, t) ==
  LET mine == RecentOf(events, ds, u, t)
      matched[i \in 0 .. Len(ds)] ==
        IF i = 0 THEN 0
        ELSE IF i \notin mine THEN matched[i - 1]
        ELSE IF matched[i - 1] < Len(Scenario) /\ KeyOf(ds[i]) = Scenario[matched[i - 1] + 1]
          THEN matched[i - 1] + 1 ELSE 0
  IN  matched[Len(ds)] = Len(Scenario)

(* checkScenarioMatch: what of the user is not too old is scanned once, in *)
(* the order of detection.                                                 *)
ScenarioMatch(events, ds, u, t) ==
  LET mine == RecentOf(events, ds, u, t)
      matched[i \in 0 .. Len(ds)] ==
        IF i = 0 THEN 0
        ELSE IF /\ i \in mine /\ matched[i - 1] < Len(Scenario)
                /\ KeyOf(ds[i]) = Scenario[matched[i - 1] + 1]
          THEN matched[i - 1] + 1 ELSE matched[i - 1]
  IN  matched[Len(ds)] = Len(Scenario)

(* Mutant: what made up a scenario may make up the next one.               *)
WithoutUsedNone(events, ds, u, t) == events

(* After an alarm all the user did within the window is forgotten.         *)
WithoutUsed(events, ds, u, t) == events \ RecentOf(events, ds, u, t)

CanRead == alive /\ comparing = <<>> /\ ~lost /\ pos < Len(auditLog)

(* A line goes to the record of its event, the only one that can be        *)
(* complete now; it is compared with the rules from the first one on.      *)
TakeLine(line) ==
  /\ records' = Collect(line)
  /\ comparing' = IF Complete(Collect(line), line.event) THEN <<line.event, 1>> ELSE <<>>

ReadLine ==
  /\ CanRead /\ (half => pos + 1 < Len(auditLog))
  /\ pos' = pos + 1 /\ TakeLine(auditLog[pos + 1])
  /\ UNCHANGED <<auditLog, half, first, lost, found, seconds, alive, deaths>>

(* A line still being written is read as far as it goes, which may be far  *)
(* enough to count.  It ends the stream: tellg gives -1, to which the next *)
(* read that finds nothing goes back in vain.                              *)
ReadHalfLine ==
  /\ CanRead /\ half /\ pos + 1 = Len(auditLog)
  /\ pos' = pos + 1 /\ lost' = TRUE
  /\ TakeLine(auditLog[pos + 1]) \/ UNCHANGED <<records, comparing>>
  /\ UNCHANGED <<auditLog, half, first, found, seconds, alive, deaths>>

(* The rule is met if all the fields it looks at are there: the detection  *)
(* is stored and told to the users, and the scenario is checked with it.   *)
CompareWithRule ==
  /\ alive /\ comparing # <<>>
  /\ LET e == comparing[1]
         i == comparing[2]
         ds == Append(detections, [event |-> e, rule |-> i, time |-> seconds])
         events == recentEvents \cup {Len(ds)}
     IN  /\ i <= Len(RulesOf[e])
         /\ comparing' = <<e, i + 1>>
         /\ \/ ~(RulesOf[e][i].needs \subseteq records[e]) /\ UNCHANGED found
            \/ /\ RulesOf[e][i].needs \subseteq records[e]
               /\ detections' = ds
               /\ IF ScenarioMatch(events, ds, User[e], seconds)
                    THEN /\ alarms' = Append(alarms, [user |-> User[e], time |-> seconds])
                         /\ recentEvents' = WithoutUsed(events, ds, User[e], seconds)
                    ELSE recentEvents' = events /\ UNCHANGED alarms
  /\ UNCHANGED <<auditLog, half, pos, first, lost, records, seconds, alive, deaths>>

(* Mutant: the record stays.                                               *)
DropRecordKept == records' = records

DropRecord == records' = [records EXCEPT ![comparing[1]] = NoRecord]

(* After the last rule the record is dropped.                              *)
EndRecord ==
  /\ alive /\ comparing # <<>> /\ comparing[2] > Len(RulesOf[comparing[1]])
  /\ DropRecord /\ comparing' = <<>>
  /\ UNCHANGED <<auditLog, half, pos, first, lost, found, seconds, alive, deaths>>

(* The daemon is stopped or killed, or storing a detection throws; a new   *)
(* one starts at the end of the file.                                      *)
AuditDies ==
  /\ alive /\ deaths < MaxDeaths
  /\ alive' = FALSE /\ deaths' = deaths + 1
  /\ records' = [e \in Events |-> NoRecord] /\ comparing' = <<>>
  /\ recentEvents' = {}
  /\ UNCHANGED <<auditLog, half, pos, first, lost, detections, alarms, seconds>>

AuditStarts ==
  /\ ~alive /\ ~half /\ alive' = TRUE /\ lost' = FALSE
  /\ pos' = Len(auditLog) /\ first' = Len(auditLog)
  /\ UNCHANGED <<auditLog, half, records, comparing, found, seconds, deaths>>

ReadStep == ReadLine \/ ReadHalfLine \/ CompareWithRule \/ EndRecord

AuditNext ==
  \/ \E e \in Events : WriteLine(e)
  \/ FinishLine \/ PassSecond \/ ReadStep \/ AuditDies \/ AuditStarts

AuditSpec == AuditInit /\ [][AuditNext]_auditVars

-----------------------------------------------------------------------------
(* Correctness.                                                            *)

(* What the reader should make of the lines it has read: the event is      *)
(* compared with its rule at its first line that completes it, by what its *)
(* lines up to there say.                                                  *)
KindsUpTo(e, n) == {auditLog[k].kind : k \in {j \in Written(e) : first < j /\ j <= n}}
CompleteAt(e, n) ==
  "SYSCALL" \in KindsUpTo(e, n) /\ {"EXECVE", "PATH"} \cap KindsUpTo(e, n) # {}
ShouldDetect(e, i) ==
  \E n \in first + 1 .. pos :
    /\ CompleteAt(e, n) /\ ~CompleteAt(e, n - 1)
    /\ RulesOf[e][i].needs \subseteq KindsUpTo(e, n) \ {"PARENT", "OTHER"}

TimesDetected(e, i) ==
  Cardinality({d \in DOMAIN detections : detections[d].event = e /\ detections[d].rule = i})

(* However the lines of several events are mixed, an event is detected by  *)
(* a rule once or not at all, and exactly when its own lines say so; a     *)
(* record that comes up again after it was dropped is never compared a     *)
(* second time.                                                            *)
DetectionsExact ==
  ~lost /\ deaths = 0 /\ comparing = <<>> =>
    \A e \in Events : \A i \in DOMAIN RulesOf[e] :
      TimesDetected(e, i) = IF ShouldDetect(e, i) THEN 1 ELSE 0

(* Scanning once finds every scenario: no choice of detections of a user   *)
(* in order, within the window before the user's last one, that makes up   *)
(* the scenario is left without an alarm.  Part of ScenariosExact.         *)
MineOf(u) == {d \in recentEvents : User[detections[d].event] = u}
NoScenarioMissed ==
  \A u \in Users : \A last \in MineOf(u) :
    ~\E choice \in [DOMAIN Scenario -> MineOf(u)] :
       \A k \in DOMAIN Scenario :
         /\ KeyOf(detections[choice[k]]) = Scenario[k]
         /\ choice[k] <= last
         /\ detections[last].time - detections[choice[k]].time <= Window
         /\ k > 1 => choice[k - 1] < choice[k]

(* No detection serves two alarms, nor one user's those of another: for    *)
(* each step of the scenario a user has as many detections of its key as   *)
(* alarms need.  Part of ScenariosExact.                                   *)
DetectionsServeOnce ==
  \A u \in Users, k \in DOMAIN Scenario :
    LET steps == {l \in DOMAIN Scenario : Scenario[l] = Scenario[k]}
        mine == {d \in DOMAIN detections :
                    User[detections[d].event] = u /\ KeyOf(detections[d]) = Scenario[k]}
    IN  Cardinality({i \in DOMAIN alarms : alarms[i].user = u}) * Cardinality(steps)
          <= Cardinality(mine)

(* Users are alarmed about the scenarios there are: none is missed, and    *)
(* none counted twice because what an alarm was given for is not forgotten *)
(* or another user's detections are taken for it.                          *)
ScenariosExact == NoScenarioMissed /\ DetectionsServeOnce
=============================================================================
