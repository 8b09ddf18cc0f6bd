------------------------------ MODULE AuthLog ------------------------------
(***************************************************************************)
(* The analysis of rsyslog's log (RsyslogManager, RsyslogRule).  Lines are *)
(* analysed in the order of the log, by their own timestamps: failed       *)
(* logins are counted per user in a window of time, and who made a change  *)
(* to users or groups is inferred from the sudo entries among the last few *)
(* entries.  The first analyser that finds something malicious wins.       *)
(*                                                                         *)
(* An entry is a number of failures, a sudo command (accepted, or refused  *)
(* for wrong passwords) or a change; it also keeps who really did it,      *)
(* which the analysis cannot see.  Names of users are words.  A step is    *)
(* the reading of the next entry: when it is read makes no difference, but *)
(* that a line read while it is being written is read as two.              *)
(***************************************************************************)
EXTENDS Naturals, Sequences, FiniteSets

CONSTANTS
  Accounts,  \* users
  Commands,  \* commands that sudo is called with
  Changes,   \* changes to users and groups that the log tells of
  PasswdChanges, \* those of them that are of a password
  Mentions,  \* changes whose commands a user's sudo message contains, by
             \* user and command; anywhere, be it as a part of a word
  Allowed,   \* sudousers of the rule set
  Changers,  \* passwdchangers of the rule set
  Counts,    \* numbers of failures an entry may tell of
  Threshold, \* PASSWORD_FAIL_THRESHOLD
  FailWindow, \* PASSWORD_FAIL_TIME_WINDOW
  MaxRecent, \* MAX_RECENT_LOGS
  MaxEntries, MaxTime, MaxRestarts, \* bounds
  Root, NoOne

ASSUME AccountsAssumption ==
  Allowed \subseteq Accounts /\ PasswdChanges \subseteq Changes
    /\ Mentions \in [Accounts \X Commands -> SUBSET Changes]
    /\ Changers \subseteq Accounts \cup {Root} /\ Root \notin Accounts
    /\ NoOne \notin Accounts \cup {Root} \cup Commands \cup Changes
ASSUME FailureAssumption ==
  Counts \subseteq Nat \ {0} /\ Threshold \in Nat \ {0} /\ FailWindow \in Nat
ASSUME AuthBoundsAssumption ==
  MaxRecent \in Nat \ {0} /\ MaxEntries \in Nat /\ MaxTime \in Nat \ {0} /\ MaxRestarts \in Nat

VARIABLES
  entries,    \* entries read, each with its time
  recentLogs, \* the last ones, which InferChanger sees
  failureMap, \* for each user how many failures since when
  reports,    \* what was reported: entry, type and user
  time,       \* of the next entry
  since       \* entries read before the last start

authVars == <<entries, recentLogs, failureMap, reports, time, since>>

Actors == Accounts \cup {Root}
Entries ==
  [kind : {"failure"}, user : Accounts, count : Counts, command : {NoOne}]
    \cup [kind : {"sudo"}, user : Accounts, count : {0}, command : Commands]
    \cup [kind : {"refused"}, user : Accounts, count : Counts, command : Commands]
    \cup [kind : {"change"}, user : Actors, count : {0}, command : Changes]
    \cup [kind : {"half"}, user : {NoOne}, count : {0}, command : {NoOne}]

AuthTypeOK ==
  /\ \A i \in DOMAIN entries : entries[i].entry \in Entries /\ entries[i].time \in 1 .. MaxTime
  /\ Len(entries) <= MaxEntries
  /\ recentLogs \in Seq(Entries) /\ Len(recentLogs) <= MaxRecent
  /\ failureMap \in [Accounts -> [count : 0 .. Threshold - 1, first : 0 .. MaxTime]]
  /\ \A i \in DOMAIN reports :
       /\ reports[i].at \in DOMAIN entries
       /\ reports[i].type \in {"failures", "sudo", "change"}
       /\ reports[i].user \in Actors
  /\ time \in 1 .. MaxTime
  /\ since \in Seq(0 .. MaxEntries)

NoFailures == [a \in Accounts |-> [count |-> 0, first |-> 0]]

AuthInit ==
  /\ entries = <<>> /\ recentLogs = <<>> /\ failureMap = NoFailures
  /\ reports = <<>> /\ time = 1 /\ since = <<>>

-----------------------------------------------------------------------------
(* The analysers.                                                          *)

(* Failures an entry tells of, a refused sudo command among them.          *)
Failures(e) == IF e.kind \in {"failure", "refused"} THEN e.count ELSE 0

(* Mutant: a new window keeps the start of the old one.                    *)
CountedFromOldStart(e) ==
  LET f == failureMap[e.user]
  IN  IF f.count = 0 THEN [count |-> Failures(e), first |-> time]
      ELSE IF time - f.first > FailWindow THEN [f EXCEPT !.count = Failures(e)]
      ELSE [f EXCEPT !.count = @ + Failures(e)]

(* The user's failures with this entry: a new window begins with the first *)
(* failure after a report or after the last window is over.                *)
Counted(e) ==
  LET f == failureMap[e.user]
  IN  IF f.count = 0 \/ time - f.first > FailWindow
        THEN [count |-> Failures(e), first |-> time]
        ELSE [f EXCEPT !.count = @ + Failures(e)]

(* AnalyzePasswordFailureLog finds the threshold reached.                  *)
TooManyFailures(e) == Failures(e) > 0 /\ Counted(e).count >= Threshold

(* Mutant: the count goes on after a report.                               *)
FailureMapWithNoReset(e) ==
  IF Failures(e) = 0 THEN failureMap
  ELSE [failureMap EXCEPT ![e.user] =
          IF TooManyFailures(e) THEN [Counted(e) EXCEPT !.count = Threshold - 1] ELSE Counted(e)]

FailureMapWith(e) ==
  IF Failures(e) = 0 THEN failureMap
  ELSE [failureMap EXCEPT ![e.user] =
          IF TooManyFailures(e) THEN [Counted(e) EXCEPT !.count = 0] ELSE Counted(e)]

(* AnalyzeSudoLog: passwords refused are no use of sudo.                   *)
UnauthorisedSudo(e) == e.kind = "sudo" /\ e.user \notin Allowed

(* A sudo entry, accepted or refused, that contains a command of change x. *)
IsMention(e, x) ==
  e.kind \in {"sudo", "refused"} /\ x \in Mentions[<<e.user, e.command>>]
MentionsIn(logs, x) == {i \in DOMAIN logs : IsMention(logs[i], x)}

(* Mutant: the oldest sudo entry counts.                                   *)
InferChangerOldest(logs, x) ==
  LET found == MentionsIn(logs, x)
  IN  IF found = {} THEN Root
      ELSE logs[CHOOSE i \in found : \A j \in found : j >= i].user

(* InferChanger: the latest such entry names the changer.                  *)
InferChanger(logs, x) ==
  LET found == MentionsIn(logs, x)
  IN  IF found = {} THEN Root
      ELSE logs[CHOOSE i \in found : \A j \in found : j <= i].user

(* Mutant: nothing is dropped from the front.                              *)
RecentWithAll(e) == Append(recentLogs, e)

(* The last entries, with this one.                                        *)
RecentWith(e) ==
  LET all == Append(recentLogs, e)
  IN  IF Len(all) > MaxRecent THEN Tail(all) ELSE all

(* What the first analyser that finds something reports of the entry; a    *)
(* change of a password only if it is not one of Changers' that made it.   *)
(* Failures are reported of the user they were counted for, as the         *)
(* description says; the name stored with it (ruser, or none) is left out. *)
ReportOf(e) ==
  LET report(type, user) == <<[at |-> Len(entries) + 1, type |-> type, user |-> user]>>
  IN  IF TooManyFailures(e) THEN report("failures", e.user)
      ELSE IF UnauthorisedSudo(e) THEN report("sudo", e.user)
      ELSE IF e.kind # "change" THEN <<>>
      ELSE LET changer == InferChanger(RecentWith(e), e.command)
           IN  IF e.command \in PasswdChanges /\ changer \in Changers THEN <<>>
               ELSE report("change", changer)

Analyze(e) ==
  /\ Len(entries) < MaxEntries
  /\ entries' = Append(entries, [entry |-> e, time |-> time])
  /\ recentLogs' = RecentWith(e)
  /\ failureMap' = FailureMapWith(e)
  /\ reports' = reports \o ReportOf(e)
  /\ UNCHANGED <<time, since>>

(* A line read before it was complete: its first part is an entry that     *)
(* tells nothing or, like the second part, none.                           *)
ReadHalf ==
  Analyze([kind |-> "half", user |-> NoOne, count |-> 0, command |-> NoOne])

Later == time < MaxTime /\ time' = time + 1
  /\ UNCHANGED <<entries, recentLogs, failureMap, reports, since>>

(* The process ends, by a report that cannot be stored or otherwise, and a *)
(* new one goes on at the end of the log.                                  *)
AuthRestart ==
  /\ Len(since) < MaxRestarts
  /\ since' = Append(since, Len(entries))
  /\ recentLogs' = <<>> /\ failureMap' = NoFailures
  /\ UNCHANGED <<entries, reports, time>>

-----------------------------------------------------------------------------
(* What users do.                                                          *)

Fail(a, n) == Analyze([kind |-> "failure", user |-> a, count |-> n, command |-> NoOne])
Sudo(a, c) == Analyze([kind |-> "sudo", user |-> a, count |-> 0, command |-> c])
SudoRefused(a, c, n) ==
  Analyze([kind |-> "refused", user |-> a, count |-> n, command |-> c])

(* By root, or by a user: through a sudo command that says so or one that  *)
(* does not (a shell, a script), or without sudo, as of his own password.  *)
MakeChange(a, x) == Analyze([kind |-> "change", user |-> a, count |-> 0, command |-> x])

AuthNext ==
  \/ \E a \in Accounts :
       \/ \E n \in Counts : Fail(a, n)
       \/ \E c \in Commands : Sudo(a, c) \/ \E n \in Counts : SudoRefused(a, c, n)
  \/ \E a \in Actors, x \in Changes : MakeChange(a, x)
  \/ ReadHalf \/ Later \/ AuthRestart

AuthSpec == AuthInit /\ [][AuthNext]_authVars

-----------------------------------------------------------------------------
(* Correctness.                                                            *)

(* Failures of user a in the entries from i to j.                          *)
FailuresOf(a, i, j) ==
  LET f[k \in 0 .. Len(entries)] ==
        IF k < i THEN 0
        ELSE f[k - 1] + (IF entries[k].entry.user = a THEN Failures(entries[k].entry) ELSE 0)
  IN  IF j < i THEN 0 ELSE f[j]

ReportedAt(a, i) ==
  \E r \in DOMAIN reports :
    reports[r].at = i /\ reports[r].type = "failures" /\ reports[r].user = a
LastReportBefore(a, i) ==
  LET earlier == {0} \cup {k \in 1 .. i - 1 : ReportedAt(a, k)}
  IN  CHOOSE k \in earlier : \A l \in earlier : l <= k

(* A report of failures is justified: that many failures of the user, all  *)
(* within the window and none of them reported before.                     *)
FailureReportsJustified ==
  \A a \in Accounts, i \in DOMAIN entries :
    ReportedAt(a, i) =>
      \E j \in LastReportBefore(a, i) + 1 .. i :
        /\ entries[i].time - entries[j].time <= FailWindow
        /\ FailuresOf(a, j, i) >= Threshold

(* A burst is reported: windows begin with a failure and do not slide, but *)
(* twice the threshold less one failures of a user within the length of a  *)
(* window never go without a report between them.                          *)
BurstsReported ==
  \A a \in Accounts, j \in DOMAIN entries : \A i \in j .. Len(entries) :
    /\ entries[i].time - entries[j].time <= FailWindow
    /\ \A k \in j .. i : ~ReportedAt(a, k)
    /\ \A r \in DOMAIN since : ~(j <= since[r] /\ since[r] < i)
    => FailuresOf(a, j, i) < 2 * Threshold - 1

(* Whom a change is put down to: the one who made it, if among the last    *)
(* entries since the restart the latest whose message contains a command   *)
(* of it is a sudo entry of his or, when it was root, there is none.  That *)
(* leaves out: a user who made it by a command that does not say so, or    *)
(* his own password without sudo; his entry too many entries or a restart  *)
(* ago; and another user's later entry that contains the command, even if  *)
(* it was refused, or only as part of a longer word.  Else every change is *)
(* reported with his name, and only those of passwords by Changers are not.*)
Visible(i) ==
  {j \in 1 .. i : i - j < MaxRecent /\ \A r \in DOMAIN since : ~(j <= since[r] /\ since[r] < i)}
SudoEntries(i, x) == {j \in Visible(i) : IsMention(entries[j].entry, x)}
Known(i) ==
  LET e == entries[i].entry
      sudos == SudoEntries(i, e.command)
  IN  IF e.user = Root THEN sudos = {}
      ELSE \E j \in sudos :
             /\ entries[j].entry.user = e.user
             /\ \A k \in sudos : k > j => entries[k].entry.user = e.user
ChangersRight ==
  \A i \in DOMAIN entries :
    LET e == entries[i].entry
    IN  e.kind = "change" /\ Known(i) =>
          IF e.command \in PasswdChanges /\ e.user \in Changers
            THEN \A r \in DOMAIN reports : reports[r].at # i
            ELSE [at |-> i, type |-> "change", user |-> e.user]
                   \in {reports[r] : r \in DOMAIN reports}
=============================================================================
