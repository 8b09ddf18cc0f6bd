--------------------------- MODULE MCSingleThread ---------------------------
(* Instances of the components of a single thread: two users and three    *)
(* audit events, two schedules, five days.                                 *)
EXTENDS SingleThread

CONSTANTS eCp, eRm, eExec, u, v, scanJob, reportJob

(* User u copies and runs a program which meets four rules, one of them   *)
(* in vain: it looks at the path, and the EXECVE line comes first.  User v *)
(* removes what he did not copy.                                           *)
UserOf  == [e \in Events |-> IF e = eRm THEN v ELSE u]
KindsOf == [e \in Events |->
  CASE e = eCp   -> <<"SYSCALL", "PARENT", "PATH">>
    [] e = eExec -> <<"SYSCALL", "EXECVE", "PATH">>
    [] e = eRm   -> <<"SYSCALL", "PATH">>]
Rule(key, needs) == [key |-> key, needs |-> needs]
RulesMet == [e \in Events |->
  CASE e = eCp   -> <<Rule("cp", {"SYSCALL", "PATH"})>>
    [] e = eExec -> <<Rule("setuid", {"SYSCALL"}), Rule("rm", {"SYSCALL"}),
                      Rule("rm", {"EXECVE"}), Rule("rm", {"PATH"})>>
    [] e = eRm   -> <<Rule("rm", {"SYSCALL", "PATH"})>>]
CpRm == <<"cp", "rm">>

(* A message with "passwd vic" contains "passwd v".                        *)
Said == [m \in Accounts \X Commands |-> IF m[2] = "passwd vic" THEN {"v's password"} ELSE {}]

(* A scan in the minute of the report, in the one before, or never because *)
(* its file does not parse: a week has no day of that name.                *)
Says(type, arg, at) == [type |-> type, arg |-> arg, time |-> at]
FewFiles ==
  {[j \in {scanJob, reportJob} |-> IF j = scanJob THEN s ELSE r] :
     s \in {Says("weekly", "2", 0), Says("daily", "", 0), Says("daily", "", 1)},
     r \in {Says("daily", "", 1), Says("weekly", "Monday", 1), Says("monthly", "2", 1),
            Says("date", "2025-01-03", 1)}}
TwoNames == [n \in {"Sunday", "Monday"} |-> IF n = "Sunday" THEN 0 ELSE 1]
OneNumber == [n \in {"2"} |-> 2]
OneDate == [d \in {"2025-01-03"} |-> 3]

(* Weeks of two days; a month of three days and the start of the next.     *)
Day(w, m, d) == [dayOfWeek |-> w, dayOfMonth |-> m, date |-> d]
FiveDays == <<Day(0, 1, 1), Day(1, 2, 2), Day(0, 3, 3), Day(1, 1, 4), Day(0, 2, 5)>>
=============================================================================
