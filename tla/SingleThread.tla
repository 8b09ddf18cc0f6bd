---------------------------- MODULE SingleThread ----------------------------
(***************************************************************************)
(* The components that run in a thread of their own and wait for no other: *)
(* the analysers of two logs, and the watcher of the schedules with the    *)
(* reports it has made.  They share no state, and a behaviour is one of    *)
(* one of them.                                                            *)
(***************************************************************************)
EXTENDS AuditLog, AuthLog, ReportPeriod

VARIABLE part

partVars == <<part, auditVars, authVars, reportVars>>

PartInit == part \in {"audit", "auth", "report"} /\ AuditInit /\ AuthInit /\ ReportInit
                /\ (part # "report" => now = 0 /\ files = CHOOSE s \in Choices : TRUE)
AuditPart == part = "audit" /\ AuditNext /\ UNCHANGED <<part, authVars, reportVars>>
AuthPart == part = "auth" /\ AuthNext /\ UNCHANGED <<part, auditVars, reportVars>>
ReportPart == part = "report" /\ ReportNext /\ UNCHANGED <<part, auditVars, authVars>>
PartNext == AuditPart \/ AuthPart \/ ReportPart
PartSpec == PartInit /\ [][PartNext]_partVars

PartTypeOK == AuditTypeOK /\ AuthTypeOK /\ ReportTypeOK
=============================================================================
