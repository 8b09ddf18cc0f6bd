-------------------------------- MODULE Fim --------------------------------
(***************************************************************************)
(* The file monitoring.  The integrity check, on the command thread, and   *)
(* the real-time monitor share nothing but the files, which each takes     *)
(* from users of its own here: a behaviour is one of either, or one of the *)
(* log store with lines from anywhere, in which more lines are written and *)
(* more goes wrong than the monitor as a whole leaves room for.            *)
(***************************************************************************)
EXTENDS FimRealTime, FimIntegrity

VARIABLE part

fimVars == <<part, realTimeVars, integVars>>

FimInit == part \in {"realtime", "store", "integrity"} /\ RealTimeInit /\ IntegInit
RealTimePart == part = "realtime" /\ RealTimeNext /\ UNCHANGED <<part, integVars>>
StorePart == part = "store" /\ StoreNext /\ UNCHANGED <<part, monitorVars, integVars>>
IntegrityPart == part = "integrity" /\ IntegNext /\ UNCHANGED <<part, realTimeVars>>
FimNext == RealTimePart \/ StorePart \/ IntegrityPart
FimSpec ==
  FimInit /\ [][FimNext]_fimVars
    /\ WF_fimVars(part = "realtime" /\ ThreadStep /\ UNCHANGED <<part, integVars>>)

FimTypeOK == RealTimeTypeOK /\ IntegTypeOK
=============================================================================
