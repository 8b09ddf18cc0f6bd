---------------------------- MODULE RequestCell ----------------------------
(***************************************************************************)
(* What the handoff of a scheduled job promises: a cell holds at most one  *)
(* request for each job.  A request posted while one is waiting merges     *)
(* with it; taking the request empties the cell and starts a run; a        *)
(* request posted during a run waits for the next one.  Until the daemon   *)
(* stops, a waiting request is taken.                                      *)
(***************************************************************************)
CONSTANT Jobs

VARIABLES
  pending,  \* jobs with a request waiting
  running,  \* jobs being run
  stopped   \* the daemon was told to stop

vars == <<pending, running, stopped>>

TypeOK ==
  /\ pending \subseteq Jobs
  /\ running \subseteq Jobs
  /\ stopped \in BOOLEAN

Init == pending = {} /\ running = {} /\ stopped = FALSE

Post(j) ==
  /\ pending' = pending \cup {j}
  /\ UNCHANGED <<running, stopped>>

Start(j) ==
  /\ j \in pending \ running
  /\ pending' = pending \ {j}
  /\ running' = running \cup {j}
  /\ UNCHANGED stopped

Finish(j) ==
  /\ j \in running
  /\ running' = running \ {j}
  /\ UNCHANGED <<pending, stopped>>

Halt ==
  /\ stopped' = TRUE
  /\ UNCHANGED <<pending, running>>

Next ==
  \/ \E j \in Jobs : Post(j) \/ Start(j) \/ Finish(j)
  \/ Halt

(* Once stopped nobody has to take a request any more.                     *)
StartUnlessStopped(j) == ~stopped /\ Start(j)

Spec ==
  /\ Init /\ [][Next]_vars
  /\ \A j \in Jobs : WF_vars(StartUnlessStopped(j)) /\ WF_vars(Finish(j))
=============================================================================
