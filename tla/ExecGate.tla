------------------------------ MODULE ExecGate ------------------------------
(***************************************************************************)
(* What execution blocking promises to whoever executes a program: an      *)
(* attempt is suspended and answered once.  A malicious program passes     *)
(* only after the gate has given up on scanning it for this attempt, and   *)
(* no attempt is turned away but for malware already found in its own      *)
(* program.  Neither is promised of an attempt whose path has been given   *)
(* to another file in the meantime: the gate looks at paths.  Until the    *)
(* daemon stops, every suspended attempt is answered.                      *)
(***************************************************************************)
CONSTANTS
  Attempts,
  Programs,
  Malicious,  \* the programs that ought not to run
  None        \* the program of an attempt not made yet

VARIABLES
  program,    \* program each attempt executes
  answer,     \* what became of each attempt
  found,      \* attempts for which malware was found
  overlooked, \* attempts given up on without a completed scan
  replaced,   \* attempts whose path was given to another file
  stopped     \* the daemon was told to stop

vars == <<program, answer, found, overlooked, replaced, stopped>>

Init ==
  /\ program = [e \in Attempts |-> None]
  /\ answer = [e \in Attempts |-> "idle"]
  /\ found = {} /\ overlooked = {} /\ replaced = {} /\ stopped = FALSE

Suspend(e, f) ==
  /\ answer[e] = "idle"
  /\ program' = [program EXCEPT ![e] = f]
  /\ answer' = [answer EXCEPT ![e] = "blocked"]
  /\ UNCHANGED <<found, overlooked, replaced, stopped>>

(* What is found or given up may come too late for the answer.             *)
Find(e) ==
  /\ answer[e] # "idle"
  /\ program[e] \in Malicious \/ e \in replaced
  /\ found' = found \cup {e}
  /\ UNCHANGED <<program, answer, overlooked, replaced, stopped>>

GiveUp(e) ==
  /\ answer[e] # "idle"
  /\ overlooked' = overlooked \cup {e}
  /\ UNCHANGED <<program, answer, found, replaced, stopped>>

Allow(e) ==
  /\ answer[e] = "blocked"
  /\ program[e] \in Malicious => e \in overlooked \/ e \in replaced
  /\ answer' = [answer EXCEPT ![e] = "allow"]
  /\ UNCHANGED <<program, found, overlooked, replaced, stopped>>

Deny(e) ==
  /\ answer[e] = "blocked" /\ e \in found
  /\ answer' = [answer EXCEPT ![e] = "deny"]
  /\ UNCHANGED <<program, found, overlooked, replaced, stopped>>

(* Another file is put at the path of some attempts.                       *)
Replace ==
  /\ \E es \in SUBSET {e \in Attempts : answer[e] # "idle"} :
       replaced' = replaced \cup es
  /\ UNCHANGED <<program, answer, found, overlooked, stopped>>

Halt ==
  /\ stopped' = TRUE
  /\ UNCHANGED <<program, answer, found, overlooked, replaced>>

Next ==
  \/ \E e \in Attempts :
       \/ \E f \in Programs : Suspend(e, f)
       \/ Find(e) \/ GiveUp(e) \/ Allow(e) \/ Deny(e)
  \/ Replace \/ Halt

(* Once stopped nobody has to come to a conclusion or answer any more.     *)
Conclude(e) == ~stopped /\ answer[e] = "blocked" /\ (Find(e) \/ GiveUp(e))
Answer(e)   == ~stopped /\ (Allow(e) \/ Deny(e))

Spec ==
  /\ Init /\ [][Next]_vars
  /\ \A e \in Attempts : WF_vars(Conclude(e)) /\ WF_vars(Answer(e))
=============================================================================
