------------------------------ MODULE Custody ------------------------------
(***************************************************************************)
(* What the quarantine promises, without its names, encryption, table,     *)
(* threads and failures: a program is taken from its path into custody, is *)
(* put back at that very path, and is let go of only when it is back there *)
(* or another program put back has overwritten it.                         *)
(***************************************************************************)
CONSTANTS
  Contents, \* contents of programs
  Paths,    \* paths of programs
  Nothing

VARIABLES
  at,         \* content at each path
  origin,     \* path each content was created at
  kept,       \* contents in custody
  overwritten \* contents a program put back was written over

vars == <<at, origin, kept, overwritten>>

TypeOK ==
  /\ at \in [Paths -> Contents \cup {Nothing}]
  /\ origin \in [Contents -> Paths \cup {Nothing}]
  /\ kept \subseteq Contents /\ overwritten \subseteq Contents

(* Back(c): the content is at the path it was created at.                  *)
Back(c) == origin[c] # Nothing /\ at[origin[c]] = c

Init ==
  /\ TypeOK /\ kept = {} /\ overwritten = {}
  /\ \A p \in Paths : at[p] # Nothing => origin[at[p]] = p
  /\ \A c \in Contents : origin[c] # Nothing => Back(c)

(* A user creates a program at a free path.                                *)
Create(c, p) ==
  /\ origin[c] = Nothing /\ at[p] = Nothing
  /\ at' = [at EXCEPT ![p] = c]
  /\ origin' = [origin EXCEPT ![c] = p]
  /\ UNCHANGED <<kept, overwritten>>

(* The program at a path is taken into custody.                            *)
Take(p) ==
  /\ at[p] # Nothing
  /\ at' = [at EXCEPT ![p] = Nothing]
  /\ kept' = kept \cup {at[p]}
  /\ UNCHANGED <<origin, overwritten>>

(* A program in custody is put back; a copy of it may stay there.          *)
PutBack(c) ==
  /\ c \in kept /\ origin[c] # Nothing
  /\ at' = [at EXCEPT ![origin[c]] = c]
  /\ kept' \in {kept, kept \ {c}}
  /\ overwritten' = overwritten \cup ({at[origin[c]]} \ {Nothing})
  /\ UNCHANGED origin

(* The last copy in custody of a program is deleted.                       *)
LetGo(c) ==
  /\ c \in kept /\ (Back(c) \/ c \in overwritten)
  /\ kept' = kept \ {c}
  /\ UNCHANGED <<at, origin, overwritten>>

Next ==
  \/ \E p \in Paths : Take(p)
  \/ \E c \in Contents : PutBack(c) \/ LetGo(c) \/ \E p \in Paths : Create(c, p)

Spec == Init /\ [][Next]_vars
=============================================================================
