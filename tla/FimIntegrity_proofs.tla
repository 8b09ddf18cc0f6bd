------------------------- MODULE FimIntegrity_proofs -------------------------
(***************************************************************************)
(* What is proved of the integrity check, for any files, target paths and  *)
(* contents, and any number of changes and failures: its types, that no    *)
(* alarm is false, that no change is missed, and that every file found is  *)
(* told of.                                                                *)
(*                                                                         *)
(* Both walks read a file in two steps.  What makes that harmless is what  *)
(* the history variable torn tells: as long as nobody touched the file     *)
(* between the steps, the content that was read is the content it has      *)
(* (ReadHolds); and if somebody did, the file is on record as changed.     *)
(***************************************************************************)
EXTENDS FimIntegrity, TLAPS, FiniteSetTheorems

(* One file is between its two reads, in the phases that read it again.    *)
OneChosen ==
  IF phase \in {"stat", "compare"} THEN \E f \in Files : chosen = {f} ELSE chosen = {}

(* The content that was read is still what the file holds, or the file was *)
(* changed, and is on record as changed.                                   *)
ReadHolds ==
  \A f \in chosen :
    /\ ~torn => md5 = Content(f)
    /\ torn => f \in changed /\ (phase = "compare" => f \in touched)

(* The row in force of a file that was not changed describes it.           *)
RowHolds ==
  \A f \in Files : baseline[f] # NoRow /\ f \notin changed =>
    There(f) /\ file[f].data = baseline[f].md5 /\ file[f].meta = baseline[f].meta

(* A baseline begins with no file found modified, and finds none.          *)
NoneFoundYet == phase \in {"hash", "stat"} => \A f \in Files : modified[f] = NoRow

(* A check compares only files that have a row; those it is past and that  *)
(* differ are in the table.                                                *)
CheckedSoFar ==
  phase \in {"look", "compare"} =>
    /\ \A f \in left \cup chosen : baseline[f] # NoRow
    /\ \A f \in Files \ touched : Differs(f) =>
         f \in left \cup chosen \/ modified[f] # NoRow \/ unsaved

(* Files of the table that were not told of are still to come.             *)
AlertsToCome ==
  /\ phase = "alert" => \A f \in Files : modified[f] # NoRow => f \in left \cup alerted
  /\ phase = "down" => verdict = "none"

-----------------------------------------------------------------------------
(* Types.  That one file is chosen is kept by OneChosen, that what is      *)
(* found modified has a row is kept with what is known of a check.         *)
PlainTypes ==
  /\ file \in [Files -> [there : BOOLEAN, data : Contents, meta : 0 .. MaxChanges]]
  /\ \A f \in Files : file[f].meta <= changes
  /\ baseline \in [Files -> Rows \cup {NoRow}] /\ modified \in [Files -> Rows \cup {NoRow}]
  /\ phase \in {"idle", "hash", "stat", "look", "compare", "alert", "down"}
  /\ target \in 0 .. Len(TargetPaths) /\ left \subseteq Files
  /\ md5 \in Contents \cup {NoMd5} /\ alerted \subseteq Files
  /\ verdict \in {"none", "success", "error"}
  /\ changes \in 0 .. MaxChanges /\ failures \in 0 .. MaxFailures
  /\ changed \subseteq Files /\ touched \subseteq Files
  /\ torn \in BOOLEAN /\ unsaved \in BOOLEAN

FoundHaveRows == \A f \in Files : modified[f] # NoRow => baseline[f] # NoRow

(* The inductive invariant is PlainTypes and this.                         *)
Checked ==
  /\ OneChosen /\ ReadHolds /\ RowHolds /\ NoneFoundYet /\ FoundHaveRows
  /\ CheckedSoFar /\ AlertsToCome /\ OnlyChangedFiles /\ ChangesFound /\ AlertsComplete

LEMMA IntegTypeParts == PlainTypes /\ Checked => IntegTypeOK
<1> SUFFICES ASSUME PlainTypes, Checked PROVE IntegTypeOK
    OBVIOUS
<1>1. chosen \subseteq Files
    BY DEF Checked, OneChosen
<1>2. Cardinality(chosen) = IF phase \in {"stat", "compare"} THEN 1 ELSE 0
    BY FS_EmptySet, FS_Singleton DEF Checked, OneChosen
<1>3. QED
    BY <1>1, <1>2 DEF PlainTypes, Checked, FoundHaveRows, IntegTypeOK

LEMMA IntegInitKept == IntegInit => PlainTypes /\ Checked
<1> SUFFICES ASSUME IntegInit PROVE PlainTypes /\ Checked
    OBVIOUS
<1>1. PlainTypes
  <2>1. /\ 0 \in 0 .. Len(TargetPaths) /\ 0 \in 0 .. MaxChanges /\ 0 \in 0 .. MaxFailures
        /\ 0 <= 0
      BY TargetsAssumption, ChangesAssumption
  <2>2. /\ file \in [Files -> [there : BOOLEAN, data : Contents, meta : 0 .. MaxChanges]]
        /\ \A f \in Files : file[f].meta = 0
      BY <2>1, ContentsAssumption DEF IntegInit
  <2>3. QED
      BY <2>1, <2>2 DEF IntegInit, PlainTypes
<1>2. Checked
    BY DEF IntegInit, Checked, OneChosen, ReadHolds, RowHolds, NoneFoundYet, FoundHaveRows,
           CheckedSoFar, AlertsToCome, OnlyChangedFiles, ChangesFound, AlertsComplete
<1>3. QED
    BY <1>1, <1>2

(* A walk goes to a target path's files, or is over.                       *)
LEMMA WalkGoes ==
  ASSUME NEW k \in 1 .. Len(TargetPaths) + 1, Walk(k)
  PROVE  /\ target' \in 0 .. Len(TargetPaths) /\ left' \subseteq Files
         /\ (phase' = "idle" /\ left' = {}) \/ phase' = "hash"
<1>1. CASE k > Len(TargetPaths)
    BY <1>1, TargetsAssumption DEF Walk
<1>2. CASE ~(k > Len(TargetPaths))
    BY <1>2, TargetsAssumption DEF Walk
<1>3. QED
    BY <1>1, <1>2

LEMMA WalkFirst ==
  1 \in 1 .. Len(TargetPaths) + 1
    BY TargetsAssumption

LEMMA WalkNext ==
  PlainTypes => target + 1 \in 1 .. Len(TargetPaths) + 1
    BY TargetsAssumption DEF PlainTypes

LEMMA RowMade ==
  ASSUME PlainTypes, NEW f \in Files
  PROVE  /\ [md5 |-> md5, meta |-> file[f].meta] \in Rows
         /\ [md5 |-> md5, meta |-> file[f].meta] # NoRow
<1>1. [md5 |-> md5, meta |-> file[f].meta] \in Rows
    BY ChangesAssumption DEF PlainTypes, Rows
<1>2. QED
    BY <1>1, RowsAssumption DEF Rows

-----------------------------------------------------------------------------
(* Users.                                                                  *)

LEMMA ChangeKeeps ==
  ASSUME PlainTypes, Checked, NEW f \in Files,
         NEW new \in [there : BOOLEAN, data : Contents, meta : Nat],
         new.meta <= file[f].meta + 1, Change(f, new)
  PROVE  PlainTypes' /\ Checked'
<1>1. /\ file' = [file EXCEPT ![f] = new]
      /\ changes < MaxChanges /\ changes' = changes + 1
      /\ changed' = changed \cup {f} /\ touched' = touched \cup {f}
      /\ torn' = (torn \/ f \in chosen)
      /\ UNCHANGED <<baseline, modified, phase, target, left, chosen, md5, alerted,
                     verdict, failures, unsaved>>
    BY DEF Change, tables, thread
<1>2. new.meta \in 0 .. MaxChanges /\ new.meta <= changes'
    BY <1>1, ChangesAssumption DEF PlainTypes
<1>3. new \in [there : BOOLEAN, data : Contents, meta : 0 .. MaxChanges]
    BY <1>2
<1>4. PlainTypes'
  <2>1. /\ file' \in [Files -> [there : BOOLEAN, data : Contents, meta : 0 .. MaxChanges]]
        /\ \A g \in Files : file'[g].meta <= changes'
      BY <1>1, <1>2, <1>3, ChangesAssumption DEF PlainTypes
  <2>2. changes' \in 0 .. MaxChanges
      BY <1>1, ChangesAssumption DEF PlainTypes
  <2>3. QED
      BY <1>1, <2>1, <2>2 DEF PlainTypes
<1>5. \A g \in Files : g # f => file'[g] = file[g]
    BY <1>1 DEF PlainTypes
<1>6. OneChosen' /\ NoneFoundYet' /\ FoundHaveRows' /\ AlertsToCome' /\ AlertsComplete'
    BY <1>1 DEF Checked, OneChosen, NoneFoundYet, FoundHaveRows, AlertsToCome, AlertsComplete
<1>7. ReadHolds'
  <2>1. \A g \in chosen : g \in Files
      BY DEF Checked, OneChosen
  <2>2. ASSUME NEW g \in chosen, ~torn' PROVE Content(g)' = Content(g)
    <3>1. g # f
        BY <1>1, <2>2
    <3>2. file'[g] = file[g]
        BY <1>5, <2>1, <3>1
    <3>3. QED
        BY <3>2 DEF Content, There
  <2>3. \A g \in chosen : torn' => g \in changed' /\ (phase' = "compare" => g \in touched')
    <3>1. CASE torn
        BY <1>1, <3>1 DEF Checked, ReadHolds
    <3>2. CASE f \in chosen
        BY <1>1, <3>2 DEF Checked, OneChosen
    <3>3. QED
        BY <1>1, <3>1, <3>2
  <2>4. ~torn' => ~torn
      BY <1>1
  <2>5. QED
      BY <1>1, <2>2, <2>3, <2>4 DEF Checked, ReadHolds
<1>8. RowHolds'
    BY <1>1, <1>5 DEF Checked, RowHolds, There
<1>9. CheckedSoFar' /\ ChangesFound'
    BY <1>1, <1>5 DEF Checked, CheckedSoFar, ChangesFound, Differs, There
<1>10. OnlyChangedFiles'
    BY <1>1 DEF Checked, OnlyChangedFiles
<1>11. QED
    BY <1>4, <1>6, <1>7, <1>8, <1>9, <1>10 DEF Checked

(* A file that is gone has the metadata it had.                            *)
LEMMA FileGone ==
  ASSUME NEW b \in [there : BOOLEAN, data : Contents, meta : Nat]
  PROVE  LET r == [b EXCEPT !.there = FALSE]
         IN  r \in [there : BOOLEAN, data : Contents, meta : Nat] /\ r.meta = b.meta
    OBVIOUS

LEMMA UserChangeKeeps ==
  ASSUME PlainTypes, Checked, NEW f \in Files, UserChange(f)
  PROVE  PlainTypes' /\ Checked'
<1>0. file[f] \in [there : BOOLEAN, data : Contents, meta : Nat]
    BY ChangesAssumption DEF PlainTypes
<1>1. CASE UserWrites(f)
  <2>1. PICK d \in Contents, m \in {file[f].meta, file[f].meta + 1} :
               Change(f, [there |-> TRUE, data |-> d, meta |-> m])
      BY <1>1 DEF UserWrites
  <2> DEFINE new == [there |-> TRUE, data |-> d, meta |-> m]
  <2>2. new \in [there : BOOLEAN, data : Contents, meta : Nat] /\ new.meta <= file[f].meta + 1
      BY <1>0
  <2>3. Change(f, new)
      BY <2>1
  <2> HIDE DEF new
  <2>4. QED
      BY <2>2, <2>3, ChangeKeeps
<1>2. CASE UserDeletes(f)
  <2> DEFINE new == [file[f] EXCEPT !.there = FALSE]
  <2>1. new \in [there : BOOLEAN, data : Contents, meta : Nat] /\ new.meta = file[f].meta
      BY <1>0, FileGone
  <2>2. Change(f, new) /\ new.meta <= file[f].meta + 1
      BY <1>0, <1>2, <2>1 DEF UserDeletes
  <2> HIDE DEF new
  <2>3. QED
      BY <2>1, <2>2, ChangeKeeps
<1>3. CASE UserCreates(f)
  <2>1. PICK d \in Contents :
               Change(f, [there |-> TRUE, data |-> d, meta |-> file[f].meta + 1])
      BY <1>3 DEF UserCreates
  <2> DEFINE new == [there |-> TRUE, data |-> d, meta |-> file[f].meta + 1]
  <2>2. new \in [there : BOOLEAN, data : Contents, meta : Nat] /\ new.meta <= file[f].meta + 1
      BY <1>0
  <2>3. Change(f, new)
      BY <2>1
  <2> HIDE DEF new
  <2>4. QED
      BY <2>2, <2>3, ChangeKeeps
<1>4. QED
    BY <1>1, <1>2, <1>3 DEF UserChange

-----------------------------------------------------------------------------
(* Making a baseline.                                                      *)

LEMMA BeginBaselineKeeps ==
  ASSUME PlainTypes, Checked, BeginBaseline
  PROVE  PlainTypes' /\ Checked'
<1>1. /\ phase = "idle" /\ \A f \in Files : modified'[f] = NoRow
      /\ modified' \in [Files -> Rows \cup {NoRow}]
      /\ UNCHANGED <<file, baseline, chosen, md5, alerted, verdict, changes,
                     changed, torn, touched, unsaved>>
    BY DEF BeginBaseline, history
<1>2. /\ target' \in 0 .. Len(TargetPaths) /\ left' \subseteq Files
      /\ phase' \in {"idle", "hash"} /\ failures' \in 0 .. MaxFailures
  <2>1. CASE Walk(1) /\ UNCHANGED failures
      BY <2>1, WalkFirst, WalkGoes DEF PlainTypes
  <2>2. CASE UNCHANGED <<phase, target, left, failures>>
      BY <1>1, <2>2 DEF PlainTypes
  <2>3. CASE /\ failures < MaxFailures /\ failures' = failures + 1
             /\ UNCHANGED <<phase, target, left>>
      BY <1>1, <2>3, ChangesAssumption DEF PlainTypes
  <2>4. QED
      BY <2>1, <2>2, <2>3 DEF BeginBaseline
<1>3. PlainTypes'
    BY <1>1, <1>2 DEF PlainTypes
<1>4. OneChosen' /\ ReadHolds'
    BY <1>1, <1>2 DEF Checked, OneChosen, ReadHolds
<1>5. RowHolds'
    BY <1>1 DEF Checked, RowHolds, There
<1>6. NoneFoundYet' /\ FoundHaveRows' /\ OnlyChangedFiles' /\ AlertsComplete'
    BY <1>1 DEF NoneFoundYet, FoundHaveRows, OnlyChangedFiles, AlertsComplete
<1>7. CheckedSoFar' /\ ChangesFound' /\ AlertsToCome'
    BY <1>2 DEF CheckedSoFar, ChangesFound, AlertsToCome
<1>8. QED
    BY <1>3, <1>4, <1>5, <1>6, <1>7 DEF Checked

LEMMA BaselineHashKeeps ==
  ASSUME PlainTypes, Checked, BaselineHash
  PROVE  PlainTypes' /\ Checked'
<1> PICK f \in left : chosen' = {f} /\ left' = left \ {f} /\ md5' = Content(f)
    BY DEF BaselineHash
<1>1. /\ phase = "hash" /\ phase' = "stat" /\ torn' = FALSE /\ f \in Files
      /\ UNCHANGED <<file, baseline, modified, target, alerted, verdict, changes,
                     failures, changed, touched, unsaved>>
    BY DEF BaselineHash, tables, PlainTypes
<1>2. PlainTypes'
  <2>1. md5' \in Contents \cup {NoMd5}
      BY <1>1 DEF Content, PlainTypes
  <2>2. QED
      BY <1>1, <2>1 DEF PlainTypes
<1>3. OneChosen'
    BY <1>1 DEF OneChosen
<1>4. ReadHolds'
    BY <1>1 DEF ReadHolds, Content, There
<1>5. RowHolds'
    BY <1>1 DEF Checked, RowHolds, There
<1>6. NoneFoundYet' /\ FoundHaveRows' /\ OnlyChangedFiles'
    BY <1>1 DEF Checked, NoneFoundYet, FoundHaveRows, OnlyChangedFiles
<1>7. CheckedSoFar' /\ ChangesFound' /\ AlertsToCome' /\ AlertsComplete'
    BY <1>1 DEF CheckedSoFar, ChangesFound, AlertsToCome, AlertsComplete
<1>8. QED
    BY <1>2, <1>3, <1>4, <1>5, <1>6, <1>7 DEF Checked

(* The next target path: no file was found modified, none is.              *)
LEMMA WalkOnKeeps ==
  ASSUME PlainTypes, Checked, phase \in {"hash", "stat"}, Walk(target + 1), chosen' = {},
         failures' \in 0 .. MaxFailures,
         UNCHANGED <<file, tables, md5, alerted, verdict, changes, history>>
  PROVE  PlainTypes' /\ Checked'
<1>1. /\ target' \in 0 .. Len(TargetPaths) /\ left' \subseteq Files
      /\ phase' \in {"idle", "hash"}
    BY WalkNext, WalkGoes
<1>2. PlainTypes'
    BY <1>1 DEF PlainTypes, tables, history
<1>3. OneChosen' /\ ReadHolds'
    BY <1>1 DEF OneChosen, ReadHolds
<1>4. RowHolds'
    BY DEF Checked, RowHolds, There, tables, history
<1>5. NoneFoundYet' /\ FoundHaveRows' /\ OnlyChangedFiles' /\ AlertsComplete'
    BY DEF Checked, NoneFoundYet, FoundHaveRows, OnlyChangedFiles, AlertsComplete, tables, history
<1>6. CheckedSoFar' /\ ChangesFound' /\ AlertsToCome'
    BY <1>1 DEF CheckedSoFar, ChangesFound, AlertsToCome
<1>7. QED
    BY <1>2, <1>3, <1>4, <1>5, <1>6 DEF Checked

LEMMA BaselineWalksKeep ==
  ASSUME PlainTypes, Checked, NextTarget \/ BaselineThrows
  PROVE  PlainTypes' /\ Checked'
<1>1. CASE NextTarget
  <2>1. chosen' = {}
      BY <1>1 DEF NextTarget, Checked, OneChosen
  <2>2. QED
      BY <1>1, <2>1, WalkOnKeeps DEF NextTarget, PlainTypes
<1>2. CASE BaselineThrows
  <2>1. failures' \in 0 .. MaxFailures
      BY <1>2, ChangesAssumption DEF BaselineThrows, PlainTypes
  <2>2. QED
      BY <1>2, <2>1, WalkOnKeeps DEF BaselineThrows
<1>3. QED
    BY <1>1, <1>2

(* The new row describes the file, unless the file is on record as changed.*)
LEMMA BaselineStatKeeps ==
  ASSUME PlainTypes, Checked, BaselineStat
  PROVE  PlainTypes' /\ Checked'
<1> PICK f \in chosen :
      /\ There(f)
      /\ baseline' = [baseline EXCEPT ![f] = [md5 |-> md5, meta |-> file[f].meta]]
      /\ changed' = IF torn THEN changed ELSE changed \ {f}
    BY DEF BaselineStat
<1> DEFINE row == [md5 |-> md5, meta |-> file[f].meta]
<1>1. /\ phase = "stat" /\ phase' = "hash" /\ chosen' = {} /\ f \in Files
      /\ \A g \in Files : modified[g] = NoRow
      /\ UNCHANGED <<file, modified, target, left, md5, alerted, verdict, changes,
                     failures, torn, touched, unsaved>>
    BY DEF BaselineStat, Checked, OneChosen, NoneFoundYet
<1>2. row \in Rows /\ row # NoRow /\ row.md5 = md5 /\ row.meta = file[f].meta
    BY <1>1, RowMade
<1>3. baseline'[f] = row /\ \A g \in Files : g # f => baseline'[g] = baseline[g]
    BY <1>1 DEF PlainTypes
<1>4. PlainTypes'
  <2>1. baseline' \in [Files -> Rows \cup {NoRow}] /\ changed' \subseteq Files
      BY <1>1, <1>2 DEF PlainTypes
  <2>2. QED
      BY <1>1, <2>1 DEF PlainTypes
<1>5. OneChosen' /\ ReadHolds'
    BY <1>1 DEF OneChosen, ReadHolds
<1>6. RowHolds'
  <2>1. f \notin changed' => md5 = file[f].data
      BY DEF Checked, ReadHolds, Content
  <2>2. \A g \in Files : g # f /\ g \notin changed' => g \notin changed
      OBVIOUS
  <2>3. QED
      BY <1>1, <1>2, <1>3, <2>1, <2>2 DEF Checked, RowHolds, There
<1>7. NoneFoundYet' /\ FoundHaveRows' /\ OnlyChangedFiles'
    BY <1>1 DEF NoneFoundYet, FoundHaveRows, OnlyChangedFiles
<1>8. CheckedSoFar' /\ ChangesFound' /\ AlertsToCome' /\ AlertsComplete'
    BY <1>1 DEF CheckedSoFar, ChangesFound, AlertsToCome, AlertsComplete
<1>9. QED
    BY <1>4, <1>5, <1>6, <1>7, <1>8 DEF Checked

-----------------------------------------------------------------------------
(* Comparing with the baseline.                                            *)

LEMMA BeginCheckKeeps ==
  ASSUME PlainTypes, Checked, BeginCheck
  PROVE  PlainTypes' /\ Checked'
<1>1. /\ phase = "idle" /\ phase' = "look" /\ left' = {f \in Files : baseline[f] # NoRow}
      /\ alerted' = {} /\ verdict' = "none" /\ touched' = {} /\ unsaved' = FALSE
      /\ UNCHANGED <<file, baseline, modified, target, chosen, md5, changes, failures,
                     changed, torn>>
    BY DEF BeginCheck, tables
<1>2. PlainTypes'
    BY <1>1 DEF PlainTypes
<1>3. OneChosen' /\ ReadHolds'
    BY <1>1 DEF Checked, OneChosen, ReadHolds
<1>4. RowHolds' /\ NoneFoundYet' /\ FoundHaveRows' /\ OnlyChangedFiles'
    BY <1>1 DEF Checked, RowHolds, There, NoneFoundYet, FoundHaveRows, OnlyChangedFiles
<1>5. CheckedSoFar'
    BY <1>1 DEF Checked, OneChosen, CheckedSoFar, Differs, There
<1>6. ChangesFound' /\ AlertsToCome' /\ AlertsComplete'
    BY <1>1 DEF ChangesFound, AlertsToCome, AlertsComplete
<1>7. QED
    BY <1>2, <1>3, <1>4, <1>5, <1>6 DEF Checked

LEMMA CheckHashKeeps ==
  ASSUME PlainTypes, Checked, CheckHash
  PROVE  PlainTypes' /\ Checked'
<1> PICK f \in left :
      /\ left' = left \ {f} /\ md5' = Content(f)
      /\ IF There(f) THEN chosen' = {f} /\ phase' = "compare"
                     ELSE UNCHANGED <<chosen, phase>>
    BY DEF CheckHash
<1>1. /\ phase = "look" /\ torn' = FALSE /\ f \in Files /\ baseline[f] # NoRow
      /\ chosen = {}
      /\ UNCHANGED <<file, baseline, modified, target, alerted, verdict, changes,
                     failures, changed, touched, unsaved>>
    BY DEF CheckHash, tables, PlainTypes, Checked, OneChosen, CheckedSoFar
<1>2. PlainTypes'
  <2>1. md5' \in Contents \cup {NoMd5}
      BY <1>1 DEF Content, PlainTypes
  <2>2. QED
      BY <1>1, <2>1 DEF PlainTypes
<1>3. OneChosen'
    BY <1>1 DEF OneChosen
<1>4. ReadHolds'
    BY <1>1 DEF ReadHolds, Content, There
<1>5. RowHolds' /\ NoneFoundYet' /\ FoundHaveRows' /\ OnlyChangedFiles'
    BY <1>1 DEF Checked, RowHolds, There, NoneFoundYet, FoundHaveRows, OnlyChangedFiles
<1>6. CheckedSoFar'
  <2>1. ~There(f) => ~Differs(f)
      BY DEF Differs
  <2>2. \A g \in left \cup chosen : g = f \/ g \in left'
      BY <1>1
  <2>3. There(f) => f \in chosen'
      OBVIOUS
  <2>4. \A g \in left' \cup chosen' : g \in left
      BY <1>1
  <2>5. \A g \in Files : Differs(g)' = Differs(g)
      BY <1>1 DEF Differs, There
  <2>6. QED
      BY <1>1, <2>1, <2>2, <2>3, <2>4, <2>5 DEF Checked, CheckedSoFar
<1>7. ChangesFound' /\ AlertsToCome' /\ AlertsComplete'
    BY <1>1 DEF ChangesFound, AlertsToCome, AlertsComplete
<1>8. QED
    BY <1>2, <1>3, <1>4, <1>5, <1>6, <1>7 DEF Checked

(* What is found to differ was changed; what was left alone and differs is *)
(* found.                                                                  *)
LEMMA CheckCompareKeeps ==
  ASSUME PlainTypes, Checked, CheckCompare
  PROVE  PlainTypes' /\ Checked'
<1> PICK f \in chosen :
      IF There(f) /\ Tampered(f)
        THEN \/ /\ modified' = [modified EXCEPT ![f] = [md5 |-> md5, meta |-> file[f].meta]]
                /\ UNCHANGED <<failures, unsaved>>
             \/ /\ failures < MaxFailures /\ failures' = failures + 1
                /\ unsaved' = TRUE /\ UNCHANGED modified
        ELSE UNCHANGED <<modified, failures, unsaved>>
    BY DEF CheckCompare
<1> DEFINE row == [md5 |-> md5, meta |-> file[f].meta]
<1>1. /\ phase = "compare" /\ phase' = "look" /\ chosen = {f} /\ chosen' = {}
      /\ f \in Files /\ baseline[f] # NoRow
      /\ UNCHANGED <<file, baseline, target, left, md5, alerted, verdict, changes,
                     changed, torn, touched>>
    BY DEF CheckCompare, Checked, OneChosen, CheckedSoFar
<1>2. row \in Rows /\ row # NoRow
    BY <1>1, RowMade
<1>3. /\ \A g \in Files : g # f => modified'[g] = modified[g]
      /\ modified[f] # NoRow => modified'[f] # NoRow
      /\ modified'[f] # modified[f] => There(f) /\ Tampered(f)
      /\ There(f) /\ Tampered(f) => modified'[f] # NoRow \/ unsaved'
      /\ unsaved => unsaved'
      /\ modified' \in [Files -> Rows \cup {NoRow}]
      /\ failures' \in 0 .. MaxFailures /\ unsaved' \in BOOLEAN
  <2>1. CASE UNCHANGED <<modified, failures, unsaved>> /\ ~(There(f) /\ Tampered(f))
      BY <2>1 DEF PlainTypes
  <2>2. CASE /\ modified' = [modified EXCEPT ![f] = row] /\ There(f) /\ Tampered(f)
             /\ UNCHANGED <<failures, unsaved>>
      BY <1>1, <1>2, <2>2 DEF PlainTypes
  <2>3. CASE /\ failures < MaxFailures /\ failures' = failures + 1 /\ There(f) /\ Tampered(f)
             /\ unsaved' = TRUE /\ UNCHANGED modified
      BY <2>3, ChangesAssumption DEF PlainTypes
  <2>4. QED
      BY <2>1, <2>2, <2>3
<1>4. PlainTypes'
    BY <1>1, <1>3 DEF PlainTypes
<1>5. OneChosen' /\ ReadHolds'
    BY <1>1 DEF OneChosen, ReadHolds
<1>6. RowHolds' /\ NoneFoundYet'
    BY <1>1 DEF Checked, RowHolds, There, NoneFoundYet
<1>7. FoundHaveRows'
    BY <1>1, <1>3 DEF Checked, FoundHaveRows
<1>8. There(f) /\ f \notin changed => ~Tampered(f)
    BY <1>1 DEF Checked, ReadHolds, RowHolds, Content, Tampered
<1>9. OnlyChangedFiles'
    BY <1>1, <1>3, <1>8 DEF Checked, OnlyChangedFiles
<1>10. f \notin touched /\ Differs(f) => There(f) /\ Tampered(f)
    BY <1>1 DEF Checked, ReadHolds, Content, Differs, Tampered
<1>11. CheckedSoFar'
  <2>1. \A g \in Files : Differs(g)' = Differs(g)
      BY <1>1 DEF Differs, There
  <2>2. QED
      BY <1>1, <1>3, <1>10, <2>1 DEF Checked, CheckedSoFar
<1>12. ChangesFound' /\ AlertsToCome' /\ AlertsComplete'
    BY <1>1 DEF ChangesFound, AlertsToCome, AlertsComplete
<1>13. QED
    BY <1>4, <1>5, <1>6, <1>7, <1>9, <1>11, <1>12 DEF Checked

LEMMA BeginAlertsKeeps ==
  ASSUME PlainTypes, Checked, BeginAlerts
  PROVE  PlainTypes' /\ Checked'
<1>1. /\ phase = "look" /\ phase' = "alert" /\ left = {} /\ chosen = {}
      /\ left' = {f \in Files : modified[f] # NoRow}
      /\ UNCHANGED <<file, baseline, modified, target, chosen, md5, alerted, verdict, changes,
                     failures, changed, torn, touched, unsaved>>
    BY DEF BeginAlerts, tables, history, Checked, OneChosen
<1>2. PlainTypes'
    BY <1>1 DEF PlainTypes
<1>3. OneChosen' /\ ReadHolds'
    BY <1>1 DEF OneChosen, ReadHolds
<1>4. RowHolds' /\ NoneFoundYet' /\ FoundHaveRows' /\ OnlyChangedFiles'
    BY <1>1 DEF Checked, RowHolds, There, NoneFoundYet, FoundHaveRows, OnlyChangedFiles
<1>5. ChangesFound'
    BY <1>1 DEF Checked, CheckedSoFar, ChangesFound, Differs, There
<1>6. CheckedSoFar' /\ AlertsToCome' /\ AlertsComplete'
    BY <1>1 DEF CheckedSoFar, AlertsToCome, AlertsComplete
<1>7. QED
    BY <1>2, <1>3, <1>4, <1>5, <1>6 DEF Checked

LEMMA AlertKeeps ==
  ASSUME PlainTypes, Checked, Alert \/ EndCheck
  PROVE  PlainTypes' /\ Checked'
<1>1. /\ phase = "alert"
      /\ \/ /\ phase' = "alert" /\ verdict' = verdict
            /\ \E f \in left : alerted' = alerted \cup {f} /\ left' = left \ {f}
         \/ phase' = "idle" /\ verdict' = "error" /\ left' = {} /\ alerted' = alerted
         \/ /\ phase' = "idle" /\ verdict' = "success" /\ left = {} /\ left' = {}
            /\ alerted' = alerted
      /\ UNCHANGED <<file, baseline, modified, target, chosen, md5, changes,
                     failures, changed, torn, touched, unsaved>>
    BY DEF Alert, EndCheck, tables, history
<1>2. PlainTypes'
    BY <1>1 DEF PlainTypes
<1>3. OneChosen' /\ ReadHolds'
    BY <1>1 DEF Checked, OneChosen, ReadHolds
<1>4. RowHolds' /\ NoneFoundYet' /\ FoundHaveRows' /\ OnlyChangedFiles'
    BY <1>1 DEF Checked, RowHolds, There, NoneFoundYet, FoundHaveRows, OnlyChangedFiles
<1>5. ChangesFound' /\ CheckedSoFar'
    BY <1>1 DEF Checked, CheckedSoFar, ChangesFound, Differs, There
<1>6. AlertsToCome' /\ AlertsComplete'
    BY <1>1 DEF Checked, AlertsToCome, AlertsComplete
<1>7. QED
    BY <1>2, <1>3, <1>4, <1>5, <1>6 DEF Checked

-----------------------------------------------------------------------------
(* Deaths.                                                                 *)

LEMMA DeathKeeps ==
  ASSUME PlainTypes, Checked, IntegDies \/ IntegStarts
  PROVE  PlainTypes' /\ Checked'
<1>1. /\ \/ phase' = "down" /\ verdict' = "none"
         \/ phase = "down" /\ phase' = "idle" /\ verdict' = verdict
      /\ chosen' = {} /\ left' \subseteq Files /\ alerted' \subseteq Files
      /\ target' \in 0 .. Len(TargetPaths) /\ failures' \in 0 .. MaxFailures
      /\ UNCHANGED <<file, baseline, modified, md5, changes, changed, torn, touched, unsaved>>
  <2>1. CASE IntegDies
      BY <2>1, TargetsAssumption, ChangesAssumption
         DEF IntegDies, tables, history, PlainTypes
  <2>2. CASE IntegStarts
      BY <2>2 DEF IntegStarts, tables, history, PlainTypes, Checked, OneChosen
  <2>3. QED
      BY <2>1, <2>2
<1>2. PlainTypes'
    BY <1>1 DEF PlainTypes
<1>3. OneChosen' /\ ReadHolds'
    BY <1>1 DEF OneChosen, ReadHolds
<1>4. RowHolds' /\ NoneFoundYet' /\ FoundHaveRows' /\ OnlyChangedFiles'
    BY <1>1 DEF Checked, RowHolds, There, NoneFoundYet, FoundHaveRows, OnlyChangedFiles
<1>5. CheckedSoFar' /\ ChangesFound' /\ AlertsToCome' /\ AlertsComplete'
    BY <1>1 DEF Checked, CheckedSoFar, ChangesFound, AlertsToCome, AlertsComplete
<1>6. QED
    BY <1>2, <1>3, <1>4, <1>5 DEF Checked

-----------------------------------------------------------------------------
LEMMA StutterKeeps ==
  ASSUME PlainTypes, Checked, UNCHANGED integVars
  PROVE  PlainTypes' /\ Checked'
<1>1. PlainTypes'
    BY DEF integVars, PlainTypes
<1>2. OneChosen' /\ ReadHolds' /\ RowHolds' /\ NoneFoundYet' /\ FoundHaveRows'
    BY DEF integVars, Checked, OneChosen, ReadHolds, Content, There, RowHolds,
           NoneFoundYet, FoundHaveRows
<1>3. CheckedSoFar' /\ AlertsToCome' /\ OnlyChangedFiles' /\ ChangesFound' /\ AlertsComplete'
    BY DEF integVars, Checked, CheckedSoFar, Differs, There, AlertsToCome,
           OnlyChangedFiles, ChangesFound, AlertsComplete
<1>4. QED
    BY <1>1, <1>2, <1>3 DEF Checked

LEMMA IntegStepKept ==
  ASSUME PlainTypes, Checked, [IntegNext]_integVars
  PROVE  PlainTypes' /\ Checked'
<1>1. CASE BaselineStep
    BY <1>1, BeginBaselineKeeps, BaselineHashKeeps, BaselineWalksKeep, BaselineStatKeeps
       DEF BaselineStep
<1>2. CASE CheckStep
    BY <1>2, BeginCheckKeeps, CheckHashKeeps, CheckCompareKeeps, BeginAlertsKeeps, AlertKeeps
       DEF CheckStep
<1>3. QED
    BY <1>1, <1>2, DeathKeeps, UserChangeKeeps, StutterKeeps DEF IntegNext

LEMMA IntegKept == IntegSpec => [](PlainTypes /\ Checked)
<1>1. PlainTypes /\ Checked /\ [IntegNext]_integVars => (PlainTypes /\ Checked)'
    BY IntegStepKept
<1>2. QED
    BY <1>1, IntegInitKept, PTL DEF IntegSpec

(* The types of the tables, the walk and the check.                        *)
THEOREM IntegTyped == IntegSpec => []IntegTypeOK
<1>1. PlainTypes /\ Checked => IntegTypeOK
    BY IntegTypeParts
<1>2. QED
    BY <1>1, IntegKept, PTL

(* No false alarm: only files changed since they were read for their row   *)
(* are found modified, whoever changes them between which steps.           *)
THEOREM OnlyChangedFound == IntegSpec => []OnlyChangedFiles
<1>1. PlainTypes /\ Checked => OnlyChangedFiles
    BY DEF Checked
<1>2. QED
    BY <1>1, IntegKept, PTL

(* No change is missed: what differs from its row and was left alone while *)
(* the check ran is in the table when the alerts begin.                    *)
THEOREM DifferencesFound == IntegSpec => []ChangesFound
<1>1. PlainTypes /\ Checked => ChangesFound
    BY DEF Checked
<1>2. QED
    BY <1>1, IntegKept, PTL

(* A check that ends well has told of every file in the table.             *)
THEOREM AlertsAllGiven == IntegSpec => []AlertsComplete
<1>1. PlainTypes /\ Checked => AlertsComplete
    BY DEF Checked
<1>2. QED
    BY <1>1, IntegKept, PTL
=============================================================================
