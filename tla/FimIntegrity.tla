---------------------------- MODULE FimIntegrity ----------------------------
(***************************************************************************)
(* The integrity check of files.  The command thread makes a baseline of   *)
(* the target paths (BaselineGenerator::ParseIniAndStore) and compares the *)
(* files with it later (CompareWithBaseline); both read the content and    *)
(* the metadata of a file one after the other while users go on working,   *)
(* and the process may die in between.                                     *)
(*                                                                         *)
(* A file is its content and the rest: attributes, size and times, which   *)
(* are taken to the second, so that a change may leave them as they were.  *)
(***************************************************************************)
EXTENDS Naturals, FiniteSets, Sequences

CONSTANTS
  Files,
  TargetPaths,  \* the files under each target path; a file may be under several
  Contents,     \* what files may hold
  FirstContent, \* what they hold at the start
  MaxChanges,   \* bound on what users do
  MaxFailures,  \* bound on deaths and failing calls
  NoRow, NoMd5  \* no row; what ComputeMd5 gives without a file

ASSUME TargetsAssumption == TargetPaths \in Seq(SUBSET Files)
ASSUME ContentsAssumption == FirstContent \in Contents /\ NoMd5 \notin Contents
ASSUME RowsAssumption == NoRow \notin [md5 : Contents \cup {NoMd5}, meta : Nat]
ASSUME ChangesAssumption == MaxChanges \in Nat /\ MaxFailures \in Nat

VARIABLES
  file,     \* content and metadata of each file, and whether it is there
  baseline, \* row of each file in the baseline table
  modified, \* row of each file in the table of modified files
  phase,    \* "idle", "hash", "stat" of a baseline; "look", "compare",
            \* "alert" of a check; "down"
  target,   \* number of the target path being walked
  left,     \* files of it, or of the check, still to be handled
  chosen,   \* the file whose content was read
  md5,      \* the content that was read
  alerted,  \* files the check has told of
  verdict,  \* how the last check ended: "none", "success" or "error"
  changes, failures,
  changed,  \* history: files changed since the content for their row was read
  torn,     \* history: the file chosen was changed since its content was read
  touched,  \* history: files changed since the check began
  unsaved   \* history: the check could not save what it found

tables == <<baseline, modified>>
history == <<changed, torn, touched, unsaved>>
thread == <<phase, target, left, chosen, md5, alerted, verdict>>
integVars == <<file, baseline, modified, phase, target, left, chosen, md5, alerted,
               verdict, changes, failures, changed, torn, touched, unsaved>>

Rows == [md5 : Contents \cup {NoMd5}, meta : Nat]

IntegTypeOK ==
  /\ file \in [Files -> [there : BOOLEAN, data : Contents, meta : 0 .. MaxChanges]]
  /\ baseline \in [Files -> Rows \cup {NoRow}]
  /\ modified \in [Files -> Rows \cup {NoRow}]
  /\ phase \in {"idle", "hash", "stat", "look", "compare", "alert", "down"}
  /\ target \in 0 .. Len(TargetPaths)
  /\ left \subseteq Files
  /\ chosen \subseteq Files
  /\ Cardinality(chosen) = IF phase \in {"stat", "compare"} THEN 1 ELSE 0
  /\ md5 \in Contents \cup {NoMd5}
  /\ alerted \subseteq Files
  /\ verdict \in {"none", "success", "error"}
  /\ changes \in 0 .. MaxChanges /\ failures \in 0 .. MaxFailures
  /\ changed \subseteq Files /\ touched \subseteq Files
  /\ torn \in BOOLEAN /\ unsaved \in BOOLEAN
  /\ \A f \in Files : modified[f] # NoRow => baseline[f] # NoRow

IntegInit ==
  /\ file = [f \in Files |-> [there |-> TRUE, data |-> FirstContent, meta |-> 0]]
  /\ baseline = [f \in Files |-> NoRow] /\ modified = [f \in Files |-> NoRow]
  /\ phase = "idle" /\ target = 0 /\ left = {} /\ chosen = {} /\ md5 = NoMd5
  /\ alerted = {} /\ verdict = "none"
  /\ changes = 0 /\ failures = 0
  /\ changed = {} /\ torn = FALSE /\ touched = {} /\ unsaved = FALSE

There(f) == file[f].there

-----------------------------------------------------------------------------
(* Users.                                                                  *)

Change(f, new) ==
  /\ changes < MaxChanges /\ changes' = changes + 1
  /\ file[f] # new
  /\ file' = [file EXCEPT ![f] = new]
  /\ changed' = changed \cup {f}
  /\ touched' = touched \cup {f}
  /\ torn' = (torn \/ f \in chosen)
  /\ UNCHANGED <<tables, thread, failures, unsaved>>

(* A write may keep size and second, everything else may not.              *)
UserWrites(f) ==
  /\ There(f)
  /\ \E d \in Contents, m \in {file[f].meta, file[f].meta + 1} :
       Change(f, [there |-> TRUE, data |-> d, meta |-> m])
UserDeletes(f) == There(f) /\ Change(f, [file[f] EXCEPT !.there = FALSE])
UserCreates(f) ==
  /\ ~There(f)
  /\ \E d \in Contents :
       Change(f, [there |-> TRUE, data |-> d, meta |-> file[f].meta + 1])

-----------------------------------------------------------------------------
(* BaselineGenerator::ParseIniAndStore.                                    *)

(* Walk the target path with number k: its files as they are now.          *)
Walk(k) ==
  IF k > Len(TargetPaths)
    THEN phase' = "idle" /\ target' = 0 /\ left' = {}
    ELSE phase' = "hash" /\ target' = k /\ left' = {f \in TargetPaths[k] : There(f)}

(* Mutant: what the last check found stays.                                *)
BeginBaselineKeepsModified ==
  /\ phase = "idle"
  /\ Walk(1)
  /\ UNCHANGED <<tables, file, chosen, md5, alerted, verdict, changes, failures, history>>

(* The table of modified files is emptied first.  Then the files are       *)
(* counted, which ends everything when there are none or when a directory  *)
(* cannot be read.                                                         *)
BeginBaseline ==
  /\ phase = "idle"
  /\ modified' = [f \in Files |-> NoRow]
  /\ \/ (\E k \in DOMAIN TargetPaths, f \in Files : f \in TargetPaths[k] /\ There(f))
          /\ Walk(1) /\ UNCHANGED failures
     \/ (\A k \in DOMAIN TargetPaths : \A f \in TargetPaths[k] : ~There(f))
          /\ UNCHANGED <<phase, target, left, failures>>
     \/ failures < MaxFailures /\ failures' = failures + 1
          /\ UNCHANGED <<phase, target, left>>
  /\ UNCHANGED <<file, baseline, chosen, md5, alerted, verdict, changes, history>>

Content(f) == IF There(f) THEN file[f].data ELSE NoMd5

BaselineHash ==
  /\ phase = "hash"
  /\ \E f \in left :
       /\ chosen' = {f} /\ left' = left \ {f} /\ md5' = Content(f)
  /\ phase' = "stat" /\ torn' = FALSE
  /\ UNCHANGED <<file, tables, target, alerted, verdict, changes, failures,
                 changed, touched, unsaved>>

NextTarget ==
  /\ phase = "hash" /\ left = {}
  /\ Walk(target + 1)
  /\ UNCHANGED <<file, tables, chosen, md5, alerted, verdict, changes, failures, history>>

(* The row replaces the file's old one.                                    *)
BaselineStat ==
  /\ phase = "stat"
  /\ \E f \in chosen :
       /\ There(f)
       /\ baseline' = [baseline EXCEPT ![f] = [md5 |-> md5, meta |-> file[f].meta]]
       /\ changed' = IF torn THEN changed ELSE changed \ {f}
  /\ phase' = "hash" /\ chosen' = {}
  /\ UNCHANGED <<file, modified, target, left, md5, alerted, verdict, changes, failures,
                 torn, touched, unsaved>>

(* The file is gone, or the row cannot be stored: the exception is caught  *)
(* outside the walk, and the rest of this target path gets no rows.        *)
BaselineThrows ==
  /\ phase = "stat"
  /\ \/ (\E f \in chosen : ~There(f)) /\ UNCHANGED failures
     \/ failures < MaxFailures /\ failures' = failures + 1
  /\ Walk(target + 1) /\ chosen' = {}
  /\ UNCHANGED <<file, tables, md5, alerted, verdict, changes, history>>

-----------------------------------------------------------------------------
(* CompareWithBaseline.                                                    *)

BeginCheck ==
  /\ phase = "idle"
  /\ \E f \in Files : baseline[f] # NoRow
  /\ left' = {f \in Files : baseline[f] # NoRow}
  /\ phase' = "look" /\ alerted' = {} /\ verdict' = "none"
  /\ touched' = {} /\ unsaved' = FALSE
  /\ UNCHANGED <<file, tables, target, chosen, md5, changes, failures, changed, torn>>

(* Reads the content; a file that is not there is passed over.             *)
CheckHash ==
  /\ phase = "look"
  /\ \E f \in left :
       /\ left' = left \ {f}
       /\ md5' = Content(f)
       /\ IF There(f) THEN chosen' = {f} /\ phase' = "compare"
                      ELSE UNCHANGED <<chosen, phase>>
  /\ torn' = FALSE
  /\ UNCHANGED <<file, tables, target, alerted, verdict, changes, failures,
                 changed, touched, unsaved>>

(* Mutant: only the metadata are compared.                                 *)
TamperedMeta(f) == file[f].meta # baseline[f].meta

Tampered(f) == md5 # baseline[f].md5 \/ file[f].meta # baseline[f].meta

(* Reads the metadata and compares; a file gone meanwhile is passed over.  *)
(* Saving what was found may fail and is then only reported.               *)
CheckCompare ==
  /\ phase = "compare"
  /\ \E f \in chosen :
       IF There(f) /\ Tampered(f)
         THEN \/ /\ modified' = [modified EXCEPT ![f] = [md5 |-> md5, meta |-> file[f].meta]]
                 /\ UNCHANGED <<failures, unsaved>>
              \/ /\ failures < MaxFailures /\ failures' = failures + 1
                 /\ unsaved' = TRUE /\ UNCHANGED modified
         ELSE UNCHANGED <<modified, failures, unsaved>>
  /\ phase' = "look" /\ chosen' = {}
  /\ UNCHANGED <<file, baseline, target, left, md5, alerted, verdict, changes,
                 changed, torn, touched>>

BeginAlerts ==
  /\ phase = "look" /\ left = {}
  /\ left' = {f \in Files : modified[f] # NoRow}
  /\ phase' = "alert"
  /\ UNCHANGED <<file, tables, target, chosen, md5, alerted, verdict, changes,
                 failures, history>>

(* Mutant: a file that is gone is left out of the alerts.                  *)
AlertSkipsGone ==
  /\ phase = "alert"
  /\ \E f \in left :
       /\ left' = left \ {f}
       /\ alerted' = IF There(f) THEN alerted \cup {f} ELSE alerted
  /\ UNCHANGED <<file, tables, phase, target, chosen, md5, verdict, changes,
                 failures, history>>

(* Of every modified file, also of earlier checks.  The metadata are read  *)
(* again: without the file the check ends there with an error.             *)
Alert ==
  /\ phase = "alert"
  /\ \E f \in left :
       IF There(f)
         THEN /\ alerted' = alerted \cup {f} /\ left' = left \ {f}
              /\ UNCHANGED <<phase, verdict>>
         ELSE /\ phase' = "idle" /\ verdict' = "error" /\ left' = {}
              /\ UNCHANGED alerted
  /\ UNCHANGED <<file, tables, target, chosen, md5, changes, failures, history>>

EndCheck ==
  /\ phase = "alert" /\ left = {}
  /\ phase' = "idle" /\ verdict' = "success"
  /\ UNCHANGED <<file, tables, target, left, chosen, md5, alerted, changes,
                 failures, history>>

-----------------------------------------------------------------------------
(* The process dies; the tables stay.                                      *)
IntegDies ==
  /\ phase # "down" /\ failures < MaxFailures /\ failures' = failures + 1
  /\ phase' = "down" /\ target' = 0 /\ left' = {} /\ chosen' = {}
  /\ alerted' = {} /\ verdict' = "none"
  /\ UNCHANGED <<file, tables, md5, changes, history>>

IntegStarts ==
  /\ phase = "down" /\ phase' = "idle"
  /\ UNCHANGED <<file, tables, target, left, chosen, md5, alerted, verdict,
                 changes, failures, history>>

BaselineStep ==
  BeginBaseline \/ BaselineHash \/ NextTarget \/ BaselineStat \/ BaselineThrows
CheckStep ==
  BeginCheck \/ CheckHash \/ CheckCompare \/ BeginAlerts \/ Alert \/ EndCheck
UserChange(f) == UserWrites(f) \/ UserDeletes(f) \/ UserCreates(f)

IntegNext ==
  \/ BaselineStep \/ CheckStep \/ IntegDies \/ IntegStarts
  \/ \E f \in Files : UserChange(f)

IntegSpec == IntegInit /\ [][IntegNext]_integVars

-----------------------------------------------------------------------------
(* Correctness.                                                            *)

(* No false alarm: a file is in the table of modified files only if it was *)
(* changed after its content was read for the baseline row in force, over  *)
(* baselines made anew, walks cut short by exceptions, and deaths.         *)
OnlyChangedFiles == \A f \in Files : modified[f] # NoRow => f \in changed

(* No change is missed: once all files are compared, one that differs from *)
(* its row and was left alone during the check is in the table, unless the *)
(* table could not be written.                                             *)
Differs(f) ==
  There(f) /\ baseline[f] # NoRow
  /\ (file[f].data # baseline[f].md5 \/ file[f].meta # baseline[f].meta)
ChangesFound ==
  phase = "alert" =>
    \A f \in Files \ touched : Differs(f) => modified[f] # NoRow \/ unsaved

(* A check that ends well has told of every file of the table, those found *)
(* by earlier checks included.                                             *)
AlertsComplete ==
  phase = "idle" /\ verdict = "success" =>
    \A f \in Files : modified[f] # NoRow => f \in alerted
=============================================================================
