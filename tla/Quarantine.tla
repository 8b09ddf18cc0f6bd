----------------------------- MODULE Quarantine -----------------------------
(***************************************************************************)
(* The quarantine: MalwareScan walks a directory or looks at one program,  *)
(* QuarantineManager moves what it detected into the quarantine directory, *)
(* encrypts it and records it in the database, RestoreManager brings it    *)
(* back.  Three threads use it without a lock: the command thread (manual  *)
(* scan, restore), the scheduled-scan thread and the real-time worker.     *)
(* Every file-system call is a step; the process may die between any two.  *)
(*                                                                         *)
(* A file is a blob: whose content it holds and under how many layers of   *)
(* encryption.  Permissions, owners and sizes are left out.                *)
(***************************************************************************)
EXTENDS Naturals, Sequences, FiniteSets

CONSTANTS
  Command, Scheduled, Realtime, \* the threads
  Threads,     \* those that take part
  Paths,       \* original paths of programs
  Base,        \* file name of each path
  Contents,    \* contents of files, each with one original copy
  InitialFile, \* content at each path at the start
  Malicious,   \* contents a signature matches
  MaxTime,     \* bound on the clock, in seconds
  MaxFaults,   \* bound on crashes and failing calls
  NamesMayClash, \* whether two quarantines may get the same name
  Nothing

ASSUME ThreadsAssumption == Threads \subseteq {Command, Scheduled, Realtime}
ASSUME FilesAssumption ==
  /\ InitialFile \in [Paths -> Contents]
  /\ \A p, q \in Paths : InitialFile[p] = InitialFile[q] => p = q
  /\ Malicious \subseteq Contents
  /\ Base \in [Paths -> Paths]
ASSUME BoundsAssumption ==
  MaxTime \in Nat \ {0} /\ MaxFaults \in Nat /\ NamesMayClash \in BOOLEAN

Blobs == [data : Contents, layers : Nat]
Names == {Base[p] : p \in Paths} \X (1 .. MaxTime)

ASSUME NothingAssumption ==
  Nothing \notin Blobs \cup Paths \cup Contents /\ Nothing \notin Names

VARIABLES
  orig,    \* file at each original path
  vault,   \* quarantine/<name>
  enc,     \* quarantine/<name>.enc
  dec,     \* quarantine/<name>.dec
  rows,    \* the quarantine table, in order of insertion
  now,     \* the clock, in seconds
  home,    \* path each content was created at
  used,    \* names given so far
  up,      \* "running", "down" or "terminated" by an exception
  faults,  \* crashes and failing calls so far
  replaced,    \* history: contents a file moved back to its path overwrote
  interrupted, \* history: some quarantine or restore did not run to its end
  pc, todo, path, name \* of each thread

disk == <<orig, vault, enc, dec, rows>>
vars == <<orig, vault, enc, dec, rows, now, home, used, up, faults,
          replaced, interrupted, pc, todo, path, name>>

TypeOK ==
  /\ orig \in [Paths -> Blobs \cup {Nothing}]
  /\ \A files \in {vault, enc, dec} : files \in [Names -> Blobs \cup {Nothing}]
  /\ rows \in Seq([path : Paths, name : Names])
  /\ now \in 1 .. MaxTime
  /\ home \in [Contents -> Paths \cup {Nothing}]
  /\ used \subseteq Names
  /\ up \in {"running", "down", "terminated"}
  /\ faults \in 0 .. MaxFaults
  /\ replaced \subseteq Contents
  /\ interrupted \in BOOLEAN
  /\ pc \in [Threads -> {"idle", "next", "analyze", "size", "rename", "encrypt",
                         "remove", "swap", "insert",
                         "decrypt", "place", "discard"}]
  /\ todo \in [Threads -> SUBSET Paths]
  /\ path \in [Threads -> Paths \cup {Nothing}]
  /\ name \in [Threads -> Names \cup {Nothing}]
  /\ \A t \in Threads :
       /\ path[t] = Nothing <=> pc[t] \in {"idle", "next"}
       /\ name[t] = Nothing <=> pc[t] \in {"idle", "next", "analyze", "size"}

Plain(c) == [data |-> c, layers |-> 0]

Init ==
  /\ orig = [p \in Paths |-> Plain(InitialFile[p])]
  /\ vault = [n \in Names |-> Nothing]
  /\ enc = [n \in Names |-> Nothing]
  /\ dec = [n \in Names |-> Nothing]
  /\ rows = <<>>
  /\ now = 1
  /\ home = [c \in Contents |-> IF \E p \in Paths : InitialFile[p] = c
                                THEN CHOOSE p \in Paths : InitialFile[p] = c
                                ELSE Nothing]
  /\ used = {}
  /\ up = "running" /\ faults = 0 /\ replaced = {} /\ interrupted = FALSE
  /\ pc = [t \in Threads |-> "idle"]
  /\ todo = [t \in Threads |-> {}]
  /\ path = [t \in Threads |-> Nothing]
  /\ name = [t \in Threads |-> Nothing]

-----------------------------------------------------------------------------
(* Steps of a thread.                                                      *)

At(t, place) == up = "running" /\ pc[t] = place
Goto(t, place) == pc' = [pc EXCEPT ![t] = place]

(* Mutant: the name is not given up.                                       *)
LeaveKeepsName(t) ==
  /\ Goto(t, IF todo[t] = {} THEN "idle" ELSE "next")
  /\ path' = [path EXCEPT ![t] = Nothing]
  /\ UNCHANGED name

(* Thread t is through with its file: a walk goes on, the others end.      *)
Leave(t) ==
  /\ Goto(t, IF todo[t] = {} THEN "idle" ELSE "next")
  /\ path' = [path EXCEPT ![t] = Nothing]
  /\ name' = [name EXCEPT ![t] = Nothing]

Same(t) == UNCHANGED <<todo, path, name>>

environment == <<now, home, faults, replaced, interrupted>>
clock == <<now, home, faults, replaced>>

(* Renaming a file to path p overwrites the file that is there.            *)
Overwrite(p) ==
  replaced' = IF orig[p] = Nothing THEN replaced
                                   ELSE replaced \cup {orig[p].data}

(* All threads are gone; the files and the table stay.                     *)
ThreadsGone ==
  /\ interrupted' = TRUE
  /\ pc' = [t \in Threads |-> "idle"]
  /\ todo' = [t \in Threads |-> {}]
  /\ path' = [t \in Threads |-> Nothing]
  /\ name' = [t \in Threads |-> Nothing]

(* An exception nobody catches ends the process; only the real-time worker *)
(* catches what a scan throws.                                             *)
Throw(t) ==
  IF t = Realtime
    THEN Leave(t) /\ UNCHANGED <<todo, up, interrupted>>
    ELSE ThreadsGone /\ up' = "terminated"

(* MalwareScan::collectTargetFiles of a manual or scheduled scan.          *)
CollectTargetFiles(t) ==
  /\ t # Realtime /\ At(t, "idle")
  /\ todo' = [todo EXCEPT ![t] = {p \in Paths : orig[p] # Nothing}]
  /\ todo'[t] # {} /\ Goto(t, "next")
  /\ UNCHANGED <<disk, environment, used, up, path, name>>

(* The size of each file collected is read again before it is analysed.    *)
NextFile(t) ==
  /\ At(t, "next")
  /\ \E p \in todo[t] :
       IF orig[p] # Nothing
         THEN /\ todo' = [todo EXCEPT ![t] = @ \ {p}]
              /\ path' = [path EXCEPT ![t] = p]
              /\ Goto(t, "analyze")
              /\ UNCHANGED <<up, name, interrupted>>
         ELSE Throw(t)
  /\ UNCHANGED <<disk, clock, used>>

(* MalwareScan::RunSingleFile on a program about to be executed.           *)
RunSingleFile(t) ==
  /\ t = Realtime /\ At(t, "idle")
  /\ \E p \in Paths : orig[p] # Nothing /\ path' = [path EXCEPT ![t] = p]
  /\ Goto(t, "analyze")
  /\ UNCHANGED <<disk, environment, used, up, todo, name>>

Detected(p) == orig[p] # Nothing /\ orig[p].layers = 0 /\ orig[p].data \in Malicious

AnalyzeFile(t) ==
  /\ At(t, "analyze") /\ Detected(path[t])
  /\ Goto(t, "size") /\ Same(t)
  /\ UNCHANGED <<disk, environment, used, up>>

(* No signature matches, the file is gone, YARA fails, or the settings     *)
(* want no quarantining.                                                   *)
PassFile(t) ==
  /\ At(t, "analyze")
  /\ Leave(t)
  /\ UNCHANGED <<disk, environment, used, up, todo>>

(* Looking up the hash throws.                                             *)
LookupThrows(t) ==
  /\ At(t, "analyze") /\ faults < MaxFaults
  /\ faults' = faults + 1
  /\ Throw(t)
  /\ UNCHANGED <<disk, now, home, replaced, used>>

(* The name in the quarantine: file name and current second.               *)
NameOf(p) == <<Base[p], now>>

(* tryQuarantine reads the size once more, then the manager names the      *)
(* file.  Without NamesMayClash only behaviours are kept in which no two   *)
(* quarantines of equally named files fall into the same second.           *)
NameFile(t) ==
  /\ At(t, "size")
  /\ IF orig[path[t]] # Nothing
       THEN /\ NamesMayClash \/ NameOf(path[t]) \notin used
            /\ name' = [name EXCEPT ![t] = NameOf(path[t])]
            /\ used' = used \cup {NameOf(path[t])}
            /\ Goto(t, "rename")
            /\ UNCHANGED <<todo, path, up, interrupted>>
       ELSE Throw(t) /\ UNCHANGED used
  /\ UNCHANGED <<disk, clock>>

-----------------------------------------------------------------------------
(* QuarantineManager::Run.  A filesystem_error is logged and the files are *)
(* left as they are.                                                       *)

(* A call of a quarantine or the last one of a restore fails with such an  *)
(* error: in "encrypt" the encryption and the move back of the file.       *)
FileSystemError(t) ==
  /\ up = "running" /\ faults < MaxFaults
  /\ pc[t] \in {"rename", "encrypt", "remove", "swap", "discard"}
  /\ faults' = faults + 1
  /\ interrupted' = TRUE
  /\ Leave(t)
  /\ UNCHANGED <<disk, now, home, replaced, used, up, todo>>

(* fs::rename replaces what has the name already.                          *)
MoveToVault(t) ==
  /\ At(t, "rename")
  /\ IF orig[path[t]] # Nothing
       THEN /\ vault' = [vault EXCEPT ![name[t]] = orig[path[t]]]
            /\ orig' = [orig EXCEPT ![path[t]] = Nothing]
            /\ Goto(t, "encrypt") /\ Same(t)
       ELSE Leave(t) /\ UNCHANGED <<todo, orig, vault>>
  /\ UNCHANGED <<enc, dec, rows, environment, used, up>>

Encrypt(t) ==
  /\ At(t, "encrypt") /\ vault[name[t]] # Nothing
  /\ enc' = [enc EXCEPT ![name[t]] = [vault[name[t]] EXCEPT !.layers = @ + 1]]
  /\ Goto(t, "remove") /\ Same(t)
  /\ UNCHANGED <<orig, vault, dec, rows, environment, used, up>>

(* Mutant: the plain file is removed in place of being moved back.         *)
EncryptFailsRemoves(t) ==
  /\ At(t, "encrypt")
  /\ vault' = [vault EXCEPT ![name[t]] = Nothing]
  /\ Leave(t)
  /\ UNCHANGED <<orig, enc, dec, rows, environment, used, up, todo>>

(* Encrypting fails at any time, or for want of the file; then the file is *)
(* moved back, which fails likewise.                                       *)
EncryptFails(t) ==
  /\ At(t, "encrypt")
  /\ IF vault[name[t]] # Nothing
       THEN /\ orig' = [orig EXCEPT ![path[t]] = vault[name[t]]]
            /\ vault' = [vault EXCEPT ![name[t]] = Nothing]
            /\ Overwrite(path[t])
       ELSE UNCHANGED <<orig, vault, replaced>>
  /\ Leave(t)
  /\ UNCHANGED <<enc, dec, rows, now, home, faults, interrupted, used, up, todo>>

(* Mutant: the encrypted file does not take the plain one's name.          *)
RemovePlainForgotten(t) ==
  /\ At(t, "remove")
  /\ Goto(t, "insert") /\ Same(t)
  /\ UNCHANGED <<disk, environment, used, up>>

(* The encrypted file is made read-only and the plain one removed.         *)
RemovePlain(t) ==
  /\ At(t, "remove")
  /\ IF enc[name[t]] # Nothing
       THEN /\ vault' = [vault EXCEPT ![name[t]] = Nothing]
            /\ Goto(t, "swap") /\ Same(t)
       ELSE Leave(t) /\ UNCHANGED <<todo, vault>>
  /\ UNCHANGED <<orig, enc, dec, rows, environment, used, up>>

Swap(t) ==
  /\ At(t, "swap")
  /\ IF enc[name[t]] # Nothing
       THEN /\ vault' = [vault EXCEPT ![name[t]] = enc[name[t]]]
            /\ enc' = [enc EXCEPT ![name[t]] = Nothing]
            /\ Goto(t, "insert") /\ Same(t)
       ELSE Leave(t) /\ UNCHANGED <<todo, vault, enc>>
  /\ UNCHANGED <<orig, dec, rows, environment, used, up>>

(* Mutant: the row's name is made anew from the clock.                     *)
InsertRenamed(t) ==
  /\ At(t, "insert")
  /\ rows' = Append(rows, [path |-> path[t], name |-> NameOf(path[t])])
  /\ Leave(t)
  /\ UNCHANGED <<orig, vault, enc, dec, environment, used, up, todo>>

Insert(t) ==
  /\ At(t, "insert")
  /\ rows' = Append(rows, [path |-> path[t], name |-> name[t]])
  /\ Leave(t)
  /\ UNCHANGED <<orig, vault, enc, dec, environment, used, up, todo>>

(* The insert is outside the try block: the file stays without a row.      *)
InsertThrows(t) ==
  /\ At(t, "insert") /\ faults < MaxFaults
  /\ faults' = faults + 1
  /\ interrupted' = TRUE
  /\ IF t = Realtime THEN Leave(t) /\ UNCHANGED <<todo, up>> ELSE Throw(t)
  /\ UNCHANGED <<disk, now, home, replaced, used>>

-----------------------------------------------------------------------------
(* RestoreManager::Run, on the command thread.                             *)

(* Mutant: rows are compared by file name without the time.                *)
FindRowByBase(t, n) ==
  /\ t = Command /\ At(t, "idle")
  /\ \E i \in DOMAIN rows :
       /\ rows[i].name[1] = n[1]
       /\ \A k \in 1 .. i - 1 : rows[k].name[1] # n[1]
       /\ path' = [path EXCEPT ![t] = rows[i].path]
  /\ name' = [name EXCEPT ![t] = n]
  /\ Goto(t, "decrypt")
  /\ UNCHANGED <<disk, environment, used, up, todo>>

(* The first row with the name asked for; without one nothing happens.     *)
FindRow(t, n) ==
  /\ t = Command /\ At(t, "idle")
  /\ \E i \in DOMAIN rows :
       /\ rows[i].name = n
       /\ \A k \in 1 .. i - 1 : rows[k].name # n
       /\ path' = [path EXCEPT ![t] = rows[i].path]
  /\ name' = [name EXCEPT ![t] = n]
  /\ Goto(t, "decrypt")
  /\ UNCHANGED <<disk, environment, used, up, todo>>

Decrypt(t) ==
  /\ At(t, "decrypt")
  /\ vault[name[t]] # Nothing /\ vault[name[t]].layers > 0
  /\ dec' = [dec EXCEPT ![name[t]] = [vault[name[t]] EXCEPT !.layers = @ - 1]]
  /\ Goto(t, "place") /\ Same(t)
  /\ UNCHANGED <<orig, vault, enc, rows, environment, used, up>>

(* Decrypting fails at any time, or because the file is gone or not        *)
(* encrypted; what was written of the decrypted file is removed.           *)
DecryptFails(t) ==
  /\ At(t, "decrypt")
  /\ dec' = [dec EXCEPT ![name[t]] = Nothing]
  /\ Leave(t)
  /\ UNCHANGED <<orig, vault, enc, rows, environment, used, up, todo>>

(* The decrypted file takes its original path, replacing what is there.    *)
Place(t) ==
  /\ At(t, "place")
  /\ orig' = [orig EXCEPT ![path[t]] = dec[name[t]]]
  /\ dec' = [dec EXCEPT ![name[t]] = Nothing]
  /\ Overwrite(path[t])
  /\ Goto(t, "discard") /\ Same(t)
  /\ UNCHANGED <<vault, enc, rows, now, home, faults, interrupted, used, up>>

(* The original directory is gone or cannot be written: the decrypted file *)
(* stays in the quarantine directory.                                      *)
PlaceFails(t) ==
  /\ At(t, "place") /\ Leave(t)
  /\ UNCHANGED <<disk, environment, used, up, todo>>

(* The quarantined file is removed; its row stays.                         *)
Discard(t) ==
  /\ At(t, "discard")
  /\ vault' = [vault EXCEPT ![name[t]] = Nothing]
  /\ Leave(t)
  /\ UNCHANGED <<orig, enc, dec, rows, environment, used, up, todo>>

-----------------------------------------------------------------------------
(* The environment.                                                        *)

(* The process is killed or the machine stops.                             *)
Die ==
  /\ up = "running" /\ faults < MaxFaults
  /\ up' = "down" /\ faults' = faults + 1
  /\ ThreadsGone
  /\ UNCHANGED <<disk, now, home, replaced, used>>

Restart ==
  /\ up # "running" /\ up' = "running"
  /\ UNCHANGED <<disk, environment, used, pc, todo, path, name>>

(* A user installs a new program at a free path.                           *)
Create(p) ==
  /\ orig[p] = Nothing
  /\ \E c \in Contents :
       /\ home[c] = Nothing
       /\ orig' = [orig EXCEPT ![p] = Plain(c)]
       /\ home' = [home EXCEPT ![c] = p]
  /\ UNCHANGED <<vault, enc, dec, rows, now, used, up, faults, replaced,
                 interrupted, pc, todo, path, name>>

Tick ==
  /\ now < MaxTime /\ now' = now + 1
  /\ UNCHANGED <<disk, home, used, up, faults, replaced, interrupted, pc, todo,
                 path, name>>

Scan(t) ==
  \/ CollectTargetFiles(t) \/ NextFile(t) \/ RunSingleFile(t)
  \/ AnalyzeFile(t) \/ PassFile(t) \/ LookupThrows(t) \/ NameFile(t)
IntoQuarantine(t) ==
  \/ MoveToVault(t) \/ Encrypt(t) \/ EncryptFails(t) \/ RemovePlain(t)
  \/ Swap(t) \/ Insert(t) \/ InsertThrows(t) \/ FileSystemError(t)
OutOfQuarantine(t) ==
  \/ \E n \in Names : FindRow(t, n)
  \/ Decrypt(t) \/ DecryptFails(t) \/ Place(t) \/ PlaceFails(t) \/ Discard(t)

Next ==
  \/ \E t \in Threads : Scan(t) \/ IntoQuarantine(t) \/ OutOfQuarantine(t)
  \/ Die \/ Restart \/ Tick
  \/ \E p \in Paths : Create(p)

Spec == Init /\ [][Next]_vars

-----------------------------------------------------------------------------
(* Correctness.                                                            *)

(* The files of the disk, wherever they are.                               *)
OnDisk ==
  {orig[p] : p \in Paths} \cup {vault[n] : n \in Names}
    \cup {enc[n] : n \in Names} \cup {dec[n] : n \in Names}

(* No step of a quarantine or restore, of several threads and with the     *)
(* process dying between any two of them, loses the only copy of a file,   *)
(* but for a file in the way of one moved back to its path.                *)
NothingLost ==
  \A c \in Contents \ replaced : home[c] # Nothing =>
    \E b \in OnDisk : b # Nothing /\ b.data = c

(* A program that was quarantined and restored is back at the path it was  *)
(* taken from, as it was.                                                  *)
RestoredToOrigin ==
  \A p \in Paths : orig[p] # Nothing => orig[p].layers = 0 /\ home[orig[p].data] = p

(* Unless something was interrupted, whatever lies in the quarantine and is  *)
(* not being worked on is encrypted once and can be restored: the first    *)
(* row of its name leads to the path it came from.                         *)
BeingHandled(n) == \E t \in Threads : name[t] = n
VaultRestorable ==
  ~interrupted =>
    \A n \in Names : vault[n] # Nothing /\ ~BeingHandled(n) =>
      /\ vault[n].layers = 1
      /\ \E i \in DOMAIN rows :
           /\ rows[i].name = n
           /\ \A k \in 1 .. i - 1 : rows[k].name # n
           /\ home[vault[n].data] = rows[i].path

(* The table tells of no file before it is encrypted, once and no more, in *)
(* whatever order threads, restores, deaths and failing calls come: the    *)
(* file a row names, if it is there, is one that decrypting once makes     *)
(* good.                                                                   *)
RowsAreEncrypted ==
  \A i \in DOMAIN rows :
    LET n == rows[i].name IN vault[n] # Nothing => vault[n].layers = 1

-----------------------------------------------------------------------------
(* The quarantine implements Custody: what a path holds, where it was      *)
(* created, and which contents the quarantine directory has a copy of,     *)
(* under whatever name and in whatever state.                              *)
DataOf(b) == IF b = Nothing THEN Nothing ELSE b.data
InQuarantine(c) ==
  \E n \in Names : \E b \in {vault[n], enc[n], dec[n]} : DataOf(b) = c

Keeper == INSTANCE Custody WITH
  at <- [p \in Paths |-> DataOf(orig[p])], origin <- home,
  kept <- {c \in Contents : InQuarantine(c)}, overwritten <- replaced

(* Through every interleaving, failure and crash the steps of the scans,   *)
(* of QuarantineManager::Run and of RestoreManager::Run take a program     *)
(* from its path and put it back at that path: none appears at another, or *)
(* has its last copy deleted before it is back or was overwritten.         *)
ImplementsCustody == Keeper!Spec
=============================================================================
