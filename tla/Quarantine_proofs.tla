-------------------------- MODULE Quarantine_proofs --------------------------
(***************************************************************************)
(* Proofs about Quarantine, for any number of threads, paths, contents,    *)
(* faults and seconds: the types, and the invariants its run checks on two *)
(* paths, as long as no two quarantines get the same name.                 *)
(***************************************************************************)
EXTENDS Quarantine, TLAPS, SequenceTheorems

-----------------------------------------------------------------------------
(* Type correctness.                                                       *)

(* The parts of the type invariant.                                        *)
Places == {"idle", "next", "analyze", "size", "rename", "encrypt", "remove", "swap",
           "insert", "decrypt", "place", "discard"}
DiskTypes ==
  /\ orig \in [Paths -> Blobs \cup {Nothing}]
  /\ vault \in [Names -> Blobs \cup {Nothing}]
  /\ enc \in [Names -> Blobs \cup {Nothing}]
  /\ dec \in [Names -> Blobs \cup {Nothing}]
  /\ rows \in Seq([path : Paths, name : Names])
CommonTypes ==
  /\ now \in 1 .. MaxTime
  /\ home \in [Contents -> Paths \cup {Nothing}]
  /\ used \subseteq Names
  /\ up \in {"running", "down", "terminated"}
  /\ faults \in 0 .. MaxFaults
  /\ replaced \subseteq Contents
  /\ interrupted \in BOOLEAN
ThreadTypes ==
  /\ pc \in [Threads -> Places]
  /\ todo \in [Threads -> SUBSET Paths]
  /\ path \in [Threads -> Paths \cup {Nothing}]
  /\ name \in [Threads -> Names \cup {Nothing}]
  /\ \A t \in Threads :
       /\ path[t] = Nothing <=> pc[t] \in {"idle", "next"}
       /\ name[t] = Nothing <=> pc[t] \in {"idle", "next", "analyze", "size"}

LEMMA TypeParts == TypeOK <=> DiskTypes /\ CommonTypes /\ ThreadTypes
<1>1. (\A files \in {vault, enc, dec} : files \in [Names -> Blobs \cup {Nothing}])
        <=> /\ vault \in [Names -> Blobs \cup {Nothing}]
            /\ enc \in [Names -> Blobs \cup {Nothing}]
            /\ dec \in [Names -> Blobs \cup {Nothing}]
    BY Zenon
<1>2. QED
    BY Zenon DEF TypeOK, DiskTypes, CommonTypes, ThreadTypes, Places

LEMMA TypePartsPrimed == TypeOK' => DiskTypes' /\ CommonTypes' /\ ThreadTypes'
  BY DEF TypeOK, DiskTypes, CommonTypes, ThreadTypes, Places

(* Rows are as long as the sequence of them says.                          *)
LEMMA RowType ==
  ASSUME DiskTypes
  PROVE  /\ Len(rows) \in Nat /\ DOMAIN rows = 1 .. Len(rows)
         /\ \A i \in DOMAIN rows : rows[i].path \in Paths /\ rows[i].name \in Names
<1> DEFINE Rows == [path : Paths, name : Names]
<1>1. rows \in Seq(Rows)
    BY DEF DiskTypes
<1> HIDE DEF Rows
<1>2. /\ Len(rows) \in Nat /\ DOMAIN rows = 1 .. Len(rows)
      /\ \A i \in 1 .. Len(rows) : rows[i] \in Rows
    BY <1>1
<1>3. QED
    BY <1>2 DEF Rows

LEMMA NameOfType == ASSUME CommonTypes, NEW p \in Paths PROVE NameOf(p) \in Names
  BY DEF NameOf, Names, CommonTypes

(* Leaving a file, with what is left to do, keeps what a thread has typed. *)
LEMMA LeaveType ==
  ASSUME ThreadTypes, NEW t \in Threads, Leave(t), UNCHANGED todo
  PROVE  ThreadTypes'
  BY DEF ThreadTypes, Places, Leave, Goto

LEMMA ThreadsGoneType == ASSUME ThreadsGone PROVE ThreadTypes' /\ interrupted' \in BOOLEAN
  BY DEF ThreadsGone, ThreadTypes, Places

LEMMA ThrowType ==
  ASSUME CommonTypes, ThreadTypes, NEW t \in Threads, Throw(t)
  PROVE  /\ ThreadTypes'
         /\ interrupted' \in BOOLEAN /\ up' \in {"running", "down", "terminated"}
<1>1. CASE t = Realtime
    BY <1>1, LeaveType DEF Throw, CommonTypes
<1>2. CASE t # Realtime
    BY <1>2, ThreadsGoneType DEF Throw
<1>3. QED
    BY <1>1, <1>2

LEMMA OverwriteType ==
  ASSUME DiskTypes, CommonTypes, NEW p \in Paths, Overwrite(p)
  PROVE  replaced' \subseteq Contents
  BY DEF DiskTypes, CommonTypes, Overwrite, Blobs

LEMMA TypeInit == Init => TypeOK
<1> SUFFICES ASSUME Init PROVE TypeOK
    OBVIOUS
<1>1. DiskTypes
    BY FilesAssumption DEF Init, DiskTypes, Plain, Blobs
<1>2. home \in [Contents -> Paths \cup {Nothing}]
    BY DEF Init
<1>3. /\ now \in 1 .. MaxTime /\ faults \in 0 .. MaxFaults
      /\ used \subseteq Names /\ replaced \subseteq Contents
    BY BoundsAssumption DEF Init
<1>4. interrupted \in BOOLEAN /\ up \in {"running", "down", "terminated"}
    BY DEF Init
<1>5. ThreadTypes
    BY DEF Init, ThreadTypes, Places
<1>6. QED
    BY <1>1, <1>2, <1>3, <1>4, <1>5, TypeParts DEF CommonTypes

LEMMA TypeStep == TypeOK /\ [Next]_vars => TypeOK'
<1> SUFFICES ASSUME DiskTypes, CommonTypes, ThreadTypes, [Next]_vars
             PROVE  DiskTypes' /\ CommonTypes' /\ ThreadTypes'
    BY DEF TypeOK, DiskTypes, CommonTypes, ThreadTypes, Places
<1> USE DEF disk, environment, clock, At, Goto, Same
<1>1. ASSUME NEW t \in Threads, Scan(t) PROVE DiskTypes' /\ CommonTypes' /\ ThreadTypes'
  <2>1. CASE CollectTargetFiles(t)
    <3>1. DiskTypes'
        BY <2>1 DEF CollectTargetFiles, DiskTypes
    <3>2. CommonTypes'
        BY <2>1 DEF CollectTargetFiles, CommonTypes
    <3>3. ThreadTypes'
        BY <2>1 DEF CollectTargetFiles, ThreadTypes, Places
    <3>4. QED
        BY <3>1, <3>2, <3>3
  <2>2. CASE NextFile(t)
    <3>1. DiskTypes'
        BY <2>2 DEF NextFile, DiskTypes
    <3>2. CommonTypes'
        BY <2>2, ThrowType DEF NextFile, CommonTypes
    <3>3. ThreadTypes'
      <4>1. PICK p \in todo[t] :
              IF orig[p] # Nothing
                THEN /\ todo' = [todo EXCEPT ![t] = @ \ {p}]
                     /\ path' = [path EXCEPT ![t] = p]
                     /\ pc' = [pc EXCEPT ![t] = "analyze"]
                     /\ UNCHANGED name
                ELSE Throw(t)
          BY <2>2 DEF NextFile
      <4>2. p \in Paths /\ pc[t] = "next"
          BY <2>2 DEF NextFile, ThreadTypes
      <4>3. CASE orig[p] # Nothing
          BY <4>1, <4>2, <4>3, NothingAssumption DEF ThreadTypes, Places
      <4>4. CASE orig[p] = Nothing
          BY <4>1, <4>4, ThrowType
      <4>5. QED
          BY <4>3, <4>4
    <3>4. QED
        BY <3>1, <3>2, <3>3
  <2>3. CASE RunSingleFile(t)
    <3>1. DiskTypes'
        BY <2>3 DEF RunSingleFile, DiskTypes
    <3>2. CommonTypes'
        BY <2>3 DEF RunSingleFile, CommonTypes
    <3>3. ThreadTypes'
        BY <2>3, NothingAssumption DEF RunSingleFile, ThreadTypes, Places
    <3>4. QED
        BY <3>1, <3>2, <3>3
  <2>4. CASE AnalyzeFile(t)
    <3>1. DiskTypes'
        BY <2>4 DEF AnalyzeFile, DiskTypes
    <3>2. CommonTypes'
        BY <2>4 DEF AnalyzeFile, CommonTypes
    <3>3. ThreadTypes'
        BY <2>4 DEF AnalyzeFile, ThreadTypes, Places
    <3>4. QED
        BY <3>1, <3>2, <3>3
  <2>5. CASE PassFile(t)
    <3>1. DiskTypes'
        BY <2>5 DEF PassFile, DiskTypes
    <3>2. CommonTypes'
        BY <2>5 DEF PassFile, CommonTypes
    <3>3. ThreadTypes'
        BY <2>5, LeaveType DEF PassFile
    <3>4. QED
        BY <3>1, <3>2, <3>3
  <2>6. CASE LookupThrows(t)
    <3>1. DiskTypes'
        BY <2>6 DEF LookupThrows, DiskTypes
    <3>2. CommonTypes'
        BY <2>6, ThrowType, BoundsAssumption DEF LookupThrows, CommonTypes
    <3>3. ThreadTypes'
        BY <2>6, ThrowType DEF LookupThrows
    <3>4. QED
        BY <3>1, <3>2, <3>3
  <2>7. CASE NameFile(t)
    <3>1. DiskTypes'
        BY <2>7 DEF NameFile, DiskTypes
    <3>2. CommonTypes'
        BY <2>7, ThrowType, NameOfType DEF NameFile, CommonTypes, ThreadTypes
    <3>3. ThreadTypes'
      <4>1. CASE orig[path[t]] # Nothing
        <5>1. path[t] \in Paths /\ pc[t] = "size"
            BY <2>7 DEF NameFile, ThreadTypes
        <5>2. NameOf(path[t]) \in Names
            BY <5>1, NameOfType
        <5>3. QED
            BY <2>7, <4>1, <5>2, NothingAssumption DEF NameFile, ThreadTypes, Places
      <4>2. CASE orig[path[t]] = Nothing
          BY <2>7, <4>2, ThrowType DEF NameFile
      <4>3. QED
          BY <4>1, <4>2
    <3>4. QED
        BY <3>1, <3>2, <3>3
  <2>8. QED
      BY <1>1, <2>1, <2>2, <2>3, <2>4, <2>5, <2>6, <2>7 DEF Scan
<1>2. ASSUME NEW t \in Threads, IntoQuarantine(t) PROVE DiskTypes' /\ CommonTypes' /\ ThreadTypes'
  <2>1. CASE MoveToVault(t)
    <3>1. DiskTypes'
        BY <2>1 DEF MoveToVault, DiskTypes, ThreadTypes
    <3>2. CommonTypes'
        BY <2>1 DEF MoveToVault, CommonTypes
    <3>3. ThreadTypes'
        BY <2>1, LeaveType DEF MoveToVault, ThreadTypes, Places
    <3>4. QED
        BY <3>1, <3>2, <3>3
  <2>2. CASE Encrypt(t)
    <3>1. DiskTypes'
        BY <2>2 DEF Encrypt, DiskTypes, Blobs, ThreadTypes
    <3>2. CommonTypes'
        BY <2>2 DEF Encrypt, CommonTypes
    <3>3. ThreadTypes'
        BY <2>2 DEF Encrypt, ThreadTypes, Places
    <3>4. QED
        BY <3>1, <3>2, <3>3
  <2>3. CASE EncryptFails(t)
    <3>1. DiskTypes'
        BY <2>3 DEF EncryptFails, DiskTypes, ThreadTypes
    <3>2. CommonTypes'
        BY <2>3, OverwriteType DEF EncryptFails, CommonTypes, ThreadTypes
    <3>3. ThreadTypes'
        BY <2>3, LeaveType DEF EncryptFails
    <3>4. QED
        BY <3>1, <3>2, <3>3
  <2>4. CASE RemovePlain(t)
    <3>1. DiskTypes'
        BY <2>4 DEF RemovePlain, DiskTypes
    <3>2. CommonTypes'
        BY <2>4 DEF RemovePlain, CommonTypes
    <3>3. ThreadTypes'
        BY <2>4, LeaveType DEF RemovePlain, ThreadTypes, Places
    <3>4. QED
        BY <3>1, <3>2, <3>3
  <2>5. CASE Swap(t)
    <3>1. DiskTypes'
        BY <2>5 DEF Swap, DiskTypes
    <3>2. CommonTypes'
        BY <2>5 DEF Swap, CommonTypes
    <3>3. ThreadTypes'
        BY <2>5, LeaveType DEF Swap, ThreadTypes, Places
    <3>4. QED
        BY <3>1, <3>2, <3>3
  <2>6. CASE Insert(t)
    <3>1. DiskTypes'
        BY <2>6 DEF Insert, DiskTypes, ThreadTypes
    <3>2. CommonTypes'
        BY <2>6 DEF Insert, CommonTypes
    <3>3. ThreadTypes'
        BY <2>6, LeaveType DEF Insert
    <3>4. QED
        BY <3>1, <3>2, <3>3
  <2>7. CASE InsertThrows(t)
    <3>1. DiskTypes'
        BY <2>7 DEF InsertThrows, DiskTypes
    <3>2. CommonTypes'
        BY <2>7, ThrowType, BoundsAssumption DEF InsertThrows, CommonTypes
    <3>3. ThreadTypes'
        BY <2>7, LeaveType, ThrowType DEF InsertThrows
    <3>4. QED
        BY <3>1, <3>2, <3>3
  <2>8. CASE FileSystemError(t)
    <3>1. DiskTypes'
        BY <2>8 DEF FileSystemError, DiskTypes
    <3>2. CommonTypes'
        BY <2>8, BoundsAssumption DEF FileSystemError, CommonTypes
    <3>3. ThreadTypes'
        BY <2>8, LeaveType DEF FileSystemError
    <3>4. QED
        BY <3>1, <3>2, <3>3
  <2>9. QED
      BY <1>2, <2>1, <2>2, <2>3, <2>4, <2>5, <2>6, <2>7, <2>8 DEF IntoQuarantine
<1>3. ASSUME NEW t \in Threads, OutOfQuarantine(t) PROVE DiskTypes' /\ CommonTypes' /\ ThreadTypes'
  <2>1. ASSUME NEW n \in Names, FindRow(t, n) PROVE DiskTypes' /\ CommonTypes' /\ ThreadTypes'
    <3>1. \A i \in DOMAIN rows : rows[i].path \in Paths
        BY RowType
    <3>2. DiskTypes' /\ CommonTypes'
        BY <2>1 DEF FindRow, DiskTypes, CommonTypes
    <3>3. ThreadTypes'
        BY <2>1, <3>1, NothingAssumption DEF FindRow, ThreadTypes, Places
    <3>4. QED
        BY <3>2, <3>3
  <2>2. CASE Decrypt(t)
    <3>1. DiskTypes'
        BY <2>2 DEF Decrypt, DiskTypes, Blobs, ThreadTypes
    <3>2. CommonTypes'
        BY <2>2 DEF Decrypt, CommonTypes
    <3>3. ThreadTypes'
        BY <2>2 DEF Decrypt, ThreadTypes, Places
    <3>4. QED
        BY <3>1, <3>2, <3>3
  <2>3. CASE DecryptFails(t)
    <3>1. DiskTypes'
        BY <2>3 DEF DecryptFails, DiskTypes
    <3>2. CommonTypes'
        BY <2>3 DEF DecryptFails, CommonTypes
    <3>3. ThreadTypes'
        BY <2>3, LeaveType DEF DecryptFails
    <3>4. QED
        BY <3>1, <3>2, <3>3
  <2>4. CASE Place(t)
    <3>1. DiskTypes'
        BY <2>4 DEF Place, DiskTypes, ThreadTypes
    <3>2. CommonTypes'
        BY <2>4, OverwriteType DEF Place, CommonTypes, ThreadTypes
    <3>3. ThreadTypes'
        BY <2>4 DEF Place, ThreadTypes, Places
    <3>4. QED
        BY <3>1, <3>2, <3>3
  <2>5. CASE PlaceFails(t)
    <3>1. DiskTypes'
        BY <2>5 DEF PlaceFails, DiskTypes
    <3>2. CommonTypes'
        BY <2>5 DEF PlaceFails, CommonTypes
    <3>3. ThreadTypes'
        BY <2>5, LeaveType DEF PlaceFails
    <3>4. QED
        BY <3>1, <3>2, <3>3
  <2>6. CASE Discard(t)
    <3>1. DiskTypes'
        BY <2>6 DEF Discard, DiskTypes
    <3>2. CommonTypes'
        BY <2>6 DEF Discard, CommonTypes
    <3>3. ThreadTypes'
        BY <2>6, LeaveType DEF Discard, ThreadTypes
    <3>4. QED
        BY <3>1, <3>2, <3>3
  <2>7. QED
      BY <1>3, <2>1, <2>2, <2>3, <2>4, <2>5, <2>6 DEF OutOfQuarantine
<1>4. CASE Die
    BY <1>4, ThreadsGoneType, BoundsAssumption DEF Die, DiskTypes, CommonTypes
<1>5. CASE Restart
    BY <1>5 DEF Restart, DiskTypes, CommonTypes, ThreadTypes
<1>6. CASE Tick
    BY <1>6, BoundsAssumption DEF Tick, DiskTypes, CommonTypes, ThreadTypes
<1>7. ASSUME NEW p \in Paths, Create(p) PROVE DiskTypes' /\ CommonTypes' /\ ThreadTypes'
    BY <1>7 DEF Create, DiskTypes, CommonTypes, ThreadTypes, Plain, Blobs
<1>8. CASE UNCHANGED vars
    BY <1>8 DEF vars, DiskTypes, CommonTypes, ThreadTypes
<1>9. QED
    BY <1>1, <1>2, <1>3, <1>4, <1>5, <1>6, <1>7, <1>8 DEF Next

(* Every variable keeps its type, whatever clashes or fails.               *)
THEOREM TypeCorrect == Spec => []TypeOK
<1>1. QED
    BY TypeInit, TypeStep, PTL DEF Spec

-----------------------------------------------------------------------------
(* The inductive invariant.  As long as names are not given twice, a file  *)
(* on its way into the quarantine belongs to one thread, which finds it as *)
(* its last step left it, and a name has at most one row.                  *)

Quarantining == {"rename", "encrypt", "remove", "swap", "insert"}
Restoring == {"decrypt", "place", "discard"}

HasRow(n) == \E i \in DOMAIN rows : rows[i].name = n

NamesOwned ==
  /\ \A t \in Threads : name[t] # Nothing => name[t] \in used
  /\ \A i \in DOMAIN rows : rows[i].name \in used
  /\ \A n \in Names : n \notin used => vault[n] = Nothing /\ enc[n] = Nothing
  /\ \A s, t \in Threads : pc[t] \in Quarantining /\ s # t => name[s] # name[t]
  /\ \A t \in Threads : pc[t] \in Quarantining => ~HasRow(name[t])
  /\ \A t \in Threads : pc[t] \in Restoring =>
       /\ t = Command
       /\ \E i \in DOMAIN rows : rows[i].name = name[t] /\ rows[i].path = path[t]
  /\ \A i, k \in DOMAIN rows : rows[i].name = rows[k].name => i = k

(* The file b comes from path p and is under so many layers.               *)
FileOf(b, p, layers) == b # Nothing /\ b.layers = layers /\ home[b.data] = p

StagesExact ==
  \A t \in Threads :
    /\ pc[t] = "rename" => vault[name[t]] = Nothing /\ enc[name[t]] = Nothing
    /\ pc[t] = "encrypt" => FileOf(vault[name[t]], path[t], 0) /\ enc[name[t]] = Nothing
    /\ pc[t] = "remove" =>
         /\ FileOf(vault[name[t]], path[t], 0) /\ FileOf(enc[name[t]], path[t], 1)
         /\ enc[name[t]].data = vault[name[t]].data
    /\ pc[t] = "swap" => vault[name[t]] = Nothing /\ FileOf(enc[name[t]], path[t], 1)
    /\ pc[t] = "insert" => FileOf(vault[name[t]], path[t], 1) /\ enc[name[t]] = Nothing
    /\ pc[t] = "place" => FileOf(dec[name[t]], path[t], 0)
    /\ pc[t] = "discard" => dec[name[t]] = Nothing

RowsExact ==
  \A i \in DOMAIN rows :
    vault[rows[i].name] # Nothing => FileOf(vault[rows[i].name], rows[i].path, 1)

(* A decrypted file is a copy of one that is still in the quarantine.      *)
CopiesExact ==
  \A n \in Names : dec[n] # Nothing =>
    HasRow(n) /\ vault[n] # Nothing /\ vault[n].data = dec[n].data

OrigExact == \A p \in Paths : orig[p] # Nothing => FileOf(orig[p], p, 0)

(* What is about to be discarded is not the last copy.                     *)
Discarded(n) == \E t \in Threads : pc[t] = "discard" /\ name[t] = n
Kept(c) ==
  \/ \E p \in Paths : orig[p] # Nothing /\ orig[p].data = c
  \/ \E n \in Names : vault[n] # Nothing /\ vault[n].data = c /\ ~Discarded(n)
  \/ \E n \in Names : enc[n] # Nothing /\ enc[n].data = c
AllKept == \A c \in Contents \ replaced : home[c] # Nothing => Kept(c)

RestHasRow ==
  ~interrupted =>
    \A n \in Names : vault[n] # Nothing /\ ~BeingHandled(n) => HasRow(n)

FilesExact ==
  /\ NamesOwned /\ StagesExact /\ RowsExact /\ CopiesExact
  /\ OrigExact /\ AllKept /\ RestHasRow

IInv == DiskTypes /\ CommonTypes /\ ThreadTypes /\ FilesExact

LEMMA InvInit == Init => IInv
<1> SUFFICES ASSUME Init PROVE IInv
    OBVIOUS
<1>1. DiskTypes /\ CommonTypes /\ ThreadTypes
    BY TypeInit, TypeParts
<1>2. NamesOwned /\ StagesExact /\ RowsExact /\ CopiesExact
    BY DEF Init, NamesOwned, StagesExact, RowsExact, CopiesExact, Quarantining,
           Restoring
<1>3. OrigExact
  <2>1. ASSUME NEW p \in Paths PROVE home[InitialFile[p]] = p
      BY FilesAssumption DEF Init
  <2>2. QED
      BY <2>1 DEF Init, OrigExact, FileOf, Plain
<1>4. AllKept
  <2>1. ASSUME NEW c \in Contents, home[c] # Nothing
        PROVE  \E p \in Paths : InitialFile[p] = c
      BY <2>1 DEF Init
  <2>2. QED
      BY NothingAssumption DEF Init, AllKept, Kept, Plain, Blobs
<1>5. RestHasRow
    BY DEF Init, RestHasRow
<1>6. QED
    BY <1>1, <1>2, <1>3, <1>4, <1>5 DEF IInv, FilesExact

(* Steps that leave the files and rows alone: threads go on without a name *)
(* or stay as they are, and none gives up a file that has no row, unless   *)
(* it is interrupted.                                                      *)
LEMMA NoFileMoves ==
  ASSUME IInv, ThreadTypes', UNCHANGED <<disk, home, replaced, used>>,
         \A t \in Threads :
           \/ pc'[t] = pc[t] /\ path'[t] = path[t] /\ name'[t] = name[t]
           \/ pc'[t] \in {"idle", "next", "analyze", "size"},
         interrupted => interrupted',
         ~interrupted' => \A n \in Names :
           BeingHandled(n) => BeingHandled(n)' \/ vault[n] = Nothing \/ HasRow(n)
  PROVE  FilesExact'
<1> USE DEF disk, IInv, FilesExact
<1>1. \A t \in Threads : pc'[t] \in {"idle", "next", "analyze", "size"} => name'[t] = Nothing
    BY DEF ThreadTypes
<1>2. NamesOwned'
    BY DEF NamesOwned, Quarantining, Restoring, HasRow, ThreadTypes
<1>3. StagesExact'
    BY DEF StagesExact, FileOf
<1>4. RowsExact' /\ CopiesExact' /\ OrigExact'
    BY DEF RowsExact, CopiesExact, OrigExact, HasRow, FileOf
<1>5. AllKept'
    BY DEF AllKept, Kept, Discarded
<1>6. RestHasRow'
    BY DEF RestHasRow, HasRow
<1>7. QED
    BY <1>2, <1>3, <1>4, <1>5, <1>6

-----------------------------------------------------------------------------
(* Each step preserves the invariant.                                     *)

(* What the invariant says of a thread that has a file in its hands.       *)
LEMMA Handling ==
  ASSUME IInv, NEW t \in Threads, pc[t] \in Quarantining \cup Restoring
  PROVE  /\ name[t] \in Names /\ path[t] \in Paths /\ name[t] \in used
         /\ \A s \in Threads : s # t /\ pc[s] \in Quarantining => name[s] # name[t]
         /\ pc[t] \in Quarantining => \A s \in Threads : s # t => name[s] # name[t]
         /\ \A s \in Threads : s # t => pc[s] \notin Restoring \/ pc[t] \notin Restoring
  BY DEF IInv, FilesExact, ThreadTypes, NamesOwned, Quarantining, Restoring

(* Another layer, or one less, keeps whose content it is.                  *)
LEMMA LayersType ==
  ASSUME NEW b \in Blobs, NEW k \in Int, b.layers + k >= 0
  PROVE  LET r == [b EXCEPT !.layers = @ + k]
         IN  r # Nothing /\ r.layers = b.layers + k /\ r.data = b.data
<1> DEFINE r == [b EXCEPT !.layers = @ + k]
<1>1. r \in Blobs /\ r.layers = b.layers + k /\ r.data = b.data
    BY DEF Blobs
<1>2. QED
    BY <1>1, NothingAssumption

(* Appending a row leaves the others where they are.                       *)
LEMMA AppendType ==
  ASSUME DiskTypes, NEW r \in [path : Paths, name : Names]
  PROVE  /\ DOMAIN Append(rows, r) = DOMAIN rows \cup {Len(rows) + 1}
         /\ Len(rows) + 1 \notin DOMAIN rows
         /\ Append(rows, r)[Len(rows) + 1] = r
         /\ \A i \in DOMAIN rows : Append(rows, r)[i] = rows[i]
<1> DEFINE Rows == [path : Paths, name : Names]
<1>1. rows \in Seq(Rows) /\ r \in Rows
    BY DEF DiskTypes
<1> HIDE DEF Rows
<1>2. QED
    BY <1>1

LEMMA EncryptKeeps ==
  ASSUME IInv, CommonTypes', ThreadTypes', NEW t \in Threads, Encrypt(t)
  PROVE  FilesExact'
<1> DEFINE n == name[t]
<1> DEFINE p == path[t]
<1> USE DEF IInv, FilesExact
<1>a. pc[t] = "encrypt" /\ pc[t] \in Quarantining
    BY DEF Encrypt, At, Quarantining
<1>h. /\ n \in Names /\ p \in Paths /\ n \in used
      /\ ~HasRow(n)
      /\ \A s \in Threads : s # t => name[s] # n
    BY <1>a, Handling DEF NamesOwned
<1>f. /\ FileOf(vault[n], p, 0) /\ enc[n] = Nothing
    BY <1>a, <1>h DEF StagesExact
<1>e. /\ enc' = [enc EXCEPT ![n] = [vault[n] EXCEPT !.layers = @ + 1]]
      /\ pc' = [pc EXCEPT ![t] = "remove"]
      /\ UNCHANGED <<orig, vault, dec, rows, home, replaced, interrupted, used, path, name>>
    BY DEF Encrypt, environment, Goto, Same
<1>g. /\ enc'[n] # Nothing /\ enc'[n].layers = 1 /\ enc'[n].data = vault[n].data
      /\ \A o \in Names : o # n => enc'[o] = enc[o]
  <2>1. vault[n] \in Blobs /\ vault[n].layers + 1 \in Nat
      BY <1>h, <1>f DEF DiskTypes, FileOf
  <2>2. LET r == [vault[n] EXCEPT !.layers = @ + 1]
        IN  r # Nothing /\ r.layers = vault[n].layers + 1 /\ r.data = vault[n].data
      BY <2>1, LayersType
  <2>3. enc'[n] = [vault[n] EXCEPT !.layers = @ + 1]
      BY <1>h, <1>e DEF DiskTypes
  <2>4. QED
      BY <1>f, <1>e, <2>2, <2>3 DEF FileOf
<1>1. NamesOwned'
    BY <1>h, <1>e DEF NamesOwned, HasRow, Restoring
<1>2. StagesExact'
    BY <1>a, <1>h, <1>e, <1>g DEF StagesExact, FileOf, ThreadTypes
<1>3. RowsExact'
    BY <1>e DEF RowsExact, FileOf
<1>4. CopiesExact'
    BY <1>e DEF CopiesExact, HasRow
<1>5. OrigExact'
    BY <1>e DEF OrigExact, FileOf
<1>6. AllKept'
    BY <1>f, <1>e DEF AllKept, Kept, Discarded
<1>7. RestHasRow'
    BY <1>e DEF RestHasRow, BeingHandled, HasRow
<1>8. QED
    BY <1>1, <1>2, <1>3, <1>4, <1>5, <1>6, <1>7

LEMMA RemovePlainKeeps ==
  ASSUME IInv, CommonTypes', ThreadTypes', NEW t \in Threads, RemovePlain(t)
  PROVE  FilesExact'
<1> DEFINE n == name[t]
<1> DEFINE p == path[t]
<1> USE DEF IInv, FilesExact
<1>a. pc[t] = "remove" /\ pc[t] \in Quarantining
    BY DEF RemovePlain, At, Quarantining
<1>h. /\ n \in Names /\ p \in Paths /\ n \in used
      /\ ~HasRow(n)
      /\ \A s \in Threads : s # t => name[s] # n
    BY <1>a, Handling DEF NamesOwned
<1>f. /\ FileOf(vault[n], p, 0) /\ FileOf(enc[n], p, 1)
      /\ enc[n].data = vault[n].data
    BY <1>a, <1>h DEF StagesExact
<1>e. /\ vault' = [vault EXCEPT ![n] = Nothing]
      /\ pc' = [pc EXCEPT ![t] = "swap"]
      /\ UNCHANGED <<orig, enc, dec, rows, home, replaced, interrupted, used, path, name>>
    BY <1>f DEF RemovePlain, environment, Goto, Same, FileOf
<1>1. NamesOwned'
    BY <1>a, <1>e DEF NamesOwned, HasRow, Restoring
<1>2. StagesExact'
    BY <1>a, <1>h, <1>e DEF StagesExact, FileOf, DiskTypes, ThreadTypes
<1>3. RowsExact'
    BY <1>e DEF RowsExact, FileOf
<1>4. CopiesExact'
    BY <1>h, <1>e DEF CopiesExact, HasRow
<1>5. OrigExact'
    BY <1>e DEF OrigExact, FileOf
<1>6. AllKept'
    BY <1>f, <1>e DEF AllKept, Kept, Discarded, FileOf
<1>7. RestHasRow'
    BY <1>e DEF RestHasRow, BeingHandled, HasRow
<1>8. QED
    BY <1>1, <1>2, <1>3, <1>4, <1>5, <1>6, <1>7

LEMMA SwapKeeps ==
  ASSUME IInv, CommonTypes', ThreadTypes', NEW t \in Threads, Swap(t)
  PROVE  FilesExact'
<1> DEFINE n == name[t]
<1> DEFINE p == path[t]
<1> USE DEF IInv, FilesExact
<1>a. pc[t] = "swap" /\ pc[t] \in Quarantining
    BY DEF Swap, At, Quarantining
<1>h. /\ n \in Names /\ p \in Paths /\ n \in used
      /\ ~HasRow(n)
      /\ \A s \in Threads : s # t => name[s] # n
    BY <1>a, Handling DEF NamesOwned
<1>f. /\ vault[n] = Nothing /\ FileOf(enc[n], p, 1)
    BY <1>a, <1>h DEF StagesExact
<1>e. /\ vault' = [vault EXCEPT ![n] = enc[n]]
      /\ enc' = [enc EXCEPT ![n] = Nothing]
      /\ pc' = [pc EXCEPT ![t] = "insert"]
      /\ UNCHANGED <<orig, dec, rows, home, replaced, interrupted, used, path, name>>
    BY <1>f DEF Swap, environment, Goto, Same, FileOf
<1>1. NamesOwned'
    BY <1>a, <1>e DEF NamesOwned, HasRow, Restoring
<1>2. StagesExact'
    BY <1>a, <1>h, <1>e DEF StagesExact, FileOf, DiskTypes, ThreadTypes
<1>3. RowsExact'
    BY <1>h, <1>e DEF RowsExact, FileOf, HasRow
<1>4. CopiesExact'
    BY <1>h, <1>e DEF CopiesExact, HasRow
<1>5. OrigExact'
    BY <1>e DEF OrigExact, FileOf
<1>6. AllKept'
    BY <1>a, <1>h, <1>f, <1>e DEF AllKept, Kept, Discarded, DiskTypes
<1>7. RestHasRow'
    BY <1>e DEF RestHasRow, BeingHandled, HasRow
<1>8. QED
    BY <1>1, <1>2, <1>3, <1>4, <1>5, <1>6, <1>7

LEMMA InsertKeeps ==
  ASSUME IInv, CommonTypes', ThreadTypes', NEW t \in Threads, Insert(t)
  PROVE  FilesExact'
<1> DEFINE n == name[t]
<1> DEFINE p == path[t]
<1> USE DEF IInv, FilesExact
<1>a. pc[t] = "insert" /\ pc[t] \in Quarantining
    BY DEF Insert, At, Quarantining
<1>h. /\ n \in Names /\ p \in Paths /\ n \in used
      /\ ~HasRow(n)
      /\ \A s \in Threads : s # t => name[s] # n
    BY <1>a, Handling DEF NamesOwned
<1>f. /\ FileOf(vault[n], p, 1) /\ enc[n] = Nothing
    BY <1>a, <1>h DEF StagesExact
<1>e. /\ rows' = Append(rows, [path |-> p, name |-> n])
      /\ pc' = [pc EXCEPT ![t] = IF todo[t] = {} THEN "idle" ELSE "next"]
      /\ path' = [path EXCEPT ![t] = Nothing]
      /\ name' = [name EXCEPT ![t] = Nothing]
      /\ UNCHANGED <<orig, vault, enc, dec, home, replaced, interrupted, used>>
    BY DEF Insert, environment, Goto, Leave
<1>g. /\ DOMAIN rows' = DOMAIN rows \cup {Len(rows) + 1} /\ Len(rows) + 1 \notin DOMAIN rows
      /\ rows'[Len(rows) + 1].name = n /\ rows'[Len(rows) + 1].path = p
      /\ \A i \in DOMAIN rows : rows'[i] = rows[i]
    BY <1>e
<1>1. NamesOwned'
  <2>1. \A i \in DOMAIN rows' : rows'[i].name \in used'
      BY <1>h, <1>e DEF NamesOwned
  <2>2. \A i, k \in DOMAIN rows' : rows'[i].name = rows'[k].name => i = k
      BY <1>h, <1>g DEF NamesOwned, HasRow
  <2>3. \A o : HasRow(o)' => HasRow(o) \/ o = n
      BY <1>g DEF HasRow
  <2>4. \A s \in Threads : pc'[s] \in Quarantining => s # t /\ ~HasRow(name[s])'
      BY <1>e, <2>3 DEF NamesOwned, ThreadTypes, Quarantining
  <2>5. \A s \in Threads : pc'[s] \in Restoring =>
           /\ s = Command
           /\ \E i \in DOMAIN rows' : rows'[i].name = name'[s] /\ rows'[i].path = path'[s]
      BY <1>e DEF NamesOwned, ThreadTypes, Restoring
  <2>6. /\ \A s \in Threads : name'[s] # Nothing => name'[s] \in used'
        /\ \A o \in Names : o \notin used' => vault'[o] = Nothing /\ enc'[o] = Nothing
        /\ \A s, r \in Threads : pc'[s] \in Quarantining /\ s # r => name'[s] # name'[r]
      BY <1>e DEF NamesOwned, ThreadTypes, Quarantining
  <2>7. QED
      BY <2>1, <2>2, <2>4, <2>5, <2>6 DEF NamesOwned
<1>2. StagesExact'
    BY <1>e DEF StagesExact, FileOf, ThreadTypes
<1>3. RowsExact'
    BY <1>f, <1>e DEF RowsExact, FileOf
<1>4. CopiesExact'
    BY <1>e DEF CopiesExact, HasRow
<1>5. OrigExact'
    BY <1>e DEF OrigExact, FileOf
<1>6. AllKept'
    BY <1>a, <1>e DEF AllKept, Kept, Discarded
<1>7. RestHasRow'
    BY <1>e, <1>g DEF RestHasRow, BeingHandled, HasRow
<1>8. QED
    BY <1>1, <1>2, <1>3, <1>4, <1>5, <1>6, <1>7

LEMMA DecryptKeeps ==
  ASSUME IInv, CommonTypes', ThreadTypes', NEW t \in Threads, Decrypt(t)
  PROVE  FilesExact'
<1> DEFINE n == name[t]
<1> DEFINE p == path[t]
<1> USE DEF IInv, FilesExact
<1>a. pc[t] = "decrypt" /\ pc[t] \in Restoring
    BY DEF Decrypt, At, Restoring
<1>h. /\ n \in Names /\ p \in Paths /\ n \in used
      /\ t = Command /\ HasRow(n)
      /\ \A s \in Threads : s # t => pc[s] \notin Restoring
      /\ \A s \in Threads : pc[s] \in Quarantining => name[s] # n
    BY <1>a, Handling DEF NamesOwned, HasRow
<1>f. /\ vault[n] # Nothing => FileOf(vault[n], p, 1)
    BY <1>a DEF NamesOwned, RowsExact
<1>e. /\ vault[n] # Nothing
      /\ dec' = [dec EXCEPT ![n] = [vault[n] EXCEPT !.layers = @ + (-1)]]
      /\ pc' = [pc EXCEPT ![t] = "place"]
      /\ UNCHANGED <<orig, vault, enc, rows, home, replaced, interrupted, used, path, name>>
    BY DEF Decrypt, environment, Goto, Same
<1>g. /\ dec'[n] # Nothing /\ dec'[n].layers = 0 /\ dec'[n].data = vault[n].data
      /\ \A o \in Names : o # n => dec'[o] = dec[o]
  <2>1. vault[n] \in Blobs /\ vault[n].layers + (-1) \in Nat
      BY <1>h, <1>f, <1>e DEF DiskTypes, FileOf
  <2>2. LET r == [vault[n] EXCEPT !.layers = @ + (-1)]
        IN  r # Nothing /\ r.layers = vault[n].layers + (-1) /\ r.data = vault[n].data
      BY <2>1, LayersType
  <2>3. dec'[n] = [vault[n] EXCEPT !.layers = @ + (-1)]
      BY <1>h, <1>e DEF DiskTypes
  <2>4. QED
      BY <1>h, <1>f, <1>e, <2>2 DEF DiskTypes, FileOf
<1>1. NamesOwned'
    BY <1>a, <1>e DEF NamesOwned, HasRow, Quarantining
<1>2. StagesExact'
    BY <1>a, <1>h, <1>f, <1>e, <1>g DEF StagesExact, FileOf, Restoring
<1>3. RowsExact'
    BY <1>e DEF RowsExact, FileOf
<1>4. CopiesExact'
    BY <1>h, <1>e DEF CopiesExact, HasRow
<1>5. OrigExact'
    BY <1>e DEF OrigExact, FileOf
<1>6. AllKept'
    BY <1>e DEF AllKept, Kept, Discarded
<1>7. RestHasRow'
    BY <1>e DEF RestHasRow, BeingHandled, HasRow
<1>8. QED
    BY <1>1, <1>2, <1>3, <1>4, <1>5, <1>6, <1>7

LEMMA DecryptFailsKeeps ==
  ASSUME IInv, CommonTypes', ThreadTypes', NEW t \in Threads, DecryptFails(t)
  PROVE  FilesExact'
<1> DEFINE n == name[t]
<1> DEFINE p == path[t]
<1> USE DEF IInv, FilesExact
<1>a. pc[t] = "decrypt" /\ pc[t] \in Restoring
    BY DEF DecryptFails, At, Restoring
<1>h. /\ n \in Names /\ p \in Paths /\ n \in used
      /\ t = Command /\ HasRow(n)
      /\ \A s \in Threads : s # t => pc[s] \notin Restoring
      /\ \A s \in Threads : pc[s] \in Quarantining => name[s] # n
    BY <1>a, Handling DEF NamesOwned, HasRow
<1>f. /\ TRUE
    BY <1>a, <1>h DEF StagesExact
<1>e. /\ dec' = [dec EXCEPT ![n] = Nothing]
      /\ pc' = [pc EXCEPT ![t] = IF todo[t] = {} THEN "idle" ELSE "next"]
      /\ path' = [path EXCEPT ![t] = Nothing]
      /\ name' = [name EXCEPT ![t] = Nothing]
      /\ UNCHANGED <<orig, vault, enc, rows, home, replaced, interrupted, used>>
    BY DEF DecryptFails, environment, Goto, Leave
<1>1. NamesOwned'
    BY <1>e DEF NamesOwned, HasRow, Quarantining, Restoring, ThreadTypes
<1>2. StagesExact'
    BY <1>a, <1>h, <1>e DEF StagesExact, FileOf, Restoring
<1>3. RowsExact'
    BY <1>e DEF RowsExact, FileOf
<1>4. CopiesExact'
    BY <1>e DEF CopiesExact, HasRow
<1>5. OrigExact'
    BY <1>e DEF OrigExact, FileOf
<1>6. AllKept'
    BY <1>a, <1>e DEF AllKept, Kept, Discarded
<1>7. RestHasRow'
    BY <1>h, <1>e DEF RestHasRow, BeingHandled, HasRow
<1>8. QED
    BY <1>1, <1>2, <1>3, <1>4, <1>5, <1>6, <1>7

LEMMA PlaceKeeps ==
  ASSUME IInv, CommonTypes', ThreadTypes', NEW t \in Threads, Place(t)
  PROVE  FilesExact'
<1> DEFINE n == name[t]
<1> DEFINE p == path[t]
<1> USE DEF IInv, FilesExact
<1>a. pc[t] = "place" /\ pc[t] \in Restoring
    BY DEF Place, At, Restoring
<1>h. /\ n \in Names /\ p \in Paths /\ n \in used
      /\ t = Command /\ HasRow(n)
      /\ \A s \in Threads : s # t => pc[s] \notin Restoring
      /\ \A s \in Threads : pc[s] \in Quarantining => name[s] # n
    BY <1>a, Handling DEF NamesOwned, HasRow
<1>f. /\ FileOf(dec[n], p, 0)
      /\ vault[n] # Nothing /\ vault[n].data = dec[n].data
    BY <1>a, <1>h DEF StagesExact, CopiesExact, FileOf
<1>e. /\ orig' = [orig EXCEPT ![p] = dec[n]]
      /\ dec' = [dec EXCEPT ![n] = Nothing]
      /\ pc' = [pc EXCEPT ![t] = "discard"]
      /\ replaced' = IF orig[p] = Nothing THEN replaced ELSE replaced \cup {orig[p].data}
      /\ UNCHANGED <<vault, enc, rows, home, interrupted, used, path, name>>
    BY DEF Place, Goto, Same, Overwrite
<1>1. NamesOwned'
    BY <1>a, <1>e DEF NamesOwned, HasRow, Quarantining
<1>2. StagesExact'
    BY <1>a, <1>h, <1>e DEF StagesExact, FileOf, DiskTypes, ThreadTypes
<1>3. RowsExact'
    BY <1>e DEF RowsExact, FileOf
<1>4. CopiesExact'
    BY <1>e DEF CopiesExact, HasRow
<1>5. OrigExact'
    BY <1>f, <1>e DEF OrigExact, FileOf
<1>6. AllKept'
    BY <1>h, <1>f, <1>e, NothingAssumption
       DEF AllKept, Kept, Discarded, FileOf, DiskTypes
<1>7. RestHasRow'
    BY <1>e DEF RestHasRow, BeingHandled, HasRow
<1>8. QED
    BY <1>1, <1>2, <1>3, <1>4, <1>5, <1>6, <1>7

LEMMA DiscardKeeps ==
  ASSUME IInv, CommonTypes', ThreadTypes', NEW t \in Threads, Discard(t)
  PROVE  FilesExact'
<1> DEFINE n == name[t]
<1> DEFINE p == path[t]
<1> USE DEF IInv, FilesExact
<1>a. pc[t] = "discard" /\ pc[t] \in Restoring
    BY DEF Discard, At, Restoring
<1>h. /\ n \in Names /\ p \in Paths /\ n \in used
      /\ t = Command /\ HasRow(n)
      /\ \A s \in Threads : s # t => pc[s] \notin Restoring
      /\ \A s \in Threads : pc[s] \in Quarantining => name[s] # n
    BY <1>a, Handling DEF NamesOwned, HasRow
<1>f. /\ dec[n] = Nothing
    BY <1>a, <1>h DEF StagesExact
<1>e. /\ vault' = [vault EXCEPT ![n] = Nothing]
      /\ pc' = [pc EXCEPT ![t] = IF todo[t] = {} THEN "idle" ELSE "next"]
      /\ path' = [path EXCEPT ![t] = Nothing]
      /\ name' = [name EXCEPT ![t] = Nothing]
      /\ UNCHANGED <<orig, enc, dec, rows, home, replaced, interrupted, used>>
    BY DEF Discard, environment, Goto, Leave
<1>1. NamesOwned'
    BY <1>e DEF NamesOwned, HasRow, Quarantining, Restoring, ThreadTypes
<1>2. StagesExact'
    BY <1>h, <1>e DEF StagesExact, FileOf, Quarantining, ThreadTypes
<1>3. RowsExact'
    BY <1>e DEF RowsExact, FileOf
<1>4. CopiesExact'
    BY <1>f, <1>e DEF CopiesExact, HasRow
<1>5. OrigExact'
    BY <1>e DEF OrigExact, FileOf
<1>6. AllKept'
    BY <1>a, <1>e, NothingAssumption DEF AllKept, Kept, Discarded
<1>7. RestHasRow'
    BY <1>h, <1>e DEF RestHasRow, BeingHandled, HasRow
<1>8. QED
    BY <1>1, <1>2, <1>3, <1>4, <1>5, <1>6, <1>7

LEMMA MoveToVaultKeeps ==
  ASSUME IInv, CommonTypes', ThreadTypes', NEW t \in Threads, MoveToVault(t),
         orig[path[t]] # Nothing
  PROVE  FilesExact'
<1> DEFINE n == name[t]
<1> DEFINE p == path[t]
<1> USE DEF IInv, FilesExact
<1>a. pc[t] = "rename" /\ pc[t] \in Quarantining
    BY DEF MoveToVault, At, Quarantining
<1>h. /\ n \in Names /\ p \in Paths /\ n \in used
      /\ ~HasRow(n)
      /\ \A s \in Threads : s # t => name[s] # n
    BY <1>a, Handling DEF NamesOwned
<1>f. /\ vault[n] = Nothing /\ enc[n] = Nothing
      /\ FileOf(orig[p], p, 0)
    BY <1>a, <1>h DEF StagesExact, OrigExact
<1>e. /\ vault' = [vault EXCEPT ![n] = orig[p]]
      /\ orig' = [orig EXCEPT ![p] = Nothing]
      /\ pc' = [pc EXCEPT ![t] = "encrypt"]
      /\ UNCHANGED <<enc, dec, rows, home, replaced, interrupted, used, path, name>>
    BY DEF MoveToVault, environment, Goto, Same
<1>1. NamesOwned'
    BY <1>h, <1>e DEF NamesOwned, HasRow, Restoring
<1>2. StagesExact'
    BY <1>h, <1>f, <1>e DEF StagesExact, FileOf, DiskTypes, ThreadTypes
<1>3. RowsExact'
    BY <1>h, <1>e DEF RowsExact, FileOf, HasRow
<1>4. CopiesExact'
    BY <1>h, <1>e DEF CopiesExact, HasRow
<1>5. OrigExact'
    BY <1>e DEF OrigExact, FileOf
<1>6. AllKept'
    BY <1>a, <1>h, <1>f, <1>e DEF AllKept, Kept, Discarded, DiskTypes
<1>7. RestHasRow'
    BY <1>e DEF RestHasRow, BeingHandled, HasRow
<1>8. QED
    BY <1>1, <1>2, <1>3, <1>4, <1>5, <1>6, <1>7

LEMMA EncryptFailsKeeps ==
  ASSUME IInv, CommonTypes', ThreadTypes', NEW t \in Threads, EncryptFails(t)
  PROVE  FilesExact'
<1> DEFINE n == name[t]
<1> DEFINE p == path[t]
<1> USE DEF IInv, FilesExact
<1>a. pc[t] = "encrypt" /\ pc[t] \in Quarantining
    BY DEF EncryptFails, At, Quarantining
<1>h. /\ n \in Names /\ p \in Paths /\ n \in used
      /\ ~HasRow(n)
      /\ \A s \in Threads : s # t => name[s] # n
    BY <1>a, Handling DEF NamesOwned
<1>f. /\ FileOf(vault[n], p, 0) /\ enc[n] = Nothing
    BY <1>a, <1>h DEF StagesExact
<1>e. /\ orig' = [orig EXCEPT ![p] = vault[n]]
      /\ vault' = [vault EXCEPT ![n] = Nothing]
      /\ replaced' = IF orig[p] = Nothing THEN replaced ELSE replaced \cup {orig[p].data}
      /\ pc' = [pc EXCEPT ![t] = IF todo[t] = {} THEN "idle" ELSE "next"]
      /\ path' = [path EXCEPT ![t] = Nothing]
      /\ name' = [name EXCEPT ![t] = Nothing]
      /\ UNCHANGED <<enc, dec, rows, home, interrupted, used>>
    BY <1>f DEF EncryptFails, Goto, Leave, FileOf, Overwrite
<1>1. NamesOwned'
    BY <1>e DEF NamesOwned, HasRow, Quarantining, Restoring, ThreadTypes
<1>2. StagesExact'
    BY <1>h, <1>e DEF StagesExact, FileOf, ThreadTypes
<1>3. RowsExact'
    BY <1>e DEF RowsExact, FileOf
<1>4. CopiesExact'
    BY <1>h, <1>e DEF CopiesExact, HasRow
<1>5. OrigExact'
    BY <1>f, <1>e DEF OrigExact, FileOf
<1>6. AllKept'
    BY <1>h, <1>e DEF AllKept, Kept, Discarded, DiskTypes, ThreadTypes
<1>7. RestHasRow'
    BY <1>e DEF RestHasRow, BeingHandled, HasRow, DiskTypes
<1>8. QED
    BY <1>1, <1>2, <1>3, <1>4, <1>5, <1>6, <1>7

LEMMA NameFileKeeps ==
  ASSUME IInv, CommonTypes', ThreadTypes', ~NamesMayClash, NEW t \in Threads, NameFile(t),
         orig[path[t]] # Nothing
  PROVE  FilesExact'
<1> USE DEF IInv, FilesExact
<1>a. /\ pc[t] = "size" /\ name[t] = Nothing /\ NameOf(path[t]) \notin used
      /\ NameOf(path[t]) \in Names /\ NameOf(path[t]) # Nothing
      /\ vault[NameOf(path[t])] = Nothing /\ enc[NameOf(path[t])] = Nothing
      /\ ~HasRow(NameOf(path[t]))
      /\ \A s \in Threads : name[s] # NameOf(path[t])
    BY NothingAssumption, NameOfType DEF NameFile, At, ThreadTypes, NamesOwned, HasRow
<1>e. /\ name' = [name EXCEPT ![t] = NameOf(path[t])]
      /\ used' = used \cup {NameOf(path[t])}
      /\ pc' = [pc EXCEPT ![t] = "rename"]
      /\ UNCHANGED <<orig, vault, enc, dec, rows, home, replaced, interrupted, path>>
    BY DEF NameFile, disk, clock, Goto
<1>1. NamesOwned'
    BY <1>a, <1>e DEF NamesOwned, HasRow, Restoring, ThreadTypes
<1>2. StagesExact'
    BY <1>a, <1>e DEF StagesExact, FileOf, ThreadTypes
<1>3. RowsExact'
    BY <1>e DEF RowsExact, FileOf
<1>4. CopiesExact'
    BY <1>e DEF CopiesExact, HasRow
<1>5. OrigExact'
    BY <1>e DEF OrigExact, FileOf
<1>6. AllKept'
    BY <1>a, <1>e DEF AllKept, Kept, Discarded
<1>7. RestHasRow'
  <2>1. \A o \in Names : BeingHandled(o) => BeingHandled(o)'
      BY <1>a, <1>e, NothingAssumption DEF BeingHandled
  <2>2. \A o \in Names : HasRow(o)' = HasRow(o) /\ vault'[o] = vault[o]
      BY <1>e DEF HasRow
  <2>3. QED
      BY <1>e, <2>1, <2>2 DEF RestHasRow
<1>8. QED
    BY <1>1, <1>2, <1>3, <1>4, <1>5, <1>6, <1>7

LEMMA FindRowKeeps ==
  ASSUME IInv, CommonTypes', ThreadTypes', NEW t \in Threads, NEW n \in Names, FindRow(t, n)
  PROVE  FilesExact'
<1> USE DEF IInv, FilesExact
<1>a. /\ t = Command /\ pc[t] = "idle" /\ name[t] = Nothing /\ HasRow(n) /\ n \in used
    BY DEF FindRow, At, ThreadTypes, NamesOwned, HasRow
<1>e. /\ name' = [name EXCEPT ![t] = n]
      /\ pc' = [pc EXCEPT ![t] = "decrypt"]
      /\ \E i \in DOMAIN rows :
           /\ rows[i].name = n /\ path' = [path EXCEPT ![t] = rows[i].path]
      /\ UNCHANGED <<orig, vault, enc, dec, rows, home, replaced, interrupted, used>>
    BY DEF FindRow, disk, environment, Goto
<1>1. NamesOwned'
    BY <1>a, <1>e DEF NamesOwned, HasRow, Quarantining, ThreadTypes
<1>2. StagesExact'
    BY <1>a, <1>e DEF StagesExact, FileOf
<1>3. RowsExact'
    BY <1>e DEF RowsExact, FileOf
<1>4. CopiesExact'
    BY <1>e DEF CopiesExact, HasRow
<1>5. OrigExact'
    BY <1>e DEF OrigExact, FileOf
<1>6. AllKept'
    BY <1>a, <1>e DEF AllKept, Kept, Discarded
<1>7. RestHasRow'
  <2>1. \A o \in Names : BeingHandled(o) => BeingHandled(o)'
      BY <1>a, <1>e, NothingAssumption DEF BeingHandled
  <2>2. \A o \in Names : HasRow(o)' = HasRow(o) /\ vault'[o] = vault[o]
      BY <1>e DEF HasRow
  <2>3. QED
      BY <1>e, <2>1, <2>2 DEF RestHasRow
<1>8. QED
    BY <1>1, <1>2, <1>3, <1>4, <1>5, <1>6, <1>7

LEMMA CreateKeeps ==
  ASSUME IInv, NEW p \in Paths, Create(p)
  PROVE  FilesExact'
<1> USE DEF IInv, FilesExact
<1>e. PICK c \in Contents :
        /\ orig[p] = Nothing /\ home[c] = Nothing
        /\ orig' = [orig EXCEPT ![p] = Plain(c)] /\ home' = [home EXCEPT ![c] = p]
    BY DEF Create
<1>u. UNCHANGED <<vault, enc, dec, rows, used, replaced, interrupted, pc, path, name>>
    BY DEF Create
<1>f. \A b, q, k : q \in Paths /\ b \in Blobs /\ FileOf(b, q, k) => FileOf(b, q, k)'
    BY <1>e, NothingAssumption DEF FileOf
<1>1. NamesOwned'
    BY <1>u DEF NamesOwned, HasRow
<1>2. StagesExact'
    BY <1>e, <1>u DEF StagesExact, FileOf, ThreadTypes
<1>3. RowsExact'
  <2>1. ASSUME NEW i \in DOMAIN rows, vault[rows[i].name] # Nothing
        PROVE  FileOf(vault[rows[i].name], rows[i].path, 1) /\ vault[rows[i].name].data # c
      BY <1>e, <2>1, RowType, NothingAssumption DEF RowsExact, FileOf
  <2>2. ASSUME NEW i \in DOMAIN rows, vault[rows[i].name] # Nothing
        PROVE  home'[vault[rows[i].name].data] = rows[i].path
      BY <1>e, <2>1, <2>2 DEF FileOf
  <2>3. QED
      BY <1>u, <2>2 DEF RowsExact, FileOf
<1>4. CopiesExact'
    BY <1>u DEF CopiesExact, HasRow
<1>5. OrigExact'
    BY <1>e, NothingAssumption DEF OrigExact, FileOf, CommonTypes, Plain
<1>6. AllKept'
    BY <1>e, <1>u, NothingAssumption
       DEF AllKept, Kept, Discarded, DiskTypes, Plain, Blobs
<1>7. RestHasRow'
    BY <1>u DEF RestHasRow, BeingHandled, HasRow
<1>8. QED
    BY <1>1, <1>2, <1>3, <1>4, <1>5, <1>6, <1>7

LEMMA InvStep == ~NamesMayClash => (IInv /\ [Next]_vars => IInv')
<1> SUFFICES ASSUME ~NamesMayClash, IInv, [Next]_vars PROVE IInv'
    OBVIOUS
<1>t. DiskTypes' /\ CommonTypes' /\ ThreadTypes'
  <2>1. TypeOK
      BY TypeParts DEF IInv
  <2>2. TypeOK'
      BY <2>1, TypeStep
  <2>3. QED
      BY <2>2, TypePartsPrimed
<1> SUFFICES FilesExact'
    BY <1>t DEF IInv
<1> USE DEF disk, environment, clock, At, Goto, Same
<1>1. ASSUME NEW t \in Threads, Leave(t), UNCHANGED <<disk, home, replaced, used, interrupted>>,
             name[t] = Nothing \/ HasRow(name[t]) \/ vault[name[t]] = Nothing
      PROVE  FilesExact'
  <2>1. \A s \in Threads :
          \/ pc'[s] = pc[s] /\ path'[s] = path[s] /\ name'[s] = name[s]
          \/ pc'[s] \in {"idle", "next", "analyze", "size"}
      BY <1>1 DEF Leave, IInv, ThreadTypes
  <2>2. \A n \in Names : BeingHandled(n) => BeingHandled(n)' \/ vault[n] = Nothing \/ HasRow(n)
      BY <1>1 DEF Leave, BeingHandled
  <2>3. QED
      BY <1>1, <1>t, <2>1, <2>2, NoFileMoves
<1>2. ASSUME interrupted' = TRUE, UNCHANGED <<disk, home, replaced, used>>,
             ThreadsGone \/ \E t \in Threads : Leave(t)
      PROVE  FilesExact'
  <2>1. \A s \in Threads :
          \/ pc'[s] = pc[s] /\ path'[s] = path[s] /\ name'[s] = name[s]
          \/ pc'[s] \in {"idle", "next", "analyze", "size"}
      BY <1>2 DEF Leave, ThreadsGone, IInv, ThreadTypes
  <2>2. QED
      BY <1>2, <1>t, <2>1, NoFileMoves
<1>3. ASSUME NEW t \in Threads, Throw(t), name[t] = Nothing,
             UNCHANGED <<disk, home, replaced, used>>
      PROVE  FilesExact'
    BY <1>1, <1>2, <1>3 DEF Throw, ThreadsGone
<1>4. ASSUME NEW t \in Threads, name[t] = Nothing,
             UNCHANGED <<disk, home, replaced, used, interrupted, name>>,
             pc'[t] \in {"next", "analyze", "size"},
             \A s \in Threads : s # t => pc'[s] = pc[s] /\ path'[s] = path[s]
      PROVE  FilesExact'
  <2>1. \A n \in Names : BeingHandled(n) => BeingHandled(n)'
      BY <1>4 DEF BeingHandled
  <2>2. QED
      BY <1>4, <1>t, <2>1, NoFileMoves
<1>5. ASSUME NEW t \in Threads, Scan(t) PROVE FilesExact'
  <2>0. pc[t] \in {"idle", "next", "analyze", "size"} => name[t] = Nothing
      BY DEF IInv, ThreadTypes
  <2>1. CASE CollectTargetFiles(t)
      BY <2>1, <1>4 DEF CollectTargetFiles, IInv, ThreadTypes
  <2>2. CASE NextFile(t)
    <3>1. PICK p \in todo[t] :
            IF orig[p] # Nothing
              THEN /\ path' = [path EXCEPT ![t] = p]
                   /\ pc' = [pc EXCEPT ![t] = "analyze"]
                   /\ UNCHANGED <<name, interrupted>>
              ELSE Throw(t)
        BY <2>2 DEF NextFile
    <3>2. name[t] = Nothing /\ UNCHANGED <<disk, home, replaced, used>>
        BY <2>0, <2>2 DEF NextFile
    <3>3. QED
        BY <3>1, <3>2, <1>3, <1>4 DEF IInv, ThreadTypes
  <2>3. CASE RunSingleFile(t)
      BY <2>3, <1>4 DEF RunSingleFile, IInv, ThreadTypes
  <2>4. CASE AnalyzeFile(t)
      BY <2>0, <2>4, <1>4 DEF AnalyzeFile
  <2>5. CASE PassFile(t)
      BY <2>0, <2>5, <1>1 DEF PassFile
  <2>6. CASE LookupThrows(t)
      BY <2>0, <2>6, <1>3 DEF LookupThrows
  <2>7. CASE NameFile(t)
      BY <2>0, <2>7, <1>t, <1>3, NameFileKeeps DEF NameFile
  <2>8. QED
      BY <1>5, <2>1, <2>2, <2>3, <2>4, <2>5, <2>6, <2>7 DEF Scan
<1>6. ASSUME NEW t \in Threads, IntoQuarantine(t) PROVE FilesExact'
  <2>1. CASE MoveToVault(t)
    <3>1. CASE orig[path[t]] # Nothing
        BY <2>1, <3>1, <1>t, MoveToVaultKeeps
    <3>2. CASE orig[path[t]] = Nothing
        BY <2>1, <3>2, <1>1 DEF MoveToVault, IInv, FilesExact, StagesExact
    <3>3. QED
        BY <3>1, <3>2
  <2>2. QED
      BY <1>6, <1>t, <1>2, <2>1, EncryptKeeps, EncryptFailsKeeps, RemovePlainKeeps,
         SwapKeeps, InsertKeeps
         DEF IntoQuarantine, FileSystemError, InsertThrows, Throw
<1>7. ASSUME NEW t \in Threads, OutOfQuarantine(t) PROVE FilesExact'
  <2>1. CASE PlaceFails(t)
    <3>1. HasRow(name[t])
        BY <2>1 DEF PlaceFails, Restoring, IInv, FilesExact, NamesOwned, HasRow
    <3>2. QED
        BY <2>1, <3>1, <1>1 DEF PlaceFails
  <2>2. QED
      BY <1>7, <1>t, <2>1, FindRowKeeps, DecryptKeeps, DecryptFailsKeeps, PlaceKeeps,
         DiscardKeeps
         DEF OutOfQuarantine
<1>8. CASE Die
    BY <1>8, <1>2 DEF Die, ThreadsGone
<1>9. CASE Restart \/ Tick \/ UNCHANGED vars
  <2>1. UNCHANGED <<disk, home, replaced, used, interrupted, pc, path, name>>
      BY <1>9 DEF Restart, Tick, vars
  <2>2. \A n \in Names : BeingHandled(n) => BeingHandled(n)'
      BY <2>1 DEF BeingHandled
  <2>3. QED
      BY <1>t, <2>1, <2>2, NoFileMoves
<1>10. ASSUME NEW p \in Paths, Create(p) PROVE FilesExact'
    BY <1>10, CreateKeeps
<1>11. QED
    BY <1>5, <1>6, <1>7, <1>8, <1>9, <1>10 DEF Next

-----------------------------------------------------------------------------
(* What follows from the invariant, as long as names are not given twice.  *)

LEMMA InvKept == ~NamesMayClash => (Spec => []IInv)
<1> SUFFICES ASSUME ~NamesMayClash PROVE Spec => []IInv
    OBVIOUS
<1>1. IInv /\ [Next]_vars => IInv'
    BY InvStep
<1>2. QED
    BY InvInit, <1>1, PTL DEF Spec

(* Steps of several threads in any order, failures and deaths lose no file *)
(* but one in the way of a file that is moved back to its path.            *)
THEOREM FilesKept == ~NamesMayClash => (Spec => []NothingLost)
<1>1. IInv => NothingLost
    BY DEF IInv, FilesExact, AllKept, Kept, NothingLost, OnDisk
<1>2. QED
    BY <1>1, InvKept, PTL

(* What is at a path is the plain file that was created there.             *)
THEOREM BackAtOrigin == ~NamesMayClash => (Spec => []RestoredToOrigin)
<1>1. IInv => RestoredToOrigin
    BY DEF IInv, FilesExact, OrigExact, FileOf, RestoredToOrigin
<1>2. QED
    BY <1>1, InvKept, PTL

(* What lies in the quarantine after steps that all ran to their end is    *)
(* encrypted once, and the first row of its name leads back.               *)
THEOREM Restorable == ~NamesMayClash => (Spec => []VaultRestorable)
<1>1. IInv => VaultRestorable
  <2> SUFFICES ASSUME IInv, ~interrupted, NEW n \in Names,
                      vault[n] # Nothing, ~BeingHandled(n)
               PROVE  /\ vault[n].layers = 1
                      /\ \E i \in DOMAIN rows :
                           /\ rows[i].name = n
                           /\ \A k \in 1 .. i - 1 : rows[k].name # n
                           /\ home[vault[n].data] = rows[i].path
      BY DEF VaultRestorable
  <2>1. PICK i \in DOMAIN rows : rows[i].name = n
      BY DEF IInv, FilesExact, RestHasRow, HasRow
  <2>2. \A k \in 1 .. i - 1 : k \in DOMAIN rows /\ k # i
      BY RowType DEF IInv
  <2>3. \A k \in 1 .. i - 1 : rows[k].name # n
      BY <2>1, <2>2 DEF IInv, FilesExact, NamesOwned
  <2>4. FileOf(vault[n], rows[i].path, 1)
      BY <2>1 DEF IInv, FilesExact, RowsExact
  <2>5. QED
      BY <2>1, <2>3, <2>4 DEF FileOf
<1>2. QED
    BY <1>1, InvKept, PTL

(* The table never tells of a file that is not encrypted, exactly once.    *)
THEOREM RowsOfEncrypted == ~NamesMayClash => (Spec => []RowsAreEncrypted)
<1>1. IInv => RowsAreEncrypted
    BY DEF IInv, FilesExact, RowsExact, FileOf, RowsAreEncrypted
<1>2. QED
    BY <1>1, InvKept, PTL
-----------------------------------------------------------------------------
(* The quarantine implements Custody, as long as names are not given twice. *)

Held == {c \in Contents : InQuarantine(c)}
Holds(b, c) == b # Nothing /\ b.data = c
AtPaths == [p \in Paths |-> DataOf(orig[p])]

(* A content is in custody when one of the three files of a name holds it. *)
LEMMA HeldFiles ==
  \A c : c \in Held <=>
    /\ c \in Contents
    /\ \E n \in Names : Holds(vault[n], c) \/ Holds(enc[n], c) \/ Holds(dec[n], c)
<1>1. \A c \in Contents : \A b : DataOf(b) = c <=> Holds(b, c)
    BY NothingAssumption DEF DataOf, Holds
<1>2. QED
    BY <1>1 DEF Held, InQuarantine

LEMMA HeldFilesPrimed ==
  \A c : c \in Held' <=>
    /\ c \in Contents
    /\ \E n \in Names : Holds(vault'[n], c) \/ Holds(enc'[n], c) \/ Holds(dec'[n], c)
<1>1. \A c \in Contents : \A b : DataOf(b) = c <=> Holds(b, c)
    BY NothingAssumption DEF DataOf, Holds
<1>2. QED
    BY <1>1 DEF Held, InQuarantine

(* What a path holds, by the file that is there.                           *)
LEMMA PathHolds ==
  ASSUME DiskTypes, NEW p \in Paths
  PROVE  /\ orig[p] = Nothing => AtPaths[p] = Nothing
         /\ orig[p] # Nothing =>
              AtPaths[p] = orig[p].data /\ AtPaths[p] \in Contents /\ AtPaths[p] # Nothing
  BY NothingAssumption DEF DiskTypes, AtPaths, DataOf, Blobs

LEMMA CustodyInit == Init => Keeper!Init
<1> SUFFICES ASSUME Init PROVE Keeper!Init
    OBVIOUS
<1>0. DiskTypes /\ CommonTypes
    BY TypeInit, TypeParts
<1>1. Held = {} /\ replaced = {}
    BY HeldFiles DEF Init, Holds
<1>2. \A p \in Paths : AtPaths[p] = InitialFile[p] /\ InitialFile[p] \in Contents
    BY FilesAssumption, NothingAssumption DEF Init, AtPaths, DataOf, Plain, Blobs
<1>3. AtPaths \in [Paths -> Contents \cup {Nothing}]
    BY <1>2 DEF AtPaths
<1>4. \A p \in Paths : home[AtPaths[p]] = p
    BY <1>2, FilesAssumption DEF Init
<1>5. ASSUME NEW c \in Contents, home[c] # Nothing
      PROVE  AtPaths[home[c]] = c
  <2>1. \E p \in Paths : InitialFile[p] = c
      BY <1>5 DEF Init
  <2>2. home[c] = CHOOSE p \in Paths : InitialFile[p] = c
      BY <2>1 DEF Init
  <2>3. QED
      BY <2>1, <2>2, <1>2
<1>6. QED
    BY <1>0, <1>1, <1>3, <1>4, <1>5
       DEF Keeper!Init, Keeper!TypeOK, Keeper!Back, CommonTypes, Held, AtPaths

(* Steps that move no file between paths and the quarantine.               *)
LEMMA CustodyStays ==
  ASSUME UNCHANGED <<orig, home, replaced>>, Held' = Held
  PROVE  UNCHANGED Keeper!vars
  BY DEF Keeper!vars, Held

LEMMA CustodyTake ==
  ASSUME IInv, NEW t \in Threads, MoveToVault(t), orig[path[t]] # Nothing
  PROVE  Keeper!Next
<1> DEFINE n == name[t]
<1> DEFINE p == path[t]
<1> USE DEF IInv, FilesExact
<1>a. pc[t] = "rename" /\ pc[t] \in Quarantining
    BY DEF MoveToVault, At, Quarantining
<1>h. n \in Names /\ p \in Paths
    BY <1>a, Handling
<1>f. vault[n] = Nothing
    BY <1>a, <1>h DEF StagesExact
<1>e. /\ vault' = [vault EXCEPT ![n] = orig[p]]
      /\ orig' = [orig EXCEPT ![p] = Nothing]
      /\ UNCHANGED <<enc, dec, home, replaced>>
    BY DEF MoveToVault, environment
<1>1. AtPaths[p] = orig[p].data /\ AtPaths[p] # Nothing /\ AtPaths[p] \in Contents
    BY <1>h, PathHolds
<1>2. AtPaths' = [AtPaths EXCEPT ![p] = Nothing]
    BY <1>h, <1>e DEF AtPaths, DataOf, DiskTypes
<1>3. Held' = Held \cup {AtPaths[p]}
  <2>1. vault'[n] = orig[p] /\ \A m \in Names : m # n => vault'[m] = vault[m]
      BY <1>h, <1>e DEF DiskTypes
  <2>2. QED
      BY <1>1, <1>e, <1>f, <1>h, <2>1, HeldFiles, HeldFilesPrimed DEF Holds
<1>4. Keeper!Take(p)
    BY <1>1, <1>2, <1>3, <1>e DEF Keeper!Take, AtPaths, Held
<1>5. QED
    BY <1>4, <1>h DEF Keeper!Next

(* A file moved to its path from the quarantine, a copy of it left or not. *)
LEMMA CustodyPutBack ==
  ASSUME IInv, NEW p \in Paths, NEW b \in Blobs, home[b.data] = p, b.data \in Held,
         orig' = [orig EXCEPT ![p] = b], Overwrite(p), UNCHANGED home,
         Held' \in {Held, Held \ {b.data}}
  PROVE  Keeper!Next
<1> DEFINE c == b.data
<1>1. c \in Contents /\ home[c] # Nothing
    BY NothingAssumption DEF Blobs
<1>2. AtPaths' = [AtPaths EXCEPT ![p] = c]
    BY <1>1, NothingAssumption DEF AtPaths, DataOf, IInv, DiskTypes
<1>3. replaced' = replaced \cup ({AtPaths[p]} \ {Nothing})
  <2>1. CASE orig[p] = Nothing
      BY <2>1, PathHolds DEF Overwrite, IInv
  <2>2. CASE orig[p] # Nothing
      BY <2>2, PathHolds DEF Overwrite, IInv
  <2>3. QED
      BY <2>1, <2>2
<1>4. Keeper!PutBack(c)
    BY <1>1, <1>2, <1>3 DEF Keeper!PutBack, AtPaths, Held
<1>5. QED
    BY <1>1, <1>4 DEF Keeper!Next

LEMMA CustodyEncryptFails ==
  ASSUME IInv, NEW t \in Threads, EncryptFails(t)
  PROVE  Keeper!Next
<1> DEFINE n == name[t]
<1> DEFINE p == path[t]
<1> USE DEF IInv, FilesExact
<1>a. pc[t] = "encrypt" /\ pc[t] \in Quarantining
    BY DEF EncryptFails, At, Quarantining
<1>h. n \in Names /\ p \in Paths
    BY <1>a, Handling
<1>f. FileOf(vault[n], p, 0)
    BY <1>a, <1>h DEF StagesExact
<1>e. /\ orig' = [orig EXCEPT ![p] = vault[n]]
      /\ vault' = [vault EXCEPT ![n] = Nothing]
      /\ Overwrite(p)
      /\ UNCHANGED <<enc, dec, home>>
    BY <1>f DEF EncryptFails, FileOf
<1>1. vault[n] \in Blobs /\ home[vault[n].data] = p /\ vault[n].data \in Contents
    BY <1>h, <1>f DEF FileOf, DiskTypes, Blobs
<1>2. vault[n].data \in Held
    BY <1>h, <1>f, <1>1, HeldFiles DEF Holds, FileOf
<1>3. Held' \in {Held, Held \ {vault[n].data}}
  <2>1. vault'[n] = Nothing /\ \A m \in Names : m # n => vault'[m] = vault[m]
      BY <1>h, <1>e DEF DiskTypes
  <2>2. Held' \subseteq Held
      BY <1>e, <2>1, HeldFiles, HeldFilesPrimed DEF Holds
  <2>3. \A d \in Held : d # vault[n].data => d \in Held'
      BY <1>e, <2>1, HeldFiles, HeldFilesPrimed DEF Holds
  <2>4. QED
      BY <2>2, <2>3
<1>4. QED
    BY <1>h, <1>e, <1>1, <1>2, <1>3, CustodyPutBack

LEMMA CustodyPlace ==
  ASSUME IInv, NEW t \in Threads, Place(t)
  PROVE  Keeper!Next
<1> DEFINE n == name[t]
<1> DEFINE p == path[t]
<1> USE DEF IInv, FilesExact
<1>a. pc[t] = "place" /\ pc[t] \in Restoring
    BY DEF Place, At, Restoring
<1>h. n \in Names /\ p \in Paths
    BY <1>a, Handling
<1>f. FileOf(dec[n], p, 0) /\ vault[n] # Nothing /\ vault[n].data = dec[n].data
    BY <1>a, <1>h DEF StagesExact, CopiesExact, FileOf
<1>e. /\ orig' = [orig EXCEPT ![p] = dec[n]]
      /\ dec' = [dec EXCEPT ![n] = Nothing]
      /\ Overwrite(p)
      /\ UNCHANGED <<vault, enc, home>>
    BY DEF Place
<1>1. dec[n] \in Blobs /\ home[dec[n].data] = p /\ dec[n].data \in Contents
    BY <1>h, <1>f DEF FileOf, DiskTypes, Blobs
<1>2. dec[n].data \in Held
    BY <1>h, <1>f, <1>1, HeldFiles DEF Holds
<1>3. Held' = Held
  <2>1. dec'[n] = Nothing /\ \A m \in Names : m # n => dec'[m] = dec[m]
      BY <1>h, <1>e DEF DiskTypes
  <2>2. \A d : Holds(dec[n], d) => Holds(vault[n], d)
      BY <1>f DEF Holds
  <2>3. \A d : d \in Held => d \in Held'
      BY <1>h, <1>e, <2>1, <2>2, HeldFiles, HeldFilesPrimed
  <2>4. \A d : d \in Held' => d \in Held
      BY <1>h, <1>e, <2>1, HeldFiles, HeldFilesPrimed DEF Holds
  <2>5. QED
      BY <2>3, <2>4
<1>4. QED
    BY <1>h, <1>e, <1>1, <1>2, <1>3, CustodyPutBack

(* What a restore deletes last is back at its path, is still in quarantine *)
(* under another name, or was overwritten by another file since.           *)
LEMMA CustodyDiscard ==
  ASSUME IInv, NEW t \in Threads, Discard(t)
  PROVE  Keeper!Next \/ UNCHANGED Keeper!vars
<1> DEFINE n == name[t]
<1> DEFINE c == vault[n].data
<1> USE DEF IInv, FilesExact
<1>a. pc[t] = "discard" /\ pc[t] \in Restoring
    BY DEF Discard, At, Restoring
<1>h. n \in Names /\ HasRow(n)
    BY <1>a, Handling DEF NamesOwned, HasRow
<1>e. /\ vault' = [vault EXCEPT ![n] = Nothing]
      /\ UNCHANGED <<orig, enc, dec, home, replaced>>
    BY DEF Discard, environment
<1>v. vault'[n] = Nothing /\ \A m \in Names : m # n => vault'[m] = vault[m]
    BY <1>h, <1>e DEF DiskTypes
<1>1. \A d : d \in Held' => d \in Held
    BY <1>e, <1>v, HeldFiles, HeldFilesPrimed DEF Holds
<1>2. \A d : d \in Held /\ ~Holds(vault[n], d) => d \in Held'
    BY <1>e, <1>v, HeldFiles, HeldFilesPrimed
<1>3. CASE Held' = Held
    BY <1>3, <1>e, CustodyStays
<1>4. CASE Held' # Held
  <2>1. vault[n] # Nothing /\ c \in Held /\ c \notin Held'
      BY <1>1, <1>2, <1>4 DEF Holds
  <2>2. Held' = Held \ {c}
      BY <1>1, <1>2, <2>1 DEF Holds
  <2>3. c \in Contents /\ home[c] # Nothing
      BY <1>h, <2>1, RowType, NothingAssumption DEF RowsExact, HasRow, FileOf, Held
  <2>4. CASE c \in replaced
    <3>1. Keeper!LetGo(c)
        BY <1>e, <2>1, <2>2, <2>4 DEF Keeper!LetGo, Held
    <3>2. QED
        BY <2>3, <3>1 DEF Keeper!Next
  <2>5. CASE c \notin replaced
    <3>1. Kept(c)
        BY <2>3, <2>5 DEF AllKept
    <3>2. \A m \in Names : ~Holds(enc[m], c) /\ (m # n => ~Holds(vault[m], c))
        BY <1>e, <1>v, <2>1, <2>3, HeldFilesPrimed
    <3>3. Discarded(n)
        BY <1>a DEF Discarded
    <3>4. PICK p \in Paths : orig[p] # Nothing /\ orig[p].data = c
        BY <3>1, <3>2, <3>3 DEF Kept, Holds
    <3>5. AtPaths[p] = c /\ home[c] = p
        BY <3>4, PathHolds DEF OrigExact, FileOf
    <3>6. Keeper!LetGo(c)
        BY <1>e, <2>1, <2>2, <2>3, <3>5 DEF Keeper!LetGo, Keeper!Back, Held, AtPaths
    <3>7. QED
        BY <2>3, <3>6 DEF Keeper!Next
  <2>6. QED
      BY <2>4, <2>5
<1>5. QED
    BY <1>3, <1>4

LEMMA CustodyCreate ==
  ASSUME IInv, NEW p \in Paths, Create(p)
  PROVE  Keeper!Next
<1>1. PICK c \in Contents :
        /\ orig[p] = Nothing /\ home[c] = Nothing
        /\ orig' = [orig EXCEPT ![p] = Plain(c)] /\ home' = [home EXCEPT ![c] = p]
    BY DEF Create
<1>2. UNCHANGED <<vault, enc, dec, replaced>>
    BY DEF Create
<1>3. AtPaths' = [AtPaths EXCEPT ![p] = c]
  <2>1. Plain(c) \in Blobs /\ Plain(c).data = c
      BY DEF Plain, Blobs
  <2>2. QED
      BY <1>1, <2>1, NothingAssumption DEF AtPaths, DataOf, IInv, DiskTypes
<1>4. Held' = Held
    BY <1>2 DEF Held, InQuarantine
<1>5. AtPaths[p] = Nothing
    BY <1>1, PathHolds DEF IInv
<1>6. Keeper!Create(c, p)
    BY <1>1, <1>2, <1>3, <1>4, <1>5 DEF Keeper!Create, AtPaths, Held
<1>7. QED
    BY <1>6 DEF Keeper!Next

(* Within the quarantine a file is encrypted, renamed and decrypted        *)
(* without its content ever leaving it.                                    *)
LEMMA CustodyWithin ==
  ASSUME IInv, NEW t \in Threads,
         Encrypt(t) \/ RemovePlain(t) \/ Swap(t) \/ Decrypt(t) \/ DecryptFails(t)
  PROVE  UNCHANGED Keeper!vars
<1> DEFINE n == name[t]
<1> USE DEF IInv, FilesExact
<1>a. pc[t] \in {"encrypt", "remove", "swap", "decrypt"}
      /\ pc[t] \in Quarantining \cup Restoring
    BY DEF Encrypt, RemovePlain, Swap, Decrypt, DecryptFails, At, Quarantining, Restoring
<1>h. n \in Names
    BY <1>a, Handling
<1>u. UNCHANGED <<orig, home, replaced>>
    BY DEF Encrypt, RemovePlain, Swap, Decrypt, DecryptFails, environment
<1>1. ASSUME NEW files, NEW b, files \in [Names -> Blobs \cup {Nothing}]
      PROVE  /\ [files EXCEPT ![n] = b][n] = b
             /\ \A m \in Names : m # n => [files EXCEPT ![n] = b][m] = files[m]
    BY <1>1, <1>h
<1>2. ASSUME \A m \in Names : m # n =>
               vault'[m] = vault[m] /\ enc'[m] = enc[m] /\ dec'[m] = dec[m],
             \A d : Holds(vault[n], d) \/ Holds(enc[n], d) \/ Holds(dec[n], d)
               <=> Holds(vault'[n], d) \/ Holds(enc'[n], d) \/ Holds(dec'[n], d)
      PROVE  Held' = Held
  <2>1. \A d : d \in Held <=> d \in Held'
      BY <1>2, HeldFiles, HeldFilesPrimed
  <2>2. QED
      BY <2>1
<1>3. CASE Encrypt(t)
  <2> DEFINE r == [vault[n] EXCEPT !.layers = @ + 1]
  <2>1. enc' = [enc EXCEPT ![n] = r] /\ UNCHANGED <<vault, dec>>
      BY <1>3 DEF Encrypt
  <2>2. pc[t] = "encrypt"
      BY <1>3 DEF Encrypt, At
  <2>3. FileOf(vault[n], path[t], 0) /\ enc[n] = Nothing
      BY <2>2 DEF StagesExact
  <2>4. vault[n] \in Blobs
      BY <1>h, <2>3 DEF FileOf, DiskTypes
  <2>5. r # Nothing /\ r.data = vault[n].data
      BY <2>4, LayersType DEF Blobs
  <2>6. QED
      BY <1>1, <1>2, <1>u, <2>1, <2>3, <2>5, CustodyStays DEF Holds, DiskTypes, FileOf
<1>4. CASE RemovePlain(t)
  <2>1. pc[t] = "remove"
      BY <1>4 DEF RemovePlain, At
  <2>2. /\ FileOf(vault[n], path[t], 0) /\ FileOf(enc[n], path[t], 1)
        /\ enc[n].data = vault[n].data
      BY <2>1 DEF StagesExact
  <2>3. vault' = [vault EXCEPT ![n] = Nothing] /\ UNCHANGED <<enc, dec>>
      BY <1>4, <2>2 DEF RemovePlain, FileOf
  <2>4. QED
      BY <1>1, <1>2, <1>u, <2>2, <2>3, CustodyStays DEF Holds, DiskTypes, FileOf
<1>5. CASE Swap(t)
  <2>1. pc[t] = "swap"
      BY <1>5 DEF Swap, At
  <2>2. vault[n] = Nothing /\ FileOf(enc[n], path[t], 1)
      BY <2>1 DEF StagesExact
  <2>3. /\ vault' = [vault EXCEPT ![n] = enc[n]]
        /\ enc' = [enc EXCEPT ![n] = Nothing]
        /\ UNCHANGED dec
      BY <1>5, <2>2 DEF Swap, FileOf
  <2>4. QED
      BY <1>1, <1>2, <1>u, <2>2, <2>3, CustodyStays DEF Holds, DiskTypes, FileOf
<1>6. CASE Decrypt(t)
  <2> DEFINE r == [vault[n] EXCEPT !.layers = @ + (-1)]
  <2>1. /\ vault[n] # Nothing /\ vault[n].layers > 0
        /\ dec' = [dec EXCEPT ![n] = [vault[n] EXCEPT !.layers = @ - 1]]
        /\ UNCHANGED <<vault, enc>>
      BY <1>6 DEF Decrypt
  <2>2. vault[n] \in Blobs
      BY <1>h, <2>1 DEF DiskTypes
  <2>3. [vault[n] EXCEPT !.layers = @ - 1] = r
      BY <2>2 DEF Blobs
  <2>4. r # Nothing /\ r.data = vault[n].data
      BY <2>1, <2>2, LayersType DEF Blobs
  <2>5. dec[n] # Nothing => dec[n].data = vault[n].data
      BY <1>h DEF CopiesExact
  <2>6. dec' = [dec EXCEPT ![n] = r]
      BY <2>1, <2>3
  <2> HIDE DEF r
  <2>7. QED
      BY <1>1, <1>2, <1>u, <2>1, <2>4, <2>5, <2>6, CustodyStays DEF Holds, DiskTypes
<1>7. CASE DecryptFails(t)
  <2>1. dec' = [dec EXCEPT ![n] = Nothing] /\ UNCHANGED <<vault, enc>>
      BY <1>7 DEF DecryptFails
  <2>2. dec[n] # Nothing => vault[n] # Nothing /\ dec[n].data = vault[n].data
      BY <1>h DEF CopiesExact
  <2>3. QED
      BY <1>1, <1>2, <1>u, <2>1, <2>2, CustodyStays DEF Holds, DiskTypes
<1>8. QED
    BY <1>3, <1>4, <1>5, <1>6, <1>7

LEMMA CustodyStep == IInv /\ [Next]_vars => [Keeper!Next]_(Keeper!vars)
<1> SUFFICES ASSUME IInv, [Next]_vars PROVE Keeper!Next \/ UNCHANGED Keeper!vars
    OBVIOUS
<1>1. ASSUME UNCHANGED <<disk, home, replaced>> PROVE UNCHANGED Keeper!vars
  <2>1. Held' = Held
      BY <1>1 DEF Held, InQuarantine, disk
  <2>2. QED
      BY <1>1, <2>1, CustodyStays DEF disk
<1>2. ASSUME UNCHANGED <<orig, vault, enc, dec, home, replaced>>
      PROVE  UNCHANGED Keeper!vars
  <2>1. Held' = Held
      BY <1>2 DEF Held, InQuarantine
  <2>2. QED
      BY <1>2, <2>1, CustodyStays
<1>3. ASSUME NEW t \in Threads, Scan(t) PROVE UNCHANGED Keeper!vars
    BY <1>3, <1>1
       DEF Scan, CollectTargetFiles, NextFile, RunSingleFile, AnalyzeFile, PassFile,
           LookupThrows, NameFile, environment, clock
<1>4. ASSUME NEW t \in Threads, IntoQuarantine(t)
      PROVE  Keeper!Next \/ UNCHANGED Keeper!vars
  <2>1. CASE MoveToVault(t)
    <3>1. CASE orig[path[t]] # Nothing
        BY <2>1, <3>1, CustodyTake
    <3>2. CASE orig[path[t]] = Nothing
        BY <2>1, <3>2, <1>2 DEF MoveToVault, environment
    <3>3. QED
        BY <3>1, <3>2
  <2>2. CASE InsertThrows(t) \/ FileSystemError(t) \/ Insert(t)
      BY <2>2, <1>2 DEF InsertThrows, FileSystemError, Insert, disk, environment
  <2>3. QED
      BY <1>4, <2>1, <2>2, CustodyWithin, CustodyEncryptFails DEF IntoQuarantine
<1>5. ASSUME NEW t \in Threads, OutOfQuarantine(t)
      PROVE  Keeper!Next \/ UNCHANGED Keeper!vars
  <2>1. CASE PlaceFails(t) \/ \E n \in Names : FindRow(t, n)
      BY <2>1, <1>1 DEF PlaceFails, FindRow, environment
  <2>2. QED
      BY <1>5, <2>1, CustodyWithin, CustodyPlace, CustodyDiscard DEF OutOfQuarantine
<1>6. CASE Die \/ Restart \/ Tick \/ UNCHANGED vars
    BY <1>6, <1>1 DEF Die, Restart, Tick, vars, disk, environment
<1>7. ASSUME NEW p \in Paths, Create(p) PROVE Keeper!Next
    BY <1>7, CustodyCreate
<1>8. QED
    BY <1>3, <1>4, <1>5, <1>6, <1>7 DEF Next

(* The steps of the quarantine do what Custody allows: a program is taken  *)
(* from its path, is put back at that very path, and its last copy in the  *)
(* quarantine is deleted only when it is back or has been overwritten.     *)
THEOREM CustodySafety == ~NamesMayClash => (Spec => ImplementsCustody)
<1> SUFFICES ASSUME ~NamesMayClash PROVE Spec => ImplementsCustody
    OBVIOUS
<1>1. Spec => []IInv
    BY InvKept
<1>2. QED
    BY <1>1, CustodyInit, CustodyStep, PTL DEF Spec, ImplementsCustody, Keeper!Spec
=============================================================================
