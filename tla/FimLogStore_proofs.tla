------------------------- MODULE FimLogStore_proofs -------------------------
(***************************************************************************)
(* What is proved of the way from the monitor's log into the database, for *)
(* any size of the file, any number of lines, and any clock and faults.    *)
(*                                                                         *)
(* That a start stores no line twice rests on one fact (StillOnce): a line *)
(* the present start may still store, because the pass has not come to it  *)
(* or because it is later than every row, has fewer rows than starts that  *)
(* have seen it.  That the mark passes over nothing rests on the clock:    *)
(* whatever is written is stamped later than the mark (NothingLeft).       *)
(***************************************************************************)
EXTENDS FimLogStore, TLAPS, SequenceTheorems, FiniteSetTheorems

(* Lines are numbered in the order they are written, rows are lines, and a *)
(* death leaves room for the line of the next start.                       *)
Numbered ==
  /\ \A i \in DOMAIN log : log[i].id <= written
  /\ \A i, k \in DOMAIN log : log[i].id = log[k].id => i = k
  /\ \A i \in DOMAIN rows : rows[i].id <= written
  /\ written + (IF stage = "down" THEN 1 ELSE 0) <= MaxLines + faults
  /\ Len(starts) > 0

(* The rows have a latest timestamp.                                       *)
RowsHaveLatest ==
  rows # <<>> => \E i \in DOMAIN rows : \A k \in DOMAIN rows : rows[k].time <= rows[i].time

(* A line that this start may still store.                                 *)
MayBeStored(i) ==
  /\ stage # "down" /\ log[i].parses
  /\ \/ log[i].time > Latest(rows)
     \/ log[i].time > mark /\ (stage = "poll" \/ (stage = "insert" /\ i >= cursor))

StillOnce ==
  \A i \in DOMAIN log : MayBeStored(i) => Copies(log[i].id) < StartsSeeing(log[i].id)

(* As long as the clock runs on and inserts succeed: nothing is later than *)
(* the clock, the mark is behind it, and what the pass has been at is      *)
(* stored.                                                                 *)
NothingLeft ==
  ~setBack /\ missed = {} =>
    /\ \A i \in DOMAIN log : log[i].time <= now
    /\ \A i \in DOMAIN rows : rows[i].time <= now
    /\ mark < now \/ now = MaxClock
    /\ \A i \in DOMAIN log :
         /\ log[i].parses
         /\ \/ log[i].time <= mark
            \/ stage = "insert" /\ i < cursor
            \/ stage = "latest"
         => IsStored(log[i].id)

(* The inductive invariant.                                                *)
StoreIInv ==
  StoreTypeOK /\ Numbered /\ RowsHaveLatest /\ StoredOncePerStart /\ StillOnce /\ NothingLeft

-----------------------------------------------------------------------------
(* Lines, and sequences of them.                                           *)

LEMMA Bounds ==
  /\ FileSize \in Nat /\ FileSize > 0 /\ Minute \in Nat /\ Minute > 0
  /\ MaxLines \in Nat /\ MaxLines > 0 /\ MaxClock \in Nat /\ MaxClock > 0
  /\ MaxFaults \in Nat
    BY FileSizeAssumption, MinuteAssumption, LogBoundsAssumption

LEMMA LineType ==
  ASSUME NEW l \in Lines
  PROVE  /\ l.id \in Nat /\ l.id > 0 /\ l.id \in Ids
         /\ l.time \in Nat /\ l.time > 0 /\ l.time <= MaxClock
         /\ l.parses \in BOOLEAN
    BY Bounds DEF Lines, Ids

LEMMA LineMade ==
  ASSUME NEW n \in Ids, NEW t \in 1 .. MaxClock, NEW b \in BOOLEAN
  PROVE  [id |-> n, time |-> t, parses |-> b] \in Lines
    BY DEF Lines

(* The lines of a sequence, and no two with the same number.               *)
AllDiffer(s) == \A i, k \in DOMAIN s : s[i].id = s[k].id => i = k

LEMMA LinesStamped ==
  ASSUME now \in 1 .. MaxClock, written \in Nat, NEW parses \in Seq(BOOLEAN),
         written + Len(parses) <= MaxLines + MaxFaults
  PROVE  /\ Stamped(parses) \in Seq(Lines) /\ Len(Stamped(parses)) = Len(parses)
         /\ \A i \in DOMAIN Stamped(parses) :
              /\ Stamped(parses)[i].id > written
              /\ Stamped(parses)[i].id <= written + Len(parses)
              /\ Stamped(parses)[i].time = now
              /\ i \in DOMAIN parses /\ Stamped(parses)[i].parses = parses[i]
         /\ AllDiffer(Stamped(parses))
<1> DEFINE new == Stamped(parses)
<1>1. /\ Len(parses) \in Nat /\ DOMAIN parses = 1 .. Len(parses)
      /\ \A i \in 1 .. Len(parses) : parses[i] \in BOOLEAN
    OBVIOUS
<1>2. /\ DOMAIN new = 1 .. Len(parses)
      /\ \A i \in 1 .. Len(parses) :
           new[i] = [id |-> written + i, time |-> now, parses |-> parses[i]]
    BY DEF Stamped
<1>3. \A i \in 1 .. Len(parses) : written + i \in Ids
    BY <1>1, Bounds DEF Ids
<1>4. \A i \in 1 .. Len(parses) : new[i] \in Lines
    BY <1>1, <1>2, <1>3, LineMade
<1>5. new \in [1 .. Len(parses) -> Lines]
    BY <1>4 DEF Stamped
<1>6. new \in Seq(Lines) /\ Len(new) = Len(parses)
    BY <1>1, <1>2, <1>5, SeqDef
<1>7. \A i \in 1 .. Len(parses) :
        new[i].id = written + i /\ new[i].time = now /\ new[i].parses = parses[i]
    BY <1>2
<1> HIDE DEF new
<1>8. /\ \A i \in DOMAIN new : /\ new[i].id > written /\ new[i].id <= written + Len(parses)
                               /\ new[i].time = now
                               /\ i \in DOMAIN parses /\ new[i].parses = parses[i]
      /\ AllDiffer(new)
    BY <1>1, <1>2, <1>7 DEF AllDiffer
<1>9. QED
    BY <1>6, <1>8 DEF new

(* What is in the file after new lines: old ones or new ones, each once.   *)
LEMMA RotatedLines ==
  ASSUME log \in Seq(Lines), Len(log) <= FileSize, AllDiffer(log), written \in Nat,
         \A i \in DOMAIN log : log[i].id <= written,
         NEW new \in Seq(Lines), Len(new) <= FileSize, AllDiffer(new),
         \A i \in DOMAIN new : new[i].id > written
  PROVE  /\ Rotated(new) \in Seq(Lines) /\ Len(Rotated(new)) <= FileSize
         /\ AllDiffer(Rotated(new))
         /\ \A i \in DOMAIN Rotated(new) :
              \/ \E k \in DOMAIN log : Rotated(new)[i] = log[k]
              \/ \E k \in DOMAIN new : Rotated(new)[i] = new[k]
<1>1. /\ Len(log) \in Nat /\ DOMAIN log = 1 .. Len(log)
      /\ Len(new) \in Nat /\ DOMAIN new = 1 .. Len(new) /\ FileSize \in Nat
    BY Bounds
<1>2. /\ \A i \in DOMAIN log : log[i].id \in Nat
      /\ \A i \in DOMAIN new : new[i].id \in Nat
    BY <1>1, LineType
<1>3. CASE Len(log) + Len(new) <= FileSize
  <2> DEFINE all == log \o new
  <2>1. /\ all \in Seq(Lines) /\ Len(all) = Len(log) + Len(new)
        /\ DOMAIN all = 1 .. Len(log) + Len(new)
        /\ \A i \in DOMAIN all : all[i] = IF i <= Len(log) THEN log[i] ELSE new[i - Len(log)]
      BY <1>1, ConcatProperties
  <2> HIDE DEF all
  <2>2. \A i \in DOMAIN all :
          \/ i \in DOMAIN log /\ all[i] = log[i]
          \/ i - Len(log) \in DOMAIN new /\ all[i] = new[i - Len(log)]
      BY <1>1, <2>1
  <2>3. AllDiffer(all)
    <3> SUFFICES ASSUME NEW i \in DOMAIN all, NEW k \in DOMAIN all, all[i].id = all[k].id
                 PROVE  i = k
        BY DEF AllDiffer
    <3>1. CASE i \in DOMAIN log /\ all[i] = log[i] /\ k \in DOMAIN log /\ all[k] = log[k]
        BY <3>1 DEF AllDiffer
    <3>2. CASE /\ i - Len(log) \in DOMAIN new /\ all[i] = new[i - Len(log)]
               /\ k - Len(log) \in DOMAIN new /\ all[k] = new[k - Len(log)]
      <4>1. i - Len(log) = k - Len(log)
          BY <3>2 DEF AllDiffer
      <4>2. QED
          BY <1>1, <2>1, <4>1
    <3>3. QED
        BY <1>2, <2>2, <3>1, <3>2
  <2>4. Rotated(new) = all
      BY <1>3 DEF Rotated, all
  <2>5. QED
      BY <1>3, <2>1, <2>2, <2>3, <2>4
<1>4. CASE ~(Len(log) + Len(new) <= FileSize)
  <2> DEFINE a == FileSize - Len(log) + 1
  <2> DEFINE rest == SubSeq(new, a, Len(new))
  <2>1. a \in 1 .. Len(new)
      BY <1>1, <1>4
  <2>2. /\ rest \in Seq(Lines) /\ Len(rest) = Len(new) - a + 1
        /\ \A i \in 1 .. Len(rest) : rest[i] = new[a + i - 1] /\ a + i - 1 \in 1 .. Len(new)
      BY <1>1, <2>1, SubSeqProperties
  <2>3. Rotated(new) = rest
      BY <1>4 DEF Rotated
  <2> HIDE DEF rest
  <2>4. DOMAIN rest = 1 .. Len(rest) /\ Len(rest) <= FileSize
      BY <1>1, <2>1, <2>2
  <2>5. AllDiffer(rest)
    <3> SUFFICES ASSUME NEW i \in DOMAIN rest, NEW k \in DOMAIN rest, rest[i].id = rest[k].id
                 PROVE  i = k
        BY DEF AllDiffer
    <3>a. /\ rest[i] = new[a + i - 1] /\ a + i - 1 \in DOMAIN new
          /\ rest[k] = new[a + k - 1] /\ a + k - 1 \in DOMAIN new
        BY <1>1, <2>2, <2>4
    <3>1. a + i - 1 = a + k - 1
        BY <3>a DEF AllDiffer
    <3>2. QED
        BY <2>1, <2>4, <3>1
  <2>6. QED
      BY <1>1, <2>2, <2>3, <2>4, <2>5
<1>5. QED
    BY <1>3, <1>4

-----------------------------------------------------------------------------
(* The latest timestamp of the rows.                                       *)

LEMMA LatestIs ==
  ASSUME RowsHaveLatest, rows \in Seq(Lines)
  PROVE  /\ \A i \in DOMAIN rows : rows[i].time <= Latest(rows)
         /\ rows = <<>> => Latest(rows) = 0
         /\ rows # <<>> => \E i \in DOMAIN rows : rows[i].time = Latest(rows)
         /\ Latest(rows) \in 0 .. MaxClock
<1>1. CASE rows = <<>>
    BY <1>1, Bounds DEF Latest
<1>2. CASE rows # <<>>
  <2>1. PICK i \in DOMAIN rows : \A k \in DOMAIN rows : rows[k].time <= rows[i].time
      BY <1>2 DEF RowsHaveLatest
  <2>2. rows[i].time \in Times(rows) /\ \A u \in Times(rows) : u <= rows[i].time
      BY <2>1 DEF Times
  <2>3. Latest(rows) \in Times(rows) /\ \A u \in Times(rows) : u <= Latest(rows)
      BY <1>2, <2>2 DEF Latest
  <2>4. PICK k \in DOMAIN rows : rows[k].time = Latest(rows)
      BY <2>3 DEF Times
  <2>5. rows[k] \in Lines
      BY <2>4
  <2>6. Latest(rows) \in 0 .. MaxClock
      BY <2>4, <2>5, LineType, Bounds
  <2>7. QED
      BY <1>2, <2>3, <2>4, <2>6 DEF Times
<1>3. QED
    BY <1>1, <1>2

(* The same of the rows after a step.                                      *)
LEMMA LatestIsPrimed ==
  ASSUME RowsHaveLatest', rows' \in Seq(Lines)
  PROVE  /\ \A i \in DOMAIN rows' : rows'[i].time <= Latest(rows')
         /\ rows' # <<>> => \E i \in DOMAIN rows' : rows'[i].time = Latest(rows')
<1>1. CASE rows' = <<>>
    BY <1>1, Bounds DEF Latest
<1>2. CASE rows' # <<>>
  <2>1. PICK i \in DOMAIN rows' : \A k \in DOMAIN rows' : rows'[k].time <= rows'[i].time
      BY <1>2 DEF RowsHaveLatest
  <2>2. rows'[i].time \in Times(rows') /\ \A u \in Times(rows') : u <= rows'[i].time
      BY <2>1 DEF Times
  <2>3. Latest(rows') \in Times(rows') /\ \A u \in Times(rows') : u <= Latest(rows')
      BY <1>2, <2>2 DEF Latest
  <2>4. QED
      BY <1>2, <2>3 DEF Times
<1>3. QED
    BY <1>1, <1>2

LEMMA RowAppended ==
  ASSUME rows \in Seq(Lines), NEW l \in Lines
  PROVE  /\ Append(rows, l) \in Seq(Lines)
         /\ DOMAIN Append(rows, l) = DOMAIN rows \cup {Len(rows) + 1}
         /\ Len(rows) + 1 \notin DOMAIN rows
         /\ Append(rows, l)[Len(rows) + 1] = l
         /\ \A i \in DOMAIN rows : Append(rows, l)[i] = rows[i]
         /\ Append(rows, l) # <<>>
<1> HIDE DEF Lines
<1>1. QED
    OBVIOUS

(* A row more: there still is a latest one, and it is not before the new   *)
(* row nor before the old latest.                                          *)
LEMMA LatestAppended ==
  ASSUME RowsHaveLatest, rows \in Seq(Lines), NEW l \in Lines, rows' = Append(rows, l)
  PROVE  /\ RowsHaveLatest' /\ rows' \in Seq(Lines)
         /\ l.time <= Latest(rows') /\ Latest(rows) <= Latest(rows')
         /\ Latest(rows) \in Nat /\ Latest(rows') \in Nat
<1> DEFINE n == Len(rows) + 1
<1>1. /\ rows' \in Seq(Lines) /\ DOMAIN rows' = DOMAIN rows \cup {n} /\ rows'[n] = l
      /\ n \notin DOMAIN rows /\ \A i \in DOMAIN rows : rows'[i] = rows[i]
      /\ rows' # <<>>
    BY RowAppended
<1>2. l.time \in Nat /\ \A i \in DOMAIN rows : rows[i].time \in Nat
    BY LineType
<1>3. RowsHaveLatest'
  <2>1. CASE rows = <<>>
      BY <1>1, <1>2, <2>1 DEF RowsHaveLatest
  <2>2. CASE rows # <<>>
    <3>1. PICK i \in DOMAIN rows : \A k \in DOMAIN rows : rows[k].time <= rows[i].time
        BY <2>2 DEF RowsHaveLatest
    <3>2. CASE l.time <= rows[i].time
        BY <1>1, <3>1, <3>2 DEF RowsHaveLatest
    <3>3. CASE ~(l.time <= rows[i].time)
        BY <1>1, <1>2, <3>1, <3>3 DEF RowsHaveLatest
    <3>4. QED
        BY <3>2, <3>3
  <2>3. QED
      BY <2>1, <2>2
<1>4. l.time <= Latest(rows')
    BY <1>1, <1>3, LatestIsPrimed
<1>5. Latest(rows') \in Nat
  <2>1. PICK i \in DOMAIN rows' : rows'[i].time = Latest(rows')
      BY <1>1, <1>3, LatestIsPrimed
  <2>2. QED
      BY <1>1, <1>2, <2>1
<1>6. Latest(rows) \in Nat /\ Latest(rows) <= Latest(rows')
  <2>1. CASE rows = <<>>
      BY <1>5, <2>1, LatestIs
  <2>2. CASE rows # <<>>
    <3>1. PICK i \in DOMAIN rows : rows[i].time = Latest(rows)
        BY <2>2, LatestIs
    <3>2. QED
        BY <1>1, <1>2, <1>3, <3>1, LatestIsPrimed
  <2>3. QED
      BY <2>1, <2>2
<1>7. QED
    BY <1>1, <1>3, <1>4, <1>5, <1>6

-----------------------------------------------------------------------------
(* Counting rows and starts.                                               *)

(* The starts whose passes can have seen a line.                           *)
SeeingStarts(id) == {k \in DOMAIN starts : k = Len(starts) \/ starts[k + 1] >= id}
RowsOf(id) == {i \in DOMAIN rows : rows[i].id = id}

LEMMA CountTypes ==
  ASSUME rows \in Seq(Lines), starts \in Seq({0} \cup Ids), NEW id
  PROVE  /\ IsFiniteSet(RowsOf(id)) /\ Copies(id) = Cardinality(RowsOf(id)) /\ Copies(id) \in Nat
         /\ IsFiniteSet(SeeingStarts(id)) /\ StartsSeeing(id) = Cardinality(SeeingStarts(id))
         /\ StartsSeeing(id) \in Nat
<1>1. /\ IsFiniteSet(1 .. Len(rows)) /\ IsFiniteSet(1 .. Len(starts))
      /\ DOMAIN rows = 1 .. Len(rows) /\ DOMAIN starts = 1 .. Len(starts)
    BY FS_Interval
<1>2. RowsOf(id) \in SUBSET (1 .. Len(rows)) /\ SeeingStarts(id) \in SUBSET (1 .. Len(starts))
    BY <1>1 DEF RowsOf, SeeingStarts
<1>3. IsFiniteSet(RowsOf(id)) /\ IsFiniteSet(SeeingStarts(id))
    BY <1>1, <1>2, FS_Subset
<1>4. Cardinality(RowsOf(id)) \in Nat /\ Cardinality(SeeingStarts(id)) \in Nat
    BY <1>3, FS_CardinalityType
<1>5. Copies(id) = Cardinality(RowsOf(id)) /\ StartsSeeing(id) = Cardinality(SeeingStarts(id))
    BY DEF Copies, StartsSeeing, RowsOf, SeeingStarts
<1>6. QED
    BY <1>3, <1>4, <1>5

(* The present start sees every line, and nothing is stored before it is   *)
(* written.                                                                *)
LEMMA SeenOnce ==
  ASSUME rows \in Seq(Lines), starts \in Seq({0} \cup Ids), Len(starts) > 0, NEW id
  PROVE  /\ StartsSeeing(id) > 0
         /\ (\A i \in DOMAIN rows : rows[i].id # id) => Copies(id) = 0
<1>1. Len(starts) \in SeeingStarts(id)
    BY DEF SeeingStarts
<1>2. StartsSeeing(id) # 0
    BY <1>1, CountTypes, FS_EmptySet
<1>3. (\A i \in DOMAIN rows : rows[i].id # id) => RowsOf(id) = {}
    BY DEF RowsOf
<1>4. QED
    BY <1>2, <1>3, CountTypes, FS_EmptySet

(* A row more counts for its line only.                                    *)
LEMMA CopiesAppended ==
  ASSUME rows \in Seq(Lines), starts \in Seq({0} \cup Ids), NEW l \in Lines,
         rows' = Append(rows, l), NEW id
  PROVE  Copies(id)' = IF id = l.id THEN Copies(id) + 1 ELSE Copies(id)
<1> DEFINE n == Len(rows) + 1
<1> DEFINE after == {i \in DOMAIN rows' : rows'[i].id = id}
<1>1. /\ DOMAIN rows' = DOMAIN rows \cup {n} /\ rows'[n] = l
      /\ n \notin DOMAIN rows /\ \A i \in DOMAIN rows : rows'[i] = rows[i]
    BY RowAppended
<1>2. Copies(id)' = Cardinality(after)
    BY DEF Copies
<1>3. CASE id = l.id
  <2>1. after = RowsOf(id) \cup {n} /\ n \notin RowsOf(id)
      BY <1>1, <1>3 DEF RowsOf
  <2>2. Cardinality(RowsOf(id) \cup {n}) = Cardinality(RowsOf(id)) + 1
      BY <2>1, CountTypes, FS_AddElement
  <2>3. QED
      BY <1>2, <1>3, <2>1, <2>2, CountTypes
<1>4. CASE id # l.id
  <2>1. after = RowsOf(id)
      BY <1>1, <1>4 DEF RowsOf
  <2>2. QED
      BY <1>2, <1>4, <2>1, CountTypes
<1>5. QED
    BY <1>3, <1>4

(* One start more has seen every line written before it.                   *)
LEMMA StartAppended ==
  ASSUME rows \in Seq(Lines), starts \in Seq({0} \cup Ids), written \in Nat, Len(starts) > 0,
         starts' = Append(starts, written), NEW id \in Nat, id <= written
  PROVE  StartsSeeing(id)' = StartsSeeing(id) + 1
<1> DEFINE n == Len(starts) + 1
<1> DEFINE after == {k \in DOMAIN starts' : k = Len(starts') \/ starts'[k + 1] >= id}
<1>1. /\ DOMAIN starts' = DOMAIN starts \cup {n} /\ Len(starts') = n
      /\ DOMAIN starts = 1 .. Len(starts) /\ n \notin DOMAIN starts
      /\ starts'[n] = written /\ \A k \in DOMAIN starts : starts'[k] = starts[k]
    BY AppendProperties
<1>2. \A k \in DOMAIN starts : k + 1 \in DOMAIN starts \/ k = Len(starts)
    BY <1>1
<1>3. after = SeeingStarts(id) \cup {n}
  <2>1. n \in after
      BY <1>1
  <2>2. ASSUME NEW k \in DOMAIN starts
        PROVE  k \in after <=> k \in SeeingStarts(id)
    <3>1. k \in DOMAIN starts' /\ k # Len(starts')
        BY <1>1
    <3>2. CASE k = Len(starts)
        BY <1>1, <3>1, <3>2 DEF SeeingStarts
    <3>3. CASE k # Len(starts)
        BY <1>1, <1>2, <3>1, <3>3 DEF SeeingStarts
    <3>4. QED
        BY <3>2, <3>3
  <2>3. QED
      BY <1>1, <2>1, <2>2 DEF SeeingStarts
<1>4. n \notin SeeingStarts(id)
    BY <1>1 DEF SeeingStarts
<1>5. Cardinality(SeeingStarts(id) \cup {n}) = Cardinality(SeeingStarts(id)) + 1
    BY <1>4, CountTypes, FS_AddElement
<1>6. QED
    BY <1>3, <1>5, CountTypes DEF StartsSeeing

-----------------------------------------------------------------------------
(* Steps that neither write nor store a line.                              *)

LEMMA QuietKeeps ==
  ASSUME StoreIInv, UNCHANGED <<log, rows, starts, written>>,
         written + (IF stage' = "down" THEN 1 ELSE 0) <= MaxLines + faults',
         \A i \in DOMAIN log : MayBeStored(i)' => MayBeStored(i)
  PROVE  Numbered' /\ RowsHaveLatest' /\ StoredOncePerStart' /\ StillOnce'
<1>1. \A id : Copies(id)' = Copies(id) /\ StartsSeeing(id)' = StartsSeeing(id)
    BY DEF Copies, StartsSeeing
<1>2. Numbered' /\ RowsHaveLatest'
    BY DEF StoreIInv, Numbered, RowsHaveLatest
<1>3. StoredOncePerStart'
    BY <1>1 DEF StoreIInv, StoredOncePerStart
<1>4. StillOnce'
    BY <1>1 DEF StoreIInv, StillOnce
<1>5. QED
    BY <1>2, <1>3, <1>4

LEMMA EndPollKeeps ==
  ASSUME StoreIInv, EndPoll PROVE StoreIInv'
<1>1. /\ stage = "poll" /\ stage' \in {"poll", "insert"}
      /\ cursor' = cursor \/ (cursor' = 1 /\ stage' = "insert")
      /\ now' = now \/ (now < MaxClock /\ now' = now + 1)
      /\ rounds' \in 0 .. Minute - 1
      /\ stage' = "insert" => cursor' = 1
      /\ UNCHANGED <<log, rows, mark, written, faults, starts, setBack, missed>>
  <2>1. rounds \in 0 .. Minute - 1 /\ Minute \in Nat /\ Minute > 0
      BY Bounds DEF StoreIInv, StoreTypeOK
  <2>2. QED
      BY <2>1 DEF EndPoll, Sleep
<1>2. /\ now \in 1 .. MaxClock /\ mark \in 0 .. MaxClock /\ cursor \in 1 .. FileSize + 1
      /\ written \in Nat /\ MaxClock \in Nat
    BY Bounds DEF StoreIInv, StoreTypeOK, Ids
<1>3. StoreTypeOK'
    BY <1>1, <1>2, Bounds DEF StoreIInv, StoreTypeOK
<1>4. \A i \in DOMAIN log : MayBeStored(i)' => MayBeStored(i)
    BY <1>1 DEF MayBeStored
<1>5. Numbered' /\ RowsHaveLatest' /\ StoredOncePerStart' /\ StillOnce'
    BY <1>1, <1>4, QuietKeeps DEF StoreIInv, Numbered
<1>6. NothingLeft'
  <2>1. \A i \in DOMAIN log : i \in Nat /\ i >= 1
      BY DEF StoreIInv, StoreTypeOK
  <2>2. /\ \A i \in DOMAIN log : log[i].time \in Nat
        /\ \A i \in DOMAIN rows : rows[i].time \in Nat
      BY LineType DEF StoreIInv, StoreTypeOK
  <2>3. \A i \in DOMAIN log : IsStored(log[i].id)' = IsStored(log[i].id)
      BY <1>1 DEF IsStored
  <2> SUFFICES ASSUME ~setBack, missed = {}
               PROVE  NothingLeft'
      BY <1>1 DEF NothingLeft
  <2>4. now <= now' /\ (mark < now' \/ now' = MaxClock)
      BY <1>1, <1>2 DEF StoreIInv, NothingLeft
  <2>5. /\ \A i \in DOMAIN log : log[i].time <= now'
        /\ \A i \in DOMAIN rows : rows[i].time <= now'
      BY <1>1, <1>2, <2>2, <2>4 DEF StoreIInv, NothingLeft
  <2>6. \A i \in DOMAIN log : log[i].parses /\ log[i].time <= mark => IsStored(log[i].id)
      BY DEF StoreIInv, NothingLeft
  <2>7. stage' # "latest" /\ \A i \in DOMAIN log : ~(stage' = "insert" /\ i < cursor')
      BY <1>1, <2>1
  <2>8. QED
      BY <1>1, <2>3, <2>4, <2>5, <2>6, <2>7 DEF NothingLeft
<1>7. QED
    BY <1>3, <1>5, <1>6 DEF StoreIInv

LEMMA EndOfLogKeeps ==
  ASSUME StoreIInv, EndOfLog PROVE StoreIInv'
<1>1. /\ stage = "insert" /\ stage' = "latest" /\ cursor > Len(log)
      /\ UNCHANGED <<log, rows, mark, now, cursor, rounds, written, faults, starts,
                     setBack, missed>>
    BY DEF EndOfLog
<1>2. StoreTypeOK'
    BY <1>1 DEF StoreIInv, StoreTypeOK
<1>3. \A i \in DOMAIN log : MayBeStored(i)' => MayBeStored(i)
    BY <1>1 DEF MayBeStored
<1>4. Numbered' /\ RowsHaveLatest' /\ StoredOncePerStart' /\ StillOnce'
    BY <1>1, <1>3, QuietKeeps DEF StoreIInv, Numbered
<1>5. NothingLeft'
  <2>1. \A i \in DOMAIN log : i < cursor
      BY <1>1 DEF StoreIInv, StoreTypeOK
  <2>2. \A i \in DOMAIN log : IsStored(log[i].id)' = IsStored(log[i].id)
      BY <1>1 DEF IsStored
  <2>3. QED
      BY <1>1, <2>1, <2>2 DEF StoreIInv, NothingLeft
<1>6. QED
    BY <1>2, <1>4, <1>5 DEF StoreIInv

(* The pass is over: what is later than every row is later than the mark.  *)
LEMMA GetLatestTimestampKeeps ==
  ASSUME StoreIInv, GetLatestTimestamp PROVE StoreIInv'
<1>1. /\ stage = "latest" /\ stage' = "poll" /\ mark' = Latest(rows)
      /\ now' = IF now < MaxClock THEN now + 1 ELSE now
      /\ UNCHANGED <<log, rows, cursor, rounds, written, faults, starts, setBack, missed>>
    BY DEF GetLatestTimestamp, Sleep
<1>2. now \in 1 .. MaxClock /\ MaxClock \in Nat /\ now' \in 1 .. MaxClock /\ now <= now'
    BY <1>1, Bounds DEF StoreIInv, StoreTypeOK
<1>3. mark' \in 0 .. MaxClock
    BY <1>1, LatestIs DEF StoreIInv, StoreTypeOK
<1>4. StoreTypeOK'
    BY <1>1, <1>2, <1>3 DEF StoreIInv, StoreTypeOK
<1>5. \A i \in DOMAIN log : MayBeStored(i)' => MayBeStored(i)
    BY <1>1 DEF MayBeStored
<1>6. Numbered' /\ RowsHaveLatest' /\ StoredOncePerStart' /\ StillOnce'
    BY <1>1, <1>5, QuietKeeps DEF StoreIInv, Numbered
<1>7. NothingLeft'
  <2> SUFFICES ASSUME ~setBack, missed = {}
               PROVE  NothingLeft'
      BY <1>1 DEF NothingLeft
  <2>1. /\ \A i \in DOMAIN log : log[i].time \in Nat /\ log[i].time <= now
        /\ \A i \in DOMAIN rows : rows[i].time \in Nat /\ rows[i].time <= now
      BY LineType DEF StoreIInv, StoreTypeOK, NothingLeft
  <2>2. mark' <= now
    <3>1. CASE rows = <<>>
        BY <1>1, <1>2, <3>1, LatestIs DEF StoreIInv, StoreTypeOK
    <3>2. CASE rows # <<>>
      <4>1. PICK i \in DOMAIN rows : rows[i].time = Latest(rows)
          BY <3>2, LatestIs DEF StoreIInv, StoreTypeOK
      <4>2. QED
          BY <1>1, <2>1, <4>1
    <3>3. QED
        BY <3>1, <3>2
  <2>3. mark' < now' \/ now' = MaxClock
      BY <1>1, <1>2, <1>3, <2>2
  <2>4. \A i \in DOMAIN log : log[i].parses => IsStored(log[i].id)'
    <3>1. \A i \in DOMAIN log : log[i].parses => IsStored(log[i].id)
        BY <1>1 DEF StoreIInv, NothingLeft
    <3>2. QED
        BY <1>1, <3>1 DEF IsStored
  <2>5. QED
      BY <1>1, <1>2, <2>1, <2>3, <2>4 DEF NothingLeft
<1>8. QED
    BY <1>4, <1>6, <1>7 DEF StoreIInv

LEMMA FaultKeeps ==
  ASSUME StoreIInv, InsertFails \/ StoreDies \/ SetClockBack PROVE StoreIInv'
<1>0. /\ faults \in 0 .. MaxFaults /\ MaxFaults \in Nat /\ written \in Nat
      /\ now \in 1 .. MaxClock /\ MaxClock \in Nat /\ MaxLines \in Nat
      /\ cursor \in 1 .. FileSize + 1 /\ FileSize \in Nat
      /\ log \in Seq(Lines) /\ Len(log) <= FileSize
    BY Bounds DEF StoreIInv, StoreTypeOK, Ids
<1>1. CASE InsertFails
  <2>1. /\ stage = "insert" /\ cursor <= Len(log) /\ cursor' = cursor + 1
        /\ faults < MaxFaults /\ faults' = faults + 1
        /\ missed' = missed \cup {log[cursor].id}
        /\ UNCHANGED <<log, rows, mark, now, stage, rounds, written, starts, setBack>>
      BY <1>1 DEF InsertFails
  <2>2. log[cursor].id \in Ids /\ cursor' \in 1 .. FileSize + 1 /\ faults' \in 0 .. MaxFaults
    <3>1. Len(log) \in Nat /\ DOMAIN log = 1 .. Len(log)
        BY <1>0
    <3>2. cursor \in DOMAIN log /\ log[cursor] \in Lines
        BY <1>0, <2>1, <3>1
    <3>3. QED
        BY <1>0, <2>1, <3>1, <3>2, LineType
  <2>3. StoreTypeOK'
      BY <1>0, <2>1, <2>2 DEF StoreIInv, StoreTypeOK
  <2>4. \A i \in DOMAIN log : MayBeStored(i)' => MayBeStored(i)
      BY <1>0, <2>1 DEF MayBeStored
  <2>5. Numbered' /\ RowsHaveLatest' /\ StoredOncePerStart' /\ StillOnce'
      BY <1>0, <2>1, <2>4, QuietKeeps DEF StoreIInv, Numbered
  <2>6. NothingLeft'
      BY <2>1 DEF NothingLeft
  <2>7. QED
      BY <2>3, <2>5, <2>6 DEF StoreIInv
<1>2. CASE StoreDies
  <2>1. /\ stage # "down" /\ stage' = "down" /\ faults < MaxFaults /\ faults' = faults + 1
        /\ UNCHANGED <<log, rows, mark, now, cursor, rounds, written, starts, setBack, missed>>
      BY <1>2 DEF StoreDies
  <2>2. StoreTypeOK'
      BY <1>0, <2>1 DEF StoreIInv, StoreTypeOK
  <2>3. \A i \in DOMAIN log : ~MayBeStored(i)'
      BY <2>1 DEF MayBeStored
  <2>4. written + 1 <= MaxLines + faults'
      BY <1>0, <2>1 DEF StoreIInv, Numbered
  <2>5. Numbered' /\ RowsHaveLatest' /\ StoredOncePerStart' /\ StillOnce'
      BY <2>1, <2>3, <2>4, QuietKeeps
  <2>6. NothingLeft'
    <3>1. \A i \in DOMAIN log : IsStored(log[i].id)' = IsStored(log[i].id)
        BY <2>1 DEF IsStored
    <3>2. QED
        BY <2>1, <3>1 DEF StoreIInv, NothingLeft
  <2>7. QED
      BY <2>2, <2>5, <2>6 DEF StoreIInv
<1>3. CASE SetClockBack
  <2>1. /\ faults < MaxFaults /\ faults' = faults + 1 /\ setBack' = TRUE
        /\ UNCHANGED <<log, rows, mark, stage, cursor, rounds, written, starts, missed>>
      BY <1>3 DEF SetClockBack
  <2>2. now' \in 1 .. MaxClock
      BY <1>0, <1>3 DEF SetClockBack
  <2>3. StoreTypeOK'
      BY <1>0, <2>1, <2>2 DEF StoreIInv, StoreTypeOK
  <2>4. \A i \in DOMAIN log : MayBeStored(i)' => MayBeStored(i)
      BY <2>1 DEF MayBeStored
  <2>5. Numbered' /\ RowsHaveLatest' /\ StoredOncePerStart' /\ StillOnce'
      BY <1>0, <2>1, <2>4, QuietKeeps DEF StoreIInv, Numbered
  <2>6. NothingLeft'
      BY <2>1 DEF NothingLeft
  <2>7. QED
      BY <2>3, <2>5, <2>6 DEF StoreIInv
<1>4. QED
    BY <1>1, <1>2, <1>3

-----------------------------------------------------------------------------
(* Steps that write lines.                                                 *)

(* The file holds lines it held before, and new ones, numbered after all   *)
(* others and stamped with the time.                                       *)
LEMMA FileAfterLines ==
  ASSUME StoreTypeOK, Numbered, NEW parses \in Seq(BOOLEAN), Len(parses) <= FileSize,
         written + Len(parses) <= MaxLines + MaxFaults,
         log' = Rotated(Stamped(parses)), written' = written + Len(parses)
  PROVE  /\ log' \in Seq(Lines) /\ Len(log') <= FileSize
         /\ written \in Nat /\ written' \in Ids /\ written' >= written
         /\ \A i, k \in DOMAIN log' : log'[i].id = log'[k].id => i = k
         /\ \A i \in DOMAIN log' :
              \/ \E k \in DOMAIN log : log'[i] = log[k]
              \/ /\ log'[i].id > written /\ log'[i].time = now
                 /\ \E k \in DOMAIN parses : log'[i].parses = parses[k]
         /\ \A i \in DOMAIN log' : log'[i].id <= written'
<1> DEFINE new == Stamped(parses)
<1>0. /\ now \in 1 .. MaxClock /\ written \in Nat /\ written > 0 /\ Len(parses) \in Nat
      /\ MaxLines \in Nat /\ MaxFaults \in Nat
    BY Bounds DEF StoreTypeOK, Ids
<1>1. /\ new \in Seq(Lines) /\ Len(new) = Len(parses) /\ AllDiffer(new)
      /\ \A i \in DOMAIN new :
           /\ new[i].id > written /\ new[i].id <= written + Len(parses)
           /\ new[i].time = now /\ i \in DOMAIN parses /\ new[i].parses = parses[i]
    BY <1>0, LinesStamped
<1> HIDE DEF new
<1>2. log \in Seq(Lines) /\ Len(log) <= FileSize /\ AllDiffer(log)
      /\ \A i \in DOMAIN log : log[i].id <= written
    BY DEF StoreTypeOK, Numbered, AllDiffer
<1>3. log' = Rotated(new)
    BY DEF new
<1>4. /\ log' \in Seq(Lines) /\ Len(log') <= FileSize /\ AllDiffer(log')
      /\ \A i \in DOMAIN log' : \/ \E k \in DOMAIN log : log'[i] = log[k]
                                \/ \E k \in DOMAIN new : log'[i] = new[k]
    BY <1>0, <1>1, <1>2, <1>3, RotatedLines
<1>5. written' \in Ids /\ written' >= written
    BY <1>0 DEF Ids
<1>6. \A i \in DOMAIN log' :
              \/ \E k \in DOMAIN log : log'[i] = log[k]
              \/ /\ log'[i].id > written /\ log'[i].time = now
                 /\ \E k \in DOMAIN parses : log'[i].parses = parses[k]
    BY <1>1, <1>4
<1>7. \A i \in DOMAIN log : log[i].id \in Nat
    BY <1>2, LineType
<1>8. \A i \in DOMAIN log' : log'[i].id <= written'
    BY <1>0, <1>1, <1>2, <1>4, <1>5, <1>7
<1>9. QED
    BY <1>0, <1>4, <1>5, <1>6, <1>8 DEF AllDiffer

(* Rows and starts are as they were: nothing is stored of what is new.     *)
LEMMA CountsOfNew ==
  ASSUME StoreTypeOK, Numbered, UNCHANGED <<rows, starts>>
  PROVE  /\ \A id : Copies(id)' = Copies(id) /\ StartsSeeing(id)' = StartsSeeing(id)
         /\ \A id \in Nat : id > written => Copies(id) = 0 /\ Copies(id) < StartsSeeing(id)
<1>1. \A id : Copies(id)' = Copies(id) /\ StartsSeeing(id)' = StartsSeeing(id)
    BY DEF Copies, StartsSeeing
<1>2. ASSUME NEW id \in Nat, id > written
      PROVE  Copies(id) = 0 /\ Copies(id) < StartsSeeing(id)
  <2>1. \A i \in DOMAIN rows : rows[i].id \in Nat /\ rows[i].id <= written
      BY LineType DEF StoreTypeOK, Numbered
  <2>2. \A i \in DOMAIN rows : rows[i].id # id
      BY <1>2, <2>1 DEF StoreTypeOK, Ids
  <2>3. QED
      BY <2>2, SeenOnce DEF StoreTypeOK, Numbered
<1>3. QED
    BY <1>1, <1>2

(* Any number of lines at once that fit into a file.                       *)
LEMMA WriteLinesKeeps ==
  ASSUME StoreIInv, NEW parses \in Seq(BOOLEAN), Len(parses) <= FileSize, WriteLines(parses)
  PROVE  StoreIInv'
<1>1. /\ stage = "poll" /\ now < MaxClock /\ written + Len(parses) <= MaxLines
      /\ log' = Rotated(Stamped(parses)) /\ written' = written + Len(parses)
      /\ UNCHANGED <<rows, mark, now, stage, cursor, rounds, faults, starts, setBack, missed>>
    BY DEF WriteLines
<1>2. /\ now \in 1 .. MaxClock /\ written \in Nat /\ Len(parses) \in Nat
      /\ faults \in Nat /\ MaxFaults \in Nat /\ MaxLines \in Nat
      /\ StoreTypeOK /\ Numbered
    BY Bounds DEF StoreIInv, StoreTypeOK, Ids
<1>3. written + Len(parses) <= MaxLines + MaxFaults
    BY <1>1, <1>2
<1>4. /\ log' \in Seq(Lines) /\ Len(log') <= FileSize
      /\ written' \in Ids /\ written' >= written
      /\ \A i, k \in DOMAIN log' : log'[i].id = log'[k].id => i = k
      /\ \A i \in DOMAIN log' : log'[i].id <= written'
      /\ \A i \in DOMAIN log' :
           \/ \E k \in DOMAIN log : log'[i] = log[k]
           \/ log'[i].id > written /\ log'[i].time = now
    BY <1>1, <1>2, <1>3, FileAfterLines
<1>5. StoreTypeOK'
    BY <1>1, <1>4 DEF StoreIInv, StoreTypeOK
<1>6. Numbered'
  <2>1. \A i \in DOMAIN rows : rows[i].id \in Nat
      BY LineType DEF StoreIInv, StoreTypeOK
  <2>2. written' <= MaxLines + faults
      BY <1>1, <1>2
  <2>3. written' \in Nat /\ \A i \in DOMAIN rows : rows[i].id <= written'
      BY <1>2, <1>4, <2>1 DEF Numbered, Ids
  <2>4. QED
      BY <1>1, <1>4, <2>2, <2>3 DEF StoreIInv, Numbered
<1>7. RowsHaveLatest'
    BY <1>1 DEF StoreIInv, RowsHaveLatest
<1>8. /\ \A id : Copies(id)' = Copies(id) /\ StartsSeeing(id)' = StartsSeeing(id)
      /\ \A id \in Nat : id > written => Copies(id) < StartsSeeing(id)
      /\ \A id : Copies(id) \in Nat /\ StartsSeeing(id) \in Nat
    BY <1>1, <1>2, CountsOfNew, CountTypes DEF StoreTypeOK
<1>9. StoredOncePerStart'
  <2> SUFFICES ASSUME NEW id \in 1 .. written' PROVE Copies(id) <= StartsSeeing(id)
      BY <1>8 DEF StoredOncePerStart
  <2>1. CASE id <= written
      BY <1>2, <2>1 DEF StoreIInv, StoredOncePerStart
  <2>2. CASE id > written
      BY <1>8, <2>2
  <2>3. QED
      BY <1>2, <2>1, <2>2
<1>10. StillOnce'
  <2> SUFFICES ASSUME NEW i \in DOMAIN log', MayBeStored(i)'
               PROVE  Copies(log'[i].id) < StartsSeeing(log'[i].id)
      BY <1>8 DEF StillOnce
  <2>1. CASE \E k \in DOMAIN log : log'[i] = log[k]
    <3>1. PICK k \in DOMAIN log : log'[i] = log[k]
        BY <2>1
    <3>2. MayBeStored(k)
        BY <1>1, <3>1 DEF MayBeStored
    <3>3. QED
        BY <3>1, <3>2 DEF StoreIInv, StillOnce
  <2>2. CASE log'[i].id > written
    <3>1. log'[i].id \in Nat
        BY <1>4, LineType
    <3>2. QED
        BY <1>8, <2>2, <3>1
  <2>3. QED
      BY <1>4, <2>1, <2>2
<1>11. NothingLeft'
  <2> SUFFICES ASSUME ~setBack, missed = {}
               PROVE  NothingLeft'
      BY <1>1 DEF NothingLeft
  <2>1. mark < now
      BY <1>1, <1>2 DEF StoreIInv, NothingLeft
  <2>2. /\ \A i \in DOMAIN log' : log'[i].time <= now
        /\ \A i \in DOMAIN rows : rows[i].time <= now
      BY <1>2, <1>4 DEF StoreIInv, NothingLeft
  <2>3. \A i \in DOMAIN log' : log'[i].parses /\ log'[i].time <= mark => IsStored(log'[i].id)
    <3> SUFFICES ASSUME NEW i \in DOMAIN log', log'[i].parses, log'[i].time <= mark
                 PROVE  IsStored(log'[i].id)
        OBVIOUS
    <3>1. log'[i].time # now
        BY <1>2, <2>1 DEF StoreTypeOK
    <3>2. PICK k \in DOMAIN log : log'[i] = log[k]
        BY <1>4, <3>1
    <3>3. IsStored(log[k].id)
        BY <3>2 DEF StoreIInv, NothingLeft
    <3>4. QED
        BY <3>2, <3>3
  <2>4. \A i \in DOMAIN log' :
          IsStored(log'[i].id) => \E k \in DOMAIN rows' : rows'[k].id = log'[i].id
      BY <1>1 DEF IsStored
  <2>5. QED
      BY <1>1, <2>1, <2>2, <2>3, <2>4 DEF NothingLeft, IsStored
<1>12. QED
    BY <1>5, <1>6, <1>7, <1>9, <1>10, <1>11 DEF StoreIInv

(* After a start every line may be stored once more, and one start more    *)
(* has seen it.                                                            *)
LEMMA StoreStartsKeeps ==
  ASSUME StoreIInv, StoreStarts PROVE StoreIInv'
<1> DEFINE parses == <<FALSE>>
<1>1. /\ stage = "down" /\ stage' = "poll" /\ mark' = 0 /\ rounds' = 0
      /\ now' = IF now < MaxClock THEN now + 1 ELSE now
      /\ log' = Rotated(Stamped(parses)) /\ written' = written + 1
      /\ starts' = Append(starts, written)
      /\ UNCHANGED <<rows, cursor, faults, setBack, missed>>
    BY DEF StoreStarts, Sleep
<1>2. /\ now \in 1 .. MaxClock /\ written \in Nat /\ written \in Ids
      /\ now' \in 1 .. MaxClock /\ now <= now' /\ MaxClock \in Nat
      /\ faults \in 0 .. MaxFaults /\ MaxFaults \in Nat /\ MaxLines \in Nat
      /\ StoreTypeOK /\ Numbered
    BY <1>1, Bounds DEF StoreIInv, StoreTypeOK, Ids
<1>3. /\ parses \in Seq(BOOLEAN) /\ Len(parses) = 1 /\ DOMAIN parses = {1} /\ parses[1] = FALSE
      /\ Len(parses) <= FileSize
    BY Bounds
<1> HIDE DEF parses
<1>4. /\ log' \in Seq(Lines) /\ Len(log') <= FileSize
      /\ written' \in Ids
      /\ \A i, k \in DOMAIN log' : log'[i].id = log'[k].id => i = k
      /\ \A i \in DOMAIN log' : log'[i].id <= written'
      /\ \A i \in DOMAIN log' :
           \/ \E k \in DOMAIN log : log'[i] = log[k]
           \/ log'[i].id > written /\ log'[i].time = now /\ ~log'[i].parses
  <2>1. written + Len(parses) <= MaxLines + MaxFaults /\ written' = written + Len(parses)
      BY <1>1, <1>2, <1>3 DEF Numbered
  <2>2. QED
      BY <1>1, <1>2, <1>3, <2>1, FileAfterLines
<1>5. StoreTypeOK'
  <2>1. starts' \in Seq({0} \cup Ids)
      BY <1>1, <1>2 DEF StoreTypeOK
  <2>2. QED
      BY <1>1, <1>2, <1>4, <2>1, Bounds DEF StoreTypeOK
<1>6. Numbered'
  <2>1. \A i \in DOMAIN rows : rows[i].id \in Nat
      BY LineType DEF StoreIInv, StoreTypeOK
  <2>2. \A i \in DOMAIN rows : rows[i].id <= written'
      BY <1>1, <1>2, <2>1 DEF Numbered
  <2>3. Len(starts') > 0
      BY <1>1, <1>2 DEF StoreTypeOK
  <2>4. written' <= MaxLines + faults
      BY <1>1, <1>2 DEF Numbered
  <2>5. QED
      BY <1>1, <1>4, <2>2, <2>3, <2>4 DEF Numbered
<1>7. RowsHaveLatest'
    BY <1>1 DEF StoreIInv, RowsHaveLatest
<1>8. /\ \A id : Copies(id)' = Copies(id) /\ Copies(id) \in Nat
      /\ \A id : StartsSeeing(id) \in Nat
      /\ \A id \in Nat : id <= written => StartsSeeing(id)' = StartsSeeing(id) + 1
    BY <1>1, <1>2, CountTypes, StartAppended DEF StoreTypeOK, Numbered, Copies
<1>9. ASSUME NEW id \in Nat, id > written
      PROVE  Copies(id) = 0 /\ StartsSeeing(id)' \in Nat /\ StartsSeeing(id)' > 0
  <2>1. \A i \in DOMAIN rows : rows[i].id \in Nat /\ rows[i].id <= written
      BY LineType DEF StoreIInv, StoreTypeOK, Numbered
  <2>2. \A i \in DOMAIN rows : rows[i].id # id
      BY <1>2, <1>9, <2>1
  <2>3. Copies(id) = 0
      BY <1>2, <2>2, SeenOnce DEF StoreTypeOK, Numbered
  <2>4. StartsSeeing(id)' \in Nat /\ StartsSeeing(id)' > 0
    <3> DEFINE after == {k \in DOMAIN starts' : k = Len(starts') \/ starts'[k + 1] >= id}
    <3>1. starts' \in Seq({0} \cup Ids) /\ Len(starts') > 0
        BY <1>5, <1>6 DEF StoreTypeOK, Numbered
    <3>2. Len(starts') \in after /\ after \in SUBSET (1 .. Len(starts'))
        BY <3>1
    <3>3. IsFiniteSet(1 .. Len(starts'))
        BY <3>1, FS_Interval
    <3>4. IsFiniteSet(after)
        BY <3>2, <3>3, FS_Subset
    <3>5. Cardinality(after) \in Nat /\ Cardinality(after) # 0
        BY <3>2, <3>4, FS_CardinalityType, FS_EmptySet
    <3>6. QED
        BY <3>5 DEF StartsSeeing
  <2>5. QED
      BY <2>3, <2>4
<1>10. \A id \in Nat : id > 0 => Copies(id)' < StartsSeeing(id)'
  <2> SUFFICES ASSUME NEW id \in Nat, id > 0 PROVE Copies(id)' < StartsSeeing(id)'
      OBVIOUS
  <2>1. CASE id <= written
    <3>1. Copies(id) <= StartsSeeing(id)
        BY <1>2, <2>1 DEF StoreIInv, StoredOncePerStart
    <3>2. QED
        BY <1>8, <2>1, <3>1
  <2>2. CASE id > written
    <3>1. Copies(id)' = 0 /\ StartsSeeing(id)' > 0
        BY <1>8, <1>9, <2>2
    <3>2. QED
        BY <3>1
  <2>3. QED
      BY <1>2, <2>1, <2>2
<1>11. StoredOncePerStart'
  <2> SUFFICES ASSUME NEW id \in 1 .. written' PROVE Copies(id)' <= StartsSeeing(id)'
      BY DEF StoredOncePerStart
  <2>1. id \in Nat /\ id > 0
      OBVIOUS
  <2>2. CASE id <= written
      BY <1>8, <1>2, <2>1, <2>2 DEF StoreIInv, StoredOncePerStart
  <2>3. CASE id > written
    <3>1. Copies(id)' = 0 /\ StartsSeeing(id)' \in Nat
        BY <1>8, <1>9, <2>1, <2>3
    <3>2. QED
        BY <3>1
  <2>4. QED
      BY <1>2, <2>1, <2>2, <2>3
<1>12. StillOnce'
  <2> SUFFICES ASSUME NEW i \in DOMAIN log'
               PROVE  (Copies(log[i].id) < StartsSeeing(log[i].id))'
      BY DEF StillOnce
  <2>1. PICK id \in Nat : id = log'[i].id /\ id > 0
      BY <1>4, LineType
  <2>2. Copies(id)' < StartsSeeing(id)'
      BY <1>10, <2>1
  <2>3. QED
      BY <2>1, <2>2 DEF Copies, StartsSeeing
<1>13. NothingLeft'
  <2> SUFFICES ASSUME ~setBack, missed = {}
               PROVE  NothingLeft'
      BY <1>1 DEF NothingLeft
  <2>1. \A i \in DOMAIN log' : log'[i].time \in Nat /\ log'[i].time > 0
      BY <1>4, LineType
  <2>2. /\ \A i \in DOMAIN log' : log'[i].time <= now'
        /\ \A i \in DOMAIN rows : rows[i].time <= now'
    <3>1. /\ \A i \in DOMAIN log' : log'[i].time <= now
          /\ \A i \in DOMAIN rows : rows[i].time <= now
        BY <1>2, <1>4 DEF StoreIInv, NothingLeft
    <3>2. \A i \in DOMAIN rows : rows[i].time \in Nat
        BY LineType DEF StoreIInv, StoreTypeOK
    <3>3. QED
        BY <1>2, <2>1, <3>1, <3>2
  <2>3. mark' < now' /\ \A i \in DOMAIN log' : ~(log'[i].time <= mark')
      BY <1>1, <1>2, <2>1
  <2>4. QED
      BY <1>1, <2>2, <2>3 DEF NothingLeft
<1>14. QED
    BY <1>5, <1>6, <1>7, <1>11, <1>12, <1>13 DEF StoreIInv

-----------------------------------------------------------------------------
(* The step that stores a line.                                            *)

(* The line at the cursor had a row less than starts that saw it, and the  *)
(* new row makes it no later than the latest.                              *)
LEMMA StoreLineKeeps ==
  ASSUME StoreIInv, StoreLine PROVE StoreIInv'
<1>1. /\ stage = "insert" /\ cursor <= Len(log) /\ cursor' = cursor + 1
      /\ rows' = IF ToBeStored(log[cursor]) THEN Append(rows, log[cursor]) ELSE rows
      /\ UNCHANGED <<log, mark, now, stage, rounds, written, faults, starts, setBack, missed>>
    BY DEF StoreLine
<1>2. /\ cursor \in 1 .. FileSize + 1 /\ FileSize \in Nat /\ cursor \in Nat
      /\ log \in Seq(Lines) /\ Len(log) \in Nat /\ Len(log) <= FileSize
      /\ DOMAIN log = 1 .. Len(log)
      /\ rows \in Seq(Lines) /\ starts \in Seq({0} \cup Ids)
    BY Bounds DEF StoreIInv, StoreTypeOK
<1> PICK l \in Lines : l = log[cursor]
    BY <1>1, <1>2
<1>3. cursor \in DOMAIN log /\ cursor' \in 1 .. FileSize + 1
    BY <1>1, <1>2
<1>4. /\ l.id \in Nat /\ l.time \in Nat /\ l.parses \in BOOLEAN
      /\ l.id \in 1 .. written /\ written \in Nat
  <2>1. l.id > 0 /\ l.id <= written /\ written \in Nat
      BY <1>3, LineType DEF StoreIInv, StoreTypeOK, Numbered, Ids
  <2>2. QED
      BY <2>1, LineType
<1>5. CASE ~ToBeStored(l)
  <2>1. rows' = rows
      BY <1>1, <1>5
  <2>2. StoreTypeOK'
      BY <1>1, <1>3, <2>1 DEF StoreIInv, StoreTypeOK
  <2>3. \A i \in DOMAIN log : MayBeStored(i)' => MayBeStored(i)
      BY <1>1, <1>2, <2>1 DEF MayBeStored
  <2>4. Numbered' /\ RowsHaveLatest' /\ StoredOncePerStart' /\ StillOnce'
      BY <1>1, <2>1, <2>3, QuietKeeps DEF StoreIInv, Numbered
  <2>5. NothingLeft'
    <3> SUFFICES ASSUME ~setBack, missed = {}
                 PROVE  NothingLeft'
        BY <1>1 DEF NothingLeft
    <3>1. \A i \in DOMAIN log : i < cursor' => i < cursor \/ i = cursor
        BY <1>1, <1>2
    <3>2. l.parses => l.time <= mark
        BY <1>4, <1>5 DEF ToBeStored, StoreIInv, StoreTypeOK
    <3>3. \A i \in DOMAIN log : log[i].parses
            /\ (log[i].time <= mark \/ i < cursor') => IsStored(log[i].id)
        BY <1>1, <3>1, <3>2 DEF StoreIInv, NothingLeft
    <3>4. \A i \in DOMAIN log : IsStored(log[i].id)' = IsStored(log[i].id)
        BY <1>1, <2>1 DEF IsStored
    <3>5. QED
        BY <1>1, <2>1, <3>3, <3>4 DEF StoreIInv, NothingLeft
  <2>6. QED
      BY <2>2, <2>4, <2>5 DEF StoreIInv
<1>6. CASE ToBeStored(l)
  <2>1. rows' = Append(rows, l) /\ l.parses /\ l.time > mark
      BY <1>1, <1>6 DEF ToBeStored
  <2>2. /\ RowsHaveLatest' /\ rows' \in Seq(Lines)
        /\ l.time <= Latest(rows') /\ Latest(rows) <= Latest(rows')
        /\ Latest(rows) \in Nat /\ Latest(rows') \in Nat
      BY <1>2, <2>1, LatestAppended DEF StoreIInv
  <2>3. /\ DOMAIN rows' = DOMAIN rows \cup {Len(rows) + 1} /\ rows'[Len(rows) + 1] = l
        /\ \A i \in DOMAIN rows : rows'[i] = rows[i]
      BY <1>2, <2>1, RowAppended
  <2>4. StoreTypeOK'
      BY <1>1, <1>3, <2>2 DEF StoreIInv, StoreTypeOK
  <2>5. Numbered'
      BY <1>1, <1>4, <2>3 DEF StoreIInv, Numbered
  <2>6. \A id : StartsSeeing(id)' = StartsSeeing(id)
      BY <1>1 DEF StartsSeeing
  <2>7. \A id : Copies(id)' = IF id = l.id THEN Copies(id) + 1 ELSE Copies(id)
      BY <1>2, <2>1, CopiesAppended
  <2>8. Copies(l.id) < StartsSeeing(l.id)
    <3>1. MayBeStored(cursor)
        BY <1>1, <1>2, <2>1 DEF MayBeStored
    <3>2. QED
        BY <1>3, <3>1 DEF StoreIInv, StillOnce
  <2>9. StoredOncePerStart'
    <3> SUFFICES ASSUME NEW id \in 1 .. written' PROVE Copies(id)' <= StartsSeeing(id)'
        BY DEF StoredOncePerStart
    <3>1. Copies(id) \in Nat /\ StartsSeeing(id) \in Nat
        BY <1>2, CountTypes
    <3>2. CASE id = l.id
      <4>1. Copies(id) < StartsSeeing(id)
          BY <2>8, <3>2
      <4>2. QED
          BY <2>6, <2>7, <3>1, <3>2, <4>1
    <3>3. CASE id # l.id
      <4>1. Copies(id) <= StartsSeeing(id)
          BY <1>1 DEF StoreIInv, StoredOncePerStart
      <4>2. QED
          BY <2>6, <2>7, <3>3, <4>1
    <3>4. QED
        BY <3>2, <3>3
  <2>10. StillOnce'
    <3> SUFFICES ASSUME NEW i \in DOMAIN log, MayBeStored(i)'
                 PROVE  (Copies(log[i].id) < StartsSeeing(log[i].id))'
        BY <1>1 DEF StillOnce
    <3>1. log[i].time \in Nat /\ i \in Nat
        BY <1>2, LineType
    <3>2. MayBeStored(i) /\ i # cursor
      <4>1. CASE log[i].time > Latest(rows')
          BY <1>1, <2>2, <3>1, <4>1 DEF MayBeStored
      <4>2. CASE log[i].time > mark /\ i >= cursor'
          BY <1>1, <1>2, <3>1, <4>2 DEF MayBeStored
      <4>3. QED
          BY <1>1, <4>1, <4>2 DEF MayBeStored
    <3>3. log[i].id # l.id
        BY <1>3, <3>2 DEF StoreIInv, Numbered
    <3>4. PICK id \in Nat : id = log[i].id
        BY <1>2, LineType
    <3>5. Copies(id) < StartsSeeing(id)
        BY <3>2, <3>4 DEF StoreIInv, StillOnce
    <3>6. Copies(id)' < StartsSeeing(id)'
        BY <2>6, <2>7, <3>3, <3>4, <3>5
    <3>7. QED
        BY <1>1, <3>4, <3>6 DEF Copies, StartsSeeing
  <2>11. NothingLeft'
    <3> SUFFICES ASSUME ~setBack, missed = {}
                 PROVE  NothingLeft'
        BY <1>1 DEF NothingLeft
    <3>1. l.time <= now /\ \A i \in DOMAIN rows' : rows'[i].time <= now
        BY <1>3, <2>3 DEF StoreIInv, NothingLeft
    <3>2. \A i \in DOMAIN log : i < cursor' => i < cursor \/ i = cursor
        BY <1>1, <1>2
    <3>3. \A i \in DOMAIN log : IsStored(log[i].id) \/ i = cursor
            => \E k \in DOMAIN rows' : rows'[k].id = log[i].id
        BY <2>3 DEF IsStored
    <3>4. \A i \in DOMAIN log : log[i].parses
            /\ (log[i].time <= mark \/ i < cursor')
            => \E k \in DOMAIN rows' : rows'[k].id = log[i].id
        BY <1>1, <3>2, <3>3 DEF StoreIInv, NothingLeft
    <3>5. QED
        BY <1>1, <3>1, <3>4 DEF StoreIInv, NothingLeft, IsStored
  <2>12. QED
      BY <2>2, <2>4, <2>5, <2>9, <2>10, <2>11 DEF StoreIInv
<1>7. QED
    BY <1>5, <1>6

-----------------------------------------------------------------------------
LEMMA StoreInitIInv == StoreInit => StoreIInv
<1> SUFFICES ASSUME StoreInit PROVE StoreIInv
    OBVIOUS
<1> DEFINE first == [id |-> 1, time |-> 1, parses |-> FALSE]
<1>1. first \in Lines /\ first.id = 1 /\ first.time = 1 /\ first.parses = FALSE
    BY Bounds DEF Lines, Ids
<1> HIDE DEF first
<1>2. /\ log = <<first>> /\ rows = <<>> /\ mark = 0 /\ now = 1 /\ stage = "poll" /\ cursor = 1
      /\ rounds = 0 /\ written = 1 /\ faults = 0 /\ starts = <<0>> /\ setBack = FALSE
      /\ missed = {}
    BY DEF StoreInit, first
<1>3. /\ log \in Seq(Lines) /\ Len(log) = 1 /\ DOMAIN log = {1} /\ log[1] = first
      /\ starts \in Seq({0} \cup Ids) /\ Len(starts) = 1 /\ DOMAIN rows = {}
      /\ rows \in Seq(Lines)
    BY <1>1, <1>2
<1>4. StoreTypeOK
  <2>1. /\ 1 <= FileSize /\ 0 \in 0 .. MaxClock /\ 1 \in 1 .. MaxClock /\ 1 \in Ids
        /\ 1 \in 1 .. FileSize + 1 /\ 0 \in 0 .. Minute - 1 /\ 0 \in 0 .. MaxFaults
      BY Bounds DEF Ids
  <2>2. /\ log \in Seq(Lines) /\ Len(log) <= FileSize /\ rows \in Seq(Lines)
        /\ starts \in Seq({0} \cup Ids)
      BY <1>3, <2>1
  <2>3. /\ mark \in 0 .. MaxClock /\ now \in 1 .. MaxClock /\ cursor \in 1 .. FileSize + 1
        /\ rounds \in 0 .. Minute - 1 /\ written \in Ids /\ faults \in 0 .. MaxFaults
      BY <1>2, <2>1
  <2>4. /\ stage \in {"poll", "insert", "latest", "down"} /\ setBack \in BOOLEAN
        /\ missed \subseteq Ids
      BY <1>2
  <2>5. QED
      BY <2>2, <2>3, <2>4 DEF StoreTypeOK
<1>5. Numbered
    BY <1>1, <1>2, <1>3, Bounds DEF Numbered
<1>6. RowsHaveLatest
    BY <1>2 DEF RowsHaveLatest
<1>7. StoredOncePerStart
  <2>1. \A id : Copies(id) = 0 /\ StartsSeeing(id) \in Nat
      BY <1>3, CountTypes, SeenOnce
  <2>2. QED
      BY <2>1 DEF StoredOncePerStart
<1>8. StillOnce
    BY <1>1, <1>3 DEF StillOnce, MayBeStored
<1>9. NothingLeft
    BY <1>1, <1>2, <1>3, Bounds DEF NothingLeft
<1>10. QED
    BY <1>4, <1>5, <1>6, <1>7, <1>8, <1>9 DEF StoreIInv

LEMMA StoreStutterKeeps ==
  ASSUME StoreIInv, UNCHANGED storeVars PROVE StoreIInv'
<1>1. UNCHANGED <<log, rows, mark, now, stage, cursor, rounds, written, faults, starts,
                  setBack, missed>>
    BY DEF storeVars
<1>2. StoreTypeOK' /\ \A i \in DOMAIN log : MayBeStored(i)' => MayBeStored(i)
    BY <1>1 DEF StoreIInv, StoreTypeOK, MayBeStored
<1>3. Numbered' /\ RowsHaveLatest' /\ StoredOncePerStart' /\ StillOnce'
    BY <1>1, <1>2, QuietKeeps DEF StoreIInv, Numbered
<1>4. NothingLeft'
    BY <1>1 DEF StoreIInv, NothingLeft, IsStored
<1>5. QED
    BY <1>2, <1>3, <1>4 DEF StoreIInv

(* Every step of the thread and every fault, whatever writes lines.        *)
LEMMA StoreStepKeeps ==
  ASSUME StoreIInv, EndPoll \/ Pass \/ StoreStarts \/ StoreFault \/ UNCHANGED storeVars
  PROVE  StoreIInv'
    BY EndPollKeeps, StoreLineKeeps, EndOfLogKeeps, GetLatestTimestampKeeps,
       StoreStartsKeeps, FaultKeeps, StoreStutterKeeps
       DEF Pass, StoreFault

LEMMA StoreIInvStep == StoreIInv /\ [StoreNext]_storeVars => StoreIInv'
<1> SUFFICES ASSUME StoreIInv, [StoreNext]_storeVars PROVE StoreIInv'
    OBVIOUS
<1>1. ASSUME NEW parses \in {<<TRUE>>, <<FALSE>>}, WriteLines(parses) PROVE StoreIInv'
  <2>1. parses \in Seq(BOOLEAN) /\ Len(parses) <= FileSize
    <3>1. CASE parses = <<TRUE>>
        BY <3>1, Bounds
    <3>2. CASE parses = <<FALSE>>
        BY <3>2, Bounds
    <3>3. QED
        BY <3>1, <3>2
  <2>2. QED
      BY <1>1, <2>1, WriteLinesKeeps
<1>2. QED
    BY <1>1, StoreStepKeeps DEF StoreNext

LEMMA StoreIInvKept == StoreSpec => []StoreIInv
<1>1. QED
    BY StoreInitIInv, StoreIInvStep, PTL DEF StoreSpec

(* The types of the log, the rows and the thread that moves lines.         *)
THEOREM StoreTyped == StoreSpec => []StoreTypeOK
<1>1. StoreIInv => StoreTypeOK
    BY DEF StoreIInv
<1>2. QED
    BY <1>1, StoreIInvKept, PTL

(* No line gets more rows than there were starts since it was written,     *)
(* however the clock is set, inserts fail and the process dies.            *)
THEOREM NoSecondRow == StoreSpec => []StoredOncePerStart
<1>1. StoreIInv => StoredOncePerStart
    BY DEF StoreIInv
<1>2. QED
    BY <1>1, StoreIInvKept, PTL

(* Every line of the file up to the mark is stored, as long as the clock   *)
(* runs on and no insert fails, also after deaths in the middle of a pass. *)
THEOREM MarkPassesNothing == StoreSpec => []NothingPassedOver
<1>1. StoreIInv => NothingPassedOver
    BY DEF StoreIInv, NothingLeft, NothingPassedOver
<1>2. QED
    BY <1>1, StoreIInvKept, PTL
=============================================================================
