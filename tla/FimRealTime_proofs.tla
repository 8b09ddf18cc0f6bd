------------------------ MODULE FimRealTime_proofs -------------------------
(***************************************************************************)
(* What is proved of the real-time monitor, for any files, processes,      *)
(* directories and filters and any number of operations.                   *)
(*                                                                         *)
(* The content of files is a matter of counting (ContentInv): what is      *)
(* logged of a file, what waits in the queues and what is remembered of it *)
(* is together no more than what was done to it.  The directory entries    *)
(* are a matter of order (EntriesInv): what is logged, followed by what    *)
(* the waiting inotify events will give, is what was done, and the halves  *)
(* of the renames that wait are paired so that they will give it (Paired). *)
(*                                                                         *)
(* Sequences are joined by FlattenSeq, a recursive function; what it does  *)
(* to a first and to a last member follows by induction over the length,   *)
(* stated for sets of numbers (NatSetInduction).                           *)
(***************************************************************************)
EXTENDS Fim, FimLogStore_proofs, FimIntegrity_proofs, WellFoundedInduction

(* What holds of 0 and is handed on from n to n + 1 holds of all numbers.  *)
LEMMA NatSetInduction ==
  ASSUME NEW S, 0 \in S, \A n \in Nat : n \in S => n + 1 \in S
  PROVE  \A n \in Nat : n \in S
<1> DEFINE T == Nat \ S
<1> SUFFICES ASSUME T # {} PROVE FALSE
    OBVIOUS
<1>1. PICK x \in T : \A y \in T : <<y, x>> \notin OpToRel(<, Nat)
  <2>1. T \subseteq Nat
      OBVIOUS
  <2> HIDE DEF T
  <2>2. QED
      BY <2>1, NatLessThanWellFounded, WFMin
<1>2. x \in Nat /\ x # 0 /\ x - 1 \in Nat /\ x - 1 < x
    OBVIOUS
<1>3. <<x - 1, x>> \in OpToRel(<, Nat)
    BY <1>2 DEF OpToRel
<1>4. x - 1 \in S
    BY <1>1, <1>2, <1>3
<1>5. QED
    BY <1>2, <1>4

-----------------------------------------------------------------------------
(* Sequences joined.                                                       *)

(* f[i] is the first i sequences of s joined.                              *)
Joins(s, f) ==
  f = [i \in 1 .. Len(s) |-> IF i = 1 THEN s[i] ELSE f[i - 1] \o s[i]]

LEMMA JoinsAt ==
  ASSUME NEW s, NEW f, Joins(s, f), NEW i \in 1 .. Len(s)
  PROVE  /\ i = 1 => f[i] = s[i]
         /\ i # 1 => f[i] = f[i - 1] \o s[i]
<1>1. f[i] = IF i = 1 THEN s[i] ELSE f[i - 1] \o s[i]
    BY Zenon DEF Joins
<1>2. QED
    BY <1>1

LEMMA JoinsExist ==
  ASSUME NEW T, NEW s \in Seq(Seq(T)) PROVE \E f : Joins(s, f)
<1> DEFINE To(n, f) == f = [i \in 1 .. n |-> IF i = 1 THEN s[i] ELSE f[i - 1] \o s[i]]
           S == {n \in Nat : \E f : To(n, f)}
<1>1. 0 \in S
  <2>1. To(0, [i \in 1 .. 0 |-> 0])
      OBVIOUS
  <2>2. QED
      BY <2>1
<1>2. ASSUME NEW n \in Nat, n \in S PROVE n + 1 \in S
  <2>1. PICK f : To(n, f)
      BY <1>2
  <2> DEFINE x == IF n = 0 THEN s[1] ELSE f[n] \o s[n + 1]
             g == [i \in 1 .. n + 1 |-> IF i = n + 1 THEN x ELSE f[i]]
  <2>2. ASSUME NEW i \in 1 .. n + 1
        PROVE  g[i] = IF i = 1 THEN s[i] ELSE g[i - 1] \o s[i]
    <3>1. CASE i = n + 1 /\ i = 1
        BY <3>1
    <3>2. CASE i = n + 1 /\ i # 1
      <4>1. n # 0 /\ i - 1 = n /\ n # n + 1 /\ n \in 1 .. n + 1
          BY <3>2
      <4>2. g[i] = f[n] \o s[n + 1] /\ g[i - 1] = f[n]
          BY <3>2, <4>1
      <4>3. QED
          BY <3>2, <4>2
    <3>3. CASE i # n + 1
      <4>1. i \in 1 .. n /\ (i # 1 => i - 1 \in 1 .. n)
          BY <3>3
      <4>2. f[i] = IF i = 1 THEN s[i] ELSE f[i - 1] \o s[i]
          BY <2>1, <4>1
      <4>3. g[i] = f[i] /\ (i # 1 => g[i - 1] = f[i - 1])
          BY <4>1
      <4>4. QED
          BY <4>2, <4>3
    <3>4. QED
        BY <3>1, <3>2, <3>3
  <2>3. To(n + 1, g)
    <3> HIDE DEF x
    <3>1. g = [i \in 1 .. n + 1 |-> g[i]]
        OBVIOUS
    <3> HIDE DEF g
    <3>2. [i \in 1 .. n + 1 |-> g[i]]
            = [i \in 1 .. n + 1 |-> IF i = 1 THEN s[i] ELSE g[i - 1] \o s[i]]
        BY <2>2
    <3>3. QED
        BY <3>1, <3>2
  <2> HIDE DEF g
  <2>4. \E h : To(n + 1, h)
      BY <2>3
  <2> HIDE DEF To
  <2>5. QED
      BY <2>4
<1>3. Len(s) \in S
  <2> HIDE DEF S
  <2>1. QED
      BY <1>1, <1>2, NatSetInduction
<1>4. QED
    BY <1>3 DEF Joins

(* What the first sequences give only depends on those.                    *)
LEMMA JoinsSame ==
  ASSUME NEW S, NEW s \in Seq(S), NEW t \in Seq(S),
         NEW f, NEW g, Joins(s, f), Joins(t, g), Len(s) <= Len(t),
         \A i \in 1 .. Len(s) : s[i] = t[i]
  PROVE  \A i \in 1 .. Len(s) : f[i] = g[i]
<1> DEFINE n == Len(s)
<1> DEFINE Same == {k \in Nat : k \in 1 .. n => f[k] = g[k]}
<1>1. 0 \in Same
    OBVIOUS
<1>2. ASSUME NEW k \in Nat, k \in Same PROVE k + 1 \in Same
  <2>1. SUFFICES ASSUME k + 1 \in 1 .. n PROVE f[k + 1] = g[k + 1]
      OBVIOUS
  <2> DEFINE i == k + 1
  <2>2. /\ i \in 1 .. Len(s) /\ i \in 1 .. Len(t)
        /\ i = 1 => f[i] = s[i] /\ g[i] = t[i]
        /\ i # 1 => f[i] = f[i - 1] \o s[i] /\ g[i] = g[i - 1] \o t[i]
    <3>1. i \in 1 .. Len(s) /\ i \in 1 .. Len(t)
        BY <2>1
    <3> HIDE DEF i
    <3>2. QED
        BY <3>1, JoinsAt
  <2>3. s[k + 1] = t[k + 1]
      BY <2>1
  <2>4. CASE k = 0
      BY <2>2, <2>3, <2>4
  <2>5. CASE k # 0
    <3>1. k \in 1 .. n /\ i # 1 /\ i - 1 = k
        BY <2>1, <2>5
    <3>2. f[k] = g[k]
        BY <1>2, <3>1
    <3>3. f[i] = f[k] \o s[i] /\ g[i] = g[k] \o t[i]
        BY <2>2, <3>1
    <3>4. QED
        BY <2>3, <3>2, <3>3
  <2>6. QED
      BY <2>4, <2>5
<1> HIDE DEF Same
<1>3. \A k \in Nat : k \in Same
    BY <1>1, <1>2, NatSetInduction
<1>4. QED
    BY <1>3 DEF Same

LEMMA JoinsAppend ==
  ASSUME NEW S, NEW s \in Seq(S), NEW x \in S, NEW f, NEW g,
         Joins(s, f), Joins(Append(s, x), g)
  PROVE  \A i \in 1 .. Len(s) : f[i] = g[i]
<1> DEFINE t == Append(s, x)
<1>1. t \in Seq(S) /\ Len(s) <= Len(t) /\ \A i \in 1 .. Len(s) : s[i] = t[i]
    BY AppendProperties
<1>2. Joins(t, g)
    OBVIOUS
<1> HIDE DEF t
<1>3. QED
    BY <1>1, <1>2, JoinsSame

LEMMA FlattenIsJoin ==
  ASSUME NEW T, NEW s \in Seq(Seq(T)), s # <<>>
  PROVE  \E f : Joins(s, f) /\ FlattenSeq(s) = f[Len(s)]
<1> DEFINE f == CHOOSE f : f = [i \in 1 .. Len(s) |-> IF i = 1 THEN s[i] ELSE f[i - 1] \o s[i]]
<1>1. Len(s) # 0
    BY EmptySeq
<1>2. FlattenSeq(s) = f[Len(s)]
    BY <1>1 DEF FlattenSeq
<1>3. \E g : g = [i \in 1 .. Len(s) |-> IF i = 1 THEN s[i] ELSE g[i - 1] \o s[i]]
    BY JoinsExist DEF Joins
<1>4. Joins(s, f)
    BY <1>3, Zenon DEF Joins
<1>5. QED
    BY <1>2, <1>4

LEMMA FlattenEmpty == FlattenSeq(<<>>) = <<>>
    BY DEF FlattenSeq

(* A last sequence comes last.                                             *)
LEMMA FlattenAppend ==
  ASSUME NEW T, NEW s \in Seq(Seq(T)), NEW x \in Seq(T), FlattenSeq(s) \in Seq(T)
  PROVE  FlattenSeq(Append(s, x)) = FlattenSeq(s) \o x
<1> DEFINE t == Append(s, x)
<1>1. /\ t \in Seq(Seq(T)) /\ t # <<>> /\ Len(t) = Len(s) + 1 /\ Len(s) \in Nat
      /\ t[Len(s) + 1] = x /\ \A i \in 1 .. Len(s) : s[i] = t[i]
    BY AppendProperties, LenProperties
<1> HIDE DEF t
<1>2. PICK g : Joins(t, g) /\ FlattenSeq(t) = g[Len(t)]
    BY <1>1, FlattenIsJoin
<1>3. /\ Len(s) = 0 => g[Len(t)] = x
      /\ Len(s) # 0 => g[Len(t)] = g[Len(s)] \o x
  <2>1. Len(t) \in 1 .. Len(t)
      BY <1>1
  <2> DEFINE n == Len(t)
  <2>2. n \in 1 .. Len(t)
      BY <2>1
  <2> HIDE DEF n
  <2>3. /\ n = 1 => g[n] = t[n]
        /\ n # 1 => g[n] = g[n - 1] \o t[n]
      BY <1>2, <2>2, JoinsAt
  <2>4. n = Len(t) /\ n - 1 = Len(s) /\ t[n] = x /\ (Len(s) = 0 <=> n = 1)
      BY <1>1 DEF n
  <2>5. QED
      BY <2>3, <2>4
<1>4. CASE s = <<>>
  <2>1. FlattenSeq(t) = x
      BY <1>1, <1>2, <1>3, <1>4
  <2>2. FlattenSeq(s) = <<>>
      BY <1>4, FlattenEmpty
  <2>3. QED
      BY <2>1, <2>2 DEF t
<1>5. CASE s # <<>>
  <2>1. PICK f : Joins(s, f) /\ FlattenSeq(s) = f[Len(s)]
      BY <1>5, FlattenIsJoin
  <2>2. Len(s) > 0
      BY <1>5
  <2>3. \A i \in 1 .. Len(s) : f[i] = g[i]
    <3>1. Joins(s, f) /\ Joins(Append(s, x), g)
        BY <1>2, <2>1 DEF t
    <3> HIDE DEF Joins
    <3>2. QED
        BY <3>1, JoinsAppend
  <2>4. f[Len(s)] = g[Len(s)] /\ Len(s) # 0
      BY <1>1, <2>2, <2>3
  <2>5. QED
      BY <1>2, <1>3, <2>1, <2>4 DEF t
<1>6. QED
    BY <1>4, <1>5

LEMMA FlattenType ==
  ASSUME NEW T, NEW s \in Seq(Seq(T)) PROVE FlattenSeq(s) \in Seq(T)
<1> DEFINE S == {n \in Nat : \A t \in Seq(Seq(T)) : Len(t) = n => FlattenSeq(t) \in Seq(T)}
<1>1. 0 \in S
    BY FlattenEmpty, EmptySeq
<1>2. ASSUME NEW n \in Nat, n \in S PROVE n + 1 \in S
  <2>1. SUFFICES ASSUME NEW t \in Seq(Seq(T)), Len(t) = n + 1
                 PROVE  FlattenSeq(t) \in Seq(T)
      OBVIOUS
  <2>2. PICK u \in Seq(Seq(T)), x \in Seq(T) : t = Append(u, x)
    <3>1. t # <<>>
        BY <2>1, EmptySeq
    <3>2. QED
        BY <3>1, SequenceEmptyOrAppend
  <2>3. Len(u) = n
      BY <2>1, <2>2
  <2>4. FlattenSeq(u) \in Seq(T)
      BY <1>2, <2>3
  <2>5. FlattenSeq(t) = FlattenSeq(u) \o x
      BY <2>2, <2>4, FlattenAppend
  <2>6. QED
      BY <2>4, <2>5
<1> HIDE DEF S
<1>3. Len(s) \in S
    BY <1>1, <1>2, NatSetInduction
<1>4. QED
    BY <1>3 DEF S

(* The first sequence comes first.                                         *)
LEMMA FlattenTail ==
  ASSUME NEW T, NEW s \in Seq(Seq(T)), s # <<>>
  PROVE  FlattenSeq(s) = Head(s) \o FlattenSeq(Tail(s))
<1> DEFINE Holds(t) == t # <<>> => FlattenSeq(t) = Head(t) \o FlattenSeq(Tail(t))
           S == {n \in Nat : \A t \in Seq(Seq(T)) : Len(t) = n => Holds(t)}
<1>1. 0 \in S
    BY EmptySeq
<1>2. ASSUME NEW n \in Nat, n \in S PROVE n + 1 \in S
  <2>1. SUFFICES ASSUME NEW t \in Seq(Seq(T)), Len(t) = n + 1 PROVE Holds(t)
      OBVIOUS
  <2>2. PICK u \in Seq(Seq(T)), x \in Seq(T) : t = Append(u, x)
    <3>1. t # <<>>
        BY <2>1, EmptySeq
    <3>2. QED
        BY <3>1, SequenceEmptyOrAppend
  <2>3. Len(u) = n /\ FlattenSeq(u) \in Seq(T) /\ FlattenSeq(t) = FlattenSeq(u) \o x
      BY <2>1, <2>2, FlattenType, FlattenAppend
  <2>4. CASE u = <<>>
    <3>1. Head(t) = x /\ Tail(t) = <<>>
        BY <2>2, <2>4
    <3>2. <<>> \o x = x /\ x \o <<>> = x
        BY ConcatEmptySeq
    <3>3. FlattenSeq(t) = x
        BY <2>3, <2>4, <3>2, FlattenEmpty
    <3>4. QED
        BY <3>1, <3>2, <3>3, FlattenEmpty
  <2>5. CASE u # <<>>
    <3>1. /\ Head(t) = Head(u) /\ Tail(t) = Append(Tail(u), x)
          /\ Head(u) \in Seq(T) /\ Tail(u) \in Seq(Seq(T))
        BY <2>2, <2>5
    <3>2. FlattenSeq(u) = Head(u) \o FlattenSeq(Tail(u))
        BY <1>2, <2>3, <2>5
    <3>3. /\ FlattenSeq(Tail(u)) \in Seq(T)
          /\ FlattenSeq(Tail(t)) = FlattenSeq(Tail(u)) \o x
        BY <3>1, FlattenType, FlattenAppend
    <3>4. \A a, b \in Seq(T) : (a \o b) \o x = a \o (b \o x)
        BY ConcatAssociative
    <3>5. QED
        BY <2>3, <3>1, <3>2, <3>3, <3>4
  <2>6. QED
      BY <2>4, <2>5
<1> HIDE DEF S, Holds
<1>3. Len(s) \in S
    BY <1>1, <1>2, NatSetInduction
<1>4. QED
    BY <1>3 DEF S, Holds

-----------------------------------------------------------------------------
(* How many members of a sequence are in a set.                            *)
PlacesIn(s, S) == {n \in DOMAIN s : s[n] \in S}
CountIn(s, S) == Cardinality(PlacesIn(s, S))

LEMMA PlacesFinite ==
  ASSUME NEW T, NEW s \in Seq(T), NEW S
  PROVE  IsFiniteSet(PlacesIn(s, S)) /\ CountIn(s, S) \in Nat
<1>1. PlacesIn(s, S) \subseteq 1 .. Len(s) /\ 1 \in Int /\ Len(s) \in Int
    BY DEF PlacesIn
<1>2. IsFiniteSet(1 .. Len(s))
    BY <1>1, FS_Interval
<1>3. IsFiniteSet(PlacesIn(s, S))
    BY <1>1, <1>2, FS_Subset
<1>4. QED
    BY <1>3, FS_CardinalityType DEF CountIn

LEMMA CountEmpty == ASSUME NEW S PROVE CountIn(<<>>, S) = 0
<1>1. PlacesIn(<<>>, S) = {}
    BY DEF PlacesIn
<1>2. QED
    BY <1>1, FS_EmptySet DEF CountIn

LEMMA CountAppend ==
  ASSUME NEW T, NEW s \in Seq(T), NEW x \in T, NEW S
  PROVE  CountIn(Append(s, x), S) = CountIn(s, S) + (IF x \in S THEN 1 ELSE 0)
<1> DEFINE n == Len(s) + 1
           P == PlacesIn(s, S)
<1>1. n \notin P /\ IsFiniteSet(P) /\ Cardinality(P) = CountIn(s, S) /\ CountIn(s, S) \in Nat
  <2>1. n \notin P
      BY DEF PlacesIn
  <2> HIDE DEF n
  <2>2. QED
      BY <2>1, PlacesFinite DEF CountIn
<1>2. PlacesIn(Append(s, x), S) = IF x \in S THEN P \cup {n} ELSE P
    BY AppendProperties DEF PlacesIn
<1> HIDE DEF n, P
<1>3. Cardinality(P \cup {n}) = CountIn(s, S) + 1
    BY <1>1, FS_AddElement
<1>4. QED
    BY <1>1, <1>2, <1>3 DEF CountIn

(* Without the first member.                                               *)
LEMMA CountTail ==
  ASSUME NEW T, NEW s \in Seq(T), s # <<>>, NEW S
  PROVE  CountIn(s, S) = CountIn(Tail(s), S) + (IF Head(s) \in S THEN 1 ELSE 0)
<1> DEFINE Holds(t) ==
             t # <<>> => CountIn(t, S) = CountIn(Tail(t), S) + (IF Head(t) \in S THEN 1 ELSE 0)
           Lens == {n \in Nat : \A t \in Seq(T) : Len(t) = n => Holds(t)}
<1>1. 0 \in Lens
    BY EmptySeq
<1>2. ASSUME NEW n \in Nat, n \in Lens PROVE n + 1 \in Lens
  <2>1. SUFFICES ASSUME NEW t \in Seq(T), Len(t) = n + 1 PROVE Holds(t)
      OBVIOUS
  <2>2. PICK u \in Seq(T), x \in T : t = Append(u, x)
    <3>1. t # <<>>
        BY <2>1, EmptySeq
    <3>2. QED
        BY <3>1, SequenceEmptyOrAppend
  <2>3. /\ Len(u) = n /\ CountIn(u, S) \in Nat
        /\ CountIn(t, S) = CountIn(u, S) + (IF x \in S THEN 1 ELSE 0)
      BY <2>1, <2>2, CountAppend, PlacesFinite
  <2>4. CASE u = <<>>
    <3>1. Head(t) = x /\ Tail(t) = <<>>
        BY <2>2, <2>4
    <3>2. QED
        BY <2>3, <2>4, <3>1
  <2>5. CASE u # <<>>
    <3>1. Head(t) = Head(u) /\ Tail(t) = Append(Tail(u), x) /\ Tail(u) \in Seq(T)
        BY <2>2, <2>5
    <3>2. CountIn(u, S) = CountIn(Tail(u), S) + (IF Head(u) \in S THEN 1 ELSE 0)
        BY <1>2, <2>3, <2>5
    <3>3. /\ CountIn(Tail(t), S) = CountIn(Tail(u), S) + (IF x \in S THEN 1 ELSE 0)
          /\ CountIn(Tail(u), S) \in Nat
        BY <3>1, CountAppend, PlacesFinite
    <3>4. QED
        BY <2>3, <3>1, <3>2, <3>3
  <2>6. QED
      BY <2>4, <2>5
<1> HIDE DEF Lens, Holds
<1>3. Len(s) \in Lens
    BY <1>1, <1>2, NatSetInduction
<1>4. QED
    BY <1>3 DEF Lens, Holds

(* With a member replaced.                                                 *)
LEMMA CountExcept ==
  ASSUME NEW T, NEW s \in Seq(T), NEW n \in 1 .. Len(s), NEW x \in T, NEW S
  PROVE  LET t == [s EXCEPT ![n] = x]
         IN  /\ t \in Seq(T) /\ CountIn(t, S) <= CountIn(s, S) + 1
             /\ (x \in S => s[n] \in S) => CountIn(t, S) <= CountIn(s, S)
<1> DEFINE t == [s EXCEPT ![n] = x]
           P == PlacesIn(s, S)
<1>1. t \in Seq(T) /\ DOMAIN t = DOMAIN s
    BY ExceptSeq
<1>2. \A k \in DOMAIN s : t[k] = IF k = n THEN x ELSE s[k]
    OBVIOUS
<1> HIDE DEF t
<1>3. /\ PlacesIn(t, S) \subseteq P \cup {n}
      /\ (x \in S => s[n] \in S) => PlacesIn(t, S) \subseteq P
    BY <1>1, <1>2 DEF PlacesIn
<1>4. IsFiniteSet(P) /\ Cardinality(P) \in Nat
    BY PlacesFinite DEF CountIn
<1> HIDE DEF P
<1>5. IsFiniteSet(P \cup {n}) /\ Cardinality(P \cup {n}) <= Cardinality(P) + 1
  <2>1. /\ IsFiniteSet(P \cup {n})
        /\ Cardinality(P \cup {n}) = IF n \in P THEN Cardinality(P) ELSE Cardinality(P) + 1
      BY <1>4, FS_AddElement
  <2>2. QED
      BY <1>4, <2>1
<1>6. /\ Cardinality(PlacesIn(t, S)) <= Cardinality(P \cup {n})
      /\ (x \in S => s[n] \in S) => Cardinality(PlacesIn(t, S)) <= Cardinality(P)
    BY <1>3, <1>4, <1>5, FS_Subset
<1>7. CountIn(t, S) \in Nat
    BY <1>1, PlacesFinite
<1>8. Cardinality(P \cup {n}) \in Nat
    BY <1>5, FS_CardinalityType
<1>9. QED
    BY <1>1, <1>4, <1>5, <1>6, <1>7, <1>8 DEF CountIn, P, t

-----------------------------------------------------------------------------
(* What a function gives for the members of a sequence, joined.            *)
Joined(f, s) == FlattenSeq([n \in DOMAIN s |-> f[s[n]]])

LEMMA MappedTyped ==
  ASSUME NEW S, NEW T, NEW f \in [S -> T], NEW s \in Seq(S)
  PROVE  [n \in DOMAIN s |-> f[s[n]]] \in Seq(T)
<1>1. \A n \in DOMAIN s : s[n] \in S
    BY ElementOfSeq
<1>2. DOMAIN s = 1 .. Len(s) /\ Len(s) \in Nat
    OBVIOUS
<1>3. QED
    BY <1>1, <1>2

LEMMA MappedAppend ==
  ASSUME NEW S, NEW T, NEW f \in [S -> T], NEW s \in Seq(S), NEW x \in S
  PROVE  [n \in DOMAIN Append(s, x) |-> f[Append(s, x)[n]]]
           = Append([n \in DOMAIN s |-> f[s[n]]], f[x])
<1> DEFINE a == Append(s, x)
           m == [n \in DOMAIN s |-> f[s[n]]]
           k == [n \in DOMAIN a |-> f[a[n]]]
<1>1. /\ a \in Seq(S) /\ Len(a) = Len(s) + 1 /\ a[Len(s) + 1] = x
      /\ \A n \in 1 .. Len(s) : a[n] = s[n]
    BY AppendProperties
<1> HIDE DEF a
<1>2. m \in Seq(T) /\ k \in Seq(T) /\ f[x] \in T
    BY <1>1, MappedTyped
<1>3. /\ Len(m) = Len(s) /\ \A n \in 1 .. Len(s) : m[n] = f[s[n]]
    OBVIOUS
<1>4. Len(k) = Len(s) + 1 /\ \A n \in 1 .. Len(s) + 1 : k[n] = f[a[n]]
    BY <1>1
<1> HIDE DEF m, k
<1> DEFINE b == Append(m, f[x])
<1>5. /\ b \in Seq(T) /\ Len(b) = Len(s) + 1 /\ b[Len(s) + 1] = f[x]
      /\ \A n \in 1 .. Len(s) : b[n] = m[n]
    BY <1>2, <1>3, AppendProperties
<1> HIDE DEF b
<1>6. \A n \in 1 .. Len(s) + 1 : k[n] = b[n]
  <2>1. ASSUME NEW n \in 1 .. Len(s) + 1 PROVE k[n] = b[n]
    <3>1. CASE n = Len(s) + 1
        BY <1>1, <1>4, <1>5, <3>1
    <3>2. CASE n \in 1 .. Len(s)
        BY <1>1, <1>3, <1>4, <1>5, <3>2
    <3>3. QED
        BY <3>1, <3>2
  <2>2. QED
      BY <2>1
<1>7. k = b
    BY <1>2, <1>4, <1>5, <1>6, SeqEqual
<1>8. QED
    BY <1>7 DEF a, b, k, m

LEMMA MappedTail ==
  ASSUME NEW S, NEW T, NEW f \in [S -> T], NEW s \in Seq(S), s # <<>>
  PROVE  LET m == [n \in DOMAIN s |-> f[s[n]]]
         IN  /\ m # <<>> /\ Head(m) = f[Head(s)]
             /\ Tail(m) = [n \in DOMAIN Tail(s) |-> f[Tail(s)[n]]]
<1> DEFINE m == [n \in DOMAIN s |-> f[s[n]]]
           t == Tail(s)
           k == [n \in DOMAIN t |-> f[t[n]]]
<1>1. /\ t \in Seq(S) /\ Len(t) = Len(s) - 1 /\ Len(s) \in Nat /\ Len(s) > 0
      /\ \A n \in 1 .. Len(t) : t[n] = s[n + 1]
    BY HeadTailProperties, EmptySeq
<1> HIDE DEF t
<1>2. m \in Seq(T) /\ k \in Seq(T)
  <2>1. m \in Seq(T)
      BY MappedTyped
  <2>2. k \in Seq(T)
      BY <1>1, MappedTyped
  <2>3. QED
      BY <2>1, <2>2
<1>3. Len(m) = Len(s) /\ \A n \in 1 .. Len(s) : m[n] = f[s[n]]
    OBVIOUS
<1>4. Len(k) = Len(s) - 1 /\ \A n \in 1 .. Len(k) : k[n] = f[t[n]]
    BY <1>1
<1> HIDE DEF m, k
<1>5. m # <<>> /\ Head(m) = f[Head(s)]
    BY <1>1, <1>2, <1>3
<1> DEFINE b == Tail(m)
<1>6. b \in Seq(T) /\ Len(b) = Len(s) - 1 /\ \A n \in 1 .. Len(b) : b[n] = m[n + 1]
    BY <1>2, <1>3, <1>5, HeadTailProperties
<1> HIDE DEF b
<1>7. \A n \in 1 .. Len(k) : k[n] = b[n]
  <2>1. ASSUME NEW n \in 1 .. Len(k) PROVE k[n] = b[n]
    <3>1. n + 1 \in 1 .. Len(s) /\ n \in 1 .. Len(t) /\ n \in 1 .. Len(b)
        BY <1>1, <1>4, <1>6
    <3>2. QED
        BY <1>1, <1>3, <1>4, <1>6, <3>1
  <2>2. QED
      BY <2>1
<1>8. k = b
    BY <1>2, <1>4, <1>6, <1>7, SeqEqual
<1>9. QED
    BY <1>5, <1>8 DEF b, k, m, t

LEMMA JoinedTyped ==
  ASSUME NEW S, NEW T, NEW f \in [S -> Seq(T)], NEW s \in Seq(S)
  PROVE  Joined(f, s) \in Seq(T)
<1> DEFINE m == [n \in DOMAIN s |-> f[s[n]]]
<1>1. m \in Seq(Seq(T))
  <2> DEFINE U == Seq(T)
  <2>1. f \in [S -> U]
      OBVIOUS
  <2> HIDE DEF U
  <2>2. m \in Seq(U)
      BY <2>1, MappedTyped
  <2>3. QED
      BY <2>2 DEF U
<1> HIDE DEF m
<1>2. FlattenSeq(m) \in Seq(T)
    BY <1>1, FlattenType
<1>3. QED
    BY <1>2 DEF Joined, m

LEMMA JoinedEmpty == ASSUME NEW f PROVE Joined(f, <<>>) = <<>>
<1>1. [n \in DOMAIN <<>> |-> f[<<>>[n]]] = <<>>
    OBVIOUS
<1>2. QED
    BY <1>1, FlattenEmpty DEF Joined

LEMMA JoinedAppend ==
  ASSUME NEW S, NEW T, NEW f \in [S -> Seq(T)], NEW s \in Seq(S), NEW x \in S
  PROVE  Joined(f, Append(s, x)) = Joined(f, s) \o f[x]
<1> DEFINE m == [n \in DOMAIN s |-> f[s[n]]]
<1>0. PICK U : U = Seq(T)
    OBVIOUS
<1>1. f \in [S -> U]
    BY <1>0
<1>2. /\ m \in Seq(U) /\ f[x] \in U
      /\ [n \in DOMAIN Append(s, x) |-> f[Append(s, x)[n]]] = Append(m, f[x])
  <2>1. m \in Seq(U)
    <3> HIDE DEF m
    <3>1. \A t \in Seq(S) : [n \in DOMAIN t |-> f[t[n]]] \in Seq(U)
        BY <1>1, MappedTyped
    <3>2. QED
        BY <3>1 DEF m
  <2>2. [n \in DOMAIN Append(s, x) |-> f[Append(s, x)[n]]] = Append(m, f[x])
      BY <1>1, MappedAppend
  <2>3. QED
      BY <1>1, <2>1, <2>2
<1> HIDE DEF m
<1>3. m \in Seq(Seq(T)) /\ f[x] \in Seq(T)
    BY <1>0, <1>2
<1>4. FlattenSeq(Append(m, f[x])) = FlattenSeq(m) \o f[x]
    BY <1>3, FlattenType, FlattenAppend
<1>5. QED
    BY <1>2, <1>4 DEF Joined, m

LEMMA JoinedTail ==
  ASSUME NEW S, NEW T, NEW f \in [S -> Seq(T)], NEW s \in Seq(S), s # <<>>
  PROVE  Joined(f, s) = f[Head(s)] \o Joined(f, Tail(s))
<1> DEFINE m == [n \in DOMAIN s |-> f[s[n]]]
<1>0. PICK U : U = Seq(T)
    OBVIOUS
<1>1. f \in [S -> U]
    BY <1>0
<1>2. /\ m \in Seq(U) /\ m # <<>> /\ Head(m) = f[Head(s)]
      /\ Tail(m) = [n \in DOMAIN Tail(s) |-> f[Tail(s)[n]]]
  <2>1. m \in Seq(U)
      BY <1>1, MappedTyped
  <2>2. /\ m # <<>> /\ Head(m) = f[Head(s)]
        /\ Tail(m) = [n \in DOMAIN Tail(s) |-> f[Tail(s)[n]]]
      BY <1>1, MappedTail
  <2>3. QED
      BY <2>1, <2>2
<1> HIDE DEF m
<1>3. m \in Seq(Seq(T))
    BY <1>0, <1>2
<1>4. FlattenSeq(m) = Head(m) \o FlattenSeq(Tail(m))
    BY <1>2, <1>3, FlattenTail
<1>5. QED
    BY <1>2, <1>4 DEF Joined, m

(* Only what the functions give for the members matters.                   *)
LEMMA JoinedSame ==
  ASSUME NEW f, NEW g, NEW s, \A n \in DOMAIN s : f[s[n]] = g[s[n]]
  PROVE  Joined(f, s) = Joined(g, s)
<1>1. [n \in DOMAIN s |-> f[s[n]]] = [n \in DOMAIN s |-> g[s[n]]]
    OBVIOUS
<1>2. QED
    BY <1>1 DEF Joined

-----------------------------------------------------------------------------
(* Types of the monitor.                                                   *)

OpKinds == {"CREATE", "WRITE", "CLOSE", "CHMOD", "DELETE", "RENAME"}
Ops == [op : OpKinds, inode : Inodes, path : Paths, to : Paths \cup {Nowhere}]
LogLines ==
  [type : Types, inode : Inodes \cup {Nowhere}, path : Paths,
   to : Paths \cup {Nowhere}, md5Empty : BOOLEAN]

Histories == ops \in Seq(Ops) /\ logged \in Seq(LogLines)

(* What the monitor is about to handle is there.                           *)
BatchesThere ==
  /\ step = "fan" => fanBatch # <<>> /\ (inReady => inQueue # <<>>)
  /\ step = "ino" => inBatch # <<>>

MonitorTyped == MonitorTypeOK /\ Histories /\ BatchesThere

FilesTyped ==
  /\ at \in [Inodes -> Paths \cup {Nowhere}]
  /\ \A i, j \in Inodes : at[i] = at[j] /\ at[i] # Nowhere => i = j
  /\ open \subseteq Pids \X Inodes
  /\ \A o \in open : at[o[2]] # Nowhere

MoreTyped ==
  /\ Len(ops) <= MaxOps
  /\ fanQueue \in Seq(FanEvents) /\ fanBatch \in Seq(FanEvents)
  /\ inQueue \in Seq(InEvents) /\ inBatch \in Seq(InEvents)
  /\ step \in {"poll", "fan", "ino", "done"}
  /\ fanBatch # <<>> => step = "fan"
  /\ inBatch # <<>> => step = "ino"
  /\ inReady \in BOOLEAN
  /\ recent \subseteq Numbers
  /\ renameMap \in SUBSET (Nat \X Paths)
  /\ \A m, n \in renameMap : m[1] = n[1] => m = n
  /\ \A n \in DOMAIN logged : logged[n].type \in Types

LEMMA TypedParts == MonitorTypeOK <=> FilesTyped /\ MoreTyped
    BY DEF MonitorTypeOK, FilesTyped, MoreTyped

LEMMA TypedPartsPrimed == MonitorTypeOK' <=> FilesTyped' /\ MoreTyped'
    BY DEF MonitorTypeOK, FilesTyped, MoreTyped

LEMMA LinesHaveTypes ==
  ASSUME NEW l \in LogLines PROVE l.type \in Types
    BY DEF LogLines

LEMMA OpMade ==
  ASSUME NEW op \in OpKinds, NEW i \in Inodes, NEW p \in Paths, NEW q \in Paths \cup {Nowhere}
  PROVE  LET o == [op |-> op, inode |-> i, path |-> p, to |-> q]
         IN  o \in Ops /\ o.op = op /\ o.inode = i /\ o.path = p /\ o.to = q
    BY DEF Ops

LEMMA EventMade ==
  ASSUME NEW kind \in {"CREATE", "DELETE", "FROM", "TO"}, NEW p \in Paths, NEW c \in 0 .. MaxOps
  PROVE  LET e == [kind |-> kind, path |-> p, cookie |-> c]
         IN  e \in InEvents /\ e.kind = kind /\ e.path = p /\ e.cookie = c
    BY DEF InEvents

LEMMA LogLineMade ==
  ASSUME NEW type \in Types, NEW i \in Inodes \cup {Nowhere}, NEW p \in Paths,
         NEW q \in Paths \cup {Nowhere}
  PROVE  LET l == Line(type, i, p, q)
         IN  l \in LogLines /\ l.type = type /\ l.inode = i /\ l.path = p /\ l.to = q
<1>1. Md5Empty(p) \in BOOLEAN /\ Md5Empty(q) \in BOOLEAN
    BY DEF Md5Empty, Free
<1>2. (IF type = "RENAME" THEN Md5Empty(q) ELSE type # "DELETE" /\ Md5Empty(p)) \in BOOLEAN
    BY <1>1
<1>3. QED
    BY <1>2 DEF Line, LogLines

LEMMA WatchedTyped ==
  ASSUME NEW e \in InEvents
  PROVE  Watched(e) \in Seq(InEvents)
    BY DEF Watched

(* An operation is recorded.                                               *)
LEMMA DidTyped ==
  ASSUME Histories, NEW op \in OpKinds, NEW i \in Inodes, NEW p \in Paths,
         NEW q \in Paths \cup {Nowhere}, Did(op, i, p, q)
  PROVE  \E o \in Ops :
           /\ o.op = op /\ o.inode = i /\ o.path = p /\ o.to = q
           /\ ops' = Append(ops, o) /\ ops' \in Seq(Ops)
           /\ Len(ops') <= MaxOps /\ Len(ops) + 1 \in 0 .. MaxOps
<1> DEFINE o == [op |-> op, inode |-> i, path |-> p, to |-> q]
<1>1. o \in Ops /\ o.op = op /\ o.inode = i /\ o.path = p /\ o.to = q
    BY OpMade
<1>2. ops' = Append(ops, o) /\ Len(ops) < MaxOps
    BY DEF Did
<1> HIDE DEF o
<1>3. ops' \in Seq(Ops) /\ Len(ops') = Len(ops) + 1 /\ Len(ops) \in Nat
    BY <1>1, <1>2, AppendProperties DEF Histories
<1>4. QED
    BY <1>1, <1>2, <1>3, MaxOpsAssumption

(* Events are queued for inotify.                                          *)
LEMMA NotifyTyped ==
  ASSUME inQueue \in Seq(InEvents), NEW events \in Seq(InEvents), Notify(events)
  PROVE  inQueue' \in Seq(InEvents) /\ (inQueue # <<>> => inQueue' # <<>>)
<1>1. inQueue' \in Seq(InEvents) /\ Len(inQueue') = Len(inQueue) + Len(events)
    BY ConcatProperties DEF Notify
<1>2. QED
    BY <1>1

(* An event is queued for fanotify or merged into a queued one: at most    *)
(* one more event of the inode has the bit, and no other event changes.    *)
EventsOf(bit, is) == {e \in FanEvents : e.inode \in is /\ bit \in e.mask}

LEMMA FanEventMade ==
  ASSUME NEW i \in Inodes, NEW pid \in Pids, NEW mask \in (SUBSET FanBits) \ {{}}
  PROVE  LET e == [inode |-> i, pid |-> pid, mask |-> mask]
         IN  e \in FanEvents /\ e.inode = i /\ e.mask = mask
    BY DEF FanEvents

LEMMA EventWithMask ==
  ASSUME NEW e \in FanEvents, NEW bit \in FanBits
  PROVE  LET f == [e EXCEPT !.mask = @ \cup {bit}]
         IN  f \in FanEvents /\ f.inode = e.inode /\ f.mask = e.mask \cup {bit}
    BY DEF FanEvents

LEMMA MarkTyped ==
  ASSUME fanQueue \in Seq(FanEvents), NEW pid \in Pids, NEW i \in Inodes,
         NEW bit \in FanBits, Mark(pid, i, bit)
  PROVE  /\ fanQueue' \in Seq(FanEvents)
         /\ \A b \in FanBits : \A js :
              CountIn(fanQueue', EventsOf(b, js))
                <= CountIn(fanQueue, EventsOf(b, js)) + (IF b = bit /\ i \in js THEN 1 ELSE 0)
<1> DEFINE same == {n \in DOMAIN fanQueue : fanQueue[n].inode = i /\ fanQueue[n].pid = pid}
           new == [inode |-> i, pid |-> pid, mask |-> {bit}]
<1>0. \A b, js : CountIn(fanQueue, EventsOf(b, js)) \in Nat
    BY PlacesFinite
<1>1. CASE fanQueue' = fanQueue
    BY <1>0, <1>1
<1>2. CASE fanQueue' = Append(fanQueue, new)
  <2>1. new \in FanEvents /\ new.inode = i /\ new.mask = {bit}
      BY FanEventMade
  <2> HIDE DEF new
  <2>2. fanQueue' \in Seq(FanEvents)
      BY <1>2, <2>1, AppendProperties
  <2>3. ASSUME NEW b \in FanBits, NEW js
        PROVE  CountIn(fanQueue', EventsOf(b, js))
                 <= CountIn(fanQueue, EventsOf(b, js)) + (IF b = bit /\ i \in js THEN 1 ELSE 0)
    <3>1. new \in EventsOf(b, js) <=> b = bit /\ i \in js
        BY <2>1 DEF EventsOf
    <3>2. CountIn(fanQueue', EventsOf(b, js))
            = CountIn(fanQueue, EventsOf(b, js)) + (IF new \in EventsOf(b, js) THEN 1 ELSE 0)
        BY <1>2, <2>1, CountAppend
    <3>3. QED
        BY <1>0, <3>1, <3>2
  <2>4. QED
      BY <2>2, <2>3
<1>3. CASE \E n \in same : fanQueue' = [fanQueue EXCEPT ![n].mask = @ \cup {bit}]
  <2>1. PICK n \in same : fanQueue' = [fanQueue EXCEPT ![n].mask = @ \cup {bit}]
      BY <1>3
  <2> DEFINE f == [fanQueue[n] EXCEPT !.mask = @ \cup {bit}]
  <2>2. n \in 1 .. Len(fanQueue) /\ fanQueue[n] \in FanEvents /\ fanQueue[n].inode = i
      BY ElementOfSeq
  <2>3. f \in FanEvents /\ f.inode = i /\ f.mask = fanQueue[n].mask \cup {bit}
      BY <2>2, EventWithMask
  <2>4. fanQueue' = [fanQueue EXCEPT ![n] = f]
      BY <2>1
  <2> HIDE DEF f
  <2>5. fanQueue' \in Seq(FanEvents)
      BY <2>2, <2>3, <2>4, ExceptSeq
  <2>6. ASSUME NEW b \in FanBits, NEW js
        PROVE  CountIn(fanQueue', EventsOf(b, js))
                 <= CountIn(fanQueue, EventsOf(b, js)) + (IF b = bit /\ i \in js THEN 1 ELSE 0)
    <3>1. CASE b = bit /\ i \in js
        BY <2>2, <2>3, <2>4, <3>1, CountExcept
    <3>2. CASE ~(b = bit /\ i \in js)
      <4>1. f \in EventsOf(b, js) => fanQueue[n] \in EventsOf(b, js)
          BY <2>2, <2>3, <3>2 DEF EventsOf
      <4>2. CountIn(fanQueue', EventsOf(b, js)) <= CountIn(fanQueue, EventsOf(b, js))
          BY <2>2, <2>3, <2>4, <4>1, CountExcept
      <4>3. QED
          BY <1>0, <3>2, <4>2
    <3>3. QED
        BY <3>1, <3>2
  <2>7. QED
      BY <2>5, <2>6
<1>4. QED
    BY <1>1, <1>2, <1>3 DEF Mark

(* What the lines tell of directory entries.                               *)
Entries == Types \X Paths \X (Paths \cup {Nowhere})
EntriesOf == [l \in LogLines |-> EntryOf(l)]

LEMMA NoneOrOne == ASSUME NEW T, NEW x \in T PROVE <<x>> \in Seq(T) /\ <<>> \in Seq(T)
    OBVIOUS

LEMMA EntriesTyped == EntriesOf \in [LogLines -> Seq(Entries)]
<1>1. ASSUME NEW l \in LogLines PROVE EntryOf(l) \in Seq(Entries)
  <2>1. <<l.type, l.path, l.to>> \in Entries
      BY DEF LogLines, Entries
  <2>2. EntryOf(l) = <<>> \/ EntryOf(l) = <<<<l.type, l.path, l.to>>>>
      BY DEF EntryOf
  <2>3. <<<<l.type, l.path, l.to>>>> \in Seq(Entries) /\ <<>> \in Seq(Entries)
      BY <2>1, NoneOrOne
  <2> HIDE DEF Entries
  <2>4. QED
      BY <2>2, <2>3
<1>2. QED
    BY <1>1 DEF EntriesOf

(* A line about a file's content tells nothing of the entries.             *)
LEMMA LineJoined ==
  ASSUME NEW s \in Seq(LogLines), NEW l \in LogLines
  PROVE  /\ Joined(EntriesOf, Append(s, l)) = Joined(EntriesOf, s) \o EntryOf(l)
         /\ l.type \in {"MODIFY", "ATTRIB"}
              => Joined(EntriesOf, Append(s, l)) = Joined(EntriesOf, s)
<1>1. Joined(EntriesOf, Append(s, l)) = Joined(EntriesOf, s) \o EntriesOf[l]
    BY EntriesTyped, JoinedAppend
<1>2. EntriesOf[l] = EntryOf(l)
    BY DEF EntriesOf
<1>3. l.type \in {"MODIFY", "ATTRIB"} => EntryOf(l) = <<>>
    BY DEF EntryOf
<1>4. Joined(EntriesOf, s) \o <<>> = Joined(EntriesOf, s)
    BY EntriesTyped, JoinedTyped, ConcatEmptySeq
<1>5. QED
    BY <1>1, <1>2, <1>3, <1>4

-----------------------------------------------------------------------------
(* What processes do.                                                      *)

LEMMA NowhereNoPath == Nowhere \notin Paths
    BY PathsAssumption

(* What each operation does to the files and to the histories; events are  *)
(* what it gives to inotify.                                               *)
DidOp(op, i, p, q, o) ==
  /\ o \in Ops /\ o.op = op /\ o.inode = i /\ o.path = p /\ o.to = q
  /\ ops' = Append(ops, o) /\ ops' \in Seq(Ops) /\ Len(ops') <= MaxOps
  /\ Len(ops) + 1 \in 0 .. MaxOps

(* A step of a process leaves everything typed that leaves the files typed *)
(* and puts typed events into the queues.                                  *)
LEMMA UserFrame ==
  ASSUME MonitorTyped, FilesTyped', ops' \in Seq(Ops), Len(ops') <= MaxOps,
         fanQueue' \in Seq(FanEvents), inQueue' \in Seq(InEvents),
         inQueue # <<>> => inQueue' # <<>>, UNCHANGED monitor
  PROVE  MonitorTyped'
<1>1. UNCHANGED <<step, fanBatch, inBatch, inReady, recent, renameMap, logged>>
    BY DEF monitor
<1>2. MoreTyped' /\ MonitorTypeOK'
    BY <1>1, TypedParts, TypedPartsPrimed DEF MonitorTyped, MoreTyped
<1>3. Histories' /\ BatchesThere'
    BY <1>1 DEF MonitorTyped, Histories, BatchesThere
<1>4. QED
    BY <1>2, <1>3 DEF MonitorTyped

LEMMA CreateTyped ==
  ASSUME MonitorTyped, NEW pid \in Pids, NEW i \in Inodes, NEW p \in Paths, Create(pid, i, p)
  PROVE  /\ MonitorTyped'
         /\ \E o \in Ops : DidOp("CREATE", i, p, Nowhere, o)
<1>1. /\ Free(p) /\ at' = [at EXCEPT ![i] = p]
      /\ open' = open \cup {<<pid, i>>} /\ Did("CREATE", i, p, Nowhere)
      /\ Notify(Watched([kind |-> "CREATE", path |-> p, cookie |-> 0]))
      /\ UNCHANGED <<fanQueue, monitor>>
    BY DEF Create
<1>2. PICK o \in Ops : DidOp("CREATE", i, p, Nowhere, o)
    BY <1>1, DidTyped DEF MonitorTyped, DidOp, OpKinds
<1>3. FilesTyped'
  <2>1. FilesTyped
      BY TypedParts DEF MonitorTyped
  <2>2. at'[i] = p /\ p # Nowhere /\ \A j \in Inodes : j # i => at'[j] = at[j] /\ at[j] # p
      BY <1>1, <2>1, NowhereNoPath DEF FilesTyped, Free
  <2>3. at' \in [Inodes -> Paths \cup {Nowhere}]
      BY <1>1, <2>1 DEF FilesTyped
  <2>4. \A j, k \in Inodes : at'[j] = at'[k] /\ at'[j] # Nowhere => j = k
      BY <2>1, <2>2 DEF FilesTyped
  <2>5. open' \subseteq Pids \X Inodes /\ \A x \in open' : at'[x[2]] # Nowhere
    <3>1. ASSUME NEW x \in open' PROVE x \in Pids \X Inodes /\ at'[x[2]] # Nowhere
      <4>1. CASE x = <<pid, i>>
          BY <4>1, <2>2
      <4>2. CASE x \in open
          BY <4>2, <2>1, <2>2 DEF FilesTyped
      <4>3. QED
          BY <1>1, <4>1, <4>2
    <3>2. QED
        BY <3>1
  <2>6. QED
      BY <2>3, <2>4, <2>5 DEF FilesTyped
<1>4. inQueue' \in Seq(InEvents) /\ (inQueue # <<>> => inQueue' # <<>>)
  <2>1. 0 \in 0 .. MaxOps
      BY MaxOpsAssumption
  <2>2. QED
      BY <1>1, <2>1, EventMade, WatchedTyped, NotifyTyped DEF MonitorTyped, MonitorTypeOK
<1>5. fanQueue' \in Seq(FanEvents) /\ UNCHANGED monitor
    BY <1>1 DEF MonitorTyped, MonitorTypeOK
<1>6. QED
    BY <1>2, <1>3, <1>4, <1>5, UserFrame DEF DidOp

(* Writes, closes and permission changes only differ in what they do to    *)
(* open.                                                                   *)
LEMMA ContentOpTyped ==
  ASSUME MonitorTyped, NEW pid \in Pids, NEW i \in Inodes, NEW op \in {"WRITE", "CLOSE", "CHMOD"},
         NEW bit \in FanBits, at[i] # Nowhere, Did(op, i, at[i], Nowhere), Mark(pid, i, bit),
         \/ open' = open \cup {<<pid, i>>} \/ open' = open \ {<<pid, i>>} \/ open' = open,
         UNCHANGED <<at, inQueue, monitor>>
  PROVE  /\ MonitorTyped'
         /\ \E o \in Ops : DidOp(op, i, at[i], Nowhere, o)
<1>1. FilesTyped /\ at[i] \in Paths
  <2>1. FilesTyped
      BY TypedParts DEF MonitorTyped
  <2>2. QED
      BY <2>1 DEF FilesTyped
<1>2. PICK o \in Ops : DidOp(op, i, at[i], Nowhere, o)
    BY <1>1, DidTyped DEF MonitorTyped, DidOp, OpKinds
<1>3. FilesTyped'
  <2>1. open' \subseteq Pids \X Inodes /\ \A x \in open' : at'[x[2]] # Nowhere
    <3>1. ASSUME NEW x \in open' PROVE x \in Pids \X Inodes /\ at'[x[2]] # Nowhere
      <4>1. CASE x = <<pid, i>>
          BY <4>1
      <4>2. CASE x \in open
          BY <4>2, <1>1 DEF FilesTyped
      <4>3. QED
          BY <4>1, <4>2
    <3>2. QED
        BY <3>1
  <2>2. QED
      BY <1>1, <2>1 DEF FilesTyped
<1>4. fanQueue' \in Seq(FanEvents)
    BY MarkTyped DEF MonitorTyped, MonitorTypeOK
<1>5. inQueue' \in Seq(InEvents) /\ (inQueue # <<>> => inQueue' # <<>>) /\ UNCHANGED monitor
    BY DEF MonitorTyped, MonitorTypeOK
<1>6. QED
    BY <1>2, <1>3, <1>4, <1>5, UserFrame DEF DidOp

LEMMA UnlinkTyped ==
  ASSUME MonitorTyped, NEW i \in Inodes, Unlink(i)
  PROVE  /\ MonitorTyped' /\ at[i] \in Paths
         /\ \E o \in Ops : DidOp("DELETE", i, at[i], Nowhere, o)
<1>1. /\ at[i] # Nowhere /\ Closed(i) /\ at' = [at EXCEPT ![i] = Nowhere]
      /\ Did("DELETE", i, at[i], Nowhere)
      /\ Notify(Watched([kind |-> "DELETE", path |-> at[i], cookie |-> 0]))
      /\ UNCHANGED <<open, fanQueue, monitor>>
    BY DEF Unlink
<1>2. FilesTyped
    BY TypedParts DEF MonitorTyped
<1>3. at[i] \in Paths
    BY <1>1, <1>2 DEF FilesTyped
<1>4. PICK o \in Ops : DidOp("DELETE", i, at[i], Nowhere, o)
    BY <1>1, <1>3, DidTyped DEF MonitorTyped, DidOp, OpKinds
<1>5. FilesTyped'
  <2>1. at'[i] = Nowhere /\ \A j \in Inodes : j # i => at'[j] = at[j]
      BY <1>1, <1>2 DEF FilesTyped
  <2>2. \A x \in open' : at'[x[2]] # Nowhere
    <3>1. ASSUME NEW x \in open' PROVE at'[x[2]] # Nowhere
      <4>1. x \in open /\ x \in Pids \X Inodes /\ x[2] # i
          BY <1>1, <1>2 DEF FilesTyped, Closed
      <4>2. QED
          BY <1>2, <2>1, <4>1 DEF FilesTyped
    <3>2. QED
        BY <3>1
  <2>3. at' \in [Inodes -> Paths \cup {Nowhere}] /\ open' = open
      BY <1>1, <1>2 DEF FilesTyped
  <2>4. \A j, k \in Inodes : at'[j] = at'[k] /\ at'[j] # Nowhere => j = k
      BY <1>2, <2>1 DEF FilesTyped
  <2>5. QED
      BY <1>2, <2>2, <2>3, <2>4 DEF FilesTyped
<1>6. inQueue' \in Seq(InEvents) /\ (inQueue # <<>> => inQueue' # <<>>)
  <2>1. 0 \in 0 .. MaxOps
      BY MaxOpsAssumption
  <2>2. QED
      BY <1>1, <1>3, <2>1, EventMade, WatchedTyped, NotifyTyped DEF MonitorTyped, MonitorTypeOK
<1>7. fanQueue' \in Seq(FanEvents) /\ UNCHANGED monitor
    BY <1>1 DEF MonitorTyped, MonitorTypeOK
<1>8. QED
    BY <1>3, <1>4, <1>5, <1>6, <1>7, UserFrame DEF DidOp

LEMMA RenameTyped ==
  ASSUME MonitorTyped, NEW i \in Inodes, NEW q \in Paths, Rename(i, q)
  PROVE  /\ MonitorTyped' /\ at[i] \in Paths
         /\ \E o \in Ops : DidOp("RENAME", i, at[i], q, o)
<1> DEFINE from == [kind |-> "FROM", path |-> at[i], cookie |-> Len(ops) + 1]
           to == [kind |-> "TO", path |-> q, cookie |-> Len(ops) + 1]
<1>1. /\ at[i] # Nowhere /\ at[i] # q /\ \A j \in Inodes : at[j] = q => Closed(j)
      /\ at' = [j \in Inodes |-> IF j = i THEN q ELSE IF at[j] = q THEN Nowhere ELSE at[j]]
      /\ Did("RENAME", i, at[i], q)
      /\ Notify(Watched(from) \o Watched(to))
      /\ UNCHANGED <<open, fanQueue, monitor>>
    BY DEF Rename
<1>2. FilesTyped
    BY TypedParts DEF MonitorTyped
<1>3. at[i] \in Paths
    BY <1>1, <1>2 DEF FilesTyped
<1>4. PICK o \in Ops : DidOp("RENAME", i, at[i], q, o)
    BY <1>1, <1>3, DidTyped DEF MonitorTyped, DidOp, OpKinds
<1>5. FilesTyped'
  <2>1. /\ at'[i] = q /\ q # Nowhere
        /\ \A j \in Inodes : j # i => at'[j] = (IF at[j] = q THEN Nowhere ELSE at[j])
      BY <1>1, NowhereNoPath
  <2>2. \A x \in open' : at'[x[2]] # Nowhere
    <3>1. ASSUME NEW x \in open' PROVE at'[x[2]] # Nowhere
      <4>1. x \in open /\ x \in Pids \X Inodes /\ x[2] \in Inodes /\ at[x[2]] # Nowhere
          BY <1>1, <1>2 DEF FilesTyped
      <4>2. x = <<x[1], x[2]>> /\ x[1] \in Pids
          BY <4>1
      <4>3. at[x[2]] # q
          BY <1>1, <4>1, <4>2 DEF Closed
      <4>4. QED
          BY <2>1, <4>1, <4>3
    <3>2. QED
        BY <3>1
  <2>3. at' \in [Inodes -> Paths \cup {Nowhere}] /\ open' = open
      BY <1>1, <1>2 DEF FilesTyped
  <2>4. \A j, k \in Inodes : at'[j] = at'[k] /\ at'[j] # Nowhere => j = k
      BY <1>2, <2>1 DEF FilesTyped
  <2>5. QED
      BY <1>2, <2>2, <2>3, <2>4 DEF FilesTyped
<1>6. inQueue' \in Seq(InEvents) /\ (inQueue # <<>> => inQueue' # <<>>)
  <2>1. from \in InEvents /\ to \in InEvents
      BY <1>3, <1>4, EventMade DEF DidOp
  <2> HIDE DEF from, to
  <2>2. Watched(from) \o Watched(to) \in Seq(InEvents)
      BY <2>1, WatchedTyped, ConcatProperties
  <2>3. QED
      BY <1>1, <2>2, NotifyTyped DEF MonitorTyped, MonitorTypeOK
<1>7. fanQueue' \in Seq(FanEvents) /\ UNCHANGED monitor
    BY <1>1 DEF MonitorTyped, MonitorTypeOK
<1>8. QED
    BY <1>3, <1>4, <1>5, <1>6, <1>7, UserFrame DEF DidOp

-----------------------------------------------------------------------------
(* What the handlers log.                                                  *)

LinesOf(type, is) == {l \in LogLines : l.type = type /\ l.inode \in is}

LEMMA LogAppend ==
  ASSUME NEW s \in Seq(LogLines), NEW l \in LogLines
  PROVE  /\ s \o <<l>> = Append(s, l) /\ Append(s, l) \in Seq(LogLines)
         /\ Len(Append(s, l)) = Len(s) + 1
         /\ \A type, is : CountIn(Append(s, l), LinesOf(type, is))
                           = CountIn(s, LinesOf(type, is))
                               + (IF l.type = type /\ l.inode \in is THEN 1 ELSE 0)
         /\ l.type \in {"MODIFY", "ATTRIB"}
              => Joined(EntriesOf, Append(s, l)) = Joined(EntriesOf, s)
<1>1. \A type, is : l \in LinesOf(type, is) <=> l.type = type /\ l.inode \in is
    BY DEF LinesOf
<1>2. \A S : CountIn(Append(s, l), S) = CountIn(s, S) + (IF l \in S THEN 1 ELSE 0)
    BY CountAppend
<1>3. s \o <<l>> = Append(s, l) /\ Append(s, l) \in Seq(LogLines)
    BY AppendIsConcat, AppendProperties
<1>4. Len(Append(s, l)) = Len(s) + 1
    BY AppendProperties
<1>5. QED
    BY <1>1, <1>2, <1>3, <1>4, LineJoined

(* A displayed fanotify event takes the number of its inode from recent    *)
(* when it logs a modification; it adds it only if it tells of a write.    *)
LoggedFor(e, isModify, isAttrib) ==
  /\ logged' \in Seq(LogLines)
  /\ Len(logged) <= Len(logged') /\ Len(logged') <= Len(logged) + 2
  /\ Joined(EntriesOf, logged') = Joined(EntriesOf, logged)
  /\ \A is :
       /\ CountIn(logged', LinesOf("MODIFY", is))
            = CountIn(logged, LinesOf("MODIFY", is)) + (IF isModify /\ e.inode \in is THEN 1 ELSE 0)
       /\ CountIn(logged', LinesOf("ATTRIB", is))
            = CountIn(logged, LinesOf("ATTRIB", is)) + (IF isAttrib /\ e.inode \in is THEN 1 ELSE 0)

LEMMA TwoLinesLogged ==
  ASSUME logged \in Seq(LogLines), NEW e \in FanEvents, NEW p \in Paths,
         NEW report \in BOOLEAN, NEW attrib \in BOOLEAN,
         Log((IF report THEN <<Line("MODIFY", e.inode, p, Nowhere)>> ELSE <<>>)
               \o (IF attrib THEN <<Line("ATTRIB", e.inode, p, Nowhere)>> ELSE <<>>))
  PROVE  LoggedFor(e, report, attrib)
<1> DEFINE l == Line("MODIFY", e.inode, p, Nowhere)
           k == Line("ATTRIB", e.inode, p, Nowhere)
<1>1. e.inode \in Inodes
    BY DEF FanEvents
<1>2. /\ l \in LogLines /\ l.type = "MODIFY" /\ l.inode = e.inode
      /\ k \in LogLines /\ k.type = "ATTRIB" /\ k.inode = e.inode
    BY <1>1, LogLineMade DEF Types
<1>3. logged' = logged \o ((IF report THEN <<l>> ELSE <<>>) \o (IF attrib THEN <<k>> ELSE <<>>))
    BY DEF Log
<1> HIDE DEF l, k
<1>4. \A S : CountIn(logged, S) \in Nat
    BY PlacesFinite
<1>5. CASE ~report /\ ~attrib
  <2>1. logged' = logged
      BY <1>3, <1>5, ConcatEmptySeq
  <2>2. QED
      BY <1>4, <1>5, <2>1 DEF LoggedFor
<1>6. CASE report /\ ~attrib
  <2>1. logged' = Append(logged, l)
      BY <1>2, <1>3, <1>6, LogAppend
  <2>2. QED
      BY <1>2, <1>4, <1>6, <2>1, LogAppend DEF LoggedFor
<1>7. CASE ~report /\ attrib
  <2>1. logged' = Append(logged, k)
      BY <1>2, <1>3, <1>7, LogAppend
  <2>2. QED
      BY <1>2, <1>4, <1>7, <2>1, LogAppend DEF LoggedFor
<1>8. CASE report /\ attrib
  <2> DEFINE s == Append(logged, l)
  <2>1. logged' = Append(s, k)
      BY <1>2, <1>3, <1>8
  <2>2. /\ s \in Seq(LogLines) /\ Len(s) = Len(logged) + 1
        /\ \A type, is : CountIn(s, LinesOf(type, is))
                          = CountIn(logged, LinesOf(type, is))
                              + (IF l.type = type /\ l.inode \in is THEN 1 ELSE 0)
        /\ Joined(EntriesOf, s) = Joined(EntriesOf, logged)
      BY <1>2, LogAppend
  <2> HIDE DEF s
  <2>3. /\ logged' \in Seq(LogLines) /\ Len(logged') = Len(s) + 1
        /\ \A type, is : CountIn(logged', LinesOf(type, is))
                          = CountIn(s, LinesOf(type, is))
                              + (IF k.type = type /\ k.inode \in is THEN 1 ELSE 0)
        /\ Joined(EntriesOf, logged') = Joined(EntriesOf, s)
      BY <1>2, <2>1, <2>2, LogAppend
  <2>4. QED
      BY <1>2, <1>4, <1>8, <2>2, <2>3 DEF LoggedFor
<1>9. QED
    BY <1>5, <1>6, <1>7, <1>8

LEMMA FanotifyEffect ==
  ASSUME logged \in Seq(LogLines), recent \in SUBSET Numbers,
         at \in [Inodes -> Paths \cup {Nowhere}],
         NEW e \in FanEvents, NEW keep \in SUBSET Numbers, FanotifyEvent(e, keep)
  PROVE  LET number == Number[e.inode] IN
         \E report, attrib \in BOOLEAN :
           /\ LoggedFor(e, report, attrib) /\ (attrib => "ATTRIB" \in e.mask)
           /\ recent' \in SUBSET Numbers
           /\ \A n \in recent' : n \in recent \/ (n = number /\ "MODIFY" \in e.mask)
           /\ report => number \notin recent' /\ (number \in recent \/ "MODIFY" \in e.mask)
<1> DEFINE number == Number[e.inode]
           p == at[e.inode]
           marked == IF "MODIFY" \in e.mask THEN Purged(number, keep) ELSE recent
           report == "CLOSE_WRITE" \in e.mask /\ number \in marked
           attrib == "ATTRIB" \in e.mask
<1>1. e.inode \in Inodes /\ number \in Numbers
    BY DEF FanEvents, Numbers
<1>2. CASE UNCHANGED <<recent, logged>>
  <2>1. \A S : CountIn(logged, S) \in Nat
      BY PlacesFinite
  <2>2. LoggedFor(e, FALSE, FALSE)
      BY <1>2, <2>1 DEF LoggedFor
  <2>3. QED
      BY <1>2, <2>2
<1>3. CASE /\ p # Nowhere
           /\ recent' = IF report THEN marked \ {number} ELSE marked
           /\ Log((IF report THEN <<Line("MODIFY", e.inode, p, Nowhere)>> ELSE <<>>)
                    \o (IF attrib THEN <<Line("ATTRIB", e.inode, p, Nowhere)>> ELSE <<>>))
  <2>1. p \in Paths
      BY <1>1, <1>3
  <2>2. report \in BOOLEAN /\ attrib \in BOOLEAN
      OBVIOUS
  <2>3. LoggedFor(e, report, attrib)
    <3> HIDE DEF p, report, attrib
    <3>1. QED
        BY <1>3, <2>1, <2>2, TwoLinesLogged
  <2>4. /\ marked \in SUBSET Numbers
        /\ \A n \in marked : n \in recent \/ (n = number /\ "MODIFY" \in e.mask)
      BY <1>1 DEF Purged
  <2>5. /\ recent' \in SUBSET Numbers
        /\ \A n \in recent' : n \in recent \/ (n = number /\ "MODIFY" \in e.mask)
        /\ report => number \notin recent' /\ (number \in recent \/ "MODIFY" \in e.mask)
    <3> HIDE DEF marked
    <3>1. QED
        BY <1>3, <2>4
  <2> HIDE DEF report
  <2>6. QED
      BY <2>2, <2>3, <2>5
<1>4. QED
    BY <1>2, <1>3 DEF FanotifyEvent

(* The four things an inotify event may do.                                *)
LEMMA InotifyCases ==
  ASSUME logged \in Seq(LogLines), renameMap \in SUBSET (Nat \X Paths),
         NEW e \in InEvents, InotifyEvent(e)
  PROVE  \/ /\ e.kind \in {"CREATE", "DELETE"} /\ Displayed(e.path, {e.kind})
            /\ \E l \in LogLines : /\ logged' = Append(logged, l)
                                   /\ l.type = e.kind /\ l.path = e.path /\ l.to = Nowhere
            /\ renameMap' = renameMap
         \/ /\ e.kind = "FROM" /\ Displayed(e.path, {"RENAME"}) /\ logged' = logged
            /\ renameMap' = (renameMap \ MovedFrom(e.cookie)) \cup {<<e.cookie, e.path>>}
         \/ /\ e.kind = "TO" /\ Displayed(e.path, {"RENAME"})
            /\ \E m \in MovedFrom(e.cookie), l \in LogLines :
                 /\ renameMap' = renameMap \ {m} /\ logged' = Append(logged, l)
                 /\ l.type = "RENAME" /\ l.path = m[2] /\ l.to = e.path
         \/ /\ renameMap' = renameMap /\ logged' = logged
            /\ ~(e.kind \in {"CREATE", "DELETE"} /\ Displayed(e.path, {e.kind}))
            /\ ~(e.kind = "FROM" /\ Displayed(e.path, {"RENAME"}))
            /\ ~(e.kind = "TO" /\ Displayed(e.path, {"RENAME"}) /\ MovedFrom(e.cookie) # {})
<1>0. e.path \in Paths /\ e.kind \in {"CREATE", "DELETE", "FROM", "TO"}
    BY DEF InEvents
<1>1. CASE e.kind \in {"CREATE", "DELETE"} /\ Displayed(e.path, {e.kind})
  <2> DEFINE l == Line(e.kind, Nowhere, e.path, Nowhere)
  <2>0. e.kind \in Types
      BY <1>1 DEF Types
  <2>1. logged' = logged \o <<l>> /\ renameMap' = renameMap
      BY <1>1 DEF InotifyEvent, Log
  <2>2. l \in LogLines /\ l.type = e.kind /\ l.path = e.path /\ l.to = Nowhere
    <3>1. \A k \in Types, p \in Paths :
            LET x == Line(k, Nowhere, p, Nowhere)
            IN  x \in LogLines /\ x.type = k /\ x.path = p /\ x.to = Nowhere
        BY LogLineMade
    <3>2. QED
        BY <1>0, <2>0, <3>1
  <2> HIDE DEF l
  <2>3. logged' = Append(logged, l)
      BY <2>1, <2>2, LogAppend
  <2>4. QED
      BY <1>1, <2>1, <2>2, <2>3
<1>2. CASE e.kind = "FROM" /\ Displayed(e.path, {"RENAME"})
    BY <1>2 DEF InotifyEvent
<1>3. CASE e.kind = "TO" /\ Displayed(e.path, {"RENAME"}) /\ MovedFrom(e.cookie) # {}
  <2> DEFINE m == CHOOSE m \in MovedFrom(e.cookie) : TRUE
             l == Line("RENAME", Nowhere, m[2], e.path)
  <2>1. renameMap' = renameMap \ {m} /\ logged' = logged \o <<l>>
      BY <1>3 DEF InotifyEvent, Log
  <2>2. m \in MovedFrom(e.cookie) /\ m[2] \in Paths
      BY <1>3 DEF MovedFrom
  <2> HIDE DEF m
  <2>3. l \in LogLines /\ l.type = "RENAME" /\ l.path = m[2] /\ l.to = e.path
      BY <1>0, <2>2, LogLineMade DEF Types
  <2> HIDE DEF l
  <2>4. logged' = Append(logged, l)
      BY <2>1, <2>3, LogAppend
  <2>5. QED
      BY <1>3, <2>1, <2>2, <2>3, <2>4
<1>4. CASE /\ ~(e.kind \in {"CREATE", "DELETE"} /\ Displayed(e.path, {e.kind}))
           /\ ~(e.kind = "FROM" /\ Displayed(e.path, {"RENAME"}))
           /\ ~(e.kind = "TO" /\ Displayed(e.path, {"RENAME"}) /\ MovedFrom(e.cookie) # {})
    BY <1>4 DEF InotifyEvent
<1>5. QED
    BY <1>1, <1>2, <1>3, <1>4

-----------------------------------------------------------------------------
(* Types after the handlers.                                               *)

LEMMA HeadAndTail ==
  ASSUME NEW T, NEW s \in Seq(T), s # <<>>
  PROVE  /\ Head(s) \in T /\ Tail(s) \in Seq(T)
         /\ Len(Tail(s)) = Len(s) - 1 /\ Len(s) > 0
         /\ Len(s) > 1 => Tail(s) # <<>>
         /\ Len(s) <= 1 => Tail(s) = <<>>
<1>1. Len(s) \in Nat /\ Len(s) > 0
    BY EmptySeq, LenProperties
<1>2. Head(s) \in T /\ Tail(s) \in Seq(T) /\ Len(Tail(s)) = Len(s) - 1
    BY HeadTailProperties
<1>3. Len(Tail(s)) = 0 <=> Tail(s) = <<>>
    BY <1>2, EmptySeq
<1>4. QED
    BY <1>1, <1>2, <1>3

(* A step of the monitor leaves the files and what was done to them alone. *)
LEMMA HandlerFrame ==
  ASSUME MonitorTyped, UNCHANGED userVars,
         fanQueue' \in Seq(FanEvents), fanBatch' \in Seq(FanEvents),
         inQueue' \in Seq(InEvents), inBatch' \in Seq(InEvents),
         step' \in {"poll", "fan", "ino", "done"}, inReady' \in BOOLEAN,
         fanBatch' # <<>> <=> step' = "fan", inBatch' # <<>> <=> step' = "ino",
         step' = "fan" /\ inReady' => inQueue' # <<>>,
         recent' \in SUBSET Numbers, renameMap' \in SUBSET (Nat \X Paths),
         \A m, n \in renameMap' : m[1] = n[1] => m = n,
         logged' \in Seq(LogLines)
  PROVE  MonitorTyped'
<1>1. UNCHANGED <<at, open, ops>> /\ FilesTyped /\ MoreTyped
    BY TypedParts DEF userVars, MonitorTyped
<1>2. FilesTyped'
    BY <1>1 DEF FilesTyped
<1>3. \A n \in DOMAIN logged' : logged'[n].type \in Types
    BY LinesHaveTypes, ElementOfSeq
<1>4. MoreTyped'
    BY <1>1, <1>3 DEF MoreTyped
<1>5. Histories' /\ BatchesThere'
    BY <1>1 DEF MonitorTyped, Histories, BatchesThere
<1>6. QED
    BY <1>2, <1>4, <1>5, TypedPartsPrimed DEF MonitorTyped

LEMMA PollOnceTyped ==
  ASSUME MonitorTyped, PollOnce PROVE MonitorTyped'
<1>1. /\ step = "poll" /\ fanBatch' = fanQueue /\ fanQueue' = <<>>
      /\ inReady' = (inQueue # <<>>)
      /\ step' = IF fanQueue # <<>> THEN "fan" ELSE IF inQueue # <<>> THEN "ino" ELSE "done"
      /\ IF fanQueue = <<>> THEN inBatch' = inQueue /\ inQueue' = <<>>
                            ELSE UNCHANGED <<inBatch, inQueue>>
      /\ UNCHANGED <<userVars, recent, renameMap, logged>>
    BY DEF PollOnce
<1>2. MoreTyped /\ Histories
    BY TypedParts DEF MonitorTyped
<1>3. inBatch = <<>> /\ fanBatch = <<>>
    BY <1>1, <1>2 DEF MoreTyped
<1>4. fanBatch' # <<>> <=> step' = "fan"
    BY <1>1
<1>5. inBatch' # <<>> <=> step' = "ino"
    BY <1>1, <1>3
<1>6. step' = "fan" /\ inReady' => inQueue' # <<>>
    BY <1>1
<1>7. /\ fanQueue' \in Seq(FanEvents) /\ fanBatch' \in Seq(FanEvents)
      /\ inQueue' \in Seq(InEvents) /\ inBatch' \in Seq(InEvents)
      /\ step' \in {"poll", "fan", "ino", "done"} /\ inReady' \in BOOLEAN
    BY <1>1, <1>2 DEF MoreTyped
<1>8. /\ recent' \in SUBSET Numbers /\ renameMap' \in SUBSET (Nat \X Paths)
      /\ \A m, n \in renameMap' : m[1] = n[1] => m = n
      /\ logged' \in Seq(LogLines)
    BY <1>1, <1>2 DEF MoreTyped, Histories
<1>9. QED
    BY <1>1, <1>4, <1>5, <1>6, <1>7, <1>8, HandlerFrame

LEMMA FanotifyEventTyped ==
  ASSUME MonitorTyped, ProcessFanotifyEvent
  PROVE  /\ MonitorTyped' /\ fanBatch # <<>> /\ Head(fanBatch) \in FanEvents
         /\ fanBatch' = Tail(fanBatch)
         /\ \E keep \in SUBSET Numbers : FanotifyEvent(Head(fanBatch), keep)
         /\ UNCHANGED <<userVars, fanQueue, renameMap>>
         /\ \/ UNCHANGED <<inBatch, inQueue>>
            \/ inBatch = <<>> /\ inBatch' = inQueue /\ inQueue' = <<>>
         /\ Joined(EntriesOf, logged') = Joined(EntriesOf, logged)
<1>1. /\ step = "fan" /\ fanBatch' = Tail(fanBatch)
      /\ UNCHANGED <<userVars, fanQueue, inReady, renameMap>>
      /\ \E keep \in SUBSET Numbers : FanotifyEvent(Head(fanBatch), keep)
      /\ IF Len(fanBatch) > 1 THEN UNCHANGED <<step, inBatch, inQueue>>
         ELSE IF inReady THEN inBatch' = inQueue /\ inQueue' = <<>> /\ step' = "ino"
         ELSE step' = "done" /\ UNCHANGED <<inBatch, inQueue>>
    BY DEF ProcessFanotifyEvent, ReadInotify
<1>2. MoreTyped /\ Histories /\ at \in [Inodes -> Paths \cup {Nowhere}] /\ BatchesThere
    BY TypedParts DEF MonitorTyped, FilesTyped
<1>3. fanBatch # <<>> /\ inBatch = <<>> /\ (inReady => inQueue # <<>>)
    BY <1>1, <1>2 DEF MoreTyped, BatchesThere
<1>4. /\ Head(fanBatch) \in FanEvents /\ Tail(fanBatch) \in Seq(FanEvents)
      /\ Len(fanBatch) > 1 => Tail(fanBatch) # <<>>
      /\ Len(fanBatch) <= 1 => Tail(fanBatch) = <<>>
      /\ Len(fanBatch) \in Nat
    BY <1>2, <1>3, HeadAndTail DEF MoreTyped
<1>5. /\ logged' \in Seq(LogLines) /\ recent' \in SUBSET Numbers
      /\ Joined(EntriesOf, logged') = Joined(EntriesOf, logged)
  <2>1. logged \in Seq(LogLines) /\ recent \in SUBSET Numbers
      BY <1>2 DEF MoreTyped, Histories
  <2>2. QED
      BY <1>1, <1>2, <1>4, <2>1, FanotifyEffect DEF LoggedFor
<1>6. fanBatch' # <<>> <=> step' = "fan"
    BY <1>1, <1>4
<1>7. inBatch' # <<>> <=> step' = "ino"
    BY <1>1, <1>3
<1>8. step' = "fan" /\ inReady' => inQueue' # <<>>
    BY <1>1, <1>3
<1>9. /\ fanQueue' \in Seq(FanEvents) /\ fanBatch' \in Seq(FanEvents)
      /\ inQueue' \in Seq(InEvents) /\ inBatch' \in Seq(InEvents)
      /\ step' \in {"poll", "fan", "ino", "done"} /\ inReady' \in BOOLEAN
    BY <1>1, <1>2, <1>4 DEF MoreTyped
<1>10. /\ renameMap' \in SUBSET (Nat \X Paths)
       /\ \A m, n \in renameMap' : m[1] = n[1] => m = n
    BY <1>1, <1>2 DEF MoreTyped
<1>11. MonitorTyped'
    BY <1>1, <1>5, <1>6, <1>7, <1>8, <1>9, <1>10, HandlerFrame
<1>12. QED
    BY <1>1, <1>3, <1>4, <1>5, <1>11

LEMMA InotifyEventTyped ==
  ASSUME MonitorTyped, ProcessInotifyEvent
  PROVE  /\ MonitorTyped' /\ inBatch # <<>> /\ Head(inBatch) \in InEvents
         /\ InotifyEvent(Head(inBatch)) /\ inBatch' = Tail(inBatch)
         /\ UNCHANGED <<userVars, queues, fanBatch, recent>>
         /\ Len(logged) <= Len(logged') /\ Len(logged') <= Len(logged) + 1
         /\ \A is : \A type \in {"MODIFY", "ATTRIB"} :
              CountIn(logged', LinesOf(type, is)) = CountIn(logged, LinesOf(type, is))
<1> DEFINE e == Head(inBatch)
<1>1. /\ step = "ino" /\ InotifyEvent(e) /\ inBatch' = Tail(inBatch)
      /\ step' = IF Len(inBatch) > 1 THEN step ELSE "done"
      /\ UNCHANGED <<userVars, fanQueue, inQueue, fanBatch, inReady, recent>>
    BY DEF ProcessInotifyEvent, queues
<1>2. MoreTyped /\ Histories /\ BatchesThere
    BY TypedParts DEF MonitorTyped
<1>3. inBatch # <<>> /\ fanBatch = <<>>
    BY <1>1, <1>2 DEF MoreTyped, BatchesThere
<1>4. /\ e \in InEvents /\ Tail(inBatch) \in Seq(InEvents)
      /\ Len(inBatch) > 1 => Tail(inBatch) # <<>>
      /\ Len(inBatch) <= 1 => Tail(inBatch) = <<>>
      /\ Len(inBatch) \in Nat
    BY <1>2, <1>3, HeadAndTail DEF MoreTyped
<1> HIDE DEF e
<1>5. /\ logged \in Seq(LogLines) /\ renameMap \in SUBSET (Nat \X Paths)
      /\ \A m, n \in renameMap : m[1] = n[1] => m = n
      /\ Len(logged) \in Nat
    BY <1>2 DEF MoreTyped, Histories
<1>6. e.cookie \in Nat /\ e.path \in Paths /\ <<e.cookie, e.path>> \in Nat \X Paths
    BY <1>4, MaxOpsAssumption DEF InEvents
<1>7. /\ \/ logged' = logged
         \/ \E l \in LogLines : /\ logged' = Append(logged, l)
                                /\ l.type \in {"CREATE", "DELETE", "RENAME"}
      /\ \/ renameMap' \subseteq renameMap
         \/ renameMap' = (renameMap \ MovedFrom(e.cookie)) \cup {<<e.cookie, e.path>>}
    BY <1>1, <1>4, <1>5, InotifyCases
<1>8. /\ logged' \in Seq(LogLines)
      /\ Len(logged) <= Len(logged') /\ Len(logged') <= Len(logged) + 1
      /\ \A is : \A type \in {"MODIFY", "ATTRIB"} :
           CountIn(logged', LinesOf(type, is)) = CountIn(logged, LinesOf(type, is))
  <2>1. CASE logged' = logged
      BY <1>5, <2>1
  <2>2. CASE \E l \in LogLines : /\ logged' = Append(logged, l)
                                 /\ l.type \in {"CREATE", "DELETE", "RENAME"}
    <3>1. PICK l \in LogLines : /\ logged' = Append(logged, l)
                                /\ l.type \in {"CREATE", "DELETE", "RENAME"}
        BY <2>2
    <3>2. \A type, is : CountIn(logged, LinesOf(type, is)) \in Nat
        BY <1>5, PlacesFinite
    <3>3. QED
        BY <1>5, <3>1, <3>2, LogAppend
  <2>3. QED
      BY <1>7, <2>1, <2>2
<1>9. /\ renameMap' \in SUBSET (Nat \X Paths)
      /\ \A m, n \in renameMap' : m[1] = n[1] => m = n
  <2>1. CASE renameMap' \subseteq renameMap
      BY <1>5, <2>1
  <2>2. CASE renameMap' = (renameMap \ MovedFrom(e.cookie)) \cup {<<e.cookie, e.path>>}
      BY <1>5, <1>6, <2>2 DEF MovedFrom
  <2>3. QED
      BY <1>7, <2>1, <2>2
<1>10. /\ fanBatch' # <<>> <=> step' = "fan"
       /\ inBatch' # <<>> <=> step' = "ino"
       /\ step' # "fan"
    BY <1>1, <1>3, <1>4
<1>11. /\ fanQueue' \in Seq(FanEvents) /\ fanBatch' \in Seq(FanEvents)
       /\ inQueue' \in Seq(InEvents) /\ inBatch' \in Seq(InEvents)
       /\ step' \in {"poll", "fan", "ino", "done"} /\ inReady' \in BOOLEAN
       /\ recent' \in SUBSET Numbers
    BY <1>1, <1>2, <1>4 DEF MoreTyped
<1>12. MonitorTyped'
    BY <1>1, <1>8, <1>9, <1>10, <1>11, HandlerFrame
<1>13. QED
    BY <1>1, <1>3, <1>4, <1>8, <1>12 DEF e, queues

LEMMA RoundOverTyped ==
  ASSUME MonitorTyped, RoundOver PROVE MonitorTyped'
<1>1. /\ step = "done" /\ step' = "poll"
      /\ UNCHANGED <<userVars, fanQueue, inQueue, fanBatch, inBatch, inReady, recent,
                     renameMap, logged>>
    BY DEF RoundOver, queues
<1>2. MoreTyped /\ Histories
    BY TypedParts DEF MonitorTyped
<1>3. QED
    BY <1>1, <1>2, HandlerFrame DEF MoreTyped, Histories

LEMMA MonitorDiesTyped ==
  ASSUME MonitorTyped, MonitorDies PROVE MonitorTyped'
<1>1. /\ fanQueue' = <<>> /\ inQueue' = <<>>
      /\ step' = "poll" /\ fanBatch' = <<>> /\ inBatch' = <<>> /\ inReady' = FALSE
      /\ recent' = {} /\ renameMap' = {}
      /\ UNCHANGED <<userVars, logged>>
    BY DEF MonitorDies
<1>2. logged' \in Seq(LogLines)
    BY <1>1 DEF MonitorTyped, Histories
<1>3. /\ fanQueue' \in Seq(FanEvents) /\ fanBatch' \in Seq(FanEvents)
      /\ inQueue' \in Seq(InEvents) /\ inBatch' \in Seq(InEvents)
    BY <1>1, EmptySeq
<1>4. /\ fanBatch' # <<>> <=> step' = "fan"
      /\ inBatch' # <<>> <=> step' = "ino"
      /\ step' \in {"poll", "fan", "ino", "done"} /\ inReady' \in BOOLEAN /\ step' # "fan"
      /\ recent' \in SUBSET Numbers /\ renameMap' \in SUBSET (Nat \X Paths)
      /\ \A m, n \in renameMap' : m[1] = n[1] => m = n
    BY <1>1
<1>5. QED
    BY <1>1, <1>2, <1>3, <1>4, HandlerFrame

-----------------------------------------------------------------------------
(* What is logged, waits in the queues or is remembered of the content of  *)
(* the files of one number is never more than what was done to them.       *)

OpsOf(op, is) == {o \in Ops : o.op = op /\ o.inode \in is}

Waiting(bit, is) == CountIn(fanBatch, EventsOf(bit, is)) + CountIn(fanQueue, EventsOf(bit, is))

ModifiesOf(i) ==
  CountIn(logged, LinesOf("MODIFY", SameNumber(i))) + Waiting("MODIFY", SameNumber(i))
      + (IF Number[i] \in recent THEN 1 ELSE 0)
    <= CountIn(ops, OpsOf("WRITE", SameNumber(i)))
AttribsOf(i) ==
  CountIn(logged, LinesOf("ATTRIB", {i})) + Waiting("ATTRIB", {i})
    <= CountIn(ops, OpsOf("CHMOD", {i}))

ContentInv == \A i \in Inodes : ModifiesOf(i) /\ AttribsOf(i)

LEMMA CountTypesHere ==
  ASSUME MonitorTyped
  PROVE  \A S : /\ CountIn(logged, S) \in Nat /\ CountIn(ops, S) \in Nat
                /\ CountIn(fanBatch, S) \in Nat /\ CountIn(fanQueue, S) \in Nat
    BY PlacesFinite DEF MonitorTyped, MonitorTypeOK, Histories

LEMMA CountTypesPrimed ==
  ASSUME MonitorTyped'
  PROVE  \A S : /\ CountIn(logged', S) \in Nat /\ CountIn(ops', S) \in Nat
                /\ CountIn(fanBatch', S) \in Nat /\ CountIn(fanQueue', S) \in Nat
    BY PlacesFinite DEF MonitorTyped, MonitorTypeOK, Histories

CountsTyped(l, o, b, q, is) ==
  /\ CountIn(l, LinesOf("MODIFY", is)) \in Nat /\ CountIn(l, LinesOf("ATTRIB", is)) \in Nat
  /\ CountIn(o, OpsOf("WRITE", is)) \in Nat /\ CountIn(o, OpsOf("CHMOD", is)) \in Nat
  /\ CountIn(b, EventsOf("MODIFY", is)) \in Nat /\ CountIn(b, EventsOf("ATTRIB", is)) \in Nat
  /\ CountIn(q, EventsOf("MODIFY", is)) \in Nat /\ CountIn(q, EventsOf("ATTRIB", is)) \in Nat

LEMMA CountsAreNaturals ==
  ASSUME MonitorTyped PROVE \A is : CountsTyped(logged, ops, fanBatch, fanQueue, is)
    BY CountTypesHere DEF CountsTyped

LEMMA CountsAreNaturalsPrimed ==
  ASSUME MonitorTyped' PROVE \A is : CountsTyped(logged', ops', fanBatch', fanQueue', is)
    BY CountTypesPrimed DEF CountsTyped

(* An operation gives the files at most the one event it is counted for.   *)
EventsCounted(o) ==
  \A js :
    /\ CountIn(fanQueue', EventsOf("MODIFY", js))
         <= CountIn(fanQueue, EventsOf("MODIFY", js))
              + (IF o.op = "WRITE" /\ o.inode \in js THEN 1 ELSE 0)
    /\ CountIn(fanQueue', EventsOf("ATTRIB", js))
         <= CountIn(fanQueue, EventsOf("ATTRIB", js))
              + (IF o.op = "CHMOD" /\ o.inode \in js THEN 1 ELSE 0)

LEMMA UserContent ==
  ASSUME MonitorTyped, MonitorTyped', ContentInv, UNCHANGED monitor,
         NEW o \in Ops, ops' = Append(ops, o), EventsCounted(o)
  PROVE  ContentInv'
<1>1. fanBatch' = fanBatch /\ recent' = recent /\ logged' = logged
    BY DEF monitor
<1>2. \A op, js : CountIn(ops', OpsOf(op, js))
                    = CountIn(ops, OpsOf(op, js)) + (IF o.op = op /\ o.inode \in js THEN 1 ELSE 0)
  <2>1. \A op, js : o \in OpsOf(op, js) <=> o.op = op /\ o.inode \in js
      BY DEF OpsOf
  <2>2. \A S : CountIn(ops', S) = CountIn(ops, S) + (IF o \in S THEN 1 ELSE 0)
      BY CountAppend DEF MonitorTyped, Histories
  <2>3. QED
      BY <2>1, <2>2
<1>3. \A js : /\ CountsTyped(logged, ops, fanBatch, fanQueue, js)
              /\ CountsTyped(logged', ops', fanBatch', fanQueue', js)
    BY CountsAreNaturals, CountsAreNaturalsPrimed
<1>4. ASSUME NEW j \in Inodes PROVE ModifiesOf(j)'
  <2> DEFINE js == SameNumber(j)
  <2>1. js' = js /\ Number[j]' = Number[j]
      BY DEF SameNumber
  <2>2. ModifiesOf(j)
      BY DEF ContentInv
  <2>3. CountIn(logged, LinesOf("MODIFY", js)) + Waiting("MODIFY", js)
            + (IF Number[j] \in recent THEN 1 ELSE 0)
          <= CountIn(ops, OpsOf("WRITE", js))
      BY <2>2 DEF ModifiesOf
  <2> HIDE DEF js
  <2>4. /\ CountIn(fanQueue', EventsOf("MODIFY", js))
             <= CountIn(fanQueue, EventsOf("MODIFY", js))
                  + (IF o.op = "WRITE" /\ o.inode \in js THEN 1 ELSE 0)
        /\ CountIn(ops', OpsOf("WRITE", js))
             = CountIn(ops, OpsOf("WRITE", js))
                 + (IF o.op = "WRITE" /\ o.inode \in js THEN 1 ELSE 0)
      BY <1>2 DEF EventsCounted
  <2>5. /\ CountsTyped(logged, ops, fanBatch, fanQueue, js)
        /\ CountsTyped(logged', ops', fanBatch', fanQueue', js)
      BY <1>3
  <2>6. CountIn(logged', LinesOf("MODIFY", js)) + Waiting("MODIFY", js)'
            + (IF Number[j] \in recent' THEN 1 ELSE 0)
          <= CountIn(ops', OpsOf("WRITE", js))
    <3>1. CASE o.op = "WRITE" /\ o.inode \in js
        BY <1>1, <2>1, <2>3, <2>4, <2>5, <3>1 DEF Waiting, CountsTyped
    <3>2. CASE ~(o.op = "WRITE" /\ o.inode \in js)
        BY <1>1, <2>1, <2>3, <2>4, <2>5, <3>2 DEF Waiting, CountsTyped
    <3>3. QED
        BY <3>1, <3>2
  <2>7. QED
      BY <2>1, <2>6 DEF ModifiesOf, js
<1>5. ASSUME NEW j \in Inodes PROVE AttribsOf(j)'
  <2>1. CountIn(logged, LinesOf("ATTRIB", {j})) + Waiting("ATTRIB", {j})
          <= CountIn(ops, OpsOf("CHMOD", {j}))
      BY DEF ContentInv, AttribsOf
  <2>2. /\ CountIn(fanQueue', EventsOf("ATTRIB", {j}))
             <= CountIn(fanQueue, EventsOf("ATTRIB", {j}))
                  + (IF o.op = "CHMOD" /\ o.inode \in {j} THEN 1 ELSE 0)
        /\ CountIn(ops', OpsOf("CHMOD", {j}))
             = CountIn(ops, OpsOf("CHMOD", {j}))
                 + (IF o.op = "CHMOD" /\ o.inode \in {j} THEN 1 ELSE 0)
      BY <1>2 DEF EventsCounted
  <2>3. /\ CountsTyped(logged, ops, fanBatch, fanQueue, {j})
        /\ CountsTyped(logged', ops', fanBatch', fanQueue', {j})
      BY <1>3
  <2>4. QED
      BY <1>1, <2>1, <2>2, <2>3 DEF AttribsOf, Waiting, CountsTyped
<1>6. QED
    BY <1>4, <1>5 DEF ContentInv

LEMMA QuietUserContent ==
  ASSUME MonitorTyped, MonitorTyped', ContentInv, UNCHANGED <<fanQueue, monitor>>,
         NEW o \in Ops, ops' = Append(ops, o)
  PROVE  ContentInv'
<1>1. EventsCounted(o)
    BY CountTypesHere DEF EventsCounted
<1>2. QED
    BY <1>1, UserContent

LEMMA MarkedContent ==
  ASSUME MonitorTyped, MonitorTyped', ContentInv, UNCHANGED monitor,
         NEW pid \in Pids, NEW i \in Inodes, NEW bit \in FanBits, Mark(pid, i, bit),
         NEW o \in Ops, ops' = Append(ops, o), o.inode = i,
         bit = "MODIFY" => o.op = "WRITE", bit = "ATTRIB" => o.op = "CHMOD"
  PROVE  ContentInv'
<1>1. \A b \in FanBits : \A js :
        CountIn(fanQueue', EventsOf(b, js))
          <= CountIn(fanQueue, EventsOf(b, js)) + (IF b = bit /\ i \in js THEN 1 ELSE 0)
    BY MarkTyped DEF MonitorTyped, MonitorTypeOK
<1>2. ASSUME NEW js
      PROVE  /\ CountIn(fanQueue', EventsOf("MODIFY", js))
                  <= CountIn(fanQueue, EventsOf("MODIFY", js))
                       + (IF o.op = "WRITE" /\ o.inode \in js THEN 1 ELSE 0)
             /\ CountIn(fanQueue', EventsOf("ATTRIB", js))
                  <= CountIn(fanQueue, EventsOf("ATTRIB", js))
                       + (IF o.op = "CHMOD" /\ o.inode \in js THEN 1 ELSE 0)
  <2>1. /\ CountIn(fanQueue', EventsOf("MODIFY", js))
             <= CountIn(fanQueue, EventsOf("MODIFY", js))
                  + (IF "MODIFY" = bit /\ i \in js THEN 1 ELSE 0)
        /\ CountIn(fanQueue', EventsOf("ATTRIB", js))
             <= CountIn(fanQueue, EventsOf("ATTRIB", js))
                  + (IF "ATTRIB" = bit /\ i \in js THEN 1 ELSE 0)
      BY <1>1 DEF FanBits
  <2>2. /\ CountsTyped(logged, ops, fanBatch, fanQueue, js)
        /\ CountsTyped(logged', ops', fanBatch', fanQueue', js)
      BY CountsAreNaturals, CountsAreNaturalsPrimed
  <2>3. QED
      BY <2>1, <2>2 DEF CountsTyped
<1>3. QED
    BY <1>2, UserContent DEF EventsCounted

LEMMA UserKeepsContent ==
  ASSUME MonitorTyped, ContentInv, UserNext PROVE MonitorTyped' /\ ContentInv'
<1>1. ASSUME NEW pid \in Pids, NEW i \in Inodes, NEW p \in Paths, Create(pid, i, p)
      PROVE  MonitorTyped' /\ ContentInv'
  <2>1. UNCHANGED <<fanQueue, monitor>>
      BY <1>1 DEF Create
  <2>2. QED
      BY <1>1, <2>1, CreateTyped, QuietUserContent DEF DidOp
<1>2. ASSUME NEW pid \in Pids, NEW i \in Inodes, Write(pid, i)
      PROVE  MonitorTyped' /\ ContentInv'
  <2>1. /\ at[i] # Nowhere /\ open' = open \cup {<<pid, i>>} /\ Did("WRITE", i, at[i], Nowhere)
        /\ Mark(pid, i, "MODIFY") /\ UNCHANGED <<at, inQueue, monitor>>
      BY <1>2 DEF Write
  <2>2. "MODIFY" \in FanBits
      BY DEF FanBits
  <2>3. MonitorTyped' /\ \E o \in Ops : DidOp("WRITE", i, at[i], Nowhere, o)
      BY <2>1, <2>2, ContentOpTyped
  <2>4. QED
      BY <2>1, <2>2, <2>3, MarkedContent DEF DidOp
<1>3. ASSUME NEW pid \in Pids, NEW i \in Inodes, CloseWrite(pid, i)
      PROVE  MonitorTyped' /\ ContentInv'
  <2>1. /\ at[i] # Nowhere /\ open' = open \ {<<pid, i>>} /\ Did("CLOSE", i, at[i], Nowhere)
        /\ Mark(pid, i, "CLOSE_WRITE") /\ UNCHANGED <<at, inQueue, monitor>>
      BY <1>3 DEF CloseWrite
  <2>2. "CLOSE_WRITE" \in FanBits
      BY DEF FanBits
  <2>3. MonitorTyped' /\ \E o \in Ops : DidOp("CLOSE", i, at[i], Nowhere, o)
      BY <2>1, <2>2, ContentOpTyped
  <2>4. QED
      BY <2>1, <2>2, <2>3, MarkedContent DEF DidOp
<1>4. ASSUME NEW pid \in Pids, NEW i \in Inodes, Chmod(pid, i)
      PROVE  MonitorTyped' /\ ContentInv'
  <2>1. /\ at[i] # Nowhere /\ open' = open /\ Did("CHMOD", i, at[i], Nowhere)
        /\ Mark(pid, i, "ATTRIB") /\ UNCHANGED <<at, inQueue, monitor>>
      BY <1>4 DEF Chmod
  <2>2. "ATTRIB" \in FanBits
      BY DEF FanBits
  <2>3. MonitorTyped' /\ \E o \in Ops : DidOp("CHMOD", i, at[i], Nowhere, o)
      BY <2>1, <2>2, ContentOpTyped
  <2>4. QED
      BY <2>1, <2>2, <2>3, MarkedContent DEF DidOp
<1>5. ASSUME NEW i \in Inodes, Unlink(i) PROVE MonitorTyped' /\ ContentInv'
  <2>1. UNCHANGED <<fanQueue, monitor>>
      BY <1>5 DEF Unlink
  <2>2. QED
      BY <1>5, <2>1, UnlinkTyped, QuietUserContent DEF DidOp
<1>6. ASSUME NEW i \in Inodes, NEW q \in Paths, Rename(i, q) PROVE MonitorTyped' /\ ContentInv'
  <2>1. UNCHANGED <<fanQueue, monitor>>
      BY <1>6 DEF Rename
  <2>2. QED
      BY <1>6, <2>1, RenameTyped, QuietUserContent DEF DidOp
<1>7. QED
    BY <1>1, <1>2, <1>3, <1>4, <1>5, <1>6 DEF UserNext

LEMMA HandlerKeepsContent ==
  ASSUME MonitorTyped, ContentInv, HandlerNext
  PROVE  /\ MonitorTyped' /\ ContentInv'
         /\ Len(logged) <= Len(logged') /\ Len(logged') <= Len(logged) + 2
<1>1. Len(logged) \in Nat
    BY DEF MonitorTyped, Histories
<1>2. CASE PollOnce
  <2>1. /\ fanBatch = <<>> /\ fanBatch' = fanQueue /\ fanQueue' = <<>>
        /\ UNCHANGED <<ops, recent, logged>>
      BY <1>2 DEF PollOnce, userVars, MonitorTyped, MonitorTypeOK
  <2>2. \A S : CountIn(<<>>, S) = 0
      BY CountEmpty
  <2>3. ASSUME NEW i \in Inodes PROVE ModifiesOf(i)' /\ AttribsOf(i)'
    <3>1. ModifiesOf(i) /\ AttribsOf(i) /\ SameNumber(i)' = SameNumber(i)
        BY DEF ContentInv, SameNumber
    <3>2. \A bit, is : Waiting(bit, is)' = Waiting(bit, is)
        BY <2>1, <2>2, CountTypesHere DEF Waiting
    <3>3. ModifiesOf(i)'
        BY <2>1, <3>1, <3>2 DEF ModifiesOf
    <3>4. AttribsOf(i)'
        BY <2>1, <3>1, <3>2 DEF AttribsOf
    <3>5. QED
        BY <3>3, <3>4
  <2>4. QED
      BY <1>1, <1>2, <2>1, <2>3, PollOnceTyped DEF ContentInv
<1>3. CASE ProcessFanotifyEvent
  <2> DEFINE e == Head(fanBatch)
  <2>1. /\ MonitorTyped' /\ fanBatch # <<>> /\ e \in FanEvents /\ fanBatch' = Tail(fanBatch)
        /\ \E keep \in SUBSET Numbers : FanotifyEvent(e, keep)
        /\ UNCHANGED <<ops, fanQueue>>
      BY <1>3, FanotifyEventTyped DEF userVars
  <2>2. \A S : CountIn(fanBatch, S) = CountIn(fanBatch', S) + (IF e \in S THEN 1 ELSE 0)
      BY <2>1, CountTail DEF MonitorTyped, MonitorTypeOK
  <2> HIDE DEF e
  <2> DEFINE number == Number[e.inode]
  <2>3. PICK report \in BOOLEAN, attrib \in BOOLEAN :
          /\ LoggedFor(e, report, attrib) /\ (attrib => "ATTRIB" \in e.mask)
          /\ recent' \in SUBSET Numbers
          /\ \A n \in recent' : n \in recent \/ (n = number /\ "MODIFY" \in e.mask)
          /\ report => number \notin recent' /\ (number \in recent \/ "MODIFY" \in e.mask)
    <3>1. /\ logged \in Seq(LogLines) /\ recent \in SUBSET Numbers
          /\ at \in [Inodes -> Paths \cup {Nowhere}]
        BY DEF MonitorTyped, MonitorTypeOK, Histories
    <3>2. QED
        BY <2>1, <3>1, FanotifyEffect
  <2>4. \A is :
          /\ CountIn(logged', LinesOf("MODIFY", is))
               = CountIn(logged, LinesOf("MODIFY", is))
                   + (IF report /\ e.inode \in is THEN 1 ELSE 0)
          /\ CountIn(logged', LinesOf("ATTRIB", is))
               = CountIn(logged, LinesOf("ATTRIB", is))
                   + (IF attrib /\ e.inode \in is THEN 1 ELSE 0)
      BY <2>3 DEF LoggedFor
  <2>5. \A is :
          /\ CountIn(fanBatch, EventsOf("MODIFY", is))
               = CountIn(fanBatch', EventsOf("MODIFY", is))
                   + (IF e.inode \in is /\ "MODIFY" \in e.mask THEN 1 ELSE 0)
          /\ CountIn(fanBatch, EventsOf("ATTRIB", is))
               = CountIn(fanBatch', EventsOf("ATTRIB", is))
                   + (IF e.inode \in is /\ "ATTRIB" \in e.mask THEN 1 ELSE 0)
    <3>1. \A bit, is : e \in EventsOf(bit, is) <=> e.inode \in is /\ bit \in e.mask
        BY <2>1 DEF EventsOf
    <3>2. QED
        BY <2>2, <3>1
  <2>6. \A is : /\ CountsTyped(logged, ops, fanBatch, fanQueue, is)
                /\ CountsTyped(logged', ops', fanBatch', fanQueue', is)
      BY <2>1, CountsAreNaturals, CountsAreNaturalsPrimed
  <2>7. UNCHANGED <<ops, fanQueue>> /\ e.inode \in Inodes
      BY <2>1 DEF FanEvents
  <2>8. ASSUME NEW i \in Inodes PROVE ModifiesOf(i)'
    <3> DEFINE is == SameNumber(i)
    <3>1. e.inode \in is <=> number = Number[i]
        BY <2>7 DEF SameNumber
    <3>2. CountIn(logged, LinesOf("MODIFY", is)) + Waiting("MODIFY", is)
              + (IF Number[i] \in recent THEN 1 ELSE 0)
            <= CountIn(ops, OpsOf("WRITE", is))
        BY DEF ContentInv, ModifiesOf
    <3>3. is' = is
        BY DEF SameNumber
    <3> HIDE DEF is
    <3>4. /\ Number[i] \in recent'
               => Number[i] \in recent \/ (e.inode \in is /\ "MODIFY" \in e.mask)
          /\ report /\ e.inode \in is
               => Number[i] \notin recent' /\ (Number[i] \in recent \/ "MODIFY" \in e.mask)
        BY <2>3, <3>1
    <3>5. /\ CountsTyped(logged, ops, fanBatch, fanQueue, is)
          /\ CountsTyped(logged', ops', fanBatch', fanQueue', is)
        BY <2>6
    <3>6. /\ CountIn(logged', LinesOf("MODIFY", is))
               = CountIn(logged, LinesOf("MODIFY", is))
                   + (IF report /\ e.inode \in is THEN 1 ELSE 0)
          /\ CountIn(fanBatch, EventsOf("MODIFY", is))
               = CountIn(fanBatch', EventsOf("MODIFY", is))
                   + (IF e.inode \in is /\ "MODIFY" \in e.mask THEN 1 ELSE 0)
        BY <2>4, <2>5
    <3>7. CountIn(logged', LinesOf("MODIFY", is)) + Waiting("MODIFY", is)'
              + (IF Number[i] \in recent' THEN 1 ELSE 0)
            <= CountIn(ops', OpsOf("WRITE", is))
        BY <2>7, <3>2, <3>3, <3>4, <3>5, <3>6 DEF Waiting, CountsTyped
    <3>8. QED
        BY <3>3, <3>7 DEF ModifiesOf, is
  <2>9. ASSUME NEW i \in Inodes PROVE AttribsOf(i)'
    <3>1. CountIn(logged, LinesOf("ATTRIB", {i})) + Waiting("ATTRIB", {i})
            <= CountIn(ops, OpsOf("CHMOD", {i}))
        BY DEF ContentInv, AttribsOf
    <3>2. attrib => "ATTRIB" \in e.mask
        BY <2>3
    <3>3. /\ CountsTyped(logged, ops, fanBatch, fanQueue, {i})
          /\ CountsTyped(logged', ops', fanBatch', fanQueue', {i})
        BY <2>6
    <3>4. /\ CountIn(logged', LinesOf("ATTRIB", {i}))
               = CountIn(logged, LinesOf("ATTRIB", {i}))
                   + (IF attrib /\ e.inode \in {i} THEN 1 ELSE 0)
          /\ CountIn(fanBatch, EventsOf("ATTRIB", {i}))
               = CountIn(fanBatch', EventsOf("ATTRIB", {i}))
                   + (IF e.inode \in {i} /\ "ATTRIB" \in e.mask THEN 1 ELSE 0)
        BY <2>4, <2>5
    <3>5. QED
        BY <2>7, <3>1, <3>2, <3>3, <3>4 DEF AttribsOf, Waiting, CountsTyped
  <2>10. QED
      BY <2>1, <2>3, <2>8, <2>9 DEF ContentInv, LoggedFor
<1>4. CASE ProcessInotifyEvent
  <2>1. /\ MonitorTyped' /\ UNCHANGED <<ops, fanQueue, fanBatch, recent>>
        /\ Len(logged) <= Len(logged') /\ Len(logged') <= Len(logged) + 1
        /\ \A is : \A type \in {"MODIFY", "ATTRIB"} :
             CountIn(logged', LinesOf(type, is)) = CountIn(logged, LinesOf(type, is))
      BY <1>4, InotifyEventTyped DEF userVars, queues
  <2>2. ASSUME NEW i \in Inodes PROVE ModifiesOf(i)' /\ AttribsOf(i)'
    <3>1. ModifiesOf(i) /\ AttribsOf(i) /\ SameNumber(i)' = SameNumber(i)
        BY DEF ContentInv, SameNumber
    <3>2. ModifiesOf(i)'
        BY <2>1, <3>1 DEF ModifiesOf, Waiting
    <3>3. AttribsOf(i)'
        BY <2>1, <3>1 DEF AttribsOf, Waiting
    <3>4. QED
        BY <3>2, <3>3
  <2>3. Len(logged') \in Nat
      BY <2>1 DEF MonitorTyped, Histories
  <2>4. QED
      BY <1>1, <2>1, <2>2, <2>3 DEF ContentInv
<1>5. QED
    BY <1>2, <1>3, <1>4 DEF HandlerNext

LEMMA RestKeepsContent ==
  ASSUME MonitorTyped, ContentInv, RoundOver \/ MonitorDies \/ UNCHANGED monitorVars
  PROVE  MonitorTyped' /\ ContentInv'
<1>1. \A S : CountIn(<<>>, S) = 0
    BY CountEmpty
<1>2. /\ UNCHANGED <<ops, logged>> /\ recent' \subseteq recent
      /\ fanBatch' = fanBatch \/ fanBatch' = <<>>
      /\ fanQueue' = fanQueue \/ fanQueue' = <<>>
    BY DEF RoundOver, MonitorDies, monitorVars, userVars, queues
<1>3. \A is : /\ CountIn(fanBatch', EventsOf("MODIFY", is))
                   \in {0, CountIn(fanBatch, EventsOf("MODIFY", is))}
              /\ CountIn(fanBatch', EventsOf("ATTRIB", is))
                   \in {0, CountIn(fanBatch, EventsOf("ATTRIB", is))}
              /\ CountIn(fanQueue', EventsOf("MODIFY", is))
                   \in {0, CountIn(fanQueue, EventsOf("MODIFY", is))}
              /\ CountIn(fanQueue', EventsOf("ATTRIB", is))
                   \in {0, CountIn(fanQueue, EventsOf("ATTRIB", is))}
    BY <1>1, <1>2
<1>4. ASSUME NEW i \in Inodes PROVE ModifiesOf(i)' /\ AttribsOf(i)'
  <2>1. ModifiesOf(i) /\ AttribsOf(i) /\ SameNumber(i)' = SameNumber(i)
      BY DEF ContentInv, SameNumber
  <2>2. /\ CountsTyped(logged, ops, fanBatch, fanQueue, SameNumber(i))
        /\ CountsTyped(logged, ops, fanBatch, fanQueue, {i})
      BY CountsAreNaturals
  <2>3. Number[i] \in recent' => Number[i] \in recent
      BY <1>2
  <2>4. ModifiesOf(i)'
    <3> DEFINE is == SameNumber(i)
    <3>1. CountIn(logged, LinesOf("MODIFY", is)) + Waiting("MODIFY", is)
              + (IF Number[i] \in recent THEN 1 ELSE 0)
            <= CountIn(ops, OpsOf("WRITE", is))
        BY <2>1 DEF ModifiesOf
    <3>2. is' = is /\ CountsTyped(logged, ops, fanBatch, fanQueue, is)
        BY <2>1, <2>2
    <3> HIDE DEF is
    <3>3. Waiting("MODIFY", is)' <= Waiting("MODIFY", is) /\ Waiting("MODIFY", is)' \in Nat
        BY <1>3, <3>2 DEF Waiting, CountsTyped
    <3>4. CountIn(logged', LinesOf("MODIFY", is)) + Waiting("MODIFY", is)'
              + (IF Number[i] \in recent' THEN 1 ELSE 0)
            <= CountIn(ops', OpsOf("WRITE", is))
        BY <1>2, <2>3, <3>1, <3>2, <3>3 DEF Waiting, CountsTyped
    <3>5. QED
        BY <3>2, <3>4 DEF ModifiesOf, is
  <2>5. AttribsOf(i)'
      BY <1>2, <1>3, <2>1, <2>2 DEF AttribsOf, Waiting, CountsTyped
  <2>6. QED
      BY <2>4, <2>5
<1>5. MonitorTyped'
  <2>1. CASE UNCHANGED monitorVars
      BY <2>1 DEF monitorVars, MonitorTyped, MonitorTypeOK, Histories, BatchesThere
  <2>2. QED
      BY <2>1, RoundOverTyped, MonitorDiesTyped
<1>6. QED
    BY <1>4, <1>5 DEF ContentInv

(* The counts of the property are the counts of the invariant.             *)
LEMMA ContentJustified ==
  ASSUME MonitorTyped, ContentInv PROVE ContentLinesJustified
<1>1. \A type, is : CountLines(type, is) = CountIn(logged, LinesOf(type, is))
  <2>1. \A n \in DOMAIN logged : logged[n] \in LogLines
      BY ElementOfSeq DEF MonitorTyped, Histories
  <2>2. \A type, is : {n \in DOMAIN logged : logged[n].type = type /\ logged[n].inode \in is}
                        = PlacesIn(logged, LinesOf(type, is))
      BY <2>1 DEF PlacesIn, LinesOf
  <2>3. QED
      BY <2>2 DEF CountLines, CountIn
<1>2. \A op, is : CountOps(op, is) = CountIn(ops, OpsOf(op, is))
  <2>1. \A n \in DOMAIN ops : ops[n] \in Ops
      BY ElementOfSeq DEF MonitorTyped, Histories
  <2>2. \A op, is : {n \in DOMAIN ops : ops[n].op = op /\ ops[n].inode \in is}
                      = PlacesIn(ops, OpsOf(op, is))
      BY <2>1 DEF PlacesIn, OpsOf
  <2>3. QED
      BY <2>2 DEF CountOps, CountIn
<1>3. ASSUME NEW i \in Inodes
      PROVE  CountLines("MODIFY", SameNumber(i)) <= CountOps("WRITE", SameNumber(i))
    BY <1>1, <1>2, CountTypesHere DEF ContentInv, ModifiesOf, Waiting
<1>4. ASSUME NEW i \in Inodes PROVE CountLines("ATTRIB", {i}) <= CountOps("CHMOD", {i})
    BY <1>1, <1>2, CountTypesHere DEF ContentInv, AttribsOf, Waiting
<1>5. QED
    BY <1>3, <1>4 DEF ContentLinesJustified

-----------------------------------------------------------------------------
(* What the waiting inotify events will give, and what the operations      *)
(* should give.                                                            *)

(* The event brings a line once the monitor comes to it.                   *)
RenameDue(os, e) ==
  /\ e.kind = "TO" /\ e.cookie \in DOMAIN os
  /\ Displayed(e.path, {"RENAME"}) /\ Displayed(os[e.cookie].path, {"RENAME"})
DueOf(os, e) ==
  IF e.kind \in {"CREATE", "DELETE"} /\ Displayed(e.path, {e.kind})
    THEN <<<<e.kind, e.path, Nowhere>>>>
  ELSE IF RenameDue(os, e) THEN <<<<"RENAME", os[e.cookie].path, e.path>>>>
  ELSE <<>>

Due(os) == [e \in InEvents |-> DueOf(os, e)]
Wanted == [o \in Ops |-> Expected(o)]

Exact(ls, os, s) == Joined(EntriesOf, ls) \o Joined(Due(os), s) = Joined(Wanted, os)

(* The halves of the renames that wait: each belongs to an operation, the  *)
(* first comes before the second or is in the map, and no two second       *)
(* halves belong to the same operation.                                    *)
MapRight(os, map) ==
  \A m \in map : /\ m[1] \in DOMAIN os /\ os[m[1]].path = m[2]
                 /\ Displayed(m[2], {"RENAME"})
HalvesKnown(os, s) ==
  \A n \in DOMAIN s :
    /\ s[n].kind \in {"FROM", "TO"} => s[n].cookie \in DOMAIN os
    /\ s[n].kind = "FROM" => os[s[n].cookie].path = s[n].path
FirstBefore(s, n) == \E k \in 1 .. n - 1 : s[k].kind = "FROM" /\ s[k].cookie = s[n].cookie
InMap(map, c) == \E m \in map : m[1] = c
HalvesPaired(os, s, map) ==
  \A n \in DOMAIN s :
    s[n].kind = "TO" /\ Displayed(os[s[n].cookie].path, {"RENAME"})
      => InMap(map, s[n].cookie) \/ FirstBefore(s, n)
OneSecond(s) ==
  \A n, k \in DOMAIN s :
    s[n].kind = "TO" /\ s[k].kind = "TO" /\ s[n].cookie = s[k].cookie => n = k

Paired(os, s, map) ==
  MapRight(os, map) /\ HalvesKnown(os, s) /\ HalvesPaired(os, s, map) /\ OneSecond(s)

EntriesAt(ls, os, s, map) == Exact(ls, os, s) /\ Paired(os, s, map)
EntriesInv == EntriesAt(logged, ops, inBatch \o inQueue, renameMap)

LEMMA WantedTyped == Wanted \in [Ops -> Seq(Entries)]
<1>1. ASSUME NEW o \in Ops PROVE Expected(o) \in Seq(Entries)
  <2>1. o.op \in OpKinds /\ o.path \in Paths /\ o.to \in Paths \cup {Nowhere}
      BY DEF Ops
  <2>2. CASE o.op \in {"CREATE", "DELETE", "RENAME"}
    <3>1. o.op \in Types
        BY <2>2 DEF Types
    <3>2. <<o.op, o.path, o.to>> \in Entries
        BY <2>1, <3>1 DEF Entries
    <3>3. Expected(o) = <<>> \/ Expected(o) = <<<<o.op, o.path, o.to>>>>
        BY DEF Expected
    <3>4. <<<<o.op, o.path, o.to>>>> \in Seq(Entries) /\ <<>> \in Seq(Entries)
        BY <3>2, NoneOrOne
    <3> HIDE DEF Entries
    <3>5. QED
        BY <3>3, <3>4
  <2>3. CASE o.op \notin {"CREATE", "DELETE", "RENAME"}
      BY <2>3 DEF Expected
  <2>4. QED
      BY <2>2, <2>3
<1>2. QED
    BY <1>1 DEF Wanted

LEMMA DueTyped ==
  ASSUME NEW os \in Seq(Ops) PROVE Due(os) \in [InEvents -> Seq(Entries)]
<1>1. ASSUME NEW e \in InEvents PROVE DueOf(os, e) \in Seq(Entries)
  <2>1. e.path \in Paths
      BY DEF InEvents
  <2>2. CASE e.kind \in {"CREATE", "DELETE"} /\ Displayed(e.path, {e.kind})
    <3>1. <<e.kind, e.path, Nowhere>> \in Entries
        BY <2>1, <2>2 DEF Entries, Types
    <3> HIDE DEF Entries
    <3>2. QED
        BY <2>2, <3>1 DEF DueOf
  <2>3. CASE RenameDue(os, e)
    <3>1. os[e.cookie] \in Ops
        BY <2>3, ElementOfSeq DEF RenameDue
    <3>2. <<"RENAME", os[e.cookie].path, e.path>> \in Entries
        BY <2>1, <3>1 DEF Entries, Types, Ops
    <3>3. DueOf(os, e) = <<<<"RENAME", os[e.cookie].path, e.path>>>>
        BY <2>3 DEF DueOf, RenameDue
    <3> HIDE DEF Entries
    <3>4. QED
        BY <3>2, <3>3
  <2>4. CASE ~(e.kind \in {"CREATE", "DELETE"} /\ Displayed(e.path, {e.kind})) /\ ~RenameDue(os, e)
      BY <2>4 DEF DueOf
  <2>5. QED
      BY <2>2, <2>3, <2>4
<1>2. QED
    BY <1>1 DEF Due

(* The operations so far keep their places.                                *)
LEMMA OpAppended ==
  ASSUME NEW os \in Seq(Ops), NEW o \in Ops
  PROVE  LET a == Append(os, o)
         IN  /\ a \in Seq(Ops) /\ Len(a) = Len(os) + 1 /\ Len(os) \in Nat
             /\ DOMAIN os = 1 .. Len(os) /\ DOMAIN a = 1 .. Len(os) + 1
             /\ a[Len(os) + 1] = o /\ \A n \in DOMAIN os : a[n] = os[n]
             /\ \A n \in DOMAIN os : n \in DOMAIN a
<1> DEFINE a == Append(os, o)
<1>1. /\ a \in Seq(Ops) /\ Len(a) = Len(os) + 1 /\ Len(os) \in Nat
      /\ a[Len(os) + 1] = o /\ \A n \in 1 .. Len(os) : a[n] = os[n]
    BY AppendProperties
<1> HIDE DEF a
<1>2. DOMAIN os = 1 .. Len(os) /\ DOMAIN a = 1 .. Len(os) + 1
    BY <1>1
<1>3. QED
    BY <1>1, <1>2 DEF a

(* An operation changes nothing of what waits.                             *)
LEMMA OpKeepsPaired ==
  ASSUME NEW os \in Seq(Ops), NEW o \in Ops, NEW s \in Seq(InEvents), NEW map,
         Paired(os, s, map)
  PROVE  LET a == Append(os, o)
         IN  /\ Paired(a, s, map) /\ Joined(Due(a), s) = Joined(Due(os), s)
             /\ \A n \in DOMAIN s : s[n].kind = "TO" => s[n].cookie # Len(a)
<1> DEFINE a == Append(os, o)
<1>1. /\ DOMAIN os = 1 .. Len(os) /\ Len(os) \in Nat /\ Len(a) = Len(os) + 1
      /\ \A n \in DOMAIN os : a[n] = os[n] /\ n \in DOMAIN a
    BY OpAppended
<1> HIDE DEF a
<1>2. Paired(a, s, map)
  <2>1. MapRight(a, map)
      BY <1>1 DEF Paired, MapRight
  <2>2. HalvesKnown(a, s)
      BY <1>1 DEF Paired, HalvesKnown
  <2>3. HalvesPaired(a, s, map)
      BY <1>1 DEF Paired, HalvesKnown, HalvesPaired
  <2>4. QED
      BY <2>1, <2>2, <2>3 DEF Paired
<1>3. \A n \in DOMAIN s : s[n].kind = "TO" => s[n].cookie \in DOMAIN os
    BY DEF Paired, HalvesKnown
<1>4. \A n \in DOMAIN s : Due(a)[s[n]] = Due(os)[s[n]]
  <2>1. ASSUME NEW n \in DOMAIN s PROVE Due(a)[s[n]] = Due(os)[s[n]]
    <3>1. s[n] \in InEvents
        BY ElementOfSeq
    <3>2. RenameDue(a, s[n]) <=> RenameDue(os, s[n])
        BY <1>1, <1>3 DEF RenameDue
    <3>3. RenameDue(os, s[n]) => a[s[n].cookie].path = os[s[n].cookie].path
        BY <1>1, <1>3 DEF RenameDue
    <3>4. DueOf(a, s[n]) = DueOf(os, s[n])
        BY <3>2, <3>3 DEF DueOf
    <3>5. QED
        BY <3>1, <3>4 DEF Due
  <2>2. QED
      BY <2>1
<1>5. Joined(Due(a), s) = Joined(Due(os), s)
    BY <1>4, JoinedSame
<1>6. \A n \in DOMAIN s : s[n].kind = "TO" => s[n].cookie # Len(a)
    BY <1>1, <1>3
<1>7. QED
    BY <1>2, <1>5, <1>6 DEF a

LEMMA EventAppended ==
  ASSUME NEW s \in Seq(InEvents), NEW e \in InEvents
  PROVE  LET b == Append(s, e)
         IN  /\ b \in Seq(InEvents) /\ b = s \o <<e>> /\ Len(s) \in Nat
             /\ DOMAIN s = 1 .. Len(s) /\ DOMAIN b = 1 .. Len(s) + 1
             /\ b[Len(s) + 1] = e /\ \A n \in DOMAIN s : b[n] = s[n]
<1> DEFINE b == Append(s, e)
<1>1. /\ b \in Seq(InEvents) /\ Len(b) = Len(s) + 1 /\ Len(s) \in Nat
      /\ b[Len(s) + 1] = e /\ \A n \in 1 .. Len(s) : b[n] = s[n]
    BY AppendProperties
<1>2. b = s \o <<e>>
    BY AppendIsConcat
<1> HIDE DEF b
<1>3. DOMAIN s = 1 .. Len(s) /\ DOMAIN b = 1 .. Len(s) + 1
    BY <1>1
<1>4. QED
    BY <1>1, <1>2, <1>3 DEF b

(* An event that is queued is paired if it is no half of a rename, if it   *)
(* is the first half of one, or if it is the second half and the first,    *)
(* where it is displayed, waits.                                           *)
LEMMA EventKeepsPaired ==
  ASSUME NEW os \in Seq(Ops), NEW s \in Seq(InEvents), NEW e \in InEvents, NEW map,
         Paired(os, s, map),
         e.kind \in {"FROM", "TO"} => e.cookie \in DOMAIN os,
         e.kind = "FROM" => os[e.cookie].path = e.path,
         e.kind = "TO" =>
           /\ \A n \in DOMAIN s : s[n].kind = "TO" => s[n].cookie # e.cookie
           /\ Displayed(os[e.cookie].path, {"RENAME"})
                => \E k \in DOMAIN s : s[k].kind = "FROM" /\ s[k].cookie = e.cookie
  PROVE  Paired(os, Append(s, e), map)
<1> DEFINE b == Append(s, e)
           z == Len(s) + 1
<1>1. /\ Len(s) \in Nat /\ DOMAIN s = 1 .. Len(s) /\ DOMAIN b = 1 .. Len(s) + 1
      /\ b[z] = e /\ \A n \in DOMAIN s : b[n] = s[n]
    BY EventAppended
<1>2. \A n \in DOMAIN b : n \in DOMAIN s \/ n = z
    BY <1>1
<1>3. \A n \in DOMAIN s : n # z /\ n \in 1 .. z - 1
    BY <1>1
<1> HIDE DEF b
<1>4. HalvesKnown(os, b)
    BY <1>1, <1>2 DEF Paired, HalvesKnown
<1>5. HalvesPaired(os, b, map)
  <2>1. SUFFICES ASSUME NEW n \in DOMAIN b, b[n].kind = "TO",
                        Displayed(os[b[n].cookie].path, {"RENAME"})
                 PROVE  InMap(map, b[n].cookie) \/ FirstBefore(b, n)
      BY DEF HalvesPaired
  <2>2. CASE n \in DOMAIN s
    <3>1. InMap(map, s[n].cookie) \/ FirstBefore(s, n)
        BY <1>1, <2>1, <2>2 DEF Paired, HalvesPaired
    <3>2. \A k \in 1 .. n - 1 : k \in DOMAIN s
        BY <1>1, <2>2
    <3>3. QED
        BY <1>1, <2>2, <3>1, <3>2 DEF FirstBefore
  <2>3. CASE n = z
    <3>1. PICK k \in DOMAIN s : s[k].kind = "FROM" /\ s[k].cookie = e.cookie
        BY <1>1, <2>1, <2>3
    <3>2. b[k].kind = "FROM" /\ b[k].cookie = b[n].cookie /\ k \in 1 .. n - 1
        BY <1>1, <1>3, <2>3, <3>1
    <3>3. QED
        BY <3>2 DEF FirstBefore
  <2>4. QED
      BY <1>2, <2>2, <2>3
<1>6. OneSecond(b)
  <2>1. SUFFICES ASSUME NEW n \in DOMAIN b, NEW k \in DOMAIN b,
                        b[n].kind = "TO", b[k].kind = "TO", b[n].cookie = b[k].cookie
                 PROVE  n = k
      BY DEF OneSecond
  <2>2. n \in DOMAIN s /\ k \in DOMAIN s => n = k
      BY <1>1, <2>1 DEF Paired, OneSecond
  <2>3. n \in DOMAIN s /\ k = z => FALSE
      BY <1>1, <2>1
  <2>4. k \in DOMAIN s /\ n = z => FALSE
      BY <1>1, <2>1
  <2>5. QED
      BY <1>2, <2>2, <2>3, <2>4
<1>7. QED
    BY <1>4, <1>5, <1>6 DEF Paired, b

-----------------------------------------------------------------------------
(* The entries stay exact when an operation happens ...                    *)

LEMMA OpExact ==
  ASSUME NEW ls \in Seq(LogLines), NEW os \in Seq(Ops), NEW o \in Ops,
         NEW s \in Seq(InEvents), NEW b \in Seq(InEvents), Exact(ls, os, s),
         Joined(Due(Append(os, o)), b) = Joined(Due(os), s) \o Expected(o)
  PROVE  Exact(ls, Append(os, o), b)
<1> DEFINE x == Joined(EntriesOf, ls)
           y == Joined(Due(os), s)
           w == Joined(Wanted, os)
           z == Expected(o)
<1>1. x \in Seq(Entries)
    BY EntriesTyped, JoinedTyped
<1>2. y \in Seq(Entries)
    BY DueTyped, JoinedTyped
<1>3. Wanted[o] = z /\ z \in Seq(Entries)
    BY WantedTyped DEF Wanted
<1>4. Joined(Wanted, Append(os, o)) = w \o z
    BY <1>3, WantedTyped, JoinedAppend
<1>5. x \o y = w
    BY DEF Exact
<1> HIDE DEF x, y, z
<1>6. x \o (y \o z) = (x \o y) \o z
  <2>1. \A p, q, r \in Seq(Entries) : (p \o q) \o r = p \o (q \o r)
      BY ConcatAssociative
  <2>2. QED
      BY <1>1, <1>2, <1>3, <2>1
<1>7. QED
    BY <1>4, <1>5, <1>6 DEF Exact, x, y, z

(* An event nobody watches would bring nothing.                            *)
LEMMA WatchedJoined ==
  ASSUME NEW os \in Seq(Ops), NEW s \in Seq(InEvents), NEW e \in InEvents
  PROVE  LET b == s \o Watched(e)
         IN  /\ b \in Seq(InEvents)
             /\ Joined(Due(os), b) = Joined(Due(os), s) \o DueOf(os, e)
             /\ b = s \/ (b = Append(s, e) /\ Dir[e.path] # Unwatched)
<1>1. DueOf(os, e) \in Seq(Entries) /\ Due(os)[e] = DueOf(os, e)
    BY DueTyped DEF Due
<1>2. Joined(Due(os), s) \in Seq(Entries)
    BY DueTyped, JoinedTyped
<1>3. CASE Dir[e.path] = Unwatched
  <2>1. s \o Watched(e) = s
      BY <1>3, ConcatEmptySeq DEF Watched
  <2>2. DueOf(os, e) = <<>>
      BY <1>3 DEF DueOf, RenameDue, Displayed
  <2>3. Joined(Due(os), s) \o <<>> = Joined(Due(os), s)
      BY <1>2, ConcatEmptySeq
  <2>4. QED
      BY <2>1, <2>2, <2>3
<1>4. CASE Dir[e.path] # Unwatched
  <2>1. s \o Watched(e) = Append(s, e) /\ Append(s, e) \in Seq(InEvents)
      BY <1>4, EventAppended DEF Watched
  <2>2. Joined(Due(os), Append(s, e)) = Joined(Due(os), s) \o Due(os)[e]
      BY DueTyped, JoinedAppend
  <2>3. QED
      BY <1>1, <1>4, <2>1, <2>2
<1>5. QED
    BY <1>3, <1>4

LEMMA ContentOpAt ==
  ASSUME NEW ls \in Seq(LogLines), NEW os \in Seq(Ops), NEW o \in Ops,
         NEW s \in Seq(InEvents), NEW map, EntriesAt(ls, os, s, map),
         o.op \in {"WRITE", "CLOSE", "CHMOD"}
  PROVE  EntriesAt(ls, Append(os, o), s, map)
<1>1. /\ Paired(Append(os, o), s, map)
      /\ Joined(Due(Append(os, o)), s) = Joined(Due(os), s)
    BY OpKeepsPaired DEF EntriesAt
<1>2. Expected(o) = <<>>
    BY DEF Expected
<1>3. Joined(Due(os), s) \o <<>> = Joined(Due(os), s)
    BY DueTyped, JoinedTyped, ConcatEmptySeq
<1>4. Exact(ls, Append(os, o), s)
    BY <1>1, <1>2, <1>3, OpExact DEF EntriesAt
<1>5. QED
    BY <1>1, <1>4 DEF EntriesAt

LEMMA EntryOpAt ==
  ASSUME NEW ls \in Seq(LogLines), NEW os \in Seq(Ops), NEW o \in Ops,
         NEW s \in Seq(InEvents), NEW map, EntriesAt(ls, os, s, map),
         o.op \in {"CREATE", "DELETE"}, o.to = Nowhere,
         NEW e \in InEvents, e.kind = o.op, e.path = o.path
  PROVE  EntriesAt(ls, Append(os, o), s \o Watched(e), map)
<1> DEFINE a == Append(os, o)
           b == s \o Watched(e)
<1>1. a \in Seq(Ops) /\ Paired(a, s, map) /\ Joined(Due(a), s) = Joined(Due(os), s)
    BY OpAppended, OpKeepsPaired DEF EntriesAt
<1>2. DueOf(a, e) = Expected(o)
    BY DEF DueOf, RenameDue, Expected
<1> HIDE DEF a
<1>3. /\ b \in Seq(InEvents) /\ Joined(Due(a), b) = Joined(Due(a), s) \o DueOf(a, e)
      /\ b = s \/ b = Append(s, e)
    BY <1>1, WatchedJoined
<1>4. Paired(a, b, map)
  <2>1. e.kind \notin {"FROM", "TO"}
      OBVIOUS
  <2>2. Paired(a, Append(s, e), map)
      BY <1>1, <2>1, EventKeepsPaired
  <2>3. QED
      BY <1>1, <1>3, <2>2
<1> HIDE DEF b
<1>5. Exact(ls, a, b)
    BY <1>1, <1>2, <1>3, OpExact DEF EntriesAt, a
<1>6. QED
    BY <1>4, <1>5 DEF EntriesAt, a, b

LEMMA RenameOpAt ==
  ASSUME NEW ls \in Seq(LogLines), NEW os \in Seq(Ops), NEW o \in Ops,
         NEW s \in Seq(InEvents), NEW map, EntriesAt(ls, os, s, map), o.op = "RENAME",
         NEW from \in InEvents, from.kind = "FROM", from.path = o.path,
         from.cookie = Len(os) + 1,
         NEW to \in InEvents, to.kind = "TO", to.path = o.to, to.cookie = Len(os) + 1
  PROVE  EntriesAt(ls, Append(os, o), s \o (Watched(from) \o Watched(to)), map)
<1> DEFINE a == Append(os, o)
           b == s \o Watched(from)
           c == b \o Watched(to)
           z == Len(os) + 1
<1>1. /\ a \in Seq(Ops) /\ a[z] = o /\ z \in DOMAIN a /\ Len(a) = z
  <2>1. Len(os) \in Nat
      OBVIOUS
  <2>2. QED
      BY <2>1, OpAppended
<1>2. /\ Paired(a, s, map) /\ Joined(Due(a), s) = Joined(Due(os), s)
      /\ \A n \in DOMAIN s : s[n].kind = "TO" => s[n].cookie # Len(a)
    BY OpKeepsPaired DEF EntriesAt
<1> HIDE DEF a
<1>3. /\ b \in Seq(InEvents) /\ Joined(Due(a), b) = Joined(Due(a), s) \o DueOf(a, from)
      /\ b = s \/ b = Append(s, from)
      /\ b = s => Dir[from.path] = Unwatched
  <2>1. /\ b \in Seq(InEvents) /\ Joined(Due(a), b) = Joined(Due(a), s) \o DueOf(a, from)
        /\ b = s \/ b = Append(s, from)
      BY <1>1, WatchedJoined
  <2>2. Dir[from.path] # Unwatched => b = Append(s, from)
      BY EventAppended DEF Watched
  <2>3. Append(s, from) # s
    <3>1. Len(Append(s, from)) = Len(s) + 1 /\ Len(s) \in Nat
        BY AppendProperties
    <3>2. QED
        BY <3>1
  <2>4. QED
      BY <2>1, <2>2, <2>3
<1>4. Joined(Due(a), b) = Joined(Due(os), s)
  <2>1. DueOf(a, from) = <<>>
      BY DEF DueOf, RenameDue
  <2>2. Joined(Due(os), s) \o <<>> = Joined(Due(os), s)
      BY DueTyped, JoinedTyped, ConcatEmptySeq
  <2>3. QED
      BY <1>2, <1>3, <2>1, <2>2
<1>5. Paired(a, b, map)
  <2>1. Paired(a, Append(s, from), map)
      BY <1>1, <1>2, EventKeepsPaired
  <2>2. QED
      BY <1>2, <1>3, <2>1
<1>6. \A n \in DOMAIN b : b[n].kind = "TO" => b[n].cookie # z
  <2>1. CASE b = s
      BY <1>1, <1>2, <2>1
  <2>2. CASE b = Append(s, from)
    <3>1. /\ Len(s) \in Nat /\ DOMAIN s = 1 .. Len(s) /\ DOMAIN b = 1 .. Len(s) + 1
          /\ b[Len(s) + 1] = from /\ \A n \in DOMAIN s : b[n] = s[n]
        BY <2>2, EventAppended
    <3>2. QED
        BY <1>1, <1>2, <3>1
  <2>3. QED
      BY <1>3, <2>1, <2>2
<1>7. Displayed(o.path, {"RENAME"})
        => \E k \in DOMAIN b : b[k].kind = "FROM" /\ b[k].cookie = z
  <2>1. SUFFICES ASSUME Displayed(o.path, {"RENAME"})
                 PROVE  \E k \in DOMAIN b : b[k].kind = "FROM" /\ b[k].cookie = z
      OBVIOUS
  <2>2. b = Append(s, from)
      BY <1>3, <2>1 DEF Displayed
  <2>3. /\ Len(s) \in Nat /\ DOMAIN b = 1 .. Len(s) + 1 /\ b[Len(s) + 1] = from
      BY <2>2, EventAppended
  <2>4. QED
      BY <2>3
<1> HIDE DEF b
<1>8. /\ c \in Seq(InEvents) /\ Joined(Due(a), c) = Joined(Due(a), b) \o DueOf(a, to)
      /\ c = b \/ c = Append(b, to)
    BY <1>1, <1>3, WatchedJoined
<1>9. Paired(a, c, map)
  <2>1. to.cookie \in DOMAIN a /\ a[to.cookie] = o
      BY <1>1
  <2>2. Paired(a, Append(b, to), map)
      BY <1>1, <1>3, <1>5, <1>6, <1>7, <2>1, EventKeepsPaired
  <2>3. QED
      BY <1>5, <1>8, <2>2
<1>10. DueOf(a, to) = Expected(o)
    BY <1>1 DEF DueOf, RenameDue, Expected
<1>11. c = s \o (Watched(from) \o Watched(to))
  <2>1. \A p, q, r \in Seq(InEvents) : (p \o q) \o r = p \o (q \o r)
      BY ConcatAssociative
  <2>2. Watched(from) \in Seq(InEvents) /\ Watched(to) \in Seq(InEvents)
      BY WatchedTyped
  <2>3. QED
      BY <2>1, <2>2 DEF b
<1> HIDE DEF c
<1>12. Exact(ls, a, c)
    BY <1>4, <1>8, <1>10, OpExact DEF EntriesAt, a
<1>13. QED
    BY <1>9, <1>11, <1>12 DEF EntriesAt, a

-----------------------------------------------------------------------------
(* ... and when the monitor handles an event.                              *)

LEMMA PopExact ==
  ASSUME NEW ls \in Seq(LogLines), NEW os \in Seq(Ops), NEW s \in Seq(InEvents), s # <<>>,
         NEW lt \in Seq(LogLines), Exact(ls, os, s),
         Joined(EntriesOf, lt) = Joined(EntriesOf, ls) \o DueOf(os, Head(s))
  PROVE  Exact(lt, os, Tail(s))
<1> DEFINE x == Joined(EntriesOf, ls)
           y == DueOf(os, Head(s))
           z == Joined(Due(os), Tail(s))
<1>1. Head(s) \in InEvents /\ Tail(s) \in Seq(InEvents)
    BY HeadAndTail
<1>2. x \in Seq(Entries)
    BY EntriesTyped, JoinedTyped
<1>3. Due(os)[Head(s)] = y /\ y \in Seq(Entries)
    BY <1>1, DueTyped DEF Due
<1>4. z \in Seq(Entries)
    BY <1>1, DueTyped, JoinedTyped
<1>5. Joined(Due(os), s) = y \o z
    BY <1>3, DueTyped, JoinedTail
<1>6. x \o Joined(Due(os), s) = Joined(Wanted, os)
    BY DEF Exact
<1> HIDE DEF x, y, z
<1>7. (x \o y) \o z = x \o (y \o z)
  <2>1. \A p, q, r \in Seq(Entries) : (p \o q) \o r = p \o (q \o r)
      BY ConcatAssociative
  <2>2. QED
      BY <1>2, <1>3, <1>4, <2>1
<1>8. QED
    BY <1>5, <1>6, <1>7 DEF Exact, x, y, z

(* The map that is left must hold the first halves it held, that of the    *)
(* event included, as far as their second halves still wait.               *)
LEMMA PopPaired ==
  ASSUME NEW os \in Seq(Ops), NEW s \in Seq(InEvents), s # <<>>, NEW map, NEW mat,
         Paired(os, s, map), MapRight(os, mat),
         \A n \in DOMAIN Tail(s) :
           /\ Tail(s)[n].kind = "TO" /\ Displayed(os[Tail(s)[n].cookie].path, {"RENAME"})
           /\ \/ InMap(map, Tail(s)[n].cookie)
              \/ Head(s).kind = "FROM" /\ Head(s).cookie = Tail(s)[n].cookie
           => InMap(mat, Tail(s)[n].cookie)
  PROVE  Paired(os, Tail(s), mat)
<1> DEFINE t == Tail(s)
<1>1. /\ Len(s) \in Nat /\ Len(s) > 0 /\ DOMAIN s = 1 .. Len(s) /\ DOMAIN t = 1 .. Len(s) - 1
      /\ \A n \in DOMAIN t : t[n] = s[n + 1] /\ n + 1 \in DOMAIN s
      /\ Head(s) = s[1]
  <2>1. /\ t \in Seq(InEvents) /\ Len(t) = Len(s) - 1 /\ Len(s) \in Nat /\ Len(s) > 0
        /\ \A n \in 1 .. Len(t) : t[n] = s[n + 1]
      BY HeadTailProperties, EmptySeq
  <2> HIDE DEF t
  <2>2. DOMAIN s = 1 .. Len(s) /\ DOMAIN t = 1 .. Len(s) - 1 /\ Head(s) = s[1]
      BY <2>1
  <2>3. QED
      BY <2>1, <2>2
<1>2. \A n \in DOMAIN t :
        /\ t[n].kind = "TO" /\ Displayed(os[t[n].cookie].path, {"RENAME"})
        /\ InMap(map, t[n].cookie) \/ (s[1].kind = "FROM" /\ s[1].cookie = t[n].cookie)
        => InMap(mat, t[n].cookie)
    BY <1>1
<1> HIDE DEF t
<1>3. HalvesKnown(os, t)
    BY <1>1 DEF Paired, HalvesKnown
<1>4. OneSecond(t)
  <2>1. SUFFICES ASSUME NEW n \in DOMAIN t, NEW k \in DOMAIN t,
                        t[n].kind = "TO", t[k].kind = "TO", t[n].cookie = t[k].cookie
                 PROVE  n = k
      BY DEF OneSecond
  <2>2. n + 1 = k + 1
      BY <1>1, <2>1 DEF Paired, OneSecond
  <2>3. QED
      BY <1>1, <2>2
<1>5. HalvesPaired(os, t, mat)
  <2>1. SUFFICES ASSUME NEW n \in DOMAIN t, t[n].kind = "TO",
                        Displayed(os[t[n].cookie].path, {"RENAME"})
                 PROVE  InMap(mat, t[n].cookie) \/ FirstBefore(t, n)
      BY DEF HalvesPaired
  <2>2. InMap(map, t[n].cookie) \/ FirstBefore(s, n + 1)
      BY <1>1, <2>1 DEF Paired, HalvesPaired
  <2>3. CASE InMap(map, t[n].cookie)
      BY <1>2, <2>1, <2>3
  <2>4. CASE FirstBefore(s, n + 1)
    <3>1. PICK k \in 1 .. n : s[k].kind = "FROM" /\ s[k].cookie = t[n].cookie
        BY <1>1, <2>4 DEF FirstBefore
    <3>2. CASE k = 1
        BY <1>2, <2>1, <3>1, <3>2
    <3>3. CASE k # 1
      <4>1. k - 1 \in 1 .. n - 1 /\ k - 1 \in DOMAIN t /\ t[k - 1] = s[k]
        <5>1. k - 1 \in 1 .. n - 1 /\ k - 1 \in DOMAIN t /\ (k - 1) + 1 = k
            BY <1>1, <3>1, <3>3
        <5>2. QED
            BY <1>1, <5>1
      <4>2. QED
          BY <3>1, <4>1 DEF FirstBefore
    <3>4. QED
        BY <3>2, <3>3
  <2>5. QED
      BY <2>2, <2>3, <2>4
<1>6. QED
    BY <1>3, <1>4, <1>5 DEF Paired, t

(* What the first event in the queue means for the pairs.                  *)
LEMMA HeadPaired ==
  ASSUME NEW os \in Seq(Ops), NEW s \in Seq(InEvents), s # <<>>, NEW map, Paired(os, s, map)
  PROVE  /\ Head(s).kind \in {"FROM", "TO"} => Head(s).cookie \in DOMAIN os
         /\ Head(s).kind = "FROM" => os[Head(s).cookie].path = Head(s).path
         /\ Head(s).kind = "TO" /\ Displayed(os[Head(s).cookie].path, {"RENAME"})
              => InMap(map, Head(s).cookie)
         /\ \A n \in DOMAIN Tail(s) :
              Head(s).kind = "TO" /\ Tail(s)[n].kind = "TO"
                => Tail(s)[n].cookie # Head(s).cookie
<1> DEFINE t == Tail(s)
<1>1. /\ 1 \in DOMAIN s /\ Head(s) = s[1]
      /\ \A n \in DOMAIN t : t[n] = s[n + 1] /\ n + 1 \in DOMAIN s /\ n + 1 # 1
  <2>1. /\ t \in Seq(InEvents) /\ Len(t) = Len(s) - 1 /\ Len(s) \in Nat /\ Len(s) > 0
        /\ \A n \in 1 .. Len(t) : t[n] = s[n + 1]
      BY HeadTailProperties, EmptySeq
  <2> HIDE DEF t
  <2>2. DOMAIN s = 1 .. Len(s) /\ DOMAIN t = 1 .. Len(s) - 1 /\ Head(s) = s[1]
      BY <2>1
  <2>3. QED
      BY <2>1, <2>2
<1> HIDE DEF t
<1>2. ~FirstBefore(s, 1)
    BY DEF FirstBefore
<1>3. /\ s[1].kind \in {"FROM", "TO"} => s[1].cookie \in DOMAIN os
      /\ s[1].kind = "FROM" => os[s[1].cookie].path = s[1].path
      /\ s[1].kind = "TO" /\ Displayed(os[s[1].cookie].path, {"RENAME"})
           => InMap(map, s[1].cookie)
    BY <1>1, <1>2 DEF Paired, HalvesKnown, HalvesPaired
<1>4. \A n \in DOMAIN t : s[1].kind = "TO" /\ t[n].kind = "TO" => t[n].cookie # s[1].cookie
    BY <1>1 DEF Paired, OneSecond
<1>5. QED
    BY <1>1, <1>3, <1>4 DEF t

LEMMA EntryHandled ==
  ASSUME NEW ls \in Seq(LogLines), NEW os \in Seq(Ops), NEW s \in Seq(InEvents), s # <<>>,
         NEW map, EntriesAt(ls, os, s, map), NEW l \in LogLines,
         Head(s).kind \in {"CREATE", "DELETE"}, Displayed(Head(s).path, {Head(s).kind}),
         l.type = Head(s).kind, l.path = Head(s).path, l.to = Nowhere
  PROVE  EntriesAt(Append(ls, l), os, Tail(s), map)
<1>1. EntryOf(l) = DueOf(os, Head(s))
    BY DEF EntryOf, DueOf
<1>2. /\ Append(ls, l) \in Seq(LogLines)
      /\ Joined(EntriesOf, Append(ls, l)) = Joined(EntriesOf, ls) \o DueOf(os, Head(s))
    BY <1>1, LineJoined, AppendProperties
<1>3. Exact(Append(ls, l), os, Tail(s))
    BY <1>2, PopExact DEF EntriesAt
<1>4. Paired(os, s, map) /\ MapRight(os, map) /\ Head(s).kind # "FROM"
    BY DEF EntriesAt, Paired
<1>5. Paired(os, Tail(s), map)
    BY <1>4, PopPaired
<1>6. QED
    BY <1>3, <1>5 DEF EntriesAt

LEMMA NoLine ==
  ASSUME NEW ls \in Seq(LogLines), NEW os \in Seq(Ops), NEW s \in Seq(InEvents), s # <<>>,
         Exact(ls, os, s), DueOf(os, Head(s)) = <<>>
  PROVE  Exact(ls, os, Tail(s))
<1>1. Joined(EntriesOf, ls) \o <<>> = Joined(EntriesOf, ls)
    BY EntriesTyped, JoinedTyped, ConcatEmptySeq
<1>2. QED
    BY <1>1, PopExact

LEMMA FirstHalfHandled ==
  ASSUME NEW ls \in Seq(LogLines), NEW os \in Seq(Ops), NEW s \in Seq(InEvents), s # <<>>,
         NEW map, EntriesAt(ls, os, s, map),
         Head(s).kind = "FROM", Displayed(Head(s).path, {"RENAME"}),
         NEW mat, mat = (map \ {m \in map : m[1] = Head(s).cookie})
                          \cup {<<Head(s).cookie, Head(s).path>>}
  PROVE  EntriesAt(ls, os, Tail(s), mat)
<1> DEFINE c == Head(s).cookie
           p == Head(s).path
<1>1. Paired(os, s, map) /\ MapRight(os, map)
    BY DEF EntriesAt, Paired
<1>2. c \in DOMAIN os /\ os[c].path = p
    BY <1>1, HeadPaired
<1>3. mat = (map \ {m \in map : m[1] = c}) \cup {<<c, p>>} /\ Displayed(p, {"RENAME"})
    OBVIOUS
<1>4. DueOf(os, Head(s)) = <<>>
    BY DEF DueOf, RenameDue
<1> HIDE DEF c, p
<1>5. MapRight(os, mat)
    BY <1>1, <1>2, <1>3 DEF MapRight
<1>6. \A d : InMap(map, d) \/ d = c => InMap(mat, d)
  <2>1. ASSUME NEW d, InMap(map, d) \/ d = c PROVE InMap(mat, d)
    <3>1. CASE d = c
      <4>1. <<c, p>> \in mat /\ <<c, p>>[1] = c
          BY <1>3
      <4>2. QED
          BY <3>1, <4>1 DEF InMap
    <3>2. CASE d # c
        BY <1>3, <2>1, <3>2 DEF InMap
    <3>3. QED
        BY <3>1, <3>2
  <2>2. QED
      BY <2>1
<1>7. Paired(os, Tail(s), mat)
    BY <1>1, <1>5, <1>6, PopPaired DEF c
<1>8. Exact(ls, os, Tail(s))
    BY <1>4, NoLine DEF EntriesAt
<1>9. QED
    BY <1>7, <1>8 DEF EntriesAt

LEMMA SecondHalfHandled ==
  ASSUME NEW ls \in Seq(LogLines), NEW os \in Seq(Ops), NEW s \in Seq(InEvents), s # <<>>,
         NEW map, EntriesAt(ls, os, s, map), NEW l \in LogLines,
         Head(s).kind = "TO", Displayed(Head(s).path, {"RENAME"}),
         NEW m \in map, m[1] = Head(s).cookie,
         l.type = "RENAME", l.path = m[2], l.to = Head(s).path
  PROVE  EntriesAt(Append(ls, l), os, Tail(s), map \ {m})
<1> DEFINE e == Head(s)
           mat == map \ {m}
<1>1. Paired(os, s, map) /\ MapRight(os, map) /\ MapRight(os, mat)
    BY DEF EntriesAt, Paired, MapRight
<1>2. e.cookie \in DOMAIN os /\ os[e.cookie].path = m[2] /\ Displayed(m[2], {"RENAME"})
    BY <1>1 DEF MapRight
<1>3. EntryOf(l) = DueOf(os, e)
  <2>1. RenameDue(os, e) /\ e.kind \notin {"CREATE", "DELETE"}
      BY <1>2 DEF RenameDue
  <2>2. DueOf(os, e) = <<<<"RENAME", os[e.cookie].path, e.path>>>>
      BY <2>1 DEF DueOf
  <2>3. EntryOf(l) = <<<<"RENAME", m[2], e.path>>>>
      BY DEF EntryOf
  <2>4. QED
      BY <1>2, <2>2, <2>3
<1>4. /\ Append(ls, l) \in Seq(LogLines)
      /\ Joined(EntriesOf, Append(ls, l)) = Joined(EntriesOf, ls) \o DueOf(os, e)
    BY <1>3, LineJoined, AppendProperties
<1>5. Exact(Append(ls, l), os, Tail(s))
    BY <1>4, PopExact DEF EntriesAt
<1>6. \A n \in DOMAIN Tail(s) : Tail(s)[n].kind = "TO" => Tail(s)[n].cookie # e.cookie
    BY <1>1, HeadPaired
<1>7. \A d : InMap(map, d) /\ d # e.cookie => InMap(mat, d)
    BY DEF InMap
<1> HIDE DEF mat
<1>8. Paired(os, Tail(s), mat)
    BY <1>1, <1>6, <1>7, PopPaired
<1>9. QED
    BY <1>5, <1>8 DEF EntriesAt, mat

LEMMA NothingHandled ==
  ASSUME NEW ls \in Seq(LogLines), NEW os \in Seq(Ops), NEW s \in Seq(InEvents), s # <<>>,
         NEW map, EntriesAt(ls, os, s, map),
         ~(Head(s).kind \in {"CREATE", "DELETE"} /\ Displayed(Head(s).path, {Head(s).kind})),
         ~(Head(s).kind = "FROM" /\ Displayed(Head(s).path, {"RENAME"})),
         ~(/\ Head(s).kind = "TO" /\ Displayed(Head(s).path, {"RENAME"})
           /\ InMap(map, Head(s).cookie))
  PROVE  EntriesAt(ls, os, Tail(s), map)
<1> DEFINE e == Head(s)
<1>1. Paired(os, s, map) /\ MapRight(os, map)
    BY DEF EntriesAt, Paired
<1>2. /\ e.kind = "FROM" => os[e.cookie].path = e.path
      /\ e.kind = "TO" /\ Displayed(os[e.cookie].path, {"RENAME"}) => InMap(map, e.cookie)
    BY <1>1, HeadPaired
<1>3. DueOf(os, e) = <<>>
    BY <1>2 DEF DueOf, RenameDue
<1>4. Exact(ls, os, Tail(s))
    BY <1>3, NoLine DEF EntriesAt
<1>5. \A d : e.kind = "FROM" /\ e.cookie = d => ~Displayed(os[d].path, {"RENAME"})
    BY <1>2
<1>6. Paired(os, Tail(s), map)
    BY <1>1, <1>5, PopPaired
<1>7. QED
    BY <1>4, <1>6 DEF EntriesAt

-----------------------------------------------------------------------------
(* The steps of the monitor, and what they keep of the entries.            *)

LEMMA UserKeepsEntries ==
  ASSUME MonitorTyped, EntriesInv, UserNext PROVE EntriesInv'
<1> DEFINE s == inBatch \o inQueue
<1>0. /\ logged \in Seq(LogLines) /\ ops \in Seq(Ops)
      /\ inBatch \in Seq(InEvents) /\ inQueue \in Seq(InEvents) /\ s \in Seq(InEvents)
      /\ at \in [Inodes -> Paths \cup {Nowhere}]
  <2>1. /\ logged \in Seq(LogLines) /\ ops \in Seq(Ops)
        /\ inBatch \in Seq(InEvents) /\ inQueue \in Seq(InEvents)
        /\ at \in [Inodes -> Paths \cup {Nowhere}]
      BY DEF MonitorTyped, MonitorTypeOK, Histories
  <2>2. s \in Seq(InEvents)
      BY <2>1, ConcatProperties
  <2>3. QED
      BY <2>1, <2>2
<1>1. EntriesAt(logged, ops, s, renameMap)
    BY DEF EntriesInv
<1>2. ASSUME NEW events \in Seq(InEvents), Notify(events), UNCHANGED monitor,
             NEW o \in Ops, ops' = Append(ops, o),
             EntriesAt(logged, Append(ops, o), s \o events, renameMap)
      PROVE  EntriesInv'
  <2>1. logged' = logged /\ inBatch' = inBatch /\ renameMap' = renameMap
      BY <1>2 DEF monitor
  <2>2. inBatch' \o inQueue' = s \o events
    <3>1. \A p, q, r \in Seq(InEvents) : (p \o q) \o r = p \o (q \o r)
        BY ConcatAssociative
    <3>2. QED
        BY <1>0, <1>2, <2>1, <3>1 DEF Notify
  <2> HIDE DEF s
  <2>3. QED
      BY <1>2, <2>1, <2>2 DEF EntriesInv
<1>3. ASSUME UNCHANGED <<inQueue, monitor>>, NEW o \in Ops, ops' = Append(ops, o),
             o.op \in {"WRITE", "CLOSE", "CHMOD"}
      PROVE  EntriesInv'
  <2>1. /\ logged' = logged /\ inBatch' = inBatch /\ renameMap' = renameMap
        /\ inQueue' = inQueue
      BY <1>3 DEF monitor
  <2> HIDE DEF s
  <2>2. EntriesAt(logged, Append(ops, o), s, renameMap)
      BY <1>0, <1>1, <1>3, ContentOpAt
  <2>3. QED
      BY <1>3, <2>1, <2>2 DEF EntriesInv, s
<1>4. 0 \in 0 .. MaxOps
    BY MaxOpsAssumption
<1>5. ASSUME NEW pid \in Pids, NEW i \in Inodes, NEW p \in Paths, Create(pid, i, p)
      PROVE  EntriesInv'
  <2> DEFINE e == [kind |-> "CREATE", path |-> p, cookie |-> 0]
  <2>1. e \in InEvents /\ e.kind = "CREATE" /\ e.path = p /\ Watched(e) \in Seq(InEvents)
      BY <1>4, EventMade, WatchedTyped
  <2>2. Notify(Watched(e)) /\ UNCHANGED monitor
      BY <1>5 DEF Create
  <2>3. PICK o \in Ops : DidOp("CREATE", i, p, Nowhere, o)
      BY <1>5, CreateTyped
  <2> HIDE DEF e, s
  <2>4. EntriesAt(logged, Append(ops, o), s \o Watched(e), renameMap)
      BY <1>0, <1>1, <2>1, <2>3, EntryOpAt DEF DidOp
  <2>5. QED
      BY <1>2, <2>1, <2>2, <2>3, <2>4 DEF DidOp
<1>6. ASSUME NEW pid \in Pids, NEW i \in Inodes, Write(pid, i) PROVE EntriesInv'
  <2>1. /\ at[i] # Nowhere /\ open' = open \cup {<<pid, i>>} /\ Did("WRITE", i, at[i], Nowhere)
        /\ Mark(pid, i, "MODIFY") /\ UNCHANGED <<at, inQueue, monitor>>
      BY <1>6 DEF Write
  <2>2. PICK o \in Ops : DidOp("WRITE", i, at[i], Nowhere, o)
      BY <2>1, ContentOpTyped DEF FanBits
  <2>3. QED
      BY <1>3, <2>1, <2>2 DEF DidOp
<1>7. ASSUME NEW pid \in Pids, NEW i \in Inodes, CloseWrite(pid, i) PROVE EntriesInv'
  <2>1. /\ at[i] # Nowhere /\ open' = open \ {<<pid, i>>} /\ Did("CLOSE", i, at[i], Nowhere)
        /\ Mark(pid, i, "CLOSE_WRITE") /\ UNCHANGED <<at, inQueue, monitor>>
      BY <1>7 DEF CloseWrite
  <2>2. PICK o \in Ops : DidOp("CLOSE", i, at[i], Nowhere, o)
      BY <2>1, ContentOpTyped DEF FanBits
  <2>3. QED
      BY <1>3, <2>1, <2>2 DEF DidOp
<1>8. ASSUME NEW pid \in Pids, NEW i \in Inodes, Chmod(pid, i) PROVE EntriesInv'
  <2>1. /\ at[i] # Nowhere /\ open' = open /\ Did("CHMOD", i, at[i], Nowhere)
        /\ Mark(pid, i, "ATTRIB") /\ UNCHANGED <<at, inQueue, monitor>>
      BY <1>8 DEF Chmod
  <2>2. PICK o \in Ops : DidOp("CHMOD", i, at[i], Nowhere, o)
      BY <2>1, ContentOpTyped DEF FanBits
  <2>3. QED
      BY <1>3, <2>1, <2>2 DEF DidOp
<1>9. ASSUME NEW i \in Inodes, Unlink(i) PROVE EntriesInv'
  <2> DEFINE e == [kind |-> "DELETE", path |-> at[i], cookie |-> 0]
  <2>1. at[i] \in Paths /\ \E o \in Ops : DidOp("DELETE", i, at[i], Nowhere, o)
      BY <1>9, UnlinkTyped
  <2>2. e \in InEvents /\ e.kind = "DELETE" /\ e.path = at[i] /\ Watched(e) \in Seq(InEvents)
      BY <1>4, <2>1, EventMade, WatchedTyped
  <2>3. Notify(Watched(e)) /\ UNCHANGED monitor
      BY <1>9 DEF Unlink
  <2>4. PICK o \in Ops : DidOp("DELETE", i, at[i], Nowhere, o)
      BY <2>1
  <2> HIDE DEF e, s
  <2>5. EntriesAt(logged, Append(ops, o), s \o Watched(e), renameMap)
      BY <1>0, <1>1, <2>2, <2>4, EntryOpAt DEF DidOp
  <2>6. QED
      BY <1>2, <2>2, <2>3, <2>4, <2>5 DEF DidOp
<1>10. ASSUME NEW i \in Inodes, NEW q \in Paths, Rename(i, q) PROVE EntriesInv'
  <2> DEFINE c == Len(ops) + 1
             from == [kind |-> "FROM", path |-> at[i], cookie |-> c]
             to == [kind |-> "TO", path |-> q, cookie |-> c]
             events == Watched(from) \o Watched(to)
  <2>1. at[i] \in Paths /\ \E o \in Ops : DidOp("RENAME", i, at[i], q, o)
      BY <1>10, RenameTyped
  <2>2. PICK o \in Ops : DidOp("RENAME", i, at[i], q, o)
      BY <2>1
  <2>3. /\ from \in InEvents /\ from.kind = "FROM" /\ from.path = at[i] /\ from.cookie = c
        /\ to \in InEvents /\ to.kind = "TO" /\ to.path = q /\ to.cookie = c
    <3>1. c \in 0 .. MaxOps
        BY <2>2 DEF DidOp
    <3> HIDE DEF c
    <3>2. QED
        BY <2>1, <3>1, EventMade
  <2>4. Notify(events) /\ UNCHANGED monitor
      BY <1>10 DEF Rename
  <2> HIDE DEF from, to, s
  <2>5. events \in Seq(InEvents)
      BY <2>3, WatchedTyped, ConcatProperties
  <2>6. EntriesAt(logged, Append(ops, o), s \o events, renameMap)
      BY <1>0, <1>1, <2>2, <2>3, RenameOpAt DEF DidOp
  <2> HIDE DEF events
  <2>7. QED
      BY <1>2, <2>2, <2>4, <2>5, <2>6 DEF DidOp
<1>11. QED
    BY <1>5, <1>6, <1>7, <1>8, <1>9, <1>10 DEF UserNext

LEMMA HandlerKeepsEntries ==
  ASSUME MonitorTyped, EntriesInv, HandlerNext PROVE EntriesInv'
<1>0. /\ logged \in Seq(LogLines) /\ ops \in Seq(Ops)
      /\ inBatch \in Seq(InEvents) /\ inQueue \in Seq(InEvents)
      /\ renameMap \in SUBSET (Nat \X Paths)
    BY DEF MonitorTyped, MonitorTypeOK, Histories
<1>1. inBatch = <<>> => inBatch \o inQueue = inQueue
    BY <1>0, ConcatEmptySeq
<1>2. inQueue \o <<>> = inQueue
    BY <1>0, ConcatEmptySeq
<1>3. CASE PollOnce
  <2>1. /\ inBatch = <<>> /\ UNCHANGED <<ops, renameMap, logged>>
        /\ \/ UNCHANGED <<inBatch, inQueue>>
           \/ inBatch' = inQueue /\ inQueue' = <<>>
      BY <1>3 DEF PollOnce, userVars, MonitorTyped, MonitorTypeOK
  <2>2. inBatch' \o inQueue' = inBatch \o inQueue
      BY <1>1, <1>2, <2>1
  <2>3. QED
      BY <2>1, <2>2 DEF EntriesInv
<1>4. CASE ProcessFanotifyEvent
  <2>1. /\ UNCHANGED <<ops, renameMap>>
        /\ Joined(EntriesOf, logged') = Joined(EntriesOf, logged)
        /\ \/ UNCHANGED <<inBatch, inQueue>>
           \/ inBatch = <<>> /\ inBatch' = inQueue /\ inQueue' = <<>>
      BY <1>4, FanotifyEventTyped DEF userVars
  <2>2. inBatch' \o inQueue' = inBatch \o inQueue
      BY <1>1, <1>2, <2>1
  <2>3. QED
      BY <2>1, <2>2 DEF EntriesInv, EntriesAt, Exact
<1>5. CASE ProcessInotifyEvent
  <2> DEFINE s == inBatch \o inQueue
             e == Head(inBatch)
  <2>1. /\ inBatch # <<>> /\ e \in InEvents /\ InotifyEvent(e) /\ inBatch' = Tail(inBatch)
        /\ UNCHANGED <<ops, inQueue>>
      BY <1>5, InotifyEventTyped DEF userVars, queues
  <2>2. /\ s \in Seq(InEvents) /\ s # <<>> /\ Head(s) = e
        /\ inBatch' \o inQueue' = Tail(s)
    <3>1. s \in Seq(InEvents)
        BY <1>0, ConcatProperties
    <3>2. s # <<>> /\ Head(s) = e /\ Tail(s) = Tail(inBatch) \o inQueue
        BY <1>0, <2>1
    <3>3. QED
        BY <2>1, <3>1, <3>2
  <2>3. EntriesAt(logged, ops, s, renameMap)
      BY DEF EntriesInv
  <2> HIDE DEF s, e
  <2>4. CASE /\ e.kind \in {"CREATE", "DELETE"} /\ Displayed(e.path, {e.kind})
             /\ \E l \in LogLines : /\ logged' = Append(logged, l)
                                    /\ l.type = e.kind /\ l.path = e.path /\ l.to = Nowhere
             /\ renameMap' = renameMap
      BY <1>0, <2>1, <2>2, <2>3, <2>4, EntryHandled DEF EntriesInv
  <2>5. CASE /\ e.kind = "FROM" /\ Displayed(e.path, {"RENAME"}) /\ logged' = logged
             /\ renameMap' = (renameMap \ MovedFrom(e.cookie)) \cup {<<e.cookie, e.path>>}
    <3>1. renameMap' = (renameMap \ {m \in renameMap : m[1] = Head(s).cookie})
                         \cup {<<Head(s).cookie, Head(s).path>>}
        BY <2>2, <2>5 DEF MovedFrom
    <3>2. PICK mat : mat = renameMap'
        OBVIOUS
    <3>3. EntriesAt(logged, ops, Tail(s), mat)
        BY <1>0, <2>2, <2>3, <2>5, <3>1, <3>2, FirstHalfHandled
    <3>4. QED
        BY <2>1, <2>2, <2>5, <3>2, <3>3 DEF EntriesInv
  <2>6. CASE /\ e.kind = "TO" /\ Displayed(e.path, {"RENAME"})
             /\ \E m \in MovedFrom(e.cookie), l \in LogLines :
                  /\ renameMap' = renameMap \ {m} /\ logged' = Append(logged, l)
                  /\ l.type = "RENAME" /\ l.path = m[2] /\ l.to = e.path
    <3>1. PICK m \in renameMap, l \in LogLines :
            /\ m[1] = e.cookie
            /\ renameMap' = renameMap \ {m} /\ logged' = Append(logged, l)
            /\ l.type = "RENAME" /\ l.path = m[2] /\ l.to = e.path
        BY <2>6 DEF MovedFrom
    <3>2. EntriesAt(Append(logged, l), ops, Tail(s), renameMap \ {m})
        BY <1>0, <2>2, <2>3, <2>6, <3>1, SecondHalfHandled
    <3>3. QED
        BY <2>1, <2>2, <3>1, <3>2 DEF EntriesInv
  <2>7. CASE /\ renameMap' = renameMap /\ logged' = logged
             /\ ~(e.kind \in {"CREATE", "DELETE"} /\ Displayed(e.path, {e.kind}))
             /\ ~(e.kind = "FROM" /\ Displayed(e.path, {"RENAME"}))
             /\ ~(e.kind = "TO" /\ Displayed(e.path, {"RENAME"}) /\ MovedFrom(e.cookie) # {})
    <3>1. MovedFrom(e.cookie) # {} <=> InMap(renameMap, e.cookie)
        BY DEF MovedFrom, InMap
    <3>2. QED
        BY <1>0, <2>1, <2>2, <2>3, <2>7, <3>1, NothingHandled DEF EntriesInv
  <2>8. QED
      BY <1>0, <2>1, <2>4, <2>5, <2>6, <2>7, InotifyCases
<1>6. QED
    BY <1>3, <1>4, <1>5 DEF HandlerNext

LEMMA RestKeepsEntries ==
  ASSUME EntriesInv, RoundOver \/ UNCHANGED monitorVars PROVE EntriesInv'
<1>1. UNCHANGED <<logged, ops, inBatch, inQueue, renameMap>>
    BY DEF RoundOver, monitorVars, userVars, queues
<1>2. QED
    BY <1>1 DEF EntriesInv

(* The lines about entries are those that were due so far.                 *)
LEMMA EntriesExact ==
  ASSUME MonitorTyped, EntriesInv PROVE EntryLinesExact
<1> DEFINE x == Joined(EntriesOf, logged)
           y == Joined(Due(ops), inBatch \o inQueue)
<1>0. /\ logged \in Seq(LogLines) /\ ops \in Seq(Ops)
      /\ inBatch \in Seq(InEvents) /\ inQueue \in Seq(InEvents)
    BY DEF MonitorTyped, MonitorTypeOK, Histories
<1>1. EntryLines = x
  <2>1. \A n \in DOMAIN logged : EntriesOf[logged[n]] = EntryOf(logged[n])
      BY <1>0, ElementOfSeq DEF EntriesOf
  <2>2. [n \in DOMAIN logged |-> EntriesOf[logged[n]]]
          = [n \in DOMAIN logged |-> EntryOf(logged[n])]
      BY <2>1
  <2>3. QED
      BY <2>2 DEF EntryLines, Joined
<1>2. AllExpected = Joined(Wanted, ops)
  <2>1. \A n \in DOMAIN ops : Wanted[ops[n]] = Expected(ops[n])
      BY <1>0, ElementOfSeq DEF Wanted
  <2>2. [n \in DOMAIN ops |-> Wanted[ops[n]]] = [n \in DOMAIN ops |-> Expected(ops[n])]
      BY <2>1
  <2>3. QED
      BY <2>2 DEF AllExpected, Joined
<1>3. x \in Seq(Entries) /\ y \in Seq(Entries)
  <2>1. inBatch \o inQueue \in Seq(InEvents)
      BY <1>0, ConcatProperties
  <2> DEFINE s == inBatch \o inQueue
  <2> HIDE DEF s
  <2>2. s \in Seq(InEvents)
      BY <2>1 DEF s
  <2>3. Joined(Due(ops), s) \in Seq(Entries)
      BY <1>0, <2>2, DueTyped, JoinedTyped
  <2>4. x \in Seq(Entries)
      BY <1>0, EntriesTyped, JoinedTyped
  <2>5. QED
      BY <2>3, <2>4 DEF s
<1>4. AllExpected = x \o y
    BY <1>2 DEF EntriesInv, EntriesAt, Exact
<1>5. inQueue = <<>> /\ inBatch = <<>> => y = <<>>
  <2>1. <<>> \o <<>> = <<>>
      BY ConcatEmptySeq
  <2>2. QED
      BY <2>1, JoinedEmpty
<1> HIDE DEF x, y
<1>6. IsPrefix(x, x \o y)
    BY <1>3 DEF IsPrefix
<1>7. x \o <<>> = x
    BY <1>3, ConcatEmptySeq
<1>8. QED
    BY <1>1, <1>4, <1>5, <1>6, <1>7 DEF EntryLinesExact

-----------------------------------------------------------------------------
(* The thread as a whole.                                                  *)

RealIInv ==
  /\ MonitorTyped /\ ContentInv /\ StoreIInv
  /\ Len(starts) = 1 /\ stage # "down" => EntriesInv

(* The lines of one event are few enough for a file.                       *)
LEMMA HandlerKeepsStore ==
  ASSUME MonitorTyped, ContentInv, StoreIInv, HandlerStep PROVE StoreIInv'
<1>1. HandlerNext /\ (logged' = logged => UNCHANGED storeVars)
      /\ (logged' # logged => WriteLines(NewParses))
    BY DEF HandlerStep
<1>2. /\ logged \in Seq(LogLines) /\ logged' \in Seq(LogLines)
      /\ Len(logged) <= Len(logged') /\ Len(logged') <= Len(logged) + 2
    BY <1>1, HandlerKeepsContent DEF MonitorTyped, Histories
<1>3. CASE logged' = logged
    BY <1>1, <1>3, StoreStepKeeps
<1>4. CASE logged' # logged
  <2> DEFINE n == Len(logged') - Len(logged)
  <2>1. n \in 0 .. 2 /\ Len(logged) \in Nat /\ Len(logged') \in Nat
      BY <1>2
  <2>2. /\ NewLines \in Seq(LogLines) /\ Len(NewLines) = n /\ DOMAIN NewLines = 1 .. n
      BY <1>2, <2>1 DEF NewLines
  <2>3. \A k \in DOMAIN NewLines : Parses(NewLines[k]) \in BOOLEAN
      BY DEF Parses
  <2> HIDE DEF n
  <2>4. NewParses \in Seq(BOOLEAN) /\ Len(NewParses) = n
      BY <2>1, <2>2, <2>3 DEF NewParses
  <2>5. Len(NewParses) <= FileSize
      BY <2>1, <2>4, RoomAssumption, FileSizeAssumption
  <2>6. QED
      BY <1>1, <1>4, <2>4, <2>5, WriteLinesKeeps
<1>5. QED
    BY <1>3, <1>4

LEMMA RealInit == RealTimeInit => RealIInv
<1> SUFFICES ASSUME RealTimeInit PROVE RealIInv
    OBVIOUS
<1>1. /\ at = FirstPath /\ open = {} /\ ops = <<>>
      /\ fanQueue = <<>> /\ inQueue = <<>>
      /\ step = "poll" /\ fanBatch = <<>> /\ inBatch = <<>> /\ inReady = FALSE
      /\ recent = {} /\ renameMap = {} /\ logged = <<>>
    BY DEF RealTimeInit, MonitorInit
<1>2. FilesTyped
    BY <1>1, PathsAssumption DEF FilesTyped
<1>3. MonitorTyped
  <2>1. /\ ops \in Seq(Ops) /\ logged \in Seq(LogLines) /\ Len(ops) = 0
        /\ fanQueue \in Seq(FanEvents) /\ fanBatch \in Seq(FanEvents)
        /\ inQueue \in Seq(InEvents) /\ inBatch \in Seq(InEvents)
        /\ DOMAIN logged = {}
      BY <1>1
  <2>2. Len(ops) <= MaxOps
      BY <2>1, MaxOpsAssumption
  <2>3. BatchesThere
      BY <1>1 DEF BatchesThere
  <2>4. MoreTyped
      BY <1>1, <2>1, <2>2 DEF MoreTyped
  <2>5. QED
      BY <1>2, <2>1, <2>3, <2>4, TypedParts DEF MonitorTyped, Histories
<1>4. ContentInv
  <2>1. \A S : CountIn(<<>>, S) = 0
      BY CountEmpty
  <2>2. QED
      BY <1>1, <2>1 DEF ContentInv, ModifiesOf, AttribsOf, Waiting
<1>5. EntriesInv
  <2>1. <<>> \o <<>> = <<>>
      BY ConcatEmptySeq
  <2>2. \A f : Joined(f, <<>>) = <<>>
      BY JoinedEmpty
  <2>3. Exact(<<>>, <<>>, <<>>)
      BY <2>1, <2>2 DEF Exact
  <2>4. Paired(<<>>, <<>>, {})
      BY DEF Paired, MapRight, HalvesKnown, HalvesPaired, OneSecond
  <2>5. inBatch \o inQueue = <<>>
      BY <1>1, <2>1
  <2>6. QED
      BY <1>1, <2>3, <2>4, <2>5 DEF EntriesInv, EntriesAt
<1>6. StoreIInv
    BY StoreInitIInv DEF RealTimeInit
<1>7. QED
    BY <1>3, <1>4, <1>5, <1>6 DEF RealIInv

LEMMA RealStep == RealIInv /\ [RealTimeNext]_realTimeVars => RealIInv'
<1> SUFFICES ASSUME RealIInv, [RealTimeNext]_realTimeVars PROVE RealIInv'
    OBVIOUS
<1>0. /\ MonitorTyped /\ ContentInv /\ StoreIInv
      /\ Len(starts) = 1 /\ stage # "down" => EntriesInv
    BY DEF RealIInv
<1>1. CASE UserStep
  <2>1. UserNext /\ UNCHANGED storeVars /\ stage' = stage /\ starts' = starts
      BY <1>1 DEF UserStep, storeVars
  <2>2. MonitorTyped' /\ ContentInv' /\ StoreIInv'
      BY <1>0, <2>1, UserKeepsContent, StoreStepKeeps
  <2>3. EntriesInv => EntriesInv'
      BY <1>0, <2>1, UserKeepsEntries
  <2>4. QED
      BY <1>0, <2>1, <2>2, <2>3 DEF RealIInv
<1>2. CASE HandlerStep
  <2>1. HandlerNext /\ stage' = stage /\ starts' = starts
      BY <1>2 DEF HandlerStep, storeVars, WriteLines
  <2>2. MonitorTyped' /\ ContentInv' /\ StoreIInv'
      BY <1>0, <1>2, <2>1, HandlerKeepsContent, HandlerKeepsStore
  <2>3. EntriesInv => EntriesInv'
      BY <1>0, <2>1, HandlerKeepsEntries
  <2>4. QED
      BY <1>0, <2>1, <2>2, <2>3 DEF RealIInv
<1>3. CASE EndRound
  <2>1. RoundOver /\ EndPoll /\ stage = "poll" /\ starts' = starts
      BY <1>3 DEF EndRound, EndPoll
  <2>2. MonitorTyped' /\ ContentInv' /\ StoreIInv'
      BY <1>0, <2>1, RestKeepsContent, StoreStepKeeps
  <2>3. EntriesInv => EntriesInv'
      BY <2>1, RestKeepsEntries
  <2>4. QED
      BY <1>0, <2>1, <2>2, <2>3 DEF RealIInv
<1>4. CASE PassStep
  <2>1. Pass /\ UNCHANGED monitorVars /\ stage # "down" /\ starts' = starts
      BY <1>4 DEF PassStep, Pass, StoreLine, EndOfLog, GetLatestTimestamp
  <2>2. MonitorTyped' /\ ContentInv' /\ StoreIInv'
      BY <1>0, <2>1, RestKeepsContent, StoreStepKeeps
  <2>3. EntriesInv => EntriesInv'
      BY <2>1, RestKeepsEntries
  <2>4. QED
      BY <1>0, <2>1, <2>2, <2>3 DEF RealIInv
<1>5. CASE FaultStep
  <2>1. CASE (InsertFails \/ SetClockBack) /\ UNCHANGED monitorVars
    <3>1. stage' = stage /\ starts' = starts
        BY <2>1 DEF InsertFails, SetClockBack
    <3>2. MonitorTyped' /\ ContentInv' /\ StoreIInv'
        BY <1>0, <2>1, RestKeepsContent, StoreStepKeeps DEF StoreFault
    <3>3. EntriesInv => EntriesInv'
        BY <2>1, RestKeepsEntries
    <3>4. QED
        BY <1>0, <3>1, <3>2, <3>3 DEF RealIInv
  <2>2. CASE Dies
    <3>1. StoreDies /\ MonitorDies /\ stage' = "down"
        BY <2>2 DEF Dies, StoreDies
    <3>2. MonitorTyped' /\ ContentInv' /\ StoreIInv'
        BY <1>0, <3>1, RestKeepsContent, StoreStepKeeps DEF StoreFault
    <3>3. QED
        BY <3>1, <3>2 DEF RealIInv
  <2>3. QED
      BY <1>5, <2>1, <2>2 DEF FaultStep
<1>6. CASE Starts
  <2>1. StoreStarts /\ UNCHANGED monitorVars /\ starts' = Append(starts, written)
      BY <1>6 DEF Starts, StoreStarts
  <2>2. MonitorTyped' /\ ContentInv' /\ StoreIInv'
      BY <1>0, <2>1, RestKeepsContent, StoreStepKeeps
  <2>3. Len(starts') # 1
      BY <1>0, <2>1 DEF StoreIInv, StoreTypeOK, Numbered
  <2>4. QED
      BY <2>2, <2>3 DEF RealIInv
<1>7. CASE UNCHANGED realTimeVars
  <2>1. UNCHANGED monitorVars /\ UNCHANGED storeVars /\ stage' = stage /\ starts' = starts
      BY <1>7 DEF realTimeVars, storeVars
  <2>2. MonitorTyped' /\ ContentInv' /\ StoreIInv'
      BY <1>0, <2>1, RestKeepsContent, StoreStepKeeps
  <2>3. EntriesInv => EntriesInv'
      BY <2>1, RestKeepsEntries
  <2>4. QED
      BY <1>0, <2>1, <2>2, <2>3 DEF RealIInv
<1>8. QED
    BY <1>1, <1>2, <1>3, <1>4, <1>5, <1>6, <1>7 DEF RealTimeNext

LEMMA RealIInvKept == RealTimeSpec => []RealIInv
<1>1. QED
    BY RealInit, RealStep, PTL DEF RealTimeSpec

(* The types of the monitor, its queues and its log.                       *)
THEOREM RealTimeTyped == RealTimeSpec => []RealTimeTypeOK
<1>1. RealIInv => RealTimeTypeOK
    BY DEF RealIInv, MonitorTyped, StoreIInv, RealTimeTypeOK
<1>2. QED
    BY <1>1, RealIInvKept, PTL

(* As long as the process lives, creations, deletions and renames are      *)
(* logged exactly as they happened: in their order, no half of a rename    *)
(* with another's, and all of them once the queues are empty.              *)
THEOREM EntriesTold == RealTimeSpec => []EntriesExactWhileAlive
<1>1. RealIInv => EntriesExactWhileAlive
    BY EntriesExact DEF RealIInv, EntriesExactWhileAlive
<1>2. QED
    BY <1>1, RealIInvKept, PTL

(* No more attribute changes are logged of a file than permission changes  *)
(* were made to it, and no more modifications of the files of one number   *)
(* than writes: whichever of them the monitor puts a write down to, and    *)
(* however numbers come back, no line is without a write of its own.       *)
THEOREM ContentTold == RealTimeSpec => []ContentLinesJustified
<1>1. RealIInv => ContentLinesJustified
    BY ContentJustified DEF RealIInv
<1>2. QED
    BY <1>1, RealIInvKept, PTL

(* No line of the monitor gets more rows than there were starts since.     *)
THEOREM RealTimeNoSecondRow == RealTimeSpec => []StoredOncePerStart
<1>1. RealIInv => StoredOncePerStart
    BY DEF RealIInv, StoreIInv
<1>2. QED
    BY <1>1, RealIInvKept, PTL

(* Every line of the monitor up to the mark is stored, as long as the      *)
(* clock runs on and no insert fails.                                      *)
THEOREM RealTimePassesNothing == RealTimeSpec => []NothingPassedOver
<1>1. RealIInv => NothingPassedOver
    BY DEF RealIInv, StoreIInv, NothingLeft, NothingPassedOver
<1>2. QED
    BY <1>1, RealIInvKept, PTL

-----------------------------------------------------------------------------
(* The file monitoring: one of its parts moves, the others rest.  While    *)
(* the log store is on its own the monitor has done nothing, whatever the  *)
(* store's starts and faults.                                              *)
FimIInv ==
  /\ RealIInv /\ PlainTypes /\ Checked
  /\ part = "store" => EntriesInv

LEMMA FimStarts == FimInit => FimIInv
<1> SUFFICES ASSUME FimInit PROVE FimIInv
    OBVIOUS
<1>1. RealIInv /\ PlainTypes /\ Checked
    BY RealInit, IntegInitKept DEF FimInit
<1>2. Len(starts) = 1 /\ stage # "down"
    BY DEF FimInit, RealTimeInit, StoreInit
<1>3. QED
    BY <1>1, <1>2 DEF FimIInv, RealIInv

LEMMA FimStep == FimIInv /\ [FimNext]_fimVars => FimIInv'
<1> SUFFICES ASSUME FimIInv, [FimNext]_fimVars PROVE FimIInv'
    OBVIOUS
<1> USE DEF FimIInv
<1>1. CASE RealTimePart
  <2>1. part' = part /\ part # "store" /\ UNCHANGED integVars
      BY <1>1 DEF RealTimePart
  <2>2. RealIInv'
      BY <1>1, RealStep DEF RealTimePart
  <2>3. QED
      BY <2>1, <2>2, StutterKeeps
<1>2. CASE StorePart
  <2>1. /\ StoreNext /\ UNCHANGED monitorVars /\ UNCHANGED integVars
        /\ part' = part /\ part = "store"
      BY <1>2 DEF StorePart
  <2>2. MonitorTyped' /\ ContentInv' /\ EntriesInv'
      BY <2>1, RestKeepsContent, RestKeepsEntries DEF RealIInv
  <2>3. StoreIInv'
      BY <2>1, StoreIInvStep DEF RealIInv
  <2>4. QED
      BY <2>1, <2>2, <2>3, StutterKeeps DEF RealIInv
<1>3. CASE IntegrityPart
  <2>1. /\ IntegNext /\ UNCHANGED realTimeVars
        /\ part' = part /\ part = "integrity"
      BY <1>3 DEF IntegrityPart
  <2>2. PlainTypes' /\ Checked'
      BY <2>1, IntegStepKept
  <2>3. RealIInv'
      BY <2>1, RealStep
  <2>4. QED
      BY <2>1, <2>2, <2>3
<1>4. CASE UNCHANGED fimVars
  <2>1. UNCHANGED realTimeVars /\ UNCHANGED integVars /\ UNCHANGED monitorVars /\ part' = part
      BY <1>4 DEF fimVars, realTimeVars
  <2>2. RealIInv' /\ PlainTypes' /\ Checked'
      BY <2>1, RealStep, StutterKeeps
  <2>3. EntriesInv => EntriesInv'
      BY <2>1, RestKeepsEntries
  <2>4. QED
      BY <2>1, <2>2, <2>3
<1>5. QED
    BY <1>1, <1>2, <1>3, <1>4 DEF FimNext

LEMMA FimIInvKept == FimSpec => []FimIInv
<1>1. QED
    BY FimStarts, FimStep, PTL DEF FimSpec

(* The types of the file monitoring, whichever part of it moves.           *)
THEOREM FimTyped == FimSpec => []FimTypeOK
<1>1. FimIInv => FimTypeOK
    BY IntegTypeParts
       DEF FimIInv, FimTypeOK, RealIInv, MonitorTyped, StoreIInv, RealTimeTypeOK
<1>2. QED
    BY <1>1, FimIInvKept, PTL

(* What is proved of each part by itself holds of the file monitoring: its *)
(* log, its rows and its alarms, at any moment of any of its parts.        *)
THEOREM FimRight ==
  FimSpec =>
    /\ []EntriesExactWhileAlive /\ []ContentLinesJustified
    /\ []StoredOncePerStart /\ []NothingPassedOver
    /\ []OnlyChangedFiles /\ []ChangesFound /\ []AlertsComplete
<1>1. FimIInv => /\ EntriesExactWhileAlive /\ ContentLinesJustified
                 /\ StoredOncePerStart /\ NothingPassedOver
  <2>1. FimIInv => EntriesExactWhileAlive /\ ContentLinesJustified
      BY EntriesExact, ContentJustified DEF FimIInv, RealIInv, EntriesExactWhileAlive
  <2>2. QED
      BY <2>1 DEF FimIInv, RealIInv, StoreIInv, NothingLeft, NothingPassedOver
<1>2. FimIInv => OnlyChangedFiles /\ ChangesFound /\ AlertsComplete
    BY DEF FimIInv, Checked
<1>3. QED
    BY <1>1, <1>2, FimIInvKept, PTL
=============================================================================
