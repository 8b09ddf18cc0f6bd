------------------------ MODULE SingleThread_proofs -------------------------
(***************************************************************************)
(* What is proved of the components that run in a thread of their own, for *)
(* any constants that meet their assumptions: the analysis of rsyslog's    *)
(* log (AuthIInv), that of the audit log (AuditIInv for its records,       *)
(* ScenarioIInv for its scenario), the watcher of the schedules            *)
(* (ClockIInv) and the reports it has made (ReportIInv).                   *)
(***************************************************************************)
EXTENDS SingleThread, FiniteSetTheorems, SequenceTheorems,
        WellFoundedInduction, TLAPS

(* What holds of 0 and is handed on from n to n + 1 holds of all numbers.  *)
LEMMA NatSetInduction ==
  ASSUME NEW S, 0 \in S, \A n \in Nat : n \in S => n + 1 \in S
  PROVE  \A n \in Nat : n \in S
<1> DEFINE T == Nat \ S
<1> SUFFICES ASSUME T # {} PROVE FALSE
    OBVIOUS
<1>1. PICK x \in T : \A y \in T : <<y, x>> \notin OpToRel(<, Nat)
  <2>1. T \subseteq Nat
      OBVIOUS
  <2> HIDE DEF T
  <2>2. QED
      BY <2>1, NatLessThanWellFounded, WFMin
<1>2. x \in Nat /\ x # 0 /\ x - 1 \in Nat /\ x - 1 < x
    OBVIOUS
<1>3. <<x - 1, x>> \in OpToRel(<, Nat)
    BY <1>2 DEF OpToRel
<1>4. x - 1 \in S
    BY <1>1, <1>2, <1>3
<1>5. QED
    BY <1>2, <1>4

LEMMA Members ==
  ASSUME NEW S, NEW s \in Seq(S)
  PROVE  DOMAIN s = 1 .. Len(s) /\ Len(s) \in Nat /\ \A i \in DOMAIN s : s[i] \in S
<1>1. QED
    BY LenProperties, ElementOfSeq

LEMMA Appended ==
  ASSUME NEW S, NEW s \in Seq(S), NEW x \in S
  PROVE  /\ Append(s, x) \in Seq(S) /\ Len(Append(s, x)) = Len(s) + 1
         /\ DOMAIN Append(s, x) = 1 .. Len(s) + 1
         /\ \A i \in 1 .. Len(s) : Append(s, x)[i] = s[i]
         /\ Append(s, x)[Len(s) + 1] = x
<1>1. Append(s, x) \in Seq(S) /\ Len(Append(s, x)) = Len(s) + 1
    BY AppendProperties
<1>2. QED
    BY <1>1, AppendProperties, Members

-----------------------------------------------------------------------------
(* The failures of a user.                                                 *)

(* An entry as it is kept, with its time.                                  *)
Timed == [entry : Entries, time : 1 .. MaxTime]
FailuresBy(e, a) == IF e.user = a THEN Failures(e) ELSE 0
FailuresAt(s, a, k) == FailuresBy(s[k].entry, a)

(* f[k] is the number of failures of user a in the entries from i to k.    *)
Sums(s, a, i, f) ==
  f = [k \in 0 .. Len(s) |-> IF k < i THEN 0 ELSE f[k - 1] + FailuresAt(s, a, k)]

LEMMA SumsExist == ASSUME NEW s \in Seq(Timed), NEW a, NEW i \in Nat \ {0}
                   PROVE  \E f : Sums(s, a, i, f)
<1> DEFINE To(n, f) ==
             f = [k \in 0 .. n |-> IF k < i THEN 0 ELSE f[k - 1] + FailuresAt(s, a, k)]
           S == {n \in Nat : \E f : To(n, f)}
<1>1. 0 \in S
  <2>1. To(0, [k \in 0 .. 0 |-> 0])
      OBVIOUS
  <2>2. QED
      BY <2>1
<1>2. ASSUME NEW n \in Nat, n \in S PROVE n + 1 \in S
  <2>1. PICK f : To(n, f)
      BY <1>2
  <2> DEFINE x == IF n + 1 < i THEN 0 ELSE f[n] + FailuresAt(s, a, n + 1)
             g == [k \in 0 .. n + 1 |-> IF k = n + 1 THEN x ELSE f[k]]
  <2>2. ASSUME NEW k \in 0 .. n + 1
        PROVE  g[k] = IF k < i THEN 0 ELSE g[k - 1] + FailuresAt(s, a, k)
    <3>1. CASE k = n + 1
      <4>1. g[k] = x /\ n \in 0 .. n + 1 /\ n # n + 1 /\ k - 1 = n
          BY <3>1
      <4>2. g[n] = f[n]
          BY <4>1
      <4> HIDE DEF g
      <4>3. QED
          BY <3>1, <4>1, <4>2
    <3>2. CASE k # n + 1
      <4>1. k \in 0 .. n /\ (~(k < i) => k - 1 \in 0 .. n)
          BY <3>2
      <4>2. f[k] = IF k < i THEN 0 ELSE f[k - 1] + FailuresAt(s, a, k)
          BY <2>1, <4>1
      <4>3. g[k] = f[k] /\ (~(k < i) => g[k - 1] = f[k - 1])
          BY <4>1
      <4>4. QED
          BY <4>2, <4>3
    <3>3. QED
        BY <3>1, <3>2
  <2>3. To(n + 1, g)
    <3> HIDE DEF x
    <3>1. g = [k \in 0 .. n + 1 |-> g[k]]
        OBVIOUS
    <3> HIDE DEF g
    <3>2. [k \in 0 .. n + 1 |-> g[k]]
            = [k \in 0 .. n + 1 |-> IF k < i THEN 0 ELSE g[k - 1] + FailuresAt(s, a, k)]
        BY <2>2
    <3>3. QED
        BY <3>1, <3>2
  <2> HIDE DEF g
  <2>4. \E h : To(n + 1, h)
      BY <2>3
  <2> HIDE DEF To
  <2>5. QED
      BY <2>4
<1>3. Len(s) \in S
  <2> HIDE DEF S
  <2>1. QED
      BY <1>1, <1>2, NatSetInduction
<1>4. QED
    BY <1>3 DEF Sums

FailuresIn(s, a, i, j) == IF j < i THEN 0 ELSE (CHOOSE f : Sums(s, a, i, f))[j]

LEMMA FailuresInStep ==
  ASSUME NEW s \in Seq(Timed), NEW a, NEW i \in Nat \ {0}, NEW j \in i .. Len(s)
  PROVE  FailuresIn(s, a, i, j) = FailuresIn(s, a, i, j - 1) + FailuresAt(s, a, j)
<1> DEFINE f == CHOOSE f : Sums(s, a, i, f)
<1>1. Sums(s, a, i, f)
    BY SumsExist
<1> HIDE DEF f
<1>2. Len(s) \in Nat /\ j \in 0 .. Len(s) /\ j - 1 \in 0 .. Len(s) /\ ~(j < i)
    BY LenProperties
<1>3. f[j] = f[j - 1] + FailuresAt(s, a, j)
    BY <1>1, <1>2 DEF Sums
<1>4. j - 1 < i => f[j - 1] = 0
    BY <1>1, <1>2 DEF Sums
<1>5. FailuresIn(s, a, i, j) = f[j]
    BY <1>2 DEF FailuresIn, f
<1>6. FailuresIn(s, a, i, j - 1) = f[j - 1]
    BY <1>2, <1>4 DEF FailuresIn, f
<1>7. QED
    BY <1>3, <1>5, <1>6

LEMMA FailuresOfIn ==
  /\ \A a, i, j : FailuresOf(a, i, j) = FailuresIn(entries, a, i, j)
  /\ \A a, i, j : FailuresOf(a, i, j)' = FailuresIn(entries', a, i, j)
<1>1. QED
    BY DEF FailuresOf, FailuresIn, Sums, FailuresAt, FailuresBy

(* What the entries of each kind tell.                                     *)
LEMMA KindsOfEntries ==
  ASSUME NEW e \in Entries
  PROVE  /\ e.kind \in {"failure", "sudo", "refused", "change", "half"}
         /\ e.kind = "failure" => e.user \in Accounts /\ e.count \in Nat \ {0}
         /\ e.kind \in {"sudo", "refused"} =>
              e.user \in Accounts /\ e.count \in Nat
         /\ e.kind = "change" => e.user \in Actors
<1>1. CASE e \in [kind : {"failure"}, user : Accounts, count : Counts, command : {NoOne}]
    BY <1>1, FailureAssumption
<1>2. CASE e \in [kind : {"sudo"}, user : Accounts, count : {0}, command : Commands]
    BY <1>2
<1>3. CASE e \in [kind : {"refused"}, user : Accounts, count : Counts, command : Commands]
    BY <1>3, FailureAssumption
<1>4. CASE e \in [kind : {"change"}, user : Actors, count : {0}, command : Changes]
    BY <1>4
<1>5. CASE e \in [kind : {"half"}, user : {NoOne}, count : {0}, command : {NoOne}]
    BY <1>5
<1>6. QED
    BY <1>1, <1>2, <1>3, <1>4, <1>5 DEF Entries

LEMMA FailuresAreNaturals ==
  \A e \in Entries : /\ Failures(e) \in Nat
                     /\ Failures(e) > 0 => e.user \in Accounts /\ e.kind \in {"failure", "refused"}
<1>1. QED
    BY KindsOfEntries DEF Failures

LEMMA FailuresAtNat ==
  ASSUME NEW s \in Seq(Timed), NEW a, NEW k \in 1 .. Len(s)
  PROVE  FailuresAt(s, a, k) \in Nat
<1>1. s[k] \in Timed
    BY ElementOfSeq
<1>2. s[k].entry \in Entries
    BY <1>1 DEF Timed
<1>3. QED
    BY <1>2, FailuresAreNaturals DEF FailuresAt, FailuresBy

(* What is added at the end changes nothing before.                        *)
LEMMA FailuresInSame ==
  ASSUME NEW s \in Seq(Timed), NEW x \in Timed, NEW a, NEW i \in Nat \ {0}
  PROVE  \A j \in 0 .. Len(s) : /\ FailuresIn(s, a, i, j) \in Nat
                                /\ FailuresIn(Append(s, x), a, i, j) = FailuresIn(s, a, i, j)
<1> DEFINE t == Append(s, x)
<1>1. /\ t \in Seq(Timed) /\ Len(t) = Len(s) + 1 /\ Len(s) \in Nat
      /\ \A k \in 1 .. Len(s) : t[k] = s[k]
    BY AppendProperties, LenProperties
<1> DEFINE Good == {k \in Nat : k <= Len(s) => /\ FailuresIn(s, a, i, k) \in Nat
                                               /\ FailuresIn(t, a, i, k) = FailuresIn(s, a, i, k)}
<1> HIDE DEF t
<1>2. 0 \in Good
    BY DEF FailuresIn
<1>3. ASSUME NEW k \in Nat, k \in Good PROVE k + 1 \in Good
  <2>1. SUFFICES ASSUME k + 1 <= Len(s)
                 PROVE  /\ FailuresIn(s, a, i, k + 1) \in Nat
                        /\ FailuresIn(t, a, i, k + 1) = FailuresIn(s, a, i, k + 1)
      OBVIOUS
  <2>2. FailuresIn(s, a, i, k) \in Nat /\ FailuresIn(t, a, i, k) = FailuresIn(s, a, i, k)
      BY <1>1, <1>3, <2>1
  <2>3. CASE k + 1 < i
      BY <2>3 DEF FailuresIn
  <2>4. CASE i <= k + 1
    <3> DEFINE j == k + 1
    <3>1. j \in i .. Len(s) /\ j \in i .. Len(t) /\ j \in 1 .. Len(s) /\ j - 1 = k
        BY <1>1, <2>1, <2>4
    <3> HIDE DEF j
    <3>2. /\ FailuresIn(s, a, i, j) = FailuresIn(s, a, i, k) + FailuresAt(s, a, j)
          /\ FailuresIn(t, a, i, j) = FailuresIn(t, a, i, k) + FailuresAt(t, a, j)
        BY <1>1, <3>1, FailuresInStep
    <3>3. FailuresAt(t, a, j) = FailuresAt(s, a, j) /\ FailuresAt(s, a, j) \in Nat
        BY <1>1, <3>1, FailuresAtNat DEF FailuresAt
    <3>4. QED
        BY <2>2, <3>2, <3>3 DEF j
  <2>5. QED
      BY <2>3, <2>4
<1> HIDE DEF Good
<1>4. \A k \in Nat : k \in Good
    BY <1>2, <1>3, NatSetInduction
<1>5. QED
    BY <1>1, <1>4 DEF Good, t

(* The failures of an entry add to those of its user.                      *)
LEMMA FailuresAdd ==
  ASSUME NEW s \in Seq(Timed), NEW x \in Timed, NEW a, NEW i \in 1 .. Len(s) + 1
  PROVE  FailuresIn(Append(s, x), a, i, Len(s) + 1)
           = FailuresIn(s, a, i, Len(s)) + FailuresBy(x.entry, a)
<1> DEFINE t == Append(s, x)
           n == Len(s)
<1>1. t \in Seq(Timed) /\ Len(t) = n + 1 /\ n \in Nat /\ t[n + 1] = x
    BY AppendProperties, LenProperties
<1>2. n + 1 \in i .. Len(t) /\ i \in Nat \ {0} /\ (n + 1) - 1 = n /\ n \in 0 .. Len(s)
    BY <1>1
<1>3. FailuresIn(t, a, i, n) = FailuresIn(s, a, i, n)
    BY <1>2, FailuresInSame
<1> HIDE DEF t, n
<1>4. FailuresIn(t, a, i, n + 1) = FailuresIn(t, a, i, (n + 1) - 1) + FailuresAt(t, a, n + 1)
    BY <1>1, <1>2, FailuresInStep
<1>5. QED
    BY <1>1, <1>2, <1>3, <1>4 DEF FailuresAt, t, n

-----------------------------------------------------------------------------
(* Types, and what is only known of the past.                              *)

Told == [at : Nat \ {0}, type : {"failures", "sudo", "change"}, user : Actors]

AuthTyped ==
  /\ entries \in Seq(Timed) /\ Len(entries) <= MaxEntries
  /\ \A i \in DOMAIN entries : entries[i].time <= time
  /\ recentLogs \in Seq(Entries) /\ Len(recentLogs) <= MaxRecent
  /\ failureMap \in [Accounts -> [count : 0 .. Threshold - 1, first : 0 .. MaxTime]]
  /\ \A a \in Accounts : failureMap[a].first <= time
  /\ reports \in Seq(Told) /\ \A r \in DOMAIN reports : reports[r].at <= Len(entries)
  /\ time \in 1 .. MaxTime
  /\ since \in Seq(0 .. MaxEntries) /\ \A r \in DOMAIN since : since[r] <= Len(entries)

LEMMA LargestExists ==
  ASSUME NEW n \in Nat, NEW S, S \subseteq 0 .. n, S # {}
  PROVE  \E i \in S : \A j \in S : j <= i
<1> DEFINE Good == {k \in Nat : (\E i \in S : i <= k)
                       => \E i \in S : i <= k /\ \A j \in S : j <= k => j <= i}
<1>1. 0 \in Good
    OBVIOUS
<1>2. ASSUME NEW k \in Nat, k \in Good PROVE k + 1 \in Good
  <2>1. CASE k + 1 \in S
      BY <2>1
  <2>2. CASE k + 1 \notin S
    <3>1. \A j \in S : j <= k + 1 <=> j <= k
        BY <2>2
    <3>2. QED
        BY <1>2, <3>1
  <2>3. QED
      BY <2>1, <2>2
<1> HIDE DEF Good
<1>3. n \in Good
    BY <1>1, <1>2, NatSetInduction
<1>4. \A i \in S : i <= n
    OBVIOUS
<1>5. (\E i \in S : i <= n) => \E i \in S : i <= n /\ \A j \in S : j <= n => j <= i
    BY <1>3 DEF Good
<1>6. QED
    BY <1>4, <1>5

(* The changer inferred is the user of the latest of the entries that      *)
(* contain a command of the change, or root.                               *)
LEMMA ChangerInferred ==
  ASSUME NEW logs \in Seq(Entries), NEW x
  PROVE  /\ InferChanger(logs, x) \in Actors
         /\ MentionsIn(logs, x) = {} => InferChanger(logs, x) = Root
         /\ MentionsIn(logs, x) # {} =>
              \E i \in MentionsIn(logs, x) :
                /\ \A j \in MentionsIn(logs, x) : j <= i
                /\ InferChanger(logs, x) = logs[i].user
<1> DEFINE F == MentionsIn(logs, x)
<1>1. CASE F = {}
    BY <1>1 DEF InferChanger, Actors
<1>2. CASE F # {}
  <2> DEFINE i == CHOOSE i \in F : \A j \in F : j <= i
  <2>1. F \subseteq 0 .. Len(logs) /\ F \subseteq 1 .. Len(logs) /\ Len(logs) \in Nat
      BY LenProperties DEF MentionsIn, IsMention
  <2>2. \E k \in F : \A j \in F : j <= k
    <3> HIDE DEF F
    <3>1. QED
        BY <1>2, <2>1, LargestExists
  <2>3. i \in F /\ \A j \in F : j <= i
      BY <2>2, Zenon
  <2>4. InferChanger(logs, x) = logs[i].user
      BY <1>2 DEF InferChanger
  <2> HIDE DEF i
  <2>5. logs[i] \in Entries /\ logs[i].kind \in {"sudo", "refused"}
      BY <2>1, <2>3, ElementOfSeq DEF MentionsIn, IsMention
  <2>6. logs[i].user \in Actors
      BY <2>5, KindsOfEntries DEF Actors
  <2>7. QED
      BY <1>2, <2>3, <2>4, <2>6
<1>3. QED
    BY <1>1, <1>2

(* The steps: an entry is analysed, time passes or the daemon restarts.    *)
LEMMA AuthSteps == AuthNext => (\E e \in Entries : Analyze(e)) \/ Later \/ AuthRestart
<1> SUFFICES ASSUME AuthNext PROVE (\E e \in Entries : Analyze(e)) \/ Later \/ AuthRestart
    OBVIOUS
<1> USE DEF Entries
<1>1. ASSUME NEW a \in Accounts, NEW n \in Counts, Fail(a, n)
      PROVE  \E e \in Entries : Analyze(e)
    BY <1>1 DEF Fail
<1>2. ASSUME NEW a \in Accounts, NEW c \in Commands, Sudo(a, c)
      PROVE  \E e \in Entries : Analyze(e)
    BY <1>2 DEF Sudo
<1>3. ASSUME NEW a \in Accounts, NEW c \in Commands, NEW n \in Counts,
             SudoRefused(a, c, n)
      PROVE  \E e \in Entries : Analyze(e)
    BY <1>3 DEF SudoRefused
<1>4. ASSUME NEW a \in Actors, NEW x \in Changes, MakeChange(a, x)
      PROVE  \E e \in Entries : Analyze(e)
    BY <1>4 DEF MakeChange
<1>5. ReadHalf => \E e \in Entries : Analyze(e)
    BY DEF ReadHalf
<1>6. QED
    BY <1>1, <1>2, <1>3, <1>4, <1>5 DEF AuthNext

(* What counting an entry gives.                                           *)
LEMMA CountedCases ==
  ASSUME AuthTyped, NEW e \in Entries, Failures(e) > 0
  PROVE  LET f == failureMap[e.user]
         IN  /\ e.user \in Accounts
             /\ f.count \in Nat /\ f.first \in Nat /\ Failures(e) \in Nat \ {0}
             /\ Counted(e) = [count |-> Counted(e).count, first |-> Counted(e).first]
             /\ \/ /\ f.count = 0 \/ time - f.first > FailWindow
                   /\ Counted(e).count = Failures(e) /\ Counted(e).first = time
                \/ /\ f.count > 0 /\ time - f.first <= FailWindow
                   /\ Counted(e).count = f.count + Failures(e) /\ Counted(e).first = f.first
<1> DEFINE f == failureMap[e.user]
<1>1. e.user \in Accounts /\ Failures(e) \in Nat \ {0}
    BY FailuresAreNaturals
<1>2. f \in [count : 0 .. Threshold - 1, first : 0 .. MaxTime]
    BY <1>1 DEF AuthTyped
<1>3. /\ f.count \in Nat /\ f.first \in Nat /\ time \in Nat /\ FailWindow \in Nat
      /\ f = [count |-> f.count, first |-> f.first]
    BY <1>2, FailureAssumption, AuthBoundsAssumption DEF AuthTyped
<1> HIDE DEF f
<1>4. Counted(e) = IF f.count = 0 \/ time - f.first > FailWindow
                     THEN [count |-> Failures(e), first |-> time]
                     ELSE [f EXCEPT !.count = @ + Failures(e)]
    BY DEF Counted, f
<1>5. CASE f.count = 0 \/ time - f.first > FailWindow
  <2>1. Counted(e) = [count |-> Failures(e), first |-> time]
      BY <1>4, <1>5
  <2>2. QED
      BY <1>1, <1>3, <1>5, <2>1 DEF f
<1>6. CASE ~(f.count = 0 \/ time - f.first > FailWindow)
  <2>1. Counted(e) = [f EXCEPT !.count = @ + Failures(e)]
      BY <1>4, <1>6
  <2>2. Counted(e) = [count |-> f.count + Failures(e), first |-> f.first]
      BY <1>3, <2>1
  <2>3. f.count > 0 /\ time - f.first <= FailWindow
      BY <1>3, <1>6
  <2>4. QED
      BY <1>1, <1>3, <2>2, <2>3 DEF f
<1>7. QED
    BY <1>5, <1>6

(* What a report says, and when there is one.                              *)
LEMMA ReportCases ==
  ASSUME AuthTyped, NEW e \in Entries
  PROVE  \/ ReportOf(e) = <<>> /\ ~TooManyFailures(e)
         \/ \E x \in Told : /\ ReportOf(e) = <<x>> /\ x.at = Len(entries) + 1
                            /\ x.type = "failures" <=> TooManyFailures(e)
                            /\ x.type = "failures" => x.user = e.user
<1> DEFINE n == Len(entries) + 1
           report(type, user) == [at |-> n, type |-> type, user |-> user]
<1>1. n \in Nat \ {0}
    BY LenProperties DEF AuthTyped
<1> HIDE DEF n
<1>2. CASE TooManyFailures(e)
  <2>1. e.user \in Actors
      BY <1>2, FailuresAreNaturals DEF TooManyFailures, Actors
  <2>2. ReportOf(e) = <<report("failures", e.user)>>
      BY <1>2 DEF ReportOf, n
  <2>3. QED
      BY <1>1, <1>2, <2>1, <2>2 DEF Told, n
<1>3. CASE ~TooManyFailures(e) /\ UnauthorisedSudo(e)
  <2>1. e.user \in Actors
      BY <1>3, KindsOfEntries DEF UnauthorisedSudo, Actors
  <2>2. ReportOf(e) = <<report("sudo", e.user)>>
      BY <1>3 DEF ReportOf, n
  <2>3. QED
      BY <1>1, <1>3, <2>1, <2>2 DEF Told, n
<1>4. CASE ~TooManyFailures(e) /\ ~UnauthorisedSudo(e)
  <2> DEFINE changer == InferChanger(RecentWith(e), e.command)
  <2>1. ReportOf(e) = <<>> \/ ReportOf(e) = <<report("change", changer)>>
      BY <1>4 DEF ReportOf, n
  <2>2. RecentWith(e) \in Seq(Entries)
      BY AppendProperties, HeadTailProperties, EmptySeq DEF RecentWith, AuthTyped
  <2>3. changer \in Actors
      BY <2>2, ChangerInferred
  <2> HIDE DEF changer
  <2>4. QED
      BY <1>1, <1>4, <2>1, <2>3 DEF Told, n
<1>5. QED
    BY <1>2, <1>3, <1>4

LEMMA AuthTypedHolds ==
  /\ AuthInit => AuthTyped
  /\ AuthTyped /\ [AuthNext]_authVars => AuthTyped'
<1>1. AuthInit => AuthTyped
  <2> SUFFICES ASSUME AuthInit PROVE AuthTyped
      OBVIOUS
  <2>1. failureMap \in [Accounts -> [count : 0 .. Threshold - 1, first : 0 .. MaxTime]]
      BY FailureAssumption, AuthBoundsAssumption DEF AuthInit, NoFailures
  <2>2. QED
      BY <2>1, FailureAssumption, AuthBoundsAssumption DEF AuthInit, NoFailures, AuthTyped
<1>2. ASSUME AuthTyped, NEW e \in Entries, Analyze(e) PROVE AuthTyped'
  <2> DEFINE n == Len(entries)
             x == [entry |-> e, time |-> time]
  <2>1. /\ n \in Nat /\ time \in Nat /\ entries' = Append(entries, x) /\ x \in Timed
        /\ time' = time /\ since' = since /\ n < MaxEntries
      BY <1>2, LenProperties DEF Analyze, Timed, AuthTyped
  <2>2. /\ entries' \in Seq(Timed) /\ Len(entries') = n + 1
        /\ \A i \in 1 .. n : entries'[i] = entries[i]
        /\ entries'[n + 1] = x /\ DOMAIN entries' = 1 .. n + 1 /\ DOMAIN entries = 1 .. n
    <3>1. entries \in Seq(Timed)
        BY <1>2 DEF AuthTyped
    <3>2. DOMAIN entries = 1 .. n
        BY <3>1, Members
    <3> HIDE DEF x
    <3>3. QED
        BY <2>1, <3>1, <3>2, Appended
  <2>3. \A i \in DOMAIN entries' : entries'[i].time <= time'
    <3>1. TAKE i \in DOMAIN entries'
    <3>2. i \in 1 .. n \/ i = n + 1
        BY <2>1, <2>2
    <3>3. QED
        BY <1>2, <2>1, <2>2, <3>2 DEF AuthTyped
  <2>4. recentLogs' \in Seq(Entries) /\ Len(recentLogs') <= MaxRecent
    <3> DEFINE all == Append(recentLogs, e)
    <3>1. /\ recentLogs' = IF Len(all) > MaxRecent THEN Tail(all) ELSE all
          /\ all \in Seq(Entries) /\ Len(all) = Len(recentLogs) + 1 /\ Len(recentLogs) \in Nat
        BY <1>2, AppendProperties, LenProperties DEF Analyze, RecentWith, AuthTyped
    <3> HIDE DEF all
    <3>2. MaxRecent \in Nat /\ Len(recentLogs) <= MaxRecent
        BY <1>2, AuthBoundsAssumption DEF AuthTyped
    <3>3. CASE Len(all) > MaxRecent
      <4>1. all # <<>>
          BY <3>1, EmptySeq
      <4>2. Tail(all) \in Seq(Entries) /\ Len(Tail(all)) = Len(all) - 1
          BY <3>1, <4>1, HeadTailProperties
      <4>3. QED
          BY <3>1, <3>2, <3>3, <4>2
    <3>4. QED
        BY <3>1, <3>2, <3>3
  <2>5. failureMap' \in [Accounts -> [count : 0 .. Threshold - 1, first : 0 .. MaxTime]]
        /\ \A a \in Accounts : failureMap'[a].first <= time'
    <3>1. CASE Failures(e) = 0
        BY <1>2, <2>1, <3>1 DEF Analyze, FailureMapWith, AuthTyped
    <3>2. CASE Failures(e) # 0
      <4> DEFINE c == Counted(e)
                 v1 == IF TooManyFailures(e) THEN [c EXCEPT !.count = 0] ELSE c
      <4>0. Failures(e) > 0
          BY <3>2, FailuresAreNaturals
      <4>1. /\ e.user \in Accounts /\ c = [count |-> c.count, first |-> c.first]
            /\ c.count \in Nat /\ c.first \in 0 .. MaxTime /\ c.first <= time
        <5>1. failureMap[e.user].first <= time /\ time <= MaxTime /\ MaxTime \in Nat
              /\ time \in Nat
            BY <1>2, <4>0, CountedCases, AuthBoundsAssumption DEF AuthTyped
        <5>2. QED
            BY <1>2, <4>0, <5>1, CountedCases
      <4>2. failureMap' = [failureMap EXCEPT ![e.user] = v1]
          BY <1>2, <3>2 DEF Analyze, FailureMapWith
      <4>3. TooManyFailures(e) <=> c.count >= Threshold
          BY <4>0 DEF TooManyFailures
      <4> HIDE DEF c
      <4>4. v1 = [count |-> IF TooManyFailures(e) THEN 0 ELSE c.count, first |-> c.first]
          BY <4>1
      <4>5. v1 \in [count : 0 .. Threshold - 1, first : 0 .. MaxTime] /\ v1.first <= time
        <5>1. Threshold \in Nat \ {0}
            BY FailureAssumption
        <5>2. (IF TooManyFailures(e) THEN 0 ELSE c.count) \in 0 .. Threshold - 1
            BY <4>1, <4>3, <5>1
        <5>3. QED
            BY <4>1, <4>4, <5>2
      <4> HIDE DEF v1
      <4>6. QED
          BY <1>2, <2>1, <4>1, <4>2, <4>5 DEF AuthTyped
    <3>3. QED
        BY <3>1, <3>2
  <2>6. reports' \in Seq(Told) /\ \A r \in DOMAIN reports' : reports'[r].at <= Len(entries')
    <3>0. /\ reports \in Seq(Told) /\ \A r \in DOMAIN reports : reports[r].at <= n
          /\ reports' = reports \o ReportOf(e)
        BY <1>2 DEF Analyze, AuthTyped
    <3>1. CASE ReportOf(e) = <<>>
      <4>1. reports' = reports
          BY <3>0, <3>1, ConcatEmptySeq
      <4>2. \A r \in DOMAIN reports : reports[r].at \in Nat
        <5>1. \A r \in DOMAIN reports : reports[r] \in Told
            BY <3>0, Members
        <5>2. QED
            BY <5>1 DEF Told
      <4>3. QED
          BY <2>1, <2>2, <3>0, <4>1, <4>2
    <3>2. ASSUME NEW y \in Told, ReportOf(e) = <<y>>, y.at = n + 1
          PROVE  /\ reports' \in Seq(Told)
                 /\ \A r \in DOMAIN reports' : reports'[r].at <= Len(entries')
      <4>1. reports' = Append(reports, y)
          BY <3>0, <3>2, AppendIsConcat
      <4>2. /\ reports' \in Seq(Told) /\ DOMAIN reports' = 1 .. Len(reports) + 1
            /\ \A r \in 1 .. Len(reports) : reports'[r] = reports[r]
            /\ reports'[Len(reports) + 1] = y /\ DOMAIN reports = 1 .. Len(reports)
            /\ Len(reports) \in Nat
          BY <3>0, <4>1, AppendProperties, LenProperties
      <4>3. \A r \in DOMAIN reports : reports[r].at \in Nat
        <5>1. \A r \in DOMAIN reports : reports[r] \in Told
            BY <3>0, Members
        <5>2. QED
            BY <5>1 DEF Told
      <4>4. ASSUME NEW r \in DOMAIN reports' PROVE reports'[r].at <= n + 1
        <5>1. r \in 1 .. Len(reports) \/ r = Len(reports) + 1
            BY <4>2
        <5>2. QED
            BY <2>1, <3>0, <3>2, <4>2, <4>3, <5>1
      <4>5. QED
          BY <2>2, <4>2, <4>4
    <3>3. QED
        BY <1>2, <3>1, <3>2, ReportCases
  <2>7. \A r \in DOMAIN since' : since'[r] <= Len(entries')
    <3>1. \A r \in DOMAIN since : since[r] \in Nat /\ since[r] <= n
        BY <1>2, ElementOfSeq, LenProperties, AuthBoundsAssumption DEF AuthTyped
    <3>2. QED
        BY <2>1, <2>2, <3>1
  <2>8. QED
      BY <1>2, <2>1, <2>2, <2>3, <2>4, <2>5, <2>6, <2>7, AuthBoundsAssumption DEF AuthTyped
<1>3. ASSUME AuthTyped, Later PROVE AuthTyped'
  <2>1. \A i \in DOMAIN entries : entries[i].time \in Nat
    <3>1. \A i \in DOMAIN entries : entries[i] \in Timed
        BY <1>3, Members DEF AuthTyped
    <3>2. QED
        BY <3>1 DEF Timed
  <2>2. \A a \in Accounts : failureMap[a].first \in Nat
      BY <1>3 DEF AuthTyped
  <2>3. time' = time + 1 /\ time' \in 1 .. MaxTime
      BY <1>3, AuthBoundsAssumption DEF AuthTyped, Later
  <2>4. QED
      BY <1>3, <2>1, <2>2, <2>3 DEF AuthTyped, Later
<1>4. ASSUME AuthTyped, AuthRestart PROVE AuthTyped'
  <2>1. Len(entries) \in 0 .. MaxEntries /\ since \in Seq(0 .. MaxEntries)
      BY <1>4, AuthBoundsAssumption, LenProperties DEF AuthTyped
  <2>2. since' = Append(since, Len(entries)) /\ UNCHANGED <<entries, reports, time>>
        /\ recentLogs' = <<>> /\ failureMap' = NoFailures
      BY <1>4 DEF AuthRestart
  <2>3. /\ since' \in Seq(0 .. MaxEntries) /\ DOMAIN since' = 1 .. Len(since) + 1
        /\ \A r \in 1 .. Len(since) : since'[r] = since[r]
        /\ since'[Len(since) + 1] = Len(entries) /\ DOMAIN since = 1 .. Len(since)
        /\ Len(since) \in Nat
      BY <2>1, <2>2, AppendProperties, LenProperties
  <2>4. \A r \in DOMAIN since' : since'[r] <= Len(entries')
    <3>1. TAKE r \in DOMAIN since'
    <3>2. r \in 1 .. Len(since) \/ r = Len(since) + 1
        BY <2>3
    <3>3. QED
        BY <1>4, <2>1, <2>2, <2>3, <3>2 DEF AuthTyped
  <2>5. failureMap' \in [Accounts -> [count : 0 .. Threshold - 1, first : 0 .. MaxTime]]
        /\ \A a \in Accounts : failureMap'[a].first <= time'
      BY <1>4, <2>2, FailureAssumption, AuthBoundsAssumption DEF NoFailures, AuthTyped
  <2>6. <<>> \in Seq(Entries) /\ Len(<<>>) <= MaxRecent
      BY AuthBoundsAssumption
  <2>7. QED
      BY <1>4, <2>2, <2>3, <2>4, <2>5, <2>6 DEF AuthTyped
<1>5. ASSUME AuthTyped, UNCHANGED authVars PROVE AuthTyped'
    BY <1>5 DEF AuthTyped, authVars
<1>6. QED
    BY <1>1, <1>2, <1>3, <1>4, <1>5, AuthSteps

(* What is over does not change: the entries read, what was reported of    *)
(* them, and between which of them the daemon restarted.                   *)
ReportsOf(i) == {x \in {reports[r] : r \in DOMAIN reports} : x.at = i}
RestartIn(j, i) == \E r \in DOMAIN since : j <= since[r] /\ since[r] < i
PastKept ==
  /\ Len(entries) <= Len(entries')
  /\ \A i \in DOMAIN entries :
       /\ i \in DOMAIN entries' /\ entries'[i] = entries[i]
       /\ ReportsOf(i)' = ReportsOf(i)
       /\ \A j \in 1 .. i :
            /\ RestartIn(j, i)' <=> RestartIn(j, i)
            /\ \A a : FailuresOf(a, j, i)' = FailuresOf(a, j, i)

LEMMA AnalyzeKeepsPast ==
  ASSUME AuthTyped, NEW e \in Entries, Analyze(e) PROVE PastKept
<1> DEFINE n == Len(entries)
           x == [entry |-> e, time |-> time]
<1>1. /\ entries \in Seq(Timed) /\ n \in Nat /\ entries' = Append(entries, x) /\ x \in Timed
      /\ since' = since /\ reports \in Seq(Told) /\ reports' = reports \o ReportOf(e)
    BY LenProperties DEF Analyze, Timed, AuthTyped
<1> HIDE DEF x
<1>2. /\ Len(entries') = n + 1 /\ DOMAIN entries' = 1 .. n + 1 /\ DOMAIN entries = 1 .. n
      /\ \A i \in 1 .. n : entries'[i] = entries[i]
    BY <1>1, Appended, Members
<1>3. ASSUME NEW i \in DOMAIN entries PROVE ReportsOf(i)' = ReportsOf(i)
  <2>1. CASE ReportOf(e) = <<>>
    <3>1. reports' = reports
        BY <1>1, <2>1, ConcatEmptySeq
    <3>2. QED
        BY <3>1 DEF ReportsOf
  <2>2. ASSUME NEW y \in Told, ReportOf(e) = <<y>>, y.at = n + 1
        PROVE  ReportsOf(i)' = ReportsOf(i)
    <3>1. reports' = Append(reports, y)
        BY <1>1, <2>2, AppendIsConcat
    <3>2. /\ DOMAIN reports' = 1 .. Len(reports) + 1 /\ Len(reports) \in Nat
          /\ \A r \in 1 .. Len(reports) : reports'[r] = reports[r]
          /\ reports'[Len(reports) + 1] = y /\ DOMAIN reports = 1 .. Len(reports)
        BY <1>1, <3>1, Appended, Members
    <3>3. {reports'[r] : r \in DOMAIN reports'} = {reports[r] : r \in DOMAIN reports} \cup {y}
        BY <3>2
    <3>4. i # n + 1
        BY <1>1, <1>2
    <3>5. QED
        BY <2>2, <3>3, <3>4 DEF ReportsOf
  <2>3. QED
      BY <2>1, <2>2, ReportCases
<1>4. ASSUME NEW i \in DOMAIN entries, NEW j \in 1 .. i, NEW a
      PROVE  FailuresOf(a, j, i)' = FailuresOf(a, j, i)
  <2>1. i \in 0 .. Len(entries) /\ j \in Nat \ {0}
      BY <1>1, <1>2
  <2>2. FailuresIn(Append(entries, x), a, j, i) = FailuresIn(entries, a, j, i)
      BY <1>1, <2>1, FailuresInSame
  <2>3. QED
      BY <1>1, <2>2, FailuresOfIn
<1>5. QED
    BY <1>1, <1>2, <1>3, <1>4 DEF PastKept, RestartIn

LEMMA OthersKeepPast ==
  AuthTyped /\ (Later \/ AuthRestart \/ UNCHANGED authVars) => PastKept
<1>1. ASSUME AuthTyped, Later \/ UNCHANGED authVars PROVE PastKept
  <2>1. UNCHANGED <<entries, reports, since>> /\ Len(entries) \in Nat
      BY <1>1, LenProperties DEF Later, authVars, AuthTyped
  <2>2. \A a, j, i : FailuresOf(a, j, i)' = FailuresOf(a, j, i)
      BY <2>1, FailuresOfIn
  <2>3. QED
      BY <2>1, <2>2 DEF PastKept, ReportsOf, RestartIn
<1>2. ASSUME AuthTyped, AuthRestart PROVE PastKept
  <2>1. /\ UNCHANGED <<entries, reports>> /\ Len(entries) \in Nat
        /\ DOMAIN entries = 1 .. Len(entries)
        /\ since' = Append(since, Len(entries)) /\ since \in Seq(0 .. MaxEntries)
        /\ Len(entries) \in 0 .. MaxEntries
      BY <1>2, Members, AuthBoundsAssumption DEF AuthRestart, AuthTyped
  <2>2. /\ DOMAIN since' = 1 .. Len(since) + 1 /\ DOMAIN since = 1 .. Len(since)
        /\ \A r \in 1 .. Len(since) : since'[r] = since[r]
        /\ since'[Len(since) + 1] = Len(entries) /\ Len(since) \in Nat
      BY <2>1, Appended, Members
  <2>3. \A a, j, i : FailuresOf(a, j, i)' = FailuresOf(a, j, i)
      BY <2>1, FailuresOfIn
  <2>4. ASSUME NEW i \in DOMAIN entries, NEW j \in 1 .. i
        PROVE  RestartIn(j, i)' <=> RestartIn(j, i)
      BY <2>1, <2>2 DEF RestartIn
  <2>5. QED
      BY <2>1, <2>3, <2>4 DEF PastKept, ReportsOf
<1>3. QED
    BY <1>1, <1>2

-----------------------------------------------------------------------------
(* Who made a change.  The last entries are those since the last start     *)
(* that are not too many entries ago, which is what ChangersRight lets the *)
(* analyser see: this is the invariant behind it.                          *)

RecentInv ==
  LET n == Len(entries)
      m == Len(recentLogs)
  IN  /\ m <= n
      /\ \A k \in 1 .. m : recentLogs[k] = entries[n - m + k].entry
      /\ \A j \in 1 .. n :
           j > n - m <=> n - j < MaxRecent /\ \A r \in DOMAIN since : since[r] < j

ChangerRight(i) ==
  LET e == entries[i].entry
  IN  e.kind = "change" /\ Known(i) =>
        IF e.command \in PasswdChanges /\ e.user \in Changers
          THEN \A r \in DOMAIN reports : reports[r].at # i
          ELSE [at |-> i, type |-> "change", user |-> e.user]
                 \in {reports[r] : r \in DOMAIN reports}

LEMMA ChangerStaysRight ==
  ASSUME AuthTyped, PastKept, NEW i \in DOMAIN entries, ChangerRight(i)
  PROVE  ChangerRight(i)'
<1>1. /\ i \in 1 .. Len(entries) /\ Len(entries) \in Nat /\ DOMAIN entries = 1 .. Len(entries)
      /\ entries'[i] = entries[i]
    BY Members DEF AuthTyped, PastKept
<1>2. \A j \in 1 .. i : entries'[j] = entries[j] /\ (RestartIn(j, i)' <=> RestartIn(j, i))
    BY <1>1 DEF PastKept
<1>3. Visible(i)' = Visible(i) /\ Visible(i) \subseteq 1 .. i
    BY <1>2 DEF Visible, RestartIn
<1>4. \A c : SudoEntries(i, c)' = SudoEntries(i, c) /\ SudoEntries(i, c) \subseteq 1 .. i
    BY <1>2, <1>3 DEF SudoEntries
<1>5. Known(i)' <=> Known(i)
    BY <1>1, <1>2, <1>4 DEF Known
<1>6. ReportsOf(i)' = ReportsOf(i)
    BY DEF PastKept
<1>7. /\ (\A r \in DOMAIN reports' : reports'[r].at # i) <=> ReportsOf(i)' = {}
      /\ (\A r \in DOMAIN reports : reports[r].at # i) <=> ReportsOf(i) = {}
    BY DEF ReportsOf
<1>8. \A user :
        LET x == [at |-> i, type |-> "change", user |-> user]
        IN  /\ x \in {reports'[r] : r \in DOMAIN reports'} <=> x \in ReportsOf(i)'
            /\ x \in {reports[r] : r \in DOMAIN reports} <=> x \in ReportsOf(i)
    BY DEF ReportsOf
<1>9. QED
    BY <1>1, <1>5, <1>6, <1>7, <1>8 DEF ChangerRight

LEMMA RecentHolds ==
  /\ AuthInit => RecentInv
  /\ AuthTyped /\ RecentInv /\ [AuthNext]_authVars => RecentInv'
<1>1. AuthInit => RecentInv
  <2> SUFFICES ASSUME AuthInit PROVE RecentInv
      OBVIOUS
  <2>1. Len(entries) = 0 /\ Len(recentLogs) = 0
      BY DEF AuthInit
  <2>2. QED
      BY <2>1 DEF RecentInv
<1>2. ASSUME AuthTyped, RecentInv, NEW e \in Entries, Analyze(e) PROVE RecentInv'
  <2> DEFINE n == Len(entries)
             m == Len(recentLogs)
             x == [entry |-> e, time |-> time]
             all == Append(recentLogs, e)
  <2>1. /\ entries \in Seq(Timed) /\ entries' = Append(entries, x) /\ x \in Timed
        /\ since' = since /\ recentLogs \in Seq(Entries) /\ m <= MaxRecent
        /\ recentLogs' = IF Len(all) > MaxRecent THEN Tail(all) ELSE all
        /\ \A r \in DOMAIN since : since[r] \in Nat /\ since[r] <= n
    <3>1. \A r \in DOMAIN since : since[r] \in 0 .. MaxEntries
        BY <1>2, Members DEF AuthTyped
    <3>2. QED
        BY <1>2, <3>1, AuthBoundsAssumption DEF Analyze, RecentWith, Timed, AuthTyped
  <2>2. n \in Nat /\ m \in Nat /\ MaxRecent \in Nat \ {0}
      BY <2>1, Members, AuthBoundsAssumption
  <2>3. /\ Len(entries') = n + 1 /\ \A i \in 1 .. n : entries'[i] = entries[i]
        /\ entries'[n + 1].entry = e
    <3>1. x.entry = e
        OBVIOUS
    <3> HIDE DEF x
    <3>2. QED
        BY <2>1, <3>1, Appended
  <2>4. /\ all \in Seq(Entries) /\ Len(all) = m + 1 /\ \A k \in 1 .. m : all[k] = recentLogs[k]
        /\ all[m + 1] = e
      BY <2>1, Appended
  <2>5. /\ m <= n
        /\ \A k \in 1 .. m : recentLogs[k] = entries[n - m + k].entry
        /\ \A j \in 1 .. n :
             j > n - m <=> n - j < MaxRecent /\ \A r \in DOMAIN since : since[r] < j
      BY <1>2 DEF RecentInv
  <2> HIDE DEF n, m, all
  <2>6. \A k \in 1 .. m + 1 : all[k] = entries'[n - m + k].entry
    <3>1. TAKE k \in 1 .. m + 1
    <3>2. CASE k = m + 1
      <4>1. n - m + k = n + 1
          BY <2>2, <3>2
      <4>2. all[k] = e
          BY <2>4, <3>2
      <4>3. entries'[n - m + k] = entries'[n + 1]
          BY <4>1, Zenon
      <4>4. QED
          BY <2>3, <4>2, <4>3, Zenon
    <3>3. CASE k # m + 1
      <4>1. k \in 1 .. m /\ n - m + k \in 1 .. n
          BY <2>2, <2>5, <3>3
      <4>2. QED
          BY <2>3, <2>4, <2>5, <4>1
    <3>4. QED
        BY <3>2, <3>3
  <2>7. \A r \in DOMAIN since : since[r] < n + 1
      BY <2>1, <2>2 DEF n
  <2>8. CASE m + 1 > MaxRecent
    <3>1. m = MaxRecent /\ all # <<>>
        BY <2>1, <2>2, <2>4, <2>8, EmptySeq DEF m
    <3>2. recentLogs' = Tail(all)
        BY <2>1, <2>4, <2>8 DEF all
    <3>3. Len(recentLogs') = m /\ \A k \in 1 .. m : recentLogs'[k] = all[k + 1]
        BY <2>2, <2>4, <3>1, <3>2, HeadTailProperties
    <3>4. \A k \in 1 .. m : recentLogs'[k] = entries'[n + 1 - m + k].entry
      <4>1. TAKE k \in 1 .. m
      <4>2. k + 1 \in 1 .. m + 1 /\ n - m + (k + 1) = n + 1 - m + k
          BY <2>2
      <4>3. all[k + 1] = entries'[n - m + (k + 1)].entry
          BY <2>6, <4>2
      <4>4. QED
          BY <3>3, <4>2, <4>3
    <3>5. \A j \in 1 .. n + 1 :
            j > n + 1 - m <=> n + 1 - j < MaxRecent /\ \A r \in DOMAIN since' : since'[r] < j
      <4>1. TAKE j \in 1 .. n + 1
      <4>2. CASE j = n + 1
          BY <2>1, <2>2, <2>7, <3>1, <4>2
      <4>3. CASE j # n + 1
        <5>1. j \in 1 .. n
            BY <2>2, <4>3
        <5>2. j > n - m <=> n - j < MaxRecent /\ \A r \in DOMAIN since : since[r] < j
            BY <2>5, <5>1
        <5>3. QED
            BY <2>1, <2>2, <3>1, <5>1, <5>2
      <4>4. QED
          BY <4>2, <4>3
    <3>6. m <= n + 1
        BY <2>2, <2>5
    <3>7. QED
        BY <2>3, <3>3, <3>4, <3>5, <3>6 DEF RecentInv, n
  <2>9. CASE ~(m + 1 > MaxRecent)
    <3>1. recentLogs' = all /\ Len(recentLogs') = m + 1
        BY <2>1, <2>4, <2>9 DEF all
    <3>2. n + 1 - (m + 1) = n - m /\ m + 1 <= n + 1
        BY <2>2, <2>5
    <3>3. \A j \in 1 .. n + 1 :
            j > n - m <=> n + 1 - j < MaxRecent /\ \A r \in DOMAIN since' : since'[r] < j
      <4>1. TAKE j \in 1 .. n + 1
      <4>2. CASE j = n + 1
          BY <2>1, <2>2, <2>7, <4>2
      <4>3. CASE j # n + 1
        <5>1. j \in 1 .. n
            BY <2>2, <4>3
        <5>2. j > n - m <=> n - j < MaxRecent /\ \A r \in DOMAIN since : since[r] < j
            BY <2>5, <5>1
        <5>3. j > n - m => n + 1 - j < MaxRecent
            BY <2>2, <2>9, <5>1
        <5>4. n + 1 - j < MaxRecent => n - j < MaxRecent
            BY <2>2, <5>1
        <5>5. QED
            BY <2>1, <5>2, <5>3, <5>4
      <4>4. QED
          BY <4>2, <4>3
    <3>4. \A k \in 1 .. m + 1 : recentLogs'[k] = entries'[n + 1 - (m + 1) + k].entry
        BY <2>6, <3>1, <3>2
    <3>5. \A j \in 1 .. n + 1 :
            j > n + 1 - (m + 1)
              <=> n + 1 - j < MaxRecent /\ \A r \in DOMAIN since' : since'[r] < j
        BY <3>2, <3>3
    <3>6. Len(entries') = n + 1
        BY <2>3 DEF n
    <3>7. Len(recentLogs') = m + 1
        BY <3>1
    <3>8. \A k \in 1 .. Len(recentLogs') :
            recentLogs'[k] = entries'[Len(entries') - Len(recentLogs') + k].entry
        BY <2>2, <3>4, <3>6, <3>7
    <3>9. \A j \in 1 .. Len(entries') :
            j > Len(entries') - Len(recentLogs')
              <=> Len(entries') - j < MaxRecent /\ \A r \in DOMAIN since' : since'[r] < j
      <4>1. TAKE j \in 1 .. Len(entries')
      <4>2. /\ j \in 1 .. n + 1 /\ Len(entries') - j = n + 1 - j
            /\ n + 1 - (m + 1) = Len(entries') - Len(recentLogs')
          BY <2>2, <3>6, <3>7
      <4>3. QED
          BY <3>5, <4>2, Zenon
    <3>10. Len(recentLogs') <= Len(entries')
        BY <3>2, <3>6, <3>7
    <3>11. QED
        BY <3>8, <3>9, <3>10, Zenon DEF RecentInv
  <2>10. QED
      BY <2>8, <2>9
<1>3. ASSUME AuthTyped, RecentInv, Later PROVE RecentInv'
    BY <1>3 DEF Later, RecentInv
<1>4. ASSUME AuthTyped, RecentInv, AuthRestart PROVE RecentInv'
  <2> DEFINE n == Len(entries)
  <2>1. /\ entries' = entries /\ recentLogs' = <<>> /\ since' = Append(since, n)
        /\ n \in Nat /\ n \in 0 .. MaxEntries /\ since \in Seq(0 .. MaxEntries)
      BY <1>4, Members, AuthBoundsAssumption DEF AuthRestart, AuthTyped
  <2>2. Len(since) + 1 \in DOMAIN since' /\ since'[Len(since) + 1] = n
      BY <2>1, Appended, Members
  <2>3. Len(recentLogs') = 0
      BY <2>1
  <2>4. ASSUME NEW j \in 1 .. n
        PROVE  ~(j > n - 0) /\ ~\A r \in DOMAIN since' : since'[r] < j
      BY <2>1, <2>2
  <2>5. QED
      BY <2>1, <2>3, <2>4 DEF RecentInv
<1>5. ASSUME RecentInv, UNCHANGED authVars PROVE RecentInv'
    BY <1>5 DEF RecentInv, authVars
<1>6. QED
    BY <1>1, <1>2, <1>3, <1>4, <1>5, AuthSteps

(* The entry analysed: the analyser sees what it may see, and the sudo     *)
(* entry it takes is by the one who made the change if that can be known.  *)
LEMMA ChangerOfThis ==
  ASSUME AuthTyped, AuthTyped', RecentInv', NEW e \in Entries, Analyze(e),
         NEW n, n = Len(entries')
  PROVE  /\ n \in DOMAIN entries' /\ n = Len(entries) + 1 /\ entries'[n].entry = e
         /\ DOMAIN entries' = DOMAIN entries \cup {n}
         /\ Known(n)' /\ e.kind = "change" => InferChanger(recentLogs', e.command) = e.user
<1> DEFINE m == Len(recentLogs')
           x == [entry |-> e, time |-> time]
           S(c) == MentionsIn(recentLogs', c)
<1>1. /\ entries \in Seq(Timed) /\ entries' = Append(entries, x) /\ x \in Timed /\ x.entry = e
      /\ since' = since
    BY DEF Analyze, Timed, AuthTyped
<1> HIDE DEF x
<1>2. /\ n = Len(entries) + 1 /\ n \in Nat \ {0} /\ entries'[n] = x
      /\ DOMAIN entries' = 1 .. n /\ DOMAIN entries = 1 .. n - 1
    <2>1. /\ Len(entries) \in Nat /\ Len(entries') = Len(entries) + 1
          /\ DOMAIN entries' = 1 .. Len(entries) + 1 /\ DOMAIN entries = 1 .. Len(entries)
          /\ entries'[Len(entries) + 1] = x
        BY <1>1, Appended, Members
    <2>2. QED
        BY <2>1
<1>3. recentLogs' \in Seq(Entries) /\ m \in Nat /\ DOMAIN recentLogs' = 1 .. m
    BY Members DEF AuthTyped
<1>4. /\ m <= n
      /\ \A k \in 1 .. m : recentLogs'[k] = entries'[n - m + k].entry
      /\ \A j \in 1 .. n :
           j > n - m <=> n - j < MaxRecent /\ \A r \in DOMAIN since' : since'[r] < j
    BY DEF RecentInv
<1>5. \A r \in DOMAIN since' : since'[r] \in Nat /\ since'[r] < n
  <2>1. \A r \in DOMAIN since : since[r] \in 0 .. MaxEntries /\ since[r] <= Len(entries)
      BY Members DEF AuthTyped
  <2>2. \A r \in DOMAIN since : since[r] \in Nat
      BY <2>1, AuthBoundsAssumption
  <2>3. Len(entries) \in Nat
      BY <1>1, Members
  <2>4. QED
      BY <1>1, <1>2, <2>1, <2>2, <2>3
<1>6. \A j : j \in Visible(n)' <=> j \in 1 .. n /\ j > n - m
  <2>1. TAKE j
  <2>2. j \in Visible(n)' <=> /\ j \in 1 .. n /\ n - j < MaxRecent
                              /\ \A r \in DOMAIN since' : ~(j <= since'[r] /\ since'[r] < n)
      BY DEF Visible
  <2>3. j \in 1 .. n => /\ (\A r \in DOMAIN since' : since'[r] < j)
                             <=> \A r \in DOMAIN since' : ~(j <= since'[r] /\ since'[r] < n)
      BY <1>5
  <2>4. QED
      BY <1>4, <2>2, <2>3
<1> HIDE DEF m
<1>7. ASSUME NEW c, NEW k \in S(c)
      PROVE  n - m + k \in SudoEntries(n, c)' /\ k \in 1 .. m
  <2>1. k \in 1 .. m /\ IsMention(recentLogs'[k], c)
      BY <1>3, <1>7 DEF MentionsIn
  <2>2. n - m + k \in 1 .. n /\ n - m + k > n - m
      BY <1>2, <1>3, <1>4, <2>1
  <2>3. QED
      BY <1>4, <1>6, <2>1, <2>2 DEF SudoEntries
<1>8. ASSUME NEW c, NEW j \in SudoEntries(n, c)'
      PROVE  /\ j - (n - m) \in S(c) /\ j \in 1 .. n
             /\ recentLogs'[j - (n - m)] = entries'[j].entry
  <2>1. j \in 1 .. n /\ j > n - m /\ IsMention(entries'[j].entry, c)
      BY <1>6, <1>8 DEF SudoEntries
  <2>2. j - (n - m) \in 1 .. m /\ n - m + (j - (n - m)) = j
      BY <1>2, <1>3, <1>4, <2>1
  <2>3. recentLogs'[j - (n - m)] = entries'[j].entry
      BY <1>4, <2>2
  <2>4. QED
      BY <1>3, <2>1, <2>2, <2>3 DEF MentionsIn
<1>9. ASSUME Known(n)', e.kind = "change"
      PROVE  InferChanger(recentLogs', e.command) = e.user
  <2> DEFINE c == e.command
             E == SudoEntries(n, c)'
  <2>0. entries'[n].entry = e
      BY <1>1, <1>2
  <2>1. IF e.user = Root THEN E = {}
        ELSE \E j \in E : /\ entries'[j].entry.user = e.user
                          /\ \A k \in E : k > j => entries'[k].entry.user = e.user
    <3> DEFINE F == SudoEntries(n, entries[n].entry.command)'
    <3>1. F = E
        BY <2>0 DEF SudoEntries
    <3>2. IF entries'[n].entry.user = Root THEN F = {}
          ELSE \E j \in F :
                 /\ entries'[j].entry.user = entries'[n].entry.user
                 /\ \A k \in F : k > j => entries'[k].entry.user = entries'[n].entry.user
        BY <1>9 DEF Known
    <3> HIDE DEF E, F
    <3>3. QED
        BY <2>0, <3>1, <3>2
  <2>2. CASE e.user = Root
    <3>1. S(c) = {}
        BY <1>7, <2>1, <2>2
    <3>2. QED
        BY <1>3, <2>2, <3>1, ChangerInferred
  <2>3. CASE e.user # Root
    <3>1. PICK j \in E : /\ entries'[j].entry.user = e.user
                         /\ \A k \in E : k > j => entries'[k].entry.user = e.user
        BY <2>1, <2>3
    <3>2. j - (n - m) \in S(c) /\ j \in 1 .. n
        BY <1>8, <3>1
    <3>3. PICK i \in S(c) : /\ \A k \in S(c) : k <= i
                            /\ InferChanger(recentLogs', c) = recentLogs'[i].user
        BY <1>3, <3>2, ChangerInferred
    <3>4. n - m + i \in E /\ i \in 1 .. m /\ recentLogs'[i] = entries'[n - m + i].entry
        BY <1>4, <1>7
    <3>5. j <= n - m + i
        BY <1>2, <1>3, <3>2, <3>3, <3>4
    <3>6. entries'[n - m + i].entry.user = e.user
      <4>1. CASE j = n - m + i
          BY <3>1, <4>1
      <4>2. CASE j # n - m + i
        <5>1. n - m + i > j
            BY <1>2, <1>3, <3>2, <3>4, <3>5, <4>2
        <5>2. QED
            BY <3>1, <3>4, <5>1
      <4>3. QED
          BY <4>1, <4>2
    <3>7. QED
        BY <3>3, <3>4, <3>6
  <2>4. QED
      BY <2>2, <2>3
<1>10. DOMAIN entries' = DOMAIN entries \cup {n} /\ n \in DOMAIN entries'
    BY <1>2
<1>11. QED
    BY <1>1, <1>2, <1>9, <1>10

LEMMA ChangersHold ==
  /\ AuthInit => ChangersRight
  /\ AuthTyped /\ AuthTyped' /\ RecentInv' /\ ChangersRight /\ [AuthNext]_authVars
       => ChangersRight'
<1>0. ChangersRight <=> \A i \in DOMAIN entries : ChangerRight(i)
    BY DEF ChangersRight, ChangerRight
<1>00. ChangersRight' <=> \A i \in DOMAIN entries' : ChangerRight(i)'
    BY DEF ChangersRight, ChangerRight
<1>1. AuthInit => ChangersRight
    BY DEF AuthInit, ChangersRight
<1>2. ASSUME AuthTyped, AuthTyped', RecentInv', ChangersRight, NEW e \in Entries, Analyze(e)
      PROVE  ChangersRight'
  <2>0. PICK n : n = Len(entries')
      OBVIOUS
  <2> DEFINE changer == InferChanger(recentLogs', e.command)
  <2>1. PastKept
      BY <1>2, AnalyzeKeepsPast
  <2>2. /\ n = Len(entries) + 1 /\ entries'[n].entry = e
        /\ DOMAIN entries' = DOMAIN entries \cup {n}
        /\ Known(n)' /\ e.kind = "change" => changer = e.user
      BY <1>2, <2>0, ChangerOfThis
  <2>3. ASSUME NEW i \in DOMAIN entries PROVE ChangerRight(i)'
      BY <1>0, <1>2, <2>1, ChangerStaysRight
  <2>4. ChangerRight(n)'
    <3>1. SUFFICES ASSUME e.kind = "change", Known(n)'
                   PROVE  IF e.command \in PasswdChanges /\ e.user \in Changers
                            THEN \A r \in DOMAIN reports' : reports'[r].at # n
                            ELSE [at |-> n, type |-> "change", user |-> e.user]
                                   \in {reports'[r] : r \in DOMAIN reports'}
        BY <2>2 DEF ChangerRight
    <3>2. ~TooManyFailures(e) /\ ~UnauthorisedSudo(e)
        BY <3>1 DEF TooManyFailures, Failures, UnauthorisedSudo
    <3>3. changer = e.user /\ recentLogs' = RecentWith(e)
        BY <1>2, <2>2, <3>1 DEF Analyze
    <3>4. ReportOf(e) = IF e.command \in PasswdChanges /\ e.user \in Changers THEN <<>>
                        ELSE <<[at |-> n, type |-> "change", user |-> e.user]>>
        BY <2>2, <3>1, <3>2, <3>3 DEF ReportOf
    <3>5. /\ reports \in Seq(Told) /\ reports' = reports \o ReportOf(e)
          /\ \A r \in DOMAIN reports : reports[r].at <= Len(entries)
        BY <1>2 DEF Analyze, AuthTyped
    <3>6. CASE e.command \in PasswdChanges /\ e.user \in Changers
      <4>1. reports' = reports
          BY <3>4, <3>5, <3>6, ConcatEmptySeq
      <4>2. Len(entries) \in Nat /\ \A r \in DOMAIN reports : reports[r].at \in Nat
        <5>1. \A r \in DOMAIN reports : reports[r] \in Told
            BY <3>5, Members
        <5>2. QED
            BY <1>2, <5>1, Members DEF Told, AuthTyped
      <4>3. \A r \in DOMAIN reports : reports[r].at # Len(entries) + 1
          BY <3>5, <4>2
      <4>4. QED
          BY <2>2, <3>6, <4>1, <4>3
    <3>7. CASE ~(e.command \in PasswdChanges /\ e.user \in Changers)
      <4> DEFINE y == [at |-> n, type |-> "change", user |-> e.user]
      <4>1. ReportOf(e) = <<y>>
          BY <3>4, <3>7
      <4>2. y \in Told
        <5>1. e.user \in Actors
            BY <3>1, KindsOfEntries
        <5>2. n \in Nat \ {0}
            BY <1>2, <2>0, <2>2, Members DEF AuthTyped
        <5>3. QED
            BY <5>1, <5>2 DEF Told
      <4> HIDE DEF y
      <4>3. reports' = Append(reports, y)
          BY <3>5, <4>1, <4>2, AppendIsConcat
      <4>4. Len(reports) + 1 \in DOMAIN reports' /\ reports'[Len(reports) + 1] = y
          BY <3>5, <4>2, <4>3, Appended, Members
      <4>5. y \in {reports'[r] : r \in DOMAIN reports'}
          BY <4>4
      <4>6. QED
          BY <3>7, <4>5 DEF y
    <3>8. QED
        BY <3>6, <3>7
  <2>5. QED
      BY <1>00, <2>2, <2>3, <2>4
<1>3. ASSUME AuthTyped, ChangersRight, Later \/ AuthRestart \/ UNCHANGED authVars
      PROVE  ChangersRight'
  <2>1. entries' = entries /\ PastKept
      BY <1>3, OthersKeepPast DEF Later, AuthRestart, authVars
  <2>2. ASSUME NEW i \in DOMAIN entries PROVE ChangerRight(i)'
      BY <1>0, <1>3, <2>1, ChangerStaysRight
  <2>3. QED
      BY <1>00, <2>1, <2>2
<1>4. QED
    BY <1>1, <1>2, <1>3, AuthSteps

-----------------------------------------------------------------------------
(* The failures.  Of the user's failures that are not reported, the map    *)
(* has those of the window that began at `first': at least the count it    *)
(* has is there since an entry of that time (FailuresThere), and since any *)
(* entry that no report and no restart followed there are none of which    *)
(* the map does not know, or at most the Threshold - 1 of the window       *)
(* before, which began before that entry (FailuresKnown).                  *)

NoReportSince(a, j) ==
  \A r \in DOMAIN reports :
    reports[r].type = "failures" /\ reports[r].user = a => reports[r].at < j
FailuresThere(a) ==
  failureMap[a].count > 0 =>
    \E j \in DOMAIN entries :
      /\ entries[j].time = failureMap[a].first /\ NoReportSince(a, j)
      /\ FailuresOf(a, j, Len(entries)) >= failureMap[a].count
FailuresKnown(a) ==
  LET f == failureMap[a]
  IN  \A j \in DOMAIN entries :
        NoReportSince(a, j) /\ (\A r \in DOMAIN since : since[r] < j) =>
          LET n == FailuresOf(a, j, Len(entries))
          IN  IF f.count = 0 THEN n = 0
              ELSE /\ entries[j].time > f.first => n <= f.count
                   /\ f.first - entries[j].time <= FailWindow => n < f.count + Threshold
FailuresInv == \A a \in Accounts : FailuresThere(a) /\ FailuresKnown(a)

(* One entry more: what there is of failures, of reports and in the map.   *)
LEMMA EntryAdded ==
  ASSUME AuthTyped, NEW e \in Entries, Analyze(e), NEW n, n = Len(entries)
  PROVE  /\ n \in Nat /\ Len(entries') = n + 1
         /\ DOMAIN entries = 1 .. n /\ DOMAIN entries' = 1 .. n + 1
         /\ \A j \in 1 .. n : entries'[j] = entries[j] /\ entries[j].time \in Nat
                              /\ entries[j].time <= time
         /\ entries'[n + 1] = [entry |-> e, time |-> time]
         /\ \A a : \A j \in 1 .. n :
              /\ FailuresOf(a, j, n) \in Nat
              /\ FailuresOf(a, j, n + 1)'
                   = FailuresOf(a, j, n) + FailuresBy(e, a)
         /\ \A a : FailuresOf(a, n + 1, n + 1)' = FailuresBy(e, a)
         /\ \A a : \A j \in 1 .. n + 1 :
              NoReportSince(a, j)' <=>
                (j \in 1 .. n => NoReportSince(a, j)) /\ ~(TooManyFailures(e) /\ e.user = a)
<1> DEFINE x == [entry |-> e, time |-> time]
<1>1. /\ entries \in Seq(Timed) /\ entries' = Append(entries, x) /\ x \in Timed /\ x.entry = e
      /\ reports \in Seq(Told) /\ reports' = reports \o ReportOf(e)
      /\ \A r \in DOMAIN reports : reports[r].at <= n
      /\ \A i \in DOMAIN entries : entries[i].time <= time
    BY DEF Analyze, Timed, AuthTyped
<1> HIDE DEF x
<1>2. /\ n \in Nat /\ Len(entries') = n + 1
      /\ DOMAIN entries = 1 .. n /\ DOMAIN entries' = 1 .. n + 1
      /\ \A j \in 1 .. n : entries'[j] = entries[j]
      /\ entries'[n + 1] = x
    BY <1>1, Appended, Members
<1>3. \A j \in 1 .. n : entries[j].time \in Nat
  <2>1. \A j \in 1 .. n : entries[j] \in Timed
      BY <1>1, <1>2, Members
  <2>2. QED
      BY <2>1 DEF Timed
<1>4. ASSUME NEW a, NEW j \in 1 .. n
      PROVE  /\ FailuresOf(a, j, n) \in Nat
             /\ FailuresOf(a, j, n + 1)'
                  = FailuresOf(a, j, n) + FailuresBy(e, a)
  <2>1. /\ FailuresOf(a, j, n) = FailuresIn(entries, a, j, n)
        /\ FailuresOf(a, j, n + 1)' = FailuresIn(Append(entries, x), a, j, n + 1)
      BY <1>1, FailuresOfIn
  <2>2. j \in Nat \ {0} /\ n \in 0 .. Len(entries) /\ j \in 1 .. Len(entries) + 1
      BY <1>2
  <2>3. FailuresIn(entries, a, j, n) \in Nat
      BY <1>1, <2>2, FailuresInSame
  <2>4. FailuresIn(Append(entries, x), a, j, n + 1)
          = FailuresIn(entries, a, j, n) + FailuresBy(e, a)
      BY <1>1, <2>2, FailuresAdd
  <2>5. QED
      BY <2>1, <2>3, <2>4
<1>5. ASSUME NEW a
      PROVE  FailuresOf(a, n + 1, n + 1)' = FailuresBy(e, a)
  <2>1. n + 1 \in 1 .. Len(entries) + 1
      BY <1>2
  <2>2. FailuresOf(a, n + 1, n + 1)' = FailuresIn(Append(entries, x), a, n + 1, n + 1)
      BY <1>1, FailuresOfIn
  <2>3. FailuresIn(Append(entries, x), a, n + 1, n + 1)
          = FailuresIn(entries, a, n + 1, n) + FailuresBy(e, a)
      BY <1>1, <2>1, FailuresAdd
  <2>4. FailuresIn(entries, a, n + 1, n) = 0
      BY <1>2 DEF FailuresIn
  <2>5. FailuresBy(e, a) \in Nat
      BY FailuresAreNaturals DEF FailuresBy
  <2>6. QED
      BY <2>2, <2>3, <2>4, <2>5
<1>6. ASSUME NEW a, NEW j \in 1 .. n + 1
      PROVE  NoReportSince(a, j)' <=>
               (j \in 1 .. n => NoReportSince(a, j)) /\ ~(TooManyFailures(e) /\ e.user = a)
  <2>0. \A r \in DOMAIN reports : reports[r].at \in Nat
    <3>1. \A r \in DOMAIN reports : reports[r] \in Told
        BY <1>1, Members
    <3>2. QED
        BY <3>1 DEF Told
  <2>1. j = n + 1 => NoReportSince(a, j)
      BY <1>1, <1>2, <2>0 DEF NoReportSince
  <2>2. j \in 1 .. n \/ j = n + 1
      BY <1>2
  <2>3. CASE ReportOf(e) = <<>> /\ ~TooManyFailures(e)
    <3>1. reports' = reports
        BY <1>1, <2>3, ConcatEmptySeq
    <3>2. QED
        BY <2>1, <2>2, <2>3, <3>1 DEF NoReportSince
  <2>4. ASSUME NEW y \in Told, ReportOf(e) = <<y>>, y.at = n + 1,
               y.type = "failures" <=> TooManyFailures(e),
               y.type = "failures" => y.user = e.user
        PROVE  NoReportSince(a, j)' <=>
                 (j \in 1 .. n => NoReportSince(a, j)) /\ ~(TooManyFailures(e) /\ e.user = a)
    <3>1. reports' = Append(reports, y)
        BY <1>1, <2>4, AppendIsConcat
    <3>2. /\ DOMAIN reports' = 1 .. Len(reports) + 1 /\ Len(reports) \in Nat
          /\ \A r \in 1 .. Len(reports) : reports'[r] = reports[r]
          /\ reports'[Len(reports) + 1] = y /\ DOMAIN reports = 1 .. Len(reports)
        BY <1>1, <3>1, Appended, Members
    <3>3. NoReportSince(a, j)' <=>
            NoReportSince(a, j) /\ (y.type = "failures" /\ y.user = a => y.at < j)
        BY <3>2 DEF NoReportSince
    <3>4. ~(y.at < j)
        BY <1>2, <2>4
    <3>5. QED
        BY <2>1, <2>2, <2>4, <3>3, <3>4
  <2>5. QED
      BY <2>3, <2>4, ReportCases
<1>7. QED
    BY <1>1, <1>2, <1>3, <1>4, <1>5, <1>6 DEF x

LEMMA FailuresHold ==
  /\ AuthInit => FailuresInv
  /\ AuthTyped /\ FailuresInv /\ [AuthNext]_authVars => FailuresInv'
<1>1. AuthInit => FailuresInv
    BY DEF AuthInit, NoFailures, FailuresInv, FailuresThere, FailuresKnown
<1>2. ASSUME AuthTyped, FailuresInv, NEW e \in Entries, Analyze(e), NEW a \in Accounts
      PROVE  FailuresThere(a)' /\ FailuresKnown(a)'
  <2>0. PICK n : n = Len(entries)
      OBVIOUS
  <2>1. /\ n \in Nat /\ Len(entries') = n + 1
        /\ DOMAIN entries = 1 .. n /\ DOMAIN entries' = 1 .. n + 1
        /\ \A j \in 1 .. n : entries'[j] = entries[j] /\ entries[j].time \in Nat
                             /\ entries[j].time <= time
        /\ entries'[n + 1].time = time
        /\ \A j \in 1 .. n :
             /\ FailuresOf(a, j, n) \in Nat
             /\ FailuresOf(a, j, n + 1)'
                  = FailuresOf(a, j, n) + FailuresBy(e, a)
        /\ FailuresOf(a, n + 1, n + 1)' = FailuresBy(e, a)
        /\ \A j \in 1 .. n + 1 :
             NoReportSince(a, j)' <=>
               (j \in 1 .. n => NoReportSince(a, j)) /\ ~(TooManyFailures(e) /\ e.user = a)
    <3>1. entries'[n + 1] = [entry |-> e, time |-> time]
        BY <1>2, <2>0, EntryAdded
    <3>2. entries'[n + 1].time = time
        BY <3>1
    <3>3. n \in Nat /\ Len(entries') = n + 1
          /\ DOMAIN entries = 1 .. n /\ DOMAIN entries' = 1 .. n + 1
        BY <1>2, <2>0, EntryAdded
    <3>4. \A j \in 1 .. n : entries'[j] = entries[j] /\ entries[j].time \in Nat
                            /\ entries[j].time <= time
        BY <1>2, <2>0, EntryAdded
    <3>5. \A j \in 1 .. n :
            /\ FailuresOf(a, j, n) \in Nat
            /\ FailuresOf(a, j, n + 1)'
                 = FailuresOf(a, j, n) + FailuresBy(e, a)
        BY <1>2, <2>0, EntryAdded
    <3>6. FailuresOf(a, n + 1, n + 1)' = FailuresBy(e, a)
        BY <1>2, <2>0, EntryAdded
    <3>7. \A j \in 1 .. n + 1 :
            NoReportSince(a, j)' <=>
              (j \in 1 .. n => NoReportSince(a, j)) /\ ~(TooManyFailures(e) /\ e.user = a)
        BY <1>2, <2>0, EntryAdded
    <3>8. QED
        BY <3>2, <3>3, <3>4, <3>5, <3>6, <3>7
  <2>2. FailuresThere(a) /\ FailuresKnown(a)
      BY <1>2 DEF FailuresInv
  <2>3. since' = since /\ failureMap' = FailureMapWith(e)
        /\ failureMap \in [Accounts -> [count : 0 .. Threshold - 1, first : 0 .. MaxTime]]
        /\ failureMap[a].first <= time /\ time \in Nat
      BY <1>2 DEF Analyze, AuthTyped
  <2> DEFINE f == failureMap[a]
             g == failureMap'[a]
  <2>4. f.count \in Nat /\ f.first \in Nat /\ f.count <= Threshold - 1
        /\ Threshold \in Nat \ {0} /\ FailWindow \in Nat /\ Failures(e) \in Nat
    <3>1. f \in [count : 0 .. Threshold - 1, first : 0 .. MaxTime]
        BY <1>2, <2>3
    <3> HIDE DEF f
    <3>2. QED
        BY <3>1, FailureAssumption, FailuresAreNaturals
  <2>5. f.count > 0 =>
          \E j \in 1 .. n : /\ entries[j].time = f.first /\ NoReportSince(a, j)
                            /\ FailuresOf(a, j, n) >= f.count
      BY <2>0, <2>1, <2>2 DEF FailuresThere
  <2>6. ASSUME NEW j \in 1 .. n, NoReportSince(a, j), \A r \in DOMAIN since : since[r] < j
        PROVE  IF f.count = 0 THEN FailuresOf(a, j, n) = 0
               ELSE /\ entries[j].time > f.first => FailuresOf(a, j, n) <= f.count
                    /\ f.first - entries[j].time <= FailWindow
                         => FailuresOf(a, j, n) < f.count + Threshold
      BY <2>0, <2>1, <2>2, <2>6 DEF FailuresKnown
  (* What is to be shown of the entries that were there, and of the new.   *)
  <2>7. ASSUME g.count > 0 =>
                 \E j \in 1 .. n + 1 :
                   /\ entries'[j].time = g.first /\ NoReportSince(a, j)'
                   /\ FailuresOf(a, j, n + 1)' >= g.count
        PROVE  FailuresThere(a)'
      BY <2>1, <2>7 DEF FailuresThere
  <2>8. ASSUME \A j \in 1 .. n + 1 :
                 NoReportSince(a, j)' /\ (\A r \in DOMAIN since : since[r] < j) =>
                   IF g.count = 0 THEN FailuresOf(a, j, n + 1)' = 0
                   ELSE /\ entries'[j].time > g.first => FailuresOf(a, j, n + 1)' <= g.count
                        /\ g.first - entries'[j].time <= FailWindow
                             => FailuresOf(a, j, n + 1)' < g.count + Threshold
        PROVE  FailuresKnown(a)'
      BY <2>1, <2>3, <2>8 DEF FailuresKnown
  <2>9. \A j \in 1 .. n + 1 : j \in 1 .. n \/ j = n + 1
      BY <2>1
  <2>10. n + 1 \in 1 .. n + 1 /\ n + 1 \notin 1 .. n /\ \A j \in 1 .. n : j \in 1 .. n + 1
      BY <2>1
  <2>11. CASE e.user # a \/ Failures(e) = 0
    <3>1. g = f
        BY <1>2, <2>3, <2>11 DEF FailureMapWith
    <3>2. /\ ~(TooManyFailures(e) /\ e.user = a)
          /\ FailuresBy(e, a) = 0
        BY <2>4, <2>11 DEF TooManyFailures, FailuresBy
    <3>3. /\ \A j \in 1 .. n : /\ FailuresOf(a, j, n + 1)' = FailuresOf(a, j, n)
                               /\ FailuresOf(a, j, n) \in Nat
          /\ FailuresOf(a, n + 1, n + 1)' = 0
        BY <2>1, <3>2
    <3>4. \A j \in 1 .. n : NoReportSince(a, j)' <=> NoReportSince(a, j)
        BY <2>1, <2>10, <3>2
    <3> HIDE DEF f, g
    <3>5. FailuresThere(a)'
        BY <2>1, <2>5, <2>7, <2>10, <3>1, <3>3, <3>4
    <3>6. ASSUME NEW j \in 1 .. n + 1, NoReportSince(a, j)',
                 \A r \in DOMAIN since : since[r] < j
          PROVE  IF g.count = 0 THEN FailuresOf(a, j, n + 1)' = 0
                 ELSE /\ entries'[j].time > g.first => FailuresOf(a, j, n + 1)' <= g.count
                      /\ g.first - entries'[j].time <= FailWindow
                           => FailuresOf(a, j, n + 1)' < g.count + Threshold
      <4>1. CASE j = n + 1
          BY <2>4, <3>1, <3>3, <4>1
      <4>2. CASE j \in 1 .. n
          BY <2>1, <2>6, <3>1, <3>3, <3>4, <3>6, <4>2
      <4>3. QED
          BY <2>9, <4>1, <4>2
    <3>7. QED
        BY <2>8, <3>5, <3>6
  <2>12. CASE e.user = a /\ Failures(e) # 0
    <3> DEFINE c == Counted(e)
    <3>0. Failures(e) > 0
        BY <2>4, <2>12
    <3>1. /\ c = [count |-> c.count, first |-> c.first]
          /\ \/ /\ f.count = 0 \/ time - f.first > FailWindow
                /\ c.count = Failures(e) /\ c.first = time
             \/ /\ f.count > 0 /\ time - f.first <= FailWindow
                /\ c.count = f.count + Failures(e) /\ c.first = f.first
        BY <1>2, <2>12, <3>0, CountedCases
    <3>2. g = IF TooManyFailures(e) THEN [c EXCEPT !.count = 0] ELSE c
        BY <1>2, <2>3, <2>12 DEF FailureMapWith
    <3>3. /\ \A j \in 1 .. n : FailuresOf(a, j, n + 1)' = FailuresOf(a, j, n) + Failures(e)
          /\ FailuresOf(a, n + 1, n + 1)' = Failures(e)
        BY <2>1, <2>12 DEF FailuresBy
    <3> HIDE DEF c, f, g
    <3>4. CASE TooManyFailures(e)
      <4>1. g.count = 0
          BY <3>1, <3>2, <3>4
      <4>2. \A j \in 1 .. n + 1 : ~(NoReportSince(a, j)')
          BY <2>1, <2>12, <3>4
      <4>3. QED
          BY <2>7, <2>8, <4>1, <4>2
    <3>5. CASE ~TooManyFailures(e)
      <4>1. g = c
          BY <3>2, <3>5
      <4>2. /\ \A j \in 1 .. n : NoReportSince(a, j)' <=> NoReportSince(a, j)
            /\ NoReportSince(a, n + 1)'
          BY <2>1, <2>10, <3>5
      <4>3. CASE /\ f.count = 0 \/ time - f.first > FailWindow
                 /\ c.count = Failures(e) /\ c.first = time
        <5>1. FailuresThere(a)'
          <6>1. /\ entries'[n + 1].time = g.first /\ NoReportSince(a, n + 1)'
                /\ FailuresOf(a, n + 1, n + 1)' >= g.count
              BY <2>1, <2>4, <3>3, <4>1, <4>2, <4>3
          <6>2. QED
              BY <2>7, <2>10, <6>1
        <5>2. ASSUME NEW j \in 1 .. n + 1, NoReportSince(a, j)',
                     \A r \in DOMAIN since : since[r] < j
              PROVE  IF g.count = 0 THEN FailuresOf(a, j, n + 1)' = 0
                     ELSE /\ entries'[j].time > g.first => FailuresOf(a, j, n + 1)' <= g.count
                          /\ g.first - entries'[j].time <= FailWindow
                               => FailuresOf(a, j, n + 1)' < g.count + Threshold
          <6>1. CASE j = n + 1
              BY <2>4, <3>0, <3>3, <4>1, <4>3, <6>1
          <6>2. CASE j \in 1 .. n
            <7>1. /\ entries'[j].time = entries[j].time /\ entries[j].time \in Nat
                  /\ entries[j].time <= time /\ FailuresOf(a, j, n) \in Nat
                  /\ FailuresOf(a, j, n + 1)' = FailuresOf(a, j, n) + g.count
                  /\ g.first = time /\ g.count > 0
                BY <2>1, <3>0, <3>3, <4>1, <4>3, <6>2
            <7>2. time - entries[j].time <= FailWindow => FailuresOf(a, j, n) < Threshold
              <8>1. SUFFICES ASSUME time - entries[j].time <= FailWindow
                             PROVE  FailuresOf(a, j, n) < Threshold
                  OBVIOUS
              <8>2. f.count # 0 => entries[j].time > f.first
                  BY <2>3, <2>4, <4>3, <7>1, <8>1 DEF f
              <8>3. FailuresOf(a, j, n) <= f.count
                  BY <2>4, <2>6, <4>2, <5>2, <6>2, <7>1, <8>2
              <8>4. QED
                  BY <2>4, <7>1, <8>3
            <7>3. QED
                BY <2>3, <2>4, <3>0, <4>1, <4>3, <7>1, <7>2
          <6>3. QED
              BY <2>9, <6>1, <6>2
        <5>3. QED
            BY <2>8, <5>1, <5>2
      <4>4. CASE /\ f.count > 0 /\ time - f.first <= FailWindow
                 /\ c.count = f.count + Failures(e) /\ c.first = f.first
        <5>1. FailuresThere(a)'
          <6>1. PICK j \in 1 .. n : /\ entries[j].time = f.first /\ NoReportSince(a, j)
                                    /\ FailuresOf(a, j, n) >= f.count
              BY <2>5, <4>4
          <6>2. /\ j \in 1 .. n + 1 /\ entries'[j].time = g.first /\ NoReportSince(a, j)'
                /\ FailuresOf(a, j, n + 1)' >= g.count
              BY <2>1, <2>4, <2>10, <3>3, <4>1, <4>2, <4>4, <6>1
          <6>3. QED
              BY <2>7, <6>2
        <5>2. ASSUME NEW j \in 1 .. n + 1, NoReportSince(a, j)',
                     \A r \in DOMAIN since : since[r] < j
              PROVE  IF g.count = 0 THEN FailuresOf(a, j, n + 1)' = 0
                     ELSE /\ entries'[j].time > g.first => FailuresOf(a, j, n + 1)' <= g.count
                          /\ g.first - entries'[j].time <= FailWindow
                               => FailuresOf(a, j, n + 1)' < g.count + Threshold
          <6>1. CASE j = n + 1
              BY <2>4, <3>0, <3>3, <4>1, <4>4, <6>1
          <6>2. CASE j \in 1 .. n
            <7>1. /\ entries'[j].time = entries[j].time /\ FailuresOf(a, j, n) \in Nat
                  /\ FailuresOf(a, j, n + 1)' = FailuresOf(a, j, n) + Failures(e)
                BY <2>1, <3>3, <6>2
            <7>2. /\ entries[j].time > f.first => FailuresOf(a, j, n) <= f.count
                  /\ f.first - entries[j].time <= FailWindow
                       => FailuresOf(a, j, n) < f.count + Threshold
                BY <2>4, <2>6, <4>2, <4>4, <5>2, <6>2
            <7>3. QED
                BY <2>4, <3>0, <4>1, <4>4, <7>1, <7>2
          <6>3. QED
              BY <2>9, <6>1, <6>2
        <5>3. QED
            BY <2>8, <5>1, <5>2
      <4>5. QED
          BY <3>1, <4>3, <4>4
    <3>6. QED
        BY <3>4, <3>5
  <2>13. QED
      BY <2>11, <2>12
<1>3. ASSUME AuthTyped, FailuresInv, Later PROVE FailuresInv'
  <2>1. UNCHANGED <<entries, failureMap, reports, since>>
      BY <1>3 DEF Later
  <2>2. \A a, j, i : FailuresOf(a, j, i)' = FailuresOf(a, j, i)
      BY <2>1, FailuresOfIn
  <2>3. QED
      BY <1>3, <2>1, <2>2 DEF FailuresInv, FailuresThere, FailuresKnown, NoReportSince
<1>4. ASSUME AuthTyped, FailuresInv, AuthRestart, NEW a \in Accounts
      PROVE  FailuresThere(a)' /\ FailuresKnown(a)'
  <2>1. failureMap'[a].count = 0
      BY <1>4 DEF AuthRestart, NoFailures
  <2>2. /\ entries' = entries /\ since' = Append(since, Len(entries))
        /\ since \in Seq(0 .. MaxEntries) /\ Len(entries) \in 0 .. MaxEntries
        /\ DOMAIN entries = 1 .. Len(entries)
      BY <1>4, Members, AuthBoundsAssumption DEF AuthRestart, AuthTyped
  <2>3. Len(since) + 1 \in DOMAIN since' /\ since'[Len(since) + 1] = Len(entries)
      BY <2>2, Appended, Members
  <2>4. \A j \in DOMAIN entries' : ~\A r \in DOMAIN since' : since'[r] < j
      BY <2>2, <2>3
  <2>5. QED
      BY <2>1, <2>4 DEF FailuresThere, FailuresKnown
<1>5. ASSUME FailuresInv, UNCHANGED authVars PROVE FailuresInv'
  <2>1. UNCHANGED <<entries, failureMap, reports, since>>
      BY <1>5 DEF authVars
  <2>2. \A a, j, i : FailuresOf(a, j, i)' = FailuresOf(a, j, i)
      BY <2>1, FailuresOfIn
  <2>3. QED
      BY <1>5, <2>1, <2>2 DEF FailuresInv, FailuresThere, FailuresKnown, NoReportSince
<1>6. ASSUME AuthTyped, FailuresInv, [AuthNext]_authVars PROVE FailuresInv'
  <2>1. CASE \E e \in Entries : Analyze(e)
      BY <1>2, <1>6, <2>1 DEF FailuresInv
  <2>2. CASE AuthRestart
      BY <1>4, <1>6, <2>2 DEF FailuresInv
  <2>3. QED
      BY <1>3, <1>5, <1>6, <2>1, <2>2, AuthSteps
<1>7. QED
    BY <1>1, <1>6

(* The last report before an entry is one, or 0; of a state and the next.  *)
LEMMA LastReportFound ==
  ASSUME NEW a, NEW i \in Nat \ {0}
  PROVE  /\ LastReportBefore(a, i) \in 0 .. i - 1
         /\ LastReportBefore(a, i) # 0 => ReportedAt(a, LastReportBefore(a, i))
         /\ LastReportBefore(a, i)' \in 0 .. i - 1
         /\ \A k : k = LastReportBefore(a, i)' /\ k # 0 => ReportedAt(a, k)'
<1>1. ASSUME NEW P
      PROVE  LET E == {0} \cup {k \in 1 .. i - 1 : k \in P}
                 l == CHOOSE k \in E : \A m \in E : m <= k
             IN  l \in 0 .. i - 1 /\ (l # 0 => l \in P)
  <2> DEFINE E == {0} \cup {k \in 1 .. i - 1 : k \in P}
             l == CHOOSE k \in E : \A m \in E : m <= k
  <2>1. E \subseteq 0 .. i - 1 /\ E # {} /\ i - 1 \in Nat
      OBVIOUS
  <2>2. \A k \in E : k = 0 \/ k \in P
      OBVIOUS
  <2> HIDE DEF E
  <2>3. \E k \in E : \A m \in E : m <= k
      BY <2>1, LargestExists
  <2>4. l \in E
      BY <2>3
  <2> HIDE DEF l
  <2>5. l \in 0 .. i - 1 /\ (l # 0 => l \in P)
      BY <2>1, <2>2, <2>4
  <2>6. QED
      BY <2>5 DEF l, E
<1>2. LastReportBefore(a, i) \in 0 .. i - 1
      /\ (LastReportBefore(a, i) # 0 => ReportedAt(a, LastReportBefore(a, i)))
  <2> DEFINE P == {k \in 1 .. i - 1 : ReportedAt(a, k)}
             E == {0} \cup {k \in 1 .. i - 1 : k \in P}
  <2>1. E = {0} \cup P
      OBVIOUS
  <2>2. LastReportBefore(a, i) = CHOOSE k \in E : \A m \in E : m <= k
      BY <2>1 DEF LastReportBefore
  <2>3. \A k \in P : ReportedAt(a, k)
      OBVIOUS
  <2> HIDE DEF P
  <2>4. QED
      BY <1>1, <2>2, <2>3
<1>3. LastReportBefore(a, i)' \in 0 .. i - 1
      /\ \A k : k = LastReportBefore(a, i)' /\ k # 0 => ReportedAt(a, k)'
  <2> DEFINE P == {k \in 1 .. i - 1 : ReportedAt(a, k)'}
             E == {0} \cup {k \in 1 .. i - 1 : k \in P}
  <2>1. E = {0} \cup P
      OBVIOUS
  <2>2. LastReportBefore(a, i)' = CHOOSE k \in E : \A m \in E : m <= k
      BY <2>1 DEF LastReportBefore
  <2>3. \A k \in P : ReportedAt(a, k)'
      OBVIOUS
  <2> HIDE DEF P
  <2>4. PICK l : l = LastReportBefore(a, i)'
      OBVIOUS
  <2>5. l \in 0 .. i - 1 /\ (l # 0 => l \in P)
    <3>1. l = CHOOSE k \in E : \A m \in E : m <= k
        BY <2>2, <2>4
    <3>2. QED
        BY <1>1, <3>1
  <2>6. QED
      BY <2>3, <2>4, <2>5
<1>4. QED
    BY <1>2, <1>3

JustifiedAt(a, i) ==
  ReportedAt(a, i) =>
    \E j \in LastReportBefore(a, i) + 1 .. i :
      /\ entries[i].time - entries[j].time <= FailWindow
      /\ FailuresOf(a, j, i) >= Threshold
BurstAt(a, j, i) ==
  /\ entries[i].time - entries[j].time <= FailWindow
  /\ \A k \in j .. i : ~ReportedAt(a, k)
  /\ ~RestartIn(j, i)
  => FailuresOf(a, j, i) < 2 * Threshold - 1

LEMMA OldFailuresStay ==
  ASSUME AuthTyped, PastKept, NEW a, NEW i \in DOMAIN entries
  PROVE  /\ JustifiedAt(a, i) => JustifiedAt(a, i)'
         /\ \A j \in 1 .. i : BurstAt(a, j, i) => BurstAt(a, j, i)'
<1>1. i \in 1 .. Len(entries) /\ Len(entries) \in Nat /\ DOMAIN entries = 1 .. Len(entries)
    BY Members DEF AuthTyped
<1>2. \A k \in 1 .. i : /\ entries'[k] = entries[k] /\ ReportsOf(k)' = ReportsOf(k)
                        /\ RestartIn(k, i)' <=> RestartIn(k, i)
                        /\ FailuresOf(a, k, i)' = FailuresOf(a, k, i)
    BY <1>1 DEF PastKept
<1>3. \A k : /\ ReportedAt(a, k) <=>
                  \E x \in ReportsOf(k) : x.type = "failures" /\ x.user = a
             /\ ReportedAt(a, k)' <=>
                  \E x \in ReportsOf(k)' : x.type = "failures" /\ x.user = a
    BY DEF ReportedAt, ReportsOf
<1>4. \A k \in 1 .. i : ReportedAt(a, k)' <=> ReportedAt(a, k)
    BY <1>2, <1>3
<1>5. i \in 1 .. i /\ \A k \in 1 .. i : \A l \in k .. i : l \in 1 .. i
    BY <1>1
<1>6. LastReportBefore(a, i)' = LastReportBefore(a, i)
  <2>1. {k \in 1 .. i - 1 : ReportedAt(a, k)'} = {k \in 1 .. i - 1 : ReportedAt(a, k)}
      BY <1>1, <1>4
  <2>2. QED
      BY <2>1 DEF LastReportBefore
<1>7. LastReportBefore(a, i) \in 0 .. i - 1
    BY <1>1, LastReportFound
<1>8. JustifiedAt(a, i) => JustifiedAt(a, i)'
  <2> DEFINE l == LastReportBefore(a, i)
  <2>1. \A j \in l + 1 .. i : j \in 1 .. i
      BY <1>1, <1>7
  <2> HIDE DEF l
  <2>2. LastReportBefore(a, i) = l /\ LastReportBefore(a, i)' = l
      BY <1>6 DEF l
  <2>3. QED
      BY <1>2, <1>4, <1>5, <2>1, <2>2 DEF JustifiedAt
<1>9. ASSUME NEW j \in 1 .. i, BurstAt(a, j, i) PROVE BurstAt(a, j, i)'
    BY <1>2, <1>4, <1>5, <1>9 DEF BurstAt
<1>10. QED
    BY <1>8, <1>9

LEMMA FailureReportsHold ==
  /\ AuthInit => FailureReportsJustified /\ BurstsReported
  /\ /\ AuthTyped /\ AuthTyped' /\ FailuresInv /\ FailuresInv'
     /\ FailureReportsJustified /\ BurstsReported /\ [AuthNext]_authVars
     => FailureReportsJustified' /\ BurstsReported'
<1> DEFINE Old(a, i) == JustifiedAt(a, i) /\ \A j \in 1 .. i : BurstAt(a, j, i)
<1>1. AuthInit => FailureReportsJustified /\ BurstsReported
    BY DEF AuthInit, FailureReportsJustified, BurstsReported
<1>2. ASSUME AuthTyped, FailureReportsJustified, BurstsReported,
             NEW a \in Accounts, NEW i \in DOMAIN entries
      PROVE  Old(a, i)
  <2>1. JustifiedAt(a, i)
      BY <1>2 DEF FailureReportsJustified, JustifiedAt
  <2>2. ASSUME NEW j \in 1 .. i PROVE BurstAt(a, j, i)
    <3>1. DOMAIN entries = 1 .. Len(entries) /\ Len(entries) \in Nat
        BY <1>2, Members DEF AuthTyped
    <3>2. j \in DOMAIN entries /\ i \in j .. Len(entries)
        BY <3>1
    <3>3. QED
        BY <1>2, <3>2 DEF BurstsReported, BurstAt, RestartIn
  <2>3. QED
      BY <2>1, <2>2
<1>3. ASSUME AuthTyped',
             \A a \in Accounts : \A i \in DOMAIN entries' : Old(a, i)'
      PROVE  FailureReportsJustified' /\ BurstsReported'
  <2>1. DOMAIN entries' = 1 .. Len(entries') /\ Len(entries') \in Nat
      BY <1>3, Members DEF AuthTyped
  <2>2. \A j \in DOMAIN entries' : \A i \in j .. Len(entries') :
          i \in DOMAIN entries' /\ j \in 1 .. i
      BY <2>1
  <2>3. \A a \in Accounts : \A i \in DOMAIN entries' : JustifiedAt(a, i)'
      BY <1>3
  <2>4. FailureReportsJustified'
      BY <2>3 DEF FailureReportsJustified, JustifiedAt
  <2>5. \A a \in Accounts : \A j \in DOMAIN entries' : \A i \in j .. Len(entries') :
          BurstAt(a, j, i)'
      BY <1>3, <2>2
  <2>6. QED
      BY <2>4, <2>5 DEF BurstsReported, BurstAt, RestartIn
<1>4. ASSUME AuthTyped, AuthTyped', FailuresInv, FailuresInv', NEW e \in Entries, Analyze(e),
             NEW a \in Accounts, NEW m, m = Len(entries) + 1
      PROVE  JustifiedAt(a, m)' /\ \A j \in 1 .. m : BurstAt(a, j, m)'
  <2>0. PICK n : n = Len(entries)
      OBVIOUS
  <2>1. /\ n \in Nat /\ m = n + 1 /\ Len(entries') = m
        /\ DOMAIN entries = 1 .. n /\ DOMAIN entries' = 1 .. m
        /\ \A j \in 1 .. n : entries'[j] = entries[j]
        /\ entries'[m].time = time /\ time \in Nat /\ time' = time /\ since' = since
        /\ \A j \in 1 .. n :
             /\ FailuresOf(a, j, n) \in Nat
             /\ FailuresOf(a, j, m)'
                  = FailuresOf(a, j, n) + FailuresBy(e, a)
        /\ FailuresOf(a, m, m)' = FailuresBy(e, a)
        /\ \A j \in 1 .. m :
             NoReportSince(a, j)' <=>
               (j \in 1 .. n => NoReportSince(a, j)) /\ ~(TooManyFailures(e) /\ e.user = a)
    <3>1. entries'[n + 1] = [entry |-> e, time |-> time]
        BY <1>4, <2>0, EntryAdded
    <3>2. entries'[m].time = time /\ m = n + 1
        BY <1>4, <2>0, <3>1
    <3>3. time \in Nat /\ time' = time /\ since' = since
        BY <1>4 DEF Analyze, AuthTyped
    <3>4. n \in Nat /\ Len(entries') = n + 1
          /\ DOMAIN entries = 1 .. n /\ DOMAIN entries' = 1 .. n + 1
          /\ \A j \in 1 .. n : entries'[j] = entries[j]
        BY <1>4, <2>0, EntryAdded
    <3>5. \A j \in 1 .. n :
            /\ FailuresOf(a, j, n) \in Nat
            /\ FailuresOf(a, j, n + 1)' = FailuresOf(a, j, n) + FailuresBy(e, a)
        BY <1>4, <2>0, EntryAdded
    <3>6. FailuresOf(a, n + 1, n + 1)' = FailuresBy(e, a)
        BY <1>4, <2>0, EntryAdded
    <3>7. \A j \in 1 .. n + 1 :
            NoReportSince(a, j)' <=>
              (j \in 1 .. n => NoReportSince(a, j)) /\ ~(TooManyFailures(e) /\ e.user = a)
        BY <1>4, <2>0, EntryAdded
    <3>8. QED
        BY <3>2, <3>3, <3>4, <3>5, <3>6, <3>7
  <2>2. /\ failureMap[a].count \in Nat /\ failureMap[a].first \in Nat
        /\ Threshold \in Nat \ {0} /\ FailWindow \in Nat /\ Failures(e) \in Nat
    <3>1. failureMap[a] \in [count : 0 .. Threshold - 1, first : 0 .. MaxTime]
        BY <1>4 DEF AuthTyped
    <3>2. QED
        BY <3>1, FailureAssumption, FailuresAreNaturals
  <2>3. \A r \in DOMAIN reports' : reports'[r].at \in Nat \ {0} /\ reports'[r].at <= m
    <3>1. \A r \in DOMAIN reports' : reports'[r] \in Told
        BY <1>4, Members DEF AuthTyped
    <3>2. QED
        BY <1>4, <2>1, <3>1 DEF Told, AuthTyped
  <2>4. JustifiedAt(a, m)'
    <3>1. SUFFICES ASSUME ReportedAt(a, m)'
                   PROVE  \E j \in LastReportBefore(a, m)' + 1 .. m :
                            /\ entries'[m].time - entries'[j].time <= FailWindow
                            /\ FailuresOf(a, j, m)' >= Threshold
        BY DEF JustifiedAt
    <3>2. TooManyFailures(e) /\ e.user = a
      <4>1. ~NoReportSince(a, m)'
          BY <2>1, <3>1 DEF ReportedAt, NoReportSince
      <4>2. m \in 1 .. m /\ m \notin 1 .. n
          BY <2>1
      <4>3. QED
          BY <2>1, <4>1, <4>2
    <3>3. PICK l : l = LastReportBefore(a, m)'
        OBVIOUS
    <3>4. l \in 0 .. n /\ (l # 0 => ReportedAt(a, l)')
      <4>1. m \in Nat \ {0} /\ m - 1 = n
          BY <2>1
      <4>2. QED
          BY <3>3, <4>1, LastReportFound
    <3>5. Failures(e) > 0 /\ Counted(e).count >= Threshold
        BY <3>2 DEF TooManyFailures
    <3>6. CASE Counted(e).count = Failures(e)
      <4>1. m \in l + 1 .. m
          BY <2>1, <3>4
      <4>2. entries'[m].time - entries'[m].time <= FailWindow
          BY <2>1, <2>2
      <4>3. FailuresOf(a, m, m)' >= Threshold
          BY <2>1, <3>2, <3>5, <3>6 DEF FailuresBy
      <4>4. QED
          BY <3>3, <4>1, <4>2, <4>3
    <3>7. CASE /\ failureMap[a].count > 0 /\ time - failureMap[a].first <= FailWindow
               /\ Counted(e).count = failureMap[a].count + Failures(e)
      <4>1. PICK j \in 1 .. n :
              /\ entries[j].time = failureMap[a].first /\ NoReportSince(a, j)
              /\ FailuresOf(a, j, n) >= failureMap[a].count
          BY <1>4, <2>0, <2>1, <3>7 DEF FailuresInv, FailuresThere
      <4>2. l < j
        <5>1. CASE l = 0
            BY <2>1, <5>1
        <5>2. CASE l # 0
          <6>1. ReportedAt(a, l)'
              BY <3>4, <5>2
          <6>2. l \in 1 .. n /\ l \in DOMAIN entries
              BY <2>1, <3>4, <5>2
          <6>3. ReportsOf(l)' = ReportsOf(l)
              BY <1>4, <6>2, AnalyzeKeepsPast DEF PastKept
          <6>4. ReportedAt(a, l)
              BY <6>1, <6>3 DEF ReportedAt, ReportsOf
          <6>5. QED
              BY <4>1, <6>4 DEF ReportedAt, NoReportSince
        <5>3. QED
            BY <5>1, <5>2
      <4>3. j \in l + 1 .. m
          BY <2>1, <3>4, <4>2
      <4>4. entries'[m].time - entries'[j].time <= FailWindow
          BY <2>1, <3>7, <4>1
      <4>5. FailuresOf(a, j, m)' >= Threshold
        <5>1. FailuresOf(a, j, n) \in Nat /\ FailuresBy(e, a) = Failures(e)
              /\ FailuresOf(a, j, m)' = FailuresOf(a, j, n) + FailuresBy(e, a)
            BY <2>1, <3>2 DEF FailuresBy
        <5>2. QED
            BY <2>2, <3>5, <3>7, <4>1, <5>1
      <4>6. QED
          BY <3>3, <4>3, <4>4, <4>5
    <3>8. QED
        BY <1>4, <3>2, <3>5, <3>6, <3>7, CountedCases
  <2>5. ASSUME NEW j \in 1 .. m PROVE BurstAt(a, j, m)'
    <3>1. SUFFICES ASSUME entries'[m].time - entries'[j].time <= FailWindow,
                          \A k \in j .. m : ~(ReportedAt(a, k)'), ~(RestartIn(j, m)')
                   PROVE  FailuresOf(a, j, m)' < 2 * Threshold - 1
        BY DEF BurstAt
    <3>2. NoReportSince(a, j)'
      <4>1. SUFFICES ASSUME NEW r \in DOMAIN reports', reports'[r].type = "failures",
                            reports'[r].user = a, ~(reports'[r].at < j)
                     PROVE  FALSE
          BY DEF NoReportSince
      <4>2. reports'[r].at \in j .. m
          BY <2>1, <2>3, <4>1
      <4>3. PICK k : k = reports'[r].at
          OBVIOUS
      <4>4. ReportedAt(a, k)'
          BY <4>1, <4>3 DEF ReportedAt
      <4>5. QED
          BY <3>1, <4>2, <4>3, <4>4
    <3>3. \A r \in DOMAIN since' : since'[r] < j
      <4>1. ASSUME NEW r \in DOMAIN since PROVE since[r] \in Nat /\ since[r] <= n
        <5>1. since[r] \in 0 .. MaxEntries
            BY <1>4, Members DEF AuthTyped
        <5>2. QED
            BY <1>4, <2>0, <5>1, AuthBoundsAssumption DEF AuthTyped
      <4>2. ASSUME NEW r \in DOMAIN since, ~(since[r] < j) PROVE FALSE
          BY <2>1, <3>1, <4>1, <4>2 DEF RestartIn
      <4>3. QED
          BY <2>1, <4>2
    <3> DEFINE g == failureMap'[a]
    <3>4. /\ g.count \in Nat /\ g.count <= Threshold - 1 /\ g.first \in Nat /\ g.first <= time
      <4>1. g \in [count : 0 .. Threshold - 1, first : 0 .. MaxTime] /\ g.first <= time'
          BY <1>4 DEF AuthTyped
      <4> HIDE DEF g
      <4>2. QED
          BY <2>1, <2>2, <4>1
    <3>5. IF g.count = 0 THEN FailuresOf(a, j, m)' = 0
          ELSE g.first - entries'[j].time <= FailWindow
                 => FailuresOf(a, j, m)' < g.count + Threshold
      <4>1. FailuresKnown(a)'
          BY <1>4 DEF FailuresInv
      <4>2. FailuresOf(a, j, Len(entries))' = FailuresOf(a, j, m)'
          BY <2>1, FailuresOfIn
      <4>3. QED
          BY <2>1, <3>2, <3>3, <4>1, <4>2 DEF FailuresKnown
    <3>6. entries'[j].time \in Nat
      <4>1. entries'[j] \in Timed
          BY <1>4, <2>1, Members DEF AuthTyped
      <4>2. QED
          BY <4>1 DEF Timed
    <3>7. FailuresOf(a, j, m)' \in Nat
      <4>1. j \in 1 .. n \/ j = m
          BY <2>1
      <4>2. FailuresBy(e, a) \in Nat
          BY <2>2 DEF FailuresBy
      <4>3. QED
          BY <2>1, <4>1, <4>2
    <3> HIDE DEF g
    <3>8. CASE g.count = 0
        BY <2>2, <3>5, <3>8
    <3>9. CASE g.count # 0
      <4>1. g.first - entries'[j].time <= FailWindow
          BY <2>1, <2>2, <3>1, <3>4, <3>6
      <4>2. QED
          BY <2>2, <3>4, <3>5, <3>7, <3>9, <4>1
    <3>10. QED
        BY <3>8, <3>9
  <2>6. QED
      BY <2>4, <2>5
<1>5. ASSUME AuthTyped, AuthTyped', FailuresInv, FailuresInv', FailureReportsJustified,
             BurstsReported, NEW e \in Entries, Analyze(e)
      PROVE  FailureReportsJustified' /\ BurstsReported'
  <2>1. PICK m : m = Len(entries) + 1
      OBVIOUS
  <2>2. DOMAIN entries' = DOMAIN entries \cup {m}
    <3>1. PICK n : n = Len(entries)
        OBVIOUS
    <3>2. n \in Nat /\ DOMAIN entries = 1 .. n /\ DOMAIN entries' = 1 .. n + 1
        BY <1>5, <3>1, EntryAdded
    <3>3. QED
        BY <2>1, <3>1, <3>2
  <2>3. PastKept
      BY <1>5, AnalyzeKeepsPast
  <2>4. ASSUME NEW a \in Accounts, NEW i \in DOMAIN entries' PROVE Old(a, i)'
    <3>1. CASE i \in DOMAIN entries
        BY <1>2, <1>5, <2>3, <3>1, OldFailuresStay
    <3>2. CASE i = m
        BY <1>4, <1>5, <2>1, <3>2
    <3>3. QED
        BY <2>2, <3>1, <3>2
  <2> HIDE DEF Old
  <2>5. QED
      BY <1>3, <1>5, <2>4
<1>6. ASSUME AuthTyped, AuthTyped', FailureReportsJustified, BurstsReported,
             Later \/ AuthRestart \/ UNCHANGED authVars
      PROVE  FailureReportsJustified' /\ BurstsReported'
  <2>1. entries' = entries /\ PastKept
      BY <1>6, OthersKeepPast DEF Later, AuthRestart, authVars
  <2>2. ASSUME NEW a \in Accounts, NEW i \in DOMAIN entries PROVE Old(a, i)'
      BY <1>2, <1>6, <2>1, OldFailuresStay
  <2> HIDE DEF Old
  <2>3. QED
      BY <1>3, <1>6, <2>1, <2>2
<1>7. QED
    BY <1>1, <1>5, <1>6, AuthSteps

-----------------------------------------------------------------------------
(* The theorems about the analysis of rsyslog's log.                       *)

AuthIInv == AuthTyped /\ RecentInv /\ FailuresInv
AuthAll == AuthIInv /\ FailureReportsJustified /\ BurstsReported /\ ChangersRight

LEMMA TypedMeansTypeOK == AuthTyped => AuthTypeOK
<1> SUFFICES ASSUME AuthTyped PROVE AuthTypeOK
    OBVIOUS
<1>1. \A i \in DOMAIN entries : entries[i] \in Timed
    BY Members DEF AuthTyped
<1>2. DOMAIN entries = 1 .. Len(entries) /\ Len(entries) \in Nat
    BY Members DEF AuthTyped
<1>3. \A r \in DOMAIN reports : reports[r] \in Told
    BY Members DEF AuthTyped
<1>4. \A r \in DOMAIN reports : reports[r].at \in Nat \ {0} /\ reports[r].at <= Len(entries)
    BY <1>3 DEF AuthTyped, Told
<1>5. QED
    BY <1>1, <1>2, <1>3, <1>4 DEF AuthTyped, AuthTypeOK, Timed, Told

LEMMA AuthInduction == AuthSpec => []AuthAll
<1>1. AuthInit => AuthAll
  <2>1. AuthInit => AuthIInv
      BY AuthTypedHolds, RecentHolds, FailuresHold DEF AuthIInv
  <2>2. QED
      BY <2>1, FailureReportsHold, ChangersHold DEF AuthAll
<1>2. AuthAll /\ [AuthNext]_authVars => AuthAll'
  <2>1. AuthIInv /\ [AuthNext]_authVars => AuthIInv'
      BY AuthTypedHolds, RecentHolds, FailuresHold DEF AuthIInv
  <2>2. QED
      BY <2>1, FailureReportsHold, ChangersHold DEF AuthAll, AuthIInv
<1>3. QED
    BY <1>1, <1>2, PTL DEF AuthSpec

(* The map of failures never holds a count that should have been reported, *)
(* and the last entries are never more than MAX_RECENT_LOGS (RsyslogRule). *)
THEOREM AuthTypes == AuthSpec => []AuthTypeOK
<1>1. AuthAll => AuthTypeOK
    BY TypedMeansTypeOK DEF AuthAll, AuthIInv
<1>2. QED
    BY <1>1, AuthInduction, PTL

(* A report of too many failures is justified: as many failures of the     *)
(* user as the threshold, within the window, none reported before          *)
(* (AnalyzePasswordFailureLog).                                            *)
THEOREM ReportsJustified == AuthSpec => []FailureReportsJustified
<1>1. AuthAll => FailureReportsJustified
    BY DEF AuthAll
<1>2. QED
    BY <1>1, AuthInduction, PTL

(* Twice as many failures of a user as the threshold, less one, are never  *)
(* left without a report in the length of a window.                        *)
THEOREM FailuresReported == AuthSpec => []BurstsReported
<1>1. AuthAll => BurstsReported
    BY DEF AuthAll
<1>2. QED
    BY <1>1, AuthInduction, PTL

(* A change is put down to the one who made it whenever the last entries   *)
(* can tell (InferChanger, AnalyzeGroupChangeLog and the others).          *)
THEOREM ChangersNamed == AuthSpec => []ChangersRight
<1>1. AuthAll => ChangersRight
    BY DEF AuthAll
<1>2. QED
    BY <1>1, AuthInduction, PTL

-----------------------------------------------------------------------------
(* The audit log.  An event has one SYSCALL line (LinesInv).  As long as   *)
(* the reader loses no line, the record of an event holds what its lines   *)
(* read so far say, until they complete it; it is compared at that line,   *)
(* and what comes up again under its name after that never has a SYSCALL   *)
(* line (RecordsInv).  A rule has detected the event as often as it        *)
(* should, but for the rules still ahead in a comparison (CountsInv).      *)

Lines == [event : Events, kind : Kinds]
Found == [event : Events, rule : Nat, time : Nat]
AuditTyped ==
  /\ auditLog \in Seq(Lines) /\ pos \in 0 .. Len(auditLog)
  /\ records \in [Events -> (SUBSET Kinds) \cup {NoRecord}]
  /\ comparing = <<>> \/ \E e \in Events, i \in Nat \ {0} : comparing = <<e, i>>
  /\ detections \in Seq(Found) /\ seconds \in Nat /\ deaths \in Nat

LinesInv ==
  \A e \in Events :
    /\ \A n \in Written(e) : auditLog[n].kind = "SYSCALL" =>
         \E i \in DOMAIN LinesOf[e] :
           i <= Cardinality(Written(e)) /\ LinesOf[e][i] = "SYSCALL"
    /\ \A m, n \in Written(e) :
         auditLog[m].kind = "SYSCALL" /\ auditLog[n].kind = "SYSCALL" => m = n

SaidBy(e, n) == KindsUpTo(e, n) \ {"PARENT", "OTHER"}
Compared(e) == comparing # <<>> /\ comparing[1] = e
RecordsInv ==
  \A n \in {pos} : \A e \in Events :
    /\ Compared(e) =>
         n > 0 /\ CompleteAt(e, n) /\ ~CompleteAt(e, n - 1) /\ Seen(records, e) = SaidBy(e, n)
    /\ ~CompleteAt(e, n) => Seen(records, e) = SaidBy(e, n)
    /\ CompleteAt(e, n) /\ ~Compared(e) => "SYSCALL" \notin Seen(records, e)

Ahead(e, i) == Compared(e) /\ comparing[2] <= i
CountsInv ==
  \A e \in Events : \A i \in DOMAIN RulesOf[e] :
    TimesDetected(e, i) = IF ShouldDetect(e, i) /\ ~Ahead(e, i) THEN 1 ELSE 0

Undisturbed == ~lost /\ deaths = 0
AuditIInv ==
  /\ AuditTyped /\ LinesInv
  /\ deaths = 0 => alive
  /\ Undisturbed => first = 0 /\ RecordsInv /\ CountsInv

LEMMA LineTypes ==
  ASSUME AuditTyped
  PROVE  /\ DOMAIN auditLog = 1 .. Len(auditLog) /\ Len(auditLog) \in Nat /\ pos \in Nat
         /\ \A n \in DOMAIN auditLog :
              auditLog[n].event \in Events /\ auditLog[n].kind \in Kinds
         /\ \A e : /\ Written(e) \subseteq 1 .. Len(auditLog)
                   /\ IsFiniteSet(Written(e)) /\ Cardinality(Written(e)) \in Nat
<1>1. /\ DOMAIN auditLog = 1 .. Len(auditLog) /\ Len(auditLog) \in Nat /\ pos \in Nat
      /\ \A n \in DOMAIN auditLog : auditLog[n] \in Lines
    BY Members DEF AuditTyped
<1>2. \A n \in DOMAIN auditLog : auditLog[n].event \in Events /\ auditLog[n].kind \in Kinds
    BY <1>1 DEF Lines
<1>3. ASSUME NEW e
      PROVE  /\ Written(e) \subseteq 1 .. Len(auditLog)
             /\ IsFiniteSet(Written(e)) /\ Cardinality(Written(e)) \in Nat
  <2>1. Written(e) \subseteq 1 .. Len(auditLog)
      BY <1>1 DEF Written
  <2>2. IsFiniteSet(1 .. Len(auditLog))
      BY <1>1, FS_Interval
  <2>3. QED
      BY <2>1, <2>2, FS_Subset, FS_CardinalityType
<1>4. QED
    BY <1>1, <1>2, <1>3

(* What an event's lines say, by members.                                  *)
LEMMA KindsUpToIs ==
  ASSUME AuditTyped, first = 0, NEW e, NEW n \in Nat, NEW x
  PROVE  x \in KindsUpTo(e, n) <=>
           \E k \in 1 .. Len(auditLog) :
             auditLog[k].event = e /\ k <= n /\ auditLog[k].kind = x
<1>1. \A k : k \in Written(e) <=> k \in 1 .. Len(auditLog) /\ auditLog[k].event = e
    BY LineTypes DEF Written
<1>2. \A k \in 1 .. Len(auditLog) : first < k
    BY LineTypes
<1>3. QED
    BY <1>1, <1>2 DEF KindsUpTo

LEMMA KindsGrow ==
  ASSUME AuditTyped, first = 0, NEW e, NEW m \in Nat, NEW n \in Nat, m <= n
  PROVE  /\ KindsUpTo(e, m) \subseteq KindsUpTo(e, n)
         /\ CompleteAt(e, m) => CompleteAt(e, n)
<1>1. \A k \in 1 .. Len(auditLog) : k <= m => k <= n
    BY LineTypes
<1>2. KindsUpTo(e, m) \subseteq KindsUpTo(e, n)
  <2>1. ASSUME NEW x \in KindsUpTo(e, m) PROVE x \in KindsUpTo(e, n)
    <3>1. PICK k \in 1 .. Len(auditLog) :
            auditLog[k].event = e /\ k <= m /\ auditLog[k].kind = x
        BY KindsUpToIs
    <3>2. QED
        BY <1>1, <3>1, KindsUpToIs
  <2>2. QED
      BY <2>1
<1>3. CompleteAt(e, m) => CompleteAt(e, n)
    BY <1>2 DEF CompleteAt
<1>4. QED
    BY <1>2, <1>3

(* An event is detected where its lines complete it first, if anywhere.    *)
LEMMA DetectedWhere ==
  ASSUME AuditTyped, first = 0, NEW e \in Events, NEW i
  PROVE  /\ ~CompleteAt(e, pos) => ~ShouldDetect(e, i)
         /\ pos > 0 /\ CompleteAt(e, pos) /\ ~CompleteAt(e, pos - 1) =>
              (ShouldDetect(e, i) <=> RulesOf[e][i].needs \subseteq SaidBy(e, pos))
<1>1. pos \in Nat /\ first + 1 .. pos = 1 .. pos
    BY LineTypes
<1>2. ASSUME ~CompleteAt(e, pos), ShouldDetect(e, i) PROVE FALSE
  <2>1. PICK n \in 1 .. pos : CompleteAt(e, n)
      BY <1>1, <1>2 DEF ShouldDetect
  <2>2. CompleteAt(e, pos)
      BY <1>1, <2>1, KindsGrow
  <2>3. QED
      BY <1>2, <2>2
<1>3. ASSUME pos > 0, CompleteAt(e, pos), ~CompleteAt(e, pos - 1)
      PROVE  ShouldDetect(e, i) <=> RulesOf[e][i].needs \subseteq SaidBy(e, pos)
  <2>1. ASSUME NEW n \in 1 .. pos, CompleteAt(e, n) PROVE n = pos
    <3>1. SUFFICES ASSUME n # pos PROVE FALSE
        OBVIOUS
    <3>2. n \in Nat /\ pos - 1 \in Nat /\ n <= pos - 1
        BY <1>1, <3>1
    <3>3. CompleteAt(e, pos - 1)
        BY <2>1, <3>2, KindsGrow
    <3>4. QED
        BY <1>3, <3>3
  <2>2. pos \in 1 .. pos
      BY <1>1, <1>3
  <2>3. QED
      BY <1>1, <1>3, <2>1, <2>2 DEF ShouldDetect, SaidBy
<1>4. QED
    BY <1>2, <1>3

(* The log only grows: what its lines said stays.                          *)
LEMMA KindsStay ==
  ASSUME AuditTyped, AuditTyped', first = 0, first' = 0, Len(auditLog) <= Len(auditLog)',
         \A k \in 1 .. Len(auditLog) : auditLog'[k] = auditLog[k]
  PROVE  \A e \in Events, n \in 0 .. Len(auditLog) :
           KindsUpTo(e, n)' = KindsUpTo(e, n) /\ (CompleteAt(e, n)' <=> CompleteAt(e, n))
<1>1. SUFFICES ASSUME NEW e \in Events, NEW n \in 0 .. Len(auditLog)
               PROVE  KindsUpTo(e, n)' = KindsUpTo(e, n)
    BY DEF CompleteAt
<1>2. /\ DOMAIN auditLog = 1 .. Len(auditLog) /\ Len(auditLog) \in Nat
      /\ DOMAIN auditLog' = 1 .. Len(auditLog') /\ Len(auditLog') \in Nat
    BY Members DEF AuditTyped
<1>3. /\ \A j : j \in Written(e)' /\ first' < j /\ j <= n
                  <=> j \in Written(e) /\ first < j /\ j <= n
      /\ \A j \in Written(e) : auditLog'[j].kind = auditLog[j].kind
    BY <1>2 DEF Written
<1>4. QED
    BY <1>3 DEF KindsUpTo

(* And so does what was to be detected, if no line is read.                *)
LEMMA DetectedStays ==
  ASSUME AuditTyped, AuditTyped', first = 0, first' = 0, pos' = pos,
         Len(auditLog) <= Len(auditLog)',
         \A k \in 1 .. Len(auditLog) : auditLog'[k] = auditLog[k]
  PROVE  \A e \in Events : \A i : ShouldDetect(e, i)' <=> ShouldDetect(e, i)
<1>1. SUFFICES ASSUME NEW e \in Events, NEW i PROVE ShouldDetect(e, i)' <=> ShouldDetect(e, i)
    OBVIOUS
<1>2. /\ pos \in Nat /\ pos' \in Nat /\ pos <= Len(auditLog) /\ Len(auditLog) \in Nat
      /\ first' + 1 .. pos' = first + 1 .. pos
    BY LineTypes DEF AuditTyped
<1>3. \A n \in first + 1 .. pos :
        /\ CompleteAt(e, n)' <=> CompleteAt(e, n)
        /\ CompleteAt(e, n - 1)' <=> CompleteAt(e, n - 1)
        /\ KindsUpTo(e, n)' = KindsUpTo(e, n)
  <2>1. TAKE n \in first + 1 .. pos
  <2>2. n \in 0 .. Len(auditLog) /\ n - 1 \in 0 .. Len(auditLog)
      BY <1>2
  <2>3. QED
      BY <2>2, KindsStay
<1>4. QED
    BY <1>2, <1>3 DEF ShouldDetect

LEMMA AuditStarted == AuditInit => AuditIInv
<1> SUFFICES ASSUME AuditInit PROVE AuditIInv
    OBVIOUS
<1>1. AuditTyped
  <2>1. /\ auditLog = <<>> /\ pos = 0 /\ records = [e \in Events |-> NoRecord]
        /\ comparing = <<>> /\ detections = <<>> /\ seconds = 1 /\ deaths = 0
      BY DEF AuditInit
  <2>2. auditLog \in Seq(Lines) /\ detections \in Seq(Found) /\ pos \in 0 .. Len(auditLog)
      BY <2>1
  <2>3. records \in [Events -> (SUBSET Kinds) \cup {NoRecord}]
      BY <2>1
  <2>4. QED
      BY <2>1, <2>2, <2>3 DEF AuditTyped
<1>2. auditLog = <<>> /\ DOMAIN auditLog = {} /\ \A e : Written(e) = {}
    BY DEF AuditInit, Written
<1>3. LinesInv
    BY <1>2 DEF LinesInv
<1>4. \A e, n : KindsUpTo(e, n) = {}
    BY <1>2 DEF KindsUpTo
<1>5. RecordsInv
  <2>1. \A e \in Events : Seen(records, e) = {} /\ comparing = <<>>
      BY DEF AuditInit, Seen
  <2>2. QED
      BY <1>4, <2>1 DEF RecordsInv, CompleteAt, SaidBy, Compared
<1>6. CountsInv
  <2>1. ASSUME NEW e, NEW i PROVE TimesDetected(e, i) = 0 /\ ~ShouldDetect(e, i)
    <3>1. {d \in DOMAIN detections : detections[d].event = e /\ detections[d].rule = i} = {}
        BY DEF AuditInit
    <3>2. TimesDetected(e, i) = 0
        BY <3>1, FS_EmptySet DEF TimesDetected
    <3>3. QED
        BY <1>4, <3>2 DEF ShouldDetect, CompleteAt
  <2>2. QED
      BY <2>1 DEF CountsInv
<1>7. QED
    BY <1>1, <1>3, <1>5, <1>6 DEF AuditIInv, AuditInit

(* What a line adds to what the lines of events say.                       *)
LEMMA NextKinds ==
  ASSUME AuditTyped, first = 0, pos < Len(auditLog), NEW e \in Events
  PROVE  /\ auditLog[pos + 1].event # e => KindsUpTo(e, pos + 1) = KindsUpTo(e, pos)
         /\ auditLog[pos + 1].event = e =>
              KindsUpTo(e, pos + 1) = KindsUpTo(e, pos) \cup {auditLog[pos + 1].kind}
<1>1. /\ pos \in Nat /\ pos + 1 \in Nat /\ pos + 1 \in 1 .. Len(auditLog)
      /\ Len(auditLog) \in Nat
    BY LineTypes
<1>2. \A k \in 1 .. Len(auditLog) : k <= pos + 1 <=> k <= pos \/ k = pos + 1
    BY <1>1
<1>3. \A x : x \in KindsUpTo(e, pos) <=>
        \E k \in 1 .. Len(auditLog) :
          auditLog[k].event = e /\ k <= pos /\ auditLog[k].kind = x
    BY <1>1, KindsUpToIs
<1>4. \A x : x \in KindsUpTo(e, pos + 1) <=>
        \E k \in 1 .. Len(auditLog) :
          auditLog[k].event = e /\ k <= pos + 1 /\ auditLog[k].kind = x
    BY <1>1, KindsUpToIs
<1>5. \A x : x \in KindsUpTo(e, pos + 1) <=>
        \/ x \in KindsUpTo(e, pos)
        \/ auditLog[pos + 1].event = e /\ auditLog[pos + 1].kind = x
    BY <1>1, <1>2, <1>3, <1>4
<1>6. QED
    BY <1>5

(* A log with one more line.                                               *)
LEMMA WriteKeeps == AuditIInv /\ (\E e \in Events : WriteLine(e)) => AuditIInv'
<1> SUFFICES ASSUME AuditIInv, NEW e \in Events, WriteLine(e) PROVE AuditIInv'
    OBVIOUS
<1> DEFINE L == Len(auditLog)
           c == Cardinality(Written(e))
<1>1. PICK line : line = [event |-> e, kind |-> LinesOf[e][c + 1]]
    OBVIOUS
<1>2. /\ c < Len(LinesOf[e]) /\ auditLog' = Append(auditLog, line)
      /\ pos' = pos /\ first' = first /\ lost' = lost /\ records' = records
      /\ comparing' = comparing /\ detections' = detections /\ seconds' = seconds
      /\ alive' = alive /\ deaths' = deaths
    BY <1>1 DEF WriteLine, reader, found
<1>3. /\ DOMAIN auditLog = 1 .. L /\ L \in Nat
      /\ Written(e) \subseteq 1 .. L /\ IsFiniteSet(Written(e)) /\ c \in Nat
    BY LineTypes DEF AuditIInv
<1>4. LinesOf[e] \in Seq(Kinds)
    BY EventsAssumption
<1>5. c + 1 \in DOMAIN LinesOf[e] /\ LinesOf[e][c + 1] \in Kinds
  <2>1. DOMAIN LinesOf[e] = 1 .. Len(LinesOf[e]) /\ Len(LinesOf[e]) \in Nat
        /\ \A i \in DOMAIN LinesOf[e] : LinesOf[e][i] \in Kinds
      BY <1>4, Members
  <2>2. c + 1 \in DOMAIN LinesOf[e]
      BY <1>2, <1>3, <2>1
  <2>3. QED
      BY <2>1, <2>2
<1>6. line \in Lines /\ line.event = e /\ line.kind = LinesOf[e][c + 1]
    BY <1>1, <1>5 DEF Lines
<1>7. /\ auditLog' \in Seq(Lines) /\ Len(auditLog') = L + 1
      /\ DOMAIN auditLog' = 1 .. L + 1
      /\ \A k \in 1 .. L : auditLog'[k] = auditLog[k]
      /\ auditLog'[L + 1] = line
    BY <1>2, <1>6, Appended DEF AuditIInv, AuditTyped
<1>8. AuditTyped'
  <2>1. pos' \in 0 .. Len(auditLog')
      BY <1>2, <1>3, <1>7 DEF AuditIInv, AuditTyped
  <2>2. QED
      BY <1>2, <1>7, <2>1 DEF AuditIInv, AuditTyped
<1>9. \A f \in Events : Written(f)' = IF f = e THEN Written(f) \cup {L + 1} ELSE Written(f)
  <2>1. TAKE f \in Events
  <2>2. \A k : k \in Written(f)' <=> k \in 1 .. L + 1 /\ auditLog'[k].event = f
      BY <1>7 DEF Written
  <2>3. \A k : k \in Written(f) <=> k \in 1 .. L /\ auditLog[k].event = f
      BY <1>3 DEF Written
  <2>4. \A k : k \in 1 .. L + 1 <=> k \in 1 .. L \/ k = L + 1
      BY <1>3
  <2>5. \A k : k \in Written(f)' <=> k \in Written(f) \/ (f = e /\ k = L + 1)
      BY <1>6, <1>7, <2>2, <2>3, <2>4
  <2>6. QED
      BY <2>5
<1>10. LinesInv'
  <2>1. SUFFICES ASSUME NEW f \in Events
                 PROVE  /\ \A n \in Written(f)' : auditLog'[n].kind = "SYSCALL" =>
                             \E i \in DOMAIN LinesOf[f] :
                               i <= Cardinality(Written(f)') /\ LinesOf[f][i] = "SYSCALL"
                        /\ \A m, n \in Written(f)' :
                             auditLog'[m].kind = "SYSCALL" /\ auditLog'[n].kind = "SYSCALL"
                               => m = n
      BY DEF LinesInv
  <2>2. /\ \A n \in Written(f) : auditLog[n].kind = "SYSCALL" =>
             \E i \in DOMAIN LinesOf[f] :
               i <= Cardinality(Written(f)) /\ LinesOf[f][i] = "SYSCALL"
        /\ \A m, n \in Written(f) :
             auditLog[m].kind = "SYSCALL" /\ auditLog[n].kind = "SYSCALL" => m = n
      BY DEF AuditIInv, LinesInv
  <2>3. Written(f) \subseteq 1 .. L
      BY LineTypes DEF AuditIInv
  <2>4. \A n \in Written(f) : auditLog'[n] = auditLog[n]
      BY <1>7, <2>3
  <2>5. CASE f # e
      BY <1>9, <2>2, <2>4, <2>5
  <2>6. CASE f = e
    <3>1. Written(f)' = Written(e) \cup {L + 1} /\ L + 1 \notin Written(e)
        BY <1>3, <1>9, <2>6
    <3>2. Cardinality(Written(f)') = c + 1
        BY <1>3, <3>1, FS_AddElement
    <3>3. ASSUME NEW n \in Written(e), auditLog[n].kind = "SYSCALL"
          PROVE  /\ LinesOf[e][c + 1] # "SYSCALL"
                 /\ \E i \in DOMAIN LinesOf[e] : i <= c + 1 /\ LinesOf[e][i] = "SYSCALL"
      <4>1. PICK i \in DOMAIN LinesOf[e] : i <= c /\ LinesOf[e][i] = "SYSCALL"
          BY <2>2, <2>6, <3>3
      <4>2. i \in Nat /\ i # c + 1 /\ i <= c + 1
        <5>1. i \in 1 .. Len(LinesOf[e]) /\ Len(LinesOf[e]) \in Nat
            BY <1>4, Members
        <5>2. QED
            BY <1>3, <4>1, <5>1
      <4>3. QED
          BY <1>5, <4>1, <4>2, EventsAssumption
    <3>4. c + 1 <= c + 1
        BY <1>3
    <3>5. \A n \in Written(f)' : auditLog'[n].kind = "SYSCALL" =>
            \E i \in DOMAIN LinesOf[f] :
              i <= Cardinality(Written(f)') /\ LinesOf[f][i] = "SYSCALL"
        BY <1>5, <1>6, <1>7, <2>4, <2>6, <3>1, <3>2, <3>3, <3>4
    <3>6. \A m, n \in Written(f)' :
            auditLog'[m].kind = "SYSCALL" /\ auditLog'[n].kind = "SYSCALL" => m = n
        BY <1>6, <1>7, <2>2, <2>4, <2>6, <3>1, <3>3
    <3>7. QED
        BY <3>5, <3>6
  <2>7. QED
      BY <2>5, <2>6
<1>11. ASSUME Undisturbed' PROVE first' = 0 /\ RecordsInv' /\ CountsInv'
  <2>1. Undisturbed /\ first = 0 /\ first' = 0 /\ RecordsInv /\ CountsInv
      BY <1>2, <1>11 DEF AuditIInv, Undisturbed
  <2>2. /\ \A f \in Events, n \in 0 .. L :
             KindsUpTo(f, n)' = KindsUpTo(f, n) /\ (CompleteAt(f, n)' <=> CompleteAt(f, n))
        /\ \A f \in Events : \A i : ShouldDetect(f, i)' <=> ShouldDetect(f, i)
    <3>1. Len(auditLog) <= Len(auditLog)'
        BY <1>3, <1>7
    <3>2. QED
        BY <1>2, <1>7, <1>8, <2>1, <3>1, KindsStay, DetectedStays DEF AuditIInv
  <2>3. PICK p : p = pos
      OBVIOUS
  <2>4. p \in 0 .. L /\ (p > 0 => p - 1 \in 0 .. L)
      BY <1>3, <2>3 DEF AuditIInv, AuditTyped
  <2>5. \A f \in Events : Seen(records, f)' = Seen(records, f) /\ (Compared(f)' <=> Compared(f))
      BY <1>2 DEF Seen, Compared
  <2>6. RecordsInv'
    <3>1. SUFFICES ASSUME NEW f \in Events
                   PROVE  /\ Compared(f)' =>
                               /\ p > 0 /\ CompleteAt(f, p)' /\ ~CompleteAt(f, p - 1)'
                               /\ Seen(records, f)' = SaidBy(f, p)'
                          /\ ~CompleteAt(f, p)' => Seen(records, f)' = SaidBy(f, p)'
                          /\ CompleteAt(f, p)' /\ ~Compared(f)' =>
                               "SYSCALL" \notin Seen(records, f)'
        BY <1>2, <2>3 DEF RecordsInv
    <3>2. SaidBy(f, p)' = SaidBy(f, p)
        BY <2>2, <2>4 DEF SaidBy
    <3>3. QED
        BY <2>1, <2>2, <2>3, <2>4, <2>5, <3>2 DEF RecordsInv
  <2>7. CountsInv'
    <3>1. \A f \in Events : \A i :
            TimesDetected(f, i)' = TimesDetected(f, i) /\ (Ahead(f, i)' <=> Ahead(f, i))
        BY <1>2 DEF TimesDetected, Ahead, Compared
    <3>2. QED
        BY <2>1, <2>2, <3>1 DEF CountsInv
  <2>8. QED
      BY <2>1, <2>6, <2>7
<1>12. deaths' = 0 => alive'
    BY <1>2 DEF AuditIInv
<1>13. QED
    BY <1>8, <1>10, <1>11, <1>12 DEF AuditIInv

(* Steps that leave the log and what was read of it as it is keep what was *)
(* to be detected.                                                         *)
LEMMA LogSame ==
  ASSUME auditLog' = auditLog, first' = first
  PROVE  /\ \A e, n : KindsUpTo(e, n)' = KindsUpTo(e, n) /\ SaidBy(e, n)' = SaidBy(e, n)
                        /\ (CompleteAt(e, n)' <=> CompleteAt(e, n))
         /\ pos' = pos => \A e, i : ShouldDetect(e, i)' <=> ShouldDetect(e, i)
         /\ LinesInv => LinesInv'
<1>1. \A e : Written(e)' = Written(e)
    BY DEF Written
<1>2. \A e, n : KindsUpTo(e, n)' = KindsUpTo(e, n)
    BY <1>1 DEF KindsUpTo
<1>3. \A e, n : CompleteAt(e, n)' <=> CompleteAt(e, n)
    BY <1>2 DEF CompleteAt
<1>4. ASSUME pos' = pos, NEW e, NEW i PROVE ShouldDetect(e, i)' <=> ShouldDetect(e, i)
    BY <1>2, <1>3, <1>4 DEF ShouldDetect
<1>5. LinesInv => LinesInv'
    BY <1>1 DEF LinesInv
<1>6. QED
    BY <1>2, <1>3, <1>4, <1>5 DEF SaidBy

LEMMA IdleKeeps ==
  ASSUME AuditIInv, auditLog' = auditLog, pos' = pos, first' = first, lost' = lost,
         records' = records, comparing' = comparing, detections' = detections,
         seconds' \in Nat, alive' = alive, deaths' = deaths
  PROVE  AuditIInv'
<1>1. AuditTyped' /\ LinesInv'
    BY LogSame DEF AuditIInv, AuditTyped
<1>2. ASSUME Undisturbed' PROVE first' = 0 /\ RecordsInv' /\ CountsInv'
  <2>1. first = 0 /\ RecordsInv /\ CountsInv
      BY <1>2 DEF AuditIInv, Undisturbed
  <2>2. \A f \in Events : Seen(records, f)' = Seen(records, f) /\ (Compared(f)' <=> Compared(f))
      BY DEF Seen, Compared
  <2>3. RecordsInv'
    <3>1. PICK p : p = pos
        OBVIOUS
    <3>2. SUFFICES ASSUME NEW f \in Events
                   PROVE  /\ Compared(f)' =>
                               /\ p > 0 /\ CompleteAt(f, p)' /\ ~CompleteAt(f, p - 1)'
                               /\ Seen(records, f)' = SaidBy(f, p)'
                          /\ ~CompleteAt(f, p)' => Seen(records, f)' = SaidBy(f, p)'
                          /\ CompleteAt(f, p)' /\ ~Compared(f)' =>
                               "SYSCALL" \notin Seen(records, f)'
        BY <3>1 DEF RecordsInv
    <3>3. QED
        BY <2>1, <2>2, <3>1, LogSame DEF RecordsInv
  <2>4. CountsInv'
    <3>1. \A f \in Events : \A i :
            TimesDetected(f, i)' = TimesDetected(f, i) /\ (Ahead(f, i)' <=> Ahead(f, i))
        BY DEF TimesDetected, Ahead, Compared
    <3>2. QED
        BY <2>1, <3>1, LogSame DEF CountsInv
  <2>5. QED
      BY <2>1, <2>3, <2>4
<1>3. QED
    BY <1>1, <1>2 DEF AuditIInv

(* A line is read: its event is completed now, or not yet, or was before,  *)
(* and then the line says SYSCALL no more.                                 *)
LEMMA ReadKeeps == AuditIInv /\ ReadLine => AuditIInv'
<1> SUFFICES ASSUME AuditIInv, ReadLine PROVE AuditIInv'
    OBVIOUS
<1>1. PICK p, line : p = pos /\ line = auditLog[pos + 1]
    OBVIOUS
<1>2. PICK e, x : e = line.event /\ x = line.kind
    OBVIOUS
<1>3. PICK seen : seen = Seen(records, e) \cup ({x} \ {"PARENT", "OTHER"})
    OBVIOUS
<1>4. /\ auditLog' = auditLog /\ first' = first /\ lost' = lost /\ alive' = alive
      /\ deaths' = deaths /\ detections' = detections /\ seconds' = seconds
      /\ comparing = <<>> /\ p < Len(auditLog) /\ pos' = p + 1
      /\ records' = [records EXCEPT ![e] = seen]
      /\ comparing' = IF Complete([records EXCEPT ![e] = seen], e) THEN <<e, 1>> ELSE <<>>
    BY <1>1, <1>2, <1>3 DEF ReadLine, TakeLine, Collect, CanRead, found
<1>5. /\ p \in Nat /\ p + 1 \in 1 .. Len(auditLog) /\ DOMAIN auditLog = 1 .. Len(auditLog)
      /\ Len(auditLog) \in Nat /\ e \in Events /\ x \in Kinds
  <2>1. /\ p \in Nat /\ DOMAIN auditLog = 1 .. Len(auditLog) /\ Len(auditLog) \in Nat
        /\ \A n \in DOMAIN auditLog :
             auditLog[n].event \in Events /\ auditLog[n].kind \in Kinds
      BY <1>1, LineTypes DEF AuditIInv
  <2>2. p + 1 \in 1 .. Len(auditLog)
      BY <1>4, <2>1
  <2>3. QED
      BY <1>1, <1>2, <2>1, <2>2
<1>6. records \in [Events -> (SUBSET Kinds) \cup {NoRecord}]
    BY DEF AuditIInv, AuditTyped
<1>7. Seen(records, e) \subseteq Kinds /\ seen \subseteq Kinds /\ seen # NoRecord
  <2>1. Seen(records, e) \subseteq Kinds
      BY <1>5, <1>6 DEF Seen
  <2>2. seen \subseteq Kinds
      BY <1>3, <1>5, <2>1
  <2>3. "none" \notin Kinds
      BY DEF Kinds
  <2>4. QED
      BY <2>1, <2>2, <2>3 DEF NoRecord
<1>8. /\ records' \in [Events -> (SUBSET Kinds) \cup {NoRecord}]
      /\ records'[e] = seen /\ \A f \in Events : f # e => records'[f] = records[f]
    BY <1>4, <1>5, <1>6, <1>7
<1>9. /\ Seen(records, e)' = seen
      /\ \A f \in Events : f # e => Seen(records, f)' = Seen(records, f)
    BY <1>5, <1>7, <1>8 DEF Seen
<1>10. comparing' = IF "SYSCALL" \in seen /\ {"EXECVE", "PATH"} \cap seen # {}
                     THEN <<e, 1>> ELSE <<>>
  <2>1. [records EXCEPT ![e] = seen][e] = seen
      BY <1>5, <1>6
  <2>2. Seen([records EXCEPT ![e] = seen], e) = seen
      BY <1>7, <2>1 DEF Seen
  <2>3. QED
      BY <1>4, <2>2 DEF Complete
<1>11. AuditTyped' /\ LinesInv'
  <2>1. LinesInv'
      BY <1>4, LogSame DEF AuditIInv
  <2>2. pos' \in 0 .. Len(auditLog')
      BY <1>4, <1>5
  <2>3. comparing' = <<>> \/ \E f \in Events, i \in Nat \ {0} : comparing' = <<f, i>>
    <3>1. comparing' = <<>> \/ comparing' = <<e, 1>>
        BY <1>10
    <3>2. QED
        BY <1>5, <3>1
  <2>4. AuditTyped'
      BY <1>4, <1>5, <1>8, <2>2, <2>3 DEF AuditIInv, AuditTyped
  <2>5. QED
      BY <2>1, <2>4
<1>12. ASSUME Undisturbed' PROVE first' = 0 /\ RecordsInv' /\ CountsInv'
  <2>1. first = 0 /\ RecordsInv /\ CountsInv
      BY <1>4, <1>12 DEF AuditIInv, Undisturbed
  <2>2. \A f \in Events :
          /\ f # e => KindsUpTo(f, p + 1) = KindsUpTo(f, p)
          /\ f = e => KindsUpTo(f, p + 1) = KindsUpTo(f, p) \cup {x}
      BY <1>1, <1>2, <1>4, <2>1, NextKinds DEF AuditIInv
  <2>3. \A f \in Events : ~Compared(f)
      BY <1>4 DEF Compared
  <2>4. \A f \in Events :
          /\ ~CompleteAt(f, p) => Seen(records, f) = SaidBy(f, p)
          /\ CompleteAt(f, p) => "SYSCALL" \notin Seen(records, f)
      BY <1>1, <2>1, <2>3 DEF RecordsInv
  <2>5. \A f \in Events : f # e => (CompleteAt(f, p + 1) <=> CompleteAt(f, p))
                                      /\ SaidBy(f, p + 1) = SaidBy(f, p)
      BY <2>2 DEF CompleteAt, SaidBy
  <2>6. CompleteAt(e, p) => x # "SYSCALL" /\ CompleteAt(e, p + 1)
    <3>1. SUFFICES ASSUME CompleteAt(e, p) PROVE x # "SYSCALL" /\ CompleteAt(e, p + 1)
        OBVIOUS
    <3>2. "SYSCALL" \in KindsUpTo(e, p)
        BY <3>1 DEF CompleteAt
    <3>3. PICK k \in 1 .. Len(auditLog) :
            auditLog[k].event = e /\ k <= p /\ auditLog[k].kind = "SYSCALL"
        BY <1>5, <2>1, <3>2, KindsUpToIs DEF AuditIInv
    <3>4. k \in Written(e) /\ p + 1 \in Written(e) /\ k # p + 1
        BY <1>1, <1>2, <1>5, <3>3 DEF Written
    <3>5. x # "SYSCALL"
        BY <1>1, <1>2, <1>5, <3>3, <3>4 DEF AuditIInv, LinesInv
    <3>6. CompleteAt(e, p + 1)
        BY <1>5, <2>2, <3>1 DEF CompleteAt
    <3>7. QED
        BY <3>5, <3>6
  <2>7. ~CompleteAt(e, p) => seen = SaidBy(e, p + 1)
      BY <1>3, <1>5, <2>2, <2>4 DEF SaidBy
  <2>8. CompleteAt(e, p) => "SYSCALL" \notin seen
      BY <1>3, <1>5, <2>4, <2>6
  <2>9. comparing' = IF CompleteAt(e, p + 1) /\ ~CompleteAt(e, p) THEN <<e, 1>> ELSE <<>>
    <3>1. CASE CompleteAt(e, p)
        BY <1>10, <2>8, <3>1
    <3>2. CASE ~CompleteAt(e, p)
      <4>1. CompleteAt(e, p + 1) <=> "SYSCALL" \in seen /\ {"EXECVE", "PATH"} \cap seen # {}
          BY <2>7, <3>2 DEF CompleteAt, SaidBy
      <4>2. QED
          BY <1>10, <3>2, <4>1
    <3>3. QED
        BY <3>1, <3>2
  <2>10. \A f \in Events :
           Compared(f)' <=> f = e /\ CompleteAt(e, p + 1) /\ ~CompleteAt(e, p)
      BY <2>9 DEF Compared
  <2>11. RecordsInv'
    <3>1. PICK q : q = p + 1
        OBVIOUS
    <3>2. q - 1 = p /\ q > 0
        BY <1>5, <3>1
    <3>3. SUFFICES ASSUME NEW f \in Events
                   PROVE  /\ Compared(f)' =>
                               /\ CompleteAt(f, q)' /\ ~CompleteAt(f, p)'
                               /\ Seen(records, f)' = SaidBy(f, q)'
                          /\ ~CompleteAt(f, q)' => Seen(records, f)' = SaidBy(f, q)'
                          /\ CompleteAt(f, q)' /\ ~Compared(f)' =>
                               "SYSCALL" \notin Seen(records, f)'
        BY <1>4, <3>1, <3>2 DEF RecordsInv
    <3>4. /\ CompleteAt(f, q)' <=> CompleteAt(f, q)
          /\ CompleteAt(f, p)' <=> CompleteAt(f, p)
          /\ SaidBy(f, q)' = SaidBy(f, q)
        BY <1>4, LogSame
    <3>5. CASE f # e
        BY <1>9, <2>4, <2>5, <2>10, <3>1, <3>4, <3>5
    <3>6. CASE f = e
        BY <1>9, <2>6, <2>7, <2>8, <2>10, <3>1, <3>4, <3>6
    <3>7. QED
        BY <3>5, <3>6
  <2>12. CountsInv'
    <3>1. SUFFICES ASSUME NEW f \in Events, NEW i \in DOMAIN RulesOf[f]
                   PROVE  TimesDetected(f, i)'
                            = IF ShouldDetect(f, i)' /\ ~Ahead(f, i)' THEN 1 ELSE 0
        BY DEF CountsInv
    <3>2. TimesDetected(f, i)' = TimesDetected(f, i)
        BY <1>4 DEF TimesDetected
    <3>3. TimesDetected(f, i) = IF ShouldDetect(f, i) THEN 1 ELSE 0
        BY <2>1, <2>3 DEF CountsInv, Ahead
    <3>4. ~CompleteAt(f, p) => ~ShouldDetect(f, i)
        BY <1>1, <2>1, DetectedWhere DEF AuditIInv
    <3>5. ShouldDetect(f, i)' <=>
            \/ ShouldDetect(f, i)
            \/ /\ CompleteAt(f, p + 1) /\ ~CompleteAt(f, p)
               /\ RulesOf[f][i].needs \subseteq SaidBy(f, p + 1)
      <4>1. \A n \in Nat : n \in first' + 1 .. pos' <=> n \in first + 1 .. pos \/ n = p + 1
          BY <1>1, <1>4, <1>5, <2>1
      <4>2. \A n \in first' + 1 .. pos' : n \in Nat
          BY <1>4, <1>5, <2>1
      <4>3. \A n \in first + 1 .. pos : n \in Nat
          BY <1>1, <1>5, <2>1
      <4>4. (p + 1) - 1 = p /\ p + 1 \in Nat
          BY <1>5
      <4>5. \A n : /\ CompleteAt(f, n)' <=> CompleteAt(f, n)
                   /\ KindsUpTo(f, n)' = KindsUpTo(f, n)
          BY <1>4, LogSame
      <4>6. ShouldDetect(f, i)' <=>
              \E n \in first' + 1 .. pos' :
                /\ CompleteAt(f, n) /\ ~CompleteAt(f, n - 1)
                /\ RulesOf[f][i].needs \subseteq KindsUpTo(f, n) \ {"PARENT", "OTHER"}
          BY <4>5 DEF ShouldDetect
      <4>7. ShouldDetect(f, i) <=>
              \E n \in first + 1 .. pos :
                /\ CompleteAt(f, n) /\ ~CompleteAt(f, n - 1)
                /\ RulesOf[f][i].needs \subseteq KindsUpTo(f, n) \ {"PARENT", "OTHER"}
          BY DEF ShouldDetect
      <4>8. QED
          BY <4>1, <4>2, <4>3, <4>4, <4>6, <4>7 DEF SaidBy
    <3>6. Ahead(f, i)' <=> f = e /\ CompleteAt(e, p + 1) /\ ~CompleteAt(e, p)
      <4>1. i \in Nat /\ 1 <= i
          BY EventsAssumption
      <4>2. QED
          BY <2>9, <4>1 DEF Ahead, Compared
    <3>7. CASE f # e
        BY <2>5, <3>2, <3>3, <3>5, <3>6, <3>7
    <3>8. CASE f = e
        BY <3>2, <3>3, <3>4, <3>5, <3>6, <3>8
    <3>9. QED
        BY <3>7, <3>8
  <2>13. QED
      BY <1>4, <2>1, <2>11, <2>12
<1>13. deaths' = 0 => alive'
    BY <1>4 DEF AuditIInv
<1>14. QED
    BY <1>11, <1>12, <1>13 DEF AuditIInv

(* A detection more of one rule is none of another.                        *)
LEMMA DetectedOnceMore ==
  ASSUME AuditTyped, NEW d \in Found, detections' = Append(detections, d)
  PROVE  /\ detections' \in Seq(Found)
         /\ \A e, i : TimesDetected(e, i) \in Nat
         /\ \A e, i : TimesDetected(e, i)' =
              IF d.event = e /\ d.rule = i THEN TimesDetected(e, i) + 1 ELSE TimesDetected(e, i)
<1> DEFINE L == Len(detections)
<1>1. /\ DOMAIN detections = 1 .. L /\ L \in Nat /\ detections' \in Seq(Found)
      /\ DOMAIN detections' = 1 .. L + 1
      /\ \A k \in 1 .. L : detections'[k] = detections[k]
      /\ detections'[L + 1] = d
    BY Members, Appended DEF AuditTyped
<1>2. SUFFICES ASSUME NEW e, NEW i
               PROVE  /\ TimesDetected(e, i) \in Nat
                      /\ TimesDetected(e, i)' =
                           IF d.event = e /\ d.rule = i
                             THEN TimesDetected(e, i) + 1 ELSE TimesDetected(e, i)
    BY <1>1
<1>3. PICK S, T : /\ S = {k \in DOMAIN detections :
                            detections[k].event = e /\ detections[k].rule = i}
                  /\ T = {k \in DOMAIN detections' :
                            detections'[k].event = e /\ detections'[k].rule = i}
    OBVIOUS
<1>4. S \subseteq 1 .. L /\ L + 1 \notin S /\ IsFiniteSet(S) /\ Cardinality(S) \in Nat
  <2>1. S \subseteq 1 .. L /\ L + 1 \notin S
      BY <1>1, <1>3
  <2>2. IsFiniteSet(1 .. L)
      BY <1>1, FS_Interval
  <2>3. QED
      BY <2>1, <2>2, FS_Subset, FS_CardinalityType
<1>5. \A k : k \in 1 .. L + 1 <=> k \in 1 .. L \/ k = L + 1
    BY <1>1
<1>6. \A k : k \in T <=> k \in S \/ (k = L + 1 /\ d.event = e /\ d.rule = i)
    BY <1>1, <1>3, <1>5
<1>7. T = IF d.event = e /\ d.rule = i THEN S \cup {L + 1} ELSE S
    BY <1>6
<1>8. Cardinality(T) = IF d.event = e /\ d.rule = i THEN Cardinality(S) + 1 ELSE Cardinality(S)
    BY <1>4, <1>7, FS_AddElement
<1>9. QED
    BY <1>3, <1>4, <1>8 DEF TimesDetected

(* A rule is compared: the ones behind stay, and this one has now detected *)
(* the event if it should.                                                 *)
LEMMA RuleKeeps == AuditIInv /\ CompareWithRule => AuditIInv'
<1> SUFFICES ASSUME AuditIInv, CompareWithRule PROVE AuditIInv'
    OBVIOUS
<1>1. PICK e \in Events, i \in Nat \ {0} : comparing = <<e, i>>
    BY DEF AuditIInv, AuditTyped, CompareWithRule
<1>2. comparing # <<>> /\ comparing[1] = e /\ comparing[2] = i
    BY <1>1
<1>3. PICK d : d = [event |-> e, rule |-> i, time |-> seconds]
    OBVIOUS
<1>4. /\ i <= Len(RulesOf[e]) /\ comparing' = <<e, i + 1>>
      /\ IF RulesOf[e][i].needs \subseteq records[e]
           THEN detections' = Append(detections, d) ELSE detections' = detections
      /\ auditLog' = auditLog /\ pos' = pos /\ first' = first /\ lost' = lost
      /\ records' = records /\ seconds' = seconds /\ alive' = alive /\ deaths' = deaths
    BY <1>2, <1>3 DEF CompareWithRule, found
<1>5. d \in Found /\ d.event = e /\ d.rule = i
  <2>1. seconds \in Nat
      BY DEF AuditIInv, AuditTyped
  <2>2. QED
      BY <1>3, <2>1 DEF Found
<1>6. AuditTyped' /\ LinesInv'
  <2>1. LinesInv'
      BY <1>4, LogSame DEF AuditIInv
  <2>2. detections' \in Seq(Found)
      BY <1>4, <1>5, DetectedOnceMore DEF AuditIInv, AuditTyped
  <2>3. comparing' = <<>> \/ \E f \in Events, j \in Nat \ {0} : comparing' = <<f, j>>
    <3>1. i + 1 \in Nat \ {0}
        OBVIOUS
    <3>2. QED
        BY <1>4, <3>1
  <2>4. AuditTyped'
      BY <1>4, <2>2, <2>3 DEF AuditIInv, AuditTyped
  <2>5. QED
      BY <2>1, <2>4
<1>7. \A f : Compared(f)' <=> Compared(f)
    BY <1>2, <1>4 DEF Compared
<1>8. ASSUME Undisturbed' PROVE first' = 0 /\ RecordsInv' /\ CountsInv'
  <2>1. first = 0 /\ RecordsInv /\ CountsInv
      BY <1>4, <1>8 DEF AuditIInv, Undisturbed
  <2>2. RecordsInv'
    <3>1. PICK p : p = pos
        OBVIOUS
    <3>2. SUFFICES ASSUME NEW f \in Events
                   PROVE  /\ Compared(f)' =>
                               /\ p > 0 /\ CompleteAt(f, p)' /\ ~CompleteAt(f, p - 1)'
                               /\ Seen(records, f)' = SaidBy(f, p)'
                          /\ ~CompleteAt(f, p)' => Seen(records, f)' = SaidBy(f, p)'
                          /\ CompleteAt(f, p)' /\ ~Compared(f)' =>
                               "SYSCALL" \notin Seen(records, f)'
        BY <1>4, <3>1 DEF RecordsInv
    <3>3. Seen(records, f)' = Seen(records, f)
        BY <1>4 DEF Seen
    <3>4. QED
        BY <1>4, <1>7, <2>1, <3>1, <3>3, LogSame DEF RecordsInv
  <2>3. records[e] = SaidBy(e, pos)
        /\ pos > 0 /\ CompleteAt(e, pos) /\ ~CompleteAt(e, pos - 1)
    <3>1. /\ pos > 0 /\ CompleteAt(e, pos) /\ ~CompleteAt(e, pos - 1)
          /\ Seen(records, e) = SaidBy(e, pos)
        BY <1>2, <2>1 DEF RecordsInv, Compared
    <3>2. "SYSCALL" \in Seen(records, e)
        BY <3>1 DEF CompleteAt, SaidBy
    <3>3. QED
        BY <3>1, <3>2 DEF Seen
  <2>4. \A j : ShouldDetect(e, j) <=> RulesOf[e][j].needs \subseteq records[e]
      BY <2>1, <2>3, DetectedWhere DEF AuditIInv
  <2>5. SUFFICES ASSUME NEW f \in Events, NEW j \in DOMAIN RulesOf[f]
                 PROVE  TimesDetected(f, j)'
                          = IF ShouldDetect(f, j)' /\ ~Ahead(f, j)' THEN 1 ELSE 0
      BY <1>4, <2>1, <2>2 DEF CountsInv
  <2>6. TimesDetected(f, j) = IF ShouldDetect(f, j) /\ ~Ahead(f, j) THEN 1 ELSE 0
      BY <2>1 DEF CountsInv
  <2>7. ShouldDetect(f, j)' <=> ShouldDetect(f, j)
      BY <1>4, LogSame
  <2>8. (Ahead(f, j) <=> f = e /\ i <= j) /\ (Ahead(f, j)' <=> f = e /\ i + 1 <= j)
      BY <1>2, <1>4 DEF Ahead, Compared
  <2>9. j \in Nat
      BY EventsAssumption
  <2>10. CASE f = e /\ j = i
    <3>1. TimesDetected(f, j) = 0 /\ ~Ahead(f, j)'
        BY <2>6, <2>8, <2>9, <2>10
    <3>2. CASE RulesOf[e][i].needs \subseteq records[e]
      <4>1. TimesDetected(f, j)' = TimesDetected(f, j) + 1
          BY <1>4, <1>5, <2>10, <3>2, DetectedOnceMore DEF AuditIInv
      <4>2. QED
          BY <2>4, <2>7, <2>10, <3>1, <3>2, <4>1
    <3>3. CASE ~(RulesOf[e][i].needs \subseteq records[e])
      <4>1. TimesDetected(f, j)' = TimesDetected(f, j)
          BY <1>4, <3>3 DEF TimesDetected
      <4>2. QED
          BY <2>4, <2>7, <2>10, <3>1, <3>3, <4>1
    <3>4. QED
        BY <3>2, <3>3
  <2>11. CASE ~(f = e /\ j = i)
    <3>1. TimesDetected(f, j)' = TimesDetected(f, j)
      <4>1. CASE RulesOf[e][i].needs \subseteq records[e]
          BY <1>4, <1>5, <2>11, <4>1, DetectedOnceMore DEF AuditIInv
      <4>2. CASE ~(RulesOf[e][i].needs \subseteq records[e])
          BY <1>4, <4>2 DEF TimesDetected
      <4>3. QED
          BY <4>1, <4>2
    <3>2. Ahead(f, j)' <=> Ahead(f, j)
        BY <2>8, <2>9, <2>11
    <3>3. QED
        BY <2>6, <2>7, <3>1, <3>2
  <2>12. QED
      BY <2>10, <2>11
<1>9. QED
    BY <1>4, <1>6, <1>8 DEF AuditIInv

LEMMA EndKeeps == AuditIInv /\ EndRecord => AuditIInv'
<1> SUFFICES ASSUME AuditIInv, EndRecord PROVE AuditIInv'
    OBVIOUS
<1>1. PICK e \in Events, i \in Nat \ {0} : comparing = <<e, i>>
    BY DEF AuditIInv, AuditTyped, EndRecord
<1>2. comparing # <<>> /\ comparing[1] = e /\ comparing[2] = i
    BY <1>1
<1>3. /\ i > Len(RulesOf[e]) /\ comparing' = <<>>
      /\ records' = [records EXCEPT ![e] = NoRecord]
      /\ auditLog' = auditLog /\ pos' = pos /\ first' = first /\ lost' = lost
      /\ detections' = detections /\ seconds' = seconds /\ alive' = alive
      /\ deaths' = deaths
    BY <1>2 DEF EndRecord, DropRecord, found
<1>4. records \in [Events -> (SUBSET Kinds) \cup {NoRecord}]
    BY DEF AuditIInv, AuditTyped
<1>5. /\ records' \in [Events -> (SUBSET Kinds) \cup {NoRecord}]
      /\ records'[e] = NoRecord /\ \A f \in Events : f # e => records'[f] = records[f]
    BY <1>3, <1>4
<1>6. AuditTyped' /\ LinesInv'
  <2>1. LinesInv'
      BY <1>3, LogSame DEF AuditIInv
  <2>2. AuditTyped'
      BY <1>3, <1>5 DEF AuditIInv, AuditTyped
  <2>3. QED
      BY <2>1, <2>2
<1>7. ASSUME Undisturbed' PROVE first' = 0 /\ RecordsInv' /\ CountsInv'
  <2>1. first = 0 /\ RecordsInv /\ CountsInv
      BY <1>3, <1>7 DEF AuditIInv, Undisturbed
  <2>2. PICK p : p = pos
      OBVIOUS
  <2>3. \A f : ~Compared(f)' /\ (Compared(f) <=> f = e)
      BY <1>2, <1>3 DEF Compared
  <2>4. RecordsInv'
    <3>1. SUFFICES ASSUME NEW f \in Events
                   PROVE  /\ ~CompleteAt(f, p) => Seen(records, f)' = SaidBy(f, p)
                          /\ CompleteAt(f, p) => "SYSCALL" \notin Seen(records, f)'
      <4>1. \A f \in Events : /\ CompleteAt(f, p)' <=> CompleteAt(f, p)
                              /\ SaidBy(f, p)' = SaidBy(f, p)
          BY <1>3, LogSame
      <4>2. QED
          BY <1>3, <2>2, <2>3, <3>1, <4>1 DEF RecordsInv
    <3>2. CASE f = e
      <4>1. Seen(records, f)' = {} /\ CompleteAt(f, p)
          BY <1>5, <2>1, <2>2, <2>3, <3>2 DEF Seen, RecordsInv
      <4>2. QED
          BY <4>1
    <3>3. CASE f # e
      <4>1. Seen(records, f)' = Seen(records, f)
          BY <1>5, <3>3 DEF Seen
      <4>2. QED
          BY <2>1, <2>2, <2>3, <3>3, <4>1 DEF RecordsInv
    <3>4. QED
        BY <3>2, <3>3
  <2>5. CountsInv'
    <3>1. SUFFICES ASSUME NEW f \in Events, NEW j \in DOMAIN RulesOf[f]
                   PROVE  TimesDetected(f, j)'
                            = IF ShouldDetect(f, j)' /\ ~Ahead(f, j)' THEN 1 ELSE 0
        BY DEF CountsInv
    <3>2. TimesDetected(f, j) = IF ShouldDetect(f, j) /\ ~Ahead(f, j) THEN 1 ELSE 0
        BY <2>1 DEF CountsInv
    <3>3. TimesDetected(f, j)' = TimesDetected(f, j)
        BY <1>3 DEF TimesDetected
    <3>4. ShouldDetect(f, j)' <=> ShouldDetect(f, j)
        BY <1>3, LogSame
    <3>5. ~Ahead(f, j)' /\ ~Ahead(f, j)
      <4>1. j \in Nat /\ j <= Len(RulesOf[f]) /\ Len(RulesOf[f]) \in Nat
          BY EventsAssumption
      <4>2. QED
          BY <1>2, <1>3, <2>3, <4>1 DEF Ahead
    <3>6. QED
        BY <3>2, <3>3, <3>4, <3>5
  <2>6. QED
      BY <1>3, <2>1, <2>4, <2>5
<1>8. QED
    BY <1>3, <1>6, <1>7 DEF AuditIInv

(* What loses a line or restarts the reader.                               *)
LEMMA DisturbedKeeps ==
  AuditIInv /\ (ReadHalfLine \/ AuditDies \/ AuditStarts) => AuditIInv'
<1> SUFFICES ASSUME AuditIInv, ReadHalfLine \/ AuditDies \/ AuditStarts PROVE AuditIInv'
    OBVIOUS
<1>1. /\ auditLog' = auditLog /\ detections' = detections /\ seconds' = seconds
      /\ deaths \in Nat
    BY DEF ReadHalfLine, AuditDies, AuditStarts, found, AuditIInv, AuditTyped
<1>2. LinesInv'
  <2>1. \A e : Written(e)' = Written(e)
      BY <1>1 DEF Written
  <2>2. QED
      BY <1>1, <2>1 DEF AuditIInv, LinesInv
<1>3. /\ pos \in Nat /\ Len(auditLog) \in Nat /\ pos \in 0 .. Len(auditLog)
      /\ records \in [Events -> (SUBSET Kinds) \cup {NoRecord}]
    BY LineTypes DEF AuditIInv, AuditTyped
<1>4. CASE ReadHalfLine
  <2>1. /\ lost' /\ pos' = pos + 1 /\ pos + 1 = Len(auditLog)
        /\ alive' = alive /\ deaths' = deaths
      BY <1>4 DEF ReadHalfLine, found
  <2>2. pos' \in 0 .. Len(auditLog')
      BY <1>1, <1>3, <2>1
  <2>3. CASE TakeLine(auditLog[pos + 1])
    <3>1. PICK line : line = auditLog[pos + 1]
        OBVIOUS
    <3>2. line.event \in Events /\ line.kind \in Kinds
      <4>1. pos + 1 \in DOMAIN auditLog
          BY <1>3, <2>1, LineTypes DEF AuditIInv
      <4>2. QED
          BY <3>1, <4>1, LineTypes DEF AuditIInv
    <3>3. PICK e \in Events : e = line.event
        BY <3>2
    <3>4. PICK seen : seen = Seen(records, e) \cup ({line.kind} \ {"PARENT", "OTHER"})
        OBVIOUS
    <3>5. seen \subseteq Kinds
        BY <1>3, <3>2, <3>4 DEF Seen
    <3>6. records' = [records EXCEPT ![e] = seen]
        BY <2>3, <3>1, <3>3, <3>4 DEF TakeLine, Collect
    <3>7. records' \in [Events -> (SUBSET Kinds) \cup {NoRecord}]
        BY <1>3, <3>5, <3>6
    <3>8. comparing' = <<>> \/ \E f \in Events, j \in Nat \ {0} : comparing' = <<f, j>>
      <4>1. comparing' = <<>> \/ comparing' = <<e, 1>>
          BY <2>3, <3>1, <3>3 DEF TakeLine
      <4>2. QED
          BY <4>1
    <3>9. AuditTyped'
        BY <1>1, <2>1, <2>2, <3>7, <3>8 DEF AuditIInv, AuditTyped
    <3>10. QED
        BY <1>2, <2>1, <3>9 DEF AuditIInv, Undisturbed
  <2>4. CASE UNCHANGED <<records, comparing>>
    <3>1. AuditTyped'
        BY <1>1, <2>1, <2>2, <2>4 DEF AuditIInv, AuditTyped
    <3>2. QED
        BY <1>2, <2>1, <3>1 DEF AuditIInv, Undisturbed
  <2>5. QED
      BY <1>4, <2>3, <2>4 DEF ReadHalfLine
<1>5. CASE AuditDies
  <2>1. /\ deaths' = deaths + 1 /\ records' = [e \in Events |-> NoRecord]
        /\ comparing' = <<>> /\ pos' = pos
      BY <1>5 DEF AuditDies
  <2>2. deaths' \in Nat /\ deaths' # 0
      BY <1>1, <2>1
  <2>3. records' \in [Events -> (SUBSET Kinds) \cup {NoRecord}]
      BY <2>1
  <2>4. AuditTyped'
      BY <1>1, <2>1, <2>2, <2>3 DEF AuditIInv, AuditTyped
  <2>5. QED
      BY <1>2, <2>2, <2>4 DEF AuditIInv, Undisturbed
<1>6. CASE AuditStarts
  <2>1. /\ ~alive /\ deaths' = deaths /\ pos' = Len(auditLog)
        /\ records' = records /\ comparing' = comparing
      BY <1>6 DEF AuditStarts
  <2>2. deaths' # 0
      BY <2>1 DEF AuditIInv
  <2>3. pos' \in 0 .. Len(auditLog')
      BY <1>1, <1>3, <2>1
  <2>4. AuditTyped'
      BY <1>1, <2>1, <2>3 DEF AuditIInv, AuditTyped
  <2>5. QED
      BY <1>2, <2>2, <2>4 DEF AuditIInv, Undisturbed
<1>7. QED
    BY <1>4, <1>5, <1>6

LEMMA AuditStep == AuditIInv /\ [AuditNext]_auditVars => AuditIInv'
<1> SUFFICES ASSUME AuditIInv, [AuditNext]_auditVars PROVE AuditIInv'
    OBVIOUS
<1>1. CASE FinishLine \/ PassSecond \/ UNCHANGED auditVars
  <2>1. /\ auditLog' = auditLog /\ pos' = pos /\ first' = first /\ lost' = lost
        /\ records' = records /\ comparing' = comparing /\ detections' = detections
        /\ alive' = alive /\ deaths' = deaths
      BY <1>1 DEF FinishLine, PassSecond, auditVars, reader, found
  <2>2. seconds' \in Nat
    <3>1. seconds \in Nat
        BY DEF AuditIInv, AuditTyped
    <3>2. seconds' = seconds \/ seconds' = seconds + 1
        BY <1>1 DEF FinishLine, PassSecond, auditVars
    <3>3. QED
        BY <3>1, <3>2
  <2>3. QED
      BY <2>1, <2>2, IdleKeeps
<1>2. QED
    BY <1>1, WriteKeeps, ReadKeeps, RuleKeeps, EndKeeps, DisturbedKeeps DEF AuditNext, ReadStep

LEMMA AuditExact == AuditIInv => DetectionsExact
<1>1. SUFFICES ASSUME AuditIInv, ~lost, deaths = 0, comparing = <<>>,
                      NEW e \in Events, NEW i \in DOMAIN RulesOf[e]
               PROVE  TimesDetected(e, i) = IF ShouldDetect(e, i) THEN 1 ELSE 0
    BY DEF DetectionsExact
<1>2. CountsInv /\ ~Ahead(e, i)
    BY <1>1 DEF AuditIInv, Undisturbed, Ahead, Compared
<1>3. QED
    BY <1>2 DEF CountsInv

(* However the lines of any number of events are mixed: as long as no line *)
(* is lost and the daemon does not die, an event is detected by each rule  *)
(* once or not at all, exactly as its own lines say where they complete it.*)
THEOREM EventsDetected == AuditSpec => []DetectionsExact
<1>1. QED
    BY AuditStarted, AuditStep, AuditExact, PTL DEF AuditSpec

-----------------------------------------------------------------------------
(* The scan for a scenario.  M[i] is the number of steps found among the   *)
(* members of S up to i.                                                   *)

Steps == Len(Scenario)
Goes(S, ds, i, m) == i \in S /\ m < Steps /\ KeyOf(ds[i]) = Scenario[m + 1]
After(S, ds, i, m) == IF Goes(S, ds, i, m) THEN m + 1 ELSE m
Scan(S, ds, M) ==
  M = [i \in 0 .. Len(ds) |->
         IF i = 0 THEN 0 ELSE After(S, ds, i, M[i - 1])]

LEMMA ScanExists == ASSUME NEW S, NEW ds, Len(ds) \in Nat PROVE \E M : Scan(S, ds, M)
<1> DEFINE To(n, M) ==
             M = [i \in 0 .. n |->
                    IF i = 0 THEN 0 ELSE After(S, ds, i, M[i - 1])]
           T == {n \in Nat : \E M : To(n, M)}
<1>1. 0 \in T
  <2>1. To(0, [i \in 0 .. 0 |-> 0])
      OBVIOUS
  <2>2. QED
      BY <2>1
<1>2. ASSUME NEW n \in Nat, n \in T PROVE n + 1 \in T
  <2>1. PICK M : To(n, M)
      BY <1>2
  <2> DEFINE x == After(S, ds, n + 1, M[n])
             g == [i \in 0 .. n + 1 |-> IF i = n + 1 THEN x ELSE M[i]]
  <2>2. ASSUME NEW i \in 0 .. n + 1
        PROVE  g[i] = IF i = 0 THEN 0 ELSE After(S, ds, i, g[i - 1])
    <3>1. CASE i = n + 1
      <4>1. g[i] = x /\ n \in 0 .. n + 1 /\ n # n + 1 /\ i - 1 = n /\ i # 0
          BY <3>1
      <4>2. g[i - 1] = M[n]
          BY <4>1
      <4> HIDE DEF g
      <4>3. QED
          BY <3>1, <4>1, <4>2
    <3>2. CASE i # n + 1
      <4>1. i \in 0 .. n /\ (i # 0 => i - 1 \in 0 .. n)
          BY <3>2
      <4>2. M[i] = IF i = 0 THEN 0 ELSE After(S, ds, i, M[i - 1])
          BY <2>1, <4>1
      <4>3. g[i] = M[i] /\ (i # 0 => g[i - 1] = M[i - 1])
          BY <4>1
      <4> HIDE DEF g
      <4>4. QED
          BY <4>2, <4>3
    <3>3. QED
        BY <3>1, <3>2
  <2>3. To(n + 1, g)
    <3> HIDE DEF x
    <3>1. g = [i \in 0 .. n + 1 |-> g[i]]
        OBVIOUS
    <3> HIDE DEF g
    <3>2. [i \in 0 .. n + 1 |-> g[i]]
            = [i \in 0 .. n + 1 |->
                 IF i = 0 THEN 0 ELSE After(S, ds, i, g[i - 1])]
        BY <2>2
    <3>3. QED
        BY <3>1, <3>2
  <2> HIDE DEF g
  <2>4. \E h : To(n + 1, h)
      BY <2>3
  <2> HIDE DEF To
  <2>5. QED
      BY <2>4
<1>3. Len(ds) \in T
  <2> HIDE DEF T
  <2>1. QED
      BY <1>1, <1>2, NatSetInduction
<1>4. QED
    BY <1>3 DEF Scan

(* It goes on by one step at most, never beyond the last.                  *)
LEMMA ScanCounts ==
  ASSUME NEW S, NEW ds, Len(ds) \in Nat, NEW M, Scan(S, ds, M)
  PROVE  /\ M[0] = 0
         /\ \A i \in 0 .. Len(ds) : M[i] \in Nat /\ M[i] <= Steps
         /\ \A i \in 1 .. Len(ds) :
              M[i] = After(S, ds, i, M[i - 1])
<1>1. M[0] = 0
    BY DEF Scan
<1>2. ASSUME NEW i \in 1 .. Len(ds)
      PROVE  M[i] = After(S, ds, i, M[i - 1])
  <2>1. i \in 0 .. Len(ds) /\ i # 0
      OBVIOUS
  <2>2. QED
      BY <2>1 DEF Scan
<1> DEFINE T == {n \in Nat : n <= Len(ds) => M[n] \in 0 .. Steps}
<1>3. 0 \in T
  <2>1. Steps \in Nat
      BY ScenarioAssumption DEF Steps
  <2>2. QED
      BY <1>1, <2>1
<1>4. ASSUME NEW n \in Nat, n \in T PROVE n + 1 \in T
  <2>1. SUFFICES ASSUME n + 1 <= Len(ds) PROVE M[n + 1] \in 0 .. Steps
      OBVIOUS
  <2>2. M[n] \in 0 .. Steps /\ n + 1 \in 1 .. Len(ds) /\ (n + 1) - 1 = n
      BY <1>4, <2>1
  <2>3. M[n + 1] = After(S, ds, n + 1, M[n])
      BY <1>2, <2>2
  <2>4. Goes(S, ds, n + 1, M[n]) => M[n] < Steps
      BY DEF Goes
  <2>5. Steps \in Nat
      BY ScenarioAssumption DEF Steps
  <2>6. QED
      BY <2>2, <2>3, <2>4, <2>5 DEF After
<1>5. \A n \in Nat : n \in T
  <2> HIDE DEF T
  <2>1. QED
      BY <1>3, <1>4, NatSetInduction
<1>6. \A i \in 0 .. Len(ds) : M[i] \in Nat /\ M[i] <= Steps
  <2>1. Steps \in Nat
      BY ScenarioAssumption DEF Steps
  <2>2. QED
      BY <1>5, <2>1
<1>7. QED
    BY <1>1, <1>2, <1>6

(* Every step counted was found at a place of its own.                     *)
LEMMA ScanFinds ==
  ASSUME NEW S, NEW ds, Len(ds) \in Nat, NEW M, Scan(S, ds, M)
  PROVE  \A l \in 1 .. M[Len(ds)] :
           \E i \in 1 .. Len(ds) : i \in S /\ KeyOf(ds[i]) = Scenario[l] /\ M[i] = l
<1>0. /\ M[0] = 0 /\ \A i \in 0 .. Len(ds) : M[i] \in Nat /\ M[i] <= Steps
      /\ \A i \in 1 .. Len(ds) :
           M[i] = After(S, ds, i, M[i - 1])
    BY ScanCounts
<1> DEFINE At(l, n) == \E i \in 1 .. n : i \in S /\ KeyOf(ds[i]) = Scenario[l] /\ M[i] = l
           T == {n \in Nat : n <= Len(ds) => \A l \in 1 .. M[n] : At(l, n)}
<1>1. 0 \in T
    BY <1>0
<1>2. ASSUME NEW n \in Nat, n \in T PROVE n + 1 \in T
  <2>1. SUFFICES ASSUME n + 1 <= Len(ds), NEW l \in 1 .. M[n + 1] PROVE At(l, n + 1)
      OBVIOUS
  <2>2. /\ n + 1 \in 1 .. Len(ds) /\ n \in 0 .. Len(ds) /\ n + 1 \in 0 .. Len(ds)
        /\ (n + 1) - 1 = n
      BY <2>1
  <2>3. M[n] \in Nat /\ M[n + 1] \in Nat
      BY <2>2, <1>0
  <2>4. M[n + 1] = After(S, ds, n + 1, M[n])
      BY <2>2, <1>0
  <2>5. CASE l \in 1 .. M[n]
    <3>1. At(l, n)
        BY <1>2, <2>1, <2>5
    <3>2. QED
        BY <3>1
  <2>6. CASE l \notin 1 .. M[n]
    <3>1. Goes(S, ds, n + 1, M[n]) /\ l = M[n] + 1 /\ M[n + 1] = l
        BY <2>3, <2>4, <2>6 DEF After
    <3>2. n + 1 \in S /\ KeyOf(ds[n + 1]) = Scenario[l]
        BY <3>1 DEF Goes
    <3>3. n + 1 \in 1 .. n + 1
        OBVIOUS
    <3>4. QED
        BY <3>1, <3>2, <3>3
  <2>7. QED
      BY <2>5, <2>6
<1>3. Len(ds) \in T
  <2> HIDE DEF T
  <2>1. QED
      BY <1>1, <1>2, NatSetInduction
<1>4. QED
    BY <1>3

LEMMA ScanGrows ==
  ASSUME NEW S, NEW ds, Len(ds) \in Nat, NEW M, Scan(S, ds, M)
  PROVE  \A i, j \in 0 .. Len(ds) : i <= j => M[i] <= M[j]
<1>0. /\ M[0] = 0 /\ \A i \in 0 .. Len(ds) : M[i] \in Nat /\ M[i] <= Steps
      /\ \A i \in 1 .. Len(ds) :
           M[i] = After(S, ds, i, M[i - 1])
    BY ScanCounts
<1> DEFINE T == {n \in Nat : n <= Len(ds) => \A i \in 0 .. n : M[i] <= M[n]}
<1>1. 0 \in T
    BY <1>0
<1>2. ASSUME NEW n \in Nat, n \in T PROVE n + 1 \in T
  <2>1. SUFFICES ASSUME n + 1 <= Len(ds), NEW i \in 0 .. n + 1 PROVE M[i] <= M[n + 1]
      OBVIOUS
  <2>2. /\ n + 1 \in 1 .. Len(ds) /\ n \in 0 .. Len(ds) /\ n + 1 \in 0 .. Len(ds)
        /\ (n + 1) - 1 = n /\ i \in 0 .. Len(ds)
      BY <2>1
  <2>3. M[n] \in Nat /\ M[n + 1] \in Nat /\ M[i] \in Nat
      BY <2>2, <1>0
  <2>4. M[n + 1] = After(S, ds, n + 1, M[n])
      BY <2>2, <1>0
  <2>5. i # n + 1 => M[i] <= M[n]
      BY <1>2, <2>1
  <2>6. QED
      BY <2>3, <2>4, <2>5 DEF After
<1>3. \A n \in Nat : n \in T
  <2> HIDE DEF T
  <2>1. QED
      BY <1>1, <1>2, NatSetInduction
<1>4. QED
    BY <1>3

(* However the steps may be chosen in order, the scan is at least as far.  *)
Chosen(S, ds, c) ==
  /\ c \in [1 .. Steps -> S]
  /\ \A k \in 1 .. Steps :
       KeyOf(ds[c[k]]) = Scenario[k] /\ (k > 1 => c[k - 1] < c[k])

LEMMA ScanIsAhead ==
  ASSUME NEW ds, Len(ds) \in Nat, NEW S \in SUBSET (1 .. Len(ds)), NEW M, Scan(S, ds, M),
         NEW c, Chosen(S, ds, c)
  PROVE  M[Len(ds)] = Steps
<1>0. /\ M[0] = 0 /\ \A i \in 0 .. Len(ds) : M[i] \in Nat /\ M[i] <= Steps
      /\ \A i \in 1 .. Len(ds) :
           M[i] = After(S, ds, i, M[i - 1])
    BY ScanCounts
<1> DEFINE T == {n \in Nat : n + 1 <= Steps => n + 1 <= M[c[n + 1]]}
<1>1. Steps \in Nat \ {0}
    BY ScenarioAssumption DEF Steps
<1>2. \A k \in 1 .. Steps : c[k] \in S /\ c[k] \in 1 .. Len(ds) /\ c[k] - 1 \in 0 .. Len(ds)
                            /\ c[k] \in 0 .. Len(ds)
  <2>1. \A k \in 1 .. Steps : c[k] \in S
      BY DEF Chosen
  <2>2. \A i \in S : i \in 1 .. Len(ds) /\ i - 1 \in 0 .. Len(ds) /\ i \in 0 .. Len(ds)
      OBVIOUS
  <2>3. QED
      BY <2>1, <2>2
<1>3. ASSUME NEW k \in 1 .. Steps, k - 1 <= M[c[k] - 1] PROVE k <= M[c[k]]
  <2>1. PICK i \in 1 .. Len(ds) : i = c[k] /\ i - 1 \in 0 .. Len(ds) /\ i \in 0 .. Len(ds)
      BY <1>2
  <2>2. M[i] \in Nat /\ M[i - 1] \in Nat
      BY <2>1, <1>0
  <2>3. M[i] = After(S, ds, i, M[i - 1])
      BY <1>0
  <2>4. CASE M[i - 1] = k - 1
    <3>1. i \in S /\ KeyOf(ds[i]) = Scenario[k] /\ (k - 1) + 1 = k /\ k - 1 < Steps
        BY <1>1, <1>2, <2>1 DEF Chosen
    <3>2. Goes(S, ds, i, M[i - 1])
        BY <2>4, <3>1 DEF Goes
    <3>3. QED
        BY <2>1, <2>2, <2>3, <2>4, <3>2 DEF After
  <2>5. CASE M[i - 1] # k - 1
      BY <1>3, <2>1, <2>2, <2>3, <2>5 DEF After
  <2>6. QED
      BY <2>4, <2>5
<1>4. 0 \in T
  <2>1. 1 \in 1 .. Steps
      BY <1>1
  <2>2. M[c[1] - 1] \in Nat
      BY <1>2, <2>1, <1>0
  <2>3. 1 <= M[c[1]]
      BY <1>3, <2>1, <2>2
  <2>4. QED
      BY <2>3
<1>5. ASSUME NEW n \in Nat, n \in T PROVE n + 1 \in T
  <2>1. SUFFICES ASSUME (n + 1) + 1 <= Steps PROVE (n + 1) + 1 <= M[c[(n + 1) + 1]]
      OBVIOUS
  <2>2. PICK k : k = n + 2
      OBVIOUS
  <2>3. k \in 1 .. Steps /\ n + 1 \in 1 .. Steps /\ k > 1 /\ k - 1 = n + 1 /\ (n + 1) + 1 = k
      BY <1>1, <2>1, <2>2
  <2>4. n + 1 <= M[c[n + 1]]
      BY <1>5, <2>3
  <2>5. c[k - 1] < c[k]
      BY <2>3 DEF Chosen
  <2>6. c[n + 1] <= c[k] - 1
      BY <1>2, <2>3, <2>5
  <2>7. M[c[n + 1]] <= M[c[k] - 1]
      BY <1>2, <2>3, <2>6, ScanGrows
  <2>8. M[c[n + 1]] \in Nat /\ M[c[k] - 1] \in Nat
      BY <1>2, <2>3, <1>0
  <2>9. k - 1 <= M[c[k] - 1]
      BY <2>3, <2>4, <2>7, <2>8
  <2>10. QED
      BY <1>3, <2>3, <2>9
<1>6. \A n \in Nat : n \in T
  <2> HIDE DEF T
  <2>1. QED
      BY <1>4, <1>5, NatSetInduction
<1>7. Steps <= M[c[Steps]] /\ Steps \in 1 .. Steps
  <2>1. Steps - 1 \in T /\ (Steps - 1) + 1 = Steps
      BY <1>1, <1>6
  <2>2. QED
      BY <1>1, <2>1
<1>8. M[c[Steps]] <= M[Len(ds)] /\ M[c[Steps]] \in Nat /\ M[Len(ds)] \in Nat /\ M[Len(ds)] <= Steps
  <2>1. c[Steps] \in 0 .. Len(ds) /\ Len(ds) \in 0 .. Len(ds) /\ c[Steps] <= Len(ds)
      BY <1>2, <1>7
  <2>2. QED
      BY <2>1, ScanGrows, <1>0
<1>9. QED
    BY <1>1, <1>7, <1>8

LEMMA MatchIs ==
  \A events, ds, u, t :
    ScenarioMatch(events, ds, u, t) <=>
      (CHOOSE M : Scan(RecentOf(events, ds, u, t), ds, M))[Len(ds)] = Steps
<1>1. QED
    BY DEF ScenarioMatch, Scan, After, Goes, Steps

(* A match takes a detection of its own for every step; without one there  *)
(* is no way to choose the steps.                                          *)
LEMMA MatchMeans ==
  ASSUME NEW ds, Len(ds) \in Nat, NEW events \in SUBSET (1 .. Len(ds)), NEW u, NEW t
  PROVE  LET mine == RecentOf(events, ds, u, t)
         IN  /\ ScenarioMatch(events, ds, u, t) =>
                  \E p \in Injection(1 .. Steps, mine) :
                    \A l \in 1 .. Steps : KeyOf(ds[p[l]]) = Scenario[l]
             /\ ~ScenarioMatch(events, ds, u, t) => ~\E c : Chosen(mine, ds, c)
<1> DEFINE mine == RecentOf(events, ds, u, t)
           M == CHOOSE M : Scan(mine, ds, M)
<1>1. Scan(mine, ds, M)
    BY ScanExists
<1>2. ScenarioMatch(events, ds, u, t) <=> M[Len(ds)] = Steps
    BY MatchIs
<1>3. mine \in SUBSET (1 .. Len(ds))
    BY DEF RecentOf
<1> HIDE DEF M, mine
<1>4. ASSUME M[Len(ds)] = Steps
      PROVE  \E p \in Injection(1 .. Steps, mine) :
               \A l \in 1 .. Steps : KeyOf(ds[p[l]]) = Scenario[l]
  <2>1. \A l \in 1 .. Steps : \E i \in 1 .. Len(ds) :
           i \in mine /\ KeyOf(ds[i]) = Scenario[l] /\ M[i] = l
    <3>1. \A l \in 1 .. M[Len(ds)] : \E i \in 1 .. Len(ds) :
             i \in mine /\ KeyOf(ds[i]) = Scenario[l] /\ M[i] = l
        BY <1>1, ScanFinds
    <3>2. QED
        BY <1>4, <3>1
  <2> DEFINE p == [l \in 1 .. Steps |->
                     CHOOSE i \in 1 .. Len(ds) :
                       i \in mine /\ KeyOf(ds[i]) = Scenario[l] /\ M[i] = l]
  <2>2. \A l \in 1 .. Steps : p[l] \in mine /\ KeyOf(ds[p[l]]) = Scenario[l] /\ M[p[l]] = l
      BY <2>1
  <2>3. p = [l \in 1 .. Steps |-> p[l]]
      OBVIOUS
  <2> HIDE DEF p
  <2>4. p \in [1 .. Steps -> mine]
      BY <2>2, <2>3
  <2>5. \A k, l \in 1 .. Steps : p[k] = p[l] => k = l
      BY <2>2
  <2>6. p \in Injection(1 .. Steps, mine)
      BY <2>4, <2>5 DEF Injection, IsInjective
  <2>7. QED
      BY <2>2, <2>6
<1>5. ASSUME NEW c, Chosen(mine, ds, c) PROVE M[Len(ds)] = Steps
    BY <1>1, <1>3, <1>5, ScanIsAhead
<1>6. QED
    BY <1>2, <1>4, <1>5 DEF mine

(* No scenario is left without an alarm (NoScenarioMissed), and the        *)
(* detections that are no longer kept are enough for the alarms given      *)
(* (AlarmsServed).                                                         *)
Alarms == [user : Users, time : Nat]
AlarmsOf(u) == {i \in DOMAIN alarms : alarms[i].user = u}
SameKey(k) == {l \in DOMAIN Scenario : Scenario[l] = Scenario[k]}
Behind(u, k) ==
  {d \in DOMAIN detections :
     /\ d \notin recentEvents
     /\ User[detections[d].event] = u /\ KeyOf(detections[d]) = Scenario[k]}
AlarmsServed ==
  \A u \in Users, k \in DOMAIN Scenario :
    Cardinality(AlarmsOf(u)) * Cardinality(SameKey(k)) <= Cardinality(Behind(u, k))
FoundTyped ==
  /\ detections \in Seq(Found) /\ recentEvents \subseteq DOMAIN detections
  /\ alarms \in Seq(Alarms)
ScenarioIInv == FoundTyped /\ NoScenarioMissed /\ AlarmsServed

LEMMA SetsAreFinite ==
  ASSUME FoundTyped
  PROVE  /\ \A k : IsFiniteSet(SameKey(k)) /\ Cardinality(SameKey(k)) \in Nat
         /\ \A u : IsFiniteSet(AlarmsOf(u)) /\ Cardinality(AlarmsOf(u)) \in Nat
         /\ \A u, k : IsFiniteSet(Behind(u, k)) /\ Cardinality(Behind(u, k)) \in Nat
<1>1. /\ DOMAIN detections = 1 .. Len(detections) /\ Len(detections) \in Nat
      /\ DOMAIN alarms = 1 .. Len(alarms) /\ Len(alarms) \in Nat
    BY Members DEF FoundTyped
<1>2. /\ IsFiniteSet(DOMAIN detections) /\ IsFiniteSet(DOMAIN alarms)
      /\ IsFiniteSet(DOMAIN Scenario)
  <2>1. DOMAIN Scenario = 1 .. Len(Scenario) /\ Len(Scenario) \in Nat
      BY ScenarioAssumption
  <2>2. QED
      BY <1>1, <2>1, FS_Interval
<1>3. /\ \A k : SameKey(k) \in SUBSET DOMAIN Scenario
      /\ \A u : AlarmsOf(u) \in SUBSET DOMAIN alarms
      /\ \A u, k : Behind(u, k) \in SUBSET DOMAIN detections
    BY DEF SameKey, AlarmsOf, Behind
<1>4. QED
    BY <1>2, <1>3, FS_Subset, FS_CardinalityType

(* A rule detects an event.                                                *)
Candidates == recentEvents \cup {Len(detections) + 1}
Detects(e, d) ==
  LET ds == Append(detections, d)
      u == User[e]
  IN  /\ d.event = e /\ d.rule \in DOMAIN RulesOf[e] /\ d.time = seconds
      /\ detections' = ds
      /\ IF ScenarioMatch(Candidates, ds, u, seconds)
           THEN /\ alarms' = Append(alarms, [user |-> u, time |-> seconds])
                /\ recentEvents' = Candidates \ RecentOf(Candidates, ds, u, seconds)
           ELSE recentEvents' = Candidates /\ alarms' = alarms

LEMMA FoundCases ==
  ASSUME AuditTyped, [AuditNext]_auditVars
  PROVE  \/ UNCHANGED found
         \/ recentEvents' = {} /\ detections' = detections /\ alarms' = alarms
         \/ \E e \in Events, d \in Found : Detects(e, d)
<1>1. CASE CompareWithRule
  <2>1. PICK e \in Events, i \in Nat \ {0} : comparing = <<e, i>>
      BY <1>1 DEF AuditTyped, CompareWithRule
  <2>2. comparing # <<>> /\ comparing[1] = e /\ comparing[2] = i
      BY <2>1
  <2>3. PICK d : d = [event |-> e, rule |-> i, time |-> seconds]
      OBVIOUS
  <2>4. d \in Found /\ d.event = e /\ d.time = seconds
      BY <2>3 DEF AuditTyped, Found
  <2>5. CASE UNCHANGED found
      BY <2>5
  <2>6. CASE ~UNCHANGED found
    <3>1. Len(Append(detections, d)) = Len(detections) + 1
        BY <2>4, Appended DEF AuditTyped
    <3>2. d.rule \in DOMAIN RulesOf[e]
      <4>1. i \in 1 .. Len(RulesOf[e]) /\ d.rule = i
          BY <1>1, <2>2, <2>3, EventsAssumption DEF CompareWithRule
      <4>2. QED
          BY <4>1, EventsAssumption
    <3>3. Detects(e, d)
        BY <1>1, <2>2, <2>3, <2>4, <2>6, <3>1, <3>2
           DEF CompareWithRule, Detects, Candidates, WithoutUsed
    <3>4. QED
        BY <2>4, <3>3
  <2>7. QED
      BY <2>5, <2>6
<1>2. CASE AuditDies
    BY <1>2 DEF AuditDies
<1>3. CASE UNCHANGED auditVars
    BY <1>3 DEF auditVars
<1>4. CASE FinishLine \/ PassSecond \/ \E e \in Events : WriteLine(e)
    BY <1>4 DEF FinishLine, PassSecond, WriteLine, reader
<1>5. CASE ReadLine \/ ReadHalfLine \/ EndRecord \/ AuditStarts
    BY <1>5 DEF ReadLine, ReadHalfLine, EndRecord, AuditStarts
<1>6. QED
    BY <1>1, <1>2, <1>3, <1>4, <1>5 DEF AuditNext, ReadStep

(* What detecting leaves: what was found before stays where it was.        *)
LEMMA DetectsIs ==
  ASSUME FoundTyped, seconds \in Nat, NEW e \in Events, NEW d \in Found, Detects(e, d),
         NEW n, n = Len(detections) + 1,
         NEW mine, mine = RecentOf(Candidates, detections', User[e], seconds)
  PROVE  /\ n \in Nat \ {0} /\ DOMAIN detections = 1 .. n - 1
         /\ Len(detections') = n /\ DOMAIN detections' = 1 .. n
         /\ \A i \in 1 .. n - 1 : detections'[i] = detections[i] /\ i # n
         /\ detections'[n].event = e /\ detections'[n].time = seconds
         /\ Candidates \subseteq 1 .. n /\ Candidates = recentEvents \cup {n}
         /\ recentEvents \subseteq 1 .. n - 1
         /\ mine \subseteq Candidates /\ n \in mine
         /\ recentEvents' = IF ScenarioMatch(Candidates, detections', User[e], seconds)
                              THEN Candidates \ mine ELSE Candidates
         /\ FoundTyped'
<1>1. /\ DOMAIN detections = 1 .. Len(detections) /\ Len(detections) \in Nat
      /\ detections' = Append(detections, d)
    BY Members DEF FoundTyped, Detects
<1>2. /\ n \in Nat \ {0} /\ n - 1 = Len(detections) /\ DOMAIN detections = 1 .. n - 1
    BY <1>1
<1>3. /\ detections' \in Seq(Found) /\ Len(detections') = n /\ DOMAIN detections' = 1 .. n
      /\ \A i \in 1 .. n - 1 : detections'[i] = detections[i]
      /\ detections'[n] = d
    BY <1>1, <1>2, Appended DEF FoundTyped
<1>4. \A i \in 1 .. n - 1 : i # n
    BY <1>2
<1>5. detections'[n].event = e /\ detections'[n].time = seconds
    BY <1>3 DEF Detects
<1>6. Candidates = recentEvents \cup {n} /\ recentEvents \subseteq 1 .. n - 1
    BY <1>2 DEF Candidates, FoundTyped
<1>7. Candidates \subseteq 1 .. n
  <2>1. n \in 1 .. n /\ \A i \in 1 .. n - 1 : i \in 1 .. n
      BY <1>2
  <2>2. QED
      BY <1>6, <2>1
<1>8. mine \subseteq Candidates
    BY DEF RecentOf
<1>9. n \in mine
  <2>1. seconds - detections'[n].time <= Window
      BY <1>5, AuditBoundsAssumption
  <2>2. QED
      BY <1>5, <1>6, <2>1 DEF RecentOf
<1>10. recentEvents' = IF ScenarioMatch(Candidates, detections', User[e], seconds)
                         THEN Candidates \ mine ELSE Candidates
    BY <1>1 DEF Detects
<1>11. FoundTyped'
  <2>1. recentEvents' \subseteq DOMAIN detections'
      BY <1>3, <1>7, <1>10
  <2>2. alarms' \in Seq(Alarms)
    <3>1. [user |-> User[e], time |-> seconds] \in Alarms
        BY EventsAssumption DEF Alarms
    <3>2. alarms' = Append(alarms, [user |-> User[e], time |-> seconds]) \/ alarms' = alarms
        BY DEF Detects
    <3>3. QED
        BY <3>1, <3>2, Appended DEF FoundTyped
  <2>3. QED
      BY <1>3, <2>1, <2>2 DEF FoundTyped
<1>12. QED
    BY <1>2, <1>3, <1>4, <1>5, <1>6, <1>7, <1>8, <1>9, <1>10, <1>11

LEMMA NoneMissed ==
  ASSUME FoundTyped, seconds \in Nat, NoScenarioMissed,
         NEW e \in Events, NEW d \in Found, Detects(e, d)
  PROVE  NoScenarioMissed'
<1>1. PICK n, mine : /\ n = Len(detections) + 1
                     /\ mine = RecentOf(Candidates, detections', User[e], seconds)
    OBVIOUS
<1>2. PICK ds, recent : ds = detections' /\ recent = recentEvents'
    OBVIOUS
<1>3. /\ n \in Nat \ {0} /\ DOMAIN detections = 1 .. n - 1
      /\ Len(ds) = n /\ DOMAIN ds = 1 .. n
      /\ \A i \in 1 .. n - 1 : ds[i] = detections[i] /\ i # n
      /\ ds[n].event = e /\ ds[n].time = seconds
      /\ Candidates \subseteq 1 .. n /\ Candidates = recentEvents \cup {n}
      /\ recentEvents \subseteq 1 .. n - 1
      /\ mine \subseteq Candidates /\ n \in mine
      /\ recent = IF ScenarioMatch(Candidates, ds, User[e], seconds)
                    THEN Candidates \ mine ELSE Candidates
    BY <1>1, <1>2, DetectsIs
<1>4. SUFFICES ASSUME NEW u \in Users, NEW last \in recent, User[ds[last].event] = u,
                      NEW choice \in [DOMAIN Scenario ->
                                        {i \in recent : User[ds[i].event] = u}],
                      \A k \in DOMAIN Scenario :
                        /\ KeyOf(ds[choice[k]]) = Scenario[k]
                        /\ choice[k] <= last
                        /\ ds[last].time - ds[choice[k]].time <= Window
                        /\ k > 1 => choice[k - 1] < choice[k]
               PROVE  FALSE
    BY <1>2 DEF NoScenarioMissed, MineOf, KeyOf
<1>5. \A k \in DOMAIN Scenario : choice[k] \in recent /\ User[ds[choice[k]].event] = u
    OBVIOUS
<1>6. DOMAIN Scenario = 1 .. Steps
    BY ScenarioAssumption DEF Steps
<1>7. CASE last = n
  <2>1. u = User[e] /\ ~ScenarioMatch(Candidates, ds, User[e], seconds) /\ recent = Candidates
      BY <1>3, <1>4, <1>7
  <2>2. \A k \in DOMAIN Scenario : choice[k] \in mine
      BY <1>1, <1>2, <1>3, <1>4, <1>5, <1>7, <2>1 DEF RecentOf
  <2>3. Chosen(mine, ds, choice)
      BY <1>4, <1>6, <2>2 DEF Chosen
  <2>4. Candidates \in SUBSET (1 .. Len(ds)) /\ Len(ds) \in Nat
      BY <1>3
  <2>5. QED
      BY <1>1, <1>2, <2>1, <2>3, <2>4, MatchMeans
<1>8. CASE last # n
  <2>1. last \in recentEvents /\ last \in 1 .. n - 1
      BY <1>3, <1>8
  <2>2. \A k \in DOMAIN Scenario : choice[k] \in recentEvents
    <3>1. \A i \in recent : i \in recentEvents \/ i = n
        BY <1>3
    <3>2. ~(n <= last)
        BY <1>3, <2>1
    <3>3. QED
        BY <1>4, <1>5, <3>1, <3>2
  <2>3. ds[last] = detections[last]
        /\ \A k \in DOMAIN Scenario : ds[choice[k]] = detections[choice[k]]
      BY <1>3, <2>1, <2>2
  <2>4. last \in MineOf(u) /\ choice \in [DOMAIN Scenario -> MineOf(u)]
    <3>1. \A k \in DOMAIN Scenario : choice[k] \in MineOf(u)
        BY <1>5, <2>2, <2>3 DEF MineOf
    <3>2. QED
        BY <1>4, <2>1, <2>3, <3>1 DEF MineOf
  <2>5. \A k \in DOMAIN Scenario :
          /\ KeyOf(detections[choice[k]]) = Scenario[k]
          /\ choice[k] <= last
          /\ detections[last].time - detections[choice[k]].time <= Window
          /\ k > 1 => choice[k - 1] < choice[k]
      BY <1>4, <2>3
  <2>6. QED
      BY <2>4, <2>5 DEF NoScenarioMissed
<1>9. QED
    BY <1>7, <1>8

LEMMA StillServed ==
  ASSUME FoundTyped, seconds \in Nat, AlarmsServed,
         NEW e \in Events, NEW d \in Found, Detects(e, d)
  PROVE  AlarmsServed'
<1>1. PICK n, mine : /\ n = Len(detections) + 1
                     /\ mine = RecentOf(Candidates, detections', User[e], seconds)
    OBVIOUS
<1>2. /\ n \in Nat \ {0} /\ DOMAIN detections = 1 .. n - 1
      /\ Len(detections') = n /\ DOMAIN detections' = 1 .. n
      /\ \A i \in 1 .. n - 1 : detections'[i] = detections[i] /\ i # n
      /\ Candidates \subseteq 1 .. n /\ Candidates = recentEvents \cup {n}
      /\ recentEvents \subseteq 1 .. n - 1
      /\ mine \subseteq Candidates /\ n \in mine
      /\ recentEvents' = IF ScenarioMatch(Candidates, detections', User[e], seconds)
                           THEN Candidates \ mine ELSE Candidates
      /\ FoundTyped'
    BY <1>1, DetectsIs
<1>3. SUFFICES ASSUME NEW u \in Users, NEW k \in DOMAIN Scenario
               PROVE  Cardinality(AlarmsOf(u)') * Cardinality(SameKey(k))
                        <= Cardinality(Behind(u, k)')
    BY DEF AlarmsServed, SameKey
<1>4. PICK a, b, s, B, C, K : /\ B = Behind(u, k) /\ C = Behind(u, k)' /\ K = SameKey(k)
                              /\ a = Cardinality(AlarmsOf(u)) /\ b = Cardinality(B)
                              /\ s = Cardinality(K)
    OBVIOUS
<1>5. a \in Nat /\ b \in Nat /\ s \in Nat /\ IsFiniteSet(B) /\ IsFiniteSet(K)
    BY <1>4, SetsAreFinite
<1>6. IsFiniteSet(C) /\ Cardinality(C) \in Nat
  <2>1. C \in SUBSET (1 .. n)
      BY <1>2, <1>4 DEF Behind
  <2>2. IsFiniteSet(1 .. n)
      BY <1>2, FS_Interval
  <2>3. QED
      BY <2>1, <2>2, FS_Subset, FS_CardinalityType
<1>7. a * s <= b
    BY <1>3, <1>4 DEF AlarmsServed
<1>8. B \subseteq C
  <2>1. \A i \in 1 .. n - 1 : i \in 1 .. n
      BY <1>2
  <2>2. \A i : i \notin recentEvents /\ i # n => i \notin recentEvents'
      BY <1>2
  <2>3. QED
      BY <1>2, <1>4, <2>1, <2>2 DEF Behind, KeyOf
<1>9. b <= Cardinality(C)
    BY <1>4, <1>6, <1>8, FS_Subset
<1>10. CASE AlarmsOf(u)' = AlarmsOf(u)
    BY <1>4, <1>5, <1>6, <1>7, <1>9, <1>10
<1>11. CASE AlarmsOf(u)' # AlarmsOf(u)
  <2>1. ScenarioMatch(Candidates, detections', User[e], seconds)
        /\ alarms' = Append(alarms, [user |-> User[e], time |-> seconds])
      BY <1>11 DEF Detects, AlarmsOf
  <2>2. PICK L : L = Len(alarms)
      OBVIOUS
  <2>3. /\ L \in Nat /\ DOMAIN alarms = 1 .. L /\ DOMAIN alarms' = 1 .. L + 1
        /\ \A i \in 1 .. L : alarms'[i] = alarms[i]
        /\ alarms'[L + 1].user = User[e]
    <3>1. [user |-> User[e], time |-> seconds] \in Alarms
        BY EventsAssumption DEF Alarms
    <3>2. QED
        BY <2>1, <2>2, <3>1, Appended, Members DEF FoundTyped
  <2>4. \A i : i \in 1 .. L + 1 <=> i \in 1 .. L \/ i = L + 1
      BY <2>3
  <2>5. u = User[e] /\ AlarmsOf(u)' = AlarmsOf(u) \cup {L + 1}
    <3>1. AlarmsOf(u)' = AlarmsOf(u) \cup (IF User[e] = u THEN {L + 1} ELSE {})
        BY <2>3, <2>4 DEF AlarmsOf
    <3>2. QED
        BY <1>11, <3>1
  <2>6. Cardinality(AlarmsOf(u)') = a + 1
    <3>1. L + 1 \notin AlarmsOf(u)
        BY <2>3 DEF AlarmsOf
    <3>2. IsFiniteSet(AlarmsOf(u))
        BY SetsAreFinite
    <3>3. QED
        BY <1>4, <2>5, <3>1, <3>2, FS_AddElement
  <2>7. PICK p \in Injection(1 .. Steps, mine) :
          \A l \in 1 .. Steps : KeyOf(detections'[p[l]]) = Scenario[l]
    <3>1. PICK ds : ds = detections'
        OBVIOUS
    <3>2. Candidates \in SUBSET (1 .. Len(ds)) /\ Len(ds) \in Nat
        BY <1>2, <3>1
    <3>3. QED
        BY <1>1, <2>1, <3>1, <3>2, MatchMeans
  <2>8. PICK q : q = [l \in K |-> p[l]]
      OBVIOUS
  <2>9. PICK Q : Q = {p[l] : l \in K}
      OBVIOUS
  <2>10. K \subseteq 1 .. Steps /\ \A l \in K : Scenario[l] = Scenario[k]
      BY <1>4, ScenarioAssumption DEF SameKey, Steps
  <2>11. IsFiniteSet(Q) /\ Cardinality(Q) = s
    <3>1. /\ \A l \in K : q[l] = p[l] /\ q[l] \in Q
          /\ \A l, m \in K : q[l] = q[m] => l = m
        BY <2>7, <2>8, <2>9, <2>10 DEF Injection, IsInjective
    <3>2. q \in [K -> Q] /\ \A x \in Q : \E l \in K : q[l] = x
        BY <2>8, <2>9, <3>1
    <3>3. q \in Bijection(K, Q)
        BY <3>1, <3>2 DEF Bijection, Injection, IsInjective, Surjection
    <3>4. QED
        BY <1>4, <1>5, <3>3, FS_Bijection DEF ExistsBijection
  <2>12. Q \subseteq C
    <3>1. SUFFICES ASSUME NEW l \in K PROVE p[l] \in C
        BY <2>9
    <3>2. p[l] \in mine /\ KeyOf(detections'[p[l]]) = Scenario[k]
        BY <2>7, <2>10 DEF Injection
    <3>3. User[detections'[p[l]].event] = u
        BY <1>1, <2>5, <3>2 DEF RecentOf
    <3>4. p[l] \in DOMAIN detections' /\ p[l] \notin recentEvents'
        BY <1>2, <2>1, <3>2
    <3>5. QED
        BY <1>4, <3>2, <3>3, <3>4 DEF Behind, KeyOf
  <2>13. Q \cap B = {}
    <3>1. SUFFICES ASSUME NEW l \in K, p[l] \in B PROVE FALSE
        BY <2>9
    <3>2. p[l] \in Candidates
        BY <1>2, <2>7, <2>10 DEF Injection
    <3>3. QED
        BY <1>2, <1>4, <3>1, <3>2 DEF Behind
  <2>14. b + s <= Cardinality(C)
    <3>1. IsFiniteSet(Q \cup B) /\ Cardinality(Q \cup B) = s + b
      <4>1. Cardinality(Q \cap B) = 0
          BY <2>13, FS_EmptySet
      <4>2. /\ IsFiniteSet(Q \cup B)
            /\ Cardinality(Q \cup B) = Cardinality(Q) + Cardinality(B) - Cardinality(Q \cap B)
          BY <1>5, <2>11, FS_Union
      <4>3. QED
          BY <1>4, <1>5, <2>11, <4>1, <4>2
    <3>2. Q \cup B \in SUBSET C
        BY <1>8, <2>12
    <3>3. Cardinality(Q \cup B) <= Cardinality(C)
        BY <1>6, <3>2, FS_Subset
    <3>4. QED
        BY <1>5, <1>6, <3>1, <3>3
  <2>15. (a + 1) * s = a * s + s
      BY <1>5
  <2>16. a * s \in Nat
      BY <1>5
  <2>17. QED
      BY <1>4, <1>5, <1>6, <1>7, <2>6, <2>14, <2>15, <2>16
<1>12. QED
    BY <1>10, <1>11

LEMMA ScenarioStep ==
  AuditTyped /\ ScenarioIInv /\ [AuditNext]_auditVars => ScenarioIInv'
<1> SUFFICES ASSUME AuditTyped, ScenarioIInv, [AuditNext]_auditVars PROVE ScenarioIInv'
    OBVIOUS
<1>1. FoundTyped /\ NoScenarioMissed /\ AlarmsServed /\ seconds \in Nat
    BY DEF ScenarioIInv, AuditTyped
<1>2. CASE UNCHANGED found
    BY <1>1, <1>2 DEF ScenarioIInv, FoundTyped, NoScenarioMissed, AlarmsServed, found,
                      MineOf, AlarmsOf, Behind, SameKey, KeyOf
<1>3. CASE recentEvents' = {} /\ detections' = detections /\ alarms' = alarms
  <2>1. FoundTyped' /\ NoScenarioMissed'
      BY <1>1, <1>3 DEF FoundTyped, NoScenarioMissed, MineOf
  <2>2. SUFFICES ASSUME NEW u \in Users, NEW k \in DOMAIN Scenario
                 PROVE  Cardinality(AlarmsOf(u)') * Cardinality(SameKey(k))
                          <= Cardinality(Behind(u, k)')
      BY <2>1 DEF ScenarioIInv, AlarmsServed, SameKey
  <2>3. Cardinality(AlarmsOf(u)) * Cardinality(SameKey(k)) <= Cardinality(Behind(u, k))
      BY <1>1 DEF AlarmsServed
  <2>4. AlarmsOf(u)' = AlarmsOf(u) /\ Behind(u, k) \subseteq Behind(u, k)'
      BY <1>3 DEF AlarmsOf, Behind, KeyOf
  <2>5. IsFiniteSet(Behind(u, k)') /\ Cardinality(Behind(u, k)') \in Nat
    <3>1. DOMAIN detections = 1 .. Len(detections) /\ Len(detections) \in Nat
        BY <1>1, Members DEF FoundTyped
    <3>2. Behind(u, k)' \in SUBSET (1 .. Len(detections))
        BY <1>3, <3>1 DEF Behind
    <3>3. IsFiniteSet(1 .. Len(detections))
        BY <3>1, FS_Interval
    <3>4. QED
        BY <3>2, <3>3, FS_Subset, FS_CardinalityType
  <2>6. Cardinality(Behind(u, k)) <= Cardinality(Behind(u, k)')
      BY <2>4, <2>5, FS_Subset
  <2>7. PICK a, s, b : /\ a = Cardinality(AlarmsOf(u)) /\ s = Cardinality(SameKey(k))
                       /\ b = Cardinality(Behind(u, k))
      OBVIOUS
  <2>8. a \in Nat /\ s \in Nat /\ b \in Nat /\ a * s \in Nat
      BY <1>1, <2>7, SetsAreFinite
  <2>9. QED
      BY <2>3, <2>4, <2>5, <2>6, <2>7, <2>8
<1>4. CASE \E e \in Events, d \in Found : Detects(e, d)
  <2>1. PICK e \in Events, d \in Found : Detects(e, d)
      BY <1>4
  <2>2. FoundTyped'
      BY <1>1, <2>1, DetectsIs
  <2>3. NoScenarioMissed'
      BY <1>1, <2>1, NoneMissed
  <2>4. AlarmsServed'
      BY <1>1, <2>1, StillServed
  <2>5. QED
      BY <2>2, <2>3, <2>4 DEF ScenarioIInv
<1>5. QED
    BY <1>2, <1>3, <1>4, FoundCases

(* The types of the comparison and of what was found, step by step.        *)
ComparedTyped ==
  comparing # <<>> =>
    /\ comparing[1] \in Events /\ Complete(records, comparing[1])
    /\ comparing[2] \in 1 .. Len(RulesOf[comparing[1]]) + 1
TimedFound ==
  \A i \in DOMAIN detections :
    /\ detections[i].event \in Events /\ detections[i].time \in 1 .. MaxSeconds
    /\ detections[i].rule \in DOMAIN RulesOf[detections[i].event]
TimedAlarms == alarms \in Seq([user : Users, time : 1 .. MaxSeconds])
AuditRest ==
  /\ half \in BOOLEAN /\ lost \in BOOLEAN /\ alive \in BOOLEAN
  /\ first \in 0 .. Len(auditLog)
  /\ seconds \in 1 .. MaxSeconds /\ deaths \in 0 .. MaxDeaths

LEMMA ComparedStays ==
  ASSUME AuditTyped, ComparedTyped, [AuditNext]_auditVars PROVE ComparedTyped'
<1>1. ASSUME NEW line, line.event \in Events, TakeLine(line) PROVE ComparedTyped'
  <2>1. PICK e \in Events : e = line.event
      BY <1>1
  <2>2. CASE Complete(Collect(line), e)
    <3>1. comparing' = <<e, 1>> /\ Complete(records', e)
        BY <1>1, <2>1, <2>2 DEF TakeLine, Complete, Seen
    <3>2. comparing'[1] = e /\ comparing'[2] = 1
        BY <3>1
    <3>3. 1 \in 1 .. Len(RulesOf[e]) + 1
        BY EventsAssumption
    <3>4. QED
        BY <3>1, <3>2, <3>3 DEF ComparedTyped, Complete, Seen
  <2>3. CASE ~Complete(Collect(line), e)
      BY <1>1, <2>1, <2>3 DEF TakeLine, ComparedTyped
  <2>4. QED
      BY <2>2, <2>3
<1>2. ASSUME comparing' = comparing, records' = records PROVE ComparedTyped'
    BY <1>2 DEF ComparedTyped, Complete, Seen
<1>3. CASE ReadLine \/ ReadHalfLine
  <2>1. pos + 1 \in DOMAIN auditLog
      BY <1>3, LineTypes DEF ReadLine, ReadHalfLine, CanRead, AuditTyped
  <2>2. auditLog[pos + 1].event \in Events
      BY <2>1, LineTypes
  <2>3. TakeLine(auditLog[pos + 1]) \/ UNCHANGED <<records, comparing>>
      BY <1>3 DEF ReadLine, ReadHalfLine
  <2>4. QED
      BY <1>1, <1>2, <2>2, <2>3
<1>4. CASE CompareWithRule
  <2>1. PICK e \in Events, i \in Nat \ {0} : comparing = <<e, i>>
      BY <1>4 DEF AuditTyped, CompareWithRule
  <2>2. comparing # <<>> /\ comparing[1] = e /\ comparing[2] = i
      BY <2>1
  <2>3. i <= Len(RulesOf[e]) /\ comparing' = <<e, i + 1>> /\ records' = records
      BY <1>4, <2>2 DEF CompareWithRule
  <2>4. comparing'[1] = e /\ comparing'[2] = i + 1
      BY <2>3
  <2>5. i + 1 \in 1 .. Len(RulesOf[e]) + 1
      BY <2>3, EventsAssumption
  <2>6. Complete(records', e)
      BY <2>2, <2>3 DEF ComparedTyped
  <2>7. QED
      BY <2>4, <2>5, <2>6 DEF ComparedTyped, Complete, Seen
<1>5. CASE EndRecord \/ AuditDies
    BY <1>5 DEF EndRecord, AuditDies, ComparedTyped
<1>6. CASE FinishLine \/ PassSecond \/ AuditStarts \/ UNCHANGED auditVars
    BY <1>2, <1>6 DEF FinishLine, PassSecond, AuditStarts, reader, auditVars
<1>7. CASE \E e \in Events : WriteLine(e)
    BY <1>2, <1>7 DEF WriteLine, reader
<1>8. QED
    BY <1>3, <1>4, <1>5, <1>6, <1>7 DEF AuditNext, ReadStep

LEMMA FoundStaysTimed ==
  ASSUME AuditTyped, FoundTyped, TimedFound, TimedAlarms, seconds \in 1 .. MaxSeconds,
         [AuditNext]_auditVars
  PROVE  TimedFound' /\ TimedAlarms'
<1>1. CASE UNCHANGED found
    BY <1>1 DEF found, TimedFound, TimedAlarms
<1>2. CASE detections' = detections /\ alarms' = alarms
    BY <1>2 DEF TimedFound, TimedAlarms
<1>3. CASE \E e \in Events, d \in Found : Detects(e, d)
  <2>1. PICK e \in Events, d \in Found : Detects(e, d)
      BY <1>3
  <2>2. PICK ds, n : ds = detections' /\ n = Len(detections)
      OBVIOUS
  <2>3. /\ DOMAIN detections = 1 .. n /\ n \in Nat /\ DOMAIN ds = 1 .. n + 1
        /\ \A i \in 1 .. n : ds[i] = detections[i]
        /\ ds[n + 1] = d
      BY <2>1, <2>2, Members, Appended DEF FoundTyped, Detects
  <2>4. \A i \in DOMAIN ds : i \in DOMAIN detections \/ i = n + 1
      BY <2>3
  <2>5. d.event \in Events /\ d.time \in 1 .. MaxSeconds /\ d.rule \in DOMAIN RulesOf[d.event]
      BY <2>1 DEF Detects
  <2>6. \A i \in DOMAIN ds :
          /\ ds[i].event \in Events /\ ds[i].time \in 1 .. MaxSeconds
          /\ ds[i].rule \in DOMAIN RulesOf[ds[i].event]
      BY <2>3, <2>4, <2>5 DEF TimedFound
  <2>7. TimedFound'
      BY <2>2, <2>6 DEF TimedFound
  <2>8. TimedAlarms'
    <3>1. PICK S, x : /\ S = [user : Users, time : 1 .. MaxSeconds]
                      /\ x = [user |-> User[e], time |-> seconds]
        OBVIOUS
    <3>2. x \in S /\ alarms \in Seq(S)
        BY <3>1, EventsAssumption DEF TimedAlarms
    <3>3. Append(alarms, x) \in Seq(S)
        BY <3>2, Appended
    <3>4. alarms' = Append(alarms, x) \/ alarms' = alarms
        BY <2>1, <3>1 DEF Detects
    <3>5. QED
        BY <3>1, <3>2, <3>3, <3>4 DEF TimedAlarms
  <2>9. QED
      BY <2>7, <2>8
<1>4. QED
    BY <1>1, <1>2, <1>3, FoundCases

LEMMA RestStays ==
  ASSUME AuditTyped, AuditRest, [AuditNext]_auditVars PROVE AuditRest'
<1>1. PICK n \in Nat : n = Len(auditLog)
    BY LineTypes
<1>3. CASE \E e \in Events : WriteLine(e)
  <2>1. PICK e \in Events : WriteLine(e)
      BY <1>3
  <2>2. PICK k : auditLog' = Append(auditLog, [event |-> e, kind |-> k])
      BY <2>1 DEF WriteLine
  <2>3. Len(auditLog') = n + 1
      BY <1>1, <2>2, AppendProperties DEF AuditTyped
  <2>4. half' \in BOOLEAN
      BY <2>1 DEF WriteLine
  <2>5. first' = first /\ lost' = lost /\ alive' = alive /\ seconds' = seconds /\ deaths' = deaths
      BY <2>1 DEF WriteLine, reader
  <2>6. first' \in 0 .. Len(auditLog')
      BY <1>1, <2>3, <2>5 DEF AuditRest
  <2>7. QED
      BY <2>4, <2>5, <2>6 DEF AuditRest
<1>4. CASE FinishLine \/ UNCHANGED auditVars
    BY <1>4 DEF FinishLine, auditVars, reader, AuditRest
<1>5. CASE PassSecond
  <2>1. seconds' \in 1 .. MaxSeconds
      BY <1>5, AuditBoundsAssumption DEF PassSecond, AuditRest
  <2>2. QED
      BY <1>5, <2>1 DEF PassSecond, reader, AuditRest
<1>6. CASE ReadLine \/ CompareWithRule \/ EndRecord
    BY <1>6 DEF ReadLine, CompareWithRule, EndRecord, AuditRest
<1>7. CASE ReadHalfLine
    BY <1>7 DEF ReadHalfLine, AuditRest
<1>8. CASE AuditDies
  <2>1. deaths' \in 0 .. MaxDeaths
      BY <1>8, AuditBoundsAssumption DEF AuditDies, AuditRest
  <2>2. alive' \in BOOLEAN
      BY <1>8 DEF AuditDies
  <2>3. QED
      BY <1>8, <2>1, <2>2 DEF AuditDies, AuditRest
<1>9. CASE AuditStarts
  <2>1. first' \in 0 .. Len(auditLog')
      BY <1>1, <1>9 DEF AuditStarts
  <2>2. alive' \in BOOLEAN
      BY <1>9 DEF AuditStarts
  <2>3. lost' \in BOOLEAN
      BY <1>9 DEF AuditStarts
  <2>4. QED
      BY <1>9, <2>1, <2>2, <2>3 DEF AuditStarts, AuditRest
<1>10. QED
    BY <1>3, <1>4, <1>5, <1>6, <1>7, <1>8, <1>9 DEF AuditNext, ReadStep

AuditAll ==
  AuditIInv /\ ScenarioIInv /\ ComparedTyped /\ TimedFound /\ TimedAlarms /\ AuditRest

LEMMA AllStarts == AuditInit => AuditAll
<1> SUFFICES ASSUME AuditInit PROVE AuditAll
    OBVIOUS
<1>1. AuditIInv
    BY AuditStarted
<1>2. /\ detections = <<>> /\ recentEvents = {} /\ alarms = <<>> /\ comparing = <<>>
      /\ auditLog = <<>>
    BY DEF AuditInit
<1>3. Len(<<>>) = 0 /\ DOMAIN <<>> = {}
    BY EmptySeq
<1>4. FoundTyped /\ ComparedTyped /\ TimedFound /\ TimedAlarms
    BY <1>2, <1>3, EmptySeq DEF FoundTyped, ComparedTyped, TimedFound, TimedAlarms
<1>5. AuditRest
  <2>1. /\ first \in 0 .. Len(auditLog) /\ seconds \in 1 .. MaxSeconds
        /\ deaths \in 0 .. MaxDeaths
      BY <1>2, <1>3, AuditBoundsAssumption DEF AuditInit
  <2>2. half \in BOOLEAN
      BY DEF AuditInit
  <2>3. lost \in BOOLEAN
      BY DEF AuditInit
  <2>4. alive \in BOOLEAN
      BY DEF AuditInit
  <2>5. QED
      BY <2>1, <2>2, <2>3, <2>4 DEF AuditRest
<1>6. NoScenarioMissed
    BY <1>2 DEF NoScenarioMissed, MineOf
<1>7. AlarmsServed
  <2>1. SUFFICES ASSUME NEW u \in Users, NEW k \in DOMAIN Scenario
                 PROVE  Cardinality(AlarmsOf(u)) * Cardinality(SameKey(k))
                          <= Cardinality(Behind(u, k))
      BY DEF AlarmsServed
  <2>2. Cardinality(AlarmsOf(u)) = 0
    <3>1. AlarmsOf(u) = {}
        BY <1>2, <1>3 DEF AlarmsOf
    <3>2. QED
        BY <3>1, FS_EmptySet
  <2>3. PICK s, b : s = Cardinality(SameKey(k)) /\ b = Cardinality(Behind(u, k))
      OBVIOUS
  <2>4. s \in Nat /\ b \in Nat
      BY <1>4, <2>3, SetsAreFinite
  <2>5. 0 * s = 0
      BY <2>4
  <2>6. QED
      BY <2>2, <2>3, <2>4, <2>5
<1>8. QED
    BY <1>1, <1>4, <1>5, <1>6, <1>7 DEF AuditAll, ScenarioIInv

LEMMA AllStay == AuditAll /\ [AuditNext]_auditVars => AuditAll'
<1> SUFFICES ASSUME AuditAll, [AuditNext]_auditVars PROVE AuditAll'
    OBVIOUS
<1>1. AuditTyped /\ FoundTyped /\ seconds \in 1 .. MaxSeconds
    BY DEF AuditAll, AuditIInv, ScenarioIInv, AuditRest
<1>2. AuditIInv'
    BY AuditStep DEF AuditAll
<1>3. ScenarioIInv'
    BY <1>1, ScenarioStep DEF AuditAll
<1>4. ComparedTyped'
    BY <1>1, ComparedStays DEF AuditAll
<1>5. TimedFound' /\ TimedAlarms'
    BY <1>1, FoundStaysTimed DEF AuditAll
<1>6. AuditRest'
    BY <1>1, RestStays DEF AuditAll
<1>7. QED
    BY <1>2, <1>3, <1>4, <1>5, <1>6 DEF AuditAll

LEMMA AllMeansServed == AuditAll => ScenariosExact
<1> SUFFICES ASSUME AuditAll PROVE ScenariosExact
    OBVIOUS
<1>1. FoundTyped /\ NoScenarioMissed /\ AlarmsServed
    BY DEF AuditAll, ScenarioIInv
<1>2. SUFFICES ASSUME NEW u \in Users, NEW k \in DOMAIN Scenario
               PROVE  Cardinality(AlarmsOf(u)) * Cardinality(SameKey(k))
                        <= Cardinality({d \in DOMAIN detections :
                             User[detections[d].event] = u
                             /\ KeyOf(detections[d]) = Scenario[k]})
    BY <1>1 DEF ScenariosExact, DetectionsServeOnce, AlarmsOf, SameKey
<1>3. PICK C : C = {d \in DOMAIN detections :
                      User[detections[d].event] = u /\ KeyOf(detections[d]) = Scenario[k]}
    OBVIOUS
<1>4. IsFiniteSet(C) /\ Cardinality(C) \in Nat
  <2>1. DOMAIN detections = 1 .. Len(detections) /\ Len(detections) \in Nat
      BY <1>1, Members DEF FoundTyped
  <2>2. IsFiniteSet(DOMAIN detections)
      BY <2>1, FS_Interval
  <2>3. C \in SUBSET DOMAIN detections
      BY <1>3
  <2>4. QED
      BY <2>2, <2>3, FS_Subset, FS_CardinalityType
<1>5. Cardinality(Behind(u, k)) <= Cardinality(C)
  <2>1. Behind(u, k) \in SUBSET C
      BY <1>3 DEF Behind
  <2>2. QED
      BY <1>4, <2>1, FS_Subset
<1>6. PICK a, s, b : /\ a = Cardinality(AlarmsOf(u)) /\ s = Cardinality(SameKey(k))
                     /\ b = Cardinality(Behind(u, k))
    OBVIOUS
<1>7. a \in Nat /\ s \in Nat /\ b \in Nat /\ a * s \in Nat /\ a * s <= b
    BY <1>1, <1>6, SetsAreFinite DEF AlarmsServed
<1>8. QED
    BY <1>3, <1>4, <1>5, <1>6, <1>7

(* Users are alarmed about the scenarios there are, for any scenario and   *)
(* events: scanning once what is remembered of a user misses none, however *)
(* its steps repeat, and no detection counts for two alarms.               *)
THEOREM ScenariosFound == AuditSpec => []ScenariosExact
<1>1. QED
    BY AllStarts, AllStay, AllMeansServed, PTL DEF AuditSpec

(* Type correctness of the audit log analysis; what is compared is         *)
(* complete, and with a rule there is or with the end.                     *)
THEOREM AuditTypes == AuditSpec => []AuditTypeOK
<1>1. AuditAll => AuditTypeOK
    BY DEF AuditAll, AuditIInv, AuditTyped, Lines, ScenarioIInv, FoundTyped, ComparedTyped,
           TimedFound, TimedAlarms, AuditRest, AuditTypeOK
<1>2. QED
    BY <1>1, AllStarts, AllStay, PTL DEF AuditSpec
-----------------------------------------------------------------------------
(* Minutes and days: what dividing by their lengths gives.                 *)

LEMMA Division ==
  ASSUME NEW t \in Nat, NEW d \in Nat \ {0}
  PROVE  /\ t \div d \in Nat /\ d * (t \div d) \in Nat
         /\ d * (t \div d) <= t /\ t < d * (t \div d) + d
         /\ t % d = t - d * (t \div d)
<1>1. t \div d \in Nat /\ t % d \in 0 .. d - 1 /\ t = d * (t \div d) + (t % d)
    OBVIOUS
<1>2. QED
    BY <1>1

LEMMA Multiples ==
  ASSUME NEW d \in Nat \ {0}, NEW p \in Nat, NEW q \in Nat
  PROVE  /\ d * p \in Nat /\ d * (p + 1) = d * p + d
         /\ p <= q => d * p <= d * q
         /\ p + 1 <= q => d * p + d <= d * q
         /\ d * p < d * q + d => p <= q
<1>1. d * p \in Nat /\ d * (p + 1) = d * p + d
    OBVIOUS
<1>2. p <= q => d * p <= d * q
    OBVIOUS
<1>3. p + 1 <= q => d * p + d <= d * q
    OBVIOUS
<1>4. q + 1 <= p => d * q + d <= d * p
    OBVIOUS
<1>5. QED
    BY <1>1, <1>2, <1>3, <1>4

(* The minute of a time is the only one it is in.                          *)
LEMMA MinuteIs ==
  ASSUME NEW t \in Nat
  PROVE  /\ MinuteOf(t) \in Nat /\ UnitsPerMinute * MinuteOf(t) \in Nat
         /\ UnitsPerMinute * MinuteOf(t) <= t
         /\ t < UnitsPerMinute * MinuteOf(t) + UnitsPerMinute
         /\ \A m \in Nat : UnitsPerMinute * m <= t /\ t < UnitsPerMinute * m + UnitsPerMinute
                             => m = MinuteOf(t)
<1> DEFINE M == MinuteOf(t)
<1>1. UnitsPerMinute \in Nat \ {0}
    BY ClockAssumption
<1>2. /\ M \in Nat /\ UnitsPerMinute * M \in Nat
      /\ UnitsPerMinute * M <= t /\ t < UnitsPerMinute * M + UnitsPerMinute
    BY <1>1, Division DEF MinuteOf
<1> HIDE DEF M
<1>3. ASSUME NEW m \in Nat, UnitsPerMinute * m <= t, t < UnitsPerMinute * m + UnitsPerMinute
      PROVE  m = M
  <2>1. UnitsPerMinute * m \in Nat
      BY <1>1, <1>3, Multiples
  <2>2. UnitsPerMinute * m < UnitsPerMinute * M + UnitsPerMinute
        /\ UnitsPerMinute * M < UnitsPerMinute * m + UnitsPerMinute
      BY <1>1, <1>2, <1>3, <2>1
  <2>3. m <= M /\ M <= m
      BY <1>1, <1>2, <1>3, <2>2, Multiples
  <2>4. QED
      BY <1>2, <1>3, <2>3
<1>4. QED
    BY <1>2, <1>3 DEF M

(* A time later the minute is the same or the next one has begun.          *)
LEMMA NextMinute ==
  ASSUME NEW t \in Nat
  PROVE  \/ MinuteOf(t + 1) = MinuteOf(t)
         \/ /\ MinuteOf(t + 1) = MinuteOf(t) + 1
            /\ t + 1 = UnitsPerMinute * MinuteOf(t) + UnitsPerMinute
<1> DEFINE M == MinuteOf(t)
           U == UnitsPerMinute
<1>1. U \in Nat \ {0} /\ M \in Nat /\ U * M \in Nat /\ U * M <= t /\ t < U * M + U
    BY MinuteIs, ClockAssumption
<1>2. U * (M + 1) = U * M + U
    BY <1>1, Multiples
<1>3. \A m \in Nat : U * m <= t + 1 /\ t + 1 < U * m + U => m = MinuteOf(t + 1)
    BY MinuteIs
<1> HIDE DEF M, U
<1>4. CASE t + 1 < U * M + U
    BY <1>1, <1>3, <1>4 DEF M
<1>5. CASE t + 1 >= U * M + U
  <2>1. t + 1 = U * M + U
      BY <1>1, <1>5
  <2>2. M + 1 = MinuteOf(t + 1)
      BY <1>1, <1>2, <1>3, <2>1
  <2>3. QED
      BY <2>1, <2>2 DEF M, U
<1>6. QED
    BY <1>1, <1>4, <1>5

Days == Len(Calendar)
LEMMA DayTypes ==
  /\ UnitsPerMinute \in Nat \ {0} /\ MinutesPerDay \in Nat \ {0} /\ Days \in Nat \ {0}
  /\ DayLength \in Nat \ {0} /\ Days * MinutesPerDay \in Nat \ {0}
  /\ Days * DayLength = UnitsPerMinute * (Days * MinutesPerDay)
  /\ Days * DayLength >= UnitsPerMinute
  /\ Minutes = 0 .. Days * MinutesPerDay - 1 /\ Minutes \subseteq Nat /\ 0 \in Minutes
<1>1. UnitsPerMinute \in Nat \ {0} /\ MinutesPerDay \in Nat \ {0} /\ Days \in Nat \ {0}
    BY ClockAssumption, CalendarAssumption DEF Days
<1> HIDE DEF Days
<1>2. \A p, q \in Nat \ {0} : p * q \in Nat \ {0}
    OBVIOUS
<1>3. DayLength \in Nat \ {0} /\ Days * MinutesPerDay \in Nat \ {0}
    BY <1>1, <1>2 DEF DayLength
<1>4. \A p, q, r \in Nat : p * (q * r) = q * (p * r)
    OBVIOUS
<1>5. Days * DayLength = UnitsPerMinute * (Days * MinutesPerDay)
    BY <1>1, <1>4 DEF DayLength
<1>6. UnitsPerMinute * (Days * MinutesPerDay) >= UnitsPerMinute
  <2>1. \A p, q \in Nat \ {0} : p * q >= p
      OBVIOUS
  <2>2. QED
      BY <1>1, <1>3, <2>1
<1>7. Minutes = 0 .. Days * MinutesPerDay - 1
    BY DEF Minutes, Days
<1>8. 0 \in Minutes /\ Minutes \subseteq Nat
    BY <1>3, <1>7
<1>9. QED
    BY <1>1, <1>3, <1>5, <1>6, <1>7, <1>8

LEMMA MinuteOfNow ==
  ASSUME NEW t \in Nat, t < Days * DayLength PROVE MinuteOf(t) \in Minutes
<1>1. /\ MinuteOf(t) \in Nat /\ UnitsPerMinute * MinuteOf(t) <= t
      /\ UnitsPerMinute * MinuteOf(t) \in Nat
    BY MinuteIs
<1>2. UnitsPerMinute * MinuteOf(t) < UnitsPerMinute * (Days * MinutesPerDay)
    BY <1>1, DayTypes
<1>3. MinuteOf(t) < Days * MinutesPerDay
  <2> DEFINE N == Days * MinutesPerDay
             M == MinuteOf(t)
  <2>1. N \in Nat /\ M \in Nat /\ UnitsPerMinute \in Nat \ {0}
      BY <1>1, DayTypes
  <2>2. UnitsPerMinute * M < UnitsPerMinute * N
      BY <1>2
  <2> HIDE DEF N, M
  <2>3. ~(N <= M)
    <3>1. SUFFICES ASSUME N <= M PROVE FALSE
        OBVIOUS
    <3>2. UnitsPerMinute * N <= UnitsPerMinute * M
        BY <2>1, <3>1, Multiples
    <3>3. UnitsPerMinute * N \in Nat /\ UnitsPerMinute * M \in Nat
        BY <2>1, Multiples
    <3>4. QED
        BY <2>2, <3>2, <3>3
  <2>4. QED
      BY <2>1, <2>3 DEF N, M
<1>4. QED
    BY <1>1, <1>3, DayTypes

-----------------------------------------------------------------------------
(* When the schedules trigger.  A minute of the past was either not all    *)
(* the daemon's, or all that was due in it was triggered, or something was *)
(* triggered in the minute before (Covered).  This holds of the present    *)
(* minute already when the watcher will wake up after its end (CoverInv),  *)
(* and until a round has found something due in it, nothing was triggered  *)
(* in it but what kills of the daemon explain (TimesInv).                  *)

ClockTyped ==
  /\ now \in Nat /\ now < Days * DayLength
  /\ files \in Choices /\ up \in BOOLEAN /\ wake \in Nat
  /\ up => now <= wake /\ wake <= now + LongSleep + MaxRound
  /\ times \in [Jobs -> [Minutes -> Nat]]
  /\ outage \subseteq Minutes /\ kills \in 0 .. MaxKills

Begin == UnitsPerMinute * MinuteOf(now)
End == Begin + UnitsPerMinute
MayCompare == ~up \/ wake < End
TimesInv ==
  \A j \in Jobs, m \in Minutes :
    /\ times[j][m] > 0 => IsTimeToTrigger(schedule[j], m) /\ m <= MinuteOf(now)
    /\ times[j][m] <= kills + 1 /\ (m \notin outage => times[j][m] <= 1)
    /\ m = MinuteOf(now) /\ MayCompare =>
         times[j][m] <= kills /\ (m \notin outage => times[j][m] = 0)

Covered(m) ==
  \/ m \in outage
  \/ \A j \in Jobs : IsTimeToTrigger(schedule[j], m) => times[j][m] > 0
  \/ m > 0 /\ \E i \in Jobs : times[i][m - 1] > 0
CoverInv ==
  /\ ~up => MinuteOf(now) \in outage
  /\ up /\ wake >= End => Covered(MinuteOf(now))
  /\ MinuteOf(now) > 0 => Covered(MinuteOf(now) - 1)
  /\ up /\ wake >= End + UnitsPerMinute => \E i \in Jobs : times[i][MinuteOf(now)] > 0
  /\ up => wake < End + UnitsPerMinute + UnitsPerMinute

ClockIInv == ClockTyped /\ TimesInv /\ CoverInv

(* The present minute and the lengths of the sleeps.                       *)
LEMMA Present ==
  ASSUME ClockTyped
  PROVE  /\ MinuteOf(now) \in Minutes /\ MinuteOf(now) \in Nat
         /\ Begin \in Nat /\ End = Begin + UnitsPerMinute /\ Begin <= now /\ now < End
         /\ UnitsPerMinute \in Nat \ {0} /\ LongSleep = UnitsPerMinute
         /\ ShortSleep \in Nat /\ MaxRound \in Nat /\ MaxRound <= ShortSleep
         /\ ShortSleep + ShortSleep = UnitsPerMinute
<1>1. /\ MinuteOf(now) \in Minutes /\ MinuteOf(now) \in Nat
      /\ Begin \in Nat /\ End = Begin + UnitsPerMinute /\ Begin <= now /\ now < End
    BY MinuteOfNow, MinuteIs DEF ClockTyped, Begin, End
<1>2. ShortSleep + ShortSleep = UnitsPerMinute
    BY ClockAssumption
<1>3. QED
    BY <1>1, <1>2, ClockAssumption, RoundAssumption

LEMMA ClockStarts == ClockInit => ClockIInv
<1> SUFFICES ASSUME ClockInit PROVE ClockIInv
    OBVIOUS
<1>1. /\ now \in 0 .. UnitsPerMinute - 1 /\ up = TRUE /\ wake = now
      /\ times = [j \in Jobs |-> [m \in Minutes |-> 0]] /\ outage = {0} /\ kills = 0
      /\ files \in Choices
    BY DEF ClockInit
<1>2. ClockTyped
  <2>1. now \in Nat /\ now < Days * DayLength
    <3>1. Days * DayLength \in Nat
        BY DayTypes, Multiples
    <3>2. QED
        BY <1>1, <3>1, DayTypes
  <2>2. now <= wake /\ wake <= now + LongSleep + MaxRound
      BY <1>1, <2>1, ClockAssumption
  <2>3. QED
      BY <1>1, <2>1, <2>2, DayTypes, ClockAssumption DEF ClockTyped
<1>3. MinuteOf(now) = 0
  <2>1. now \in Nat /\ UnitsPerMinute * 0 = 0 /\ UnitsPerMinute \in Nat
      BY <1>1, ClockAssumption
  <2>2. QED
      BY <1>1, <2>1, MinuteIs
<1>4. TimesInv
    BY <1>1 DEF TimesInv
<1>5. CoverInv
  <2>1. up /\ wake < End /\ MinuteOf(now) = 0 /\ wake \in Nat /\ End \in Nat
      BY <1>1, <1>2, <1>3, Present DEF ClockTyped
  <2>2. QED
      BY <2>1, ClockAssumption DEF CoverInv
<1>6. QED
    BY <1>2, <1>4, <1>5 DEF ClockIInv

LEMMA CompareKeeps == ClockIInv /\ Compare => ClockIInv'
<1> SUFFICES ASSUME ClockIInv, Compare PROVE ClockIInv'
    OBVIOUS
<1> DEFINE U == UnitsPerMinute
<1>1. PICK M : M = MinuteOf(now)
    OBVIOUS
<1>2. /\ M \in Minutes /\ M \in Nat /\ Begin \in Nat /\ End = Begin + U
      /\ Begin <= now /\ now < End
      /\ U \in Nat \ {0} /\ LongSleep = U /\ ShortSleep \in Nat /\ MaxRound \in Nat
      /\ MaxRound <= ShortSleep /\ ShortSleep + ShortSleep = U
    BY <1>1, Present DEF ClockIInv
<1>3. /\ up /\ now = wake /\ now' = now /\ files' = files /\ up' = up /\ outage' = outage
      /\ kills' = kills /\ now \in Nat
      /\ times \in [Jobs -> [Minutes -> Nat]] /\ schedule' = schedule
    BY DEF Compare, ClockIInv, ClockTyped, schedule
<1>4. PICK r \in 0 .. MaxRound : wake' = now + r + SleepAfter(Due)
    BY DEF Compare
<1>5. times' = [j \in Jobs |-> [times[j] EXCEPT ![M] = @ + (IF j \in Due THEN 1 ELSE 0)]]
    BY <1>1 DEF Compare
<1>6. \A j \in Jobs : j \in Due <=> IsTimeToTrigger(schedule[j], M)
    BY <1>1 DEF Due
<1>7. ASSUME NEW j \in Jobs, NEW m \in Minutes
      PROVE  /\ times[j][m] \in Nat /\ times'[j][m] \in Nat
             /\ j \in Due /\ m = M => times'[j][m] = times[j][m] + 1
             /\ ~(j \in Due /\ m = M) => times'[j][m] = times[j][m]
  <2>1. times[j] \in [Minutes -> Nat] /\ times[j][m] \in Nat
      BY <1>3
  <2>2. times'[j] = [times[j] EXCEPT ![M] = @ + (IF j \in Due THEN 1 ELSE 0)]
      BY <1>5
  <2>3. m = M => times'[j][m] = times[j][m] + (IF j \in Due THEN 1 ELSE 0)
      BY <1>2, <2>1, <2>2
  <2>4. m # M => times'[j][m] = times[j][m]
      BY <1>2, <2>1, <2>2
  <2>5. QED
      BY <2>1, <2>3, <2>4
<1>8. times' \in [Jobs -> [Minutes -> Nat]]
  <2>1. ASSUME NEW j \in Jobs
        PROVE  [times[j] EXCEPT ![M] = @ + (IF j \in Due THEN 1 ELSE 0)] \in [Minutes -> Nat]
    <3>1. times[j] \in [Minutes -> Nat]
        BY <1>3
    <3>2. QED
        BY <1>2, <3>1
  <2>2. QED
      BY <1>5, <2>1
<1>9. /\ wake' \in Nat /\ now <= wake' /\ wake' <= now + LongSleep + MaxRound
      /\ Due # {} => wake' >= End /\ wake' < End + U + U
      /\ Due = {} => wake' < End + U
  <2>1. CASE Due # {}
    <3>1. wake' = now + r + U
        BY <1>2, <1>4, <2>1 DEF SleepAfter
    <3>2. QED
        BY <1>2, <1>3, <2>1, <3>1
  <2>2. CASE Due = {}
    <3>1. wake' = now + r + ShortSleep
        BY <1>4, <2>2 DEF SleepAfter
    <3>2. QED
        BY <1>2, <1>3, <2>2, <3>1
  <2>3. QED
      BY <2>1, <2>2
<1>10. ClockTyped'
    BY <1>3, <1>8, <1>9 DEF ClockIInv, ClockTyped
<1>11. /\ End' = End /\ MinuteOf(now)' = M /\ MinuteOf(now') = M
       /\ MayCompare /\ (MayCompare' <=> wake' < End)
    BY <1>1, <1>2, <1>3 DEF MayCompare, Begin, End
<1>12. TimesInv'
  <2>1. SUFFICES ASSUME NEW j \in Jobs, NEW m \in Minutes
                 PROVE  /\ times'[j][m] > 0 => IsTimeToTrigger(schedule[j], m) /\ m <= M
                        /\ times'[j][m] <= kills + 1 /\ (m \notin outage => times'[j][m] <= 1)
                        /\ m = M /\ wake' < End =>
                             times'[j][m] <= kills /\ (m \notin outage => times'[j][m] = 0)
    <3>1. \A j \in Jobs : schedule'[j] = schedule[j]
        BY <1>3
    <3>2. QED
        BY <1>3, <1>11, <3>1 DEF TimesInv
  <2>2. /\ times[j][m] > 0 => IsTimeToTrigger(schedule[j], m) /\ m <= M
        /\ times[j][m] <= kills + 1 /\ (m \notin outage => times[j][m] <= 1)
        /\ m = M => times[j][m] <= kills /\ (m \notin outage => times[j][m] = 0)
      BY <1>1, <1>11 DEF ClockIInv, TimesInv
  <2>3. m \in Nat /\ kills \in Nat
      BY DayTypes, ClockAssumption DEF ClockIInv, ClockTyped
  <2>4. CASE j \in Due /\ m = M
    <3>1. times'[j][m] = times[j][m] + 1 /\ IsTimeToTrigger(schedule[j], m)
        BY <1>6, <1>7, <2>4
    <3>2. ~(wake' < End)
        BY <1>2, <1>9, <2>4
    <3>3. QED
        BY <1>7, <2>2, <2>3, <2>4, <3>1, <3>2
  <2>5. CASE ~(j \in Due /\ m = M)
    <3>1. times'[j][m] = times[j][m]
        BY <1>7, <2>5
    <3>2. QED
        BY <2>2, <3>1
  <2>6. QED
      BY <2>4, <2>5
<1>13. \A j \in Jobs : \A m \in Minutes : times[j][m] > 0 => times'[j][m] > 0
    BY <1>7
<1>14. CoverInv'
  <2>1. Covered(M)'
    <3>1. \A j \in Jobs : IsTimeToTrigger(schedule[j], M) => times'[j][M] > 0
      <4>1. TAKE j \in Jobs
      <4>2. j \in Due => times'[j][M] = times[j][M] + 1 /\ times[j][M] \in Nat
          BY <1>2, <1>7
      <4>3. QED
          BY <1>6, <4>2
    <3>2. QED
        BY <1>3, <3>1 DEF Covered
  <2>2. M > 0 => Covered(M - 1)'
    <3>1. SUFFICES ASSUME M > 0 PROVE Covered(M - 1)'
        OBVIOUS
    <3>2. PICK p : p = M - 1
        OBVIOUS
    <3>3. Covered(p)
        BY <1>1, <3>1, <3>2 DEF ClockIInv, CoverInv
    <3>4. p \in Minutes /\ (p > 0 => p - 1 \in Minutes)
        BY <1>2, <3>1, <3>2, DayTypes
    <3>5. Covered(p)'
        BY <1>3, <1>13, <3>3, <3>4 DEF Covered
    <3>6. QED
        BY <3>2, <3>5 DEF Covered
  <2>3. wake' >= End + U => \E i \in Jobs : times'[i][M] > 0
    <3>1. SUFFICES ASSUME wake' >= End + U PROVE \E i \in Jobs : times'[i][M] > 0
        OBVIOUS
    <3>2. Due # {}
        BY <1>2, <1>9, <3>1
    <3>3. PICK i \in Jobs : i \in Due
        BY <3>2 DEF Due
    <3>4. times'[i][M] = times[i][M] + 1 /\ times[i][M] \in Nat
        BY <1>2, <1>7, <3>3
    <3>5. QED
        BY <3>4
  <2>4. wake' < End + U + U
      BY <1>2, <1>9
  <2>5. up'
      BY <1>3
  <2>6. QED
      BY <1>11, <2>1, <2>2, <2>3, <2>4, <2>5 DEF CoverInv, Covered
<1>15. QED
    BY <1>10, <1>12, <1>14 DEF ClockIInv

LEMMA PassKeeps == ClockIInv /\ Pass => ClockIInv'
<1> SUFFICES ASSUME ClockIInv, Pass PROVE ClockIInv'
    OBVIOUS
<1> DEFINE U == UnitsPerMinute
<1>1. PICK M, N : M = MinuteOf(now) /\ N = MinuteOf(now + 1)
    OBVIOUS
<1>2. PICK B, E : B = Begin /\ E = End
    OBVIOUS
<1>3. /\ M \in Minutes /\ M \in Nat /\ B \in Nat /\ E = B + U /\ B <= now /\ now < E
      /\ U \in Nat \ {0} /\ LongSleep \in Nat /\ MaxRound \in Nat
    BY <1>1, <1>2, Present DEF ClockIInv
<1>4. /\ now \in Nat /\ now' = now + 1 /\ now + 1 < Days * DayLength /\ (up => now < wake)
      /\ files' = files /\ up' = up /\ wake' = wake /\ kills' = kills /\ schedule' = schedule
      /\ times \in [Jobs -> [Minutes -> Nat]] /\ wake \in Nat
    BY DEF Pass, ClockIInv, ClockTyped, schedule, Days
<1>5. PICK K : K = Kept
    OBVIOUS
<1>6. /\ K = {m \in Minutes : m >= N - 2}
      /\ outage' = (IF up THEN outage ELSE outage \cup {N}) \cap K
      /\ times' = [j \in Jobs |-> [m \in Minutes |-> IF m \in K THEN times[j][m] ELSE 0]]
    BY <1>1, <1>5 DEF Pass, Kept
<1>7. \A j \in Jobs, m \in Minutes :
        /\ times[j][m] \in Nat
        /\ times'[j][m] = IF m \in K THEN times[j][m] ELSE 0
    BY <1>4, <1>6
<1>8. N \in Minutes /\ N \in Nat /\ MinuteOf(now)' = N /\ MinuteOf(now') = N
    BY <1>1, <1>4, MinuteOfNow, DayTypes
<1>9. \/ N = M /\ Begin' = B /\ End' = E
      \/ N = M + 1 /\ now + 1 = E /\ Begin' = E /\ End' = E + U
  <2>1. B = U * M /\ E = B + U /\ Begin' = U * N /\ End' = U * N + U
      BY <1>1, <1>2, <1>8 DEF Begin, End
  <2>2. N = M \/ (N = M + 1 /\ now + 1 = U * M + U)
      BY <1>1, <1>4, NextMinute
  <2>3. U * (M + 1) = U * M + U
      BY <1>3, Multiples
  <2>4. QED
      BY <2>1, <2>2, <2>3
<1>10. ClockTyped'
  <2>1. times' \in [Jobs -> [Minutes -> Nat]]
    <3>1. \A j \in Jobs :
            [m \in Minutes |-> IF m \in K THEN times[j][m] ELSE 0] \in [Minutes -> Nat]
        BY <1>7
    <3>2. QED
        BY <1>6, <3>1
  <2>2. outage' \subseteq Minutes
      BY <1>6
  <2>3. up' => now' <= wake' /\ wake' <= now' + LongSleep + MaxRound
      BY <1>3, <1>4 DEF ClockIInv, ClockTyped
  <2>4. QED
      BY <1>4, <2>1, <2>2, <2>3 DEF ClockIInv, ClockTyped
<1>11. \A j \in Jobs, m \in Minutes :
         /\ times[j][m] > 0 => IsTimeToTrigger(schedule[j], m) /\ m <= M
         /\ times[j][m] <= kills + 1 /\ (m \notin outage => times[j][m] <= 1)
         /\ m = M /\ (~up \/ wake < E) =>
              times[j][m] <= kills /\ (m \notin outage => times[j][m] = 0)
    BY <1>1, <1>2 DEF ClockIInv, TimesInv, MayCompare
<1>12. kills \in Nat
    BY ClockAssumption DEF ClockIInv, ClockTyped
<1>13. TimesInv'
  <2>1. SUFFICES ASSUME NEW j \in Jobs, NEW m \in Minutes
                 PROVE  /\ times'[j][m] > 0 => IsTimeToTrigger(schedule[j], m) /\ m <= N
                        /\ times'[j][m] <= kills + 1
                        /\ (m \notin outage' => times'[j][m] <= 1)
                        /\ m = N /\ (~up \/ wake < End') =>
                             /\ times'[j][m] <= kills
                             /\ (m \notin outage' => times'[j][m] = 0)
    <3>1. \A j \in Jobs : schedule'[j] = schedule[j]
        BY <1>4
    <3>2. QED
        BY <1>4, <1>8, <2>1, <3>1 DEF TimesInv, MayCompare
  <2>2. m \in Nat
      BY DayTypes
  <2>3. CASE m \notin K
    <3>1. times'[j][m] = 0
        BY <1>7, <2>3
    <3>2. QED
        BY <1>12, <3>1
  <2>4. CASE m \in K
    <3>1. times'[j][m] = times[j][m] /\ times[j][m] \in Nat
        BY <1>7, <2>4
    <3>2. m \notin outage' => m \notin outage
        BY <1>6, <2>4
    <3>3. CASE N = M /\ End' = E
        BY <1>11, <3>1, <3>2, <3>3
    <3>4. CASE N = M + 1
      <4>1. m = N => times[j][m] = 0
          BY <1>3, <1>11, <2>2, <3>1, <3>4
      <4>2. m <= M => m <= N
          BY <1>3, <2>2, <3>4
      <4>3. QED
          BY <1>11, <1>12, <3>1, <3>2, <4>1, <4>2
    <3>5. QED
        BY <1>9, <3>3, <3>4
  <2>5. QED
      BY <2>3, <2>4
<1>14. ASSUME NEW m \in K, m > 0 => m - 1 \in K, Covered(m)
       PROVE  Covered(m)'
  <2>1. m \in outage => m \in outage'
      BY <1>6
  <2>2. \A j \in Jobs : times[j][m] > 0 => times'[j][m] > 0
      BY <1>6, <1>7
  <2>3. \A j \in Jobs : m > 0 /\ times[j][m - 1] > 0 => times'[j][m - 1] > 0
      BY <1>6, <1>7, <1>14
  <2>4. QED
      BY <1>4, <1>14, <2>1, <2>2, <2>3 DEF Covered
<1>15. /\ ~up => M \in outage
       /\ up /\ wake >= E => Covered(M)
       /\ M > 0 => Covered(M - 1)
       /\ up /\ wake >= E + U => \E i \in Jobs : times[i][M] > 0
       /\ up => wake < E + U + U
    BY <1>1, <1>2 DEF ClockIInv, CoverInv
<1>16. ~up => N \in outage'
    BY <1>3, <1>6, <1>8
<1>17. M \in K /\ (M > 0 => M - 1 \in K)
    BY <1>3, <1>6, <1>9, DayTypes
<1>18. CoverInv'
  <2>1. CASE N = M /\ End' = E
    <3>1. up /\ wake >= E => Covered(M)'
        BY <1>14, <1>15, <1>17
    <3>2. M > 0 => Covered(M - 1)'
      <4>1. SUFFICES ASSUME M > 0 PROVE Covered(M - 1)'
          OBVIOUS
      <4>2. PICK p : p = M - 1
          OBVIOUS
      <4>3. Covered(p) /\ p \in K
          BY <1>15, <1>17, <4>1, <4>2
      <4>4. p > 0 => p - 1 \in K
          BY <1>3, <1>6, <2>1, <4>2, DayTypes
      <4>5. Covered(p)'
          BY <1>14, <4>3, <4>4
      <4>6. QED
          BY <4>2, <4>5 DEF Covered
    <3>3. up /\ wake >= E + U => \E i \in Jobs : times'[i][M] > 0
        BY <1>3, <1>7, <1>15, <1>17
    <3>4. QED
        BY <1>4, <1>8, <1>15, <1>16, <2>1, <3>1, <3>2, <3>3 DEF CoverInv, Covered
  <2>2. CASE N = M + 1 /\ now + 1 = E /\ End' = E + U
    <3>1. Covered(M)'
      <4>1. CASE up
        <5>1. wake >= E
            BY <1>4, <2>2, <4>1
        <5>2. QED
            BY <1>14, <1>15, <1>17, <4>1, <5>1
      <4>2. CASE ~up
        <5>1. M \in outage'
            BY <1>6, <1>15, <1>17, <4>2
        <5>2. QED
            BY <5>1 DEF Covered
      <4>3. QED
          BY <4>1, <4>2
    <3>2. Covered(N - 1)'
      <4>1. N - 1 = M
          BY <1>3, <2>2
      <4>2. QED
          BY <3>1, <4>1 DEF Covered
    <3>3. up /\ wake >= E + U => Covered(N)'
      <4>1. SUFFICES ASSUME up, wake >= E + U PROVE Covered(N)'
          OBVIOUS
      <4>2. PICK i \in Jobs : times[i][M] > 0
          BY <1>15, <4>1
      <4>3. times'[i][M] > 0 /\ N - 1 = M /\ N > 0
          BY <1>3, <1>7, <1>17, <2>2, <4>2
      <4>4. times'[i][N - 1] > 0
          BY <4>3
      <4>5. QED
          BY <4>3, <4>4 DEF Covered
    <3>4. ~(up /\ wake >= E + U + U) /\ (up => wake < E + U + U + U)
        BY <1>3, <1>4, <1>15
    <3>5. CoverInv'
        BY <1>4, <1>8, <1>16, <2>2, <3>2, <3>3, <3>4 DEF CoverInv, Covered
    <3>6. QED
        BY <3>5
  <2>3. QED
      BY <1>9, <2>1, <2>2
<1>19. QED
    BY <1>10, <1>13, <1>18 DEF ClockIInv

LEMMA KillKeeps == ClockIInv /\ Kill => ClockIInv'
<1> SUFFICES ASSUME ClockIInv, Kill PROVE ClockIInv'
    OBVIOUS
<1>1. PICK M : M = MinuteOf(now)
    OBVIOUS
<1>2. /\ up /\ kills < MaxKills /\ up' = FALSE /\ kills' = kills + 1
      /\ outage' = outage \cup {M} /\ wake' = 0
      /\ now' = now /\ files' = files /\ times' = times
    BY <1>1 DEF Kill
<1>3. M \in Minutes /\ M \in Nat /\ kills \in Nat /\ MaxKills \in Nat
    BY <1>1, Present, ClockAssumption DEF ClockIInv, ClockTyped
<1>4. ClockTyped'
  <2>1. kills' \in 0 .. MaxKills /\ wake' \in Nat
      BY <1>2, <1>3
  <2>2. /\ now' \in Nat /\ now' < Days * DayLength /\ files' \in Choices /\ ~up'
        /\ up' \in BOOLEAN /\ outage' \subseteq Minutes /\ times' \in [Jobs -> [Minutes -> Nat]]
      BY <1>2, <1>3 DEF ClockIInv, ClockTyped
  <2>3. QED
      BY <2>1, <2>2 DEF ClockTyped
<1>5. MinuteOf(now)' = M /\ MinuteOf(now') = M /\ schedule' = schedule
    BY <1>1, <1>2 DEF schedule
<1>6. TimesInv'
  <2>1. SUFFICES ASSUME NEW j \in Jobs, NEW m \in Minutes
                 PROVE  /\ times[j][m] > 0 => IsTimeToTrigger(schedule[j], m) /\ m <= M
                        /\ times[j][m] <= kills + 1 + 1
                        /\ (m \notin outage' => times[j][m] <= 1)
                        /\ m = M => /\ times[j][m] <= kills + 1
                                    /\ (m \notin outage' => times[j][m] = 0)
    <3>1. \A j \in Jobs : schedule'[j] = schedule[j]
        BY <1>5
    <3>2. QED
        BY <1>2, <1>5, <2>1, <3>1 DEF TimesInv
  <2>2. /\ times[j][m] > 0 => IsTimeToTrigger(schedule[j], m) /\ m <= M
        /\ times[j][m] <= kills + 1 /\ (m \notin outage => times[j][m] <= 1)
      BY <1>1 DEF ClockIInv, TimesInv
  <2>3. times[j][m] \in Nat
      BY DEF ClockIInv, ClockTyped
  <2>4. QED
      BY <1>2, <1>3, <2>2, <2>3
<1>7. CoverInv'
  <2>1. M > 0 => Covered(M - 1)'
    <3>1. M > 0 => Covered(M - 1)
        BY <1>1 DEF ClockIInv, CoverInv
    <3>2. QED
        BY <1>2, <1>5, <3>1 DEF Covered
  <2>2. QED
      BY <1>2, <1>5, <2>1 DEF CoverInv, Covered
<1>8. QED
    BY <1>4, <1>6, <1>7 DEF ClockIInv

LEMMA StartKeeps == ClockIInv /\ Start => ClockIInv'
<1> SUFFICES ASSUME ClockIInv, Start PROVE ClockIInv'
    OBVIOUS
<1>1. PICK M, E : M = MinuteOf(now) /\ E = End
    OBVIOUS
<1>2. /\ ~up /\ up' = TRUE /\ wake' = now
      /\ now' = now /\ files' = files /\ times' = times /\ outage' = outage /\ kills' = kills
    BY DEF Start
<1>3. /\ M \in Minutes /\ M \in Nat /\ now \in Nat /\ now < E /\ E \in Nat
      /\ LongSleep \in Nat /\ MaxRound \in Nat /\ UnitsPerMinute \in Nat
    BY <1>1, Present DEF ClockIInv, ClockTyped
<1>4. ClockTyped'
    BY <1>2, <1>3 DEF ClockIInv, ClockTyped
<1>5. /\ MinuteOf(now)' = M /\ MinuteOf(now') = M /\ End' = E /\ schedule' = schedule
      /\ MayCompare /\ MayCompare'
    BY <1>1, <1>2, <1>3 DEF schedule, End, Begin, MayCompare
<1>6. TimesInv'
  <2>1. SUFFICES ASSUME NEW j \in Jobs, NEW m \in Minutes
                 PROVE  /\ times[j][m] > 0 => IsTimeToTrigger(schedule[j], m) /\ m <= M
                        /\ times[j][m] <= kills + 1 /\ (m \notin outage => times[j][m] <= 1)
                        /\ m = M => /\ times[j][m] <= kills
                                    /\ (m \notin outage => times[j][m] = 0)
    <3>1. \A j \in Jobs : schedule'[j] = schedule[j]
        BY <1>5
    <3>2. QED
        BY <1>2, <1>5, <2>1, <3>1 DEF TimesInv
  <2>2. QED
      BY <1>1, <1>5 DEF ClockIInv, TimesInv
<1>7. CoverInv'
  <2>1. M > 0 => Covered(M - 1)'
    <3>1. M > 0 => Covered(M - 1)
        BY <1>1 DEF ClockIInv, CoverInv
    <3>2. QED
        BY <1>2, <1>5, <3>1 DEF Covered
  <2>2. ~(now >= E) /\ ~(now >= E + UnitsPerMinute)
        /\ now < E + UnitsPerMinute + UnitsPerMinute
      BY <1>3
  <2>3. QED
      BY <1>2, <1>5, <2>1, <2>2 DEF CoverInv
<1>8. QED
    BY <1>4, <1>6, <1>7 DEF ClockIInv

LEMMA ClockSame == ClockIInv /\ UNCHANGED clockVars => ClockIInv'
<1> SUFFICES ASSUME ClockIInv, UNCHANGED clockVars PROVE ClockIInv'
    OBVIOUS
<1>1. /\ now' = now /\ files' = files /\ up' = up /\ wake' = wake /\ times' = times
      /\ outage' = outage /\ kills' = kills
    BY DEF clockVars
<1>2. schedule' = schedule /\ Begin' = Begin /\ End' = End /\ MinuteOf(now)' = MinuteOf(now)
    BY <1>1 DEF schedule, Begin, End
<1>3. ClockTyped' /\ MayCompare' = MayCompare
    BY <1>1, <1>2 DEF ClockIInv, ClockTyped, MayCompare
<1>4. TimesInv'
  <2>1. \A j \in Jobs : schedule'[j] = schedule[j]
      BY <1>2
  <2>2. QED
      BY <1>1, <1>2, <1>3, <2>1 DEF ClockIInv, TimesInv
<1>5. \A m : Covered(m) => Covered(m)'
    BY <1>1, <1>2 DEF Covered
<1>6. CoverInv'
    BY <1>1, <1>2, <1>5 DEF ClockIInv, CoverInv, Covered
<1>7. QED
    BY <1>3, <1>4, <1>6 DEF ClockIInv

LEMMA ClockStep == ClockIInv /\ [ReportNext]_reportVars => ClockIInv'
<1> SUFFICES ASSUME ClockIInv, [ReportNext]_reportVars PROVE ClockIInv'
    OBVIOUS
<1>1. \/ Compare \/ Pass \/ Kill \/ Start \/ UNCHANGED clockVars
    BY DEF ReportNext, reportVars, RequestReport, LoadEmailSettings, FetchData, PassTime,
           KillDaemon, StartDaemon
<1>2. QED
    BY <1>1, CompareKeeps, PassKeeps, KillKeeps, StartKeeps, ClockSame

LEMMA ClockOnce == ClockIInv => DueOnce
<1> SUFFICES ASSUME ClockIInv PROVE DueOnce
    OBVIOUS
<1>1. PICK M : M = MinuteOf(now)
    OBVIOUS
<1>2. M \in Minutes /\ M \in Nat
    BY <1>1, Present DEF ClockIInv
<1>3. SUFFICES ASSUME NEW j \in Jobs, NEW m \in Minutes, m \in M - 1 .. M
               PROVE  /\ times[j][m] > 0 => IsTimeToTrigger(schedule[j], m)
                      /\ m \notin outage =>
                           /\ times[j][m] <= 1
                           /\ m < M /\ IsTimeToTrigger(schedule[j], m) /\ times[j][m] = 0 =>
                                \E i \in Jobs : m > 0 /\ times[i][m - 1] > 0
    BY <1>1, <1>3 DEF DueOnce
<1>4. /\ times[j][m] > 0 => IsTimeToTrigger(schedule[j], m)
      /\ m \notin outage => times[j][m] <= 1
    BY DEF ClockIInv, TimesInv
<1>5. ASSUME m \notin outage, m < M, IsTimeToTrigger(schedule[j], m), times[j][m] = 0
      PROVE  \E i \in Jobs : m > 0 /\ times[i][m - 1] > 0
  <2>1. m = M - 1 /\ M > 0
      BY <1>2, <1>3, <1>5, DayTypes
  <2>2. Covered(m)
      BY <1>1, <2>1 DEF ClockIInv, CoverInv
  <2>3. ~(times[j][m] > 0)
      BY <1>5
  <2>4. QED
      BY <1>5, <2>2, <2>3 DEF Covered
<1>6. QED
    BY <1>4, <1>5

(* Wherever in a minute the rounds of the watcher fall, and for all files  *)
(* and calendars, what is due in it is triggered in it, once: more only if *)
(* the daemon was started again meanwhile, and not at all only if it did   *)
(* not run all the time, or something was triggered in the minute before.  *)
THEOREM SchedulesTrigger == ReportSpec => []DueOnce
<1>1. ReportInit => ClockIInv
    BY ClockStarts DEF ReportInit
<1>2. QED
    BY <1>1, ClockStep, ClockOnce, PTL DEF ReportSpec

LEMMA ClockTypes == ClockIInv => ClockTypeOK
<1> SUFFICES ASSUME ClockIInv PROVE ClockTypeOK
    OBVIOUS
<1>1. Len(Calendar) * DayLength \in Nat /\ now \in 0 .. Len(Calendar) * DayLength - 1
  <2>1. Days * DayLength \in Nat
      BY DayTypes, Multiples
  <2>2. Len(Calendar) * DayLength \in Nat /\ now \in Nat /\ now < Len(Calendar) * DayLength
      BY <2>1 DEF Days, ClockIInv, ClockTyped
  <2>3. QED
      BY <2>2
<1>2. times \in [Jobs -> [Minutes -> 0 .. MaxKills + 1]]
  <2>1. ASSUME NEW j \in Jobs, NEW m \in Minutes PROVE times[j][m] \in 0 .. MaxKills + 1
    <3>1. times[j][m] \in Nat /\ times[j][m] <= kills + 1 /\ kills \in 0 .. MaxKills
        BY DEF ClockIInv, ClockTyped, TimesInv
    <3>2. QED
        BY <3>1, ClockAssumption
  <2>2. times \in [Jobs -> [Minutes -> Nat]]
      BY DEF ClockIInv, ClockTyped
  <2>3. \A j \in Jobs : times[j] \in [Minutes -> 0 .. MaxKills + 1]
      BY <2>1, <2>2
  <2>4. QED
      BY <2>2, <2>3
<1>3. QED
    BY <1>1, <1>2 DEF ClockTypeOK, ClockIInv, ClockTyped

-----------------------------------------------------------------------------
(* The reports.  What is about to be served or in the making was due in a  *)
(* minute its schedule names, less than a minute and a delay ago, and the  *)
(* watcher sleeps until that minute is over (PendingInv); what was made    *)
(* begins and ends in that time, its beginning moved back by the period    *)
(* (MadeInv).  That no second report is requested meanwhile is what keeps  *)
(* the due minute of the one and the start of the other apart: due minutes *)
(* are whole days apart, and a delay is shorter than a day.                *)

Period == PeriodOf(schedule[Report])
Latest(d) == UnitsPerMinute * d + UnitsPerMinute + MaxDelay
PendingInv ==
  /\ mbReportRequested \in BOOLEAN /\ loaded \in BOOLEAN /\ ~(mbReportRequested /\ loaded)
  /\ dueMinute \in Minutes /\ deadline \in Nat /\ mStartTime \in Int
  /\ mbReportRequested \/ loaded =>
       /\ up /\ IsTimeToTrigger(schedule[Report], dueMinute)
       /\ UnitsPerMinute * dueMinute <= now
       /\ now <= deadline /\ deadline < Latest(dueMinute)
       /\ wake >= UnitsPerMinute * dueMinute + UnitsPerMinute
  /\ loaded =>
       /\ UnitsPerMinute * dueMinute <= mStartTime + Period
       /\ mStartTime + Period <= now

Reports ==
  {r \in [due : Minutes, from : Int, to : Nat] :
     /\ IsTimeToTrigger(schedule[Report], r.due)
     /\ UnitsPerMinute * r.due <= r.from + Period
     /\ r.from + Period <= r.to
     /\ r.to < Latest(r.due) /\ r.to <= now}
MadeInv == made \in Seq(Reports)

ReportIInv == ClockIInv /\ PendingInv /\ MadeInv

LEMMA LastOrFirst ==
  ASSUME NEW A, NEW s \in Seq(A), NEW x \in A
  PROVE  (IF s = <<>> THEN <<x>> ELSE <<s[Len(s)], x>>) \in Seq(A)
<1>1. <<x>> \in Seq(A)
    OBVIOUS
<1>2. ASSUME s # <<>> PROVE <<s[Len(s)], x>> \in Seq(A)
  <2>1. s[Len(s)] \in A
    <3>1. Len(s) \in DOMAIN s
        BY <1>2, EmptySeq, LenProperties
    <3>2. QED
        BY <3>1, Members
  <2>2. QED
      BY <2>1
<1>3. QED
    BY <1>1, <1>2

LEMMA Periods ==
  /\ \A s : PeriodOf(s) \in Nat
  /\ MaxDelay \in Nat /\ UnitsPerMinute + MaxDelay <= DayLength
  /\ DaysPerWeek \in Nat \ {0} /\ DaysPerMonth \in Nat /\ Report \in Jobs
  /\ DaysPerWeek * DayLength \in Nat
<1>1. \A p, q \in Nat : p * q \in Nat
    OBVIOUS
<1>2. DaysPerWeek \in Nat /\ DaysPerMonth \in Nat /\ DayLength \in Nat
    BY ReportAssumption, DayTypes
<1>3. DaysPerWeek * DayLength \in Nat /\ DaysPerMonth * DayLength \in Nat
    BY <1>1, <1>2
<1>4. \A s : PeriodOf(s) \in Nat
    BY <1>2, <1>3 DEF PeriodOf
<1>5. QED
    BY <1>3, <1>4, ReportAssumption

(* A time of day in a day is one minute.                                   *)
LEMMA DayIs ==
  ASSUME NEW m \in Nat
  PROVE  /\ m \div MinutesPerDay \in Nat /\ m % MinutesPerDay \in Nat
         /\ m % MinutesPerDay < MinutesPerDay
         /\ m = MinutesPerDay * (m \div MinutesPerDay) + (m % MinutesPerDay)
         /\ MinutesPerDay * (m \div MinutesPerDay) \in Nat
         /\ \A q, r \in Nat : r < MinutesPerDay /\ m = MinutesPerDay * q + r
                                => m \div MinutesPerDay = q /\ m % MinutesPerDay = r
<1> DEFINE d == MinutesPerDay
           Q == m \div d
           R == m % d
<1>1. d \in Nat \ {0}
    BY DayTypes
<1>2. Q \in Nat /\ d * Q \in Nat /\ d * Q <= m /\ m < d * Q + d /\ R = m - d * Q
    BY <1>1, Division
<1> HIDE DEF d, Q, R
<1>3. R \in Nat /\ R < d /\ m = d * Q + R
    BY <1>1, <1>2
<1>4. ASSUME NEW q \in Nat, NEW r \in Nat, r < d, m = d * q + r PROVE Q = q /\ R = r
  <2>1. d * q \in Nat
      BY <1>1, Multiples
  <2>2. d * q < d * Q + d /\ d * Q < d * q + d
      BY <1>1, <1>2, <1>4, <2>1
  <2>3. q <= Q /\ Q <= q
      BY <1>1, <1>2, <2>2, Multiples
  <2>4. Q = q
      BY <1>2, <2>3
  <2>5. QED
      BY <1>2, <1>4, <2>1, <2>4
<1>5. QED
    BY <1>2, <1>3, <1>4 DEF d, Q, R

LEMMA DueApart ==
  ASSUME NEW s, NEW m \in Minutes, NEW n \in Minutes, m < n,
         IsTimeToTrigger(s, m), IsTimeToTrigger(s, n)
  PROVE  /\ m \div MinutesPerDay < n \div MinutesPerDay
         /\ n - m = MinutesPerDay * (n \div MinutesPerDay - m \div MinutesPerDay)
         /\ m + MinutesPerDay <= n
         /\ m \div MinutesPerDay + 1 \in DOMAIN Calendar
         /\ n \div MinutesPerDay + 1 \in DOMAIN Calendar
<1> DEFINE d == MinutesPerDay
           p == m \div d
           q == n \div d
           r == m % d
<1>1. m \in Nat /\ n \in Nat /\ d \in Nat \ {0} /\ Days \in Nat \ {0}
    BY DayTypes
<1>2. /\ p \in Nat /\ r \in Nat /\ r < d /\ m = d * p + r /\ d * p \in Nat
      /\ q \in Nat /\ n = d * q + (n % d) /\ d * q \in Nat
    BY <1>1, DayIs
<1>3. n % d = r
    BY DEF IsTimeToTrigger
<1>4. m < d * Days /\ n < d * Days /\ d * Days \in Nat
  <2>1. Days * d = d * Days
      BY <1>1
  <2>2. QED
      BY <1>1, <2>1, DayTypes
<1> HIDE DEF d, p, q, r
<1>5. n = d * q + r
    BY <1>2, <1>3
<1>6. d * p < d * q
    BY <1>2, <1>5
<1>7. ~(q <= p)
  <2>1. q <= p => d * q <= d * p
      BY <1>1, <1>2, Multiples
  <2>2. QED
      BY <1>2, <1>6, <2>1
<1>8. p < q /\ p + 1 <= q
    BY <1>2, <1>7
<1>9. d * (q - p) = d * q - d * p
    BY <1>1, <1>2
<1>10. d * p + d <= d * q
    BY <1>1, <1>2, <1>8, Multiples
<1>11. ~(Days <= q)
  <2>1. Days <= q => d * Days <= d * q
      BY <1>1, <1>2, Multiples
  <2>2. QED
      BY <1>2, <1>4, <1>5, <2>1
<1>12. p + 1 \in 1 .. Days /\ q + 1 \in 1 .. Days
    BY <1>1, <1>2, <1>8, <1>11
<1>13. DOMAIN Calendar = 1 .. Days
    BY CalendarAssumption DEF Days
<1>14. n - m = d * (q - p) /\ m + d <= n
    BY <1>1, <1>2, <1>5, <1>9, <1>10
<1>15. QED
    BY <1>8, <1>12, <1>13, <1>14 DEF d, p, q

LEMMA ReportStarts == ReportInit => ReportIInv
<1> SUFFICES ASSUME ReportInit PROVE ReportIInv
    OBVIOUS
<1>1. ClockIInv
    BY ClockStarts DEF ReportInit
<1>2. PendingInv
  <2>1. /\ ~mbReportRequested /\ ~loaded
        /\ mbReportRequested \in BOOLEAN /\ loaded \in BOOLEAN
      BY DEF ReportInit
  <2>2. dueMinute \in Minutes /\ deadline \in Nat /\ mStartTime \in Int
      BY DayTypes DEF ReportInit
  <2>3. QED
      BY <2>1, <2>2 DEF PendingInv
<1>3. MadeInv
    BY DEF ReportInit, MadeInv
<1>4. QED
    BY <1>1, <1>2, <1>3 DEF ReportIInv

(* The files never change, and what was made stays as it is.               *)
LEMMA MadeStays ==
  ASSUME ReportIInv, [ReportNext]_reportVars
  PROVE  /\ schedule' = schedule /\ Period' = Period
         /\ now \in Nat /\ now' \in Nat /\ now <= now' /\ Reports \subseteq Reports'
<1>1. \/ Compare \/ Pass \/ Kill \/ Start \/ UNCHANGED clockVars
    BY DEF ReportNext, reportVars, RequestReport, LoadEmailSettings, FetchData, PassTime,
           KillDaemon, StartDaemon
<1>2. files' = files /\ (now' = now \/ now' = now + 1)
    BY <1>1 DEF Compare, Pass, Kill, Start, clockVars
<1>3. schedule' = schedule /\ Period' = Period
    BY <1>2 DEF schedule, Period
<1>4. now \in Nat /\ now' \in Nat /\ now <= now'
    BY <1>2 DEF ReportIInv, ClockIInv, ClockTyped
<1>5. Reports \subseteq Reports'
  <2>1. SUFFICES ASSUME NEW r \in Reports PROVE r \in Reports'
      OBVIOUS
  <2>2. /\ r \in [due : Minutes, from : Int, to : Nat]
        /\ IsTimeToTrigger(schedule[Report], r.due)
        /\ UnitsPerMinute * r.due <= r.from + Period /\ r.from + Period <= r.to
        /\ r.to < Latest(r.due) /\ r.to <= now
      BY DEF Reports
  <2>3. r.to <= now'
      BY <1>4, <2>2
  <2>4. QED
      BY <1>3, <2>2, <2>3 DEF Reports
<1>6. QED
    BY <1>3, <1>4, <1>5

(* No second request: its due minute would be a day after the first's.     *)
LEMMA OneAtATime ==
  ASSUME ReportIInv, Compare, Report \in Due PROVE ~mbReportRequested /\ ~loaded
<1> DEFINE d == dueMinute
           U == UnitsPerMinute
<1> SUFFICES ASSUME mbReportRequested \/ loaded PROVE FALSE
    OBVIOUS
<1>1. PICK M : M = MinuteOf(now)
    OBVIOUS
<1>2. /\ M \in Minutes /\ M \in Nat /\ now \in Nat /\ U \in Nat \ {0}
      /\ U * M <= now /\ now < U * M + U /\ U * M \in Nat
    BY <1>1, Present, MinuteIs DEF ReportIInv, ClockIInv, ClockTyped
<1>3. /\ IsTimeToTrigger(schedule[Report], d) /\ d \in Minutes /\ d \in Nat
      /\ U * d <= now /\ now <= deadline /\ deadline < Latest(d) /\ deadline \in Nat
      /\ now >= U * d + U
    BY DayTypes DEF ReportIInv, PendingInv, Compare
<1>4. IsTimeToTrigger(schedule[Report], M)
    BY <1>1 DEF Due
<1>5. U * d \in Nat /\ now < U * d + U + MaxDelay /\ MaxDelay \in Nat
    BY <1>2, <1>3, Multiples, Periods DEF Latest
<1>6. d < M
  <2>1. U * d < U * M
      BY <1>2, <1>3, <1>5
  <2>2. M <= d => U * M <= U * d
      BY <1>2, <1>3, Multiples
  <2>3. QED
      BY <1>2, <1>3, <1>5, <2>1, <2>2
<1>7. d + MinutesPerDay <= M
    BY <1>2, <1>3, <1>4, <1>6, DueApart
<1>8. U * d + DayLength <= U * M
  <2>1. d + MinutesPerDay \in Nat /\ MinutesPerDay \in Nat
      BY <1>3, DayTypes
  <2>2. U * (d + MinutesPerDay) <= U * M
      BY <1>2, <1>7, <2>1, Multiples
  <2>3. U * (d + MinutesPerDay) = U * d + U * MinutesPerDay
      BY <1>2, <1>3, <2>1
  <2>4. QED
      BY <2>2, <2>3 DEF DayLength
<1>9. U + MaxDelay <= DayLength /\ DayLength \in Nat
    BY Periods, DayTypes
<1> HIDE DEF d, U
<1>10. QED
    BY <1>2, <1>5, <1>8, <1>9

LEMMA RequestKeeps == ReportIInv /\ RequestReport => PendingInv' /\ MadeInv'
<1> SUFFICES ASSUME ReportIInv, RequestReport PROVE PendingInv' /\ MadeInv'
    OBVIOUS
<1>1. Compare /\ ReportNext
    BY DEF RequestReport, ReportNext
<1>2. /\ schedule' = schedule /\ Period' = Period
      /\ now \in Nat /\ Reports \subseteq Reports'
    BY <1>1, MadeStays
<1>3. /\ up /\ now = wake /\ now' = now /\ up' = up /\ wake \in Nat
    BY <1>1 DEF Compare, ReportIInv, ClockIInv, ClockTyped
<1>4. loaded' = loaded /\ mStartTime' = mStartTime /\ made' = made
    BY DEF RequestReport
<1>5. MadeInv'
    BY <1>2, <1>4, SeqMonotonic DEF ReportIInv, MadeInv
<1>6. PICK M : M = MinuteOf(now)
    OBVIOUS
<1>7. /\ M \in Minutes /\ M \in Nat /\ UnitsPerMinute \in Nat \ {0}
      /\ Begin = UnitsPerMinute * M /\ Begin \in Nat /\ End = Begin + UnitsPerMinute
      /\ Begin <= now /\ now < End
      /\ LongSleep = UnitsPerMinute /\ ShortSleep \in Nat
    BY <1>6, Present DEF ReportIInv, ClockIInv, Begin
<1>8. PICK r \in Nat : wake' = now + r + SleepAfter(Due)
  <2>1. \E r \in 0 .. MaxRound : wake' = now + r + SleepAfter(Due)
      BY <1>1 DEF Compare
  <2>2. QED
      BY <2>1, ClockAssumption
<1>9. wake' >= wake /\ wake' \in Nat
    BY <1>2, <1>3, <1>7, <1>8 DEF SleepAfter
<1>10. CASE Report \in Due
  <2>1. ~mbReportRequested /\ ~loaded
      BY <1>1, <1>10, OneAtATime
  <2>2. mbReportRequested' = TRUE /\ dueMinute' = M /\ deadline' = now + MaxDelay
      BY <1>6, <1>10 DEF RequestReport
  <2>3. wake' >= UnitsPerMinute * M + UnitsPerMinute
    <3>1. SleepAfter(Due) = UnitsPerMinute
        BY <1>7, <1>10 DEF SleepAfter
    <3>2. QED
        BY <1>2, <1>7, <1>8, <3>1
  <2>4. now + MaxDelay \in Nat /\ now <= now + MaxDelay /\ now + MaxDelay < Latest(M)
      BY <1>2, <1>7, Periods DEF Latest
  <2>5. IsTimeToTrigger(schedule[Report], M)
      BY <1>6, <1>10 DEF Due
  <2>6. mStartTime \in Int
      BY DEF ReportIInv, PendingInv
  <2>7. Latest(dueMinute)' = Latest(M)
      BY <2>2 DEF Latest
  <2>8. /\ mbReportRequested' /\ ~loaded'
        /\ mbReportRequested' \in BOOLEAN /\ loaded' \in BOOLEAN
    <3>1. loaded \in BOOLEAN
        BY DEF ReportIInv, PendingInv
    <3>2. mbReportRequested' \in BOOLEAN /\ mbReportRequested'
        BY <2>2
    <3>3. ~loaded' /\ loaded' \in BOOLEAN
        BY <1>4, <2>1, <3>1
    <3>4. QED
        BY <3>2, <3>3
  <2>9. UnitsPerMinute * M <= now
      BY <1>7
  <2>10. PendingInv'
      BY <1>2, <1>3, <1>4, <1>7, <2>2, <2>3, <2>4, <2>5, <2>6, <2>7, <2>8, <2>9
         DEF PendingInv
  <2>11. QED
      BY <1>5, <2>10
<1>11. CASE Report \notin Due
  <2>1. mbReportRequested' = mbReportRequested /\ dueMinute' = dueMinute /\ deadline' = deadline
      BY <1>11 DEF RequestReport
  <2>2. Latest(dueMinute)' = Latest(dueMinute)
      BY <2>1 DEF Latest
  <2>3. dueMinute \in Nat /\ UnitsPerMinute * dueMinute \in Nat
      BY <1>7, DayTypes, Multiples DEF ReportIInv, PendingInv
  <2>4. wake >= UnitsPerMinute * dueMinute + UnitsPerMinute
          => wake' >= UnitsPerMinute * dueMinute + UnitsPerMinute
      BY <1>3, <1>7, <1>9, <2>3
  <2>5. PendingInv'
      BY <1>2, <1>3, <1>4, <2>1, <2>2, <2>4 DEF ReportIInv, PendingInv
  <2>6. QED
      BY <1>5, <2>5
<1>12. QED
    BY <1>10, <1>11

LEMMA LoadKeeps == ReportIInv /\ LoadEmailSettings => PendingInv' /\ MadeInv'
<1> SUFFICES ASSUME ReportIInv, LoadEmailSettings PROVE PendingInv' /\ MadeInv'
    OBVIOUS
<1>1. ReportNext
    BY DEF ReportNext
<1>2. schedule' = schedule /\ Period' = Period /\ now \in Nat /\ Reports \subseteq Reports'
    BY <1>1, MadeStays
<1>3. /\ mbReportRequested /\ ~loaded /\ mbReportRequested' = FALSE /\ loaded' = TRUE
      /\ mStartTime' = now - Period
      /\ up' = up /\ now' = now /\ wake' = wake
      /\ dueMinute' = dueMinute /\ deadline' = deadline /\ made' = made
    BY DEF LoadEmailSettings, clockVars, Period
<1>4. Period \in Nat
    BY Periods DEF Period
<1>5. now - Period \in Int /\ (now - Period) + Period = now
    BY <1>2, <1>4
<1>6. Latest(dueMinute)' = Latest(dueMinute)
    BY <1>3 DEF Latest
<1>7. PendingInv'
  <2>1. /\ ~mbReportRequested' /\ loaded'
        /\ mbReportRequested' \in BOOLEAN /\ loaded' \in BOOLEAN
      BY <1>3
  <2>2. /\ dueMinute \in Minutes /\ deadline \in Nat /\ mStartTime' \in Int
        /\ mStartTime' + Period = now
      BY <1>3, <1>5 DEF ReportIInv, PendingInv
  <2>3. /\ up /\ IsTimeToTrigger(schedule[Report], dueMinute)
        /\ UnitsPerMinute * dueMinute <= now
        /\ now <= deadline /\ deadline < Latest(dueMinute)
        /\ wake >= UnitsPerMinute * dueMinute + UnitsPerMinute
      BY <1>3 DEF ReportIInv, PendingInv
  <2>4. now <= now
      BY <1>2
  <2>5. QED
      BY <1>2, <1>3, <1>6, <2>1, <2>2, <2>3, <2>4 DEF PendingInv
<1>8. MadeInv'
    BY <1>2, <1>3, SeqMonotonic DEF ReportIInv, MadeInv
<1>9. QED
    BY <1>7, <1>8

LEMMA FetchKeeps == ReportIInv /\ FetchData => PendingInv' /\ MadeInv'
<1> SUFFICES ASSUME ReportIInv, FetchData PROVE PendingInv' /\ MadeInv'
    OBVIOUS
<1>1. ReportNext
    BY DEF ReportNext
<1>2. schedule' = schedule /\ Period' = Period /\ now \in Nat /\ Reports \subseteq Reports'
    BY <1>1, MadeStays
<1>3. PICK latest : latest = [due |-> dueMinute, from |-> mStartTime, to |-> now]
    OBVIOUS
<1>4. /\ loaded /\ loaded' = FALSE /\ mbReportRequested' = mbReportRequested
      /\ made' = IF made = <<>> THEN <<latest>> ELSE <<made[Len(made)], latest>>
      /\ dueMinute' = 0 /\ deadline' = 0 /\ mStartTime' = 0
    BY <1>3 DEF FetchData
<1>5. /\ ~mbReportRequested /\ dueMinute \in Minutes /\ mStartTime \in Int /\ deadline \in Nat
      /\ mbReportRequested \in BOOLEAN
      /\ IsTimeToTrigger(schedule[Report], dueMinute)
      /\ UnitsPerMinute * dueMinute <= mStartTime + Period /\ mStartTime + Period <= now
      /\ now <= deadline /\ deadline < Latest(dueMinute)
    BY <1>4 DEF ReportIInv, PendingInv
<1>6. latest \in Reports
  <2>1. Latest(dueMinute) \in Nat
    <3>1. dueMinute \in Nat /\ UnitsPerMinute \in Nat \ {0} /\ MaxDelay \in Nat
        BY <1>5, DayTypes, Periods
    <3>2. UnitsPerMinute * dueMinute \in Nat
        BY <3>1, Multiples
    <3>3. QED
        BY <3>1, <3>2 DEF Latest
  <2>2. now < Latest(dueMinute) /\ now <= now
      BY <1>2, <1>5, <2>1
  <2>3. QED
      BY <1>2, <1>3, <1>5, <2>2 DEF Reports
<1>7. made' \in Seq(Reports)
    BY <1>4, <1>6, LastOrFirst DEF ReportIInv, MadeInv
<1>8. MadeInv'
    BY <1>2, <1>7, SeqMonotonic DEF MadeInv
<1>9. PendingInv'
  <2>1. /\ ~mbReportRequested' /\ ~loaded'
        /\ mbReportRequested' \in BOOLEAN /\ loaded' \in BOOLEAN
      BY <1>4, <1>5
  <2>2. dueMinute' \in Minutes /\ deadline' \in Nat /\ mStartTime' \in Int
      BY <1>4, DayTypes
  <2>3. QED
      BY <2>1, <2>2 DEF PendingInv
<1>10. QED
    BY <1>8, <1>9

LEMMA PassTimeKeeps == ReportIInv /\ PassTime => PendingInv' /\ MadeInv'
<1> SUFFICES ASSUME ReportIInv, PassTime PROVE PendingInv' /\ MadeInv'
    OBVIOUS
<1>1. ReportNext
    BY DEF ReportNext
<1>2. schedule' = schedule /\ Period' = Period /\ now \in Nat /\ Reports \subseteq Reports'
    BY <1>1, MadeStays
<1>3. /\ now' = now + 1 /\ (mbReportRequested \/ loaded => now < deadline)
      /\ up' = up /\ wake' = wake
      /\ mbReportRequested' = mbReportRequested /\ loaded' = loaded
      /\ dueMinute' = dueMinute /\ deadline' = deadline /\ mStartTime' = mStartTime
      /\ made' = made
    BY DEF PassTime, Pass
<1>4. Latest(dueMinute)' = Latest(dueMinute)
    BY <1>3 DEF Latest
<1>5. MadeInv'
    BY <1>2, <1>3, SeqMonotonic DEF ReportIInv, MadeInv
<1>6. /\ Period \in Nat /\ deadline \in Nat /\ mStartTime \in Int
      /\ UnitsPerMinute * dueMinute \in Nat
  <2>1. dueMinute \in Nat /\ UnitsPerMinute \in Nat \ {0}
      BY DayTypes DEF ReportIInv, PendingInv
  <2>2. QED
      BY <2>1, Multiples, Periods DEF Period, ReportIInv, PendingInv
<1>7. /\ mbReportRequested \/ loaded =>
           UnitsPerMinute * dueMinute <= now' /\ now' <= deadline
      /\ loaded => mStartTime + Period <= now'
    BY <1>2, <1>3, <1>6 DEF ReportIInv, PendingInv
<1>8. PendingInv'
    BY <1>2, <1>3, <1>4, <1>7 DEF ReportIInv, PendingInv
<1>9. QED
    BY <1>5, <1>8

LEMMA RestKeeps ==
  ReportIInv /\ (KillDaemon \/ StartDaemon \/ UNCHANGED reportVars) => PendingInv' /\ MadeInv'
<1> SUFFICES ASSUME ReportIInv, KillDaemon \/ StartDaemon \/ UNCHANGED reportVars
             PROVE  PendingInv' /\ MadeInv'
    OBVIOUS
<1>1. schedule' = schedule /\ Period' = Period /\ Reports \subseteq Reports'
    BY MadeStays DEF ReportNext
<1>2. made' = made
    BY DEF KillDaemon, StartDaemon, reportVars
<1>3. MadeInv'
    BY <1>1, <1>2, SeqMonotonic DEF ReportIInv, MadeInv
<1>4. CASE KillDaemon
  <2>1. /\ mbReportRequested' = FALSE /\ loaded' = FALSE
        /\ dueMinute' = 0 /\ deadline' = 0 /\ mStartTime' = 0
      BY <1>4 DEF KillDaemon
  <2>2. /\ ~mbReportRequested' /\ ~loaded'
        /\ mbReportRequested' \in BOOLEAN /\ loaded' \in BOOLEAN
      BY <2>1
  <2>3. dueMinute' \in Minutes /\ deadline' \in Nat /\ mStartTime' \in Int
      BY <2>1, DayTypes
  <2>4. PendingInv'
      BY <2>2, <2>3 DEF PendingInv
  <2>5. QED
      BY <1>3, <2>4
<1>5. CASE StartDaemon
  <2>1. /\ mbReportRequested' = mbReportRequested /\ loaded' = loaded
        /\ dueMinute' = dueMinute /\ deadline' = deadline /\ mStartTime' = mStartTime
      BY <1>5 DEF StartDaemon
  <2>2. ~mbReportRequested /\ ~loaded
      BY <1>5 DEF StartDaemon, Start, ReportIInv, PendingInv
  <2>3. PendingInv'
      BY <2>1, <2>2 DEF ReportIInv, PendingInv
  <2>4. QED
      BY <1>3, <2>3
<1>6. CASE UNCHANGED reportVars
  <2>1. /\ mbReportRequested' = mbReportRequested /\ loaded' = loaded
        /\ dueMinute' = dueMinute /\ deadline' = deadline /\ mStartTime' = mStartTime
        /\ now' = now /\ up' = up /\ wake' = wake
      BY <1>6 DEF reportVars, clockVars
  <2>2. Latest(dueMinute)' = Latest(dueMinute)
      BY <2>1 DEF Latest
  <2>3. PendingInv'
      BY <1>1, <2>1, <2>2 DEF ReportIInv, PendingInv
  <2>4. QED
      BY <1>3, <2>3
<1>7. QED
    BY <1>4, <1>5, <1>6

LEMMA ReportStep == ReportIInv /\ [ReportNext]_reportVars => ReportIInv'
<1> SUFFICES ASSUME ReportIInv, [ReportNext]_reportVars PROVE ReportIInv'
    OBVIOUS
<1>1. ClockIInv'
    BY ClockStep DEF ReportIInv
<1>2. PendingInv' /\ MadeInv'
    BY RequestKeeps, LoadKeeps, FetchKeeps, PassTimeKeeps, RestKeeps DEF ReportNext
<1>3. QED
    BY <1>1, <1>2 DEF ReportIInv

(* The next due minute is a period later.                                  *)
LEMMA NextIsPeriodLater ==
  ASSUME NEW m \in Minutes, NEW n \in Minutes,
         IsTimeToTrigger(schedule[Report], m), NextDue(m, n)
  PROVE  UnitsPerMinute * n - UnitsPerMinute * m - Period = Difference(m, n)
<1> DEFINE d == MinutesPerDay
           U == UnitsPerMinute
           W == DaysPerWeek
           p == m \div d
           q == n \div d
<1>1. PICK s : s = schedule[Report]
    OBVIOUS
<1>2. /\ IsTimeToTrigger(s, m) /\ IsTimeToTrigger(s, n) /\ m < n
      /\ \A k \in m + 1 .. n - 1 : ~IsTimeToTrigger(s, k)
    BY <1>1 DEF NextDue
<1>3. /\ m \in Nat /\ n \in Nat /\ d \in Nat \ {0} /\ U \in Nat \ {0} /\ W \in Nat \ {0}
    BY DayTypes, Periods
<1>4. /\ p < q /\ n - m = d * (q - p) /\ m + d <= n
      /\ p + 1 \in DOMAIN Calendar /\ q + 1 \in DOMAIN Calendar
    BY <1>2, DueApart
<1>5. /\ p \in Nat /\ q \in Nat /\ m % d \in Nat /\ m % d < d
      /\ m = d * p + (m % d) /\ d * p \in Nat
    BY <1>3, DayIs
<1>6. m % d = s.minute
    BY <1>2 DEF IsTimeToTrigger
<1>7. U * n - U * m = U * (n - m) /\ U * n \in Int /\ U * m \in Int
    BY <1>3
<1>8. CASE s.type = "daily"
  <2>1. Period = DayLength /\ Difference(m, n) = 0
      BY <1>1, <1>8 DEF Period, PeriodOf, Difference
  <2>2. n = m + d
    <3>1. SUFFICES ASSUME m + d < n PROVE FALSE
        BY <1>3, <1>4
    <3>2. m + d = d * (p + 1) + (m % d)
        BY <1>3, <1>5
    <3>3. (m + d) % d = m % d
      <4>0. m % d \in Nat /\ m + d \in Nat /\ p + 1 \in Nat
          BY <1>3, <1>5
      <4>1. PICK r \in Nat, k \in Nat, q1 \in Nat :
              r = m % d /\ k = m + d /\ q1 = p + 1
          BY <4>0
      <4>2. r < d /\ k = d * q1 + r
          BY <1>5, <3>2, <4>1
      <4>3. k % d = r
          BY <4>2, DayIs
      <4>4. QED
          BY <4>1, <4>3
    <3>4. IsTimeToTrigger(s, m + d)
        BY <1>6, <1>8, <3>3 DEF IsTimeToTrigger
    <3>5. QED
        BY <1>2, <1>3, <3>1, <3>4
  <2>3. U * (n - m) = DayLength
      BY <1>3, <2>2 DEF DayLength
  <2>4. QED
      BY <1>7, <2>1, <2>3, DayTypes
<1>9. CASE s.type = "weekly"
  <2>1. Period = W * DayLength /\ Difference(m, n) = 0
      BY <1>1, <1>9 DEF Period, PeriodOf, Difference
  <2>2. Calendar[p + 1].dayOfWeek = s.day /\ Calendar[q + 1].dayOfWeek = s.day
      BY <1>2, <1>9 DEF IsTimeToTrigger, Today
  <2>3. p + 1 + W <= q + 1
    <3>1. p + 1 < q + 1
        BY <1>4, <1>5
    <3>2. QED
        BY <1>4, <2>2, <3>1, WeeksAssumption
  <2>4. q = p + W
    <3>1. SUFFICES ASSUME p + W < q PROVE FALSE
        BY <1>3, <1>5, <2>3
    <3>2. PICK k : k = m + d * W
        OBVIOUS
    <3>3. d * W \in Nat /\ d * (p + W) = d * p + d * W /\ d * W >= d
      <4>1. \A x, y \in Nat \ {0} : x * y \in Nat /\ x * y >= x
          OBVIOUS
      <4>2. \A x, y, z \in Nat : x * (y + z) = x * y + x * z
          OBVIOUS
      <4>3. QED
          BY <1>3, <1>5, <4>1, <4>2
    <3>4. k \in Nat /\ k = d * (p + W) + (m % d) /\ p + W \in Nat
        BY <1>3, <1>5, <3>2, <3>3
    <3>5. k \div d = p + W /\ k % d = m % d
      <4>1. PICK r \in Nat : r = m % d
          BY <1>5
      <4>2. r < d /\ k = d * (p + W) + r
          BY <1>5, <3>4, <4>1
      <4>3. k \div d = p + W /\ k % d = r
          BY <3>4, <4>2, DayIs
      <4>4. QED
          BY <4>1, <4>3
    <3>6. p + W + 1 \in DOMAIN Calendar /\ p + 1 + W = p + W + 1
      <4>1. p + W + 1 \in 1 .. Len(Calendar)
          BY <1>3, <1>4, <1>5, <3>1, CalendarAssumption
      <4>2. QED
          BY <1>3, <1>5, <4>1, CalendarAssumption
    <3>7. Calendar[p + W + 1].dayOfWeek = s.day
      <4>1. p + 1 < p + W + 1
          BY <1>3, <1>5
      <4>2. QED
          BY <1>4, <2>2, <3>6, <4>1, WeeksAssumption
    <3>8. IsTimeToTrigger(s, k)
        BY <1>6, <1>9, <3>5, <3>7 DEF IsTimeToTrigger, Today
    <3>9. k < n
      <4>1. d * W < d * (q - p)
        <5>1. W \in Nat /\ q - p \in Nat /\ W + 1 <= q - p
            BY <1>3, <1>4, <1>5, <3>1
        <5>2. d * W + d <= d * (q - p) /\ d * W \in Nat /\ d * (q - p) \in Nat
          <6>1. PICK x \in Nat : x = q - p
              BY <5>1
          <6>2. d * W + d <= d * x /\ d * W \in Nat /\ d * x \in Nat
              BY <1>3, <5>1, <6>1, Multiples
          <6>3. QED
              BY <6>1, <6>2
        <5>3. QED
            BY <1>3, <5>2
      <4>2. QED
          BY <1>3, <1>4, <3>2, <3>3, <4>1
    <3>10. m < k
        BY <1>3, <3>2, <3>3
    <3>11. k \in m + 1 .. n - 1
        BY <1>3, <3>4, <3>9, <3>10
    <3>12. QED
        BY <1>2, <3>8, <3>11
  <2>5. n - m = d * W
    <3>1. q - p = W
        BY <1>3, <1>5, <2>4
    <3>2. QED
        BY <1>4, <3>1
  <2>6. U * (n - m) = W * DayLength
    <3>1. \A x, y, z \in Nat : x * (y * z) = z * (x * y)
        OBVIOUS
    <3>2. U * (d * W) = W * (U * d)
        BY <1>3, <3>1
    <3>3. QED
        BY <2>5, <3>2 DEF DayLength
  <2>7. QED
      BY <1>7, <2>1, <2>6, Periods
<1>10. CASE s.type = "monthly"
  <2>1. Difference(m, n) = (n - m) * U - Period
      BY <1>1, <1>10 DEF Difference, Period
  <2>2. (n - m) * U = U * (n - m)
      BY <1>3
  <2>3. QED
      BY <1>7, <2>1, <2>2
<1>11. CASE s.type = "date"
  <2>1. Calendar[p + 1].date = s.day /\ Calendar[q + 1].date = s.day
      BY <1>2, <1>11 DEF IsTimeToTrigger, Today
  <2>2. p + 1 = q + 1
      BY <1>4, <2>1, WeeksAssumption
  <2>3. QED
      BY <1>4, <1>5, <2>2
<1>12. QED
    BY <1>2, <1>8, <1>9, <1>10, <1>11 DEF IsTimeToTrigger

(* Bars begin at multiples of their length, and later times in later bars. *)
LEMMA BarOf ==
  ASSUME NEW f \in Int, NEW t \in Int, f <= t
  PROVE  /\ Get3HourBucketLabel(f) \in Int /\ Get3HourBucketLabel(t) \in Int
         /\ Get3HourBucketLabel(f) <= Get3HourBucketLabel(t)
         /\ Get3HourBucketLabel(t) <= t
         /\ Get3HourBucketLabel(t) % BarLength = 0
<1> DEFINE B == BarLength
           F == f \div B
           T == t \div B
<1>1. B \in Nat \ {0}
    BY ReportAssumption
<1>2. \A x \in Int : /\ x \div B \in Int /\ x % B \in 0 .. B - 1
                     /\ x = B * (x \div B) + (x % B)
    BY <1>1
<1>3. F \in Int /\ T \in Int /\ f % B \in 0 .. B - 1 /\ t % B \in 0 .. B - 1
      /\ f = B * F + (f % B) /\ t = B * T + (t % B)
    BY <1>2
<1>4. B * F \in Int /\ B * T \in Int
    BY <1>1, <1>3
<1>5. Get3HourBucketLabel(f) = B * F /\ Get3HourBucketLabel(t) = B * T
    BY <1>1, <1>3, <1>4 DEF Get3HourBucketLabel
<1> HIDE DEF B, F, T
<1>6. B * F < B * T + B
    BY <1>1, <1>3, <1>4
<1>7. F <= T
  <2>1. T + 1 <= F => B * (T + 1) <= B * F
      BY <1>1, <1>3
  <2>2. B * (T + 1) = B * T + B
      BY <1>1, <1>3
  <2>3. QED
      BY <1>1, <1>3, <1>4, <1>6, <2>1, <2>2
<1>8. B * F <= B * T
    BY <1>1, <1>3, <1>7
<1>9. B * T <= t
    BY <1>1, <1>3, <1>4
<1>10. (B * T) % B = 0
    BY <1>1, <1>3
<1>11. QED
    BY <1>4, <1>5, <1>8, <1>9, <1>10 DEF B

LEMMA ReportsMeet == ReportIInv => ReportsJoin
<1> SUFFICES ASSUME ReportIInv PROVE ReportsJoin
    OBVIOUS
<1> DEFINE U == UnitsPerMinute
<1>1. \A i \in DOMAIN made : made[i] \in Reports
    BY Members DEF ReportIInv, MadeInv
<1>2. Period \in Nat /\ U \in Nat \ {0} /\ MaxDelay \in Nat
    BY Periods, DayTypes DEF Period
<1>3. ASSUME NEW a \in Reports, NEW b \in Reports, NextDue(a.due, b.due)
      PROVE  b.from - a.to - Difference(a.due, b.due) \in 1 - U - MaxDelay .. U + MaxDelay - 1
  <2>1. /\ a.due \in Minutes /\ a.from \in Int /\ a.to \in Nat
        /\ b.due \in Minutes /\ b.from \in Int /\ b.to \in Nat
      BY DEF Reports
  <2>2. /\ IsTimeToTrigger(schedule[Report], a.due)
        /\ U * a.due <= a.from + Period /\ a.from + Period <= a.to /\ a.to < Latest(a.due)
        /\ U * b.due <= b.from + Period /\ b.from + Period <= b.to /\ b.to < Latest(b.due)
      BY DEF Reports
  <2>3. PICK x, y : x = U * a.due /\ y = U * b.due
      OBVIOUS
  <2>4. x \in Nat /\ y \in Nat
      BY <1>2, <2>1, <2>3, DayTypes, Multiples
  <2>5. y - x - Period = Difference(a.due, b.due)
      BY <1>3, <2>1, <2>2, <2>3, NextIsPeriodLater
  <2>6. Latest(a.due) = x + U + MaxDelay /\ Latest(b.due) = y + U + MaxDelay
      BY <2>3 DEF Latest
  <2> HIDE DEF U
  <2>7. PICK g : g = Difference(a.due, b.due)
      OBVIOUS
  <2>8. g = y - x - Period /\ g \in Int
      BY <1>2, <2>4, <2>5, <2>7
  <2>9. x <= a.to /\ a.to < x + U + MaxDelay
      BY <1>2, <2>1, <2>2, <2>3, <2>4, <2>6
  <2>10. y <= b.from + Period /\ b.from + Period < y + U + MaxDelay
      BY <1>2, <2>1, <2>2, <2>3, <2>4, <2>6
  <2>11. b.from - a.to - g \in 1 - U - MaxDelay .. U + MaxDelay - 1
      BY <1>2, <2>1, <2>4, <2>8, <2>9, <2>10
  <2>12. QED
      BY <2>7, <2>11
<1>4. ASSUME NEW a \in Reports, NEW t \in a.from .. a.to
      PROVE  Get3HourBucketLabel(t) \in Generate3HourLabels(a.from, a.to)
  <2>1. a.from \in Int /\ a.to \in Int /\ t \in Int /\ a.from <= t /\ t <= a.to
      BY DEF Reports
  <2>2. PICK l : l = Get3HourBucketLabel(t)
      OBVIOUS
  <2>3. PICK k : k = Get3HourBucketLabel(a.from)
      OBVIOUS
  <2>4. k \in Int /\ l \in Int /\ k <= l /\ l <= t /\ l % BarLength = 0
      BY <2>1, <2>2, <2>3, BarOf
  <2>5. l \in k .. a.to
      BY <2>1, <2>4
  <2>6. QED
      BY <2>2, <2>3, <2>4, <2>5 DEF Generate3HourLabels
<1>5. QED
    BY <1>1, <1>3, <1>4 DEF ReportsJoin

LEMMA ReportTypes == ReportIInv => ReportTypeOK
<1> SUFFICES ASSUME ReportIInv PROVE ReportTypeOK
    OBVIOUS
<1>1. ClockTypeOK
    BY ClockTypes DEF ReportIInv
<1>2. ASSUME NEW i \in DOMAIN made
      PROVE  /\ DOMAIN made[i] = {"due", "from", "to"} /\ made[i].due \in Minutes
             /\ made[i].from <= made[i].to /\ made[i].to <= now
  <2>1. made[i] \in Reports
      BY Members DEF ReportIInv, MadeInv
  <2>2. /\ made[i] \in [due : Minutes, from : Int, to : Nat]
        /\ made[i].from + Period <= made[i].to /\ made[i].to <= now
      BY <2>1 DEF Reports
  <2>3. Period \in Nat
      BY Periods DEF Period
  <2>4. made[i].from <= made[i].to
      BY <2>2, <2>3
  <2>5. QED
      BY <2>2, <2>4
<1>3. /\ mbReportRequested \in BOOLEAN /\ loaded \in BOOLEAN
      /\ dueMinute \in Minutes /\ deadline \in Nat /\ mStartTime \in Int
      /\ mbReportRequested \/ loaded => now <= deadline /\ up
    BY DEF ReportIInv, PendingInv
<1>4. QED
    BY <1>1, <1>2, <1>3 DEF ReportTypeOK

(* The variables of the watcher and of the reports keep their types, and   *)
(* no report is made later than its deadline or by a daemon that was       *)
(* killed after it was requested.                                          *)
THEOREM ReportsTyped == ReportSpec => []ReportTypeOK
<1>1. QED
    BY ReportStarts, ReportStep, ReportTypes, PTL DEF ReportSpec

(* For every calendar, schedule, delay shorter than a day and length of a  *)
(* bar: two reports that follow one another meet within a minute and a     *)
(* delay, but for what months are longer or shorter than thirty days, and  *)
(* each moment of a report has its bar.                                    *)
THEOREM ReportsFollow == ReportSpec => []ReportsJoin
<1>1. QED
    BY ReportStarts, ReportStep, ReportsMeet, PTL DEF ReportSpec

-----------------------------------------------------------------------------
(* The components side by side.                                            *)

(* Each of them sees a behaviour of its own, whatever the others do.       *)
LEMMA PartsAreSpecs == PartSpec => AuditSpec /\ AuthSpec /\ ReportSpec
<1>1. PartInit => AuditInit /\ AuthInit /\ ReportInit
    BY DEF PartInit
<1>2. ASSUME [PartNext]_partVars
      PROVE  [AuditNext]_auditVars /\ [AuthNext]_authVars /\ [ReportNext]_reportVars
  <2>1. CASE AuditPart
      BY <2>1 DEF AuditPart
  <2>2. CASE AuthPart
      BY <2>2 DEF AuthPart
  <2>3. CASE ReportPart
      BY <2>3 DEF ReportPart
  <2>4. CASE UNCHANGED partVars
      BY <2>4 DEF partVars
  <2>5. QED
      BY <1>2, <2>1, <2>2, <2>3, <2>4 DEF PartNext
<1>3. QED
    BY <1>1, <1>2, PTL DEF PartSpec, AuditSpec, AuthSpec, ReportSpec

(* The types of all three components, whichever of them moves.             *)
THEOREM PartsTyped == PartSpec => []PartTypeOK
<1>1. AuditTypeOK /\ AuthTypeOK /\ ReportTypeOK => PartTypeOK
    BY DEF PartTypeOK
<1>2. QED
    BY <1>1, PartsAreSpecs, AuditTypes, AuthTypes, ReportsTyped, PTL

(* What is proved of each component by itself holds of it beside the       *)
(* others: detections, scenarios, failures, schedules and reports.         *)
THEOREM PartsRight ==
  PartSpec =>
    /\ []DetectionsExact /\ []ScenariosExact
    /\ []FailureReportsJustified /\ []BurstsReported /\ []ChangersRight
    /\ []DueOnce /\ []ReportsJoin
<1>1. QED
    BY PartsAreSpecs, EventsDetected, ScenariosFound, ReportsJustified, FailuresReported,
       ChangersNamed, SchedulesTrigger, ReportsFollow, PTL
=============================================================================
