-------------------------- MODULE ExecGuard_proofs --------------------------
(***************************************************************************)
(* Proofs about ExecGuard, for any set of attempts, programs and paths,    *)
(* any moves of files between the paths, any size of the read buffer and   *)
(* wherever notify-send lies: the invariants its safety run checks on      *)
(* three attempts.                                                         *)
(***************************************************************************)
EXTENDS ExecGuard, SequenceTheorems, TLAPS

-----------------------------------------------------------------------------
(* Sequences without duplicates.                                           *)

(* Appending a new element.                                                *)
LEMMA AppendNew ==
  ASSUME NEW S, NEW s \in Seq(S), NEW x \in S
  PROVE  /\ ToSet(Append(s, x)) = ToSet(s) \cup {x}
         /\ IsInjective(s) /\ x \notin ToSet(s) => IsInjective(Append(s, x))
<1>1. /\ Append(s, x) \in Seq(S)
      /\ Len(Append(s, x)) = Len(s) + 1
      /\ \A i \in 1 .. Len(s) : Append(s, x)[i] = s[i]
      /\ Append(s, x)[Len(s) + 1] = x
    BY AppendProperties
<1>2. /\ DOMAIN s = 1 .. Len(s) /\ Len(s) \in Nat
      /\ DOMAIN Append(s, x) = 1 .. Len(s) + 1
    BY <1>1, LenProperties
<1>3. ToSet(Append(s, x)) = ToSet(s) \cup {x}
    BY <1>1, <1>2 DEF ToSet
<1>4. ASSUME IsInjective(s), x \notin ToSet(s)
      PROVE  IsInjective(Append(s, x))
    BY <1>1, <1>2, <1>4 DEF IsInjective, ToSet
<1>5. QED
    BY <1>3, <1>4

(* Taking the first element.                                               *)
LEMMA TakeFirst ==
  ASSUME NEW S, NEW s \in Seq(S), s # <<>>, IsInjective(s)
  PROVE  /\ ToSet(Tail(s)) = ToSet(s) \ {Head(s)}
         /\ IsInjective(Tail(s))
         /\ Head(s) \in ToSet(s)
<1>1. /\ Tail(s) \in Seq(S)
      /\ Len(Tail(s)) = Len(s) - 1
      /\ \A i \in 1 .. Len(Tail(s)) : Tail(s)[i] = s[i + 1]
    BY HeadTailProperties
<1>2. /\ DOMAIN s = 1 .. Len(s) /\ Len(s) \in Nat \ {0}
      /\ DOMAIN Tail(s) = 1 .. Len(s) - 1
    BY <1>1, LenProperties, EmptySeq
<1>3. Head(s) = s[1]
    BY <1>2
<1>4. ToSet(Tail(s)) \subseteq ToSet(s) \ {Head(s)}
    BY <1>1, <1>2, <1>3 DEF ToSet, IsInjective
<1>5. ASSUME NEW x \in ToSet(s) \ {Head(s)}
      PROVE  x \in ToSet(Tail(s))
  <2>1. PICK i \in 2 .. Len(s) : x = s[i]
      BY <1>2, <1>3 DEF ToSet
  <2>2. i - 1 \in DOMAIN Tail(s) /\ Tail(s)[i - 1] = x
      BY <1>1, <1>2, <2>1
  <2>3. QED
      BY <2>2 DEF ToSet
<1>6. IsInjective(Tail(s))
    BY <1>1, <1>2 DEF IsInjective
<1>7. Head(s) \in ToSet(s)
    BY <1>2, <1>3 DEF ToSet
<1>8. QED
    BY <1>4, <1>5, <1>6, <1>7

(* A first element put before a sequence.                                  *)
LEMMA PutFirst ==
  ASSUME NEW S, NEW s \in Seq(S), NEW x \in S
  PROVE  /\ <<x>> \o s \in Seq(S)
         /\ <<x>> \o s # <<>>
         /\ Head(<<x>> \o s) = x
         /\ Tail(<<x>> \o s) = s
         /\ x \in ToSet(<<x>> \o s)
<1>1. <<x>> \in Seq(S) /\ Len(<<x>>) = 1 /\ <<x>>[1] = x
    OBVIOUS
<1>2. /\ <<x>> \o s \in Seq(S)
      /\ Len(<<x>> \o s) = 1 + Len(s)
      /\ \A i \in 1 .. 1 + Len(s) :
           (<<x>> \o s)[i] = IF i <= 1 THEN x ELSE s[i - 1]
    BY <1>1, ConcatProperties
<1>3. Len(s) \in Nat
    BY LenProperties
<1>4. <<x>> \o s # <<>> /\ Head(<<x>> \o s) = x
    BY <1>2, <1>3
<1>5. /\ Tail(<<x>> \o s) \in Seq(S)
      /\ Len(Tail(<<x>> \o s)) = Len(s)
      /\ \A i \in 1 .. Len(s) : Tail(<<x>> \o s)[i] = (<<x>> \o s)[i + 1]
    BY <1>2, <1>3, <1>4, HeadTailProperties
<1>6. Tail(<<x>> \o s) = s
  <2>1. \A i \in 1 .. Len(s) : Tail(<<x>> \o s)[i] = s[i]
      BY <1>2, <1>3, <1>5
  <2>2. QED
      BY <1>5, <2>1, SeqEqual
<1>7. x \in ToSet(<<x>> \o s)
    BY <1>2, <1>3 DEF ToSet
<1>8. QED
    BY <1>2, <1>4, <1>6, <1>7

LEMMA SplitFirst ==
  ASSUME NEW S, NEW s \in Seq(S), s # <<>>
  PROVE  s = <<Head(s)>> \o Tail(s)
<1>1. Len(s) \in Nat \ {0} /\ Head(s) \in S
    BY EmptySeq, HeadTailProperties
<1>2. SubSeq(s, 1, Len(s)) = <<s[1]>> \o SubSeq(s, 2, Len(s))
    BY <1>1, SubSeqRecursiveFirst
<1>3. QED
    BY <1>1, <1>2, SubSeqFull, TailIsSubSeq

-----------------------------------------------------------------------------
(* Type correctness.                                                       *)

LEMMA TypeInit == Init => TypeOK
<1>1. Start \in [Paths -> Files \cup {None}]
    BY PathsAssumption
<1>2. QED
    BY <1>1, NoneAssumption, EmptySeq DEF Init, TypeOK

(* A suspended attempt keeps the types of what it changes.                 *)
LEMMA SuspendType ==
  ASSUME TypeOK, NEW e \in Execs, NEW f \in Files, Suspend(e, f)
  PROVE  /\ target' \in [Execs -> Files \cup {None}]
         /\ answer' \in [Execs -> {"idle", "blocked", "allow", "deny"}]
         /\ kernelQ' \in Seq(Execs)
<1>1. kernelQ' \in Seq(Execs)
    BY AppendProperties DEF Suspend, TypeOK
<1>2. QED
    BY <1>1 DEF Suspend, TypeOK

(* What taking the next event of the buffer yields.                        *)
LEMMA NextEventType ==
  ASSUME TypeOK, NextEvent
  PROVE  /\ event' = Head(batch) /\ event' \in Execs /\ event' # None
         /\ batch' = Tail(batch) /\ batch' \in Seq(Execs)
         /\ wpc = "handle" /\ batch # <<>> /\ isMalicious' = FALSE
         /\ path' \in [Execs -> Paths \cup {None}]
<1>1. Head(batch) \in Execs /\ Tail(batch) \in Seq(Execs)
    BY HeadTailProperties DEF TypeOK, NextEvent
<1>2. path' \in [Execs -> Paths \cup {None}]
    BY DEF TypeOK, NextEvent
<1>3. QED
    BY <1>1, <1>2, NoneAssumption DEF NextEvent

LEMMA EnvironmentType == TypeOK /\ Environment => TypeOK'
<1> SUFFICES ASSUME TypeOK, Environment PROVE TypeOK'
    OBVIOUS
<1> USE DEF TypeOK, envVars, watcherVars, workerVars, history
<1>1. ASSUME NEW e \in Execs, NEW p \in Paths, Exec(e, p)
      PROVE  TypeOK'
  <2>1. at[p] \in Files /\ Suspend(e, at[p])
      BY <1>1 DEF Exec
  <2>2. QED
      BY <1>1, <2>1, SuspendType DEF Exec
<1>2. ASSUME NEW p \in Paths, Unlink(p)
      PROVE  TypeOK'
    BY <1>2 DEF Unlink
<1>3. ASSUME NEW m \in Renames, Rename(m[1], m[2])
      PROVE  TypeOK'
  <2>1. m[1] \in Paths /\ m[2] \in Paths
      BY PathsAssumption
  <2>2. at' \in [Paths -> Files \cup {None}] /\ replaced' \subseteq Execs
      BY <1>3, <2>1 DEF Rename
  <2>3. QED
      BY <1>3, <2>2 DEF Rename
<1>4. CASE Stop
    BY <1>4 DEF Stop
<1>5. CASE SpuriousWakeup
    BY <1>5 DEF SpuriousWakeup, watcherSide
<1>6. QED
    BY <1>1, <1>2, <1>3, <1>4, <1>5 DEF Environment

LEMMA WatcherType == TypeOK /\ Watcher => TypeOK'
<1> SUFFICES ASSUME TypeOK, Watcher PROVE TypeOK'
    OBVIOUS
<1> USE DEF TypeOK, envVars, watcherVars, workerVars, history
<1>1. CASE InitFanotify
    BY <1>1 DEF InitFanotify
<1>2. CASE WatcherCheck
    BY <1>2 DEF WatcherCheck
<1>3. CASE PollTimeout
    BY <1>3 DEF PollTimeout
<1>4. CASE ReadEvents
  <2>1. \A m, n \in Nat : n <= Len(kernelQ) /\ m > 0 =>
          SubSeq(kernelQ, m, n) \in Seq(Execs)
      BY SubSeqProperties, ElementOfSeq, LenProperties
  <2>2. Len(kernelQ) \in Nat
      BY LenProperties
  <2>3. batch' \in Seq(Execs) /\ kernelQ' \in Seq(Execs)
      BY <1>4, <2>1, <2>2, BatchAssumption DEF ReadEvents
  <2>4. QED
      BY <1>4, <2>3 DEF ReadEvents
<1>5. CASE NextEvent \/ SkipScan
    BY <1>5, NextEventType DEF NextEvent, SkipScan
<1>6. CASE PushRequest
  <2>1. event \in Execs
      BY <1>6 DEF PushRequest
  <2>2. mQueue' \in Seq(Execs)
      BY <1>6, <2>1, AppendProperties DEF PushRequest
  <2>3. QED
      BY <1>6, <2>1, <2>2 DEF PushRequest
<1>7. CASE ResultReady
    BY <1>7 DEF ResultReady
<1>8. CASE ScanTimeout
    BY <1>8 DEF ScanTimeout
<1>9. CASE Respond
    BY <1>9 DEF Respond
<1>10. QED
    BY <1>1, <1>2, <1>3, <1>4, <1>5, <1>6, <1>7, <1>8, <1>9 DEF Watcher

LEMMA WorkerType == TypeOK /\ Worker => TypeOK'
<1> SUFFICES ASSUME TypeOK, Worker PROVE TypeOK'
    OBVIOUS
<1> USE DEF TypeOK, envVars, watcherVars, workerVars, history, watcherSide,
            Verdict, ScanThrows
<1>1. CASE WorkerInit
    BY <1>1 DEF WorkerInit
<1>2. CASE WorkerCheck
    BY <1>2 DEF WorkerCheck
<1>3. CASE Pop
  <2>1. mQueue # <<>> => Head(mQueue) \in Execs /\ Tail(mQueue) \in Seq(Execs)
      BY HeadTailProperties
  <2>2. QED
      BY <1>3, <2>1, NoneAssumption DEF Pop
<1>4. CASE IsELF
    BY <1>4 DEF IsELF
<1>5. CASE AnalyzeFile
    BY <1>5 DEF AnalyzeFile
<1>6. CASE ReadSize
    BY <1>6 DEF ReadSize
<1>7. CASE TryQuarantine
    BY <1>7 DEF TryQuarantine
<1>8. CASE NotifyUser
    BY <1>8, SuspendType, FilesAssumption, NoneAssumption DEF NotifyUser, Idle
<1>9. CASE WaitPid
    BY <1>9 DEF WaitPid
<1>10. CASE UsersNotified
    BY <1>10 DEF UsersNotified
<1>11. CASE SaveReportToDB
    BY <1>11 DEF SaveReportToDB
<1>12. CASE SetValue
    BY <1>12 DEF SetValue
<1>13. QED
    BY <1>1, <1>2, <1>3, <1>4, <1>5, <1>6, <1>7, <1>8, <1>9, <1>10, <1>11, <1>12
       DEF Worker

LEMMA TypeStep == TypeOK /\ [Next]_vars => TypeOK'
<1>1. TypeOK /\ UNCHANGED vars => TypeOK'
    BY DEF TypeOK, vars
<1>2. QED
    BY <1>1, EnvironmentType, WatcherType, WorkerType DEF Next

(* Every variable keeps its type; in particular the event, the request and *)
(* the child awaited are set exactly at the places that use them.          *)
THEOREM TypeCorrect == Spec => []TypeOK
<1>1. Spec => Init /\ [][Next]_vars
    BY DEF Spec
<1>2. QED
    BY <1>1, TypeInit, TypeStep, PTL

-----------------------------------------------------------------------------
(* Events: from the kernel's queue to the response.                        *)

(* The buffer is read again only when all its events are answered.         *)
BatchExhausted == wpc \in {"init", "check", "poll", "off"} => batch = <<>>

EventInv == EventInOnePlace /\ BatchExhausted

(* The event being handled, if any, as a sequence.                         *)
handled == IF event = None THEN <<>> ELSE <<event>>

LEMMA UnansweredType ==
  ASSUME TypeOK
  PROVE  /\ handled \in Seq(Execs)
         /\ Unanswered = handled \o (batch \o kernelQ)
         /\ Unanswered \in Seq(Execs)
<1>1. handled \in Seq(Execs)
    BY DEF handled, TypeOK
<1>2. Unanswered = handled \o (batch \o kernelQ)
  <2>1. Unanswered = (handled \o batch) \o kernelQ
      BY DEF Unanswered, handled
  <2>2. batch \in Seq(Execs) /\ kernelQ \in Seq(Execs)
      BY DEF TypeOK
  <2>3. QED
      BY <1>1, <2>1, <2>2, ConcatAssociative
<1>3. QED
    BY <1>1, <1>2, ConcatProperties DEF TypeOK

(* An event not answered belongs to a suspended attempt.                   *)
LEMMA EventIsBlocked ==
  ASSUME TypeOK, EventInOnePlace, event # None
  PROVE  event \in Execs /\ answer[event] = "blocked"
<1>1. event \in Execs
    BY DEF TypeOK
<1>2. batch \o kernelQ \in Seq(Execs)
    BY ConcatProperties DEF TypeOK
<1>3. Unanswered = <<event>> \o (batch \o kernelQ)
    BY UnansweredType DEF handled
<1>4. event \in ToSet(Unanswered)
    BY <1>1, <1>2, <1>3, PutFirst
<1>5. QED
    BY <1>1, <1>4 DEF EventInOnePlace

LEMMA NextIsBlocked ==
  ASSUME TypeOK, EventInOnePlace, NextEvent
  PROVE  /\ event = None
         /\ answer[event'] = "blocked"
         /\ Unanswered = <<event'>> \o (batch' \o kernelQ)
<1>1. event = None /\ batch # <<>>
    BY DEF NextEvent, TypeOK
<1>2. batch = <<event'>> \o batch' /\ event' \in Execs /\ batch' \in Seq(Execs)
    BY <1>1, SplitFirst, NextEventType DEF TypeOK
<1>3. Unanswered = batch \o kernelQ
  <2>1. batch \o kernelQ \in Seq(Execs)
      BY ConcatProperties DEF TypeOK
  <2>2. QED
      BY <1>1, <2>1, UnansweredType, ConcatEmptySeq DEF handled
<1>4. <<event'>> \in Seq(Execs)
    BY <1>2
<1>5. Unanswered = <<event'>> \o (batch' \o kernelQ)
    BY <1>2, <1>3, <1>4, ConcatAssociative DEF TypeOK
<1>6. batch' \o kernelQ \in Seq(Execs)
    BY <1>2, ConcatProperties DEF TypeOK
<1>7. event' \in ToSet(Unanswered)
    BY <1>2, <1>5, <1>6, PutFirst
<1>8. QED
    BY <1>1, <1>2, <1>5, <1>7 DEF EventInOnePlace

LEMMA SuspendEvents ==
  ASSUME TypeOK, EventInOnePlace, NEW e \in Execs, NEW f \in Files,
         Suspend(e, f), UNCHANGED <<event, batch>>
  PROVE  EventInOnePlace'
<1>1. kernelQ' = kernelQ \o <<e>> /\ <<e>> \in Seq(Execs)
    BY AppendIsConcat DEF Suspend, TypeOK
<1>2. handled \o batch \in Seq(Execs)
    BY UnansweredType, ConcatProperties DEF TypeOK
<1>3. Unanswered' = (handled \o batch) \o (kernelQ \o <<e>>)
    BY <1>1 DEF Unanswered, handled
<1>4. Unanswered' = Unanswered \o <<e>>
  <2>1. Unanswered = (handled \o batch) \o kernelQ
      BY DEF Unanswered, handled
  <2>2. kernelQ \in Seq(Execs)
      BY DEF TypeOK
  <2>3. ((handled \o batch) \o kernelQ) \o <<e>> =
          (handled \o batch) \o (kernelQ \o <<e>>)
      BY <1>1, <1>2, <2>2, ConcatAssociative
  <2>4. QED
      BY <1>3, <2>1, <2>3
<1>5. Unanswered' = Append(Unanswered, e)
    BY <1>4, UnansweredType, AppendIsConcat
<1>6. e \notin ToSet(Unanswered)
    BY DEF Suspend, Idle, EventInOnePlace
<1>7. {x \in Execs : answer'[x] = "blocked"} =
        {x \in Execs : answer[x] = "blocked"} \cup {e}
    BY DEF Suspend, TypeOK
<1>8. QED
    BY <1>5, <1>6, <1>7, UnansweredType, AppendNew DEF EventInOnePlace

LEMMA ReadEventsKeeps ==
  ASSUME TypeOK, EventInv, ReadEvents
  PROVE  EventInOnePlace'
<1>1. event = None /\ UNCHANGED event /\ UNCHANGED answer /\ batch = <<>>
    BY DEF EventInv, BatchExhausted, ReadEvents, TypeOK
<1>2. kernelQ \in Seq(Execs) /\ Len(kernelQ) \in Nat
    BY LenProperties DEF TypeOK
<1>3. batch' \o kernelQ' = kernelQ
  <2> DEFINE n == IF Len(kernelQ) < MaxBatch THEN Len(kernelQ) ELSE MaxBatch
  <2>1. n \in 0 .. Len(kernelQ)
      BY <1>2, BatchAssumption
  <2>2. /\ batch' = SubSeq(kernelQ, 1, n)
        /\ kernelQ' = SubSeq(kernelQ, n + 1, Len(kernelQ))
      BY DEF ReadEvents
  <2> HIDE DEF n
  <2>3. /\ 1 \in 1 .. Len(kernelQ) + 1 /\ n \in 1 - 1 .. Len(kernelQ)
        /\ Len(kernelQ) \in n .. Len(kernelQ)
      BY <1>2, <2>1
  <2>4. SubSeq(kernelQ, 1, n) \o SubSeq(kernelQ, n + 1, Len(kernelQ)) =
          SubSeq(kernelQ, 1, Len(kernelQ))
      BY <1>2, <2>3, ConcatAdjacentSubSeq
  <2>5. QED
      BY <1>2, <2>2, <2>4, SubSeqFull
<1>4. batch \o kernelQ = kernelQ
    BY <1>1, <1>2, ConcatEmptySeq
<1>5. Unanswered = handled \o (batch \o kernelQ)
    BY UnansweredType
<1>6. TypeOK'
    BY WatcherType DEF Watcher
<1>7. Unanswered' = handled' \o (batch' \o kernelQ')
  <2>1. handled' = <<>> /\ handled' \in Seq(Execs)
      BY <1>1, EmptySeq DEF handled
  <2>2. Unanswered' = (handled' \o batch') \o kernelQ'
      BY DEF Unanswered, handled
  <2>3. batch' \in Seq(Execs) /\ kernelQ' \in Seq(Execs)
      BY <1>6 DEF TypeOK
  <2>4. QED
      BY <2>1, <2>2, <2>3, ConcatAssociative
<1>8. Unanswered' = Unanswered
    BY <1>1, <1>3, <1>4, <1>5, <1>7 DEF handled
<1>9. QED
    BY <1>1, <1>8 DEF EventInv, EventInOnePlace

LEMMA NextEventKeeps ==
  ASSUME TypeOK, EventInOnePlace, NextEvent, UNCHANGED <<kernelQ, answer>>
  PROVE  EventInOnePlace'
<1>1. event' \in Execs /\ event' # None /\ batch' \in Seq(Execs)
    BY NextEventType
<1>2. <<event'>> \in Seq(Execs) /\ kernelQ \in Seq(Execs)
    BY <1>1 DEF TypeOK
<1>3. Unanswered' = <<event'>> \o (batch' \o kernelQ)
    BY <1>1, <1>2, ConcatAssociative DEF Unanswered
<1>4. Unanswered' = Unanswered
    BY <1>3, NextIsBlocked
<1>5. QED
    BY <1>4 DEF EventInOnePlace

LEMMA RespondKeeps ==
  ASSUME TypeOK, EventInOnePlace, Respond
  PROVE  EventInOnePlace'
<1>1. event # None /\ event \in Execs
    BY DEF Respond, TypeOK
<1>2. event' = None /\ UNCHANGED <<batch, kernelQ>>
    BY DEF Respond, envVars
<1>3. batch \o kernelQ \in Seq(Execs)
    BY ConcatProperties DEF TypeOK
<1>4. Unanswered = <<event>> \o (batch \o kernelQ)
    BY <1>1, UnansweredType DEF handled
<1>5. Unanswered' = batch \o kernelQ
    BY <1>2, ConcatEmptySeq DEF Unanswered, TypeOK
<1>6. /\ Unanswered # <<>> /\ Head(Unanswered) = event
      /\ Tail(Unanswered) = Unanswered'
    BY <1>1, <1>3, <1>4, <1>5, PutFirst
<1>7. {x \in Execs : answer'[x] = "blocked"} =
        {x \in Execs : answer[x] = "blocked"} \ {event}
    BY <1>1 DEF Respond, TypeOK
<1>8. QED
    BY <1>6, <1>7, UnansweredType, TakeFirst DEF EventInOnePlace

LEMMA EventsUntouched ==
  ASSUME EventInv, UNCHANGED <<event, batch, kernelQ, answer>>,
         wpc' = wpc \/ wpc' \in {"size", "wait", "respond"}
           \/ wpc \in {"init", "check", "poll", "off"}
  PROVE  EventInv'
  BY DEF EventInv, EventInOnePlace, Unanswered, BatchExhausted

LEMMA EventStep == TypeOK /\ EventInv /\ [Next]_vars => EventInv'
<1> SUFFICES ASSUME TypeOK, EventInv, [Next]_vars PROVE EventInv'
    OBVIOUS
<1> USE DEF envVars, watcherVars, workerVars, watcherSide
<1>0. EventInOnePlace /\ BatchExhausted
    BY DEF EventInv
<1>1. ASSUME NEW e \in Execs, NEW p \in Paths, Exec(e, p)
      PROVE  EventInv'
  <2>1. EventInOnePlace'
    <3>1. at[p] \in Files
        BY <1>1 DEF Exec, TypeOK
    <3>2. QED
        BY <1>0, <1>1, <3>1, SuspendEvents DEF Exec
  <2>2. QED
      BY <1>0, <1>1, <2>1 DEF EventInv, BatchExhausted, Exec
<1>2. CASE NotifyUser
  <2>1. EventInOnePlace'
      BY <1>0, <1>2, SuspendEvents, FilesAssumption DEF NotifyUser, Idle
  <2>2. QED
      BY <1>0, <1>2, <2>1 DEF EventInv, BatchExhausted, NotifyUser
<1>3. CASE ReadEvents
    BY <1>3, ReadEventsKeeps DEF EventInv, BatchExhausted, ReadEvents
<1>4. CASE NextEvent
  <2>1. EventInOnePlace'
      BY <1>0, <1>4, NextEventKeeps DEF NextEvent
  <2>2. QED
      BY <1>4, <2>1 DEF EventInv, BatchExhausted, NextEvent
<1>5. CASE Respond
    BY <1>0, <1>5, RespondKeeps DEF EventInv, BatchExhausted, Respond
<1>6. CASE \/ InitFanotify \/ WatcherCheck \/ PollTimeout \/ SkipScan
           \/ PushRequest \/ ResultReady \/ ScanTimeout
    BY <1>6, EventsUntouched
       DEF InitFanotify, WatcherCheck, PollTimeout, SkipScan, PushRequest,
           ResultReady, ScanTimeout
<1>7. CASE \/ WorkerInit \/ WorkerCheck \/ Pop \/ IsELF \/ AnalyzeFile \/ ReadSize
           \/ TryQuarantine \/ WaitPid \/ UsersNotified \/ SaveReportToDB
           \/ SetValue \/ SpuriousWakeup
  <2>1. UNCHANGED <<wpc, event, batch, kernelQ, answer>>
      BY <1>7
         DEF WorkerInit, WorkerCheck, Pop, IsELF, AnalyzeFile, ReadSize,
             TryQuarantine, WaitPid, UsersNotified, SaveReportToDB, SetValue,
             SpuriousWakeup
  <2>2. QED
      BY <2>1, EventsUntouched
<1>8. CASE \/ Stop \/ \E p \in Paths : Unlink(p)
           \/ \E m \in Renames : Rename(m[1], m[2])
    BY <1>8, EventsUntouched DEF Stop, Unlink, Rename
<1>9. CASE UNCHANGED vars
    BY <1>9, EventsUntouched DEF vars
<1>10. QED
    BY <1>1, <1>2, <1>3, <1>4, <1>5, <1>6, <1>7, <1>8, <1>9
       DEF Next, Watcher, Worker, Environment

-----------------------------------------------------------------------------
(* Requests: from ScanQueue to the promise.                                *)

(* No promise exists for an attempt the watcher has not asked to scan.     *)
NotTakenUp ==
  \A e \in Execs :
    answer[e] = "idle" \/ (answer[e] = "blocked" /\ (e # event \/ wpc = "size")) =>
      promise[e] = "none"

RequestInv ==
  /\ NotTakenUp
  /\ RequestInOnePlace
  /\ AwaitedIsNewest
  /\ NoLostWakeup

(* The request being scanned, if any, as a sequence.                       *)
scanned == IF req = None THEN <<>> ELSE <<req>>

LEMMA UnsettledType ==
  ASSUME TypeOK
  PROVE  /\ scanned \in Seq(Execs)
         /\ Unsettled = scanned \o mQueue
         /\ Unsettled \in Seq(Execs)
  BY ConcatProperties DEF Unsettled, scanned, TypeOK

(* The request being scanned has not been answered and its attempt is not  *)
(* about to be suspended.                                                  *)
LEMMA RequestIsPending ==
  ASSUME TypeOK, RequestInv, req # None
  PROVE  req \in Execs /\ promise[req] = "pending" /\ answer[req] # "idle"
<1>1. req \in Execs /\ mQueue \in Seq(Execs)
    BY DEF TypeOK
<1>2. Unsettled = <<req>> \o mQueue
    BY DEF Unsettled
<1>3. req \in ToSet(Unsettled)
    BY <1>1, <1>2, PutFirst
<1>4. promise[req] = "pending"
    BY <1>1, <1>3 DEF RequestInv, RequestInOnePlace
<1>5. QED
    BY <1>1, <1>4 DEF RequestInv, NotTakenUp

LEMMA EventHasNoPromise ==
  ASSUME TypeOK, EventInOnePlace, RequestInv, wpc = "size"
  PROVE  event \in Execs /\ promise[event] = "none"
<1>1. event # None
    BY DEF TypeOK
<1>2. QED
    BY <1>1, EventIsBlocked DEF RequestInv, NotTakenUp

LEMMA LastAppended ==
  ASSUME NEW S, NEW s \in Seq(S), NEW x \in S
  PROVE  Last(Append(s, x)) = x
  BY AppendProperties, LenProperties DEF Last

LEMMA LastOfTail ==
  ASSUME NEW S, NEW s \in Seq(S), s # <<>>, Tail(s) # <<>>
  PROVE  Last(Tail(s)) = Last(s)
<1>1. Len(s) \in Nat \ {0} /\ Len(Tail(s)) \in Nat \ {0}
    BY EmptySeq, HeadTailProperties
<1>2. Tail(s)[Len(Tail(s))] = s[Len(Tail(s)) + 1] /\ Len(Tail(s)) = Len(s) - 1
    BY <1>1, HeadTailProperties
<1>3. QED
    BY <1>1, <1>2 DEF Last

LEMMA PushRequestKeeps ==
  ASSUME TypeOK, EventInOnePlace, RequestInv, PushRequest
  PROVE  RequestInOnePlace' /\ AwaitedIsNewest'
<1>1. event \in Execs /\ UNCHANGED event
    BY EventHasNoPromise DEF PushRequest
<1>2. promise[event] = "none" /\ UNCHANGED req
    BY EventHasNoPromise DEF PushRequest
<1>3. Unsettled' = Append(Unsettled, event)
  <2>1. mQueue' = mQueue \o <<event>> /\ <<event>> \in Seq(Execs)
      BY <1>1, AppendIsConcat DEF PushRequest, TypeOK
  <2>2. Unsettled' = scanned \o (mQueue \o <<event>>)
      BY <1>2, <2>1 DEF Unsettled, scanned
  <2>3. mQueue \in Seq(Execs)
      BY DEF TypeOK
  <2>4. scanned \o (mQueue \o <<event>>) = (scanned \o mQueue) \o <<event>>
      BY <2>1, <2>3, UnsettledType, ConcatAssociative
  <2>5. QED
      BY <1>1, <2>2, <2>4, UnsettledType, AppendIsConcat
<1>4. event \notin ToSet(Unsettled)
    BY <1>2 DEF RequestInv, RequestInOnePlace
<1>5. {e \in Execs : promise'[e] = "pending"} =
        {e \in Execs : promise[e] = "pending"} \cup {event}
    BY <1>1 DEF PushRequest, TypeOK
<1>6. RequestInOnePlace'
    BY <1>1, <1>3, <1>4, <1>5, UnsettledType, AppendNew
       DEF RequestInv, RequestInOnePlace
<1>7. AwaitedIsNewest'
    BY <1>1, <1>3, UnsettledType, LastAppended DEF AwaitedIsNewest
<1>8. QED
    BY <1>6, <1>7

LEMMA PopKeeps ==
  ASSUME TypeOK, Pop
  PROVE  Unsettled' = Unsettled
<1>1. req = None /\ mQueue \in Seq(Execs)
    BY DEF Pop, TypeOK
<1>2. Unsettled = mQueue
    BY <1>1, ConcatEmptySeq DEF Unsettled
<1>3. CASE mQueue # <<>>
  <2>1. Head(mQueue) # None
      BY <1>1, <1>3, HeadTailProperties, NoneAssumption
  <2>2. Unsettled' = <<Head(mQueue)>> \o Tail(mQueue)
      BY <1>3, <2>1 DEF Pop, Unsettled
  <2>3. QED
      BY <1>1, <1>2, <1>3, <2>2, SplitFirst
<1>4. CASE mQueue = <<>>
    BY <1>4 DEF Pop, Unsettled
<1>5. QED
    BY <1>3, <1>4

LEMMA SetValueKeeps ==
  ASSUME TypeOK, RequestInv, SetValue
  PROVE  RequestInOnePlace' /\ AwaitedIsNewest'
<1>1. req # None /\ req \in Execs /\ mQueue \in Seq(Execs)
    BY DEF SetValue, TypeOK
<1>2. Unsettled = <<req>> \o mQueue
    BY <1>1 DEF Unsettled
<1>3. Unsettled' = mQueue
    BY <1>1, ConcatEmptySeq DEF SetValue, Unsettled
<1>4. /\ Unsettled # <<>> /\ Head(Unsettled) = req
      /\ Tail(Unsettled) = Unsettled'
    BY <1>1, <1>2, <1>3, PutFirst
<1>5. {e \in Execs : promise'[e] = "pending"} =
        {e \in Execs : promise[e] = "pending"} \ {req}
    BY <1>1 DEF SetValue, TypeOK
<1>6. RequestInOnePlace'
    BY <1>4, <1>5, UnsettledType, TakeFirst DEF RequestInv, RequestInOnePlace
<1>7. AwaitedIsNewest'
  <2> SUFFICES ASSUME wpc = "wait", promise'[event] = "pending"
               PROVE  Last(Unsettled') = event
      BY DEF AwaitedIsNewest, SetValue, watcherSide, watcherVars
  <2>1. event \in Execs /\ event # req /\ promise[event] = "pending"
      BY <1>1 DEF SetValue, TypeOK
  <2>2. Last(Unsettled) = event
      BY <2>1 DEF RequestInv, AwaitedIsNewest
  <2>3. mQueue # <<>>
    <3>1. SUFFICES ASSUME mQueue = <<>> PROVE FALSE
        OBVIOUS
    <3>2. Unsettled = <<req>>
        BY <1>1, <1>2, <3>1, ConcatEmptySeq
    <3>3. QED
        BY <2>1, <2>2, <3>2 DEF Last
  <2>4. QED
      BY <1>3, <1>4, <2>2, <2>3, UnsettledType, LastOfTail
<1>8. QED
    BY <1>6, <1>7

(* A step that leaves requests and promises alone, and the watcher waiting *)
(* for what it waits for.                                                  *)
LEMMA RequestsUntouched ==
  ASSUME RequestInv, UNCHANGED <<req, mQueue, promise>>,
         kpc' = "asleep" => kpc = "asleep",
         wpc' = "wait" => wpc = "wait" /\ UNCHANGED event
  PROVE  RequestInOnePlace' /\ AwaitedIsNewest' /\ NoLostWakeup'
<1> USE DEF RequestInv
<1>1. UNCHANGED Unsettled
    BY DEF Unsettled
<1>2. QED
    BY <1>1 DEF RequestInOnePlace, AwaitedIsNewest, NoLostWakeup

LEMMA RequestStep == TypeOK /\ EventInv /\ RequestInv /\ [Next]_vars => RequestInv'
<1> SUFFICES ASSUME TypeOK, EventInv, RequestInv, [Next]_vars PROVE RequestInv'
    OBVIOUS
<1> USE DEF envVars, watcherVars, workerVars, watcherSide
<1>0. EventInOnePlace /\ NotTakenUp
    BY DEF EventInv, RequestInv
<1>1. ASSUME NEW e \in Execs, NEW f \in Files, Suspend(e, f),
             UNCHANGED <<event, req, mQueue, promise, wpc>>, kpc' # "asleep" \/ kpc' = kpc
      PROVE  RequestInv'
  <2>1. NotTakenUp'
      BY <1>0, <1>1 DEF NotTakenUp, Suspend, Idle, TypeOK
  <2>2. QED
      BY <1>1, <2>1, RequestsUntouched DEF RequestInv
<1>2. ASSUME NEW e \in Execs, NEW p \in Paths, Exec(e, p)
      PROVE  RequestInv'
  <2>1. at[p] \in Files
      BY <1>2 DEF Exec, TypeOK
  <2>2. QED
      BY <1>1, <1>2, <2>1 DEF Exec
<1>3. CASE NotifyUser
    BY <1>1, <1>3, FilesAssumption DEF NotifyUser, Idle
<1>4. CASE NextEvent
  <2>1. event = None /\ None \notin Execs
      BY <1>0, <1>4, NextIsBlocked, NoneAssumption
  <2>2. NotTakenUp'
      BY <1>0, <1>4, <2>1 DEF NextEvent, NotTakenUp
  <2>3. QED
      BY <1>4, <2>2, RequestsUntouched DEF NextEvent, RequestInv
<1>5. CASE PushRequest
  <2>1. event \in Execs /\ answer[event] = "blocked" /\ UNCHANGED event
      BY <1>0, <1>5, EventIsBlocked DEF PushRequest, TypeOK
  <2>2. NotTakenUp'
      BY <1>0, <1>5, <2>1 DEF PushRequest, NotTakenUp, TypeOK
  <2>3. NoLostWakeup'
      BY <1>5 DEF PushRequest, NoLostWakeup
  <2>4. QED
      BY <1>0, <1>5, <2>2, <2>3, PushRequestKeeps DEF RequestInv
<1>6. CASE Respond
  <2>1. event # None
      BY <1>6 DEF Respond, TypeOK
  <2>2. event \in Execs /\ answer'[event] \in {"allow", "deny"}
      BY <1>6, <2>1 DEF Respond, TypeOK
  <2>3. NotTakenUp'
      BY <1>0, <1>6, <2>2 DEF Respond, NotTakenUp, TypeOK
  <2>4. QED
      BY <1>6, <2>3, RequestsUntouched DEF Respond, RequestInv
<1>7. CASE Pop
  <2>1. Unsettled' = Unsettled
      BY <1>7, PopKeeps
  <2>2. NoLostWakeup'
      BY <1>7 DEF Pop, NoLostWakeup
  <2>3. QED
      BY <1>7, <2>1, <2>2
         DEF Pop, RequestInv, NotTakenUp, RequestInOnePlace, AwaitedIsNewest
<1>8. CASE SetValue
  <2>1. NotTakenUp'
    <3>1. req # None
        BY <1>8 DEF SetValue, TypeOK
    <3>2. req \in Execs /\ promise[req] = "pending"
        BY <3>1, RequestIsPending
    <3>3. QED
        BY <1>0, <1>8, <3>2 DEF SetValue, NotTakenUp, TypeOK
  <2>2. NoLostWakeup'
      BY <1>8 DEF SetValue, NoLostWakeup
  <2>3. QED
      BY <1>8, <2>1, <2>2, SetValueKeeps DEF RequestInv
<1>9. ASSUME UNCHANGED <<req, mQueue, promise, answer, event>>,
             kpc' = "asleep" => kpc = "asleep", wpc' = "wait" => wpc = "wait",
             wpc' = "size" => wpc = "size"
      PROVE  RequestInv'
  <2>1. NotTakenUp'
      BY <1>0, <1>9 DEF NotTakenUp
  <2>2. QED
      BY <1>9, <2>1, RequestsUntouched DEF RequestInv
<1>10. CASE \/ InitFanotify \/ WatcherCheck \/ PollTimeout \/ ReadEvents
            \/ SkipScan \/ ResultReady \/ ScanTimeout
    BY <1>9, <1>10
       DEF InitFanotify, WatcherCheck, PollTimeout, ReadEvents, SkipScan,
           ResultReady, ScanTimeout
<1>11. CASE \/ WorkerInit \/ WorkerCheck \/ UsersNotified \/ WaitPid
            \/ SpuriousWakeup
    BY <1>9, <1>11
       DEF WorkerInit, WorkerCheck, UsersNotified, WaitPid, SpuriousWakeup
<1>12. CASE IsELF \/ AnalyzeFile \/ ReadSize \/ TryQuarantine \/ SaveReportToDB
    BY <1>9, <1>12
       DEF IsELF, AnalyzeFile, ReadSize, TryQuarantine, SaveReportToDB, Verdict,
           ScanThrows
<1>13. CASE \/ Stop \/ \E p \in Paths : Unlink(p)
            \/ \E m \in Renames : Rename(m[1], m[2])
    BY <1>9, <1>13 DEF Stop, Unlink, Rename
<1>14. CASE UNCHANGED vars
    BY <1>9, <1>14 DEF vars
<1>15. QED
    BY <1>2, <1>3, <1>4, <1>5, <1>6, <1>7, <1>8, <1>10, <1>11, <1>12, <1>13, <1>14
       DEF Next, Watcher, Worker, Environment

(* A promise that is set stays as it is.                                   *)
LEMMA SetOnceStep ==
  ASSUME TypeOK, EventInOnePlace, RequestInv, [Next]_vars,
         NEW e \in Execs, promise[e] \in {"true", "false"}
  PROVE  promise'[e] = promise[e]
<1>1. CASE PushRequest
  <2>1. event \in Execs /\ promise[event] = "none"
      BY <1>1, EventHasNoPromise DEF PushRequest
  <2>2. QED
      BY <1>1, <2>1 DEF PushRequest, TypeOK
<1>2. CASE SetValue
  <2>1. req # None
      BY <1>2 DEF SetValue, TypeOK
  <2>2. promise[req] = "pending"
      BY <2>1, RequestIsPending
  <2>3. QED
      BY <1>2, <2>2 DEF SetValue, TypeOK
<1>3. ASSUME UNCHANGED promise
      PROVE  promise'[e] = promise[e]
    BY <1>3
<1>4. CASE Watcher /\ ~PushRequest
    BY <1>3, <1>4
       DEF Watcher, InitFanotify, WatcherCheck, PollTimeout, ReadEvents, NextEvent,
           SkipScan, ResultReady, ScanTimeout, Respond
<1>5. CASE Worker /\ ~SetValue
    BY <1>3, <1>5
       DEF Worker, WorkerInit, WorkerCheck, Pop, IsELF, AnalyzeFile, ReadSize,
           TryQuarantine, NotifyUser, WaitPid, UsersNotified, SaveReportToDB
<1>6. CASE Environment \/ UNCHANGED vars
    BY <1>3, <1>6
       DEF Environment, Exec, Unlink, Rename, Stop, SpuriousWakeup, vars
<1>7. QED
    BY <1>1, <1>2, <1>4, <1>5, <1>6 DEF Next

-----------------------------------------------------------------------------
(* Paths: from the event's descriptor to the request.                      *)

(* A path is looked up for the events taken up, and every request has one. *)
(* It leads to the attempt's program or nowhere until another file is put  *)
(* there.                                                                  *)
PathInv ==
  \A e \in Execs :
    /\ answer[e] = "idle" => path[e] = None
    /\ promise[e] # "none" => path[e] # None
    /\ path[e] # None /\ e \notin replaced => at[path[e]] \in {target[e], None}

(* A suspension concerns an attempt that has no path yet.                  *)
LEMMA SuspendPaths ==
  ASSUME TypeOK, PathInv, NEW x \in Execs, NEW f \in Files, Suspend(x, f),
         UNCHANGED <<at, path, promise, replaced>>
  PROVE  PathInv'
  BY DEF PathInv, Suspend, Idle, TypeOK

(* Moving a file changes what is behind a path; those whose path it is are *)
(* marked.                                                                 *)
LEMMA RenamePaths ==
  ASSUME TypeOK, PathInv, NEW m \in Renames, Rename(m[1], m[2])
  PROVE  PathInv'
<1>1. m[1] \in Paths /\ m[2] \in Paths
    BY PathsAssumption
<1>2. PICK p \in Paths, q \in Paths : p = m[1] /\ q = m[2]
    BY <1>1
<1>3. Rename(p, q)
    BY <1>2
<1>4. UNCHANGED <<answer, path, promise, target>>
    BY <1>3 DEF Rename, watcherVars
<1>5. /\ at' = [at EXCEPT ![q] = at[p], ![p] = None]
      /\ replaced' = replaced \cup {e \in Execs : path[e] = q /\ target[e] # at[p]}
    BY <1>3 DEF Rename
<1>6. ASSUME NEW e \in Execs, path[e] # None, e \notin replaced'
      PROVE  at'[path[e]] \in {target[e], None}
  <2>1. path[e] \in Paths /\ at[path[e]] \in {target[e], None}
      BY <1>5, <1>6 DEF PathInv, TypeOK
  <2>2. path[e] = q => at[p] = target[e]
      BY <1>5, <1>6
  <2>3. at'[path[e]] \in {at[path[e]], None} \/ (path[e] = q /\ at'[q] \in {at[p], None})
      BY <1>5, <2>1 DEF TypeOK
  <2>4. QED
      BY <2>1, <2>2, <2>3
<1>7. QED
    BY <1>4, <1>6 DEF PathInv

LEMMA PathStep ==
  ASSUME TypeOK, EventInOnePlace, RequestInv, PathInv, [Next]_vars
  PROVE  PathInv'
<1> USE DEF envVars, watcherVars, workerVars, watcherSide, history
<1>1. ASSUME UNCHANGED <<at, target, answer, path, promise, replaced>>
      PROVE  PathInv'
    BY <1>1 DEF PathInv
<1>2. ASSUME NEW p \in Paths, UNCHANGED <<target, answer, path, promise, replaced>>,
             at' = [at EXCEPT ![p] = None]
      PROVE  PathInv'
    BY <1>2 DEF PathInv, TypeOK
<1>3. ASSUME NEW e \in Execs, NEW p \in Paths, Exec(e, p)
      PROVE  PathInv'
  <2>1. at[p] \in Files
      BY <1>3 DEF Exec, TypeOK
  <2>2. QED
      BY <1>3, <2>1, SuspendPaths DEF Exec
<1>4. CASE NotifyUser
    BY <1>4, SuspendPaths, FilesAssumption DEF NotifyUser, Idle
<1>5. ASSUME NEW p \in Paths, Unlink(p)
      PROVE  PathInv'
    BY <1>2, <1>5 DEF Unlink
<1>6. ASSUME NEW m \in Renames, Rename(m[1], m[2])
      PROVE  PathInv'
    BY <1>6, RenamePaths
<1>7. CASE NextEvent
  <2>1. PICK x \in Execs : x = event'
      BY <1>7, NextEventType
  <2>2. event = None /\ None \notin Execs /\ answer[x] = "blocked"
      BY <1>7, <2>1, NextIsBlocked, NoneAssumption
  <2>3. promise[x] = "none"
      BY <2>2 DEF RequestInv, NotTakenUp
  <2>4. PICK p \in {q \in Paths : at[q] = target[x]} \cup {None} :
          path' = [path EXCEPT ![x] = p]
      BY <1>7, <2>1 DEF NextEvent
  <2>5. UNCHANGED <<at, target, answer, promise, replaced>>
      BY <1>7 DEF NextEvent
  <2>6. ASSUME NEW e \in Execs
        PROVE  path'[e] = IF e = x THEN p ELSE path[e]
      BY <2>4 DEF TypeOK
  <2>7. QED
      BY <2>2, <2>3, <2>4, <2>5, <2>6 DEF PathInv
<1>8. CASE PushRequest
  <2>1. path[event] # None
      BY <1>8, NoneAssumption DEF PushRequest, fileOfEvent
  <2>2. event \in Execs
      BY <1>8, EventHasNoPromise DEF PushRequest
  <2>3. UNCHANGED <<at, target, answer, path, replaced>>
      BY <1>8 DEF PushRequest
  <2>4. \A e \in Execs : promise'[e] # "none" => promise[e] # "none" \/ e = event
      BY <1>8, <2>2 DEF PushRequest, TypeOK
  <2>5. QED
      BY <2>1, <2>3, <2>4 DEF PathInv
<1>9. CASE SetValue
  <2>1. req \in Execs /\ promise[req] = "pending"
      BY <1>9, RequestIsPending DEF SetValue, TypeOK
  <2>2. UNCHANGED <<at, target, answer, path, replaced>>
      BY <1>9 DEF SetValue
  <2>3. \A e \in Execs : promise'[e] # "none" => promise[e] # "none"
      BY <1>9, <2>1 DEF SetValue, TypeOK
  <2>4. QED
      BY <2>2, <2>3 DEF PathInv
<1>10. CASE Respond
    BY <1>10 DEF Respond, PathInv, TypeOK
<1>11. CASE TryQuarantine
  <2>1. req # None
      BY <1>11 DEF TryQuarantine, TypeOK
  <2>2. path[req] \in Paths
      BY <2>1, RequestIsPending DEF PathInv, TypeOK
  <2>3. UNCHANGED <<target, answer, path, promise, replaced>>
      BY <1>11 DEF TryQuarantine
  <2>4. UNCHANGED at \/ at' = [at EXCEPT ![path[req]] = None]
      BY <1>11 DEF TryQuarantine
  <2>5. QED
      BY <1>1, <1>2, <2>2, <2>3, <2>4
<1>12. CASE \/ InitFanotify \/ WatcherCheck \/ PollTimeout \/ ReadEvents \/ SkipScan
            \/ ResultReady \/ ScanTimeout
    BY <1>1, <1>12
       DEF InitFanotify, WatcherCheck, PollTimeout, ReadEvents, SkipScan,
           ResultReady, ScanTimeout
<1>13. CASE \/ WorkerInit \/ WorkerCheck \/ Pop \/ IsELF \/ AnalyzeFile \/ ReadSize
            \/ WaitPid \/ UsersNotified \/ SaveReportToDB
    BY <1>1, <1>13
       DEF WorkerInit, WorkerCheck, Pop, IsELF, AnalyzeFile, ReadSize, WaitPid,
           UsersNotified, SaveReportToDB
<1>14. CASE Stop \/ SpuriousWakeup \/ UNCHANGED vars
    BY <1>1, <1>14 DEF Stop, SpuriousWakeup, vars
<1>15. QED
    BY <1>3, <1>4, <1>5, <1>6, <1>7, <1>8, <1>9, <1>10, <1>11, <1>12, <1>13, <1>14
       DEF Next, Watcher, Worker, Environment

-----------------------------------------------------------------------------
(* Verdicts: from the scan to the answer.                                  *)

(* The scan made for attempt e found malware in its program, or at its     *)
(* path once another file was put there.                                   *)
Found(e) == e \in mDetected /\ (target[e] \in Malicious \/ e \in replaced)

(* Attempt e may go on: its program is clean, or was not scanned, or may   *)
(* have had another file at its path.                                      *)
Passed(e) == target[e] \in Malicious => e \in unscanned \/ e \in replaced

(* What the worker knows of the request it scans.                          *)
WorkerSound ==
  /\ kpc \in {"size", "quarantine", "notify", "waitpid", "save"} => Found(req)
  /\ kpc = "answer" => IF result THEN Found(req) ELSE Passed(req)

PromiseSound ==
  \A e \in Execs : /\ promise[e] = "true" => Found(e)
                   /\ promise[e] = "false" => Passed(e)

(* What the watcher is about to answer.                                    *)
ResponseSound ==
  /\ wpc \in {"size", "wait"} => ~isMalicious
  /\ wpc = "respond" => IF isMalicious THEN promise[event] = "true"
                                       ELSE Passed(event)

AnswerSound == DenyJustified /\ FailOpenOnlyUnscanned

VerdictInv == WorkerSound /\ PromiseSound /\ ResponseSound /\ AnswerSound

IInv == TypeOK /\ EventInv /\ RequestInv /\ PathInv /\ VerdictInv

(* The program of an attempt once made does not change, and no scan is     *)
(* forgotten: what was found or passed stays so.                           *)
LEMMA FindingsStay ==
  ASSUME TypeOK, [Next]_vars, NEW e \in Execs, answer[e] # "idle"
  PROVE  /\ target'[e] = target[e]
         /\ Found(e) => Found(e)'
         /\ Passed(e) => Passed(e)'
<1> USE DEF envVars, watcherVars, workerVars, watcherSide, history
<1>1. ASSUME target'[e] = target[e], mDetected \subseteq mDetected',
             unscanned \subseteq unscanned', replaced \subseteq replaced'
      PROVE  /\ target'[e] = target[e]
             /\ Found(e) => Found(e)'
             /\ Passed(e) => Passed(e)'
    BY <1>1 DEF Found, Passed
<1>2. CASE Watcher
    BY <1>1, <1>2
       DEF Watcher, InitFanotify, WatcherCheck, PollTimeout, ReadEvents, NextEvent,
           SkipScan, PushRequest, ResultReady, ScanTimeout, Respond
<1>3. CASE Worker /\ ~NotifyUser
    BY <1>1, <1>3
       DEF Worker, WorkerInit, WorkerCheck, Pop, IsELF, AnalyzeFile, ReadSize,
           TryQuarantine, WaitPid, UsersNotified, SaveReportToDB, SetValue,
           Verdict, ScanThrows
<1>4. CASE NotifyUser
    BY <1>1, <1>4 DEF NotifyUser, Suspend, Idle, TypeOK
<1>5. ASSUME NEW x \in Execs, NEW p \in Paths, Exec(x, p)
      PROVE  target'[e] = target[e] /\ UNCHANGED <<mDetected, unscanned, replaced>>
    BY <1>5 DEF Exec, Suspend, Idle, TypeOK
<1>6. CASE Environment \/ UNCHANGED vars
    BY <1>1, <1>5, <1>6 DEF Environment, Unlink, Rename, Stop, SpuriousWakeup, vars
<1>7. QED
    BY <1>2, <1>3, <1>4, <1>6 DEF Next

(* Only SetValue sets a promise to a verdict.                              *)
LEMMA WhoSetsPromise ==
  ASSUME TypeOK, [Next]_vars, NEW e \in Execs, promise'[e] \in {"true", "false"}
  PROVE  promise'[e] = promise[e] \/ (SetValue /\ e = req)
<1>1. CASE PushRequest
    BY <1>1 DEF PushRequest, TypeOK
<1>2. CASE SetValue
    BY <1>2 DEF SetValue, TypeOK
<1>3. CASE UNCHANGED promise
    BY <1>3
<1>4. CASE Watcher /\ ~PushRequest
    BY <1>3, <1>4
       DEF Watcher, InitFanotify, WatcherCheck, PollTimeout, ReadEvents, NextEvent,
           SkipScan, ResultReady, ScanTimeout, Respond
<1>5. CASE Worker /\ ~SetValue
    BY <1>3, <1>5
       DEF Worker, WorkerInit, WorkerCheck, Pop, IsELF, AnalyzeFile, ReadSize,
           TryQuarantine, NotifyUser, WaitPid, UsersNotified, SaveReportToDB
<1>6. CASE Environment \/ UNCHANGED vars
    BY <1>3, <1>6
       DEF Environment, Exec, Unlink, Rename, Stop, SpuriousWakeup, vars
<1>7. QED
    BY <1>1, <1>2, <1>4, <1>5, <1>6 DEF Next

(* Only Respond answers.                                                   *)
LEMMA WhoAnswers ==
  ASSUME TypeOK, [Next]_vars, NEW e \in Execs, answer'[e] \in {"allow", "deny"}
  PROVE  answer'[e] = answer[e] \/ (Respond /\ e = event)
<1> USE DEF envVars, watcherVars, workerVars, watcherSide
<1>1. CASE Respond
    BY <1>1 DEF Respond, TypeOK
<1>2. CASE UNCHANGED answer
    BY <1>2
<1>3. ASSUME NEW x \in Execs, NEW f \in Files, Suspend(x, f)
      PROVE  answer'[e] = answer[e]
    BY <1>3 DEF Suspend, TypeOK
<1>4. CASE Watcher /\ ~Respond
    BY <1>2, <1>4
       DEF Watcher, InitFanotify, WatcherCheck, PollTimeout, ReadEvents, NextEvent,
           SkipScan, PushRequest, ResultReady, ScanTimeout
<1>5. CASE Worker /\ ~NotifyUser
    BY <1>2, <1>5
       DEF Worker, WorkerInit, WorkerCheck, Pop, IsELF, AnalyzeFile, ReadSize,
           TryQuarantine, WaitPid, UsersNotified, SaveReportToDB, SetValue
<1>6. CASE NotifyUser
    BY <1>3, <1>6, FilesAssumption DEF NotifyUser, Idle
<1>7. CASE Environment \/ UNCHANGED vars
  <2>1. ASSUME NEW x \in Execs, NEW p \in Paths, Exec(x, p)
        PROVE  answer'[e] = answer[e]
      BY <1>3, <2>1 DEF Exec, TypeOK
  <2>2. QED
      BY <1>2, <1>7, <2>1
         DEF Environment, Unlink, Rename, Stop, SpuriousWakeup, vars
<1>8. QED
    BY <1>1, <1>4, <1>5, <1>6, <1>7 DEF Next

LEMMA PromiseStep == IInv /\ [Next]_vars => PromiseSound'
<1> SUFFICES ASSUME IInv, [Next]_vars, NEW e \in Execs,
                    promise'[e] \in {"true", "false"}
             PROVE  /\ promise'[e] = "true" => Found(e)'
                    /\ promise'[e] = "false" => Passed(e)'
    BY DEF PromiseSound
<1> USE DEF IInv, VerdictInv
<1>1. CASE promise'[e] = promise[e]
  <2>1. answer[e] # "idle"
      BY <1>1 DEF RequestInv, NotTakenUp
  <2>2. QED
      BY <1>1, <2>1, FindingsStay DEF PromiseSound
<1>2. CASE SetValue /\ e = req
  <2>1. answer[e] # "idle" /\ kpc = "answer"
      BY <1>2, RequestIsPending DEF SetValue, TypeOK
  <2>2. promise'[e] = IF result THEN "true" ELSE "false"
      BY <1>2 DEF SetValue, TypeOK
  <2>3. IF result THEN Found(e) ELSE Passed(e)
      BY <1>2, <2>1 DEF WorkerSound
  <2>4. QED
      BY <2>1, <2>2, <2>3, FindingsStay
<1>3. QED
    BY <1>1, <1>2, WhoSetsPromise

LEMMA AnswerStep == IInv /\ [Next]_vars => AnswerSound'
<1> SUFFICES ASSUME IInv, [Next]_vars, NEW e \in Execs,
                    answer'[e] \in {"allow", "deny"}
             PROVE  /\ answer'[e] = "deny" => promise'[e] = "true" /\ Found(e)'
                    /\ answer'[e] = "allow" => Passed(e)'
    BY DEF AnswerSound, DenyJustified, FailOpenOnlyUnscanned, Found, Passed
<1> USE DEF IInv, EventInv, VerdictInv
<1>1. /\ target'[e] = target[e]
      /\ Found(e) => Found(e)'
      /\ Passed(e) => Passed(e)'
      /\ promise[e] = "true" => promise'[e] = "true"
  <2>1. answer[e] # "idle"
      BY WhoAnswers, EventIsBlocked DEF Respond, TypeOK
  <2>2. QED
      BY <2>1, FindingsStay, SetOnceStep
<1>2. CASE answer'[e] = answer[e]
    BY <1>1, <1>2
       DEF AnswerSound, DenyJustified, FailOpenOnlyUnscanned, Found, Passed
<1>3. CASE Respond /\ e = event
  <2>1. answer'[e] = IF isMalicious THEN "deny" ELSE "allow"
      BY <1>3 DEF Respond, TypeOK
  <2>2. IF isMalicious THEN promise[e] = "true" ELSE Passed(e)
      BY <1>3 DEF Respond, ResponseSound
  <2>3. promise[e] = "true" => Found(e)
      BY DEF PromiseSound
  <2>4. QED
      BY <1>1, <2>1, <2>2, <2>3
<1>4. QED
    BY <1>2, <1>3, WhoAnswers

LEMMA WorkerSoundStep == IInv /\ [Next]_vars => WorkerSound'
<1> SUFFICES ASSUME IInv, [Next]_vars PROVE WorkerSound'
    OBVIOUS
<1> USE DEF IInv, VerdictInv, envVars, watcherVars, workerVars, watcherSide, history
<1>1. ASSUME req # None
      PROVE  /\ req \in Execs
             /\ target'[req] = target[req]
             /\ Found(req) => /\ req \in mDetected'
                              /\ target'[req] \in Malicious \/ req \in replaced'
             /\ Passed(req) => (target'[req] \in Malicious =>
                                  req \in unscanned' \/ req \in replaced')
  <2>1. req \in Execs /\ answer[req] # "idle"
      BY <1>1, RequestIsPending
  <2>2. QED
      BY <2>1, FindingsStay DEF Found, Passed
<1>2. kpc \in {"elf", "analyze", "size", "quarantine", "notify", "waitpid", "save",
               "answer"} => req # None
    BY DEF TypeOK
(* The worker's place is kept, or the worker is merely woken.              *)
<1>3. ASSUME UNCHANGED <<req, result>>,
             kpc' = kpc \/ kpc' \in {"init", "check", "pop", "asleep", "off"}
      PROVE  WorkerSound'
    BY <1>1, <1>2, <1>3 DEF WorkerSound, Found, Passed
<1>4. CASE Watcher
    BY <1>3, <1>4
       DEF Watcher, InitFanotify, WatcherCheck, PollTimeout, ReadEvents, NextEvent,
           SkipScan, PushRequest, ResultReady, ScanTimeout, Respond
<1>5. CASE Environment \/ UNCHANGED vars
    BY <1>3, <1>5 DEF Environment, Exec, Unlink, Rename, Stop, SpuriousWakeup, vars
<1>6. CASE WorkerInit \/ WorkerCheck
    BY <1>3, <1>6 DEF WorkerInit, WorkerCheck
<1>7. CASE Pop
    BY <1>7 DEF Pop, WorkerSound
<1>8. CASE IsELF
    BY <1>8 DEF IsELF, Verdict, WorkerSound, Passed
<1>9. CASE AnalyzeFile
  <2>1. req \in Execs /\ promise[req] # "none"
      BY <1>2, <1>9, RequestIsPending DEF AnalyzeFile
  <2>2. req \notin replaced => fileAtPath \in {target[req], None}
      BY <2>1 DEF PathInv, fileAtPath
  <2>3. None \notin Files /\ Malicious \subseteq Files
      BY NoneAssumption, FilesAssumption
  <2>4. CASE fileAtPath \in Malicious /\ mDetected' = mDetected \cup {req}
    <3>1. Found(req)'
        BY <1>9, <2>2, <2>3, <2>4 DEF AnalyzeFile, Found
    <3>2. QED
        BY <1>9, <2>2, <2>3, <2>4, <3>1
           DEF AnalyzeFile, ScanThrows, Verdict, WorkerSound, Passed
  <2>5. CASE fileAtPath \in Files \ Malicious /\ Verdict(FALSE)
    <3>1. Passed(req)'
        BY <1>9, <2>2, <2>3, <2>5 DEF AnalyzeFile, Passed
    <3>2. QED
        BY <1>9, <2>5, <3>1 DEF AnalyzeFile, Verdict, WorkerSound
  <2>6. CASE ScanThrows
      BY <1>9, <2>6 DEF AnalyzeFile, ScanThrows, Verdict, WorkerSound, Passed
  <2>7. QED
      BY <1>9, <2>4, <2>5, <2>6 DEF AnalyzeFile
<1>10. CASE ReadSize
    BY <1>1, <1>2, <1>10
       DEF ReadSize, ScanThrows, Verdict, WorkerSound, Found, Passed
<1>11. CASE TryQuarantine
    BY <1>1, <1>2, <1>11
       DEF TryQuarantine, ScanThrows, Verdict, WorkerSound, Found, Passed
<1>12. CASE NotifyUser
    BY <1>1, <1>2, <1>12 DEF NotifyUser, WorkerSound, Found
<1>13. CASE WaitPid \/ UsersNotified
    BY <1>1, <1>2, <1>13 DEF WaitPid, UsersNotified, WorkerSound, Found
<1>14. CASE SaveReportToDB
    BY <1>1, <1>2, <1>14
       DEF SaveReportToDB, ScanThrows, Verdict, WorkerSound, Found, Passed
<1>15. CASE SetValue
    BY <1>15 DEF SetValue, WorkerSound
<1>16. QED
    BY <1>4, <1>5, <1>6, <1>7, <1>8, <1>9, <1>10, <1>11, <1>12, <1>13, <1>14, <1>15
       DEF Next, Worker

LEMMA ResponseStep == IInv /\ [Next]_vars => ResponseSound'
<1> SUFFICES ASSUME IInv, [Next]_vars PROVE ResponseSound'
    OBVIOUS
<1> USE DEF IInv, EventInv, VerdictInv, envVars, watcherVars, workerVars,
            watcherSide, history
<1>1. ASSUME event # None
      PROVE  /\ event \in Execs
             /\ Passed(event) => (target'[event] \in Malicious =>
                                    event \in unscanned' \/ event \in replaced')
             /\ promise[event] = "true" => promise'[event] = "true"
  <2>1. event \in Execs /\ answer[event] # "idle"
      BY <1>1, EventIsBlocked
  <2>2. QED
      BY <2>1, FindingsStay, SetOnceStep DEF Passed
<1>2. wpc \in {"size", "wait", "respond"} => event # None
    BY DEF TypeOK
<1>3. ASSUME \/ UNCHANGED <<wpc, event, isMalicious>>
             \/ /\ wpc' # "respond"
                /\ wpc' \in {"size", "wait"} => ~isMalicious'
      PROVE  ResponseSound'
    BY <1>1, <1>2, <1>3 DEF ResponseSound, Passed
(* The verdict is still the FALSE it was reset to.                         *)
<1>4. CASE SkipScan
    BY <1>4 DEF SkipScan, ResponseSound, Passed
<1>5. CASE ResultReady
  <2>1. promise[event] = "true" \/ Passed(event)
      BY <1>1, <1>2, <1>5 DEF ResultReady, PromiseSound
  <2>2. isMalicious' <=> promise[event] = "true"
      BY <1>5 DEF ResultReady
  <2>3. event' = event /\ wpc' = "respond"
      BY <1>5 DEF ResultReady
  <2>4. event # None
      BY <1>2, <1>5 DEF ResultReady
  <2>5. QED
      BY <1>1, <2>1, <2>2, <2>3, <2>4 DEF ResponseSound, Passed
<1>6. CASE ScanTimeout
    BY <1>6 DEF ScanTimeout, ResponseSound, Passed
<1>7. CASE InitFanotify \/ WatcherCheck \/ PollTimeout \/ ReadEvents \/ NextEvent
           \/ PushRequest \/ Respond
    BY <1>3, <1>7
       DEF InitFanotify, WatcherCheck, PollTimeout, ReadEvents, NextEvent, PushRequest,
           Respond, ResponseSound
<1>8. CASE Worker
    BY <1>3, <1>8
       DEF Worker, WorkerInit, WorkerCheck, Pop, IsELF, AnalyzeFile, ReadSize,
           TryQuarantine, NotifyUser, WaitPid, UsersNotified, SaveReportToDB,
           SetValue
<1>9. CASE Environment \/ UNCHANGED vars
    BY <1>3, <1>9 DEF Environment, Exec, Unlink, Rename, Stop, SpuriousWakeup, vars
<1>10. QED
    BY <1>4, <1>5, <1>6, <1>7, <1>8, <1>9 DEF Next, Watcher

-----------------------------------------------------------------------------
(* The invariant and what follows from it.                                 *)

LEMMA InvInit == Init => IInv
<1> SUFFICES ASSUME Init PROVE IInv
    OBVIOUS
<1>1. TypeOK
    BY TypeInit
<1>2. Unanswered = <<>> /\ Unsettled = <<>>
    BY EmptySeq, ConcatEmptySeq DEF Init, Unanswered, Unsettled
<1>3. ToSet(<<>>) = {} /\ IsInjective(<<>>)
    BY DEF ToSet, IsInjective
<1>4. EventInv
    BY <1>2, <1>3 DEF Init, EventInv, EventInOnePlace, BatchExhausted
<1>5. RequestInv
    BY <1>2, <1>3
       DEF Init, RequestInv, NotTakenUp, RequestInOnePlace, AwaitedIsNewest,
           NoLostWakeup
<1>6. PathInv
    BY DEF Init, PathInv
<1>7. VerdictInv
    BY DEF Init, VerdictInv, WorkerSound, PromiseSound, ResponseSound, AnswerSound,
           DenyJustified, FailOpenOnlyUnscanned
<1>8. QED
    BY <1>1, <1>4, <1>5, <1>6, <1>7 DEF IInv

LEMMA InvStep == IInv /\ [Next]_vars => IInv'
<1> SUFFICES ASSUME IInv, [Next]_vars PROVE IInv'
    OBVIOUS
<1>1. TypeOK' /\ EventInv' /\ RequestInv'
    BY TypeStep, EventStep, RequestStep DEF IInv
<1>2. PathInv'
    BY PathStep DEF IInv, EventInv
<1>3. VerdictInv'
    BY WorkerSoundStep, PromiseStep, ResponseStep, AnswerStep DEF VerdictInv
<1>4. QED
    BY <1>1, <1>2, <1>3 DEF IInv

LEMMA InvAlways == Spec => []IInv
<1>1. Spec => Init /\ [][Next]_vars
    BY DEF Spec
<1>2. QED
    BY <1>1, InvInit, InvStep, PTL

(* Every suspended attempt is in exactly one of the kernel's queue, the    *)
(* read buffer and the watcher's hands: each event read is answered once.  *)
THEOREM EventsInOnePlace == Spec => []EventInOnePlace
<1>1. IInv => EventInOnePlace
    BY DEF IInv, EventInv
<1>2. QED
    BY <1>1, InvAlways, PTL

(* Every unset promise is that of exactly one request queued or scanned,   *)
(* also when nobody waits for it any more.                                 *)
THEOREM RequestsInOnePlace == Spec => []RequestInOnePlace
<1>1. IInv => RequestInOnePlace
    BY DEF IInv, RequestInv
<1>2. QED
    BY <1>1, InvAlways, PTL

(* The request waited for stands behind all stale ones.                    *)
THEOREM AwaitedNewest == Spec => []AwaitedIsNewest
<1>1. IInv => AwaitedIsNewest
    BY DEF IInv, RequestInv
<1>2. QED
    BY <1>1, InvAlways, PTL

(* ScanQueue loses no wakeup.                                              *)
THEOREM WakeupsKept == Spec => []NoLostWakeup
<1>1. IInv => NoLostWakeup
    BY DEF IInv, RequestInv
<1>2. QED
    BY <1>1, InvAlways, PTL

(* A denial always rests on the attempt's own completed scan, and on       *)
(* malware in its program unless another file was put at its path.         *)
THEOREM DenialsJustified == Spec => []DenyJustified
<1>1. IInv => DenyJustified
    BY DEF IInv, VerdictInv, AnswerSound
<1>2. QED
    BY <1>1, InvAlways, PTL

(* Malware that was scanned in full and in time is never let through; what *)
(* was scanned is the program unless another file was put at its path.     *)
THEOREM FailsOpenOnlyUnscanned == Spec => []FailOpenOnlyUnscanned
<1>1. IInv => FailOpenOnlyUnscanned
    BY DEF IInv, VerdictInv, AnswerSound
<1>2. QED
    BY <1>1, InvAlways, PTL

(* Every promise is set at most once.                                      *)
THEOREM PromisesSetOnce == Spec => SetOnce
<1>1. ASSUME IInv, [Next]_vars
      PROVE  [\A e \in Execs : promise[e] \in {"true", "false"} =>
                promise'[e] = promise[e]]_vars
    BY <1>1, SetOnceStep DEF IInv, EventInv
<1>2. Spec => [][Next]_vars
    BY DEF Spec
<1>3. QED
    BY <1>1, <1>2, InvAlways, PTL DEF SetOnce

-----------------------------------------------------------------------------
(* Refinement of ExecGate (its safety part).                               *)

LEMMA GateInit == Init => Gate!Init
  BY DEF Init, Gate!Init

(* Steps of no account to those who wait at the gate.                      *)
LEMMA GateStutters ==
  ASSUME UNCHANGED <<target, answer, mDetected, unscanned, replaced, shouldRun>>
  PROVE  UNCHANGED Gate!vars
  BY DEF Gate!vars

LEMMA GateSuspend ==
  ASSUME NEW e \in Execs, NEW f \in Files, Suspend(e, f),
         UNCHANGED <<mDetected, unscanned, replaced, shouldRun>>
  PROVE  Gate!Next
<1>1. Gate!Suspend(e, f)
    BY DEF Suspend, Idle, Gate!Suspend
<1>2. QED
    BY <1>1 DEF Gate!Next

(* Giving up changes what is overlooked and nothing else of the gate.      *)
LEMMA GateGiveUp ==
  ASSUME NEW e \in Execs, answer[e] # "idle", unscanned' = unscanned \cup {e},
         UNCHANGED <<target, answer, mDetected, replaced, shouldRun>>
  PROVE  Gate!Next
<1>1. Gate!GiveUp(e)
    BY DEF Gate!GiveUp
<1>2. QED
    BY <1>1 DEF Gate!Next

LEMMA GateWatcher ==
  ASSUME IInv, Watcher
  PROVE  Gate!Next \/ UNCHANGED Gate!vars
<1> USE DEF IInv, EventInv, envVars, watcherVars, workerVars, history
<1>1. CASE SkipScan
  <2>1. event # None
      BY <1>1 DEF SkipScan, TypeOK
  <2>2. event \in Execs /\ answer[event] = "blocked"
      BY <2>1, EventIsBlocked
  <2>3. QED
      BY <1>1, <2>2, GateGiveUp DEF SkipScan
<1>2. CASE ScanTimeout
  <2>1. event # None
      BY <1>2 DEF ScanTimeout, TypeOK
  <2>2. event \in Execs /\ answer[event] = "blocked"
      BY <2>1, EventIsBlocked
  <2>3. QED
      BY <1>2, <2>2, GateGiveUp DEF ScanTimeout
<1>3. CASE Respond
  <2>1. event # None
      BY <1>3 DEF Respond, TypeOK
  <2>2. event \in Execs /\ answer[event] = "blocked"
      BY <2>1, EventIsBlocked
  <2>3. IF isMalicious THEN Found(event) ELSE Passed(event)
      BY <1>3, <2>2 DEF Respond, VerdictInv, ResponseSound, PromiseSound
  <2>4. UNCHANGED <<target, mDetected, unscanned, replaced, shouldRun>>
      BY <1>3 DEF Respond
  <2>5. CASE isMalicious
    <3>1. Gate!Deny(event)
        BY <1>3, <2>2, <2>3, <2>4, <2>5 DEF Respond, Found, Gate!Deny
    <3>2. QED
        BY <2>2, <3>1 DEF Gate!Next
  <2>6. CASE ~isMalicious
    <3>1. Gate!Allow(event)
        BY <1>3, <2>2, <2>3, <2>4, <2>6 DEF Respond, Passed, Gate!Allow
    <3>2. QED
        BY <2>2, <3>1 DEF Gate!Next
  <2>7. QED
      BY <2>5, <2>6
<1>4. CASE \/ InitFanotify \/ WatcherCheck \/ PollTimeout \/ ReadEvents
           \/ NextEvent \/ PushRequest \/ ResultReady
    BY <1>4, GateStutters
       DEF InitFanotify, WatcherCheck, PollTimeout, ReadEvents, NextEvent,
           PushRequest, ResultReady
<1>5. QED
    BY <1>1, <1>2, <1>3, <1>4 DEF Watcher

LEMMA GateWorker ==
  ASSUME IInv, Worker
  PROVE  Gate!Next \/ UNCHANGED Gate!vars
<1> USE DEF IInv, envVars, watcherVars, workerVars, watcherSide, history
(* Whatever the worker makes of its request, the attempt was made.         *)
<1>1. kpc \in {"elf", "analyze", "size", "quarantine", "save"} =>
        req \in Execs /\ answer[req] # "idle"
    BY RequestIsPending DEF TypeOK
<1>2. ASSUME kpc \in {"elf", "analyze", "size", "quarantine", "save"},
             unscanned' = unscanned \cup {req} \/ UNCHANGED unscanned,
             UNCHANGED <<target, answer, mDetected, replaced, shouldRun>>
      PROVE  Gate!Next \/ UNCHANGED Gate!vars
    BY <1>1, <1>2, GateGiveUp, GateStutters
<1>3. CASE AnalyzeFile
  <2>1. CASE UNCHANGED mDetected
      BY <1>2, <1>3, <2>1 DEF AnalyzeFile, ScanThrows, Verdict
  <2>2. CASE /\ fileAtPath \in Malicious
             /\ mDetected' = mDetected \cup {req}
             /\ UNCHANGED unscanned
    <3>1. promise[req] # "none"
        BY <1>3, RequestIsPending DEF AnalyzeFile, TypeOK
    <3>2. target[req] \in Malicious \/ req \in replaced
        BY <1>1, <1>3, <2>2, <3>1, NoneAssumption, FilesAssumption
           DEF AnalyzeFile, fileAtPath, PathInv
    <3>3. Gate!Find(req)
        BY <1>1, <1>3, <2>2, <3>2 DEF AnalyzeFile, Gate!Find
    <3>4. QED
        BY <1>1, <1>3, <3>3 DEF AnalyzeFile, Gate!Next
  <2>3. QED
      BY <1>3, <2>1, <2>2 DEF AnalyzeFile
<1>4. CASE IsELF \/ ReadSize \/ TryQuarantine \/ SaveReportToDB
    BY <1>2, <1>4
       DEF IsELF, ReadSize, TryQuarantine, SaveReportToDB, ScanThrows, Verdict
<1>5. CASE NotifyUser
    BY <1>5, GateSuspend, FilesAssumption DEF NotifyUser, Idle
<1>6. CASE \/ WorkerInit \/ WorkerCheck \/ Pop \/ WaitPid \/ UsersNotified
           \/ SetValue
    BY <1>6, GateStutters
       DEF WorkerInit, WorkerCheck, Pop, WaitPid, UsersNotified, SetValue
<1>7. QED
    BY <1>3, <1>4, <1>5, <1>6 DEF Worker

LEMMA GateEnvironment ==
  ASSUME IInv, Environment
  PROVE  Gate!Next \/ UNCHANGED Gate!vars
<1> USE DEF IInv, envVars, watcherVars, workerVars, watcherSide, history
<1>1. ASSUME NEW e \in Execs, NEW p \in Paths, Exec(e, p)
      PROVE  Gate!Next
  <2>1. at[p] \in Files
      BY <1>1 DEF Exec, TypeOK
  <2>2. QED
      BY <1>1, <2>1, GateSuspend DEF Exec
<1>2. CASE Stop
  <2>1. Gate!Halt
      BY <1>2 DEF Stop, Gate!Halt
  <2>2. QED
      BY <2>1 DEF Gate!Next
<1>3. ASSUME NEW m \in Renames, Rename(m[1], m[2])
      PROVE  Gate!Next
  <2> DEFINE es == {e \in Execs : path[e] = m[2] /\ target[e] # at[m[1]]}
  <2>1. m[2] # None
      BY PathsAssumption, NoneAssumption
  <2>2. es \in SUBSET {e \in Execs : answer[e] # "idle"}
      BY <2>1 DEF PathInv
  <2>3. replaced' = replaced \cup es
      BY <1>3 DEF Rename
  <2> HIDE DEF es
  <2>4. UNCHANGED <<target, answer, mDetected, unscanned, shouldRun>>
      BY <1>3 DEF Rename
  <2>5. Gate!Replace
      BY <2>2, <2>3, <2>4 DEF Gate!Replace
  <2>6. QED
      BY <2>5 DEF Gate!Next
<1>4. CASE SpuriousWakeup \/ \E p \in Paths : Unlink(p)
    BY <1>4, GateStutters DEF SpuriousWakeup, Unlink
<1>5. QED
    BY <1>1, <1>2, <1>3, <1>4 DEF Environment

LEMMA GateStep == IInv /\ [Next]_vars => [Gate!Next]_(Gate!vars)
<1> SUFFICES ASSUME IInv, [Next]_vars PROVE Gate!Next \/ UNCHANGED Gate!vars
    OBVIOUS
<1>1. CASE UNCHANGED vars
    BY <1>1, GateStutters DEF vars
<1>2. QED
    BY <1>1, GateWatcher, GateWorker, GateEnvironment DEF Next

(* Every step of the threads and of their environment is one that the gate *)
(* allows or does not see: each attempt is suspended and answered once,    *)
(* and unless another file was put at its path, a denial follows a         *)
(* detection in its own program, and malware passes only after its scan    *)
(* was given up.                                                           *)
THEOREM GateSafety == Spec => Gate!Init /\ [][Gate!Next]_(Gate!vars)
<1>1. Spec => Init /\ [][Next]_vars
    BY DEF Spec
<1>2. QED
    BY <1>1, GateInit, GateStep, InvAlways, PTL
=============================================================================
