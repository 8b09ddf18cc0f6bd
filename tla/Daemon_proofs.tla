---------------------------- MODULE Daemon_proofs ----------------------------
(***************************************************************************)
(* What is proved of the server's life, for any number of PIDs, clients,   *)
(* hashes, starts and kills: its types, that there is one daemon unless    *)
(* two starts overlap, and that a start ends in a daemon that knows its    *)
(* hashes or has a reason not to.                                          *)
(*                                                                         *)
(* The inductive invariant has three parts that hardly meet: who waits for *)
(* an answer (HeldOnce), what the files say of the daemon that wrote them  *)
(* (FilesTellDaemon, LeftByKills), and how far the hashes are loaded       *)
(* (HashesLoaded).                                                         *)
(***************************************************************************)
EXTENDS Daemon, TLAPS, SequenceTheorems

(* A connection of c is at p: accepted, or waiting for that.               *)
Holds(p, c) == serving[p] = c \/ \E i \in DOMAIN queue[p] : queue[p][i] = c

(* Who is connected is connected to one process, once, and has not been    *)
(* told the end: an answer cannot reach a client that waits elsewhere.     *)
HeldOnce ==
  /\ \A p \in Pids, c \in Clients :
       Holds(p, c) => client[c] \in {"connected", "sent", "gone"}
  /\ \A p, q \in Pids, c \in Clients : Holds(p, c) /\ Holds(q, c) => p = q
  /\ \A p \in Pids : \A i, k \in DOMAIN queue[p] :
       queue[p][i] = queue[p][k] => i = k
  /\ \A p \in Pids : \A i \in DOMAIN queue[p] : queue[p][i] # serving[p]

(* With at most one daemon, its files say where it is: an empty PID file   *)
(* is its own to write, a PID file that is written is its own, no socket   *)
(* is in its way, and then the socket is its own.                          *)
InPidFile == Launched \ {"launching", "created"}

FilesTellDaemon ==
  /\ \A p \in writers : pc[p] = "created"
  /\ ~overlapped =>
       /\ \A p, q \in Pids : pc[p] \in Launched /\ pc[q] \in Launched => p = q
       /\ \A p \in Pids :
            /\ pc[p] = "created" => pidFile = Empty /\ p \in writers
            /\ pc[p] \in InPidFile => pidFile = p
            /\ pc[p] = "binding" => socket = NoSocket
            /\ pc[p] \in Serving => socket = p

(* Only what is killed leaves its files behind.                            *)
LeftByKills ==
  /\ kills = 0 => /\ pidFile # NoFile => \E q \in Pids : pc[q] \in Launched
                  /\ socket # NoSocket => pc[socket] \in Serving
  /\ \A p \in Pids : /\ reason[p] = "mistaken" => kills > 0
                     /\ reason[p] = "bind" => overlapped

(* The lines a start has read are in the table or were refused.            *)
HashesLoaded ==
  \A p \in Pids :
    /\ 1 .. line[p] \subseteq table \cup unknown[p]
    /\ pc[p] \in Launched \cup {"checking"} => line[p] = Len(Hashes)

DaemonIInv == DaemonTypeOK /\ HeldOnce /\ FilesTellDaemon /\ LeftByKills /\ HashesLoaded

-----------------------------------------------------------------------------
(* Types, but for the states of clients that are served, which HeldOnce    *)
(* tells.                                                                  *)
PlainTypes ==
  /\ pc \in [Pids -> {"none", "other"} \cup DaemonAt]
  /\ reason \in [Pids -> {"none", "refused", "mistaken", "bind", "killed", "stopped"}]
  /\ line \in [Pids -> 0 .. Len(Hashes)] /\ table \subseteq 1 .. Len(Hashes)
  /\ unknown \in [Pids -> SUBSET (1 .. Len(Hashes))]
  /\ pidFile \in Pids \cup {NoFile, Empty} /\ writers \subseteq Pids
  /\ socket \in Pids \cup {NoSocket}
  /\ queue \in [Pids -> Seq(Clients)] /\ serving \in [Pids -> Clients \cup {NoClient}]
  /\ client \in [Clients -> {"idle", "connected", "sent", "gone", "answered",
                             "refused", "dropped"}]
  /\ command \in [Clients -> {"stop", "other"}]
  /\ overlapped \in BOOLEAN
  /\ starts \in 0 .. MaxStarts /\ kills \in 0 .. MaxKills /\ failures \in 0 .. MaxFailures

EmptyHands ==
  \A p \in Pids : pc[p] \notin Serving => queue[p] = <<>> /\ serving[p] = NoClient

LEMMA TypeParts == PlainTypes /\ EmptyHands /\ HeldOnce <=> DaemonTypeOK /\ HeldOnce
<1>1. PlainTypes /\ HeldOnce =>
        \A p \in Pids : serving[p] # NoClient =>
          client[serving[p]] \in {"connected", "sent", "gone"}
    BY DEF PlainTypes, HeldOnce, Holds
<1>2. QED
    BY <1>1 DEF PlainTypes, EmptyHands, DaemonTypeOK

LEMMA TypePartsPrimed ==
  PlainTypes' /\ EmptyHands' /\ HeldOnce' => DaemonTypeOK'
<1>1. PlainTypes' /\ HeldOnce' =>
        \A p \in Pids : serving'[p] # NoClient =>
          client'[serving'[p]] \in {"connected", "sent", "gone"}
    BY DEF PlainTypes, HeldOnce, Holds
<1>2. QED
    BY <1>1 DEF PlainTypes, EmptyHands, DaemonTypeOK

LEMMA DaemonInitIInv == DaemonInit => DaemonIInv
<1> SUFFICES ASSUME DaemonInit PROVE DaemonIInv
    OBVIOUS
<1>0. <<>> \in Seq(Clients) /\ Len(Hashes) \in Nat
    BY DaemonAssumption
<1>1. PlainTypes
  <2>1. /\ queue \in [Pids -> Seq(Clients)]
        /\ line \in [Pids -> 0 .. Len(Hashes)] /\ unknown \in [Pids -> SUBSET (1 .. Len(Hashes))]
      BY <1>0 DEF DaemonInit
  <2>2. /\ pc \in [Pids -> {"none", "other"} \cup DaemonAt]
        /\ reason \in [Pids -> {"none", "refused", "mistaken", "bind", "killed", "stopped"}]
        /\ serving \in [Pids -> Clients \cup {NoClient}]
        /\ client \in [Clients -> {"idle", "connected", "sent", "gone", "answered",
                                   "refused", "dropped"}]
      BY DEF DaemonInit
  <2>3. /\ starts \in 0 .. MaxStarts /\ kills \in 0 .. MaxKills /\ failures \in 0 .. MaxFailures
      BY DaemonBoundsAssumption DEF DaemonInit
  <2>4. QED
      BY <2>1, <2>2, <2>3 DEF DaemonInit, PlainTypes
<1>6. EmptyHands
    BY DEF DaemonInit, EmptyHands
<1>2. HeldOnce
    BY DaemonAssumption DEF DaemonInit, HeldOnce, Holds
<1>3. FilesTellDaemon /\ LeftByKills
    BY DEF DaemonInit, FilesTellDaemon, LeftByKills, Launched, Starting, Loading,
           Serving, InPidFile
<1>4. HashesLoaded
    BY DEF DaemonInit, HashesLoaded, Launched, Starting, Loading, Serving
<1>5. QED
    BY <1>1, <1>2, <1>3, <1>4, <1>6, TypeParts DEF DaemonIInv

-----------------------------------------------------------------------------
(* Who waits for an answer.                                                *)

(* What is in a queue, and where its head and its tail are.                *)
LEMMA QueueHead ==
  ASSUME NEW q \in Seq(Clients), q # <<>>
  PROVE  /\ Head(q) \in Clients /\ Head(q) = q[1] /\ 1 \in DOMAIN q
         /\ Tail(q) \in Seq(Clients)
         /\ \A i \in DOMAIN Tail(q) : i + 1 \in DOMAIN q /\ Tail(q)[i] = q[i + 1]
<1>1. /\ Head(q) \in Clients /\ Head(q) = q[1] /\ Len(q) \in Nat /\ Len(q) > 0
      /\ DOMAIN q = 1 .. Len(q)
    BY EmptySeq, HeadTailProperties
<1>2. /\ Tail(q) \in Seq(Clients) /\ Len(Tail(q)) = Len(q) - 1
      /\ \A i \in 1 .. Len(Tail(q)) : Tail(q)[i] = q[i + 1]
      /\ DOMAIN Tail(q) = 1 .. Len(Tail(q))
    BY HeadTailProperties
<1>3. QED
    BY <1>1, <1>2

LEMMA QueueAppend ==
  ASSUME NEW q \in Seq(Clients), NEW c \in Clients
  PROVE  /\ Append(q, c) \in Seq(Clients)
         /\ DOMAIN Append(q, c) = DOMAIN q \cup {Len(q) + 1}
         /\ Len(q) + 1 \notin DOMAIN q
         /\ Append(q, c)[Len(q) + 1] = c
         /\ \A i \in DOMAIN q : Append(q, c)[i] = q[i]
    OBVIOUS

(* Fewer connections, and the same clients or clients that are held no     *)
(* more.                                                                   *)
LEMMA FewerHeld ==
  ASSUME HeldOnce,
         \A q \in Pids, c \in Clients : Holds(q, c)' => Holds(q, c) /\ client'[c] = client[c],
         \A q \in Pids : \A i, k \in DOMAIN queue'[q] :
           queue'[q][i] = queue'[q][k] => i = k,
         \A q \in Pids : \A i \in DOMAIN queue'[q] : queue'[q][i] # serving'[q]
  PROVE  HeldOnce'
    BY DEF HeldOnce

LEMMA SameHeld ==
  ASSUME HeldOnce, UNCHANGED <<queue, serving, client>>
  PROVE  HeldOnce'
    BY DEF HeldOnce, Holds

LEMMA AcceptHeld ==
  ASSUME PlainTypes, HeldOnce, NEW p \in Pids, Accept(p)
  PROVE  HeldOnce'
<1> DEFINE c == Head(queue[p])
<1>1. /\ serving[p] = NoClient
      /\ serving' = [serving EXCEPT ![p] = c]
      /\ queue' = [queue EXCEPT ![p] = Tail(queue[p])]
      /\ client' = client
    BY DEF Accept, clientVars
<1>2. /\ queue[p] \in Seq(Clients) /\ queue[p] # <<>>
    BY DEF Accept, PlainTypes
<1>3. /\ c \in Clients /\ c = queue[p][1] /\ 1 \in DOMAIN queue[p]
      /\ \A i \in DOMAIN Tail(queue[p]) :
           i + 1 \in DOMAIN queue[p] /\ Tail(queue[p])[i] = queue[p][i + 1]
    BY <1>2, QueueHead
<1>4. /\ queue'[p] = Tail(queue[p]) /\ serving'[p] = c
      /\ \A q \in Pids : q # p => queue'[q] = queue[q] /\ serving'[q] = serving[q]
    BY <1>1 DEF PlainTypes
<1>5. ASSUME NEW q \in Pids, NEW d \in Clients, Holds(q, d)'
      PROVE  Holds(q, d)
  <2>1. CASE q = p
    <3>1. c = d \/ \E i \in DOMAIN Tail(queue[p]) : Tail(queue[p])[i] = d
        BY <1>4, <1>5, <2>1 DEF Holds
    <3>2. \E i \in DOMAIN queue[p] : queue[p][i] = d
        BY <1>3, <3>1
    <3>3. QED
        BY <2>1, <3>2 DEF Holds
  <2>2. CASE q # p
      BY <1>4, <1>5, <2>2 DEF Holds
  <2>3. QED
      BY <2>1, <2>2
<1>6. \A i, k \in DOMAIN Tail(queue[p]) :
        Tail(queue[p])[i] = Tail(queue[p])[k] => i = k
  <2> SUFFICES ASSUME NEW i \in DOMAIN Tail(queue[p]), NEW k \in DOMAIN Tail(queue[p]),
                      Tail(queue[p])[i] = Tail(queue[p])[k]
               PROVE  i = k
      OBVIOUS
  <2>1. i + 1 = k + 1
      BY <1>3 DEF HeldOnce
  <2>2. i \in Int /\ k \in Int
      BY <1>2, QueueHead, HeadTailProperties
  <2>3. QED
      BY <2>1, <2>2
<1>7. \A i \in DOMAIN Tail(queue[p]) : Tail(queue[p])[i] # c
  <2> SUFFICES ASSUME NEW i \in DOMAIN Tail(queue[p]), Tail(queue[p])[i] = c
               PROVE  FALSE
      OBVIOUS
  <2>1. i + 1 = 1
      BY <1>3 DEF HeldOnce
  <2>2. i \in Int /\ i >= 1
      BY <1>2, QueueHead, HeadTailProperties
  <2>3. QED
      BY <2>1, <2>2
<1>8. \A q \in Pids : \A i, k \in DOMAIN queue'[q] :
        queue'[q][i] = queue'[q][k] => i = k
    BY <1>4, <1>6 DEF HeldOnce
<1>9. \A q \in Pids : \A i \in DOMAIN queue'[q] : queue'[q][i] # serving'[q]
    BY <1>4, <1>7 DEF HeldOnce
<1>10. QED
    BY <1>1, <1>5, <1>8, <1>9, FewerHeld

LEMMA HandleClientHeld ==
  ASSUME PlainTypes, HeldOnce, NEW p \in Pids, HandleClient(p)
  PROVE  HeldOnce'
<1>0. serving[p] \in Clients
    BY DEF HandleClient, PlainTypes
<1> PICK c \in Clients : c = serving[p]
    BY <1>0
<1>1. /\ queue' = queue
      /\ serving' = [serving EXCEPT ![p] = NoClient]
      /\ client' = client \/ client' = [client EXCEPT ![c] = "answered"]
    BY DEF HandleClient, Release, PlainTypes
<1>2. \A q \in Pids, d \in Clients : Holds(q, d)' => Holds(q, d)
    BY <1>1, DaemonAssumption DEF Holds, PlainTypes
<1>3. ASSUME NEW q \in Pids, Holds(q, c)' PROVE FALSE
  <2>1. q = p
      BY <1>1, <1>2, <1>3 DEF Holds, HeldOnce
  <2>2. serving'[p] = NoClient /\ \A i \in DOMAIN queue'[p] : queue'[p][i] # c
      BY <1>1 DEF HeldOnce, PlainTypes
  <2>3. QED
      BY <1>1, <1>3, <2>1, <2>2, DaemonAssumption DEF Holds
<1>4. ASSUME NEW q \in Pids, NEW d \in Clients, Holds(q, d)'
      PROVE  client'[d] = client[d]
  <2>1. d # c
      BY <1>3, <1>4
  <2>2. QED
      BY <1>1, <2>1 DEF PlainTypes
<1>5. \A q \in Pids : \A i \in DOMAIN queue[q] : queue[q][i] # NoClient
    BY DaemonAssumption DEF PlainTypes
<1>6. \A q \in Pids : \A i \in DOMAIN queue'[q] : queue'[q][i] # serving'[q]
    BY <1>1, <1>5 DEF HeldOnce, PlainTypes
<1>7. QED
    BY <1>1, <1>2, <1>4, <1>6, FewerHeld DEF HeldOnce

LEMMA BreakConnectionsHeld ==
  ASSUME PlainTypes, HeldOnce, NEW p \in Pids, BreakConnections(p)
  PROVE  HeldOnce'
<1>1. /\ queue' = [queue EXCEPT ![p] = <<>>]
      /\ serving' = [serving EXCEPT ![p] = NoClient]
      /\ \A c \in Clients : c \notin Broken(p) => client'[c] = client[c]
    BY DEF BreakConnections
<1>2. \A q \in Pids, c \in Clients : Holds(q, c)' => q # p /\ Holds(q, c)
    BY <1>1, DaemonAssumption DEF Holds, PlainTypes
<1>3. \A c \in Broken(p) : c \in Clients /\ Holds(p, c)
    BY DEF Broken, Holds
<1>4. \A q \in Pids, c \in Clients : Holds(q, c)' => client'[c] = client[c]
    BY <1>1, <1>2, <1>3 DEF HeldOnce
<1>5. \A q \in Pids : \A i \in DOMAIN queue'[q] : q # p
    BY <1>1 DEF PlainTypes
<1>6. QED
    BY <1>1, <1>2, <1>4, <1>5, FewerHeld DEF HeldOnce, PlainTypes

LEMMA ConnectHeld ==
  ASSUME PlainTypes, HeldOnce, NEW c \in Clients, Connect(c)
  PROVE  HeldOnce'
<1>1. serving' = serving /\ client[c] = "idle"
    BY DEF Connect
<1>2. \A q \in Pids : ~Holds(q, c)
    BY <1>1 DEF HeldOnce
<1>n. \A q \in Pids, d \in Clients : Holds(q, d) => d # c
    BY <1>2
<1>3. CASE pc[socket] \in Serving
  <2>1. /\ socket \in Pids /\ queue[socket] \in Seq(Clients)
        /\ client' = [client EXCEPT ![c] = "connected"]
        /\ queue' = [queue EXCEPT ![socket] = Append(queue[socket], c)]
      BY <1>3 DEF Connect, PlainTypes
  <2>2. /\ DOMAIN queue'[socket] = DOMAIN queue[socket] \cup {Len(queue[socket]) + 1}
        /\ Len(queue[socket]) + 1 \notin DOMAIN queue[socket]
        /\ queue'[socket][Len(queue[socket]) + 1] = c
        /\ \A i \in DOMAIN queue[socket] : queue'[socket][i] = queue[socket][i]
        /\ \A q \in Pids : q # socket => queue'[q] = queue[q]
      BY <2>1, QueueAppend DEF PlainTypes
  <2>3. \A q \in Pids, d \in Clients :
          Holds(q, d)' => (Holds(q, d) /\ d # c) \/ (q = socket /\ d = c)
    <3> SUFFICES ASSUME NEW q \in Pids, NEW d \in Clients, Holds(q, d)'
                 PROVE  (Holds(q, d) /\ d # c) \/ (q = socket /\ d = c)
        OBVIOUS
    <3>1. CASE q = socket
      <4>1. serving[q] = d \/ \E i \in DOMAIN queue'[socket] : queue'[socket][i] = d
          BY <1>1, <3>1 DEF Holds
      <4>2. serving[q] = d \/ d = c \/ \E i \in DOMAIN queue[socket] : queue[socket][i] = d
          BY <2>2, <4>1
      <4>3. Holds(q, d) \/ d = c
          BY <3>1, <4>2 DEF Holds
      <4>4. QED
          BY <1>n, <3>1, <4>3
    <3>2. CASE q # socket
      <4>1. Holds(q, d)
          BY <1>1, <2>2, <3>2 DEF Holds
      <4>2. QED
          BY <1>n, <4>1
    <3>3. QED
        BY <3>1, <3>2
  <2>4. \A q \in Pids, d \in Clients :
          Holds(q, d)' => client'[d] \in {"connected", "sent", "gone"}
      BY <2>1, <2>3 DEF HeldOnce, PlainTypes
  <2>5. \A p, q \in Pids, d \in Clients : Holds(p, d)' /\ Holds(q, d)' => p = q
      BY <2>3 DEF HeldOnce
  <2>6. /\ \A i \in DOMAIN queue[socket] : queue[socket][i] # c
        /\ serving[socket] # c
      BY <1>2, <2>1 DEF Holds
  <2>7. \A q \in Pids : \A i, k \in DOMAIN queue'[q] :
          queue'[q][i] = queue'[q][k] => i = k
      BY <2>1, <2>2, <2>6 DEF HeldOnce
  <2>8. \A q \in Pids : \A i \in DOMAIN queue'[q] : queue'[q][i] # serving'[q]
      BY <1>1, <2>1, <2>2, <2>6 DEF HeldOnce
  <2>9. QED
      BY <2>4, <2>5, <2>7, <2>8 DEF HeldOnce
<1>4. CASE pc[socket] \notin Serving
  <2>1. queue' = queue /\ client' = [client EXCEPT ![c] = "refused"]
      BY <1>4 DEF Connect
  <2>2. \A q \in Pids, d \in Clients :
          Holds(q, d)' => Holds(q, d) /\ client'[d] = client[d]
      BY <1>1, <1>2, <2>1 DEF Holds, PlainTypes
  <2>3. QED
      BY <1>1, <2>1, <2>2, FewerHeld DEF HeldOnce
<1>5. QED
    BY <1>3, <1>4

LEMMA SendOrGoHeld ==
  ASSUME PlainTypes, HeldOnce, NEW c \in Clients, SendOrGo(c)
  PROVE  HeldOnce'
<1>1. /\ UNCHANGED <<queue, serving>>
      /\ \A d \in Clients : client'[d] = client[d] \/ client'[d] \in {"sent", "gone"}
    BY DEF SendOrGo, serverVars, PlainTypes
<1>2. QED
    BY <1>1 DEF HeldOnce, Holds

LEMMA HeldStep ==
  ASSUME PlainTypes, HeldOnce, [DaemonNext]_daemonVars
  PROVE  HeldOnce'
<1>1. ASSUME NEW p \in Pids,
             Start(p) \/ StartStep(p) \/ Cleanup(p) \/ Exit(p) \/ OtherProgram(p)
      PROVE  HeldOnce'
  <2>1. UNCHANGED <<queue, serving, client>>
      BY <1>1 DEF Start, StartStep, InsertHash, EndInitHashDB, CheckRefuses, CheckPasses,
                  CreatePidFile, WritePid, UnlinkSocket, Bind, Cleanup, Exit, OtherProgram,
                  serverVars, clientVars
  <2>2. QED
      BY <2>1, SameHeld
<1>2. ASSUME NEW p \in Pids, CloseSocket(p) \/ Kill(p)
      PROVE  HeldOnce'
    BY <1>2, BreakConnectionsHeld DEF CloseSocket, Kill
<1>3. CASE UNCHANGED daemonVars
    BY <1>3, SameHeld DEF daemonVars, serverVars, clientVars
<1>4. QED
    BY <1>1, <1>2, <1>3, AcceptHeld, HandleClientHeld, ConnectHeld, SendOrGoHeld
       DEF DaemonNext, ServeStep

-----------------------------------------------------------------------------
(* Types.                                                                  *)

LEMMA StartTypes ==
  ASSUME PlainTypes, EmptyHands, NEW p \in Pids, Start(p) \/ StartStep(p)
  PROVE  PlainTypes' /\ EmptyHands'
<1> USE DEF PlainTypes, EmptyHands, Goes, Ends, serverVars, clientVars, processVars,
            hashVars, Launched, DaemonAt, Starting, Loading, Serving
<1>1. CASE Start(p)
  <2>1. /\ line' = [line EXCEPT ![p] = 0] /\ unknown' = [unknown EXCEPT ![p] = {}]
        /\ 0 \in 0 .. Len(Hashes) /\ {} \in SUBSET (1 .. Len(Hashes))
        /\ starts' \in 0 .. MaxStarts
      BY <1>1, DaemonAssumption, DaemonBoundsAssumption DEF Start
  <2>2. line' \in [Pids -> 0 .. Len(Hashes)] /\ unknown' \in [Pids -> SUBSET (1 .. Len(Hashes))]
      BY <2>1
  <2>3. QED
      BY <1>1, <2>1, <2>2 DEF Start
<1>2. CASE InsertHash(p)
  <2> DEFINE h == line[p] + 1
  <2>1. h \in 0 .. Len(Hashes) /\ h \in 1 .. Len(Hashes)
      BY <1>2, DaemonAssumption DEF InsertHash
  <2>2. /\ line' = [line EXCEPT ![p] = h]
        /\ \/ unknown' = unknown /\ failures' = failures /\ table' = table \cup {h}
           \/ /\ unknown' = [unknown EXCEPT ![p] = unknown[p] \cup {h}]
              /\ failures < MaxFailures /\ failures' = failures + 1 /\ table' = table
      BY <1>2 DEF InsertHash, AfterFailure
  <2>3. line' \in [Pids -> 0 .. Len(Hashes)] /\ table' \subseteq 1 .. Len(Hashes)
      BY <2>1, <2>2
  <2>4. failures' \in 0 .. MaxFailures
      BY <2>2, DaemonBoundsAssumption
  <2>5. unknown' \in [Pids -> SUBSET (1 .. Len(Hashes))]
    <3>1. unknown[p] \cup {h} \in SUBSET (1 .. Len(Hashes))
        BY <2>1
    <3>2. QED
        BY <2>2, <3>1
  <2>6. QED
      BY <1>2, <2>3, <2>4, <2>5 DEF InsertHash
<1>3. CASE EndInitHashDB(p)
    BY <1>3 DEF EndInitHashDB
<1>4. CASE CheckRefuses(p)
    BY <1>4 DEF CheckRefuses
<1>5. CASE CheckPasses(p)
    BY <1>5 DEF CheckPasses
<1>6. CASE CreatePidFile(p)
    BY <1>6 DEF CreatePidFile
<1>7. CASE WritePid(p)
    BY <1>7 DEF WritePid
<1>8. CASE UnlinkSocket(p)
    BY <1>8 DEF UnlinkSocket, SocketUnlinked
<1>9. CASE Bind(p)
    BY <1>9 DEF Bind
<1>10. QED
    BY <1>1, <1>2, <1>3, <1>4, <1>5, <1>6, <1>7, <1>8, <1>9 DEF StartStep

LEMMA BreakConnectionsTypes ==
  ASSUME PlainTypes, NEW p \in Pids, BreakConnections(p)
  PROVE  /\ queue' \in [Pids -> Seq(Clients)] /\ serving' \in [Pids -> Clients \cup {NoClient}]
         /\ client' \in [Clients -> {"idle", "connected", "sent", "gone", "answered",
                                     "refused", "dropped"}]
         /\ queue'[p] = <<>> /\ serving'[p] = NoClient
         /\ \A q \in Pids : q # p => queue'[q] = queue[q] /\ serving'[q] = serving[q]
<1>1. <<>> \in Seq(Clients)
    OBVIOUS
<1>2. QED
    BY <1>1 DEF BreakConnections, PlainTypes

LEMMA ServeTypes ==
  ASSUME PlainTypes, EmptyHands, NEW p \in Pids, ServeStep(p)
  PROVE  PlainTypes' /\ EmptyHands'
<1> USE DEF PlainTypes, EmptyHands, Goes, Ends, serverVars, clientVars, processVars,
            hashVars, Launched, DaemonAt, Starting, Loading, Serving
<1>1. CASE Accept(p)
  <2>1. Head(queue[p]) \in Clients /\ Tail(queue[p]) \in Seq(Clients)
      BY <1>1, QueueHead DEF Accept
  <2>2. QED
      BY <1>1, <2>1 DEF Accept
<1>2. CASE HandleClient(p)
  <2>1. client' \in [Clients -> {"idle", "connected", "sent", "gone", "answered",
                                 "refused", "dropped"}]
      BY <1>2 DEF HandleClient
  <2>2. /\ pc' = pc \/ pc' = [pc EXCEPT ![p] = "stopping"]
        /\ serving' = [serving EXCEPT ![p] = NoClient]
        /\ pc[p] = "listening"
        /\ UNCHANGED <<reason, pidFile, writers, overlapped, starts, kills,
                       hashVars, socket, queue, command>>
      BY <1>2 DEF HandleClient, Release
  <2>3. QED
      BY <2>1, <2>2
<1>3. CASE CloseSocket(p)
    BY <1>3, BreakConnectionsTypes DEF CloseSocket
<1>4. QED
    BY <1>1, <1>2, <1>3 DEF ServeStep

LEMMA EndTypes ==
  ASSUME PlainTypes, EmptyHands, NEW p \in Pids,
         Cleanup(p) \/ Exit(p) \/ Kill(p) \/ OtherProgram(p)
  PROVE  PlainTypes' /\ EmptyHands'
<1> USE DEF PlainTypes, EmptyHands, Goes, Ends, serverVars, clientVars, processVars,
            hashVars, Launched, DaemonAt, Starting, Loading, Serving
<1>1. CASE Cleanup(p)
    BY <1>1 DEF Cleanup
<1>2. CASE Exit(p)
    BY <1>2 DEF Exit
<1>3. CASE Kill(p)
  <2>1. kills' \in 0 .. MaxKills
      BY <1>3, DaemonBoundsAssumption DEF Kill
  <2>2. QED
      BY <1>3, <2>1, BreakConnectionsTypes DEF Kill
<1>4. CASE OtherProgram(p)
    BY <1>4 DEF OtherProgram
<1>5. QED
    BY <1>1, <1>2, <1>3, <1>4

LEMMA ClientTypes ==
  ASSUME PlainTypes, EmptyHands, NEW c \in Clients, Connect(c) \/ SendOrGo(c)
  PROVE  PlainTypes' /\ EmptyHands'
<1> USE DEF PlainTypes, EmptyHands, serverVars, clientVars, processVars, hashVars
<1>1. CASE Connect(c)
  <2>1. CASE pc[socket] \in Serving
    <3>1. /\ socket \in Pids /\ Append(queue[socket], c) \in Seq(Clients)
          /\ client' = [client EXCEPT ![c] = "connected"]
          /\ queue' = [queue EXCEPT ![socket] = Append(queue[socket], c)]
        BY <1>1, <2>1, QueueAppend DEF Connect
    <3>2. QED
        BY <1>1, <2>1, <3>1 DEF Connect
  <2>2. CASE pc[socket] \notin Serving
      BY <1>1, <2>2 DEF Connect
  <2>3. QED
      BY <2>1, <2>2
<1>2. CASE SendOrGo(c)
    BY <1>2 DEF SendOrGo
<1>3. QED
    BY <1>1, <1>2

LEMMA TypeStep ==
  ASSUME PlainTypes, EmptyHands, [DaemonNext]_daemonVars
  PROVE  PlainTypes' /\ EmptyHands'
<1>1. CASE UNCHANGED daemonVars
    BY <1>1 DEF PlainTypes, EmptyHands, daemonVars, serverVars, clientVars, processVars, hashVars
<1>2. QED
    BY <1>1, StartTypes, ServeTypes, EndTypes, ClientTypes DEF DaemonNext

-----------------------------------------------------------------------------
(* What the files say of the daemon.                                       *)

LEMMA FilesStartStep ==
  ASSUME PlainTypes, FilesTellDaemon, NEW p \in Pids, Start(p) \/ StartStep(p)
  PROVE  FilesTellDaemon'
<1> USE DEF PlainTypes, FilesTellDaemon, Goes, Ends, serverVars, processVars,
            Launched, InPidFile, Starting, Loading, Serving
<1>1. CASE Start(p)
    BY <1>1 DEF Start
<1>2. CASE InsertHash(p)
    BY <1>2 DEF InsertHash
<1>3. CASE EndInitHashDB(p)
    BY <1>3 DEF EndInitHashDB
<1>4. CASE CheckRefuses(p)
    BY <1>4 DEF CheckRefuses
<1>5. CASE CheckPasses(p)
  <2>1. /\ pc' = [pc EXCEPT ![p] = "launching"] /\ pc[p] = "checking"
        /\ UNCHANGED <<pidFile, writers, socket>>
        /\ ~overlapped' => ~overlapped
      BY <1>5 DEF CheckPasses
  <2>2. ASSUME ~overlapped', NEW q \in Pids, pc[q] \in Launched PROVE FALSE
    <3>1. pc[q] \in InPidFile
        BY <1>5, <2>2 DEF CheckPasses
    <3>2. pidFile = q
        BY <2>1, <2>2, <3>1
    <3>3. QED
        BY <1>5, <2>2, <3>2 DEF CheckPasses, IsDaemonRunning
  <2>3. QED
      BY <2>1, <2>2
<1>6. CASE CreatePidFile(p)
    BY <1>6 DEF CreatePidFile
<1>7. CASE WritePid(p)
    BY <1>7 DEF WritePid
<1>8. CASE UnlinkSocket(p)
    BY <1>8 DEF UnlinkSocket, SocketUnlinked
<1>9. CASE Bind(p)
    BY <1>9 DEF Bind
<1>10. QED
    BY <1>1, <1>2, <1>3, <1>4, <1>5, <1>6, <1>7, <1>8, <1>9 DEF StartStep

LEMMA FilesStep ==
  ASSUME PlainTypes, FilesTellDaemon, [DaemonNext]_daemonVars
  PROVE  FilesTellDaemon'
<1> USE DEF PlainTypes, FilesTellDaemon, Goes, Ends, serverVars, processVars,
            Launched, InPidFile, Starting, Loading, Serving
<1>1. ASSUME NEW p \in Pids, Accept(p) PROVE FilesTellDaemon'
    BY <1>1 DEF Accept
<1>2. ASSUME NEW p \in Pids, HandleClient(p) PROVE FilesTellDaemon'
  <2>1. /\ pc' = pc \/ pc' = [pc EXCEPT ![p] = "stopping"]
        /\ pc[p] = "listening"
        /\ UNCHANGED <<pidFile, writers, socket, overlapped>>
      BY <1>2 DEF HandleClient
  <2>2. \A q \in Pids : \/ pc'[q] = pc[q]
                        \/ q = p /\ pc[q] = "listening" /\ pc'[q] = "stopping"
      BY <2>1
  <2>3. QED
      BY <2>1, <2>2
<1>3. ASSUME NEW p \in Pids, CloseSocket(p) PROVE FilesTellDaemon'
    BY <1>3 DEF CloseSocket
<1>4. ASSUME NEW p \in Pids, Cleanup(p) PROVE FilesTellDaemon'
    BY <1>4 DEF Cleanup
<1>5. ASSUME NEW p \in Pids, Exit(p) PROVE FilesTellDaemon'
    BY <1>5 DEF Exit
<1>6. ASSUME NEW p \in Pids, Kill(p) PROVE FilesTellDaemon'
    BY <1>6 DEF Kill
<1>7. ASSUME NEW p \in Pids, OtherProgram(p) PROVE FilesTellDaemon'
  <2>1. \A q \in Pids : pc'[q] = pc[q] \/ (pc'[q] \in {"none", "other"}
                                             /\ pc[q] \in {"none", "other"})
      BY <1>7 DEF OtherProgram
  <2>2. UNCHANGED <<pidFile, writers, socket, overlapped>>
      BY <1>7 DEF OtherProgram
  <2>3. QED
      BY <2>1, <2>2
<1>8. ASSUME NEW c \in Clients, Connect(c) \/ SendOrGo(c) PROVE FilesTellDaemon'
    BY <1>8 DEF Connect, SendOrGo
<1>9. CASE UNCHANGED daemonVars
    BY <1>9 DEF daemonVars
<1>10. QED
    BY <1>1, <1>2, <1>3, <1>4, <1>5, <1>6, <1>7, <1>8, <1>9, FilesStartStep
       DEF DaemonNext, ServeStep

-----------------------------------------------------------------------------
(* What a daemon leaves behind, and why it ended.                          *)

LEMMA KillsStartStep ==
  ASSUME PlainTypes, FilesTellDaemon, LeftByKills, NEW p \in Pids, Start(p) \/ StartStep(p)
  PROVE  LeftByKills'
<1> USE DaemonAssumption DEF PlainTypes, LeftByKills, Goes, Ends, serverVars, processVars,
            Launched, Starting, Loading, Serving
<1>1. CASE Start(p)
    BY <1>1 DEF Start
<1>2. CASE InsertHash(p)
    BY <1>2 DEF InsertHash
<1>3. CASE EndInitHashDB(p)
    BY <1>3 DEF EndInitHashDB
<1>4. CASE CheckRefuses(p)
  <2>1. pidFile # NoFile
      BY <1>4 DEF CheckRefuses, IsDaemonRunning
  <2>2. QED
      BY <1>4, <2>1 DEF CheckRefuses
<1>5. CASE CheckPasses(p)
    BY <1>5 DEF CheckPasses
<1>6. CASE CreatePidFile(p)
    BY <1>6 DEF CreatePidFile
<1>7. CASE WritePid(p)
    BY <1>7 DEF WritePid
<1>8. CASE UnlinkSocket(p)
    BY <1>8 DEF UnlinkSocket, SocketUnlinked
<1>9. CASE Bind(p)
    BY <1>9 DEF Bind, FilesTellDaemon
<1>10. QED
    BY <1>1, <1>2, <1>3, <1>4, <1>5, <1>6, <1>7, <1>8, <1>9 DEF StartStep

LEMMA KillsStep ==
  ASSUME PlainTypes, FilesTellDaemon, LeftByKills, [DaemonNext]_daemonVars
  PROVE  LeftByKills'
<1> USE DaemonAssumption DEF PlainTypes, LeftByKills, Goes, Ends, serverVars, processVars,
            Launched, Starting, Loading, Serving
<1>1. ASSUME NEW p \in Pids, Accept(p) PROVE LeftByKills'
    BY <1>1 DEF Accept
<1>2. ASSUME NEW p \in Pids, HandleClient(p) PROVE LeftByKills'
  <2>1. /\ pc' = pc \/ pc' = [pc EXCEPT ![p] = "stopping"]
        /\ pc[p] = "listening"
        /\ UNCHANGED <<pidFile, socket, overlapped, reason, kills>>
      BY <1>2 DEF HandleClient
  <2>2. QED
      BY <2>1
<1>3. ASSUME NEW p \in Pids, CloseSocket(p) PROVE LeftByKills'
    BY <1>3 DEF CloseSocket
<1>4. ASSUME NEW p \in Pids, Cleanup(p) PROVE LeftByKills'
    BY <1>4 DEF Cleanup
<1>5. ASSUME NEW p \in Pids, Exit(p) PROVE LeftByKills'
    BY <1>5 DEF Exit
<1>6. ASSUME NEW p \in Pids, Kill(p) PROVE LeftByKills'
    BY <1>6 DEF Kill
<1>7. ASSUME NEW p \in Pids, OtherProgram(p) PROVE LeftByKills'
    BY <1>7 DEF OtherProgram
<1>8. ASSUME NEW c \in Clients, Connect(c) \/ SendOrGo(c) PROVE LeftByKills'
    BY <1>8 DEF Connect, SendOrGo
<1>9. CASE UNCHANGED daemonVars
    BY <1>9 DEF daemonVars
<1>10. QED
    BY <1>1, <1>2, <1>3, <1>4, <1>5, <1>6, <1>7, <1>8, <1>9, KillsStartStep
       DEF DaemonNext, ServeStep

-----------------------------------------------------------------------------
(* How far the hashes are loaded.                                          *)

LEMMA LoadedStep ==
  ASSUME PlainTypes, HashesLoaded, [DaemonNext]_daemonVars
  PROVE  HashesLoaded'
<1> USE DEF PlainTypes, HashesLoaded, Goes, Ends, hashVars, processVars,
            Launched, Starting, Loading, Serving
<1>1. ASSUME NEW p \in Pids, Start(p) PROVE HashesLoaded'
    BY <1>1 DEF Start
<1>2. ASSUME NEW p \in Pids, InsertHash(p) PROVE HashesLoaded'
  <2> DEFINE h == line[p] + 1
  <2>1. /\ line' = [line EXCEPT ![p] = h] /\ pc' = pc /\ pc[p] = "inserting"
        /\ \/ unknown' = unknown /\ table' = table \cup {h}
           \/ unknown' = [unknown EXCEPT ![p] = unknown[p] \cup {h}] /\ table' = table
      BY <1>2 DEF InsertHash, AfterFailure
  <2>2. line[p] \in Nat /\ 1 .. h = (1 .. line[p]) \cup {h}
      BY DaemonAssumption
  <2>3. 1 .. h \subseteq table' \cup unknown'[p]
      BY <2>1, <2>2
  <2>4. \A q \in Pids : q # p => line'[q] = line[q] /\ unknown'[q] = unknown[q]
      BY <2>1
  <2>5. QED
      BY <2>1, <2>3, <2>4
<1>3. ASSUME NEW p \in Pids, EndInitHashDB(p) PROVE HashesLoaded'
    BY <1>3 DEF EndInitHashDB
<1>4. ASSUME NEW p \in Pids,
             CheckRefuses(p) \/ CheckPasses(p) \/ CreatePidFile(p) \/ WritePid(p)
               \/ UnlinkSocket(p) \/ Bind(p) \/ ServeStep(p) \/ Cleanup(p) \/ Exit(p)
               \/ Kill(p) \/ OtherProgram(p)
      PROVE  HashesLoaded'
  <2>1. /\ UNCHANGED <<line, table, unknown>>
        /\ \A q \in Pids : pc'[q] \in Launched \cup {"checking"} =>
                             pc[q] \in Launched \cup {"checking"}
    <3>1. CASE HandleClient(p)
        BY <3>1 DEF HandleClient
    <3>2. CASE Accept(p) \/ CloseSocket(p)
        BY <3>2 DEF Accept, CloseSocket
    <3>3. CASE CheckRefuses(p) \/ CheckPasses(p) \/ CreatePidFile(p) \/ WritePid(p)
        BY <3>3 DEF CheckRefuses, CheckPasses, CreatePidFile, WritePid
    <3>4. CASE UnlinkSocket(p) \/ Bind(p)
        BY <3>4 DEF UnlinkSocket, Bind
    <3>5. CASE Cleanup(p) \/ Exit(p) \/ Kill(p) \/ OtherProgram(p)
        BY <3>5 DEF Cleanup, Exit, Kill, OtherProgram
    <3>6. QED
        BY <1>4, <3>1, <3>2, <3>3, <3>4, <3>5 DEF ServeStep
  <2>2. QED
      BY <2>1
<1>5. ASSUME NEW c \in Clients, Connect(c) \/ SendOrGo(c) PROVE HashesLoaded'
    BY <1>5 DEF Connect, SendOrGo
<1>6. CASE UNCHANGED daemonVars
    BY <1>6 DEF daemonVars
<1>7. QED
    BY <1>1, <1>2, <1>3, <1>4, <1>5, <1>6 DEF DaemonNext, StartStep

-----------------------------------------------------------------------------
LEMMA DaemonIInvStep == DaemonIInv /\ [DaemonNext]_daemonVars => DaemonIInv'
<1> SUFFICES ASSUME DaemonIInv, [DaemonNext]_daemonVars PROVE DaemonIInv'
    OBVIOUS
<1>1. PlainTypes /\ EmptyHands /\ HeldOnce
    BY TypeParts DEF DaemonIInv
<1>2. PlainTypes' /\ EmptyHands' /\ HeldOnce'
    BY <1>1, TypeStep, HeldStep
<1>3. FilesTellDaemon' /\ LeftByKills' /\ HashesLoaded'
    BY <1>1, FilesStep, KillsStep, LoadedStep DEF DaemonIInv
<1>4. QED
    BY <1>2, <1>3, TypePartsPrimed DEF DaemonIInv

LEMMA DaemonIInvKept == DaemonSpec => []DaemonIInv
<1>1. QED
    BY DaemonInitIInv, DaemonIInvStep, PTL DEF DaemonSpec

(* The types of the server's state, of every process and every client; who *)
(* is served has been accepted and not yet told the end.                   *)
THEOREM DaemonTyped == DaemonSpec => []DaemonTypeOK
<1>1. DaemonIInv => DaemonTypeOK
    BY DEF DaemonIInv
<1>2. QED
    BY <1>1, DaemonIInvKept, PTL

(* Without overlapping starts there is one daemon, the PID file names it   *)
(* and the socket leads to it, however many were killed before and         *)
(* whichever programs have got their PIDs.                                 *)
THEOREM DaemonSingle == DaemonSpec => []OneDaemon
<1>1. DaemonIInv => OneDaemon
    BY DEF DaemonIInv, FilesTellDaemon, InPidFile, OneDaemon
<1>2. QED
    BY <1>1, DaemonIInvKept, PTL

(* A daemon that listens knows the hashes it could insert; a start fails   *)
(* without a daemon only after a kill, and at the socket only if it        *)
(* overlapped with another.                                                *)
THEOREM StartsServed == DaemonSpec => []StartsServe
<1>1. DaemonIInv => StartsServe
  <2>1. DOMAIN Hashes = 1 .. Len(Hashes)
      BY DaemonAssumption
  <2>2. QED
      BY <2>1 DEF DaemonIInv, HashesLoaded, LeftByKills, StartsServe, Launched,
                  Starting, Loading, Serving
<1>2. QED
    BY <1>1, DaemonIInvKept, PTL
=============================================================================
