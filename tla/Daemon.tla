------------------------------- MODULE Daemon -------------------------------
(***************************************************************************)
(* The life of the server process (main, ServerDaemon, DaemonUtils), which *)
(* a PID file is to keep single, its command socket (CommandReceiver), and *)
(* the clients (cli/main).  A start loads the hashes (DBManager), looks at *)
(* the PID file, writes it, takes over the path of the socket and serves   *)
(* one client after the other until one of them says stop; when all its    *)
(* threads have ended it removes the PID file.  Processes are killed, and  *)
(* PIDs are given to others.                                               *)
(*                                                                         *)
(* The main thread waits while the command thread serves, so one pc tells  *)
(* where a process is.  What the other threads do is in other modules.     *)
(***************************************************************************)
EXTENDS Naturals, Sequences, FiniteSets

CONSTANTS
  Pids, Clients,
  Hashes,    \* lines of the file of hashes, in order
  Backlog,   \* connections that may wait to be accepted: listen's 1, and one
  MaxStarts, MaxKills, MaxFailures, \* bounds
  NoFile, Empty, NoSocket, NoClient

ASSUME DaemonAssumption ==
  /\ {NoFile, Empty, NoSocket} \cap Pids = {} /\ NoFile # Empty /\ NoClient \notin Clients
  /\ Backlog \in Nat \ {0} /\ Hashes \in Seq({Hashes[i] : i \in DOMAIN Hashes})
ASSUME DaemonBoundsAssumption ==
  MaxStarts \in Nat /\ MaxKills \in Nat /\ MaxFailures \in Nat

VARIABLES
  pc,         \* what the process with a PID does
  reason,     \* why the last daemon with a PID ended
  line,       \* hashes inserted by a start
  table,      \* hashes the table has a row of
  unknown,    \* hashes a start could not insert
  pidFile,    \* contents of the PID file
  writers,    \* processes that have opened the present PID file to write it
  socket,     \* process the path of the socket leads to
  queue,      \* connections not yet accepted
  serving,    \* client being served
  client,     \* state of each client
  command,    \* what it has to say
  overlapped, \* two starts have both found no daemon
  starts, kills, failures

processVars == <<pc, reason, pidFile, writers, overlapped, starts, kills>>
hashVars    == <<line, table, unknown, failures>>
serverVars  == <<socket, queue, serving>>
clientVars  == <<client, command>>
daemonVars  == <<processVars, hashVars, serverVars, clientVars>>

Loading  == {"inserting", "checking"}
Serving  == {"listening", "stopping"}
Starting == Loading \cup {"launching", "created", "unlinking", "binding"}
Launched == (Starting \ Loading) \cup Serving \cup {"closed"}
DaemonAt == Loading \cup Launched \cup {"leaving"}

DaemonTypeOK ==
  /\ pc \in [Pids -> {"none", "other"} \cup DaemonAt]
  /\ reason \in [Pids -> {"none", "refused", "mistaken", "bind", "killed", "stopped"}]
  /\ line \in [Pids -> 0 .. Len(Hashes)]
  /\ table \subseteq 1 .. Len(Hashes)
  /\ unknown \in [Pids -> SUBSET (1 .. Len(Hashes))]
  /\ pidFile \in Pids \cup {NoFile, Empty} /\ writers \subseteq Pids
  /\ socket \in Pids \cup {NoSocket}
  /\ queue \in [Pids -> Seq(Clients)] /\ serving \in [Pids -> Clients \cup {NoClient}]
  /\ \A p \in Pids : pc[p] \notin Serving => queue[p] = <<>> /\ serving[p] = NoClient
  /\ \A p \in Pids : serving[p] # NoClient =>
       client[serving[p]] \in {"connected", "sent", "gone"}
  /\ client \in [Clients -> {"idle", "connected", "sent", "gone", "answered",
                             "refused", "dropped"}]
  /\ command \in [Clients -> {"stop", "other"}]
  /\ overlapped \in BOOLEAN
  /\ starts \in 0 .. MaxStarts /\ kills \in 0 .. MaxKills /\ failures \in 0 .. MaxFailures

DaemonInit ==
  /\ pc = [p \in Pids |-> "none"] /\ reason = [p \in Pids |-> "none"]
  /\ line = [p \in Pids |-> 0] /\ unknown = [p \in Pids |-> {}]
  /\ table = {}
  /\ pidFile = NoFile /\ writers = {} /\ socket = NoSocket
  /\ queue = [p \in Pids |-> <<>>] /\ serving = [p \in Pids |-> NoClient]
  /\ client = [c \in Clients |-> "idle"] /\ command \in [Clients -> {"stop", "other"}]
  /\ overlapped = FALSE /\ starts = 0 /\ kills = 0 /\ failures = 0

Goes(p, to) == pc' = [pc EXCEPT ![p] = to]
Ends(p, why) == Goes(p, "none") /\ reason' = [reason EXCEPT ![p] = why]

-----------------------------------------------------------------------------
(* Starting: the hashes.                                                   *)

Start(p) ==
  /\ pc[p] = "none" /\ starts < MaxStarts
  /\ starts' = starts + 1 /\ Goes(p, "inserting")
  /\ reason' = [reason EXCEPT ![p] = "none"]
  /\ line' = [line EXCEPT ![p] = 0] /\ unknown' = [unknown EXCEPT ![p] = {}]
  /\ UNCHANGED <<pidFile, writers, overlapped, kills, table, failures,
                 serverVars, clientVars>>

(* Mutant: an insert that fails ends the loading.                          *)
AfterFailureEnd(p) == Len(Hashes)

AfterFailure(p) == line[p] + 1

(* InitHashDB inserts every line of the file, also what is there already,  *)
(* which no key forbids; an insert that fails is passed over.              *)
InsertHash(p) ==
  /\ pc[p] = "inserting" /\ line[p] < Len(Hashes)
  /\ LET h == line[p] + 1
     IN  \/ /\ table' = table \cup {h}
            /\ line' = [line EXCEPT ![p] = h]
            /\ UNCHANGED <<unknown, failures>>
         \/ /\ failures < MaxFailures /\ failures' = failures + 1
            /\ unknown' = [unknown EXCEPT ![p] = @ \cup {h}]
            /\ line' = [line EXCEPT ![p] = AfterFailure(p)]
            /\ UNCHANGED table
  /\ UNCHANGED <<processVars, serverVars, clientVars>>

EndInitHashDB(p) ==
  /\ pc[p] = "inserting" /\ line[p] = Len(Hashes) /\ Goes(p, "checking")
  /\ UNCHANGED <<reason, pidFile, writers, overlapped, starts, kills,
                 hashVars, serverVars, clientVars>>

-----------------------------------------------------------------------------
(* Starting: the PID file.                                                 *)

(* Mutant: a daemon that serves no more counts as gone.                    *)
IsDaemonRunningServing(p) ==
  pidFile \in Pids /\ pc[pidFile] \in {"unlinking", "binding", "listening"}

(* A process with the PID in the file exists, whichever it is: also the    *)
(* asking one.                                                             *)
IsDaemonRunning(p) == pidFile \in Pids /\ pc[pidFile] # "none"

(* The test: an empty file leaves the PID that is tested uninitialised.    *)
CheckRefuses(p) ==
  /\ pc[p] = "checking" /\ (IsDaemonRunning(p) \/ pidFile = Empty)
  /\ Ends(p, IF \E q \in Pids \ {p} : pc[q] \in Launched THEN "refused" ELSE "mistaken")
  /\ UNCHANGED <<pidFile, writers, overlapped, starts, kills, hashVars,
                 serverVars, clientVars>>

CheckPasses(p) ==
  /\ pc[p] = "checking" /\ ~IsDaemonRunning(p) /\ Goes(p, "launching")
  /\ overlapped' = (overlapped \/ \E q \in Pids : pc[q] \in {"launching", "created"})
  /\ UNCHANGED <<reason, pidFile, writers, starts, kills, hashVars, serverVars, clientVars>>

(* Opening the file for writing empties it; the PID comes after.           *)
CreatePidFile(p) ==
  /\ pc[p] = "launching" /\ Goes(p, "created")
  /\ pidFile' = Empty /\ writers' = writers \cup {p}
  /\ UNCHANGED <<reason, overlapped, starts, kills, hashVars, serverVars, clientVars>>

(* To a file that was removed meanwhile it is written in vain.             *)
WritePid(p) ==
  /\ pc[p] = "created" /\ Goes(p, "unlinking")
  /\ pidFile' = IF p \in writers THEN p ELSE pidFile
  /\ writers' = writers \ {p}
  /\ UNCHANGED <<reason, overlapped, starts, kills, hashVars, serverVars, clientVars>>

-----------------------------------------------------------------------------
(* The command thread.                                                     *)

(* Mutant: the old socket stays.                                           *)
SocketUnlinkedNot == socket

SocketUnlinked == NoSocket

UnlinkSocket(p) ==
  /\ pc[p] = "unlinking" /\ Goes(p, "binding") /\ socket' = SocketUnlinked
  /\ UNCHANGED <<reason, pidFile, writers, overlapped, starts, kills, hashVars,
                 queue, serving, clientVars>>

(* A path that is there again makes bind fail and the process exit.        *)
Bind(p) ==
  /\ pc[p] = "binding"
  /\ IF socket = NoSocket
       THEN Goes(p, "listening") /\ socket' = p /\ UNCHANGED reason
       ELSE Ends(p, "bind") /\ UNCHANGED socket
  /\ UNCHANGED <<pidFile, writers, overlapped, starts, kills, hashVars,
                 queue, serving, clientVars>>

Accept(p) ==
  /\ pc[p] = "listening" /\ serving[p] = NoClient /\ queue[p] # <<>>
  /\ serving' = [serving EXCEPT ![p] = Head(queue[p])]
  /\ queue' = [queue EXCEPT ![p] = Tail(@)]
  /\ UNCHANGED <<processVars, hashVars, socket, clientVars>>

(* Mutant: the client is not let go.                                       *)
ReleaseNot(p) == serving' = serving

Release(p) == serving' = [serving EXCEPT ![p] = NoClient]

(* recv returns, with the client's command or, when it has gone, nothing:  *)
(* the command is run to its end and answered, or the loop is left.        *)
HandleClient(p) ==
  LET c == serving[p]
  IN  /\ pc[p] = "listening" /\ c # NoClient /\ client[c] \in {"sent", "gone"}
      /\ Release(p)
      /\ IF client[c] = "gone" THEN UNCHANGED <<pc, client>>
         ELSE /\ client' = [client EXCEPT ![c] = "answered"]
              /\ IF command[c] = "stop" THEN Goes(p, "stopping") ELSE UNCHANGED pc
      /\ UNCHANGED <<reason, pidFile, writers, overlapped, starts, kills,
                     hashVars, socket, queue, command>>

(* Connections of a process that have not been answered break.             *)
Broken(p) ==
  {c \in Clients : /\ serving[p] = c \/ \E i \in DOMAIN queue[p] : queue[p][i] = c
                   /\ client[c] \in {"connected", "sent"}}
BreakConnections(p) ==
  /\ client' = [c \in Clients |-> IF c \in Broken(p) THEN "dropped" ELSE client[c]]
  /\ queue' = [queue EXCEPT ![p] = <<>>]
  /\ serving' = [serving EXCEPT ![p] = NoClient]

(* The socket is closed and its path removed, whose socket it may be.      *)
CloseSocket(p) ==
  /\ pc[p] = "stopping" /\ Goes(p, "closed") /\ BreakConnections(p)
  /\ socket' = NoSocket
  /\ UNCHANGED <<reason, pidFile, writers, overlapped, starts, kills, hashVars, command>>

-----------------------------------------------------------------------------
(* Ending.                                                                 *)

(* The other threads have ended, which they need not: the PID file is      *)
(* removed, whose file it may be.                                          *)
Cleanup(p) ==
  /\ pc[p] = "closed" /\ Goes(p, "leaving")
  /\ pidFile' = NoFile /\ writers' = {}
  /\ UNCHANGED <<reason, overlapped, starts, kills, hashVars, serverVars, clientVars>>

Exit(p) ==
  /\ pc[p] = "leaving" /\ Ends(p, "stopped")
  /\ UNCHANGED <<pidFile, writers, overlapped, starts, kills, hashVars,
                 serverVars, clientVars>>

(* Killed, by a signal, an uncaught exception or with the system.          *)
Kill(p) ==
  /\ pc[p] \in DaemonAt /\ kills < MaxKills /\ kills' = kills + 1
  /\ Ends(p, "killed") /\ BreakConnections(p) /\ writers' = writers \ {p}
  /\ UNCHANGED <<pidFile, overlapped, starts, hashVars, socket, command>>

(* Another program gets the PID of a dead daemon, or ends.                 *)
OtherProgram(p) ==
  /\ \/ pc[p] = "none" /\ reason[p] # "none" /\ Goes(p, "other")
     \/ pc[p] = "other" /\ Goes(p, "none")
  /\ UNCHANGED <<reason, pidFile, writers, overlapped, starts, kills, hashVars,
                 serverVars, clientVars>>

-----------------------------------------------------------------------------
(* Clients.                                                                *)

Connect(c) ==
  /\ client[c] = "idle" /\ socket # NoSocket
  /\ IF pc[socket] \in Serving
       THEN /\ Len(queue[socket]) < Backlog
            /\ client' = [client EXCEPT ![c] = "connected"]
            /\ queue' = [queue EXCEPT ![socket] = Append(@, c)]
       ELSE client' = [client EXCEPT ![c] = "refused"] /\ UNCHANGED queue
  /\ UNCHANGED <<processVars, hashVars, socket, serving, command>>

(* A client sends its command, or goes because of an error in its options. *)
SendOrGo(c) ==
  /\ client[c] = "connected"
  /\ \E s \in {"sent", "gone"} : client' = [client EXCEPT ![c] = s]
  /\ UNCHANGED <<processVars, hashVars, serverVars, command>>

-----------------------------------------------------------------------------
StartStep(p) ==
  InsertHash(p) \/ EndInitHashDB(p) \/ CheckRefuses(p) \/ CheckPasses(p)
    \/ CreatePidFile(p) \/ WritePid(p) \/ UnlinkSocket(p) \/ Bind(p)
ServeStep(p) == Accept(p) \/ HandleClient(p) \/ CloseSocket(p)

DaemonNext ==
  \/ \E p \in Pids : Start(p) \/ StartStep(p) \/ ServeStep(p)
                       \/ Cleanup(p) \/ Exit(p) \/ Kill(p) \/ OtherProgram(p)
  \/ \E c \in Clients : Connect(c) \/ SendOrGo(c)

DaemonSpec ==
  /\ DaemonInit /\ [][DaemonNext]_daemonVars
  /\ \A p \in Pids : WF_daemonVars(StartStep(p)) /\ WF_daemonVars(ServeStep(p))
  /\ \A c \in Clients : WF_daemonVars(SendOrGo(c))

-----------------------------------------------------------------------------
(* Correctness.                                                            *)

(* Unless two starts have both found no daemon, before either had written  *)
(* its PID, there is at most one daemon, whatever was killed before and    *)
(* left its files; the PID file names it from when it is written until all *)
(* its threads have ended, and while it serves the socket leads to it.     *)
OneDaemon ==
  ~overlapped =>
    /\ \A p, q \in Pids : pc[p] \in Launched /\ pc[q] \in Launched => p = q
    /\ \A p \in Pids :
         /\ pc[p] \in Launched \ {"launching", "created"} => pidFile = p
         /\ pc[p] \in Serving => socket = p

(* A start that is not killed leads to a daemon that serves and knows      *)
(* every hash but those it could not insert itself, unless another daemon  *)
(* runs: only after something was killed can the PID file keep it off      *)
(* although none does, and only an overlapping start can take the path of  *)
(* the socket from it.                                                     *)
StartsServe ==
  \A p \in Pids :
    /\ pc[p] = "listening" => DOMAIN Hashes \subseteq table \cup unknown[p]
    /\ reason[p] = "mistaken" => kills > 0
    /\ reason[p] = "bind" => overlapped

(* No start hangs, and whoever has connected is answered in the end, also  *)
(* behind clients that go without a word, as long as clients send or go    *)
(* and commands end; or the connection breaks.                             *)
NothingHangs ==
  []<>(/\ \A p \in Pids : pc[p] \notin Starting
       /\ \A c \in Clients : client[c] \notin {"connected", "sent"})
=============================================================================
