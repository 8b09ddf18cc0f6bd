------------------------------ MODULE MCDaemon ------------------------------
(* Two PIDs, two clients, two hashes: enough for a daemon and a start that *)
(* overlaps with it, the PID of a dead one given to another program or to  *)
(* the next start, and a client that waits behind another.                 *)
EXTENDS Daemon

CONSTANTS h1, h2
TwoHashes == <<h1, h2>>
=============================================================================
