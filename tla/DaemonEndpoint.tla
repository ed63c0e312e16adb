---------------------------- MODULE DaemonEndpoint ----------------------------
(***************************************************************************)
(* startDaemon() and close(): how daemon processes take, share and leave   *)
(* the one Unix socket path that their clients connect to.                 *)
(*                                                                         *)
(* A start looks at the path, probes a socket it finds there, unlinks a    *)
(* stale one, opens the database, and listens; every one of these awaits   *)
(* is a step, and several processes may be starting at once.  A process    *)
(* that dies leaves its socket behind.  On Windows the path is a pipe name *)
(* that is neither probed nor unlinked; that platform is not modelled.     *)
(***************************************************************************)
CONSTANTS
    Daemons,     \* calls of startDaemon(), each in a process of its own
    Clients,     \* clients of the local RPC
    Nothing,     \* the path does not exist
    PlainFile,   \* the path is something that is not a socket
    Mortal       \* bound: the daemons that may die

ASSUME MortalAssumption == Mortal \subseteq Daemons
ASSUME PathAssumption ==
    Nothing # PlainFile /\ {Nothing, PlainFile} \cap Daemons = {}

VARIABLES
    path,        \* what the path names: Nothing, PlainFile or a daemon's socket
    proc,        \* how far a daemon is
    serving,     \* per client, the daemon its request is being handled by
    connected,   \* the clients that have a connection
    overlapped   \* history: per daemon, who began to listen while it started

vars == <<path, proc, serving, connected, overlapped>>

Starting == {"looking", "probing", "unlinking", "opening", "binding"}
Ended == {"refused", "address-in-use", "failed", "closed", "dead"}
Stages == {"off", "listening", "closing"} \cup Starting \cup Ended

TypeOK ==
    /\ path \in Daemons \cup {Nothing, PlainFile}
    /\ proc \in [Daemons -> Stages]
    /\ serving \in [Clients -> Daemons \cup {Nothing}]
    /\ connected \in SUBSET Clients
    /\ overlapped \in [Daemons -> SUBSET Daemons]

Init ==
    /\ path \in {Nothing, PlainFile}
    /\ proc = [d \in Daemons |-> "off"]
    /\ serving = [c \in Clients |-> Nothing]
    /\ connected = {}
    /\ overlapped = [d \in Daemons |-> {}]

\* A connection to the path is accepted.
Active == path \in Daemons /\ proc[path] = "listening"

Move(d, stage) == proc' = [proc EXCEPT ![d] = stage]

-----------------------------------------------------------------------------
(* startDaemon() *)

Start(d) ==
    /\ proc[d] = "off"
    /\ Move(d, "looking")
    /\ UNCHANGED <<path, serving, connected, overlapped>>

\* Mutant: a socket that exists is not looked into.
LstatSkipsSocket(d) ==
    /\ proc[d] = "looking"
    /\ \/ path # PlainFile /\ Move(d, "opening")
       \/ path = PlainFile /\ Move(d, "failed")
    /\ UNCHANGED <<path, serving, connected, overlapped>>

\* lstat(): no path, a foreign file (IPC_PATH_OCCUPIED), or a socket.
Lstat(d) ==
    /\ proc[d] = "looking"
    /\ \/ path = Nothing /\ Move(d, "opening")
       \/ path = PlainFile /\ Move(d, "failed")
       \/ path \in Daemons /\ Move(d, "probing")
    /\ UNCHANGED <<path, serving, connected, overlapped>>

\* Mutant: a socket is unlinked without asking whether anybody listens.
ProbeNever(d) ==
    /\ proc[d] = "probing"
    /\ Move(d, "unlinking")
    /\ UNCHANGED <<path, serving, connected, overlapped>>

\* Mutant: ENOENT, a socket removed since lstat(), does not settle the probe.
ProbeIgnoresEnoent(d) ==
    /\ proc[d] = "probing"
    /\ \/ Active /\ (Move(d, "refused") \/ Move(d, "failed"))
       \/ ~Active /\ path # Nothing /\ Move(d, "unlinking")
    /\ UNCHANGED <<path, serving, connected, overlapped>>

\* isUnixSocketActive(): somebody accepts (IPC_ENDPOINT_IN_USE) or does not
\* answer within 500 ms (IPC_PROBE_TIMEOUT); ECONNREFUSED and ENOENT mean
\* that the socket is stale.
Probe(d) ==
    /\ proc[d] = "probing"
    /\ \/ Active /\ (Move(d, "refused") \/ Move(d, "failed"))
       \/ ~Active /\ Move(d, "unlinking")
    /\ UNCHANGED <<path, serving, connected, overlapped>>

\* unlink(): the path goes, whatever it names by now; ENOENT is ignored.
Unlink(d) ==
    /\ proc[d] = "unlinking"
    /\ path' = Nothing
    /\ Move(d, "opening")
    /\ UNCHANGED <<serving, connected, overlapped>>

\* The database is opened, migrated, reconciled and checked.
OpenDatabase(d) ==
    /\ proc[d] = "opening"
    /\ Move(d, "binding") \/ Move(d, "failed")
    /\ UNCHANGED <<path, serving, connected, overlapped>>

\* listenOnIpc(): bind() creates the socket; if the path exists it fails
\* with EADDRINUSE, and the database is closed again.
Listen(d) ==
    /\ proc[d] = "binding"
    /\ \/ /\ path = Nothing
          /\ Move(d, "listening")
          /\ path' = d
          /\ overlapped' = [e \in Daemons |-> IF e # d /\ proc[e] \in Starting
                                              THEN overlapped[e] \cup {d}
                                              ELSE overlapped[e]]
       \/ /\ path # Nothing
          /\ Move(d, "address-in-use")
          /\ UNCHANGED <<path, overlapped>>
    /\ UNCHANGED <<serving, connected>>

-----------------------------------------------------------------------------
(* Serving and leaving *)

\* A client connects to the path and its request is dispatched.
Request(c) ==
    /\ serving[c] = Nothing
    /\ Active
    /\ serving' = [serving EXCEPT ![c] = path]
    /\ connected' = connected \cup {c}
    /\ UNCHANGED <<path, proc, overlapped>>

\* The client's deadline passes or it cancels: it destroys the connection,
\* and the handler goes on without it.
Disconnect(c) ==
    /\ c \in connected
    /\ connected' = connected \ {c}
    /\ UNCHANGED <<path, proc, serving, overlapped>>

\* The handler ends; its response, if anybody is there, ends the connection.
Respond(c) ==
    /\ serving[c] # Nothing
    /\ serving' = [serving EXCEPT ![c] = Nothing]
    /\ connected' = connected \ {c}
    /\ UNCHANGED <<path, proc, overlapped>>

\* close(): server.close() stops accepting, and the handle it closes removes
\* the path it was bound to, whoever's socket that is by now.
Close(d) ==
    /\ proc[d] = "listening"
    /\ path' = Nothing
    /\ Move(d, "closing")
    /\ UNCHANGED <<serving, connected, overlapped>>

\* Mutant: the database is closed without waiting for the connections.
FinishCloseAtOnce(d) ==
    /\ proc[d] = "closing"
    /\ Move(d, "closed")
    /\ UNCHANGED <<path, serving, connected, overlapped>>

\* The callback of server.close() comes when the last connection is gone;
\* then the database is closed.
FinishClose(d) ==
    /\ proc[d] = "closing"
    /\ \A c \in connected : serving[c] # d
    /\ Move(d, "closed")
    /\ UNCHANGED <<path, serving, connected, overlapped>>

\* The process is killed; its connections are reset, its socket stays.
Die(d) ==
    /\ d \in Mortal
    /\ proc[d] \notin Ended \cup {"off"}
    /\ Move(d, "dead")
    /\ serving' = [c \in Clients |-> IF serving[c] = d THEN Nothing ELSE serving[c]]
    /\ connected' = {c \in connected : serving[c] # d}
    /\ UNCHANGED <<path, overlapped>>

\* A step the daemon takes by itself once it has been started or closed.
Progress(d) == \/ Lstat(d) \/ Probe(d) \/ Unlink(d) \/ OpenDatabase(d) \/ Listen(d)
               \/ FinishClose(d)

Next ==
    \/ \E d \in Daemons : Start(d) \/ Progress(d) \/ Close(d) \/ Die(d)
    \/ \E c \in Clients : Request(c) \/ Disconnect(c) \/ Respond(c)

Spec == Init /\ [][Next]_vars

\* Awaited system calls return, the 500 ms timer included, and every request
\* is answered.
FairSpec == /\ Spec
            /\ \A d \in Daemons : WF_vars(Progress(d))
            /\ \A c \in Clients : WF_vars(Respond(c))

-----------------------------------------------------------------------------

\* The path belongs to the daemon that listens on it, until it closes: no
\* other daemon steals an active endpoint (prepareIpcEndpoint 128-167).
NeverStolen == \A d \in Daemons : proc[d] = "listening" => path = d

\* A listening daemon loses its path only to a start that was already under
\* way when it began to listen, or to the close of another daemon that was
\* listening too: a start that begins later always finds the endpoint in
\* use (128-167, 103).
TakenOnlyByOverlap ==
    [][\A d \in Daemons :
          proc[d] = "listening" /\ path = d /\ path' # d /\ proc'[d] = "listening" =>
             \E e \in Daemons \ {d} :
                \/ proc[e] \in Starting /\ proc'[e] # proc[e] /\ d \in overlapped[e]
                \/ proc[e] = "listening" /\ proc'[e] = "closing"]_vars

\* Only a daemon that died leaves a stale socket: a start that fails and a
\* close never do, and so never make the next start probe (103-125).
StaleOnlyAfterDeath ==
    path \in Daemons => proc[path] \in {"listening", "dead"}

\* A request whose client is still waiting for the answer is handled with
\* its daemon's database open: close() waits for the connections accepted
\* before it (111-117).  A handler whose client went away is not waited for.
ServedWithDatabase ==
    \A c \in connected : /\ serving[c] \in Daemons
                         /\ proc[serving[c]] \in {"listening", "closing"}

\* EADDRINUSE is told only to a start during which another daemon began to
\* listen; a start alone is never refused for what a dead daemon left
\* (128-167, 790-805).
InUseIsReal == \A d \in Daemons : proc[d] = "address-in-use" => overlapped[d] # {}

\* Every start comes to an end, and every close (47-126).
StartAndCloseEnd ==
    \A d \in Daemons :
        /\ proc[d] = "looking" ~> proc[d] \in {"listening"} \cup Ended
        /\ proc[d] = "closing" ~> proc[d] \in Ended
=============================================================================
