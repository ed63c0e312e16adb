------------------------------- MODULE RpcCall -------------------------------
(***************************************************************************)
(* One RPC from its caller to the file it writes: requestOverIpc() of the  *)
(* client, handleHttpRequest() of the daemon, and a connection between     *)
(* them that either side can lose.                                         *)
(*                                                                         *)
(* A call is an attempt at a task; callers may attempt a task again, also  *)
(* while the daemon is still at work on an attempt its client has given    *)
(* up.  The mutation itself is one step: FileMutation shows that of a      *)
(* daemon that is its only writer, and that a mutation which is reported   *)
(* as failed has not touched its target.                                   *)
(***************************************************************************)
EXTENDS Naturals, Sequences

CONSTANTS
    Calls,          \* calls of the client, each with a deadline
    Tasks,          \* writes somebody wants; also the contents they write
    Signalled,      \* the calls made with an AbortSignal
    Original,       \* what the file contains at first
    Expected,       \* the content a task wants to replace
    Unconditional,  \* expectation: none given
    MaxDeaths,      \* bound: deaths of the daemon
    MaxOverwrites   \* bound: changes by other programs

ASSUME TaskAssumption ==
    /\ Signalled \subseteq Calls
    /\ {Original, Unconditional} \cap Tasks = {} /\ Original # Unconditional
    /\ Expected \in [Tasks -> Tasks \cup {Original, Unconditional}]
    /\ \A t \in Tasks : Expected[t] # t
    /\ Calls \cap (Tasks \cup {Original}) = {}

ASSUME BoundAssumption == MaxDeaths \in Nat /\ MaxOverwrites \in Nat

VARIABLES
    task,      \* what a call attempts; before it is made, Original
    stage,     \* the client's side of a call
    aborted,   \* what has aborted a call's controller: its deadline, its caller
    outcome,   \* what a settled call has resolved or been rejected with
    expired,   \* the calls whose deadlineUnixMs has passed
    server,    \* the daemon's side of a call
    reply,     \* the body of the response
    running,   \* 1 while the daemon listens, else 0
    content,   \* what the file contains
    written,   \* history: who wrote it, in their order; a content stands for
               \* another program that wrote it
    deaths, overwrites   \* bounds

clientVars == <<task, stage, aborted, outcome>>
daemonVars == <<server, reply>>
processVars == <<running, deaths>>
fileVars == <<content, written, overwrites>>
vars == <<clientVars, daemonVars, processVars, fileVars, expired>>

Contents == Tasks \cup {Original}
Refusals == {"CONFLICT", "FAILED"}
Replies == {"ok", "TIMEOUT"} \cup Refusals
Outcomes == Replies \cup {"CANCELLED", "CORE_UNAVAILABLE", "TRANSPORT_FAILURE"}
Pending == {"waiting", "receiving"}

TypeOK ==
    /\ task \in [Calls -> Contents]
    /\ stage \in [Calls -> {"idle", "settled"} \cup Pending]
    /\ aborted \in [Calls -> SUBSET {"deadline", "caller"}]
    /\ outcome \in [Calls -> Outcomes \cup {"none"}]
    /\ \A c \in Calls : stage[c] = "settled" <=> outcome[c] # "none"
    /\ expired \in SUBSET Calls
    /\ server \in [Calls -> {"none", "sent", "working", "replied", "gone"}]
    /\ reply \in [Calls -> Replies \cup {"none"}]
    /\ running \in {0, 1}
    /\ content \in Contents
    /\ written \in Seq(Calls \cup Contents)
    /\ deaths \in 0 .. MaxDeaths /\ overwrites \in 0 .. MaxOverwrites

Init ==
    /\ task = [c \in Calls |-> Original]
    /\ stage = [c \in Calls |-> "idle"]
    /\ aborted = [c \in Calls |-> {}]
    /\ outcome = [c \in Calls |-> "none"]
    /\ expired = {}
    /\ server = [c \in Calls |-> "none"]
    /\ reply = [c \in Calls |-> "none"]
    /\ running = 1
    /\ content = Original
    /\ written = <<>>
    /\ deaths = 0 /\ overwrites = 0

\* settleResolve(), settleReject() and cleanup(): the timer and the signal's
\* listener go, and nobody looks at the flags again.
Settle(c, code) ==
    /\ stage' = [stage EXCEPT ![c] = "settled"]
    /\ outcome' = [outcome EXCEPT ![c] = code]
    /\ aborted' = [aborted EXCEPT ![c] = {}]

-----------------------------------------------------------------------------
(* The client *)

\* call(): a deadline that has passed and a signal that is already aborted
\* end it before the transport.
Call(c, t) ==
    /\ stage[c] = "idle"
    /\ task' = [task EXCEPT ![c] = t]
    /\ \/ c \in expired /\ Settle(c, "TIMEOUT")
       \/ c \notin expired /\ c \in Signalled /\ Settle(c, "CANCELLED")
       \/ /\ c \notin expired
          /\ stage' = [stage EXCEPT ![c] = "waiting"]
          /\ UNCHANGED <<outcome, aborted>>
    /\ UNCHANGED <<expired, daemonVars, processVars, fileVars>>

\* The request reaches the daemon's socket.
Send(c) ==
    /\ stage[c] = "waiting" /\ aborted[c] = {}
    /\ server[c] = "none"
    /\ running = 1
    /\ server' = [server EXCEPT ![c] = "sent"]
    /\ UNCHANGED <<clientVars, expired, reply, processVars, fileVars>>

\* Mutant: the timer notes that the deadline has passed and aborts nothing.
TimerAbortsNothing(c) ==
    /\ stage[c] \in Pending /\ c \in expired
    /\ UNCHANGED vars

\* The deadline's timer aborts the controller.
TimerFires(c) ==
    /\ stage[c] \in Pending /\ c \in expired
    /\ aborted' = [aborted EXCEPT ![c] = @ \cup {"deadline"}]
    /\ UNCHANGED <<task, stage, outcome, expired, daemonVars, processVars, fileVars>>

\* onCallerAbort()
CallerAborts(c) ==
    /\ stage[c] \in Pending /\ c \in Signalled
    /\ aborted' = [aborted EXCEPT ![c] = @ \cup {"caller"}]
    /\ UNCHANGED <<task, stage, outcome, expired, daemonVars, processVars, fileVars>>

\* The response's head arrives; a request that was aborted has no socket.
ResponseBegins(c) ==
    /\ stage[c] = "waiting" /\ aborted[c] = {}
    /\ server[c] = "replied"
    /\ stage' = [stage EXCEPT ![c] = "receiving"]
    /\ UNCHANGED <<task, aborted, outcome, expired, daemonVars, processVars, fileVars>>

\* Mutant: any response that parses is taken for a result.
ResponseEndsUnchecked(c) ==
    /\ stage[c] = "receiving" /\ server[c] = "replied"
    /\ Settle(c, "ok")
    /\ UNCHANGED <<task, expired, daemonVars, processVars, fileVars>>

\* response.on('end'): the result, or the error the daemon reports.  It can
\* still come before the error of an abort that has already been asked for.
ResponseEnds(c) ==
    /\ stage[c] = "receiving" /\ server[c] = "replied"
    /\ Settle(c, reply[c])
    /\ UNCHANGED <<task, expired, daemonVars, processVars, fileVars>>

\* The connection is refused or reset.
Broken(c) == server[c] = "gone" \/ (server[c] = "none" /\ running = 0)

\* An error of the request: the flags are looked at first, the deadline before
\* the caller; then the errno may be one of those known.
RequestErrors(c) ==
    IF "deadline" \in aborted[c] THEN {"TIMEOUT"}
    ELSE IF "caller" \in aborted[c] THEN {"CANCELLED"}
    ELSE {"CORE_UNAVAILABLE", "TRANSPORT_FAILURE"}

\* An error of the response, for which nothing is looked at, can come first.
ErrorCodes(c) ==
    RequestErrors(c) \cup IF stage[c] = "receiving" THEN {"TRANSPORT_FAILURE"} ELSE {}

\* clientRequest.on('error') and response.on('error')
Error(c) ==
    /\ stage[c] \in Pending
    /\ aborted[c] # {} \/ Broken(c)
    /\ \E code \in ErrorCodes(c) : Settle(c, code)
    /\ UNCHANGED <<task, expired, daemonVars, processVars, fileVars>>

-----------------------------------------------------------------------------
(* The daemon *)

Respond(c, code) ==
    /\ server' = [server EXCEPT ![c] = "replied"]
    /\ reply' = [reply EXCEPT ![c] = code]

\* readRequestBody() has it all, also when the client has gone since; a
\* request whose deadline has passed is not dispatched.
Receive(c) ==
    /\ server[c] = "sent"
    /\ \/ c \in expired /\ Respond(c, "TIMEOUT")
       \/ /\ c \notin expired
          /\ server' = [server EXCEPT ![c] = "working"]
          /\ UNCHANGED reply
    /\ UNCHANGED <<clientVars, expired, processVars, fileVars>>

\* The client destroyed its socket before the body was read.
RequestAborted(c) ==
    /\ server[c] = "sent"
    /\ stage[c] = "settled" \/ aborted[c] # {}
    /\ server' = [server EXCEPT ![c] = "gone"]
    /\ UNCHANGED <<clientVars, expired, reply, processVars, fileVars>>

\* Mutant: the precondition of a task is not looked at.
WriteUnguarded(c) ==
    /\ server[c] = "working"
    /\ content' = task[c]
    /\ written' = Append(written, c)
    /\ Respond(c, "ok")
    /\ UNCHANGED <<clientVars, expired, processVars, overwrites>>

\* dispatchRpc(): the mutation is done if its precondition holds.
Write(c) ==
    /\ server[c] = "working"
    /\ Expected[task[c]] \in {content, Unconditional}
    /\ content' = task[c]
    /\ written' = Append(written, c)
    /\ Respond(c, "ok")
    /\ UNCHANGED <<clientVars, expired, processVars, overwrites>>

\* dispatchFilesystem(): the precondition fails, or the file system does.
Refuse(c) ==
    /\ server[c] = "working"
    /\ \/ Expected[task[c]] \notin {content, Unconditional} /\ Respond(c, "CONFLICT")
       \/ Respond(c, "FAILED")
    /\ UNCHANGED <<clientVars, expired, processVars, fileVars>>

\* The process dies: its handlers, connections and unread responses with it.
Die ==
    /\ running = 1 /\ deaths < MaxDeaths
    /\ running' = 0
    /\ deaths' = deaths + 1
    /\ server' = [c \in Calls |-> IF server[c] = "none" THEN "none" ELSE "gone"]
    /\ UNCHANGED <<clientVars, expired, reply, fileVars>>

\* Somebody starts it again at the same endpoint.
Restart ==
    /\ running = 0
    /\ running' = 1
    /\ UNCHANGED <<clientVars, expired, daemonVars, fileVars, deaths>>

-----------------------------------------------------------------------------

\* Another program, or a daemon's write that is not one of these calls.
Overwrite(x) ==
    /\ overwrites < MaxOverwrites
    /\ content' = x
    /\ written' = Append(written, x)
    /\ overwrites' = overwrites + 1
    /\ UNCHANGED <<clientVars, expired, daemonVars, processVars>>

\* The clock, which client and daemon share, passes a call's deadline while
\* somebody is going to compare the two.
DeadlinePasses(c) ==
    /\ c \notin expired
    /\ stage[c] # "settled" \/ server[c] = "sent"
    /\ expired' = expired \cup {c}
    /\ UNCHANGED <<clientVars, daemonVars, processVars, fileVars>>

Client(c) == \/ \E t \in Tasks : Call(c, t)
             \/ Send(c) \/ TimerFires(c) \/ CallerAborts(c)
             \/ ResponseBegins(c) \/ ResponseEnds(c) \/ Error(c)

Daemon(c) == Receive(c) \/ RequestAborted(c) \/ Write(c) \/ Refuse(c)

Next == \/ \E c \in Calls : Client(c) \/ Daemon(c) \/ DeadlinePasses(c)
        \/ \E x \in Contents : Overwrite(x)
        \/ Die \/ Restart

Spec == Init /\ [][Next]_vars

\* Time passes, timers fire and an aborted request emits its error.  Nothing
\* is asked of the daemon: it may be hung or gone.
FairSpec ==
    /\ Spec
    /\ \A c \in Calls : /\ WF_vars(DeadlinePasses(c))
                        /\ WF_vars(TimerFires(c))
                        /\ WF_vars(Error(c))

-----------------------------------------------------------------------------

Wrote(c) == \E i \in DOMAIN written : written[i] = c

ContentOf(w) == IF w \in Calls THEN task[w] ELSE w

\* A caller that is given a result has had its write done, and one that is
\* given a refusal of the daemon has not and will not, whatever deadlines,
\* cancellations and deaths came in between (local-rpc 145-160, daemon
\* 281-306).  Only the other outcomes leave the caller in doubt.
AnswersAreTrue ==
    \A c \in Calls : /\ outcome[c] = "ok" => Wrote(c)
                     /\ outcome[c] \in Refusals => ~Wrote(c)

\* A task with a precondition that is attempted again, after a timeout, a
\* cancellation or the daemon's death, or while the first attempt is still
\* at work, is done a second time only after somebody wrote back the content
\* it replaces (daemon 281-306, filesystem 963-1011).
RepeatNeedsRewrite ==
    \A i, j \in DOMAIN written :
        /\ i < j /\ written[i] \in Calls /\ written[j] \in Calls
        /\ task[written[i]] = task[written[j]]
        /\ Expected[task[written[j]]] # Unconditional
        => \E k \in i + 1 .. j - 1 :
              ContentOf(written[k]) = Expected[task[written[j]]]

\* Every call settles, also when the daemon hangs, dies or never starts:
\* its deadline ends it (local-rpc 93-125).
EveryCallSettles == \A c \in Calls : stage[c] = "waiting" ~> stage[c] = "settled"
=============================================================================
