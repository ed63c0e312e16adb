--------------------------- MODULE RpcCall_proofs ----------------------------
(* Theorems of RpcCall, for any numbers of calls, tasks, deaths of the     *)
(* daemon and changes by other programs.                                   *)
EXTENDS RpcCall, TLAPS

Undone == {"none", "sent", "working"}

\* The daemon replies "ok" to exactly the calls that wrote, and to none
\* before it is done with it; what a caller is told is the reply.
ReplyInv ==
    \A c \in Calls :
        /\ Wrote(c) <=> reply[c] = "ok"
        /\ server[c] \in Undone => reply[c] = "none"
        /\ server[c] = "replied" => reply[c] # "none"
        /\ stage[c] = "idle" => server[c] = "none"
        /\ stage[c] # "idle" => task[c] \in Tasks
        /\ outcome[c] = "ok" => reply[c] = "ok"
        /\ outcome[c] \in Refusals => reply[c] = outcome[c]

\* The file contains what the last of its writers wrote.
ContentInv ==
    content = IF written = <<>> THEN Original ELSE ContentOf(written[Len(written)])

IInv == TypeOK /\ ReplyInv /\ ContentInv /\ RepeatNeedsRewrite

LEMMA InitIInv == Init => IInv
<1> SUFFICES ASSUME Init PROVE IInv
  OBVIOUS
<1>1. written = <<>> /\ DOMAIN written = {}
  BY DEF Init
<1>2. TypeOK
  BY BoundAssumption DEF Init, TypeOK, Contents, Outcomes, Replies, Refusals, Pending
<1>3. ReplyInv
  BY <1>1 DEF Init, ReplyInv, Wrote, Undone, Refusals
<1>4. ContentInv /\ RepeatNeedsRewrite
  BY <1>1 DEF Init, ContentInv, RepeatNeedsRewrite
<1> QED BY <1>2, <1>3, <1>4 DEF IInv

\* A step that leaves the file alone, and the tasks of the calls that wrote
\* it, keeps what is said of the file.
LEMMA FileKept ==
    ASSUME IInv, UNCHANGED fileVars,
           \A c \in Calls : Wrote(c) => task'[c] = task[c]
    PROVE  /\ ContentInv' /\ RepeatNeedsRewrite'
           /\ \A c \in Calls : Wrote(c)' <=> Wrote(c)
<1>1. content' = content /\ written' = written
  BY DEF fileVars
<1>2. \A i \in DOMAIN written : ContentOf(written[i])' = ContentOf(written[i])
  BY <1>1 DEF ContentOf, Wrote
<1>3. \A i \in DOMAIN written : written[i] \in Calls => task'[written[i]] = task[written[i]]
  BY DEF Wrote
<1>4. written \in Seq(Calls \cup Contents)
  BY DEF IInv, TypeOK
<1>5. ContentInv'
  <2>1. CASE written = <<>>
    BY <2>1, <1>1 DEF IInv, ContentInv
  <2>2. CASE written # <<>>
    <3>1. Len(written) \in DOMAIN written
      BY <2>2, <1>4
    <3> QED BY <2>2, <3>1, <1>1, <1>2 DEF IInv, ContentInv
  <2> QED BY <2>1, <2>2
<1>6. RepeatNeedsRewrite'
  <2> SUFFICES ASSUME NEW i \in DOMAIN written, NEW j \in DOMAIN written, i < j,
                      written[i] \in Calls, written[j] \in Calls,
                      task'[written[i]] = task'[written[j]],
                      Expected[task'[written[j]]] # Unconditional
               PROVE  \E k \in i + 1 .. j - 1 :
                         ContentOf(written[k])' = Expected[task'[written[j]]]
    BY <1>1 DEF RepeatNeedsRewrite
  <2>1. PICK k \in i + 1 .. j - 1 : ContentOf(written[k]) = Expected[task[written[j]]]
    BY <1>3 DEF IInv, RepeatNeedsRewrite
  <2>2. k \in DOMAIN written
    BY <1>4
  <2> QED BY <2>1, <2>2, <1>2, <1>3
<1>7. \A c \in Calls : Wrote(c)' <=> Wrote(c)
  BY <1>1 DEF Wrote
<1> QED BY <1>5, <1>6, <1>7

\* What appending a writer does to the history.
LEMMA Appended ==
    ASSUME IInv, NEW w \in Calls \cup Contents, written' = Append(written, w)
    PROVE  LET n == Len(written) IN
           /\ n \in Nat
           /\ DOMAIN written = 1 .. n /\ DOMAIN written' = 1 .. (n + 1)
           /\ Len(written') = n + 1 /\ written' # <<>>
           /\ written'[n + 1] = w
           /\ \A i \in 1 .. n : written'[i] = written[i]
           /\ written' \in Seq(Calls \cup Contents)
<1> written \in Seq(Calls \cup Contents)
  BY DEF IInv, TypeOK
<1> QED OBVIOUS

\* A writer whose precondition, if it is a call that has one, is the content
\* before it: whoever wrote the same content earlier has been overwritten.
LEMMA FileWritten ==
    ASSUME IInv, UNCHANGED task, NEW w \in Calls \cup Contents,
           written' = Append(written, w), content' = ContentOf(w),
           w \in Calls => /\ task[w] \in Tasks
                          /\ Expected[task[w]] \in {content, Unconditional}
    PROVE  ContentInv' /\ RepeatNeedsRewrite'
<1> DEFINE n == Len(written)
<1>1. /\ n \in Nat
      /\ DOMAIN written = 1 .. n /\ DOMAIN written' = 1 .. (n + 1)
      /\ Len(written') = n + 1 /\ written' # <<>>
      /\ written'[n + 1] = w
      /\ \A i \in 1 .. n : written'[i] = written[i]
  BY Appended
<1> HIDE DEF n
<1>2. \A x : ContentOf(x)' = ContentOf(x)
  BY DEF ContentOf
<1>3. ContentInv'
  BY <1>1, <1>2 DEF ContentInv
<1>4. RepeatNeedsRewrite'
  <2> SUFFICES ASSUME NEW i \in 1 .. (n + 1), NEW j \in 1 .. (n + 1), i < j,
                      written'[i] \in Calls, written'[j] \in Calls,
                      task[written'[i]] = task[written'[j]],
                      Expected[task[written'[j]]] # Unconditional
               PROVE  \E k \in i + 1 .. j - 1 :
                         ContentOf(written'[k]) = Expected[task[written'[j]]]
    BY <1>1, <1>2 DEF RepeatNeedsRewrite
  <2>1. i \in 1 .. n /\ written'[i] = written[i]
    BY <1>1
  <2>2. CASE j \in 1 .. n
    <3>1. PICK k \in i + 1 .. j - 1 : ContentOf(written[k]) = Expected[task[written[j]]]
      BY <2>1, <2>2, <1>1 DEF IInv, RepeatNeedsRewrite
    <3>2. k \in 1 .. n
      BY <1>1, <2>2
    <3> QED BY <3>1, <3>2, <2>2, <1>1
  <2>3. CASE j = n + 1
    <3>1. written'[j] = w /\ w \in Calls /\ task[w] \in Tasks
      BY <2>3, <1>1
    <3>2. Expected[task[w]] = content /\ content # task[w]
      BY <3>1, TaskAssumption
    <3>3. n \in 1 .. n /\ content = ContentOf(written[n])
      <4>1. n \in 1 .. n
        BY <2>1, <1>1
      <4>2. written # <<>>
        BY <4>1, <1>1
      <4> QED BY <4>1, <4>2 DEF IInv, ContentInv, n
    <3>4. ContentOf(written[i]) = task[w]
      BY <2>1, <3>1 DEF ContentOf
    <3>5. i # n /\ n \in i + 1 .. j - 1
      BY <3>2, <3>3, <3>4, <2>1, <2>3, <1>1
    <3> QED BY <3>1, <3>2, <3>3, <3>5, <1>1
  <2> QED BY <2>2, <2>3, <1>1
<1> QED BY <1>3, <1>4

\* Only a call that has not been sent gets a task, and no such call wrote.
LEMMA TasksKept ==
    ASSUME IInv, NEW c \in Calls, Client(c)
    PROVE  \A d \in Calls : Wrote(d) => task'[d] = task[d]
<1>1. CASE \E t \in Tasks : Call(c, t)
  <2>1. ~Wrote(c)
    BY <1>1 DEF Call, IInv, ReplyInv, Undone
  <2> QED BY <1>1, <2>1 DEF Call, IInv, TypeOK
<1>2. CASE UNCHANGED task
  BY <1>2
<1> QED BY <1>1, <1>2 DEF Client, Send, TimerFires, CallerAborts, ResponseBegins,
           ResponseEnds, Error, clientVars

LEMMA ClientStep ==
    ASSUME IInv, NEW c \in Calls, Client(c)
    PROVE  IInv'
<1> USE DEF clientVars, daemonVars, processVars
<1>1. UNCHANGED fileVars
  BY DEF Client, Call, Send, TimerFires, CallerAborts, ResponseBegins, ResponseEnds, Error
<1>2. /\ ContentInv' /\ RepeatNeedsRewrite'
      /\ \A d \in Calls : Wrote(d)' <=> Wrote(d)
  BY <1>1, TasksKept, FileKept
<1>3. content' = content /\ written' = written /\ overwrites' = overwrites
  BY <1>1 DEF fileVars
<1>4. ASSUME NEW t \in Tasks, Call(c, t)
      PROVE  IInv'
  <2>1. TypeOK'
    BY <1>3, <1>4 DEF Call, Settle, IInv, TypeOK, Contents, Outcomes, Replies, Pending
  <2>2. ReplyInv'
    BY <1>2, <1>4 DEF Call, Settle, IInv, TypeOK, ReplyInv, Refusals
  <2> QED BY <1>2, <2>1, <2>2 DEF IInv
<1>5. CASE Send(c)
  <2>1. TypeOK'
    BY <1>3, <1>5 DEF Send, IInv, TypeOK
  <2>2. ReplyInv'
    BY <1>2, <1>5 DEF Send, IInv, TypeOK, ReplyInv, Undone
  <2> QED BY <1>2, <2>1, <2>2 DEF IInv
<1>6. CASE TimerFires(c) \/ CallerAborts(c)
  <2>1. TypeOK'
    BY <1>3, <1>6 DEF TimerFires, CallerAborts, IInv, TypeOK
  <2>2. ReplyInv'
    BY <1>2, <1>6 DEF TimerFires, CallerAborts, IInv, TypeOK, ReplyInv
  <2> QED BY <1>2, <2>1, <2>2 DEF IInv
<1>7. CASE ResponseBegins(c)
  <2>1. TypeOK'
    BY <1>3, <1>7 DEF ResponseBegins, IInv, TypeOK, Pending
  <2>2. ReplyInv'
    BY <1>2, <1>7 DEF ResponseBegins, IInv, TypeOK, ReplyInv
  <2> QED BY <1>2, <2>1, <2>2 DEF IInv
<1>8. CASE ResponseEnds(c)
  <2>1. reply[c] \in Replies
    BY <1>8 DEF ResponseEnds, IInv, TypeOK, ReplyInv
  <2>2. TypeOK'
    BY <1>3, <1>8, <2>1 DEF ResponseEnds, Settle, IInv, TypeOK, Outcomes, Replies, Refusals
  <2>3. ReplyInv'
    BY <1>2, <1>8 DEF ResponseEnds, Settle, IInv, TypeOK, ReplyInv
  <2> QED BY <1>2, <2>2, <2>3 DEF IInv
<1>9. CASE Error(c)
  <2>1. PICK code \in {"TIMEOUT", "CANCELLED", "TRANSPORT_FAILURE", "CORE_UNAVAILABLE"} :
           Settle(c, code)
    BY <1>9 DEF Error, ErrorCodes, RequestErrors
  <2>2. TypeOK'
    BY <1>3, <1>9, <2>1 DEF Error, Settle, IInv, TypeOK, Outcomes, Replies
  <2>3. ReplyInv'
    BY <1>2, <1>9, <2>1 DEF Error, Settle, IInv, TypeOK, ReplyInv, Refusals, Pending
  <2> QED BY <1>2, <2>2, <2>3 DEF IInv
<1> QED BY <1>4, <1>5, <1>6, <1>7, <1>8, <1>9 DEF Client

\* The daemon's steps other than a write: at most a reply that is not "ok".
LEMMA DaemonStep ==
    ASSUME IInv, NEW c \in Calls, Receive(c) \/ RequestAborted(c) \/ Refuse(c)
    PROVE  IInv'
<1> USE DEF clientVars, processVars
<1>1. UNCHANGED fileVars /\ UNCHANGED task
  BY DEF Receive, RequestAborted, Refuse
<1>2. /\ ContentInv' /\ RepeatNeedsRewrite'
      /\ \A d \in Calls : Wrote(d)' <=> Wrote(d)
  BY <1>1, FileKept
<1>3. content' = content /\ written' = written /\ overwrites' = overwrites
  BY <1>1 DEF fileVars
<1>4. TypeOK'
  BY <1>3 DEF Receive, RequestAborted, Refuse, Respond, IInv, TypeOK, Replies, Refusals
<1>5. ReplyInv'
  BY <1>2 DEF Receive, RequestAborted, Refuse, Respond, IInv, TypeOK, ReplyInv,
     Undone, Refusals
<1> QED BY <1>2, <1>4, <1>5 DEF IInv

LEMMA WriteStep ==
    ASSUME IInv, NEW c \in Calls, Write(c)
    PROVE  IInv'
<1> USE DEF clientVars, processVars
<1>1. written' = Append(written, c) /\ UNCHANGED task
  BY DEF Write
<1>2. task[c] \in Tasks
  BY DEF Write, IInv, ReplyInv
<1>3. ContentInv' /\ RepeatNeedsRewrite'
  BY <1>1, <1>2, FileWritten DEF Write, ContentOf
<1>4. \A d \in Calls : Wrote(d)' <=> Wrote(d) \/ d = c
  BY <1>1, Appended DEF Wrote
<1>5. TypeOK'
  BY <1>1, <1>2, Appended DEF Write, Respond, IInv, TypeOK, Replies, Contents
<1>6. ReplyInv'
  BY <1>4 DEF Write, Respond, IInv, TypeOK, ReplyInv, Undone, Refusals
<1> QED BY <1>3, <1>5, <1>6 DEF IInv

LEMMA OverwriteStep ==
    ASSUME IInv, NEW x \in Contents, Overwrite(x)
    PROVE  IInv'
<1> USE DEF clientVars, daemonVars, processVars
<1>1. written' = Append(written, x) /\ UNCHANGED task /\ x \notin Calls
  BY TaskAssumption DEF Overwrite, Contents
<1>2. ContentInv' /\ RepeatNeedsRewrite'
  BY <1>1, FileWritten DEF Overwrite, ContentOf
<1>3. \A d \in Calls : Wrote(d)' <=> Wrote(d)
  BY <1>1, Appended DEF Wrote
<1>4. TypeOK'
  BY <1>1, Appended, BoundAssumption DEF Overwrite, IInv, TypeOK
<1>5. ReplyInv'
  BY <1>3 DEF Overwrite, IInv, TypeOK, ReplyInv
<1> QED BY <1>2, <1>4, <1>5 DEF IInv

\* The daemon dies or is started again, or time passes.
LEMMA WorldStep ==
    ASSUME IInv, Die \/ Restart \/ \E c \in Calls : DeadlinePasses(c)
    PROVE  IInv'
<1> USE DEF clientVars, daemonVars, processVars
<1>1. UNCHANGED fileVars /\ UNCHANGED task
  BY DEF Die, Restart, DeadlinePasses
<1>2. /\ ContentInv' /\ RepeatNeedsRewrite'
      /\ \A d \in Calls : Wrote(d)' <=> Wrote(d)
  BY <1>1, FileKept
<1>3. content' = content /\ written' = written /\ overwrites' = overwrites
  BY <1>1 DEF fileVars
<1>4. TypeOK'
  BY <1>3, BoundAssumption DEF Die, Restart, DeadlinePasses, IInv, TypeOK
<1>5. ReplyInv'
  BY <1>2 DEF Die, Restart, DeadlinePasses, IInv, TypeOK, ReplyInv, Undone
<1> QED BY <1>2, <1>4, <1>5 DEF IInv

LEMMA NextIInv == IInv /\ [Next]_vars => IInv'
<1> SUFFICES ASSUME IInv, [Next]_vars PROVE IInv'
  OBVIOUS
<1>1. CASE Next
  BY <1>1, ClientStep, DaemonStep, WriteStep, OverwriteStep, WorldStep DEF Next, Daemon
<1>2. CASE UNCHANGED vars
  <2> USE <1>2 DEF vars, clientVars, daemonVars, processVars, fileVars
  <2>1. /\ ContentInv' /\ RepeatNeedsRewrite'
        /\ \A d \in Calls : Wrote(d)' <=> Wrote(d)
    BY FileKept
  <2>2. TypeOK'
    BY DEF IInv, TypeOK
  <2>3. ReplyInv'
    BY <2>1 DEF IInv, ReplyInv
  <2> QED BY <2>1, <2>2, <2>3 DEF IInv
<1> QED BY <1>1, <1>2

\* The inductive invariant of a call from its caller to the file.
THEOREM Invariance == Spec => []IInv
  BY InitIInv, NextIInv, PTL DEF Spec

\* The type invariant of client, daemon and file.
THEOREM TypeCorrect == Spec => []TypeOK
<1>1. IInv => TypeOK
  BY DEF IInv
<1> QED BY <1>1, Invariance, PTL

\* What requestOverIpc() resolves with, or rejects with on the daemon's
\* behalf, is what happened to the file.
THEOREM AnswersTrue == Spec => []AnswersAreTrue
<1>1. IInv => AnswersAreTrue
  BY DEF IInv, ReplyInv, AnswersAreTrue, Refusals
<1> QED BY <1>1, Invariance, PTL

\* A guarded write that is attempted again is not done again, unless somebody
\* has written back what it replaces.
THEOREM RepeatsAreHarmless == Spec => []RepeatNeedsRewrite
<1>1. IInv => RepeatNeedsRewrite
  BY DEF IInv
<1> QED BY <1>1, Invariance, PTL
=============================================================================
