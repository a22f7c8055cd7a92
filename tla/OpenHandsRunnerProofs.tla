------------------------ MODULE OpenHandsRunnerProofs ------------------------
(***************************************************************************)
(* For any number of calls and workspaces and any length of the listen     *)
(* queue: OpenHands runs at most once for a call, and a workspace that a   *)
(* successful call left is clean until OpenHands runs again anywhere.      *)
(***************************************************************************)
EXTENDS OpenHandsRunner, TLAPS

\* Callers: what a call that was not made, or is still open, looks like.
CallersOK ==
  \A c \in Call :
    /\ caller[c] = "new" => ran[c] = 0
    /\ caller[c] \in {"new", "waiting"} => reply[c] = "none"
    /\ caller[c] # "new" => ws[c] \in Workspace

\* The listen queue holds distinct calls that were made and did not run.
Queued(i) ==
  /\ caller[queue[i]] # "new" /\ ws[queue[i]] \in Workspace
  /\ ran[queue[i]] = 0 /\ reply[queue[i]] \in {"none", "error"} /\ queue[i] # cur
  /\ \A j \in 1..Len(queue) : queue[i] = queue[j] => i = j
QueueOK == \A i \in 1..Len(queue) : Queued(i)

Serving == pc \in {"prepare", "running", "check", "respond"}

\* The call being served was made and got no answer of the runner yet, and from the
\* start of OpenHands to the end of the checks it is the last one that ran.
ServingOK ==
  IF Serving
  THEN /\ cur \in Call /\ Workdir \in Workspace
       /\ caller[cur] # "new" /\ reply[cur] \in {"none", "error"}
       /\ pc = "prepare" => ran[cur] = 0
       /\ pc \in {"running", "check"} => ran[cur] = 1 /\ last = cur
  ELSE cur = None

\* The response on its way: it is about a run, and a success about a clean one.
ResponseOK ==
  pc = "respond" =>
    /\ response \in {"success", "failure", "violation"} => ran[cur] = 1
    /\ response = "success" => ~remotes[Workdir] /\ skills[Workdir] = "fresh"

IInv ==
  /\ TypeOK /\ CallersOK /\ QueueOK /\ ServingOK /\ ResponseOK
  /\ RunsOnce /\ SuccessIsClean

-----------------------------------------------------------------------------
\* A new call, queued or refused.
LEMMA DelegateKeeps ==
  ASSUME IInv, NEW c \in Call, NEW w \in Workspace, Delegate(c, w)
  PROVE  IInv'
<1> USE DEF IInv
<1>1. /\ caller[c] = "new" /\ ws' = [ws EXCEPT ![c] = w] /\ reply[c] = "none" /\ ran[c] = 0
      /\ UNCHANGED <<server, disk, history>>
      /\ \A i \in 1..Len(queue) : queue[i] \in Call /\ queue[i] # c
      /\ Serving => cur # c
  BY DEF Delegate, CallersOK, QueueOK, Queued, ServingOK, TypeOK
<1>u. UNCHANGED <<pc, cur, exit_code, response, remotes, skills, last, ran>>
  BY <1>1 DEF server, disk, history
<1>2. CASE pc = "down" \/ Len(queue) > Backlog
  <2>1. caller' = [caller EXCEPT ![c] = "done"] /\ reply' = [reply EXCEPT ![c] = "error"] /\ queue' = queue
    BY <1>2 DEF Delegate, Return
  <2>2. TypeOK'
    BY <1>1, <1>u, <2>1 DEF TypeOK, Response
  <2>3. CallersOK' /\ QueueOK'
    BY <1>1, <1>u, <2>1 DEF CallersOK, QueueOK, Queued, TypeOK
  <2>4. ServingOK' /\ ResponseOK'
    BY <1>1, <1>u, <2>1 DEF ServingOK, ResponseOK, Serving, Workdir, TypeOK
  <2>5. RunsOnce' /\ SuccessIsClean'
    BY <1>1, <1>u, <2>1 DEF RunsOnce, SuccessIsClean, TypeOK
  <2> QED  BY <2>2, <2>3, <2>4, <2>5
<1>3. CASE ~(pc = "down" \/ Len(queue) > Backlog)
  <2>1. /\ caller' = [caller EXCEPT ![c] = "waiting"] /\ queue' = Append(queue, c) /\ reply' = reply
        /\ queue \in Seq(Call) /\ Len(queue) <= Backlog
    BY <1>3, RunnerAssumption DEF Delegate, TypeOK
  <2>q. /\ queue' \in Seq(Call) /\ Len(queue') = Len(queue) + 1 /\ Len(queue) \in Nat
        /\ \A i \in 1..Len(queue) : queue'[i] = queue[i]
        /\ queue'[Len(queue) + 1] = c
    BY <2>1
  <2>2. TypeOK'
    BY <1>1, <1>u, <2>1, <2>q, RunnerAssumption DEF TypeOK
  <2>3. CallersOK'
    BY <1>1, <1>u, <2>1 DEF CallersOK, TypeOK
  <2>4. QueueOK'
    <3> SUFFICES ASSUME NEW i \in 1..Len(queue')
                 PROVE  Queued(i)'
      BY DEF QueueOK
    <3>0. cur # c
      BY <1>1, NoneAssumption DEF ServingOK
    <3>1. CASE i \in 1..Len(queue)
      <4>1. Queued(i) /\ queue'[i] = queue[i] /\ queue[i] \in Call /\ queue[i] # c
        BY <3>1, <1>1, <2>q DEF QueueOK
      <4>2. ASSUME NEW j \in 1..Len(queue'), queue'[i] = queue'[j]
            PROVE  i = j
        <5>1. j \in 1..Len(queue)
          BY <4>1, <4>2, <2>q
        <5> QED  BY <5>1, <4>1, <4>2, <2>q DEF Queued
      <4> QED  BY <4>1, <4>2, <1>1, <1>u, <2>1 DEF Queued, TypeOK
    <3>2. CASE i = Len(queue) + 1
      BY <3>0, <3>2, <1>1, <1>u, <2>1, <2>q DEF Queued, TypeOK
    <3> QED  BY <3>1, <3>2, <2>q
  <2>5. ServingOK' /\ ResponseOK'
    BY <1>1, <1>u, <2>1 DEF ServingOK, ResponseOK, Serving, Workdir, TypeOK
  <2>6. RunsOnce' /\ SuccessIsClean'
    BY <1>1, <1>u, <2>1 DEF RunsOnce, SuccessIsClean, TypeOK
  <2> QED  BY <2>2, <2>3, <2>4, <2>5, <2>6
<1> QED  BY <1>2, <1>3

\* A caller gives up, in the queue or while it is served.
LEMMA GiveUpKeeps ==
  ASSUME IInv, NEW c \in Call, GiveUp(c)
  PROVE  IInv'
<1> USE DEF IInv
<1>1. /\ caller[c] = "waiting" /\ reply[c] = "none"
      /\ caller' = [caller EXCEPT ![c] = "done"] /\ reply' = [reply EXCEPT ![c] = "error"]
      /\ UNCHANGED <<ws, queue, pc, cur, exit_code, response, remotes, skills, last, ran>>
  BY DEF GiveUp, Return, server, disk, history, CallersOK
<1>2. TypeOK'
  BY <1>1 DEF TypeOK, Response
<1>3. CallersOK'
  BY <1>1 DEF CallersOK, TypeOK
<1>4. QueueOK'
  <2> SUFFICES ASSUME NEW i \in 1..Len(queue)
               PROVE  Queued(i)'
    BY <1>1 DEF QueueOK
  <2>1. Queued(i) /\ queue[i] \in Call
    BY DEF QueueOK, TypeOK
  <2> QED  BY <2>1, <1>1 DEF Queued, TypeOK
<1>5. ServingOK' /\ ResponseOK'
  BY <1>1 DEF ServingOK, ResponseOK, Serving, Workdir, TypeOK
<1>6. RunsOnce' /\ SuccessIsClean'
  BY <1>1 DEF RunsOnce, SuccessIsClean, TypeOK
<1> QED  BY <1>2, <1>3, <1>4, <1>5, <1>6

\* The head of the queue becomes the call that is served.
LEMMA AcceptKeeps ==
  ASSUME IInv, Accept
  PROVE  IInv'
<1> USE DEF IInv
<1>1. /\ pc = "accept" /\ queue # <<>> /\ pc' = "prepare" /\ cur' = Head(queue) /\ queue' = Tail(queue)
      /\ UNCHANGED <<caller, ws, reply, exit_code, response, remotes, skills, last, ran>>
  BY DEF Accept, client, disk, history
<1>2. /\ queue \in Seq(Call) /\ Len(queue) \in Nat /\ Len(queue) > 0 /\ Head(queue) = queue[1]
      /\ queue' \in Seq(Call) /\ Len(queue') = Len(queue) - 1
      /\ \A i \in 1..Len(queue') : i + 1 \in 1..Len(queue) /\ queue'[i] = queue[i + 1]
  BY <1>1 DEF TypeOK
<1>3. Queued(1) /\ cur' = queue[1] /\ cur' \in Call
  BY <1>1, <1>2 DEF QueueOK
<1>4. TypeOK'
  BY <1>1, <1>2, <1>3, RunnerAssumption DEF TypeOK
<1>5. CallersOK' /\ RunsOnce' /\ SuccessIsClean'
  BY <1>1 DEF CallersOK, RunsOnce, SuccessIsClean
<1>6. QueueOK'
  <2> SUFFICES ASSUME NEW i \in 1..Len(queue')
               PROVE  Queued(i)'
    BY DEF QueueOK
  <2>1. i + 1 \in 1..Len(queue) /\ queue'[i] = queue[i + 1] /\ Queued(i + 1)
    BY <1>2 DEF QueueOK
  <2>2. queue'[i] # cur'
    BY <2>1, <1>2, <1>3 DEF Queued
  <2>3. ASSUME NEW j \in 1..Len(queue'), queue'[i] = queue'[j]
        PROVE  i = j
    <3>1. j + 1 \in 1..Len(queue) /\ queue[i + 1] = queue[j + 1]
      BY <2>1, <2>3, <1>2
    <3> QED  BY <3>1, <2>1, <1>2 DEF Queued
  <2> QED  BY <2>1, <2>2, <2>3, <1>1 DEF Queued
<1>7. ServingOK' /\ ResponseOK'
  BY <1>1, <1>3 DEF Queued, ServingOK, ResponseOK, Serving, Workdir
<1> QED  BY <1>4, <1>5, <1>6, <1>7

\* The queue is left alone by every step that keeps callers, workspaces, replies and
\* the call that is served, and starts OpenHands for no other call.
LEMMA QueueStays ==
  ASSUME IInv, UNCHANGED <<caller, ws, reply, queue, cur>>,
         \A c \in Call : c # cur => ran'[c] = ran[c]
  PROVE  QueueOK'
<1> SUFFICES ASSUME NEW i \in 1..Len(queue)
             PROVE  Queued(i)'
  BY DEF QueueOK
<1>1. Queued(i) /\ queue[i] \in Call
  BY DEF IInv, QueueOK, TypeOK
<1> QED  BY <1>1 DEF Queued

\* OpenHands starts for the call that is served.
LEMMA PrepareKeeps ==
  ASSUME IInv, Prepare
  PROVE  IInv'
<1> USE DEF IInv
<1>1. /\ pc = "prepare" /\ ~remotes[Workdir] /\ skills[Workdir] # "blocked" /\ pc' = "running"
      /\ skills' = [skills EXCEPT ![Workdir] = "fresh"]
      /\ last' = cur /\ ran' = [ran EXCEPT ![cur] = @ + 1]
      /\ UNCHANGED <<caller, ws, reply, queue, cur, exit_code, response, remotes>>
  BY DEF Prepare, client
<1>2. /\ cur \in Call /\ Workdir \in Workspace /\ Workdir = ws[cur] /\ Workdir' = Workdir
      /\ caller[cur] # "new" /\ reply[cur] \in {"none", "error"} /\ ran[cur] = 0
  BY <1>1 DEF ServingOK, Serving, Workdir
<1>3. TypeOK'
  BY <1>1, <1>2 DEF TypeOK, SkillView
<1>4. CallersOK' /\ RunsOnce'
  BY <1>1, <1>2 DEF CallersOK, RunsOnce, TypeOK
<1>5. QueueOK'
  BY <1>1, <1>2, QueueStays DEF TypeOK
<1>6. ServingOK' /\ ResponseOK'
  BY <1>1, <1>2 DEF ServingOK, ResponseOK, Serving, TypeOK
<1>7. SuccessIsClean'
  BY <1>1, <1>2 DEF SuccessIsClean
<1> QED  BY <1>3, <1>4, <1>5, <1>6, <1>7

\* What the steps between accept and sendall have in common: while the workspace of a
\* successful call is still to be clean, as OpenHands did not run since, they put no
\* remote and no foreign skills anywhere.
LEMMA ServeKeeps ==
  ASSUME IInv, Serving, Serving', pc' # "prepare", pc' \in {"running", "check"} => pc \in {"running", "check"},
         TypeOK', UNCHANGED <<caller, ws, reply, queue, cur, last, ran>>,
         \/ last = cur
         \/ \A w \in Workspace : ~remotes[w] => /\ ~remotes'[w]
                                               /\ skills'[w] \in {skills[w], "none"},
         ResponseOK'
  PROVE  IInv'
<1> USE DEF IInv
<1>1. /\ cur \in Call /\ Workdir \in Workspace /\ Workdir' = Workdir
      /\ reply[cur] \in {"none", "error"}
  BY DEF ServingOK, Workdir
<1>2. CallersOK' /\ RunsOnce'
  BY DEF CallersOK, RunsOnce
<1>3. QueueOK'
  BY QueueStays
<1>4. ServingOK'
  BY <1>1 DEF ServingOK, Serving
<1>5. SuccessIsClean'
  <2> SUFFICES ASSUME NEW c \in Call, reply[c] = "success", last = c
               PROVE  ~remotes'[ws[c]] /\ skills'[ws[c]] \in {"fresh", "none"}
    BY DEF SuccessIsClean
  <2>1. ws[c] \in Workspace /\ c # cur /\ ~remotes[ws[c]] /\ skills[ws[c]] \in {"fresh", "none"}
    BY <1>1 DEF CallersOK, TypeOK, SuccessIsClean
  <2> QED  BY <2>1
<1> QED  BY <1>2, <1>3, <1>4, <1>5

\* Preparation fails, OpenHands acts, exits or is killed by its timeout.
LEMMA RunningKeeps ==
  ASSUME IInv, \/ PrepareFails \/ TimeOut
               \/ \E w \in Workspace, r \in BOOLEAN, v \in SkillView : OpenHandsActs(w, r, v)
               \/ \E code \in {0, 1} : Exit(code)
  PROVE  IInv'
<1> USE DEF IInv
<1>1. CASE PrepareFails
  <2>1. /\ pc = "prepare" /\ pc' = "respond" /\ response' \in {"error", "timeout"}
        /\ UNCHANGED <<caller, ws, reply, queue, cur, exit_code, remotes, last, ran>>
        /\ skills' = skills \/ skills' = [skills EXCEPT ![Workdir] = "none"]
    BY <1>1 DEF PrepareFails, Answer, client, history
  <2>2. TypeOK' /\ Serving /\ Serving' /\ ResponseOK'
    BY <2>1 DEF TypeOK, Serving, ResponseOK, Response, SkillView
  <2> QED  BY <2>1, <2>2, ServeKeeps DEF TypeOK, ServingOK
<1>2. CASE TimeOut
  <2>1. /\ pc = "running" /\ pc' = "respond" /\ response' = "timeout"
        /\ UNCHANGED <<caller, ws, reply, queue, cur, exit_code, remotes, skills, last, ran>>
    BY <1>2 DEF TimeOut, Answer, client, disk, history
  <2>2. Serving /\ Serving' /\ ran[cur] = 1 /\ last = cur
    BY <2>1 DEF Serving, ServingOK
  <2>3. TypeOK' /\ ResponseOK'
    BY <2>1, <2>2 DEF TypeOK, ResponseOK, Response
  <2> QED  BY <2>1, <2>2, <2>3, ServeKeeps
<1>3. ASSUME NEW w \in Workspace, NEW r \in BOOLEAN, NEW v \in SkillView,
             OpenHandsActs(w, r, v)
      PROVE  IInv'
  <2>1. /\ pc = "running"
        /\ remotes' = [remotes EXCEPT ![w] = r] /\ skills' = [skills EXCEPT ![w] = v]
        /\ UNCHANGED <<caller, ws, reply, queue, pc, cur, exit_code, response, last, ran>>
    BY <1>3 DEF OpenHandsActs, client, server, history
  <2>2. Serving /\ Serving' /\ last = cur
    BY <2>1 DEF Serving, ServingOK
  <2>3. TypeOK' /\ ResponseOK'
    BY <2>1 DEF TypeOK, ResponseOK
  <2> QED  BY <2>1, <2>2, <2>3, ServeKeeps
<1>4. ASSUME NEW code \in {0, 1}, Exit(code)
      PROVE  IInv'
  <2>1. /\ pc = "running" /\ pc' = "check" /\ exit_code' = code
        /\ UNCHANGED <<caller, ws, reply, queue, cur, response, remotes, skills, last, ran>>
    BY <1>4 DEF Exit, client, disk, history
  <2>2. Serving /\ Serving' /\ last = cur /\ TypeOK' /\ ResponseOK'
    BY <2>1 DEF Serving, ServingOK, TypeOK, ResponseOK
  <2> QED  BY <2>1, <2>2, ServeKeeps
<1> QED  BY <1>1, <1>2, <1>3, <1>4

\* The checks after OpenHands exited.
LEMMA ChecksKeep ==
  ASSUME IInv, CheckRemotes \/ CheckSkills \/ CheckPasses \/ CheckFails
  PROVE  IInv'
<1> USE DEF IInv
<1>1. /\ pc = "check" /\ pc' = "respond"
      /\ UNCHANGED <<caller, ws, reply, queue, cur, exit_code, last, ran>>
  BY DEF CheckRemotes, CheckSkills, CheckPasses, CheckFails, Answer, client, history
<1>2. Serving /\ Serving' /\ cur \in Call /\ ran[cur] = 1 /\ last = cur
      /\ Workdir \in Workspace /\ Workdir' = Workdir
  BY <1>1 DEF Serving, ServingOK, Workdir
<1>3. CASE CheckRemotes
  <2>1. PICK left \in BOOLEAN : remotes' = [remotes EXCEPT ![Workdir] = left]
    BY <1>3 DEF CheckRemotes
  <2>2. response' = "violation" /\ skills' = skills
    BY <1>3 DEF CheckRemotes, Answer
  <2>3. TypeOK' /\ ResponseOK'
    BY <1>1, <1>2, <2>1, <2>2 DEF TypeOK, ResponseOK, Response
  <2> QED  BY <1>1, <1>2, <2>3, ServeKeeps
<1>4. CASE CheckSkills
  <2>1. PICK v \in {"blocked", "fresh", "none"} : skills' = [skills EXCEPT ![Workdir] = v]
    BY <1>4 DEF CheckSkills
  <2>2. response' = "violation" /\ remotes' = remotes
    BY <1>4 DEF CheckSkills, Answer
  <2>3. TypeOK' /\ ResponseOK'
    BY <1>1, <1>2, <2>1, <2>2 DEF TypeOK, ResponseOK, Response, SkillView
  <2> QED  BY <1>1, <1>2, <2>3, ServeKeeps
<1>5. CASE CheckPasses \/ CheckFails
  <2>1. /\ response' \in {"success", "failure", "error", "timeout"} /\ remotes' = remotes /\ skills' = skills
        /\ response' = "success" => ~remotes[Workdir] /\ skills[Workdir] = "fresh"
    BY <1>5 DEF CheckPasses, CheckFails, Answer, disk
  <2>2. TypeOK' /\ ResponseOK'
    BY <1>1, <1>2, <2>1 DEF TypeOK, ResponseOK, Response
  <2> QED  BY <1>1, <1>2, <2>1, <2>2, ServeKeeps
<1> QED  BY <1>3, <1>4, <1>5

\* The answer reaches the caller.
LEMMA RespondKeeps ==
  ASSUME IInv, Respond
  PROVE  IInv'
<1> USE DEF IInv
<1>1. /\ pc = "respond" /\ caller[cur] = "waiting" /\ pc' = "accept" /\ cur' = None
      /\ exit_code' = 0 /\ response' = "none"
      /\ caller' = [caller EXCEPT ![cur] = "done"]
      /\ UNCHANGED <<ws, queue, remotes, skills, last, ran>>
  BY DEF Respond, Return, disk, history
<1>r. PICK r \in {response, "error"} : reply' = [reply EXCEPT ![cur] = r]
  BY DEF Respond, Return
<1>2. /\ cur \in Call /\ Workdir = ws[cur] /\ Workdir \in Workspace /\ ran[cur] <= 1
      /\ response \in {"success", "failure", "violation"} => ran[cur] = 1
      /\ response = "success" => ~remotes[Workdir] /\ skills[Workdir] = "fresh"
  BY <1>1 DEF ServingOK, Serving, ResponseOK, Workdir, RunsOnce
<1>3. TypeOK'
  BY <1>r, <1>1, <1>2 DEF TypeOK, Response
<1>4. CallersOK' /\ RunsOnce'
  BY <1>r, <1>1, <1>2 DEF CallersOK, RunsOnce, TypeOK
<1>5. QueueOK'
  <2> SUFFICES ASSUME NEW i \in 1..Len(queue)
               PROVE  Queued(i)'
    BY <1>1 DEF QueueOK
  <2>1. Queued(i) /\ queue[i] \in Call /\ queue[i] # None
    BY NoneAssumption DEF QueueOK, TypeOK
  <2> QED  BY <2>1, <1>r, <1>1, <1>2 DEF Queued, TypeOK
<1>6. ServingOK' /\ ResponseOK'
  BY <1>1 DEF ServingOK, ResponseOK, Serving
<1>7. SuccessIsClean'
  BY <1>r, <1>1, <1>2 DEF SuccessIsClean, TypeOK
<1> QED  BY <1>3, <1>4, <1>5, <1>6, <1>7

\* The runner dies, with the queue and whatever it served, and comes back.
LEMMA StoppedKeeps ==
  ASSUME IInv, Stopped \/ Start
  PROVE  IInv'
<1> USE DEF IInv
<1>1. CASE Stopped
  <2> DEFINE lost == {c \in Call : caller[c] = "waiting"}
  <2>1. /\ pc' = "down" /\ cur' = None /\ exit_code' = 0 /\ response' = "none" /\ queue' = <<>>
        /\ caller' = [c \in Call |-> IF c \in lost THEN "done" ELSE caller[c]]
        /\ reply' = [c \in Call |-> IF c \in lost THEN "error" ELSE reply[c]]
        /\ UNCHANGED <<ws, remotes, skills, last, ran>>
    BY <1>1 DEF Stopped, disk, history
  <2>2. TypeOK'
    BY <2>1, RunnerAssumption DEF TypeOK, Response
  <2>3. CallersOK' /\ RunsOnce' /\ SuccessIsClean'
    BY <2>1 DEF CallersOK, RunsOnce, SuccessIsClean, TypeOK
  <2>4. QueueOK' /\ ServingOK' /\ ResponseOK'
    BY <2>1 DEF QueueOK, ServingOK, ResponseOK, Serving
  <2> QED  BY <2>2, <2>3, <2>4
<1>2. CASE Start
  <2>1. /\ pc = "down" /\ pc' = "accept"
        /\ UNCHANGED <<caller, ws, reply, queue, cur, exit_code, response, remotes, skills, last, ran>>
    BY <1>2 DEF Start, client, disk, history
  <2>2. TypeOK' /\ CallersOK' /\ RunsOnce' /\ SuccessIsClean'
    BY <2>1 DEF TypeOK, CallersOK, RunsOnce, SuccessIsClean
  <2>3. QueueOK'
    BY <2>1, QueueStays
  <2>4. ServingOK' /\ ResponseOK'
    BY <2>1 DEF ServingOK, ResponseOK, Serving
  <2> QED  BY <2>2, <2>3, <2>4
<1> QED  BY <1>1, <1>2

-----------------------------------------------------------------------------
\* IInv is an invariant of the runner and its callers (main, handle, run_task and the
\* bridge's delegate), however they interleave, give up, die and restart.
THEOREM RunnerInvariance == Spec => []IInv
<1>1. Init => IInv
  BY RunnerAssumption DEF Init, IInv, TypeOK, CallersOK, QueueOK, ServingOK, ResponseOK, Serving,
     RunsOnce, SuccessIsClean, SkillView, Response
<1>2. IInv /\ [Next]_vars => IInv'
  <2> SUFFICES ASSUME IInv, [Next]_vars
               PROVE  IInv'
    OBVIOUS
  <2>1. CASE \E request \in Requests : Delegate(request[1], request[2])
    <3>1. PICK request \in Requests : Delegate(request[1], request[2])
      BY <2>1
    <3>2. request[1] \in Call /\ request[2] \in Workspace
      BY RunnerAssumption
    <3> QED  BY <3>1, <3>2, DelegateKeeps
  <2>2. CASE \E c \in Call : GiveUp(c)
    BY <2>2, GiveUpKeeps
  <2>3. CASE Accept \/ Prepare \/ Respond
    BY <2>3, AcceptKeeps, PrepareKeeps, RespondKeeps
  <2>4. CASE PrepareFails \/ TimeOut \/ OpenHandsStep
    BY <2>4, RunningKeeps DEF OpenHandsStep
  <2>5. CASE CheckRemotes \/ CheckSkills \/ CheckPasses \/ CheckFails
    BY <2>5, ChecksKeep
  <2>6. CASE BrokenPipe \/ Kill \/ Start
    BY <2>6, StoppedKeeps DEF BrokenPipe, Kill
  <2>7. CASE UNCHANGED vars
    <3>1. UNCHANGED <<caller, ws, reply, queue, pc, cur, exit_code, response, remotes, skills, last, ran>>
      BY <2>7 DEF vars, client, server, disk, history
    <3> QED  BY <3>1, QueueStays DEF IInv, TypeOK, CallersOK, ServingOK, ResponseOK, Serving, Workdir,
                RunsOnce, SuccessIsClean
  <2> QED  BY <2>1, <2>2, <2>3, <2>4, <2>5, <2>6, <2>7 DEF Next, RunnerStep
<1> QED  BY <1>1, <1>2, PTL DEF Spec

\* run_task starts OpenHands at most once for a call of openhands_delegate, for any
\* number of calls, and an answer about a run is about the caller's own.
THEOREM TasksRunOnce == Spec => []RunsOnce
<1>1. IInv => RunsOnce
  BY DEF IInv
<1> QED  BY <1>1, RunnerInvariance, PTL

\* Until OpenHands runs again in any workspace, the one of a call that run_task answered
\* with success has no remote and no foreign skills, whatever other calls are made and
\* fail in their preparation and however often the runner dies and restarts.
THEOREM SuccessLeavesClean == Spec => []SuccessIsClean
<1>1. IInv => SuccessIsClean
  BY DEF IInv
<1> QED  BY <1>1, RunnerInvariance, PTL
==============================================================================
