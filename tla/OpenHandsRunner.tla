--------------------------- MODULE OpenHandsRunner ---------------------------
(***************************************************************************)
(* The OpenHands runner (openhands_runner/server.py) and the bridge plugin *)
(* that calls it over a Unix socket (hermeteam-openhands-bridge).          *)
(*                                                                         *)
(* The runner accepts one connection at a time; the others wait in the     *)
(* listen queue.  A caller whose socket timeout passes closes its end, but *)
(* its request stays in the queue, or goes on being served.  OpenHands is  *)
(* external: run_task only sets its working directory, so that while it    *)
(* runs it may do anything to every workspace below the shared mount.      *)
(* Processes it might leave behind, and what the agent itself writes to a  *)
(* workspace between two calls, are not modelled.                          *)
(***************************************************************************)
EXTENDS Naturals, Sequences

CONSTANTS
  Call,       \* calls of openhands_delegate that pass its checks of the parameters
  Workspace,  \* directories below WORKSPACE_ROOT, or it; they may contain each other, but
              \* none lies in the .git or .hermeteam-openhands-home of another
  Requests,   \* the calls with the workspaces they may name
  Backlog     \* the argument of listen

ASSUME RunnerAssumption == Backlog \in Nat /\ Requests \subseteq Call \X Workspace

None == "none"     \* no call, no workspace
ASSUME NoneAssumption == None \notin Call \cup Workspace

VARIABLES
  caller,    \* the bridge's end of each call: new, waiting (socket open) or done
  ws,        \* the workspace of each call
  reply,     \* what the bridge returns
  queue,     \* connections that are not accepted yet
  pc,        \* where the runner is
  cur,       \* the call it serves
  exit_code, \* of OpenHands
  response,  \* what run_task returns or handle makes of its exception
  remotes,   \* whether a git remote is configured in each workspace
  skills,    \* ~/.openhands/skills in each workspace's HOME
  last,      \* history: the call whose OpenHands ran last, in whatever workspace
  ran        \* history: how often OpenHands was started for each call

client == <<caller, ws, reply>>
server == <<pc, cur, exit_code, response>>
disk == <<remotes, skills>>
history == <<last, ran>>
vars == <<client, queue, server, disk, history>>

\* none: not made, removed or half made; fresh: exactly the links that prepare_shared_skills
\* made; changed: other entries; blocked: a symlink where a directory must be.
SkillView == {"none", "fresh", "changed", "blocked"}
Response == {"none", "success", "failure", "violation", "timeout", "error"}

TypeOK ==
  /\ caller \in [Call -> {"new", "waiting", "done"}]
  /\ ws \in [Call -> Workspace \cup {None}] /\ reply \in [Call -> Response]
  /\ queue \in Seq(Call) /\ Len(queue) <= Backlog + 1
  /\ pc \in {"down", "accept", "prepare", "running", "check", "respond"}
  /\ cur \in Call \cup {None} /\ exit_code \in {0, 1} /\ response \in Response
  /\ remotes \in [Workspace -> BOOLEAN] /\ skills \in [Workspace -> SkillView]
  /\ last \in Call \cup {None} /\ ran \in [Call -> Nat]

-----------------------------------------------------------------------------
(* The bridge: delegate and _call_runner                                   *)

Return(c, r) ==
  /\ caller' = [caller EXCEPT ![c] = "done"]
  /\ reply' = [reply EXCEPT ![c] = r]

\* connect and sendall; nobody listens, or the listen queue is full: an error.
Delegate(c, w) ==
  /\ caller[c] = "new"
  /\ ws' = [ws EXCEPT ![c] = w]
  /\ IF pc = "down" \/ Len(queue) > Backlog THEN Return(c, "error") /\ UNCHANGED queue
     ELSE caller' = [caller EXCEPT ![c] = "waiting"] /\ queue' = Append(queue, c) /\ UNCHANGED reply
  /\ UNCHANGED <<server, disk, history>>

\* The socket timeout, timeout_seconds + 10 from connect on, whether the call is
\* queued, being prepared or run.
GiveUp(c) ==
  /\ caller[c] = "waiting"
  /\ Return(c, "error")
  /\ UNCHANGED <<ws, queue, server, disk, history>>

-----------------------------------------------------------------------------
(* The runner: main, handle and run_task                                   *)

Workdir == ws[cur]
Answer(r) == pc' = "respond" /\ response' = r /\ UNCHANGED <<cur, exit_code>>

\* Mutant: the connection stays in the queue.
AcceptAgain ==
  /\ pc = "accept" /\ queue # <<>>
  /\ pc' = "prepare" /\ cur' = Head(queue) /\ UNCHANGED queue
  /\ UNCHANGED <<client, exit_code, response, disk, history>>

Accept ==
  /\ pc = "accept" /\ queue # <<>>
  /\ pc' = "prepare" /\ cur' = Head(queue) /\ queue' = Tail(queue)
  /\ UNCHANGED <<client, exit_code, response, disk, history>>

\* ensure_local_git, child_env and prepare_shared_skills succeed; OpenHands starts.
Prepare ==
  /\ pc = "prepare" /\ ~remotes[Workdir] /\ skills[Workdir] # "blocked"
  /\ pc' = "running"
  /\ skills' = [skills EXCEPT ![Workdir] = "fresh"]
  /\ last' = cur /\ ran' = [ran EXCEPT ![cur] = @ + 1]
  /\ UNCHANGED <<client, queue, cur, exit_code, response, remotes>>

\* A remote is configured, git or the environment fails, a managed path is a symlink,
\* or the catalog is unavailable after the old links were removed.  A git command that
\* takes too long raises TimeoutExpired as OpenHands does.
PrepareFails ==
  /\ pc = "prepare"
  /\ \/ \E r \in {"error", "timeout"} : Answer(r) /\ UNCHANGED skills
     \/ /\ ~remotes[Workdir] /\ skills[Workdir] # "blocked"
        /\ Answer("error")
        /\ skills' = [skills EXCEPT ![Workdir] = "none"]
  /\ UNCHANGED <<client, queue, remotes, history>>

\* OpenHands, while it runs, writes to its own workspace or to another one.
OpenHandsActs(w, r, v) ==
  /\ pc = "running"
  /\ remotes' = [remotes EXCEPT ![w] = r] /\ skills' = [skills EXCEPT ![w] = v]
  /\ UNCHANGED <<client, queue, server, history>>

Exit(code) ==
  /\ pc = "running"
  /\ pc' = "check" /\ exit_code' = code
  /\ UNCHANGED <<client, queue, cur, response, disk, history>>

\* Mutant: subprocess.run without a timeout.
NeverTimesOut == pc = "running" /\ FALSE /\ UNCHANGED vars

\* subprocess.run kills OpenHands and raises TimeoutExpired, which handle catches:
\* the checks after the run are skipped.
TimeOut ==
  /\ pc = "running"
  /\ Answer("timeout")
  /\ UNCHANGED <<client, queue, disk, history>>

\* git remote reports remotes: each is removed, and a failing removal is ignored.
CheckRemotes ==
  /\ pc = "check" /\ remotes[Workdir]
  /\ \E left \in BOOLEAN : remotes' = [remotes EXCEPT ![Workdir] = left]
  /\ Answer("violation")
  /\ UNCHANGED <<client, queue, skills, history>>

\* verify_shared_skills complains, and prepare_shared_skills rebuilds the links if it can.
CheckSkills ==
  /\ pc = "check" /\ ~remotes[Workdir] /\ skills[Workdir] # "fresh"
  /\ \E v \in IF skills[Workdir] = "blocked" THEN {"blocked"} ELSE {"fresh", "none"} :
       skills' = [skills EXCEPT ![Workdir] = v]
  /\ Answer("violation")
  /\ UNCHANGED <<client, queue, remotes, history>>

\* Mutant: the skill links are not verified.
CheckPassesUnverified ==
  /\ pc = "check" /\ ~remotes[Workdir]
  /\ Answer(IF exit_code = 0 THEN "success" ELSE "failure")
  /\ UNCHANGED <<client, queue, disk, history>>

CheckPasses ==
  /\ pc = "check" /\ ~remotes[Workdir] /\ skills[Workdir] = "fresh"
  /\ Answer(IF exit_code = 0 THEN "success" ELSE "failure")
  /\ UNCHANGED <<client, queue, disk, history>>

\* A git command fails or times out after the run: handle answers with the error.
CheckFails ==
  /\ pc = "check"
  /\ \E r \in {"error", "timeout"} : Answer(r)
  /\ UNCHANGED <<client, queue, disk, history>>

\* sendall reaches the caller, which refuses a response above MAX_RESPONSE_BYTES.
Respond ==
  /\ pc = "respond" /\ caller[cur] = "waiting"
  /\ \E r \in {response, "error"} : Return(cur, r)
  /\ pc' = "accept" /\ cur' = None /\ exit_code' = 0 /\ response' = "none"
  /\ UNCHANGED <<ws, queue, disk, history>>

\* The process ends: callers that are connected read the end of the stream.
Stopped ==
  LET lost == {c \in Call : caller[c] = "waiting"}
  IN /\ pc' = "down" /\ cur' = None /\ exit_code' = 0 /\ response' = "none" /\ queue' = <<>>
     /\ caller' = [c \in Call |-> IF c \in lost THEN "done" ELSE caller[c]]
     /\ reply' = [c \in Call |-> IF c \in lost THEN "error" ELSE reply[c]]
     /\ UNCHANGED <<ws, disk, history>>

\* sendall to a caller that gave up raises BrokenPipeError outside handle's try: the
\* whole runner ends.
BrokenPipe == pc = "respond" /\ caller[cur] = "done" /\ Stopped

\* The container is killed, OpenHands with it.
Kill == pc # "down" /\ Stopped

\* The container restarts: unlink, bind, listen.
Start ==
  /\ pc = "down"
  /\ pc' = "accept"
  /\ UNCHANGED <<client, queue, cur, exit_code, response, disk, history>>

-----------------------------------------------------------------------------
Init ==
  /\ caller = [c \in Call |-> "new"] /\ ws = [c \in Call |-> None] /\ reply = [c \in Call |-> "none"]
  /\ queue = <<>> /\ pc = "down" /\ cur = None /\ exit_code = 0 /\ response = "none"
  /\ remotes \in [Workspace -> BOOLEAN] /\ skills = [w \in Workspace |-> "none"]
  /\ last = None /\ ran = [c \in Call |-> 0]

\* What the runner does by itself, once OpenHands has ended or its time is up.
RunnerStep ==
  \/ Accept \/ Prepare \/ PrepareFails \/ CheckRemotes \/ CheckSkills \/ CheckPasses
  \/ CheckFails \/ Respond \/ BrokenPipe \/ Start

OpenHandsStep ==
  \/ \E w \in Workspace, r \in BOOLEAN, v \in SkillView : OpenHandsActs(w, r, v)
  \/ \E code \in {0, 1} : Exit(code)

Next ==
  \/ \E request \in Requests : Delegate(request[1], request[2])
  \/ \E c \in Call : GiveUp(c)
  \/ RunnerStep \/ OpenHandsStep \/ TimeOut \/ Kill

Spec == Init /\ [][Next]_vars

\* The runner's loop goes on, a restart: unless-stopped container comes back, and
\* subprocess.run's timeout fires.  Nothing is assumed of callers and of OpenHands.
FairSpec == Spec /\ WF_vars(RunnerStep) /\ WF_vars(TimeOut)

-----------------------------------------------------------------------------
(* Properties                                                              *)

\* run_task answers success only for a workspace it checked: until OpenHands runs
\* again, there or in any other workspace, no git remote is configured in the workspace
\* of a call that was answered with success and the skill links are untouched, although
\* further calls may fail in their preparation and the runner may die.
SuccessIsClean ==
  \A c \in Call : reply[c] = "success" /\ last = c =>
    ~remotes[ws[c]] /\ skills[ws[c]] \in {"fresh", "none"}

\* A task is handed to OpenHands at most once, although callers give up, the runner
\* dies and comes back and connections are lost; a caller told of success, failure or a
\* violation had its own task run ("OpenHands task timed out" may be about git instead).
RunsOnce ==
  \A c \in Call : /\ ran[c] <= 1
                  /\ reply[c] \in {"success", "failure", "violation"} => ran[c] = 1

\* A connected caller gets an end without its own socket timeout: an answer, or the
\* end of the stream, although OpenHands may run for ever and the runner may die.
CallsEnd == \A c \in Call : caller[c] = "waiting" ~> caller[c] = "done"

\* docs/BUILDER_OPENHANDS_LSP.md: "After OpenHands exits, the runner checks Git
\* remotes and the managed skill-link view again. Added remotes are removed".
AddedRemotesRemoved ==
  pc = "respond" /\ last = cur => ~remotes[Workdir]
=============================================================================
