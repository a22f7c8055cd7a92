--------------------------- MODULE StatusOverview ---------------------------
(***************************************************************************)
(* From a role's queue database to the operator's page.  The page polls    *)
(* GET /api/overview; OverviewCoordinator (dashboard/src/server/           *)
(* overview.ts) answers from its cache, from the collection in flight or   *)
(* by starting one; a collection asks Docker for the role containers and   *)
(* every role's status server (orchestrator/.../status_server.py) for a    *)
(* snapshot of its database (status_snapshot.py), under one deadline.      *)
(*                                                                         *)
(* A snapshot is two SELECTs in autocommit mode, so the orchestrator may   *)
(* commit between them; Docker is listed first and inspected container by  *)
(* container; a read that outlives the deadline is ignored when it ends.   *)
(* The error codes that a failing source is given, and the texts, ids and  *)
(* times of items and containers, are abstracted: a source has failed, and *)
(* an item is its key.                                                     *)
(***************************************************************************)
EXTENDS Integers, Sequences, FiniteSets, FiniteSetsExt, QueueRows

CONSTANTS
  Role,            \* ROLE_SLUGS
  Work,            \* assignment keys of a role
  Enabled,         \* the roles whose orchestrator is enabled
  Unsafe,          \* the keys whose rows the snapshot cannot represent
  InitialQueues,   \* what the databases may hold at the start
  Present,         \* the roles that have a container at the start
  DockerStatus,    \* State.Status as Docker reports it
  Health,          \* State.Health.Status, "none" without a health check
  MaxCollections,  \* bound: promises of #collect that are pending together
  MaxItems,        \* MAX_QUEUE_ITEMS
  MaxBytes,        \* MAX_RESPONSE_BYTES, in items
  MaxCommits,      \* bound: commits and due times over all the roles
  MaxRows,         \* bound: rows that one commit changes
  MaxChanges,      \* bound: changes of containers
  MaxShows,        \* bound: how often the page becomes visible again
  MaxRestarts      \* bound: restarts of the dashboard

ASSUME BoundsAssumption ==
  /\ Role # {} /\ IsFiniteSet(Role) /\ IsFiniteSet(Work)
  /\ Enabled \subseteq Role /\ Present \subseteq Role /\ Unsafe \subseteq Work
  /\ InitialQueues \subseteq [Role -> [Work -> Status]]
  /\ MaxItems \in Nat /\ MaxBytes \in Nat /\ MaxCollections \in Nat \ {0}
  /\ MaxCommits \in Nat /\ MaxRows \in Nat /\ MaxChanges \in Nat
  /\ MaxShows \in Nat /\ MaxRestarts \in Nat

VARIABLES
  log,        \* log[r]: the contents role r's database has had, the current one last
  container,  \* container[r]: the role's container, or NoContainer
  coll,       \* coll[k]: the state of collection k
  inFlight,   \* #inFlight: the collection that callers join, or NoCollection
  cached,     \* #cached: the last overview, until it expires, or NoOverview
  page,       \* the browser's page and its query
  commits, changes, shows, restarts   \* counters of the bounds

vars == <<log, container, coll, inFlight, cached, page, commits, changes, shows, restarts>>
sources == <<log, container, commits, changes>>
server == <<coll, inFlight, cached>>
browser == <<page, shows>>

NoContainer == [id |-> 0, status |-> "absent", health |-> "none"]
Collection == 1 .. MaxCollections
NoCollection == 0
NoOverview == [partial |-> FALSE, roles |-> <<>>]

-----------------------------------------------------------------------------
(* The role database.                                                      *)

\* The changes of a row that a queue behaving like RoleQueue can show.
Moves(s) == TickMoves(s) \cup RequeueMoves(s)

Version(r) == Len(log[r])
Database(r) == log[r][Version(r)]
Having(db, s) == {w \in Work : db[w] = s}
Open(db) == {w \in Work : db[w] \notin {"none", "COMPLETED"}}

\* A tick, a reconciliation or a requeue commits what it did to the rows.
Commit(r) ==
  /\ commits < MaxCommits
  /\ \E db \in [Work -> Status] :
       /\ Cardinality({w \in Work : db[w] # Database(r)[w]}) \in 1 .. MaxRows
       /\ \A w \in Work : db[w] \in Moves(Database(r)[w]) \cup {Database(r)[w]}
       /\ log' = [log EXCEPT ![r] = Append(@, db)]
  /\ commits' = commits + 1
  /\ UNCHANGED <<container, changes, server, browser, restarts>>

-----------------------------------------------------------------------------
(* The queue part of deriveAgentState: from the counters, by priority.     *)
QueueState(r, db) ==
  IF Having(db, "blocked") # {} THEN "BLOCKED"
  ELSE IF Having(db, "STARTED") # {} THEN "WORKING"
  ELSE IF Having(db, "due") # {} THEN "QUEUED"
  ELSE IF Having(db, "delayed") # {} THEN "WAITING"
  ELSE IF r \in Enabled THEN "IDLE" ELSE "DISABLED"

\* Mutant: due assignments come first.
RankDueFirst(s) ==
  CASE s = "due" -> 0 [] s = "STARTED" -> 1 [] s = "blocked" -> 2 [] s = "delayed" -> 3

\* The place of a row in the ORDER BY of the items.
Rank(s) ==
  CASE s = "STARTED" -> 0
    [] s = "blocked" -> 1
    [] s = "due"     -> 2
    [] s = "delayed" -> 3

\* _sanitize_item drops the rows that the snapshot cannot represent.
Sanitized(S) == S \ Unsafe

\* LIMIT keeps the first rows; rows of one rank come in the order of their
\* times, which may be any.
ItemLists(db) ==
  {Sanitized(S) : S \in
    {T \in SUBSET Open(db) :
      /\ Cardinality(T) = Min({MaxItems, Cardinality(Open(db))})
      /\ \A w \in T, v \in Open(db) \ T : Rank(db[w]) <= Rank(db[v])}}

-----------------------------------------------------------------------------
(* Containers: they change state, and are removed and created anew under   *)
(* another id.                                                             *)

Containers == [id : 1 .. (MaxChanges + 1), status : DockerStatus, health : Health]

Running(r) == container[r].status = "running"

ContainerChange(r) ==
  /\ changes < MaxChanges
  /\ container' \in
       {[container EXCEPT ![r] = c] : c \in
          IF container[r] = NoContainer
            THEN {d \in Containers : d.id = changes + 2}
            ELSE {d \in Containers : d.id = container[r].id} \cup {NoContainer}}
  /\ container' # container
  /\ changes' = changes + 1
  /\ UNCHANGED <<log, commits, server, browser, restarts>>

\* Mutant: Docker's own word for the state is passed on.
rawState(c) == c.status

\* dockerState, on what normalizeInspect makes of the health.
dockerState(c) ==
  IF c.status = "restarting" THEN "RESTARTING"
  ELSE IF c.status = "paused" THEN "PAUSED"
  ELSE IF c.status \in {"created", "exited", "dead"} THEN "STOPPED"
  ELSE IF c.status = "absent" THEN "MISSING"
  ELSE IF c.status # "running" THEN "UNKNOWN"
  ELSE IF c.health = "unhealthy" THEN "UNHEALTHY"
  ELSE IF c.health = "starting" THEN "STARTING"
  ELSE IF c.health = "unknown" THEN "UNKNOWN" ELSE "RUNNING"

DockerState == {"RESTARTING", "PAUSED", "STOPPED", "UNHEALTHY", "STARTING",
                "UNKNOWN", "RUNNING", "MISSING"}

-----------------------------------------------------------------------------
(* A collection.  since[r] is the version of role r's database when it     *)
(* began; ids are the containers listed and not yet inspected; read[r] is  *)
(* the request to role r: the versions that its counters and its items     *)
(* were read from.                                                         *)

NoRead(stage) == [stage |-> stage, counts |-> 0, rows |-> 0, items |-> {}]

Idle ==
  [on |-> FALSE, since |-> [r \in Role |-> 0],
   docker |-> "asked", ids |-> [r \in Role |-> 0], seen |-> [r \in Role |-> "MISSING"],
   read |-> [r \in Role |-> NoRead("asked")]]

Begun == [Idle EXCEPT !.on = TRUE, !.since = [r \in Role |-> Version(r)]]

DockerPending(k) == coll[k].on /\ coll[k].docker \in {"asked", "listed"}
ReadPending(k, r) == coll[k].on /\ coll[k].read[r].stage \in {"asked", "counted"}

\* GET /containers/json, with the label filter; a MISSING snapshot for the rest.
DockerList(k) ==
  /\ DockerPending(k) /\ coll[k].docker = "asked"
  /\ coll' = [coll EXCEPT
       ![k].ids = [r \in Role |-> container[r].id],
       ![k].docker = IF \A r \in Role : container[r] = NoContainer THEN "ok" ELSE "listed"]
  /\ UNCHANGED <<sources, inFlight, cached, browser, restarts>>

\* GET /containers/{id}/json: 404 for a container that is gone, which fails
\* the whole of listRoleContainers.
DockerInspect(k, r) ==
  /\ DockerPending(k) /\ coll[k].docker = "listed" /\ coll[k].ids[r] # 0
  /\ coll' = [coll EXCEPT ![k] =
       IF container[r].id # coll[k].ids[r]
         THEN [@ EXCEPT !.docker = "failed"]
         ELSE [@ EXCEPT !.ids[r] = 0,
                        !.seen[r] = dockerState(container[r]),
                        !.docker = IF \A q \in Role \ {r} : coll[k].ids[q] = 0
                                     THEN "ok" ELSE "listed"]]
  /\ UNCHANGED <<sources, inFlight, cached, browser, restarts>>

\* fetchJson's timeout, an answer that is no answer, or a list that names a
\* role twice.
DockerFails(k) ==
  /\ DockerPending(k)
  /\ coll' = [coll EXCEPT ![k].docker = "failed"]
  /\ UNCHANGED <<sources, inFlight, cached, browser, restarts>>

\* The first SELECT of read_role_status_snapshot, the counters.
ReadCounters(k, r) ==
  /\ ReadPending(k, r) /\ coll[k].read[r].stage = "asked" /\ Running(r)
  /\ coll' = [coll EXCEPT ![k].read[r] =
       [stage |-> "counted", counts |-> Version(r), rows |-> 0, items |-> {}]]
  /\ UNCHANGED <<sources, inFlight, cached, browser, restarts>>

\* Mutant: the items come from a reader that need not see the last commit.
ReadOldItems(k, r) ==
  /\ ReadPending(k, r) /\ coll[k].read[r].stage = "counted" /\ Running(r)
  /\ \E v \in 1 .. Version(r) : \E S \in ItemLists(log[r][v]) :
       coll' = [coll EXCEPT ![k].read[r] =
         [stage |-> "ok", counts |-> @.counts, rows |-> v, items |-> S]]
  /\ UNCHANGED <<sources, inFlight, cached, browser, restarts>>

\* The second SELECT, the items, and the answer; _send_json turns one that is
\* too large into a 500.
ReadItems(k, r) ==
  /\ ReadPending(k, r) /\ coll[k].read[r].stage = "counted" /\ Running(r)
  /\ \E S \in ItemLists(Database(r)) :
       coll' = [coll EXCEPT
         ![k].read[r] = IF Cardinality(S) > MaxBytes
                          THEN NoRead("failed")
                          ELSE [stage |-> "ok", counts |-> @.counts,
                                rows |-> Version(r), items |-> S]]
  /\ UNCHANGED <<sources, inFlight, cached, browser, restarts>>

\* No database or an incompatible one, sqlite_busy, an answer that
\* parseRoleStatusPayload rejects, no connection, or fetchJson's timeout.
ReadFails(k, r) ==
  /\ ReadPending(k, r)
  /\ coll' = [coll EXCEPT ![k].read[r] = NoRead("failed")]
  /\ UNCHANGED <<sources, inFlight, cached, browser, restarts>>

\* AggregateDeadline: what is still pending loses the race to its timer.
DeadlineExpires(k) ==
  /\ DockerPending(k) \/ \E r \in Role : ReadPending(k, r)
  /\ coll' = [coll EXCEPT
       ![k].docker = IF DockerPending(k) THEN "failed" ELSE @,
       ![k].read = [r \in Role |-> IF ReadPending(k, r) THEN NoRead("failed") ELSE @[r]]]
  /\ UNCHANGED <<sources, inFlight, cached, browser, restarts>>

-----------------------------------------------------------------------------
(* The overview made of a collection.                                      *)

\* Mutant: a failed read counts as the empty queue.
deriveFromEmpty(r, state, read) ==
  IF state \in {"MISSING", "STOPPED", "UNHEALTHY", "RESTARTING"} THEN "UNAVAILABLE"
  ELSE IF state # "RUNNING" THEN "UNKNOWN"
  ELSE QueueState(r, IF read.stage = "failed" THEN [w \in Work |-> "none"]
                                              ELSE log[r][read.counts])

\* deriveAgentState; state is RUNNING only if the health is known.
deriveAgentState(r, state, read) ==
  IF state \in {"MISSING", "STOPPED", "UNHEALTHY", "RESTARTING"} THEN "UNAVAILABLE"
  ELSE IF state # "RUNNING" THEN "UNKNOWN"
  ELSE IF read.stage = "failed" THEN "UNAVAILABLE"
  ELSE QueueState(r, log[r][read.counts])

RoleOverview(k, r) ==
  LET c == coll[k]
      state == IF c.docker = "ok" THEN c.seen[r] ELSE "UNKNOWN"
  IN [state |-> state, agent |-> deriveAgentState(r, state, c.read[r]),
      counts |-> c.read[r].counts, rows |-> c.read[r].rows, items |-> c.read[r].items,
      since |-> c.since[r]]

Overview(k) ==
  [partial |-> coll[k].docker = "failed" \/ \E r \in Role : coll[k].read[r].stage = "failed",
   roles |-> [r \in Role |-> RoleOverview(k, r)]]

\* sendJson of the dashboard: an overview over the limit is a 503.
TooLarge(o) == Cardinality({x \in Role \X Work : x[2] \in o.roles[x[1]].items}) > MaxBytes

\* What the page makes of the answer: a failure keeps the data of before.
Answered(p, o) ==
  IF TooLarge(o) THEN [p EXCEPT !.waits = NoCollection, !.error = TRUE]
                 ELSE [p EXCEPT !.waits = NoCollection, !.error = FALSE, !.view = o]

\* #collect ends: its value is cached, no longer in flight, and answered to
\* whoever waits for it.
CollectionEnds(k) ==
  /\ coll[k].on /\ ~DockerPending(k) /\ \A r \in Role : ~ReadPending(k, r)
  /\ cached' = Overview(k)
  /\ inFlight' = IF inFlight = k THEN NoCollection ELSE inFlight
  /\ coll' = [coll EXCEPT ![k] = Idle]
  /\ page' = IF page.waits = k THEN Answered(page, Overview(k)) ELSE page
  /\ UNCHANGED <<sources, shows, restarts>>

\* Mutant: only a partial overview expires.
KeepComplete ==
  /\ cached # NoOverview /\ cached.partial
  /\ cached' = NoOverview
  /\ UNCHANGED <<sources, coll, inFlight, browser, restarts>>

\* #cached.expiresAt has come.
CacheExpires ==
  /\ cached # NoOverview
  /\ cached' = NoOverview
  /\ UNCHANGED <<sources, coll, inFlight, browser, restarts>>

\* getOverview on behalf of page p.
getOverview(p) ==
  \/ /\ cached # NoOverview
     /\ page' = Answered(p, cached)
     /\ UNCHANGED server
  \/ /\ cached = NoOverview /\ inFlight # NoCollection
     /\ page' = [p EXCEPT !.waits = inFlight]
     /\ UNCHANGED server
  \/ /\ cached = NoOverview /\ inFlight = NoCollection
     /\ \E k \in Collection :
          /\ ~coll[k].on /\ \A j \in Collection : j < k => coll[j].on
          /\ coll' = [coll EXCEPT ![k] = Begun]
          /\ inFlight' = k
          /\ page' = [p EXCEPT !.waits = k]
     /\ UNCHANGED cached

-----------------------------------------------------------------------------
(* The page.                                                               *)

\* The polling interval, or the button, while nothing is being fetched.
Refresh ==
  /\ page.visible /\ page.waits = NoCollection
  /\ getOverview(page)
  /\ UNCHANGED <<sources, shows, restarts>>

Hide ==
  /\ page.visible /\ shows < MaxShows
  /\ page' = [page EXCEPT !.visible = FALSE]
  /\ UNCHANGED <<sources, server, shows, restarts>>

\* visibilitychange: refetch, which cancels the fetch under way if there is
\* data already and joins it otherwise.
Show ==
  /\ ~page.visible /\ shows < MaxShows
  /\ shows' = shows + 1
  /\ IF page.waits # NoCollection /\ page.view = NoOverview
       THEN page' = [page EXCEPT !.visible = TRUE] /\ UNCHANGED server
       ELSE getOverview([page EXCEPT !.visible = TRUE, !.waits = NoCollection])
  /\ UNCHANGED <<sources, restarts>>

\* The dashboard keeps nothing; a fetch under way, or one while it is down,
\* fails.
DashboardRestart ==
  /\ restarts < MaxRestarts
  /\ restarts' = restarts + 1
  /\ coll' = [k \in Collection |-> Idle]
  /\ inFlight' = NoCollection
  /\ cached' = NoOverview
  /\ \/ page' = [page EXCEPT !.waits = NoCollection, !.error = TRUE]
     \/ page.waits = NoCollection /\ page' = page
  /\ UNCHANGED <<sources, shows>>

-----------------------------------------------------------------------------
Init ==
  /\ \E q \in InitialQueues : log = [r \in Role |-> <<q[r]>>]
  /\ container \in [Role -> {c \in Containers : c.id = 1} \cup {NoContainer}]
  /\ \A r \in Role : container[r] # NoContainer <=> r \in Present
  /\ coll = [k \in Collection |-> Idle]
  /\ inFlight = NoCollection
  /\ cached = NoOverview
  /\ page = [visible |-> TRUE, waits |-> NoCollection, view |-> NoOverview, error |-> FALSE]
  /\ commits = 0 /\ changes = 0 /\ shows = 0 /\ restarts = 0

Collect(k) ==
  \/ DockerList(k) \/ DockerFails(k) \/ DeadlineExpires(k) \/ CollectionEnds(k)
  \/ \E r \in Role : DockerInspect(k, r) \/ ReadCounters(k, r) \/ ReadItems(k, r) \/ ReadFails(k, r)

Next ==
  \/ \E r \in Role : ContainerChange(r) \/ Commit(r)
  \/ \E k \in Collection : Collect(k)
  \/ CacheExpires \/ Refresh \/ Hide \/ Show \/ DashboardRestart

\* The timers of the deadline, of the cache (its TTL) and of the polling, and
\* the continuation of settled promises; no source has to answer.
Fairness ==
  /\ \A k \in Collection : WF_vars(DeadlineExpires(k)) /\ WF_vars(CollectionEnds(k))
  /\ WF_vars(CacheExpires)
  /\ WF_vars(Refresh)

Spec == Init /\ [][Next]_vars /\ Fairness

-----------------------------------------------------------------------------
(* Properties.                                                             *)

AgentState == {"UNAVAILABLE", "UNKNOWN", "BLOCKED", "WORKING", "QUEUED", "WAITING",
               "IDLE", "DISABLED"}
QueueStates == AgentState \ {"UNAVAILABLE", "UNKNOWN"}

RoleOverviews ==
  [state : DockerState, agent : AgentState, counts : Nat, rows : Nat,
   items : SUBSET Work, since : Nat]
Overviews == [partial : BOOLEAN, roles : [Role -> RoleOverviews]] \cup {NoOverview}
Reads == [stage : {"asked", "counted", "ok", "failed"}, counts : Nat, rows : Nat,
          items : SUBSET Work]
Collections ==
  [on : BOOLEAN, since : [Role -> Nat], docker : {"asked", "listed", "ok", "failed"},
   ids : [Role -> Nat], seen : [Role -> DockerState], read : [Role -> Reads]]

\* The variables have their types.
TypeOK ==
  /\ log \in [Role -> Seq([Work -> Status])] /\ \A r \in Role : Version(r) > 0
  /\ container \in [Role -> Containers \cup {NoContainer}]
  /\ coll \in [Collection -> Collections]
  /\ inFlight \in Collection \cup {NoCollection}
  /\ cached \in Overviews
  /\ page \in [visible : BOOLEAN, waits : Collection \cup {NoCollection},
               view : Overviews, error : BOOLEAN]
  /\ commits \in 0 .. MaxCommits /\ changes \in 0 .. MaxChanges
  /\ shows \in 0 .. MaxShows /\ restarts \in 0 .. MaxRestarts

\* The roles whose queue overview o shows.
Read(o) == IF o = NoOverview THEN {} ELSE {r \in Role : o.roles[r].rows # 0}

\* Collections do not overlap, nor does one overlap a cached overview.
SingleFlight == \A k \in Collection : coll[k].on => inFlight = k /\ cached = NoOverview

\* What collection c has read of role r, it has read since it began.
InOrder(c, r) ==
  /\ c.since[r] <= Version(r)
  /\ c.read[r].stage \in {"counted", "ok"} =>
       c.since[r] <= c.read[r].counts /\ c.read[r].counts <= Version(r)
  /\ IF c.read[r].stage = "ok"
       THEN c.since[r] <= c.read[r].rows /\ c.read[r].rows <= Version(r)
       ELSE c.read[r].rows = 0

ReadsInOrder == \A k \in Collection, r \in Role : coll[k].on => InOrder(coll[k], r)

\* Overview o shows nothing of role r that is newer than version v.
Within(o, r, v) == r \in Read(o) => o.roles[r].counts <= v /\ o.roles[r].rows <= v

\* The page is not ahead of the cache, nor of what collections began with, and
\* the cache not ahead of the databases.
ViewsInOrder ==
  \A r \in Role :
    /\ Within(page.view, r, Version(r)) /\ Within(cached, r, Version(r))
    /\ \A k \in Collection : coll[k].on => Within(page.view, r, coll[k].since[r])
    /\ r \in Read(cached) \cap Read(page.view) =>
         /\ page.view.roles[r].counts <= cached.roles[r].counts
         /\ page.view.roles[r].rows <= cached.roles[r].rows

\* A cached overview or the collection in flight answers everyone, and so what
\* the page shows, what is cached and what is being read are in the order of
\* the databases' versions (overview.ts: getOverview).
OrderInv == SingleFlight /\ ReadsInOrder /\ ViewsInOrder

\* The overview x of role r shows contents that its database, with history h,
\* has had since the collection began.
Happened(h, r, x) ==
  /\ x.agent \in QueueStates =>
       /\ x.state = "RUNNING" /\ x.rows # 0
       /\ 0 < x.since /\ x.since <= x.counts /\ x.counts <= Len(h)
       /\ QueueState(r, h[x.counts]) = x.agent
  /\ x.rows # 0 => x.rows <= Len(h) /\ x.items \in ItemLists(h[x.rows])

Genuine(o) == o # NoOverview => \A r \in Role : Happened(log[r], r, o.roles[r])

\* What collection c has listed of role r, the database had.
ItemsHappened(h, r, c) ==
  /\ 0 < c.since[r]
  /\ c.read[r].stage = "ok" => c.read[r].items \in ItemLists(h[c.read[r].rows])

\* Whatever is read, cached or shown of a queue is part of its history, and stays so.
HistoryInv ==
  /\ \A k \in Collection, r \in Role : coll[k].on => ItemsHappened(log[r], r, coll[k])
  /\ Genuine(cached) /\ Genuine(page.view)

\* A page that is replaced never shows a role's queue as it was before what the
\* page showed already, although refetches are cancelled, answers come from
\* the cache, and a collection may outlive the request that began it.
ViewsMoveForward ==
  [][\A r \in Read(page.view) \cap Read(page'.view) :
       /\ page'.view.roles[r].counts >= page.view.roles[r].counts
       /\ page'.view.roles[r].rows >= page.view.roles[r].rows]_page

\* An agent state on the page that is about the role's queue (working, queued,
\* idle, ...) is the state of a content that the database really had since the
\* collection behind the page began, and Docker said then that the role runs:
\* neither a failed read nor an earlier answer passes for it.
AgentStateHappened ==
  page.view # NoOverview =>
    \A r \in Role :
      LET o == page.view.roles[r] IN
      o.agent \in QueueStates =>
        /\ o.state = "RUNNING"
        /\ \E v \in o.since .. Version(r) : QueueState(r, log[r][v]) = o.agent

\* A role that is shown as working shows what it works on, unless a commit came
\* between the two SELECTs or its row cannot be represented: LIMIT cuts
\* other items first.
ActiveIsListed ==
  page.view # NoOverview =>
    \A r \in Role :
      LET o == page.view.roles[r] IN
      (o.agent = "WORKING" /\ o.counts = o.rows /\ MaxItems > 0) =>
        Having(log[r][o.rows], "STARTED") \cap (o.items \cup Unsafe) # {}

\* The page shows the sources as they are now.
Current ==
  /\ page.view # NoOverview
  /\ \A r \in Role :
       /\ page.view.roles[r].rows = Version(r) /\ page.view.roles[r].counts = Version(r)
       /\ page.view.roles[r].state = dockerState(container[r])

\* A visible page that from some time on shows no notice (of partial data or of
\* a failed refresh) comes to show the sources as they are, once they no
\* longer change: no collection, cache entry or fetch gets stuck.
ViewCatchesUp ==
  <>[](page.visible /\ ~page.error /\ ~page.view.partial) => <>[]Current
=============================================================================
