------------------------ MODULE StatusOverviewProofs ------------------------
(***************************************************************************)
(* For any roles, databases, containers and bounds: the types of           *)
(* StatusOverview, and that the page never goes back in a role's history.  *)
(***************************************************************************)
EXTENDS StatusOverview, FiniteSetTheorems, TLAPS

USE BoundsAssumption DEF Collection, NoCollection

-----------------------------------------------------------------------------
(* What the operators of the model return.                                 *)

\* The current content of a database.
LEMMA DatabaseType ==
  ASSUME TypeOK, NEW r \in Role
  PROVE  Version(r) \in Nat \ {0} /\ Database(r) \in [Work -> Status]
  BY DEF TypeOK, Version, Database

\* Lists of items are sets of keys.
LEMMA ItemListsType == ASSUME NEW db, NEW S \in ItemLists(db) PROVE S \in SUBSET Work
  BY DEF ItemLists, Sanitized, Open

\* dockerState gives one of the states the page knows.
LEMMA dockerStateType == ASSUME NEW c PROVE dockerState(c) \in DockerState
  BY DEF dockerState, DockerState

\* deriveAgentState knows every container state.
LEMMA deriveType ==
  ASSUME NEW r, NEW state \in DockerState, NEW read
  PROVE  deriveAgentState(r, state, read) \in AgentState
  <1>1. QueueState(r, log[r][read.counts]) \in AgentState
    BY DEF QueueState, AgentState
  <1> QED BY <1>1 DEF deriveAgentState, DockerState, AgentState

\* An overview has the type of overviews.
LEMMA OverviewType ==
  ASSUME TypeOK, NEW k \in Collection
  PROVE  Overview(k) \in Overviews
  <1>1. coll[k] \in Collections
    BY DEF TypeOK
  <1>2. ASSUME NEW r \in Role PROVE RoleOverview(k, r) \in RoleOverviews
    <2> DEFINE state == IF coll[k].docker = "ok" THEN coll[k].seen[r] ELSE "UNKNOWN"
    <2>1. state \in DockerState
      BY <1>1 DEF Collections, DockerState
    <2>2. deriveAgentState(r, state, coll[k].read[r]) \in AgentState
      BY <2>1, deriveType
    <2>3. coll[k].read[r] \in Reads /\ coll[k].since[r] \in Nat
      BY <1>1 DEF Collections
    <2> HIDE DEF state
    <2> QED BY <2>1, <2>2, <2>3 DEF RoleOverview, RoleOverviews, Reads, state
  <1> QED BY <1>2 DEF Overview, Overviews

\* A failed read is a read, and an idle collection a collection.
LEMMA IdleType ==
  /\ Idle \in Collections /\ NoRead("asked") \in Reads /\ NoRead("failed") \in Reads
  /\ ~Idle.on
  BY DEF Idle, NoRead, Collections, Reads, DockerState

\* Replacing a part of a collection, or the whole.
LEMMA CollType ==
  ASSUME TypeOK, NEW k \in Collection
  PROVE  /\ coll[k] \in Collections
         /\ \A c \in Collections : [coll EXCEPT ![k] = c] \in [Collection -> Collections]
         /\ \A d \in {"asked", "listed", "ok", "failed"} : [coll[k] EXCEPT !.docker = d] \in Collections
         /\ \A r \in Role, x \in Reads : [coll[k] EXCEPT !.read[r] = x] \in Collections
  <1>1. coll[k] \in Collections
    BY DEF TypeOK
  <1>2. ASSUME NEW c \in Collections, NEW d \in {"asked", "listed", "ok", "failed"}
        PROVE  [c EXCEPT !.docker = d] \in Collections
    BY DEF Collections
  <1>3. ASSUME NEW c \in Collections, NEW r \in Role, NEW x \in Reads
        PROVE  [c EXCEPT !.read[r] = x] \in Collections
    BY DEF Collections
  <1>4. \A c \in Collections : [coll EXCEPT ![k] = c] \in [Collection -> Collections]
    BY DEF TypeOK
  <1> QED BY <1>1, <1>2, <1>3, <1>4

\* What the page makes of an overview.
LEMMA AnsweredType ==
  ASSUME TypeOK, NEW o \in Overviews,
         NEW p \in [visible : BOOLEAN, waits : Collection \cup {NoCollection},
                    view : Overviews, error : BOOLEAN]
  PROVE  Answered(p, o) \in [visible : BOOLEAN, waits : Collection \cup {NoCollection},
                             view : Overviews, error : BOOLEAN]
  BY DEF Answered

-----------------------------------------------------------------------------
(* Types.                                                                  *)

LEMMA TypeInit == Init => TypeOK
  <1> SUFFICES ASSUME Init PROVE TypeOK
    OBVIOUS
  <1>1. log \in [Role -> Seq([Work -> Status])] /\ \A r \in Role : Version(r) > 0
    BY DEF Init, Version
  <1>2. coll \in [Collection -> Collections]
    BY IdleType DEF Init
  <1>3. container \in [Role -> Containers \cup {NoContainer}]
    BY DEF Init
  <1>4. NoOverview \in Overviews
    BY DEF Overviews
  <1>5. page \in [visible : BOOLEAN, waits : Collection \cup {NoCollection},
                  view : Overviews, error : BOOLEAN]
    BY <1>4 DEF Init
  <1>6. /\ inFlight \in Collection \cup {NoCollection} /\ cached \in Overviews
        /\ commits \in 0 .. MaxCommits /\ changes \in 0 .. MaxChanges
        /\ shows \in 0 .. MaxShows /\ restarts \in 0 .. MaxRestarts
    BY <1>4 DEF Init
  <1> QED BY <1>1, <1>2, <1>3, <1>5, <1>6 DEF TypeOK

\* The steps of a collection keep the types.
LEMMA TypeCollect ==
  ASSUME TypeOK, NEW k \in Collection, Collect(k)
  PROVE  TypeOK'
  <1> USE DEF sources, browser
  <1>0. coll[k] \in Collections
    BY CollType
  <1>1. ASSUME coll' \in [Collection -> Collections],
               UNCHANGED <<sources, inFlight, cached, browser, restarts>>
        PROVE  TypeOK'
    BY <1>1 DEF TypeOK, Version
  <1>c. ASSUME NEW c \in Collections, coll' = [coll EXCEPT ![k] = c],
               UNCHANGED <<sources, inFlight, cached, browser, restarts>>
        PROVE  TypeOK'
    <2>1. coll' \in [Collection -> Collections]
      BY <1>c, CollType
    <2> QED BY <1>1, <1>c, <2>1
  <1>2. CASE DockerList(k)
    <2> DEFINE c == [coll[k] EXCEPT !.ids = [r \in Role |-> container[r].id],
                       !.docker = IF \A r \in Role : container[r] = NoContainer THEN "ok" ELSE "listed"]
    <2>1. \A r \in Role : container[r].id \in Nat
      BY DEF TypeOK, Containers, NoContainer
    <2>2. c \in Collections
      BY <1>0, <2>1 DEF Collections
    <2>3. coll' = [coll EXCEPT ![k] = c]
      BY <1>2 DEF DockerList, TypeOK
    <2>4. UNCHANGED <<sources, inFlight, cached, browser, restarts>>
      BY <1>2 DEF DockerList
    <2> HIDE DEF c
    <2> QED BY <1>c, <2>2, <2>3, <2>4
  <1>3. CASE DockerFails(k)
    <2> DEFINE c == [coll[k] EXCEPT !.docker = "failed"]
    <2>1. c \in Collections
      BY CollType
    <2>2. coll' = [coll EXCEPT ![k] = c]
      BY <1>3 DEF DockerFails, TypeOK
    <2>3. UNCHANGED <<sources, inFlight, cached, browser, restarts>>
      BY <1>3 DEF DockerFails
    <2> HIDE DEF c
    <2> QED BY <1>c, <2>1, <2>2, <2>3
  <1>4. CASE DeadlineExpires(k)
    <2> DEFINE c == [coll[k] EXCEPT
           !.docker = IF DockerPending(k) THEN "failed" ELSE @,
           !.read = [r \in Role |-> IF ReadPending(k, r) THEN NoRead("failed") ELSE @[r]]]
    <2>1. c \in Collections
      BY <1>0, IdleType DEF Collections
    <2>2. coll' = [coll EXCEPT ![k] = c]
      BY <1>4 DEF DeadlineExpires, TypeOK
    <2>3. UNCHANGED <<sources, inFlight, cached, browser, restarts>>
      BY <1>4 DEF DeadlineExpires
    <2> HIDE DEF c
    <2> QED BY <1>c, <2>1, <2>2, <2>3
  <1>5. CASE CollectionEnds(k)
    <2>1. Overview(k) \in Overviews
      BY OverviewType
    <2>2. coll' \in [Collection -> Collections]
      BY <1>5, IdleType, CollType DEF CollectionEnds
    <2>3. page' \in [visible : BOOLEAN, waits : Collection \cup {NoCollection},
                     view : Overviews, error : BOOLEAN]
      BY <1>5, <2>1, AnsweredType DEF CollectionEnds, TypeOK
    <2> QED BY <1>5, <2>1, <2>2, <2>3 DEF CollectionEnds, TypeOK, Version
  <1>6. ASSUME NEW r \in Role, DockerInspect(k, r) PROVE TypeOK'
    <2>1. dockerState(container[r]) \in DockerState
      BY dockerStateType
    <2> DEFINE gone == [coll[k] EXCEPT !.docker = "failed"]
               seen == [coll[k] EXCEPT !.ids[r] = 0, !.seen[r] = dockerState(container[r]),
                          !.docker = IF \A q \in Role \ {r} : coll[k].ids[q] = 0
                                       THEN "ok" ELSE "listed"]
    <2>2. gone \in Collections
      BY CollType
    <2>3. seen \in Collections
      BY <1>0, <2>1 DEF Collections
    <2>4. /\ coll' = [coll EXCEPT ![k] = IF container[r].id # coll[k].ids[r] THEN gone ELSE seen]
          /\ UNCHANGED <<sources, inFlight, cached, browser, restarts>>
      BY <1>6 DEF DockerInspect, TypeOK
    <2> HIDE DEF gone, seen
    <2> QED BY <1>c, <2>2, <2>3, <2>4
  <1>7. ASSUME NEW r \in Role, NEW x \in Reads, coll' = [coll EXCEPT ![k].read[r] = x],
               UNCHANGED <<sources, inFlight, cached, browser, restarts>>
        PROVE  TypeOK'
    <2>1. [coll[k] EXCEPT !.read[r] = x] \in Collections
      BY CollType
    <2>2. [coll EXCEPT ![k].read[r] = x] = [coll EXCEPT ![k] = [coll[k] EXCEPT !.read[r] = x]]
      OBVIOUS
    <2> QED BY <1>c, <1>7, <2>1, <2>2
  <1>8. ASSUME NEW r \in Role, ReadCounters(k, r) PROVE TypeOK'
    <2>1. [stage |-> "counted", counts |-> Version(r), rows |-> 0, items |-> {}] \in Reads
      BY DatabaseType DEF Reads
    <2> QED BY <1>7, <1>8, <2>1 DEF ReadCounters
  <1>9. ASSUME NEW r \in Role, ReadItems(k, r) PROVE TypeOK'
    <2>1. PICK S \in ItemLists(Database(r)) :
            coll' = [coll EXCEPT
              ![k].read[r] = IF Cardinality(S) > MaxBytes THEN NoRead("failed")
                             ELSE [stage |-> "ok", counts |-> @.counts,
                                   rows |-> Version(r), items |-> S]]
      BY <1>9 DEF ReadItems
    <2>2. S \in SUBSET Work
      BY ItemListsType
    <2>3. [stage |-> "ok", counts |-> coll[k].read[r].counts,
           rows |-> Version(r), items |-> S] \in Reads
      BY <1>0, <2>2, DatabaseType DEF Collections, Reads
    <2> QED BY <1>7, <1>9, <2>1, <2>3, IdleType DEF ReadItems
  <1>10. ASSUME NEW r \in Role, ReadFails(k, r) PROVE TypeOK'
    BY <1>7, <1>10, IdleType DEF ReadFails
  <1> QED BY <1>2, <1>3, <1>4, <1>5, <1>6, <1>8, <1>9, <1>10 DEF Collect

\* getOverview, for any page that has its type, keeps the types.
LEMMA TypeGetOverview ==
  ASSUME TypeOK, UNCHANGED <<sources, restarts>>, shows' \in 0 .. MaxShows,
         NEW p \in [visible : BOOLEAN, waits : Collection \cup {NoCollection},
                    view : Overviews, error : BOOLEAN],
         getOverview(p)
  PROVE  TypeOK'
  <1>1. page' \in [visible : BOOLEAN, waits : Collection \cup {NoCollection},
                   view : Overviews, error : BOOLEAN]
    <2>1. CASE page' = Answered(p, cached)
      BY <2>1, AnsweredType DEF TypeOK
    <2>2. \A k \in Collection : [p EXCEPT !.waits = k] \in
                [visible : BOOLEAN, waits : Collection \cup {NoCollection},
                 view : Overviews, error : BOOLEAN]
      OBVIOUS
    <2> QED BY <2>1, <2>2 DEF getOverview, TypeOK
  <1>2. /\ coll' \in [Collection -> Collections] /\ inFlight' \in Collection \cup {NoCollection}
        /\ cached' \in Overviews
    <2>1. Begun \in Collections
      <3>1. \A r \in Role : Version(r) \in Nat
        BY DatabaseType
      <3> QED BY <3>1, IdleType DEF Begun, Collections
    <2>2. CASE UNCHANGED server
      BY <2>2 DEF server, TypeOK
    <2>3. ASSUME NEW k \in Collection, coll' = [coll EXCEPT ![k] = Begun], inFlight' = k,
                 UNCHANGED cached
          PROVE  /\ coll' \in [Collection -> Collections]
                 /\ inFlight' \in Collection \cup {NoCollection} /\ cached' \in Overviews
      BY <2>1, <2>3, CollType DEF TypeOK
    <2> QED BY <2>2, <2>3 DEF getOverview
  <1> QED BY <1>1, <1>2 DEF TypeOK, Version, sources

LEMMA TypeNext == TypeOK /\ [Next]_vars => TypeOK'
  <1> SUFFICES ASSUME TypeOK, [Next]_vars PROVE TypeOK'
    OBVIOUS
  <1> USE DEF sources, browser, server
  <1> DEFINE Pages == [visible : BOOLEAN, waits : Collection \cup {NoCollection},
                       view : Overviews, error : BOOLEAN]
  <1>0. page \in Pages
    BY DEF TypeOK
  <1>1. ASSUME NEW r \in Role, ContainerChange(r) PROVE TypeOK'
    <2>1. PICK c \in Containers \cup {NoContainer} : container' = [container EXCEPT ![r] = c]
      BY <1>1 DEF ContainerChange
    <2>2. container' \in [Role -> Containers \cup {NoContainer}]
      BY <2>1 DEF TypeOK
    <2>3. changes' \in 0 .. MaxChanges
      BY <1>1 DEF ContainerChange, TypeOK
    <2> QED BY <1>1, <2>2, <2>3 DEF ContainerChange, TypeOK, Version
  <1>2. ASSUME NEW r \in Role, Commit(r) PROVE TypeOK'
    <2>1. PICK db \in [Work -> Status] : log' = [log EXCEPT ![r] = Append(@, db)]
      BY <1>2 DEF Commit
    <2>2. log[r] \in Seq([Work -> Status])
      BY DEF TypeOK
    <2>3. /\ Append(log[r], db) \in Seq([Work -> Status])
          /\ Len(Append(log[r], db)) = Version(r) + 1
      BY <2>2 DEF Version
    <2>4. commits' \in 0 .. MaxCommits
      BY <1>2, BoundsAssumption DEF Commit, TypeOK
    <2>5. log' \in [Role -> Seq([Work -> Status])] /\ \A q \in Role : Version(q)' > 0
      BY <2>1, <2>3, DatabaseType DEF TypeOK, Version
    <2> QED BY <1>2, <2>4, <2>5 DEF Commit, TypeOK
  <1>3. ASSUME NEW k \in Collection, Collect(k) PROVE TypeOK'
    BY <1>3, TypeCollect
  <1>4. CASE CacheExpires
    BY <1>4 DEF CacheExpires, TypeOK, Version, Overviews
  <1>5. CASE Refresh
    BY <1>0, <1>5, TypeGetOverview DEF Refresh, TypeOK
  <1>6. CASE Hide
    <2>1. [page EXCEPT !.visible = FALSE] \in Pages
      BY <1>0
    <2> QED BY <1>6, <2>1 DEF Hide, TypeOK, Version
  <1>7. CASE Show
    <2>1. [page EXCEPT !.visible = TRUE] \in Pages
      BY <1>0
    <2>2. [page EXCEPT !.visible = TRUE, !.waits = NoCollection] \in Pages
      BY <1>0
    <2>s. shows \in 0 .. MaxShows /\ shows < MaxShows /\ shows' = shows + 1
      BY <1>7 DEF Show, TypeOK
    <2>3. shows' \in 0 .. MaxShows
      BY <2>s
    <2>4. CASE page.waits # NoCollection /\ page.view = NoOverview
      BY <1>7, <2>1, <2>3, <2>4 DEF Show, TypeOK, Version
    <2>5. CASE getOverview([page EXCEPT !.visible = TRUE, !.waits = NoCollection])
      BY <1>7, <2>2, <2>3, <2>5, TypeGetOverview DEF Show
    <2> QED BY <1>7, <2>4, <2>5 DEF Show
  <1>8. CASE DashboardRestart
    <2>1. [page EXCEPT !.waits = NoCollection, !.error = TRUE] \in Pages
      BY <1>0
    <2>2. coll' \in [Collection -> Collections]
      BY <1>8, IdleType DEF DashboardRestart
    <2>3. page' \in Pages
      BY <1>0, <1>8, <2>1 DEF DashboardRestart
    <2>r. restarts \in 0 .. MaxRestarts /\ restarts < MaxRestarts /\ restarts' = restarts + 1
      BY <1>8 DEF DashboardRestart, TypeOK
    <2>4. cached' \in Overviews /\ inFlight' = NoCollection /\ restarts' \in 0 .. MaxRestarts
      BY <1>8, <2>r DEF DashboardRestart, Overviews
    <2> QED BY <1>8, <2>2, <2>3, <2>4 DEF DashboardRestart, TypeOK, Version
  <1>9. CASE UNCHANGED vars
    BY <1>9 DEF vars, TypeOK, Version
  <1> QED BY <1>1, <1>2, <1>3, <1>4, <1>5, <1>6, <1>7, <1>8, <1>9 DEF Next

\* Types are kept by the whole system, from the databases to the page.
THEOREM TypeCorrect == Spec => []TypeOK
  BY TypeInit, TypeNext, PTL DEF Spec

-----------------------------------------------------------------------------
(* The order of versions: page, cache, collection, database.               *)

LEMMA OrderInit == Init => OrderInv
  <1> SUFFICES ASSUME Init PROVE OrderInv
    OBVIOUS
  <1>1. \A k \in Collection : ~coll[k].on
    BY IdleType DEF Init
  <1>2. Read(cached) = {} /\ Read(page.view) = {}
    BY DEF Init, Read
  <1> QED BY <1>1, <1>2 DEF OrderInv, SingleFlight, ReadsInOrder, ViewsInOrder, Within

\* A step inside a collection, which leaves it begun when it was.
LEMMA OrderInside ==
  ASSUME TypeOK, OrderInv, NEW k \in Collection, coll[k].on,
         NEW c, coll' = [coll EXCEPT ![k] = c], c.on, c.since = coll[k].since,
         \A r \in Role : InOrder(c, r),
         UNCHANGED <<sources, inFlight, cached, browser, restarts>>
  PROVE  OrderInv'
  <1> USE DEF sources, browser
  <1>1. coll'[k] = c /\ \A j \in Collection \ {k} : coll'[j] = coll[j]
    BY DEF TypeOK
  <1>2. \A r \in Role : Version(r)' = Version(r)
    BY DEF Version
  <1>3. SingleFlight'
    BY <1>1 DEF OrderInv, SingleFlight
  <1>4. ReadsInOrder'
    BY <1>1, <1>2 DEF OrderInv, ReadsInOrder, InOrder
  <1>5. ViewsInOrder'
    BY <1>1, <1>2 DEF OrderInv, ViewsInOrder, Within, Read
  <1> QED BY <1>3, <1>4, <1>5 DEF OrderInv

\* What an overview shows of a queue was read since its collection began.
LEMMA OverviewOrder ==
  ASSUME TypeOK, OrderInv, NEW k \in Collection, coll[k].on, NEW r \in Read(Overview(k))
  PROVE  LET o == Overview(k).roles[r] IN
         /\ r \in Role
         /\ coll[k].since[r] <= o.counts /\ o.counts <= Version(r)
         /\ coll[k].since[r] <= o.rows /\ o.rows <= Version(r)
  <1>1. r \in Role /\ Overview(k).roles[r].rows # 0
    BY DEF Read
  <1>2. /\ Overview(k).roles[r].rows = coll[k].read[r].rows
        /\ Overview(k).roles[r].counts = coll[k].read[r].counts
    BY <1>1 DEF Overview, RoleOverview
  <1>3. InOrder(coll[k], r)
    BY <1>1 DEF OrderInv, ReadsInOrder
  <1> QED BY <1>1, <1>2, <1>3 DEF InOrder

\* The end of a collection.
LEMMA OrderEnds ==
  ASSUME TypeOK, OrderInv, NEW k \in Collection, CollectionEnds(k)
  PROVE  OrderInv'
  <1> DEFINE o == Overview(k)
  <1>1. /\ coll[k].on /\ cached' = o /\ log' = log
        /\ page'.view = page.view \/ page'.view = o
    BY DEF CollectionEnds, Answered, TypeOK, sources
  <1>2. \A j \in Collection : ~coll'[j].on
    BY IdleType DEF CollectionEnds, OrderInv, SingleFlight, TypeOK
  <1>3. SingleFlight' /\ ReadsInOrder'
    BY <1>2 DEF SingleFlight, ReadsInOrder
  <1>4. ASSUME NEW r \in Role
        PROVE  /\ Within(page'.view, r, Version(r)) /\ Within(o, r, Version(r))
               /\ r \in Read(o) \cap Read(page'.view) =>
                    /\ page'.view.roles[r].counts <= o.roles[r].counts
                    /\ page'.view.roles[r].rows <= o.roles[r].rows
    <2>1. Within(o, r, Version(r))
      BY <1>1, OverviewOrder DEF Within
    <2>2. Within(page.view, r, Version(r)) /\ Within(page.view, r, coll[k].since[r])
      BY <1>1 DEF OrderInv, ViewsInOrder
    <2>3. /\ r \in Read(o) => o.roles[r].counts \in Nat /\ o.roles[r].rows \in Nat
          /\ r \in Read(page.view) => page.view.roles[r].counts \in Nat /\ page.view.roles[r].rows \in Nat
          /\ coll[k].since[r] \in Nat
      <3>1. o \in Overviews /\ page.view \in Overviews
        BY OverviewType DEF TypeOK
      <3>2. \A x \in Overviews : r \in Read(x) => x.roles[r] \in RoleOverviews
        BY DEF Read, Overviews
      <3> HIDE DEF o
      <3>3. coll[k].since[r] \in Nat
        <4>1. coll[k] \in Collections
          BY DEF TypeOK
        <4> QED BY <4>1 DEF Collections
      <3>4. \A x \in RoleOverviews : x.counts \in Nat /\ x.rows \in Nat
        BY DEF RoleOverviews
      <3> QED BY <3>1, <3>2, <3>3, <3>4
    <2> HIDE DEF o
    <2>4. CASE page'.view = o
      BY <2>1, <2>3, <2>4
    <2>5. CASE page'.view = page.view
      <3>1. r \in Read(o) => coll[k].since[r] <= o.roles[r].counts /\ coll[k].since[r] <= o.roles[r].rows
        BY <1>1, OverviewOrder DEF o
      <3> QED BY <2>1, <2>2, <2>3, <2>5, <3>1 DEF Within
    <2> QED BY <1>1, <2>4, <2>5
  <1>5. ViewsInOrder'
    <2>1. \A r \in Role : Version(r)' = Version(r)
      BY <1>1 DEF Version
    <2> HIDE DEF o
    <2> QED BY <1>1, <1>2, <1>4, <2>1 DEF ViewsInOrder, Within, Read
  <1> QED BY <1>3, <1>5 DEF OrderInv

\* The steps of a collection.
LEMMA OrderCollect ==
  ASSUME TypeOK, OrderInv, NEW k \in Collection, Collect(k)
  PROVE  OrderInv'
  <1>0. /\ coll[k] \in Collections /\ coll \in [Collection -> Collections]
        /\ coll[k].on => \A r \in Role : InOrder(coll[k], r)
    BY DEF TypeOK, OrderInv, ReadsInOrder
  <1>1. ASSUME coll[k].on,
               NEW c, coll' = [coll EXCEPT ![k] = c], c.on = coll[k].on,
               c.since = coll[k].since, c.read = coll[k].read,
               UNCHANGED <<sources, inFlight, cached, browser, restarts>>
        PROVE  OrderInv'
    <2>1. \A r \in Role : InOrder(c, r)
      BY <1>0, <1>1 DEF InOrder
    <2> QED BY <1>1, <2>1, OrderInside
  <1>2. CASE DockerList(k)
    <2> DEFINE c == [coll[k] EXCEPT !.ids = [r \in Role |-> container[r].id],
                       !.docker = IF \A r \in Role : container[r] = NoContainer THEN "ok" ELSE "listed"]
    <2>1. c.on = coll[k].on /\ c.since = coll[k].since /\ c.read = coll[k].read
      BY <1>0 DEF Collections
    <2>2. coll' = [coll EXCEPT ![k] = c]
      BY <1>2 DEF DockerList
    <2> HIDE DEF c
    <2> QED BY <1>1, <1>2, <2>1, <2>2 DEF DockerList, DockerPending
  <1>3. CASE DockerFails(k)
    <2> DEFINE c == [coll[k] EXCEPT !.docker = "failed"]
    <2>1. c.on = coll[k].on /\ c.since = coll[k].since /\ c.read = coll[k].read
      BY <1>0 DEF Collections
    <2>2. coll' = [coll EXCEPT ![k] = c]
      BY <1>3 DEF DockerFails
    <2> HIDE DEF c
    <2> QED BY <1>1, <1>3, <2>1, <2>2 DEF DockerFails, DockerPending
  <1>4. CASE DeadlineExpires(k)
    <2> DEFINE c == [coll[k] EXCEPT
           !.docker = IF DockerPending(k) THEN "failed" ELSE @,
           !.read = [r \in Role |-> IF ReadPending(k, r) THEN NoRead("failed") ELSE @[r]]]
    <2>1. /\ c.on = coll[k].on /\ c.since = coll[k].since
          /\ c.read = [r \in Role |-> IF ReadPending(k, r) THEN NoRead("failed") ELSE coll[k].read[r]]
      BY <1>0 DEF Collections
    <2>2. coll' = [coll EXCEPT ![k] = c]
      BY <1>4 DEF DeadlineExpires
    <2>3. coll[k].on
      BY <1>4 DEF DeadlineExpires, DockerPending, ReadPending
    <2> HIDE DEF c
    <2>4. ASSUME NEW r \in Role PROVE InOrder(c, r)
      BY <1>0, <2>1, <2>3 DEF InOrder, NoRead
    <2> QED BY <1>4, <2>1, <2>2, <2>3, <2>4, OrderInside DEF DeadlineExpires
  <1>5. CASE CollectionEnds(k)
    BY <1>5, OrderEnds
  <1>6. ASSUME NEW r \in Role, DockerInspect(k, r) PROVE OrderInv'
    <2> DEFINE c == IF container[r].id # coll[k].ids[r]
         THEN [coll[k] EXCEPT !.docker = "failed"]
         ELSE [coll[k] EXCEPT !.ids[r] = 0,
                        !.seen[r] = dockerState(container[r]),
                        !.docker = IF \A q \in Role \ {r} : coll[k].ids[q] = 0
                                     THEN "ok" ELSE "listed"]
    <2>1. c.on = coll[k].on /\ c.since = coll[k].since /\ c.read = coll[k].read
      BY <1>0 DEF Collections
    <2>2. coll' = [coll EXCEPT ![k] = c]
      BY <1>6 DEF DockerInspect
    <2> HIDE DEF c
    <2> QED BY <1>1, <1>6, <2>1, <2>2 DEF DockerInspect, DockerPending
  <1>7. ASSUME coll[k].on, NEW r \in Role, NEW x, coll' = [coll EXCEPT ![k].read[r] = x],
               UNCHANGED <<sources, inFlight, cached, browser, restarts>>,
               x.stage \in {"counted", "ok"} =>
                 coll[k].since[r] <= x.counts /\ x.counts <= Version(r),
               IF x.stage = "ok" THEN coll[k].since[r] <= x.rows /\ x.rows <= Version(r)
                                 ELSE x.rows = 0
        PROVE  OrderInv'
    <2> DEFINE c == [coll[k] EXCEPT !.read[r] = x]
    <2>1. /\ c.on = coll[k].on /\ c.since = coll[k].since
          /\ c.read[r] = x /\ \A q \in Role \ {r} : c.read[q] = coll[k].read[q]
      BY <1>0 DEF Collections
    <2>2. coll' = [coll EXCEPT ![k] = c]
      BY <1>7
    <2> HIDE DEF c
    <2>3. ASSUME NEW q \in Role PROVE InOrder(c, q)
      BY <1>0, <1>7, <2>1 DEF InOrder
    <2> QED BY <1>7, <2>1, <2>2, <2>3, OrderInside
  <1>8. ASSUME NEW r \in Role, ReadCounters(k, r) PROVE OrderInv'
    <2> DEFINE x == [stage |-> "counted", counts |-> Version(r), rows |-> 0, items |-> {}]
    <2>1. coll[k].on /\ coll' = [coll EXCEPT ![k].read[r] = x]
      BY <1>8 DEF ReadCounters, ReadPending
    <2>2. coll[k].since[r] <= Version(r) /\ Version(r) <= Version(r)
      BY <1>0, <2>1, DatabaseType DEF InOrder
    <2>3. x.stage = "counted" /\ x.counts = Version(r) /\ x.rows = 0
      OBVIOUS
    <2> HIDE DEF x
    <2>4. UNCHANGED <<sources, inFlight, cached, browser, restarts>>
      BY <1>8 DEF ReadCounters
    <2> QED BY <1>7, <2>1, <2>2, <2>3, <2>4
  <1>9. ASSUME NEW r \in Role, ReadItems(k, r) PROVE OrderInv'
    <2>0. coll[k].on /\ coll[k].read[r].stage = "counted"
      BY <1>9 DEF ReadItems, ReadPending
    <2>1. PICK S : coll' = [coll EXCEPT
              ![k].read[r] = IF Cardinality(S) > MaxBytes THEN NoRead("failed")
                             ELSE [stage |-> "ok", counts |-> @.counts,
                                   rows |-> Version(r), items |-> S]]
      BY <1>9 DEF ReadItems
    <2> DEFINE x == IF Cardinality(S) > MaxBytes THEN NoRead("failed")
                    ELSE [stage |-> "ok", counts |-> coll[k].read[r].counts,
                          rows |-> Version(r), items |-> S]
    <2>2. coll' = [coll EXCEPT ![k].read[r] = x]
      BY <2>1
    <2>3. /\ coll[k].since[r] <= Version(r) /\ Version(r) <= Version(r)
          /\ coll[k].since[r] <= coll[k].read[r].counts /\ coll[k].read[r].counts <= Version(r)
      BY <1>0, <2>0, DatabaseType DEF InOrder
    <2>4. \/ x.stage = "failed" /\ x.rows = 0
          \/ x.stage = "ok" /\ x.counts = coll[k].read[r].counts /\ x.rows = Version(r)
      BY DEF NoRead
    <2> HIDE DEF x
    <2> QED BY <1>7, <1>9, <2>0, <2>2, <2>3, <2>4 DEF ReadItems
  <1>10. ASSUME NEW r \in Role, ReadFails(k, r) PROVE OrderInv'
    BY <1>7, <1>10 DEF ReadFails, ReadPending, NoRead
  <1> QED BY <1>2, <1>3, <1>4, <1>5, <1>6, <1>8, <1>9, <1>10, Collect(k) DEF Collect

\* An answer from the cache, a wait for the collection in flight, or a new one.
LEMMA OrderGetOverview ==
  ASSUME TypeOK, OrderInv, UNCHANGED log, NEW p, getOverview(p), p.view = page.view,
         p \in [visible : BOOLEAN, waits : Collection \cup {NoCollection},
                view : Overviews, error : BOOLEAN]
  PROVE  OrderInv'
  <1>1. \A r \in Role : Version(r)' = Version(r) /\ Version(r) \in Nat
    BY DatabaseType DEF Version
  <1>2. CASE /\ cached # NoOverview /\ page' = Answered(p, cached) /\ UNCHANGED server
    <2>1. page'.view = page.view \/ page'.view = cached
      BY <1>2 DEF Answered
    <2>2. \A k \in Collection : ~coll[k].on
      BY <1>2 DEF OrderInv, SingleFlight
    <2>3. \A r \in Role : r \in Read(cached) => cached.roles[r].counts \in Nat /\ cached.roles[r].rows \in Nat
      <3>1. \A r \in Role : r \in Read(cached) => cached.roles[r] \in RoleOverviews
        BY DEF Read, TypeOK, Overviews
      <3>2. \A x \in RoleOverviews : x.counts \in Nat /\ x.rows \in Nat
        BY DEF RoleOverviews
      <3> QED BY <3>1, <3>2
    <2>4. ViewsInOrder'
      BY <1>1, <1>2, <2>1, <2>2, <2>3 DEF OrderInv, ViewsInOrder, Within, Read, server
    <2> QED BY <1>1, <1>2, <2>2, <2>4 DEF OrderInv, SingleFlight, ReadsInOrder, server
  <1>3. CASE page' = [p EXCEPT !.waits = inFlight] /\ UNCHANGED server
    <2>1. page'.view = page.view
      BY <1>3
    <2> QED BY <1>1, <1>3, <2>1
        DEF OrderInv, SingleFlight, ReadsInOrder, InOrder, ViewsInOrder, Within, Read, server
  <1>4. ASSUME NEW k \in Collection, cached = NoOverview, inFlight = NoCollection,
               coll' = [coll EXCEPT ![k] = Begun], inFlight' = k,
               page' = [p EXCEPT !.waits = k], UNCHANGED cached
        PROVE  OrderInv'
    <2>1. page'.view = page.view
      BY <1>4
    <2>2. \A j \in Collection : ~coll[j].on
      BY <1>4 DEF OrderInv, SingleFlight
    <2>3. coll'[k] = Begun /\ \A j \in Collection \ {k} : coll'[j] = coll[j]
      BY <1>4 DEF TypeOK
    <2>4. \A r \in Role : /\ Begun.since[r] = Version(r)
                          /\ Begun.read[r].stage = "asked" /\ Begun.read[r].rows = 0
      BY DEF Begun, Idle, NoRead
    <2>5. SingleFlight'
      BY <1>4, <2>2, <2>3 DEF SingleFlight
    <2>6. ReadsInOrder'
      <3>1. \A r \in Role : InOrder(Begun, r)'
        BY <1>1, <2>3, <2>4 DEF InOrder, Begun, Idle, NoRead
      <3> QED BY <1>1, <2>2, <2>3, <2>4 DEF ReadsInOrder, InOrder
    <2>7. ViewsInOrder'
      BY <1>1, <1>4, <2>1, <2>2, <2>3, <2>4 DEF OrderInv, ViewsInOrder, Within, Read
    <2> QED BY <2>5, <2>6, <2>7 DEF OrderInv
  <1> QED BY <1>2, <1>3, <1>4 DEF getOverview

\* Every step keeps the order.
LEMMA OrderNext == TypeOK /\ OrderInv /\ [Next]_vars => OrderInv'
  <1> SUFFICES ASSUME TypeOK, OrderInv, [Next]_vars PROVE OrderInv'
    OBVIOUS
  <1> USE DEF sources, browser, server
  <1>0. \A r \in Role : Version(r) \in Nat
    BY DatabaseType
  <1>1. ASSUME UNCHANGED <<log, server>>, page'.view = page.view PROVE OrderInv'
    BY <1>1 DEF OrderInv, SingleFlight, ReadsInOrder, InOrder, ViewsInOrder, Within, Read, Version
  <1>2. ASSUME NEW r \in Role, ContainerChange(r) PROVE OrderInv'
    BY <1>1, <1>2 DEF ContainerChange
  <1>3. ASSUME NEW r \in Role, Commit(r) PROVE OrderInv'
    <2>1. \A q \in Role : Version(q)' \in Nat /\ Version(q) <= Version(q)'
      <3>1. PICK db : log' = [log EXCEPT ![r] = Append(@, db)]
        BY <1>3 DEF Commit
      <3>2. \A q \in Role \ {r} : log'[q] = log[q]
        BY <3>1 DEF TypeOK
      <3>3. log[r] \in Seq([Work -> Status]) /\ log'[r] = Append(log[r], db)
        BY <3>1 DEF TypeOK
      <3>4. Len(log'[r]) = Len(log[r]) + 1
        BY <3>3
      <3> QED BY <1>0, <3>2, <3>4 DEF Version
    <2>2. SingleFlight'
      BY <1>3 DEF Commit, OrderInv, SingleFlight
    <2>3. \A k \in Collection, q \in Role :
             /\ coll[k].since[q] \in Nat /\ coll[k].read[q].counts \in Nat /\ coll[k].read[q].rows \in Nat
      <3>1. \A k \in Collection : coll[k] \in Collections
        BY DEF TypeOK
      <3>2. \A c \in Collections, q \in Role : c.since[q] \in Nat /\ c.read[q] \in Reads
        BY DEF Collections
      <3>3. \A x \in Reads : x.counts \in Nat /\ x.rows \in Nat
        BY DEF Reads
      <3> QED BY <3>1, <3>2, <3>3
    <2>4. ReadsInOrder'
      <3> SUFFICES ASSUME NEW k \in Collection, NEW q \in Role, coll[k].on
                   PROVE  InOrder(coll[k], q)'
        BY <1>3 DEF Commit, ReadsInOrder
      <3>1. InOrder(coll[k], q)
        BY DEF OrderInv, ReadsInOrder
      <3>2. coll' = coll
        BY <1>3 DEF Commit
      <3>3. /\ coll[k].since[q] \in Nat /\ coll[k].read[q].counts \in Nat
            /\ coll[k].read[q].rows \in Nat
            /\ Version(q) \in Nat /\ Version(q)' \in Nat /\ Version(q) <= Version(q)'
        BY <1>0, <2>1, <2>3
      <3> QED BY <3>1, <3>2, <3>3 DEF InOrder
    <2>5. ASSUME NEW q \in Role, NEW o \in Overviews, Within(o, q, Version(q))
          PROVE  Within(o, q, Version(q)')
      <3>1. q \in Read(o) => o.roles[q] \in RoleOverviews
        BY DEF Read, Overviews
      <3>2. \A x \in RoleOverviews : x.counts \in Nat /\ x.rows \in Nat
        BY DEF RoleOverviews
      <3> QED BY <1>0, <2>1, <2>5, <3>1, <3>2 DEF Within
    <2>6. ViewsInOrder'
      <3>1. cached \in Overviews /\ page.view \in Overviews /\ UNCHANGED <<cached, page, coll>>
        BY <1>3 DEF TypeOK, Commit
      <3>2. \A q \in Role : Within(page.view, q, Version(q)') /\ Within(cached, q, Version(q)')
        BY <2>5, <3>1 DEF OrderInv, ViewsInOrder
      <3> QED BY <3>1, <3>2 DEF OrderInv, ViewsInOrder, Within, Read
    <2> QED BY <2>2, <2>4, <2>6 DEF OrderInv
  <1>4. ASSUME NEW k \in Collection, Collect(k) PROVE OrderInv'
    BY <1>4, OrderCollect
  <1>5. CASE CacheExpires
    <2>1. cached' = NoOverview /\ Read(cached') = {}
      BY <1>5 DEF CacheExpires, Read
    <2> QED BY <1>5, <2>1 DEF CacheExpires, OrderInv, SingleFlight, ReadsInOrder, InOrder,
                             ViewsInOrder, Within, Read, Version
  <1>6. CASE Refresh
    BY <1>6, OrderGetOverview DEF Refresh, TypeOK
  <1>7. CASE Hide
    BY <1>1, <1>7 DEF Hide, TypeOK
  <1>8. CASE Show
    <2> DEFINE p == [page EXCEPT !.visible = TRUE, !.waits = NoCollection]
    <2>1. p.view = page.view /\ p \in [visible : BOOLEAN, waits : Collection \cup {NoCollection},
                                      view : Overviews, error : BOOLEAN]
      BY DEF TypeOK
    <2>2. CASE page' = [page EXCEPT !.visible = TRUE] /\ UNCHANGED server
      BY <1>1, <1>8, <2>2 DEF Show, TypeOK
    <2>3. CASE getOverview(p)
      <3> HIDE DEF p
      <3> QED BY <1>8, <2>1, <2>3, OrderGetOverview DEF Show
    <2> QED BY <1>8, <2>2, <2>3 DEF Show
  <1>9. CASE DashboardRestart
    <2>1. \A k \in Collection : ~coll'[k].on
      BY <1>9, IdleType DEF DashboardRestart
    <2>2. page'.view = page.view /\ Read(cached') = {} /\ log' = log
      BY <1>9 DEF DashboardRestart, Read, TypeOK
    <2> QED BY <2>1, <2>2 DEF OrderInv, SingleFlight, ReadsInOrder, ViewsInOrder, Within, Read, Version
  <1>10. CASE UNCHANGED vars
    BY <1>1, <1>10 DEF vars
  <1> QED BY <1>2, <1>3, <1>4, <1>5, <1>6, <1>7, <1>8, <1>9, <1>10 DEF Next

-----------------------------------------------------------------------------
\* At any time the page is not ahead of the cache, the cache and the page not of
\* what a collection began with, and collections never overlap.
THEOREM OrderHolds == Spec => []OrderInv
  BY TypeInit, TypeNext, OrderInit, OrderNext, PTL DEF Spec

\* The steps that change what the page shows answer from the cache or end a
\* collection.
LEMMA ViewStep ==
  ASSUME TypeOK, [Next]_vars
  PROVE  \/ page'.view = page.view \/ page'.view = cached
         \/ \E k \in Collection : CollectionEnds(k) /\ page'.view = Overview(k)
  <1> USE DEF sources, browser, server
  <1> DEFINE Known == \/ page'.view = page.view \/ page'.view = cached
                      \/ \E k \in Collection : CollectionEnds(k) /\ page'.view = Overview(k)
  <1>1. ASSUME NEW p, getOverview(p), p.view = page.view,
               p \in [visible : BOOLEAN, waits : Collection \cup {NoCollection},
                      view : Overviews, error : BOOLEAN]
        PROVE  page'.view = page.view \/ page'.view = cached
    BY <1>1 DEF getOverview, Answered
  <1>2. ASSUME NEW k \in Collection, Collect(k) PROVE Known
    <2>1. CASE CollectionEnds(k)
      BY <2>1 DEF CollectionEnds, Answered, TypeOK
    <2>2. CASE page' = page
      BY <2>2
    <2> QED BY <1>2, <2>1, <2>2 DEF Collect, DockerList, DockerFails, DeadlineExpires,
                DockerInspect, ReadCounters, ReadItems, ReadFails
  <1>3. CASE Refresh
    BY <1>1, <1>3 DEF Refresh, TypeOK
  <1>4. CASE Hide
    BY <1>4 DEF Hide, TypeOK
  <1>5. CASE Show
    <2> DEFINE p == [page EXCEPT !.visible = TRUE, !.waits = NoCollection]
    <2>1. p.view = page.view /\ p \in [visible : BOOLEAN, waits : Collection \cup {NoCollection},
                                      view : Overviews, error : BOOLEAN]
      BY DEF TypeOK
    <2>2. CASE page' = [page EXCEPT !.visible = TRUE]
      BY <2>2 DEF TypeOK
    <2>3. CASE getOverview(p)
      <3> HIDE DEF p
      <3> QED BY <1>1, <2>1, <2>3
    <2> QED BY <1>5, <2>2, <2>3 DEF Show
  <1>6. CASE DashboardRestart
    BY <1>6 DEF DashboardRestart, TypeOK
  <1> QED BY <1>2, <1>3, <1>4, <1>5, <1>6 DEF Next, vars, ContainerChange, Commit, CacheExpires

\* No step shows an older state of a role's queue than the page showed: the
\* only steps that change the view answer from the cache or end a collection.
LEMMA ForwardStep ==
  TypeOK /\ OrderInv /\ [Next]_vars =>
    [\A r \in Read(page.view) \cap Read(page'.view) :
       /\ page'.view.roles[r].counts >= page.view.roles[r].counts
       /\ page'.view.roles[r].rows >= page.view.roles[r].rows]_page
  <1> SUFFICES ASSUME TypeOK, OrderInv, [Next]_vars, page' # page,
                      NEW r \in Read(page.view) \cap Read(page'.view)
               PROVE  /\ page'.view.roles[r].counts >= page.view.roles[r].counts
                      /\ page'.view.roles[r].rows >= page.view.roles[r].rows
    OBVIOUS
  <1> USE DEF sources, browser, server
  <1>0. r \in Role
    BY DEF Read
  <1>1. \A x \in Overviews : r \in Read(x) => x.roles[r].counts \in Nat /\ x.roles[r].rows \in Nat
    <2>1. \A x \in Overviews : r \in Read(x) => x.roles[r] \in RoleOverviews
      BY DEF Read, Overviews
    <2>2. \A x \in RoleOverviews : x.counts \in Nat /\ x.rows \in Nat
      BY DEF RoleOverviews
    <2> QED BY <2>1, <2>2
  <1>2. page.view \in Overviews /\ cached \in Overviews
    BY DEF TypeOK
  <1>3. CASE page'.view = page.view
    BY <1>1, <1>2, <1>3
  <1>4. CASE page'.view = cached
    BY <1>0, <1>1, <1>2, <1>4 DEF OrderInv, ViewsInOrder
  <1>5. ASSUME NEW k \in Collection, coll[k].on, page'.view = Overview(k)
        PROVE  /\ page'.view.roles[r].counts >= page.view.roles[r].counts
               /\ page'.view.roles[r].rows >= page.view.roles[r].rows
    <2>1. Within(page.view, r, coll[k].since[r])
      BY <1>0, <1>5 DEF OrderInv, ViewsInOrder
    <2>2. /\ coll[k].since[r] <= Overview(k).roles[r].counts
          /\ coll[k].since[r] <= Overview(k).roles[r].rows
      BY <1>5, OverviewOrder
    <2>3. coll[k].since[r] \in Nat
      <3>1. coll[k] \in Collections
        BY DEF TypeOK
      <3> QED BY <1>0, <3>1 DEF Collections
    <2>4. Overview(k) \in Overviews
      BY OverviewType
    <2> QED BY <1>1, <1>2, <1>5, <2>1, <2>2, <2>3, <2>4 DEF Within
  <1>6. ASSUME NEW k \in Collection, CollectionEnds(k) PROVE coll[k].on
    BY <1>6 DEF CollectionEnds
  <1> QED BY <1>3, <1>4, <1>5, <1>6, ViewStep

\* The page never goes back in a role's history, however refetches are cancelled
\* and answers cached.
THEOREM PageMovesForward == Spec => ViewsMoveForward
  BY TypeInit, TypeNext, OrderInit, OrderNext, ForwardStep, PTL DEF Spec, ViewsMoveForward
-----------------------------------------------------------------------------
(* What the page shows is part of the databases' history.                  *)

\* The history of a database only grows.
LEMMA LogGrows ==
  ASSUME TypeOK, [Next]_vars, NEW r \in Role
  PROVE  /\ log[r] \in Seq([Work -> Status]) /\ log'[r] \in Seq([Work -> Status])
         /\ Len(log[r]) <= Len(log'[r])
         /\ \A v \in 1 .. Len(log[r]) : log'[r][v] = log[r][v]
  <1>1. log[r] \in Seq([Work -> Status])
    BY DEF TypeOK
  <1>2. CASE log'[r] = log[r]
    BY <1>1, <1>2
  <1>3. ASSUME NEW q \in Role, Commit(q), log'[r] # log[r]
        PROVE  \E d \in [Work -> Status] : log'[r] = Append(log[r], d)
    BY <1>3 DEF Commit, TypeOK
  <1>4. ASSUME NEW d \in [Work -> Status], log'[r] = Append(log[r], d)
        PROVE  /\ log'[r] \in Seq([Work -> Status]) /\ Len(log[r]) <= Len(log'[r])
               /\ \A v \in 1 .. Len(log[r]) : log'[r][v] = log[r][v]
    BY <1>1, <1>4
  <1>5. ASSUME log' # log PROVE \E q \in Role : Commit(q)
    <2> USE DEF sources
    <2>1. ASSUME NEW k \in Collection, Collect(k) PROVE log' = log
      BY <2>1 DEF Collect, DockerList, DockerFails, DeadlineExpires, CollectionEnds,
                  DockerInspect, ReadCounters, ReadItems, ReadFails
    <2> QED BY <1>5, <2>1 DEF Next, vars, ContainerChange, CacheExpires, Refresh, Hide,
                             Show, DashboardRestart
  <1> QED BY <1>1, <1>2, <1>3, <1>4, <1>5

\* What was part of a history is part of every longer one.
LEMMA HappenedStays ==
  ASSUME NEW r, NEW x \in RoleOverviews,
         NEW h \in Seq([Work -> Status]), NEW g \in Seq([Work -> Status]),
         Len(h) <= Len(g), \A v \in 1 .. Len(h) : g[v] = h[v], Happened(h, r, x)
  PROVE  Happened(g, r, x)
  <1>1. x.since \in Nat /\ x.counts \in Nat /\ x.rows \in Nat /\ Len(h) \in Nat /\ Len(g) \in Nat
    BY DEF RoleOverviews
  <1>2. x.agent \in QueueStates =>
          /\ x.state = "RUNNING" /\ x.rows # 0
          /\ 0 < x.since /\ x.since <= x.counts /\ x.counts <= Len(g)
          /\ QueueState(r, g[x.counts]) = x.agent
    BY <1>1 DEF Happened
  <1>3. x.rows # 0 => x.rows <= Len(g) /\ x.items \in ItemLists(g[x.rows])
    BY <1>1 DEF Happened
  <1> QED BY <1>2, <1>3 DEF Happened

\* An overview that is part of the history stays so.
LEMMA GenuineStays ==
  ASSUME TypeOK, [Next]_vars, NEW o \in Overviews, o # NoOverview,
         \A r \in Role : Happened(log[r], r, o.roles[r])
  PROVE  \A r \in Role : Happened(log'[r], r, o.roles[r])
  <1> TAKE r \in Role
  <1>1. o.roles[r] \in RoleOverviews
    BY DEF Overviews
  <1>2. Happened(log[r], r, o.roles[r])
    OBVIOUS
  <1> QED BY <1>1, <1>2, LogGrows, HappenedStays

\* What a step makes of a collection: a new one, or another read of a role.
LEMMA CollStep ==
  ASSUME TypeOK, [Next]_vars, NEW k \in Collection, NEW r \in Role, coll'[k].on
  PROVE  \/ coll'[k] = Begun
         \/ /\ coll[k].on /\ coll'[k].since = coll[k].since
            /\ \/ coll'[k].read[r] = coll[k].read[r]
               \/ coll'[k].read[r].stage # "ok"
               \/ /\ coll'[k].read[r].rows = Version(r)
                  /\ coll'[k].read[r].items \in ItemLists(Database(r))
  <1> DEFINE Read1(c) == \/ c.read[r] = coll[k].read[r] \/ c.read[r].stage # "ok"
                         \/ /\ c.read[r].rows = Version(r)
                            /\ c.read[r].items \in ItemLists(Database(r))
             Goal == \/ coll'[k] = Begun
                     \/ coll[k].on /\ coll'[k].since = coll[k].since /\ Read1(coll'[k])
  <1> SUFFICES Goal
    OBVIOUS
  <1>0. coll[k] \in Collections
    BY DEF TypeOK
  <1>1. CASE coll'[k] = coll[k]
    BY <1>1
  <1>2. ASSUME NEW j \in Collection, Collect(j), j # k PROVE coll'[k] = coll[k]
    BY <1>2 DEF Collect, DockerList, DockerFails, DeadlineExpires, CollectionEnds,
                DockerInspect, ReadCounters, ReadItems, ReadFails, TypeOK
  <1>3. CASE Collect(k)
    <2>1. CASE DockerList(k)
      <3>1. coll'[k].on = coll[k].on /\ coll'[k].since = coll[k].since /\ coll'[k].read = coll[k].read
        BY <1>0, <2>1 DEF DockerList, TypeOK, Collections
      <3> QED BY <3>1
    <2>2. CASE DockerFails(k)
      <3>1. coll'[k].on = coll[k].on /\ coll'[k].since = coll[k].since /\ coll'[k].read = coll[k].read
        BY <1>0, <2>2 DEF DockerFails, TypeOK, Collections
      <3> QED BY <3>1
    <2>3. CASE DeadlineExpires(k)
      <3>1. /\ coll'[k].on = coll[k].on /\ coll'[k].since = coll[k].since
            /\ coll'[k].read[r] = IF ReadPending(k, r) THEN NoRead("failed") ELSE coll[k].read[r]
        BY <1>0, <2>3 DEF DeadlineExpires, TypeOK, Collections
      <3> QED BY <3>1 DEF NoRead
    <2>4. CASE CollectionEnds(k)
      BY <2>4, IdleType DEF CollectionEnds, TypeOK
    <2>5. ASSUME NEW q \in Role, DockerInspect(k, q) PROVE Goal
      <3>1. coll'[k].on = coll[k].on /\ coll'[k].since = coll[k].since /\ coll'[k].read = coll[k].read
        BY <1>0, <2>5 DEF DockerInspect, TypeOK, Collections
      <3> QED BY <3>1
    <2>6. ASSUME NEW q \in Role, NEW x, coll' = [coll EXCEPT ![k].read[q] = x],
                 \/ x.stage # "ok"
                 \/ x.rows = Version(q) /\ x.items \in ItemLists(Database(q))
          PROVE  Goal
      <3>1. /\ coll'[k].on = coll[k].on /\ coll'[k].since = coll[k].since
            /\ coll'[k].read[r] = IF r = q THEN x ELSE coll[k].read[r]
        BY <1>0, <2>6 DEF TypeOK, Collections
      <3> QED BY <2>6, <3>1
    <2>7. ASSUME NEW q \in Role, ReadCounters(k, q) PROVE Goal
      BY <2>6, <2>7 DEF ReadCounters
    <2>8. ASSUME NEW q \in Role, ReadFails(k, q) PROVE Goal
      BY <2>6, <2>8 DEF ReadFails, NoRead
    <2>9. ASSUME NEW q \in Role, ReadItems(k, q) PROVE Goal
      <3>1. PICK S \in ItemLists(Database(q)) : coll' = [coll EXCEPT
                ![k].read[q] = IF Cardinality(S) > MaxBytes THEN NoRead("failed")
                               ELSE [stage |-> "ok", counts |-> @.counts,
                                     rows |-> Version(q), items |-> S]]
        BY <2>9 DEF ReadItems
      <3> DEFINE x == IF Cardinality(S) > MaxBytes THEN NoRead("failed")
                      ELSE [stage |-> "ok", counts |-> coll[k].read[q].counts,
                            rows |-> Version(q), items |-> S]
      <3>2. coll' = [coll EXCEPT ![k].read[q] = x]
        BY <3>1
      <3>3. \/ x.stage # "ok"
            \/ x.rows = Version(q) /\ x.items \in ItemLists(Database(q))
        BY DEF NoRead
      <3> HIDE DEF x, Goal
      <3> QED BY <2>6, <3>2, <3>3
    <2> HIDE DEF Goal
    <2> QED BY <1>3, <2>1, <2>2, <2>3, <2>4, <2>5, <2>7, <2>8, <2>9 DEF Collect
  <1>4. ASSUME NEW p, getOverview(p) PROVE coll'[k] = coll[k] \/ coll'[k] = Begun
    BY <1>4 DEF getOverview, server, TypeOK
  <1>5. CASE DashboardRestart
    BY <1>5, IdleType DEF DashboardRestart
  <1> HIDE DEF Goal
  <1>6. CASE Refresh
    <2>1. coll'[k] = coll[k] \/ coll'[k] = Begun
      BY <1>4, <1>6 DEF Refresh
    <2> QED BY <1>1, <2>1 DEF Goal
  <1>7. CASE Show
    <2>1. coll'[k] = coll[k] \/ coll'[k] = Begun
      BY <1>4, <1>7 DEF Show, server
    <2> QED BY <1>1, <2>1 DEF Goal
  <1>8. CASE \E j \in Collection : Collect(j)
    BY <1>1, <1>2, <1>3, <1>8
  <1>9. CASE \E q \in Role : ContainerChange(q) \/ Commit(q)
    BY <1>1, <1>9 DEF ContainerChange, Commit, server
  <1>10. CASE CacheExpires \/ Hide \/ UNCHANGED vars
    BY <1>1, <1>10 DEF CacheExpires, Hide, server, vars
  <1> QED BY <1>5, <1>6, <1>7, <1>8, <1>9, <1>10 DEF Next

\* The cache is filled only by collections that end.
LEMMA CachedStep ==
  ASSUME TypeOK, [Next]_vars
  PROVE  \/ cached' = cached \/ cached' = NoOverview
         \/ \E k \in Collection : CollectionEnds(k) /\ cached' = Overview(k)
  <1>1. ASSUME NEW p, getOverview(p) PROVE cached' = cached
    BY <1>1 DEF getOverview, server
  <1>2. ASSUME NEW k \in Collection, Collect(k)
        PROVE  cached' = cached \/ (CollectionEnds(k) /\ cached' = Overview(k))
    <2>1. CASE CollectionEnds(k)
      BY <2>1 DEF CollectionEnds
    <2>2. CASE UNCHANGED cached
      BY <2>2
    <2> QED BY <1>2, <2>1, <2>2 DEF Collect, DockerList, DockerFails, DeadlineExpires,
                DockerInspect, ReadCounters, ReadItems, ReadFails
  <1>3. CASE Refresh
    BY <1>1, <1>3 DEF Refresh
  <1>4. CASE Show
    BY <1>1, <1>4 DEF Show, server
  <1> QED BY <1>2, <1>3, <1>4
      DEF Next, vars, ContainerChange, Commit, CacheExpires, Hide, DashboardRestart, server
\* A collection that ends makes an overview of what it has read.
LEMMA EndsGenuine ==
  ASSUME TypeOK, OrderInv, HistoryInv, NEW k \in Collection, CollectionEnds(k), NEW r \in Role
  PROVE  Happened(log[r], r, Overview(k).roles[r])
  <1> DEFINE c == coll[k]
             x == RoleOverview(k, r)
             state == IF c.docker = "ok" THEN c.seen[r] ELSE "UNKNOWN"
  <1>0. c \in Collections
    BY DEF TypeOK
  <1>1. c.read[r] \in Reads /\ c.since[r] \in Nat
    BY <1>0 DEF Collections
  <1>2. c.on /\ c.read[r].stage \in {"ok", "failed"}
    BY <1>1 DEF CollectionEnds, ReadPending, Reads
  <1>3. InOrder(c, r) /\ ItemsHappened(log[r], r, c)
    BY <1>2 DEF OrderInv, ReadsInOrder, HistoryInv
  <1>4. /\ x.state = state /\ x.agent = deriveAgentState(r, state, c.read[r])
        /\ x.counts = c.read[r].counts /\ x.rows = c.read[r].rows
        /\ x.items = c.read[r].items /\ x.since = c.since[r]
        /\ Overview(k).roles[r] = x
    BY DEF RoleOverview, Overview
  <1>5. /\ c.read[r].counts \in Nat /\ c.read[r].rows \in Nat /\ Len(log[r]) \in Nat
        /\ Version(r) = Len(log[r])
    BY <1>1, DatabaseType DEF Reads, Version
  <1>6. x.agent \in QueueStates =>
          /\ state = "RUNNING" /\ c.read[r].stage # "failed"
          /\ x.agent = QueueState(r, log[r][c.read[r].counts])
    BY <1>4 DEF deriveAgentState, QueueStates
  <1> HIDE DEF c, x, state
  <1>7. x.rows # 0 => x.rows <= Len(log[r]) /\ x.items \in ItemLists(log[r][x.rows])
    BY <1>2, <1>3, <1>4, <1>5 DEF InOrder, ItemsHappened
  <1>8. x.agent \in QueueStates =>
          /\ x.state = "RUNNING" /\ x.rows # 0
          /\ 0 < x.since /\ x.since <= x.counts /\ x.counts <= Len(log[r])
          /\ QueueState(r, log[r][x.counts]) = x.agent
    BY <1>1, <1>2, <1>3, <1>4, <1>5, <1>6 DEF InOrder, ItemsHappened
  <1> QED BY <1>4, <1>7, <1>8 DEF Happened

\* At first nothing was read.
LEMMA HistoryInit == Init => HistoryInv
  BY IdleType DEF Init, HistoryInv, Genuine

\* Every step keeps what is read, cached and shown in the history.
LEMMA HistoryNext == TypeOK /\ OrderInv /\ HistoryInv /\ [Next]_vars => HistoryInv'
  <1> SUFFICES ASSUME TypeOK, OrderInv, HistoryInv, [Next]_vars PROVE HistoryInv'
    OBVIOUS
  <1> DEFINE Fits(o) == o # NoOverview => \A r \in Role : Happened(log'[r], r, o.roles[r])
  <1>1. Fits(cached) /\ Fits(page.view)
    <2>1. /\ cached \in Overviews /\ page.view \in Overviews
          /\ cached # NoOverview => \A r \in Role : Happened(log[r], r, cached.roles[r])
          /\ page.view # NoOverview => \A r \in Role : Happened(log[r], r, page.view.roles[r])
      BY DEF TypeOK, HistoryInv, Genuine
    <2> QED BY <2>1, GenuineStays
  <1>2. ASSUME NEW k \in Collection, CollectionEnds(k) PROVE Fits(Overview(k))
    <2>1. log' = log
      BY <1>2 DEF CollectionEnds, sources
    <2> QED BY <1>2, <2>1, EndsGenuine
  <1>3. Fits(NoOverview)
    OBVIOUS
  <1> HIDE DEF Fits
  <1>4. Fits(cached')
    BY <1>1, <1>2, <1>3, CachedStep
  <1>5. Fits(page'.view)
    BY <1>1, <1>2, ViewStep
  <1>6. ASSUME NEW k \in Collection, NEW r \in Role, coll'[k].on
        PROVE  ItemsHappened(log'[r], r, coll'[k])
    <2>1. /\ Len(log[r]) \in Nat \ {0} /\ Version(r) = Len(log[r]) /\ Database(r) = log[r][Len(log[r])]
          /\ \A v \in 1 .. Len(log[r]) : log'[r][v] = log[r][v]
      BY DatabaseType, LogGrows DEF Version, Database
    <2>2. CASE coll'[k] = Begun
      <3>1. Begun.since[r] = Version(r) /\ Begun.read[r].stage = "asked"
        BY DEF Begun, Idle, NoRead
      <3> QED BY <2>1, <2>2, <3>1 DEF ItemsHappened
    <2>3. CASE coll[k].on /\ coll'[k].since = coll[k].since
      <3>1. InOrder(coll[k], r) /\ ItemsHappened(log[r], r, coll[k])
        BY <2>3 DEF OrderInv, ReadsInOrder, HistoryInv
      <3>2. coll[k].since[r] \in Nat /\ coll[k].read[r].rows \in Nat
        <4>1. coll[k] \in Collections
          BY DEF TypeOK
        <4>2. coll[k].since[r] \in Nat /\ coll[k].read[r] \in Reads
          BY <4>1 DEF Collections
        <4> QED BY <4>2 DEF Reads
      <3>3. CASE coll'[k].read[r] = coll[k].read[r]
        <4>1. coll[k].read[r].stage = "ok" => coll[k].read[r].rows \in 1 .. Len(log[r])
          BY <2>1, <3>1, <3>2 DEF InOrder, ItemsHappened
        <4> QED BY <2>1, <2>3, <3>1, <3>3, <4>1 DEF ItemsHappened
      <3>4. CASE coll'[k].read[r].stage # "ok"
        BY <2>3, <3>1, <3>4 DEF ItemsHappened
      <3>5. CASE /\ coll'[k].read[r].rows = Version(r)
                 /\ coll'[k].read[r].items \in ItemLists(Database(r))
        <4>1. Len(log[r]) \in 1 .. Len(log[r])
          BY <2>1
        <4> QED BY <2>1, <2>3, <3>1, <3>5, <4>1 DEF ItemsHappened
      <3> QED BY <1>6, <2>2, <3>3, <3>4, <3>5, CollStep
    <2> QED BY <1>6, <2>2, <2>3, CollStep
  <1> QED BY <1>4, <1>5, <1>6 DEF HistoryInv, Genuine, Fits

\* Nothing the dashboard reads, caches or shows of a queue was made up: it was the
\* content of the role's database at a time since the collection began.
THEOREM HistoryHolds == Spec => []HistoryInv
  BY TypeInit, TypeNext, OrderInit, OrderNext, HistoryInit, HistoryNext, PTL DEF Spec

LEMMA HistoryImpliesState == TypeOK /\ HistoryInv => AgentStateHappened
  <1> SUFFICES ASSUME TypeOK, HistoryInv, page.view # NoOverview, NEW r \in Role,
                      page.view.roles[r].agent \in QueueStates
               PROVE  LET o == page.view.roles[r] IN
                      /\ o.state = "RUNNING"
                      /\ \E v \in o.since .. Version(r) : QueueState(r, log[r][v]) = o.agent
    BY DEF AgentStateHappened
  <1> DEFINE o == page.view.roles[r]
  <1>1. o \in RoleOverviews /\ Happened(log[r], r, o)
    BY DEF TypeOK, Overviews, HistoryInv, Genuine
  <1>2. o.counts \in Nat /\ o.since \in Nat /\ Version(r) \in Nat /\ Version(r) = Len(log[r])
    BY <1>1, DatabaseType DEF RoleOverviews, Version
  <1> HIDE DEF o
  <1>3. /\ o.state = "RUNNING" /\ o.counts \in o.since .. Version(r)
        /\ QueueState(r, log[r][o.counts]) = o.agent
    BY <1>1, <1>2 DEF Happened, o
  <1> QED BY <1>3 DEF o

\* An agent state on the page that is about the role's queue was the state of a
\* content the database had since the collection behind the page began.
THEOREM AgentStatesHappened == Spec => []AgentStateHappened
  BY TypeInit, TypeNext, HistoryHolds, HistoryImpliesState, PTL DEF Spec

-----------------------------------------------------------------------------
(* LIMIT and the order of the items.                                       *)

\* A list of items that is not of length zero has a running assignment, if there
\* is one: those come first.
LEMMA StartedListed ==
  ASSUME NEW d \in [Work -> Status], NEW S \in ItemLists(d), MaxItems > 0,
         Having(d, "STARTED") # {}
  PROVE  Having(d, "STARTED") \cap (S \cup Unsafe) # {}
  <1>1. PICK T \in SUBSET Open(d) :
          /\ S = T \ Unsafe
          /\ Cardinality(T) = Min({MaxItems, Cardinality(Open(d))})
          /\ \A w \in T, v \in Open(d) \ T : Rank(d[w]) <= Rank(d[v])
    BY DEF ItemLists, Sanitized
  <1>2. PICK s \in Work : d[s] = "STARTED" /\ s \in Open(d)
    BY DEF Having, Open
  <1>3. T # {}
    <2>1. IsFiniteSet(Open(d))
      BY FS_Subset DEF Open
    <2>2. Cardinality(Open(d)) \in Nat /\ Cardinality(Open(d)) # 0
      BY <1>2, <2>1, FS_CardinalityType, FS_EmptySet
    <2>3. ASSUME NEW a \in Nat \ {0}, NEW b \in Nat \ {0} PROVE Min({a, b}) # 0
      <3>1. \E x \in {a, b} : \A y \in {a, b} : x =< y
        OBVIOUS
      <3> QED BY <3>1 DEF Min
    <2>4. MaxItems \in Nat \ {0}
      OBVIOUS
    <2>5. Cardinality(T) # 0
      BY <1>1, <2>2, <2>3, <2>4
    <2> QED BY <2>5, FS_EmptySet
  <1>4. CASE s \in T
    BY <1>1, <1>2, <1>4 DEF Having
  <1>5. CASE s \notin T
    <2>1. PICK t \in T : Rank(d[t]) <= Rank(d[s])
      BY <1>1, <1>2, <1>3, <1>5
    <2>2. t \in Work /\ d[t] \in {"due", "delayed", "STARTED", "blocked"}
      BY <1>1 DEF Open, Status
    <2>3. d[t] = "STARTED"
      BY <1>2, <2>1, <2>2 DEF Rank
    <2> QED BY <1>1, <2>2, <2>3 DEF Having
  <1> QED BY <1>4, <1>5

LEMMA HistoryImpliesListed == TypeOK /\ HistoryInv => ActiveIsListed
  <1> SUFFICES ASSUME TypeOK, HistoryInv, page.view # NoOverview, NEW r \in Role,
                      page.view.roles[r].agent = "WORKING",
                      page.view.roles[r].counts = page.view.roles[r].rows, MaxItems > 0
               PROVE  LET o == page.view.roles[r] IN
                      Having(log[r][o.rows], "STARTED") \cap (o.items \cup Unsafe) # {}
    BY DEF ActiveIsListed
  <1> DEFINE o == page.view.roles[r]
  <1>1. o \in RoleOverviews /\ Happened(log[r], r, o) /\ log[r] \in Seq([Work -> Status])
    BY DEF TypeOK, Overviews, HistoryInv, Genuine
  <1>2. o.rows \in Nat /\ o.agent = "WORKING" /\ o.counts = o.rows
    BY <1>1 DEF RoleOverviews
  <1> HIDE DEF o
  <1> DEFINE d == log[r][o.rows]
  <1>3. /\ o.rows \in 1 .. Len(log[r]) /\ QueueState(r, d) = "WORKING"
        /\ o.items \in ItemLists(d)
    BY <1>1, <1>2 DEF Happened, QueueStates, AgentState
  <1>4. d \in [Work -> Status]
    BY <1>1, <1>3
  <1> HIDE DEF d
  <1>5. Having(d, "STARTED") # {}
    BY <1>3 DEF QueueState
  <1>6. Having(d, "STARTED") \cap (o.items \cup Unsafe) # {}
    BY <1>3, <1>4, <1>5, StartedListed
  <1> QED BY <1>6 DEF o, d

\* A role that is shown as working shows what it works on, whatever LIMIT cuts.
THEOREM ActiveListed == Spec => []ActiveIsListed
  BY TypeInit, TypeNext, HistoryHolds, HistoryImpliesListed, PTL DEF Spec
=============================================================================
