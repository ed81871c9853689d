------------------------- MODULE ProjectSetupProofs -------------------------
(***************************************************************************)
(* Proofs about ProjectSetup, for any events, group paths, generations of  *)
(* groups and faults: its types, that a group given by hand is kept, that  *)
(* the retry after a purge cures stale group ids, and that a set-up that   *)
(* runs alone leaves the project as configured.                            *)
(***************************************************************************)
EXTENDS ProjectSetup, TLAPS

Gens == 1..MaxGen

\* A path whose group is gone can have another one made.
GroupInv ==
  \A p \in Paths : group[p] \in {0, made[p]} /\ (group[p] = 0 => made[p] < MaxGen)

\* No id is known before its group is made, so one that has become invalid
\* never becomes valid again.
Known(e) ==
  /\ ManualId \notin task[e].ids
  /\ \A p \in Paths, g \in Gens : <<p, g>> \in task[e].ids => g <= made[p]

IndexInv ==
  /\ \A p \in Paths : index[p] <= made[p]
  /\ lock # Free => lock.gen <= made[lock.path]

\* A project's groups exist; project 2 has the dynamic name.
ProjectInv ==
  /\ \A i \in {1, 2} : /\ Valid(project[i].groups)
                       /\ project[i].name = "none" <=> project[i] = NoProject
  /\ project[2].name \in {"none", "dynamic"}

\* What an event under way knows: of project_json, of the project it is for
\* and, at each step, of the groups it is about to write.
TaskOK(e) ==
  LET t == task[e] IN
  /\ t.json.tags /\ t.json.service # "none" /\ t.json.name # "none"
  /\ config.renameLegacy \/ t.target # 1 => t.json.name = "dynamic"
  /\ IF t.target = 0
     THEN /\ project[1].name = "none" /\ (project[2].name = "none" \/ "created" \in why[e])
          /\ t.orig = {} /\ ~ t.retried /\ t.pc \in {"resolving", "creating"}
     ELSE project[t.target].name # "none" /\ t.pc # "creating"
  /\ t.pc = "resolving" /\ ~ t.retried => t.json.groups = t.orig
  /\ t.pc = "creating" \/ (t.pc = "updating" /\ t.retried) => t.json.groups = t.orig \cup t.ids
  /\ t.target \in safe => ManualId \in t.orig /\ ManualId \in t.json.groups

\* The index, and an answer on its way to it, are up to date.
IdsFresh ==
  /\ \A p \in Paths : index[p] \in {0, group[p]}
  /\ lock # Free => lock.gen \in {0, group[lock.path]}

\* Ids are good unless a group was deleted since the projects were listed:
\* those of the project, and after the purge all those that are found.
RetryOK(e) ==
  LET t == task[e] IN
  "deleted" \notin why[e] =>
    /\ Valid(t.orig)
    /\ t.retried => Valid(t.ids) /\ IdsFresh

\* An event that runs alone: the project is as it was listed, and every
\* group that exists is among those it has resolved, under some id.
Covered(S, p) == group[p] # 0 => \E g \in Gens : <<p, g>> \in S

AloneOK(e) ==
  LET t == task[e] IN
  why[e] = {} =>
    /\ t.target # 0 =>
         LET q == project[t.target] IN
         /\ q.groups = t.orig
         /\ ~ t.exec => q.tags /\ q.service = "own" /\ ~ Renames(q)
    /\ lock.event = e => lock.gen = group[lock.path]
    /\ t.pc = "resolving" => \A p \in Paths \ t.todo : Covered(t.ids, p)
    /\ t.pc \in {"creating", "updating"} /\ (config.updateGroups \/ t.target = 0)
         => \A p \in Paths : Covered(t.json.groups, p)

RunningInv == \A e \in Events : Known(e) /\ (e \in Running => TaskOK(e) /\ RetryOK(e) /\ AloneOK(e))

\* If nothing was noted for an event, no other one is under way.
SoleInv ==
  \A e \in Events : why[e] = {} /\ (e \in Running \/ At(e, "done")) => Running \subseteq {e}

IInv ==
  /\ TypeOK /\ GroupInv /\ IndexInv /\ ProjectInv /\ RunningInv /\ SoleInv
  /\ ManualGroupKept /\ RetryRecovers /\ SetupConverges
-----------------------------------------------------------------------------
(***************************************************************************)
(* What the operators do.                                                  *)
(***************************************************************************)

\* Ids of groups and the id of the manual one are told apart.
LEMMA IdFacts ==
  /\ \A p \in Paths, g \in Gens : <<p, g>> \in Ids /\ <<p, g>> # ManualId
  /\ \A id \in Ids : id # ManualId => \E p \in Paths, g \in Gens : id = <<p, g>>
  /\ ManualId \in Ids
BY SetupAssumption DEF Ids, Gens, ManualId

\* A set of ids is accepted when each is the one its path has now.
LEMMA ValidFacts ==
  ASSUME group \in [Paths -> 0..MaxGen], NEW S \in SUBSET Ids
  PROVE  Valid(S) <=> \A p \in Paths, g \in Gens : <<p, g>> \in S => group[p] = g
<1>1. ASSUME Valid(S), NEW p \in Paths, NEW g \in Gens, <<p, g>> \in S
      PROVE  group[p] = g
  <2>1. <<p, g>> \in Assigned
    BY <1>1, IdFacts DEF Valid
  <2>. QED
    BY <2>1 DEF Assigned
<1>2. ASSUME \A p \in Paths, g \in Gens : <<p, g>> \in S => group[p] = g,
             NEW id \in S, id # ManualId
      PROVE  id \in Assigned
  <2>1. PICK p \in Paths, g \in Gens : id = <<p, g>>
    BY <1>2, IdFacts
  <2>2. group[p] = g /\ g # 0
    BY <1>2, <2>1 DEF Gens
  <2>. QED
    BY <2>1, <2>2 DEF Assigned
<1>. QED
  BY <1>1, <1>2 DEF Valid

\* If there is a project the chosen one is found.
LEMMA ChosenFacts ==
  ASSUME Found # {}
  PROVE  Chosen \in Found /\ (Dynamic # {} => Chosen \in Dynamic)
BY DEF Chosen, Dynamic

\* The end of an event.
LEMMA EndsFacts ==
  ASSUME task \in [Events -> Tasks], NEW e \in Events,
         NEW step \in {"done", "failed"}, Ends(e, step)
  PROVE  /\ task' \in [Events -> Tasks]
         /\ \A f \in Events \ {e} : task'[f] = task[f]
         /\ task'[e].pc = step /\ task'[e].target = task[e].target
         /\ task'[e].ids = IF step = "done" THEN {} ELSE task[e].ids
<1>1. task[e] \in Tasks /\ NoProject \in Projects
  BY DEF NoProject, Projects
<1>. DEFINE I == IF step = "done" THEN {} ELSE task[e].ids
            u == [pc |-> step, target |-> task[e].target, json |-> NoProject, orig |-> {}, todo |-> {},
                  ids |-> I, exec |-> FALSE, retried |-> FALSE]
<1>2. task' = [task EXCEPT ![e] = u]
  BY DEF Ends
<1>3. I \in SUBSET Ids
  BY <1>1 DEF Tasks
<1>. HIDE DEF I
<1>4. u \in Tasks
  BY <1>1, <1>3 DEF Tasks
<1>. QED
  BY <1>1, <1>2, <1>4 DEF I

\* A path is done with.
LEMMA TakeFacts ==
  ASSUME task \in [Events -> Tasks], NEW e \in Events, NEW p \in Paths, NEW gen \in 0..MaxGen,
         Take(e, p, gen)
  PROVE  /\ task' \in [Events -> Tasks]
         /\ \A f \in Events \ {e} : task'[f] = task[f]
         /\ task'[e].ids = IF gen = 0 THEN task[e].ids ELSE task[e].ids \cup {<<p, gen>>}
         /\ task'[e].todo = task[e].todo \ {p}
         /\ task'[e].pc = task[e].pc /\ task'[e].target = task[e].target
         /\ task'[e].json = task[e].json /\ task'[e].orig = task[e].orig
         /\ task'[e].exec = task[e].exec /\ task'[e].retried = task[e].retried
<1>1. task[e] \in Tasks
  OBVIOUS
<1>2. gen # 0 => <<p, gen>> \in Ids
  BY IdFacts DEF Gens
<1>. QED
  BY <1>1, <1>2 DEF Take, Tasks

\* Resolving is over: the groups are set where they are to be assigned.
LEMMA ResolvedFacts ==
  ASSUME task \in [Events -> Tasks], NEW e \in Events, Resolved(e)
  PROVE  LET t == task[e]
             u == task'[e]
             assign == t.target = 0 \/ t.retried \/ NewGroups(e)
         IN  /\ task' \in [Events -> Tasks]
             /\ \A f \in Events \ {e} : task'[f] = task[f]
             /\ u.target = t.target
             /\ ~ (assign \/ t.exec) => u.pc = "done" /\ u.ids = {}
             /\ assign \/ t.exec =>
                  /\ u.pc = IF t.target = 0 THEN "creating" ELSE "updating"
                  /\ u.json.groups = IF assign THEN t.orig \cup t.ids ELSE t.json.groups
                  /\ u.json.name = t.json.name /\ u.json.tags = t.json.tags
                  /\ u.json.service = t.json.service
                  /\ u.orig = t.orig /\ u.ids = t.ids /\ u.exec = t.exec /\ u.retried = t.retried
<1>. DEFINE assign == task[e].target = 0 \/ task[e].retried \/ NewGroups(e)
<1>1. task[e] \in Tasks /\ task[e].orig \cup task[e].ids \in SUBSET Ids
  BY DEF Tasks
<1>2. CASE assign \/ task[e].exec
  <2>. DEFINE G == IF assign THEN Wanted(e) ELSE task[e].json.groups
              c == IF task[e].target = 0 THEN "creating" ELSE "updating"
  <2>1. G \in SUBSET Ids /\ G = IF assign THEN task[e].orig \cup task[e].ids ELSE task[e].json.groups
    BY <1>1 DEF Tasks, Projects, Wanted
  <2>2. task' = [task EXCEPT ![e].json.groups = G, ![e].pc = c]
    BY <1>2 DEF Resolved
  <2>. HIDE DEF G, assign
  <2>3. c \in {"creating", "updating"}
    OBVIOUS
  <2>4. task'[e] = [task[e] EXCEPT !.json.groups = G, !.pc = c]
    BY <2>2
  <2>5. task'[e] \in Tasks
    <3>. DEFINE t == task[e]
                j == [name |-> t.json.name, groups |-> G, tags |-> t.json.tags, service |-> t.json.service]
    <3>1. j \in Projects
      BY <1>1, <2>1 DEF Tasks, Projects
    <3>2. task'[e] = [pc |-> c, target |-> t.target, json |-> j, orig |-> t.orig, todo |-> t.todo,
                      ids |-> t.ids, exec |-> t.exec, retried |-> t.retried]
      BY <1>1, <2>4 DEF Tasks, Projects
    <3>. HIDE DEF j, c
    <3>. QED
      BY <1>1, <2>3, <3>1, <3>2 DEF Tasks
  <2>6. \A f \in Events \ {e} : task'[f] = task[f]
    BY <2>2
  <2>7. task' \in [Events -> Tasks]
    BY <2>2, <2>5, <2>6
  <2>8. /\ task'[e].pc = c /\ task'[e].target = task[e].target
        /\ task'[e].orig = task[e].orig /\ task'[e].ids = task[e].ids
        /\ task'[e].exec = task[e].exec /\ task'[e].retried = task[e].retried
    BY <1>1, <2>4 DEF Tasks
  <2>9. /\ task'[e].json.groups = G /\ task'[e].json.name = task[e].json.name
        /\ task'[e].json.tags = task[e].json.tags /\ task'[e].json.service = task[e].json.service
    BY <1>1, <2>4 DEF Tasks, Projects
  <2>. QED
    BY <1>2, <2>1, <2>6, <2>7, <2>8, <2>9 DEF assign
<1>3. CASE ~ (assign \/ task[e].exec)
  <2>1. Ends(e, "done")
    BY <1>3 DEF Resolved
  <2>. QED
    BY <1>3, <2>1, EndsFacts
<1>. QED
  BY <1>2, <1>3

\* Once the update was refused, and once the cache is purged.
LEMMA PurgingFacts ==
  ASSUME task \in [Events -> Tasks], NEW e \in Events, task' = [task EXCEPT ![e].pc = "purging"]
  PROVE  /\ task' \in [Events -> Tasks]
         /\ \A f \in Events \ {e} : task'[f] = task[f]
         /\ task'[e].pc = "purging" /\ task'[e].target = task[e].target
         /\ task'[e].json = task[e].json /\ task'[e].orig = task[e].orig
         /\ task'[e].ids = task[e].ids /\ task'[e].exec = task[e].exec /\ task'[e].retried = task[e].retried
<1>1. task[e] \in Tasks
  OBVIOUS
<1>. QED
  BY <1>1 DEF Tasks

\* The task after the purge.
LEMMA PurgeFacts ==
  ASSUME task \in [Events -> Tasks], NEW e \in Events, PurgeCache(e)
  PROVE  /\ task' \in [Events -> Tasks]
         /\ \A f \in Events \ {e} : task'[f] = task[f]
         /\ task'[e].pc = "resolving" /\ task'[e].target = task[e].target
         /\ task'[e].json = task[e].json /\ task'[e].orig = task[e].orig
         /\ task'[e].ids = {} /\ task'[e].todo = Paths
         /\ task'[e].exec = task[e].exec /\ task'[e].retried = TRUE
<1>1. task[e] \in Tasks
  OBVIOUS
<1>2. task'[e] = [pc |-> "resolving", target |-> task[e].target, json |-> task[e].json,
                  orig |-> task[e].orig, todo |-> Paths, ids |-> {}, exec |-> task[e].exec, retried |-> TRUE]
  BY <1>1 DEF PurgeCache, Tasks
<1>3. task'[e] \in Tasks
  BY <1>1, <1>2 DEF Tasks
<1>. QED
  BY <1>2, <1>3 DEF PurgeCache

\* The task after the projects were listed.
LEMMA RetrievedFacts ==
  ASSUME TypeOK, ProjectInv
  PROVE  LET u == Retrieved
             q == project[Chosen]
         IN  /\ u \in Tasks /\ u.ids = {} /\ u.retried = FALSE
             /\ u.pc \in {"resolving", "updating", "done"}
             /\ u.json.tags /\ u.json.service # "none" /\ u.json.name # "none"
             /\ u.json.groups = u.orig
             /\ Found = {} => /\ u.pc = "resolving" /\ u.target = 0 /\ u.json.name = "dynamic"
                              /\ u.orig = {} /\ u.todo = Paths
             /\ Found # {} => /\ Chosen \in {1, 2} /\ u.target = Chosen /\ u.orig = q.groups
                              /\ q.name # "none" /\ q \in Projects
                              /\ config.renameLegacy \/ q.name = "dynamic" => u.json.name = "dynamic"
                              /\ u.exec = ExecUpdate(q)
                              /\ config.updateGroups <=> u.pc = "resolving"
                              /\ u.pc = "resolving" => u.todo = Paths
                              /\ u.pc = "done" => ~ ExecUpdate(q)
<1>1. NoProject \in Projects
  BY DEF NoProject, Projects
<1>2. CASE Found = {}
  <2>. DEFINE j == [name |-> "dynamic", groups |-> {}, tags |-> TRUE, service |-> "own"]
  <2>1. j.name = "dynamic" /\ j.groups = {} /\ j.tags /\ j.service = "own" /\ j \in Projects
    BY DEF Projects
  <2>. HIDE DEF j
  <2>2. Retrieved = [pc |-> "resolving", target |-> 0, json |-> j, orig |-> {}, todo |-> Paths,
                     ids |-> {}, exec |-> FALSE, retried |-> FALSE]
    BY <1>2 DEF Retrieved, j
  <2>4. Retrieved \in Tasks
    BY <2>1, <2>2 DEF Tasks
  <2>. QED
    BY <1>2, <2>1, <2>2, <2>4
<1>3. CASE Found # {}
  <2>. DEFINE q == project[Chosen]
              j == Refreshed(q)
              c == IF config.updateGroups THEN "resolving" ELSE IF ExecUpdate(q) THEN "updating" ELSE "done"
              d == IF config.updateGroups THEN Paths ELSE {}
  <2>1. Chosen \in {1, 2} /\ q # NoProject /\ q \in Projects /\ q.name # "none"
    BY <1>3, ChosenFacts DEF Found, TypeOK, ProjectInv
  <2>2. Retrieved = [pc |-> c, target |-> Chosen, json |-> j, orig |-> q.groups, todo |-> d,
                     ids |-> {}, exec |-> ExecUpdate(q), retried |-> FALSE]
    BY <1>3 DEF Retrieved
  <2>. HIDE DEF q
  <2>3. /\ j = [name |-> IF Renames(q) THEN "dynamic" ELSE q.name, groups |-> q.groups, tags |-> TRUE,
                service |-> MergedService(q)]
    BY <2>1 DEF Refreshed, Projects
  <2>4. j \in Projects /\ j.tags /\ j.service # "none" /\ j.name # "none" /\ j.groups = q.groups
    BY <2>1, <2>3 DEF Projects, MergedService
  <2>5. config.renameLegacy \/ q.name = "dynamic" => j.name = "dynamic"
    BY <2>1, <2>3 DEF Projects, Renames
  <2>6. c \in {"resolving", "updating", "done"} /\ d \in SUBSET Paths /\ ExecUpdate(q) \in BOOLEAN
        /\ q.groups \in SUBSET Ids
    BY <2>1 DEF ExecUpdate, Projects
  <2>7. /\ config.updateGroups <=> c = "resolving"
        /\ c = "resolving" => d = Paths
        /\ c = "done" => ~ ExecUpdate(q)
    OBVIOUS
  <2>. HIDE DEF c, d, j
  <2>8. Retrieved \in Tasks
    BY <2>1, <2>2, <2>4, <2>6 DEF Tasks
  <2>. QED
    BY <1>3, <2>1, <2>2, <2>4, <2>5, <2>6, <2>7, <2>8 DEF q
<1>. QED
  BY <1>2, <1>3
-----------------------------------------------------------------------------
(***************************************************************************)
(* What a step of one event leaves alone.                                  *)
(***************************************************************************)

\* Whether an event is under way depends on its task alone.
LEMMA RunningKept ==
  ASSUME NEW f \in Events, task'[f].pc = task[f].pc
  PROVE  (f \in Running <=> f \in Running') /\ (At(f, "done") <=> At(f, "done")')
BY DEF Running, At

\* An event that is not concerned, of a step that writes no project.
LEMMA OthersKept ==
  ASSUME NEW f \in Events, task'[f] = task[f], why'[f] = why[f], UNCHANGED <<config, cxone, safe>>,
         IdsFresh => IdsFresh', lock'.event = f => lock' = lock,
         Known(f) /\ (f \in Running => TaskOK(f) /\ RetryOK(f) /\ AloneOK(f))
  PROVE  Known(f)' /\ (f \in Running' => TaskOK(f)' /\ RetryOK(f)' /\ AloneOK(f)')
<1>1. group' = group /\ made' = made /\ project' = project
  BY DEF cxone
<1>3. Known(f)' /\ (f \in Running' => f \in Running)
  BY <1>1 DEF Known, Running
<1>4. TaskOK(f) => TaskOK(f)'
  BY <1>1 DEF TaskOK
<1>5. RetryOK(f) => RetryOK(f)'
  <2>1. Valid(task[f].orig)' <=> Valid(task[f].orig)
    BY <1>1 DEF Valid, Assigned
  <2>2. Valid(task[f].ids)' <=> Valid(task[f].ids)
    BY <1>1 DEF Valid, Assigned
  <2>. QED
    BY <2>1, <2>2 DEF RetryOK
<1>6. AloneOK(f) => AloneOK(f)'
  BY <1>1 DEF AloneOK, Covered, Renames
<1>. QED
  BY <1>3, <1>4, <1>5, <1>6

\* The cache and the lock as they are when a step leaves both alone.
LEMMA CacheKept ==
  ASSUME UNCHANGED <<group, index, lock>>
  PROVE  IdsFresh => IdsFresh'
BY DEF IdsFresh

\* The properties of what CxOne has and of events that have ended.
LEMMA EndedKept ==
  ASSUME ManualGroupKept, RetryRecovers, SetupConverges, UNCHANGED <<config, cxone, safe>>,
         \A f \in Events : \/ task'[f] = task[f] /\ why'[f] = why[f]
                           \/ task'[f].pc \notin {"done", "failed"}
  PROVE  ManualGroupKept' /\ RetryRecovers' /\ SetupConverges'
<1>1. group' = group /\ project' = project
  BY DEF cxone
<1>2. ManualGroupKept'
  BY <1>1 DEF ManualGroupKept
<1>3. RetryRecovers'
  <2>. SUFFICES ASSUME NEW f \in Events, At(f, "failed")', why'[f] \cap {"raised", "fault"} = {}
                PROVE  IF task'[f].target = 0 THEN "created" \in why'[f] \/ ~ Valid(task[f].ids)'
                       ELSE "deleted" \in why'[f]
    BY DEF RetryRecovers, At
  <2>1. task'[f] = task[f] /\ why'[f] = why[f]
    BY DEF At
  <2>2. Valid(task[f].ids)' <=> Valid(task[f].ids)
    BY <1>1, <2>1 DEF Valid, Assigned
  <2>. QED
    BY <2>1, <2>2 DEF RetryRecovers, At
<1>4. SetupConverges'
  BY <1>1 DEF SetupConverges, At, Assigned
<1>. QED
  BY <1>2, <1>3, <1>4

\* No event gets company unnoticed.
LEMMA SoleKept ==
  ASSUME SoleInv, Running' \subseteq Running,
         \A f \in Events : why'[f] = {} /\ (f \in Running' \/ At(f, "done")')
                             => why[f] = {} /\ (f \in Running \/ At(f, "done"))
  PROVE  SoleInv'
BY DEF SoleInv

\* The groups and projects of a step that writes neither.
LEMMA CxOneKept ==
  ASSUME GroupInv, ProjectInv, UNCHANGED cxone
  PROVE  GroupInv' /\ ProjectInv'
BY DEF GroupInv, ProjectInv, cxone, Valid, Assigned
-----------------------------------------------------------------------------
(***************************************************************************)
(* Resolving groups.                                                       *)
(***************************************************************************)

\* A path is done with, by an id of the index or of CxOne's answer, or by
\* none: where that is all the event knows, the group does not exist.
LEMMA TakeStep ==
  ASSUME IInv, NEW e \in Events, NEW p \in Paths, NEW gen \in 0..MaxGen, Take(e, p, gen),
         At(e, "resolving"), gen <= made[p], UNCHANGED <<config, cxone, safe>>,
         task[e].retried /\ IdsFresh => gen \in {0, group[p]},
         IdsFresh => IdsFresh', lock'.event = e => lock' = lock,
         \/ why'[e] = why[e] /\ (why[e] = {} => gen # 0 \/ group[p] = 0)
         \/ why'[e] = why[e] \cup {"changed"}
  PROVE  Known(e)' /\ e \in Running' /\ TaskOK(e)' /\ RetryOK(e)' /\ AloneOK(e)'
<1>0. TypeOK /\ Known(e) /\ e \in Running /\ TaskOK(e) /\ RetryOK(e) /\ AloneOK(e)
  BY DEF IInv, RunningInv, Running, At
<1>1. group' = group /\ made' = made /\ project' = project /\ config' = config /\ safe' = safe
  BY DEF cxone
<1>2. /\ task'[e].ids = IF gen = 0 THEN task[e].ids ELSE task[e].ids \cup {<<p, gen>>}
      /\ task'[e].todo = task[e].todo \ {p}
      /\ task'[e].pc = task[e].pc /\ task'[e].target = task[e].target
      /\ task'[e].json = task[e].json /\ task'[e].orig = task[e].orig
      /\ task'[e].exec = task[e].exec /\ task'[e].retried = task[e].retried
      /\ task'[e] \in Tasks /\ task[e] \in Tasks /\ task[e].pc = "resolving"
  <2>1. task \in [Events -> Tasks]
    BY <1>0 DEF TypeOK
  <2>. QED
    BY <2>1, TakeFacts DEF At
<1>3. gen # 0 => gen \in Gens /\ <<p, gen>> # ManualId
  BY IdFacts DEF Gens
<1>4. e \in Running'
  BY <1>2 DEF Running
<1>5. Known(e)'
  BY <1>0, <1>1, <1>2, <1>3 DEF Known
<1>6. TaskOK(e)'
  BY <1>0, <1>1, <1>2 DEF TaskOK
<1>7. RetryOK(e)'
  <2>. SUFFICES ASSUME "deleted" \notin why'[e]
                PROVE  Valid(task[e].orig)' /\ (task'[e].retried => Valid(task[e].ids)' /\ IdsFresh')
    BY DEF RetryOK
  <2>1. Valid(task[e].orig) /\ (task[e].retried => Valid(task[e].ids) /\ IdsFresh)
    BY <1>0 DEF RetryOK
  <2>2. Valid(task[e].orig)'
    BY <1>1, <1>2, <2>1 DEF Valid, Assigned
  <2>3. ASSUME task'[e].retried
        PROVE  Valid(task[e].ids)'
    <3>1. Valid(task[e].ids) /\ gen \in {0, group[p]}
      BY <1>2, <2>1, <2>3
    <3>2. gen # 0 => <<p, gen>> \in Assigned
      BY <3>1 DEF Assigned
    <3>3. Valid(task'[e].ids)
      BY <1>2, <3>1, <3>2 DEF Valid
    <3>. QED
      BY <1>1, <3>3 DEF Valid, Assigned
  <2>. QED
    BY <1>2, <2>1, <2>2, <2>3
<1>8. AloneOK(e)'
  <2>. SUFFICES ASSUME why'[e] = {}
                PROVE  AloneOK(e)'
    BY DEF AloneOK
  <2>1. why[e] = {} /\ (gen # 0 \/ group[p] = 0)
    OBVIOUS
  <2>2. \A x \in Paths \ task'[e].todo : Covered(task[e].ids, x)'
    <3>1. Covered(task[e].ids, p)'
      BY <1>1, <1>2, <1>3, <2>1 DEF Covered
    <3>2. \A x \in Paths \ task[e].todo : Covered(task[e].ids, x)
      BY <1>0, <1>2, <2>1 DEF AloneOK
    <3>3. \A x \in Paths \ task[e].todo : Covered(task[e].ids, x)'
      BY <1>1, <1>2, <3>2 DEF Covered
    <3>. QED
      BY <1>2, <3>1, <3>3
  <2>3. lock'.event = e => lock'.gen = group'[lock'.path]
    BY <1>0, <1>1, <2>1 DEF AloneOK
  <2>. QED
    BY <1>0, <1>1, <1>2, <2>1, <2>2, <2>3 DEF AloneOK, Renames
<1>. QED
  BY <1>4, <1>5, <1>6, <1>7, <1>8

\* An id is taken from the index.
LEMMA UseIndexStep ==
  ASSUME IInv, NEW e \in Events, NEW p \in Paths, UseIndex(e, p)
  PROVE  IInv'
<1>. DEFINE gen == index[p]
<1>0. /\ TypeOK /\ RunningInv /\ Take(e, p, gen) /\ gen \in 0..MaxGen /\ gen # 0 /\ gen <= made[p]
      /\ UNCHANGED <<config, cxone, index, lock, faults, why, safe>> /\ At(e, "resolving") /\ lock = Free
  BY DEF IInv, UseIndex, TypeOK, IndexInv
<1>1. /\ task' \in [Events -> Tasks]
      /\ \A f \in Events \ {e} : task'[f] = task[f]
      /\ task'[e].pc = "resolving" /\ task[e].pc = "resolving"
  BY <1>0, TakeFacts DEF TypeOK, At
<1>2. IdsFresh => IdsFresh'
  BY <1>0, CacheKept DEF cxone
<1>3. IdsFresh => gen \in {0, group[p]}
  BY DEF IdsFresh
<1>. HIDE DEF gen
<1>4. Known(e)' /\ TaskOK(e)' /\ RetryOK(e)' /\ AloneOK(e)'
  BY <1>0, <1>2, <1>3, TakeStep
<1>5. RunningInv'
  BY <1>0, <1>1, <1>2, <1>4, OthersKept DEF RunningInv
<1>6. TypeOK'
  BY <1>0, <1>1 DEF TypeOK, At, cxone
<1>7. GroupInv' /\ ProjectInv' /\ IndexInv'
  BY <1>0, CxOneKept DEF IInv, IndexInv, cxone
<1>8. ManualGroupKept' /\ RetryRecovers' /\ SetupConverges'
  BY <1>0, <1>1, EndedKept DEF IInv
<1>9. SoleInv'
  <2>1. \A f \in Events : (f \in Running' <=> f \in Running) /\ (At(f, "done")' <=> At(f, "done"))
    BY <1>1, RunningKept
  <2>. QED
    BY <1>0, <2>1, SoleKept DEF IInv, Running
<1>. QED
  BY <1>5, <1>6, <1>7, <1>8, <1>9 DEF IInv

\* CxOne is asked for a group.
LEMMA AskGroupStep ==
  ASSUME IInv, NEW e \in Events, NEW p \in Paths, AskGroup(e, p)
  PROVE  IInv'
<1>0. /\ TypeOK /\ RunningInv /\ At(e, "resolving") /\ lock = Free /\ p \in task[e].todo
      /\ lock' = [event |-> e, path |-> p, gen |-> group[p]]
      /\ UNCHANGED <<config, cxone, index, task, faults, why, safe>>
  BY DEF IInv, AskGroup
<1>1. group' = group /\ made' = made /\ project' = project
  BY <1>0 DEF cxone
<1>2. IdsFresh => IdsFresh'
  BY <1>0, <1>1 DEF IdsFresh
<1>3. \A f \in Events \ {e} : Known(f)' /\ (f \in Running' => TaskOK(f)' /\ RetryOK(f)' /\ AloneOK(f)')
  BY <1>0, <1>2, OthersKept DEF RunningInv
<1>4. Known(e)' /\ TaskOK(e)' /\ RetryOK(e)' /\ AloneOK(e)'
  <2>1. Known(e) /\ TaskOK(e) /\ RetryOK(e) /\ AloneOK(e)
    BY <1>0 DEF RunningInv, Running, At
  <2>2. Known(e)' /\ TaskOK(e)'
    BY <1>0, <1>1, <2>1 DEF Known, TaskOK
  <2>3. RetryOK(e)'
    BY <1>0, <1>1, <1>2, <2>1 DEF RetryOK, Valid, Assigned
  <2>4. AloneOK(e)'
    BY <1>0, <1>1, <2>1 DEF AloneOK, Covered, Renames
  <2>. QED
    BY <2>1, <2>2, <2>3, <2>4
<1>5. RunningInv'
  BY <1>3, <1>4 DEF RunningInv
<1>6. TypeOK'
  <2>1. lock' \in [event : Events, path : Paths, gen : 0..MaxGen]
        /\ At(lock.event, "resolving")' /\ lock'.path \in task'[lock'.event].todo
    BY <1>0 DEF TypeOK, At
  <2>. QED
    BY <1>0, <1>1, <2>1 DEF TypeOK
<1>7. GroupInv' /\ ProjectInv'
  BY <1>0, CxOneKept DEF IInv
<1>8. IndexInv'
  <2>1. group[p] <= made[p]
    BY DEF IInv, GroupInv, TypeOK
  <2>. QED
    BY <1>0, <1>1, <2>1 DEF IInv, IndexInv
<1>9. ManualGroupKept' /\ RetryRecovers' /\ SetupConverges'
  BY <1>0, EndedKept DEF IInv
<1>10. SoleInv'
  BY <1>0 DEF IInv, SoleInv, Running, At
<1>. QED
  BY <1>5, <1>6, <1>7, <1>8, <1>9, <1>10 DEF IInv

\* The answer comes, or the request fails.
LEMMA AnsweredStep ==
  ASSUME IInv, NEW e \in Events, GroupAnswered(e) \/ AskFails(e)
  PROVE  IInv'
<1>0. TypeOK /\ RunningInv /\ "none" \notin Events
  BY SetupAssumption DEF IInv
<1>1. PICK gen \in {0, lock.gen} :
        /\ Answered(e, gen)
        /\ \/ gen = lock.gen /\ UNCHANGED <<faults, why>>
           \/ Fault(e, "changed")
  BY DEF GroupAnswered, AskFails
<1>. DEFINE p == lock.path
<1>2. /\ lock.event = e /\ lock # Free /\ At(e, "resolving") /\ p \in Paths /\ gen \in 0..MaxGen
      /\ lock.gen \in 0..MaxGen
  <2>1. lock.event = e
    BY <1>1 DEF Answered
  <2>2. lock # Free
    BY <1>0, <2>1 DEF Free
  <2>3. lock \in [event : Events, path : Paths, gen : 0..MaxGen] /\ At(lock.event, "resolving")
    BY <1>0, <2>2 DEF TypeOK
  <2>. QED
    BY <1>1, <2>1, <2>2, <2>3, SetupAssumption
<1>3. /\ index' = [index EXCEPT ![p] = gen] /\ Take(e, p, gen) /\ lock' = Free
      /\ UNCHANGED <<config, cxone, safe>>
  BY <1>1 DEF Answered
<1>4. group' = group /\ made' = made /\ project' = project
  BY <1>3 DEF cxone
<1>. HIDE DEF p
<1>5. gen <= made[p] /\ (IdsFresh => gen \in {0, group[p]})
  BY <1>1, <1>2 DEF IInv, IndexInv, IdsFresh, TypeOK, p
<1>6. IdsFresh => IdsFresh'
  BY <1>0, <1>2, <1>3, <1>4, <1>5 DEF IdsFresh, TypeOK
<1>7. /\ task' \in [Events -> Tasks]
      /\ \A f \in Events \ {e} : task'[f] = task[f]
      /\ task'[e].pc = "resolving" /\ task[e].pc = "resolving"
  BY <1>0, <1>2, <1>3, TakeFacts DEF TypeOK, At
<1>8. \/ why'[e] = why[e] /\ (why[e] = {} => gen # 0 \/ group[p] = 0)
      \/ why'[e] = why[e] \cup {"changed"}
  <2>1. CASE gen = lock.gen /\ UNCHANGED <<faults, why>>
    <3>1. why[e] = {} => lock.gen = group[p]
      BY <1>0, <1>2 DEF RunningInv, Running, At, AloneOK, p
    <3>. QED
      BY <2>1, <3>1
  <2>2. CASE Fault(e, "changed")
    BY <1>0, <2>2 DEF Fault, TypeOK
  <2>. QED
    BY <1>1, <2>1, <2>2
<1>9. lock'.event \notin Events
  BY <1>0, <1>3 DEF Free
<1>10. Known(e)' /\ TaskOK(e)' /\ RetryOK(e)' /\ AloneOK(e)'
  BY <1>2, <1>3, <1>5, <1>6, <1>8, <1>9, TakeStep
<1>11. why' \in [Events -> SUBSET {"deleted", "changed", "created", "fault", "raised"}]
       /\ faults' \in 0..MaxFaults /\ \A f \in Events \ {e} : why'[f] = why[f]
  BY <1>0, <1>1, SetupAssumption DEF Fault, Fails, TypeOK
<1>12. RunningInv'
  BY <1>0, <1>3, <1>6, <1>7, <1>9, <1>10, <1>11, OthersKept DEF RunningInv
<1>13. TypeOK'
  BY <1>0, <1>2, <1>3, <1>4, <1>7, <1>11 DEF TypeOK
<1>14. GroupInv' /\ ProjectInv'
  BY <1>3, CxOneKept DEF IInv
<1>15. IndexInv'
  BY <1>0, <1>2, <1>3, <1>4, <1>5 DEF IInv, IndexInv, TypeOK
<1>16. ManualGroupKept' /\ RetryRecovers' /\ SetupConverges'
  BY <1>3, <1>7, <1>11, EndedKept DEF IInv
<1>17. SoleInv'
  <2>1. \A f \in Events : (f \in Running' <=> f \in Running) /\ (At(f, "done")' <=> At(f, "done"))
    BY <1>7, RunningKept
  <2>2. \A f \in Events : why'[f] = {} => why[f] = {}
    BY <1>8, <1>11
  <2>. QED
    BY <2>1, <2>2, SoleKept DEF IInv, Running
<1>. QED
  BY <1>12, <1>13, <1>14, <1>15, <1>16, <1>17 DEF IInv
-----------------------------------------------------------------------------
(***************************************************************************)
(* Events that end, and what is noted for the others.                      *)
(***************************************************************************)
Causes == {"deleted", "changed", "created", "fault", "raised"}

\* RetryRecovers and SetupConverges of one event.
Recovers(e) ==
  At(e, "failed") /\ why[e] \cap {"raised", "fault"} = {} =>
    IF task[e].target = 0 THEN "created" \in why[e] \/ ~ Valid(task[e].ids) ELSE "deleted" \in why[e]

Converges(e) ==
  At(e, "done") /\ why[e] = {} =>
    LET t == task[e]
        q == project[IF t.target = 0 THEN 2 ELSE t.target]
    IN  /\ q.tags /\ q.service # "none"
        /\ config.renameLegacy => q.name = "dynamic"
        /\ config.updateGroups \/ t.target = 0 => Assigned \subseteq q.groups

\* The two properties, event by event.
LEMMA PerEvent ==
  /\ RetryRecovers <=> \A e \in Events : Recovers(e)
  /\ SetupConverges <=> \A e \in Events : Converges(e)
  /\ RetryRecovers' <=> \A e \in Events : Recovers(e)'
  /\ SetupConverges' <=> \A e \in Events : Converges(e)'
BY DEF RetryRecovers, SetupConverges, Recovers, Converges

\* One event ends and no project is written.
LEMMA EndedStep ==
  ASSUME ManualGroupKept, RetryRecovers, SetupConverges, UNCHANGED <<config, cxone, safe>>, NEW e \in Events,
         \A f \in Events \ {e} : task'[f] = task[f] /\ why'[f] = why[f],
         Recovers(e)', Converges(e)'
  PROVE  ManualGroupKept' /\ RetryRecovers' /\ SetupConverges'
<1>1. group' = group /\ project' = project
  BY DEF cxone
<1>2. ManualGroupKept'
  BY <1>1 DEF ManualGroupKept
<1>3. \A f \in Events \ {e} : Recovers(f) => Recovers(f)'
  BY <1>1 DEF Recovers, At, Valid, Assigned
<1>4. \A f \in Events \ {e} : Converges(f) => Converges(f)'
  BY <1>1 DEF Converges, At, Assigned
<1>. QED
  BY <1>2, <1>3, <1>4, PerEvent

\* If each group that exists is in a set that CxOne accepts, under some id,
\* the set has the ids they have now.
LEMMA CoveredFacts ==
  ASSUME group \in [Paths -> 0..MaxGen], NEW S \in SUBSET Ids, Valid(S),
         \A p \in Paths : Covered(S, p)
  PROVE  Assigned \subseteq S
<1>1. ASSUME NEW p \in Paths, group[p] # 0
      PROVE  <<p, group[p]>> \in S
  <2>1. PICK g \in Gens : <<p, g>> \in S
    BY <1>1 DEF Covered
  <2>. QED
    BY <2>1, ValidFacts
<1>. QED
  BY <1>1 DEF Assigned

\* ValidFacts in the next state.
LEMMA ValidNext ==
  ASSUME group' \in [Paths -> 0..MaxGen], NEW S \in SUBSET Ids
  PROVE  S \subseteq Assigned' \cup {ManualId} <=> \A p \in Paths, g \in Gens : <<p, g>> \in S => group'[p] = g
<1>1. ASSUME S \subseteq Assigned' \cup {ManualId}, NEW p \in Paths, NEW g \in Gens, <<p, g>> \in S
      PROVE  group'[p] = g
  <2>1. <<p, g>> \in Assigned'
    BY <1>1, IdFacts
  <2>. QED
    BY <2>1 DEF Assigned
<1>2. ASSUME \A p \in Paths, g \in Gens : <<p, g>> \in S => group'[p] = g,
             NEW id \in S, id # ManualId
      PROVE  id \in Assigned'
  <2>1. PICK p \in Paths, g \in Gens : id = <<p, g>>
    BY <1>2, IdFacts
  <2>2. group'[p] = g /\ g # 0
    BY <1>2, <2>1 DEF Gens
  <2>. QED
    BY <2>1, <2>2 DEF Assigned
<1>. QED
  BY <1>1, <1>2

\* What is noted: something for every event under way or ended well.
LEMMA NotedFacts ==
  ASSUME TypeOK, NEW f \in Events, NEW cause \in Causes, why'[f] = Noted(f, cause)
  PROVE  /\ why'[f] \in SUBSET Causes
         /\ f \in Running => why'[f] = why[f] \cup {cause}
         /\ f \in Running \/ At(f, "done") => why'[f] # {}
         /\ At(f, "failed") => why'[f] = why[f]
<1>1. why[f] \in SUBSET Causes
  BY DEF TypeOK, Causes
<1>2. CASE f \in Running
  <2>1. ~ At(f, "failed") /\ ~ At(f, "done")
    BY <1>2 DEF Running, At
  <2>2. why'[f] = why[f] \cup {cause}
    BY <1>2, <2>1 DEF Noted
  <2>. QED
    BY <1>1, <1>2, <2>1, <2>2
<1>3. CASE f \notin Running /\ At(f, "done")
  <2>1. why'[f] = {"changed"}
    BY <1>3 DEF Noted
  <2>2. ~ At(f, "failed")
    BY <1>3 DEF At
  <2>. QED
    BY <1>3, <2>1, <2>2 DEF Causes
<1>4. CASE f \notin Running /\ ~ At(f, "done")
  <2>1. why'[f] = why[f]
    BY <1>4 DEF Noted
  <2>. QED
    BY <1>1, <1>4, <2>1
<1>. QED
  BY <1>2, <1>3, <1>4

\* Another event under way, once something was noted for it.
LEMMA OthersNoted ==
  ASSUME IInv, NEW f \in Events, NEW cause \in Causes, task'[f] = task[f], why'[f] = Noted(f, cause),
         UNCHANGED <<config, group, made, index, lock>>,
         f \in Running => safe' = safe,
         project'[1].name = project[1].name \/ task[f].target # 0,
         project[2].name # "none" => project'[2].name # "none",
         project[1].name # "none" => project'[1].name # "none",
         project'[2].name # project[2].name => cause = "created"
  PROVE  Known(f)' /\ (f \in Running' => TaskOK(f)' /\ RetryOK(f)' /\ AloneOK(f)')
<1>1. Known(f)'
  BY DEF IInv, RunningInv, Known
<1>. SUFFICES ASSUME f \in Running'
              PROVE  TaskOK(f)' /\ RetryOK(f)' /\ AloneOK(f)'
  BY <1>1
<1>2. f \in Running
  BY DEF Running
<1>3. why'[f] = why[f] \cup {cause} /\ TaskOK(f) /\ RetryOK(f) /\ task[f] \in Tasks
  BY <1>2, NotedFacts DEF IInv, RunningInv, TypeOK
<1>4. TaskOK(f)'
  <2>1. task[f].target = 0 => project'[1].name = "none" /\ (project'[2].name = "none" \/ "created" \in why'[f])
    BY <1>3 DEF TaskOK
  <2>2. task[f].target # 0 => project'[task[f].target].name # "none"
    BY <1>3 DEF TaskOK, Tasks
  <2>. QED
    BY <1>2, <1>3, <2>1, <2>2 DEF TaskOK
<1>5. RetryOK(f)'
  BY <1>3 DEF RetryOK, Valid, Assigned, IdsFresh
<1>6. AloneOK(f)'
  BY <1>3 DEF AloneOK
<1>. QED
  BY <1>4, <1>5, <1>6
-----------------------------------------------------------------------------
(***************************************************************************)
(* Writing the project.                                                    *)
(***************************************************************************)

\* The lock is with another event than one that is not resolving.
LEMMA LockElsewhere ==
  ASSUME TypeOK, NEW e \in Events, ~ (At(e, "resolving") /\ task[e].todo # {})
  PROVE  lock.event # e
BY SetupAssumption DEF TypeOK, Free

\* Types after a step of an event that does not hold the lock.
LEMMA TypesKept ==
  ASSUME TypeOK, NEW e \in Events, lock.event # e, task' \in [Events -> Tasks],
         \A f \in Events \ {e} : task'[f] = task[f],
         why' \in [Events -> SUBSET Causes], faults' \in 0..MaxFaults,
         project' \in [{1, 2} -> Projects], UNCHANGED <<config, group, made, index, lock, safe>>
  PROVE  TypeOK'
<1>1. CASE lock = Free
  BY <1>1 DEF TypeOK, Causes
<1>2. CASE /\ lock \in [event : Events, path : Paths, gen : 0..MaxGen]
           /\ At(lock.event, "resolving") /\ lock.path \in task[lock.event].todo
  BY <1>2 DEF TypeOK, Causes, At
<1>. QED
  BY <1>1, <1>2 DEF TypeOK

\* A fault is noted for the event whose request failed.
LEMMA FaultFacts ==
  ASSUME TypeOK, NEW e \in Events, NEW cause \in Causes, Fault(e, cause)
  PROVE  /\ why' \in [Events -> SUBSET Causes] /\ faults' \in 0..MaxFaults
         /\ why'[e] = why[e] \cup {cause} /\ \A f \in Events \ {e} : why'[f] = why[f]
BY SetupAssumption DEF TypeOK, Fault, Fails, Causes

\* The groups are resolved: what is to be written, if anything, has them all.
LEMMA ResolvedStep ==
  ASSUME IInv, NEW e \in Events, Resolved(e)
  PROVE  IInv'
<1>. DEFINE t == task[e]
            u == task'[e]
            assign == t.target = 0 \/ t.retried \/ NewGroups(e)
<1>0. /\ TypeOK /\ RunningInv /\ ProjectInv /\ At(e, "resolving") /\ t.todo = {} /\ t.pc = "resolving"
      /\ task \in [Events -> Tasks] /\ t \in Tasks /\ project \in [{1, 2} -> Projects]
      /\ group \in [Paths -> 0..MaxGen]
      /\ UNCHANGED <<config, cxone, index, lock, faults, why, safe>>
  BY DEF IInv, Resolved, At, TypeOK
<1>1. group' = group /\ made' = made /\ project' = project /\ config' = config /\ safe' = safe
      /\ lock' = lock /\ index' = index /\ why' = why /\ faults' = faults
  BY <1>0 DEF cxone
<1>2. /\ task' \in [Events -> Tasks]
      /\ \A f \in Events \ {e} : task'[f] = task[f]
      /\ u.target = t.target
      /\ ~ (assign \/ t.exec) => u.pc = "done" /\ u.ids = {}
      /\ assign \/ t.exec =>
           /\ u.pc = IF t.target = 0 THEN "creating" ELSE "updating"
           /\ u.json.groups = IF assign THEN t.orig \cup t.ids ELSE t.json.groups
           /\ u.json.name = t.json.name /\ u.json.tags = t.json.tags
           /\ u.json.service = t.json.service
           /\ u.orig = t.orig /\ u.ids = t.ids /\ u.exec = t.exec /\ u.retried = t.retried
  BY <1>0, ResolvedFacts
<1>3. e \in Running /\ Known(e) /\ TaskOK(e) /\ RetryOK(e) /\ AloneOK(e)
  BY <1>0 DEF RunningInv, Running
<1>4. lock.event # e
  BY <1>0, LockElsewhere
<1>5. ~ assign => t.ids \subseteq t.orig /\ t.target # 0 /\ ~ t.retried
  BY DEF NewGroups, Wanted
<1>6. why[e] = {} => \A p \in Paths : Covered(t.ids, p)
  BY <1>0, <1>3 DEF AloneOK
<1>. HIDE DEF assign
<1>7. Known(e)' /\ (e \in Running' => TaskOK(e)' /\ RetryOK(e)' /\ AloneOK(e)')
  <2>1. CASE assign \/ t.exec
    <3>1. Known(e)'
      BY <1>1, <1>2, <1>3, <2>1 DEF Known
    <3>2. TaskOK(e)'
      <4>1. u.pc = "creating" \/ u.retried => u.json.groups = u.orig \cup u.ids
        BY <1>2, <1>5, <2>1
      <4>2. t.target \in safe => ManualId \in u.orig /\ ManualId \in u.json.groups
        BY <1>2, <1>3, <2>1 DEF TaskOK
      <4>3. t.target = 0 => t.orig = {} /\ ~ t.retried /\ project[1].name = "none"
              /\ (project[2].name = "none" \/ "created" \in why[e])
        BY <1>3 DEF TaskOK
      <4>4. t.target # 0 => project[t.target].name # "none"
        BY <1>3 DEF TaskOK
      <4>5. /\ t.json.tags /\ t.json.service # "none" /\ t.json.name # "none"
            /\ config.renameLegacy \/ t.target # 1 => t.json.name = "dynamic"
        BY <1>3 DEF TaskOK
      <4>. QED
        BY <1>1, <1>2, <2>1, <4>1, <4>2, <4>3, <4>4, <4>5 DEF TaskOK
    <3>3. RetryOK(e)'
      BY <1>1, <1>2, <1>3, <2>1 DEF RetryOK, Valid, Assigned, IdsFresh
    <3>4. AloneOK(e)'
      <4>. SUFFICES ASSUME why[e] = {}
                    PROVE  AloneOK(e)'
        BY <1>1 DEF AloneOK
      <4>1. t.ids \subseteq u.json.groups
        BY <1>0, <1>2, <1>3, <1>5, <2>1 DEF TaskOK
      <4>2. \A p \in Paths : Covered(u.json.groups, p)
        BY <1>6, <4>1 DEF Covered
      <4>. QED
        BY <1>1, <1>2, <1>3, <1>4, <2>1, <4>2 DEF AloneOK, Covered, Renames
    <3>. QED
      BY <3>1, <3>2, <3>3, <3>4
  <2>2. CASE ~ (assign \/ t.exec)
    BY <1>2, <2>2 DEF Known, Running
  <2>. QED
    BY <2>1, <2>2
<1>8. RunningInv'
  BY <1>0, <1>1, <1>2, <1>4, <1>7, CacheKept, OthersKept DEF RunningInv
<1>9. TypeOK'
  <2>1. why \in [Events -> SUBSET Causes] /\ faults \in 0..MaxFaults
    BY <1>0 DEF TypeOK, Causes
  <2>. QED
    BY <1>0, <1>1, <1>2, <1>4, <2>1, TypesKept
<1>10. Recovers(e)' /\ Converges(e)'
  <2>1. CASE assign \/ t.exec
    BY <1>2, <2>1 DEF Recovers, Converges, At
  <2>2. CASE ~ (assign \/ t.exec)
    <3>. DEFINE q == project[t.target]
    <3>1. t.target \in {1, 2} /\ q \in Projects /\ q.name # "none" /\ Valid(q.groups)
      BY <1>0, <1>3, <1>5, <2>2 DEF TaskOK, Tasks, ProjectInv
    <3>2. ASSUME why[e] = {}
          PROVE  /\ q.tags /\ q.service # "none"
                 /\ config.renameLegacy => q.name = "dynamic"
                 /\ Assigned \subseteq q.groups
      <4>1. q.groups = t.orig /\ q.tags /\ q.service = "own" /\ ~ Renames(q)
        BY <1>3, <2>2, <3>1, <3>2 DEF AloneOK
      <4>2. config.renameLegacy => q.name = "dynamic"
        BY <3>1, <4>1 DEF Renames, Projects
      <4>3. \A p \in Paths : Covered(q.groups, p)
        BY <1>5, <1>6, <2>2, <3>2, <4>1 DEF Covered
      <4>4. Assigned \subseteq q.groups
        BY <1>0, <3>1, <4>3, CoveredFacts DEF Projects
      <4>. QED
        BY <4>1, <4>2, <4>4
    <3>. QED
      BY <1>1, <1>2, <2>2, <3>1, <3>2 DEF Recovers, Converges, At, Assigned
  <2>. QED
    BY <2>1, <2>2
<1>11. ManualGroupKept' /\ RetryRecovers' /\ SetupConverges'
  BY <1>0, <1>1, <1>2, <1>10, EndedStep DEF IInv
<1>12. SoleInv'
  <2>1. \A f \in Events \ {e} : (f \in Running' <=> f \in Running) /\ (At(f, "done")' <=> At(f, "done"))
    BY <1>2, RunningKept
  <2>. QED
    BY <1>1, <1>3, <2>1, SoleKept DEF IInv, Running
<1>13. GroupInv' /\ ProjectInv' /\ IndexInv'
  BY <1>0, <1>1, CxOneKept DEF IInv, IndexInv
<1>. QED
  BY <1>8, <1>9, <1>11, <1>12, <1>13 DEF IInv

\* The project is made, with the groups the event has resolved.
LEMMA CreatedStep ==
  ASSUME IInv, NEW e \in Events, NEW step \in {"done", "failed"}, NEW causes \in SUBSET Causes,
         Created(e, causes), Ends(e, step), faults' \in 0..MaxFaults,
         IF step = "done" THEN causes = {} ELSE "raised" \in causes
  PROVE  IInv'
<1>. DEFINE t == task[e]
            j == task[e].json
<1>0. /\ TypeOK /\ RunningInv /\ ProjectInv /\ t.pc = "creating" /\ Valid(j.groups) /\ Dynamic = {}
      /\ task \in [Events -> Tasks] /\ t \in Tasks /\ project \in [{1, 2} -> Projects]
      /\ group \in [Paths -> 0..MaxGen] /\ safe \subseteq {1, 2}
      /\ project' = [project EXCEPT ![2] = j]
      /\ UNCHANGED <<config, group, made, index, lock, safe>>
  BY DEF IInv, Created, At, TypeOK
<1>1. e \in Running /\ TaskOK(e) /\ AloneOK(e)
  BY <1>0 DEF RunningInv, Running
<1>2. /\ task' \in [Events -> Tasks]
      /\ \A f \in Events \ {e} : task'[f] = task[f]
      /\ task'[e].pc = step /\ task'[e].target = t.target
      /\ task'[e].ids = IF step = "done" THEN {} ELSE t.ids
  BY <1>0, EndsFacts
<1>3. /\ t.target = 0 /\ project[1].name = "none" /\ j.name = "dynamic" /\ j.tags /\ j.service # "none"
      /\ j \in Projects /\ j.groups \in SUBSET Ids
  BY <1>0, <1>1 DEF TaskOK, Tasks, Projects
<1>4. project[2].name = "none" /\ project[2] = NoProject
  <2>1. 2 \notin Dynamic
    BY <1>0
  <2>2. project[2].name = "dynamic" => project[2] # NoProject
    BY DEF NoProject
  <2>. QED
    BY <1>0, <2>1, <2>2 DEF Dynamic, Found, ProjectInv
<1>5. project'[1] = project[1] /\ project'[2] = j /\ project' \in [{1, 2} -> Projects]
  BY <1>0, <1>3
<1>6. /\ why'[e] = why[e] \cup causes /\ why' \in [Events -> SUBSET Causes]
      /\ \A f \in Events \ {e} : why'[f] = Noted(f, "created")
      /\ \A f \in Events \ {e} : f \in Running \/ At(f, "done") => why'[f] # {}
      /\ \A f \in Events \ {e} : At(f, "failed") => why'[f] = why[f]
  <2>1. why' = [f \in Events |-> IF f = e THEN why[f] \cup causes ELSE Noted(f, "created")]
    BY DEF Created
  <2>2. why'[e] = why[e] \cup causes /\ \A f \in Events \ {e} : why'[f] = Noted(f, "created")
    BY <2>1
  <2>3. why[e] \in SUBSET Causes
    BY <1>0 DEF TypeOK, Causes
  <2>4. \A f \in Events \ {e} : why'[f] \in SUBSET Causes /\ (f \in Running \/ At(f, "done") => why'[f] # {})
                                /\ (At(f, "failed") => why'[f] = why[f])
    BY <1>0, <2>2, NotedFacts DEF Causes
  <2>. QED
    BY <2>1, <2>2, <2>3, <2>4
<1>7. lock.event # e
  BY <1>0, LockElsewhere DEF At
<1>8. TypeOK'
  BY <1>0, <1>2, <1>5, <1>6, <1>7, TypesKept
<1>9. \A f \in Events \ {e} : Known(f)' /\ (f \in Running' => TaskOK(f)' /\ RetryOK(f)' /\ AloneOK(f)')
  BY <1>0, <1>2, <1>3, <1>4, <1>5, <1>6, OthersNoted DEF Causes
<1>10. RunningInv'
  <2>1. Known(e)' /\ e \notin Running'
    BY <1>0, <1>2 DEF RunningInv, Known, Running
  <2>. QED
    BY <1>9, <2>1 DEF RunningInv
<1>11. GroupInv' /\ IndexInv'
  BY <1>0 DEF IInv, GroupInv, IndexInv
<1>12. ProjectInv'
  <2>1. j # NoProject
    BY <1>3 DEF NoProject
  <2>2. Valid(project[1].groups)' /\ Valid(project[2].groups)'
    BY <1>0, <1>5 DEF Valid, Assigned, ProjectInv
  <2>3. \A i \in {1, 2} : project'[i].name = "none" <=> project'[i] = NoProject
    BY <1>0, <1>3, <1>5, <2>1 DEF ProjectInv
  <2>. QED
    BY <1>3, <1>5, <2>2, <2>3 DEF ProjectInv
<1>13. ManualGroupKept'
  <2>1. 2 \notin safe
    BY <1>4 DEF IInv, ManualGroupKept, NoProject
  <2>. QED
    BY <1>0, <1>5, <2>1 DEF IInv, ManualGroupKept
<1>14. \A f \in Events : Recovers(f)'
  <2>1. \A f \in Events \ {e} : Recovers(f)
    BY PerEvent DEF IInv
  <2>2. \A f \in Events \ {e} : Recovers(f)'
    BY <1>0, <1>2, <1>6, <2>1 DEF Recovers, At, Valid, Assigned
  <2>. QED
    BY <1>2, <1>6, <2>2 DEF Recovers, At
<1>15. \A f \in Events : Converges(f)'
  <2>1. \A f \in Events \ {e} : Converges(f)'
    BY <1>2, <1>6 DEF Converges, At
  <2>2. why[e] = {} => Assigned \subseteq j.groups
    BY <1>0, <1>1, <1>3, CoveredFacts DEF AloneOK
  <2>3. Converges(e)'
    BY <1>0, <1>2, <1>3, <1>5, <1>6, <2>2 DEF Converges, Assigned
  <2>. QED
    BY <2>1, <2>3
<1>16. SoleInv'
  <2>1. \A f \in Events \ {e} : (f \in Running' <=> f \in Running) /\ (At(f, "done")' <=> At(f, "done"))
    BY <1>2, RunningKept
  <2>2. Running' \subseteq Running
    BY <1>1, <2>1 DEF Running
  <2>. QED
    BY <1>1, <1>6, <2>1, <2>2, SoleKept DEF IInv
<1>. QED
  BY <1>8, <1>10, <1>11, <1>12, <1>13, <1>14, <1>15, <1>16, PerEvent DEF IInv

\* With and without CxOne's answer.
LEMMA CreateProjectStep ==
  ASSUME IInv, NEW e \in Events, CreateProject(e) \/ CreateUnheard(e)
  PROVE  IInv'
<1>1. faults \in 0..MaxFaults /\ {} \in SUBSET Causes /\ {"raised"} \in SUBSET Causes
  BY DEF IInv, TypeOK, Causes
<1>2. CASE CreateProject(e)
  <2>1. Created(e, {}) /\ Ends(e, "done") /\ faults' \in 0..MaxFaults
    BY <1>1, <1>2 DEF CreateProject
  <2>. QED
    BY <1>1, <2>1, CreatedStep
<1>3. CASE CreateUnheard(e)
  <2>1. Created(e, {"raised"}) /\ Ends(e, "failed") /\ faults' \in 0..MaxFaults
    BY <1>1, <1>3, SetupAssumption DEF CreateUnheard, Fails
  <2>. QED
    BY <1>1, <2>1, CreatedStep
<1>. QED
  BY <1>2, <1>3

\* An event ends with an exception, no project being written.
LEMMA FailsStep ==
  ASSUME IInv, NEW e \in Events, Ends(e, "failed"), ~ At(e, "resolving"),
         UNCHANGED <<config, cxone, index, lock, safe>>,
         why' \in [Events -> SUBSET Causes], faults' \in 0..MaxFaults,
         \A f \in Events \ {e} : why'[f] = why[f], Recovers(e)'
  PROVE  IInv'
<1>0. /\ TypeOK /\ RunningInv /\ task \in [Events -> Tasks] /\ project \in [{1, 2} -> Projects]
      /\ group' = group /\ made' = made /\ project' = project
  BY DEF IInv, TypeOK, cxone
<1>2. /\ task' \in [Events -> Tasks]
      /\ \A f \in Events \ {e} : task'[f] = task[f]
      /\ task'[e].pc = "failed" /\ task'[e].target = task[e].target /\ task'[e].ids = task[e].ids
  BY <1>0, EndsFacts
<1>3. lock.event # e
  BY <1>0, LockElsewhere
<1>4. TypeOK'
  BY <1>0, <1>2, <1>3, TypesKept
<1>5. RunningInv'
  <2>1. Known(e)' /\ e \notin Running'
    BY <1>0, <1>2 DEF RunningInv, Known, Running
  <2>. QED
    BY <1>0, <1>2, <1>3, <2>1, CacheKept, OthersKept DEF RunningInv
<1>6. ManualGroupKept' /\ RetryRecovers' /\ SetupConverges'
  <2>1. Converges(e)'
    BY <1>2 DEF Converges, At
  <2>. QED
    BY <1>2, <2>1, EndedStep DEF IInv
<1>7. SoleInv'
  <2>1. \A f \in Events \ {e} : (f \in Running' <=> f \in Running) /\ (At(f, "done")' <=> At(f, "done"))
    BY <1>2, RunningKept
  <2>2. e \notin Running' /\ ~ At(e, "done")'
    BY <1>2 DEF Running, At
  <2>3. Running' \subseteq Running
    BY <2>1, <2>2 DEF Running
  <2>. QED
    BY <2>1, <2>2, <2>3, SoleKept DEF IInv
<1>8. GroupInv' /\ ProjectInv' /\ IndexInv'
  BY <1>0, CxOneKept DEF IInv, IndexInv
<1>. QED
  BY <1>4, <1>5, <1>6, <1>7, <1>8 DEF IInv

\* The projects cannot be listed.
LEMMA ListFailsStep ==
  ASSUME IInv, NEW e \in Events, ListFails(e)
  PROVE  IInv'
<1>1. /\ At(e, "idle") /\ Ends(e, "failed") /\ Fault(e, "raised")
      /\ UNCHANGED <<config, cxone, index, lock, safe>> /\ TypeOK
  BY DEF ListFails, IInv
<1>2. /\ why' \in [Events -> SUBSET Causes] /\ faults' \in 0..MaxFaults
      /\ why'[e] = why[e] \cup {"raised"} /\ \A f \in Events \ {e} : why'[f] = why[f]
  BY <1>1, FaultFacts DEF Causes
<1>3. Recovers(e)' /\ ~ At(e, "resolving")
  BY <1>1, <1>2 DEF Recovers, At
<1>. QED
  BY <1>1, <1>2, <1>3, FailsStep

\* The project is refused: for a fault, an id that is gone, or a project
\* made since the listing.
LEMMA CreateFailsStep ==
  ASSUME IInv, NEW e \in Events, CreateFails(e)
  PROVE  IInv'
<1>. DEFINE t == task[e]
<1>0. /\ TypeOK /\ RunningInv /\ ProjectInv /\ t.pc = "creating" /\ t \in Tasks
      /\ task \in [Events -> Tasks] /\ Ends(e, "failed")
      /\ UNCHANGED <<config, cxone, index, lock, safe>>
  BY DEF IInv, CreateFails, At, TypeOK
<1>1. TaskOK(e)
  BY <1>0 DEF RunningInv, Running
<1>2. t.target = 0 /\ t.json.groups = t.ids /\ project[1].name = "none"
      /\ (project[2].name = "none" \/ "created" \in why[e])
  BY <1>0, <1>1 DEF TaskOK
<1>3. task'[e].pc = "failed" /\ task'[e].target = t.target /\ task'[e].ids = t.ids
  BY <1>0, EndsFacts
<1>4. ~ At(e, "resolving") /\ group' = group
  BY <1>0 DEF At, cxone
<1>5. CASE ~ (Valid(t.json.groups) /\ Dynamic = {}) /\ UNCHANGED <<faults, why>>
  <2>1. "created" \in why[e] \/ ~ Valid(t.ids)
    <3>1. Dynamic # {} => project[2].name # "none"
      BY <1>2 DEF Dynamic, Found
    <3>. QED
      BY <1>2, <1>5, <3>1
  <2>2. Recovers(e)'
    BY <1>2, <1>3, <1>4, <1>5, <2>1 DEF Recovers, Valid, Assigned
  <2>3. why' \in [Events -> SUBSET Causes] /\ faults' \in 0..MaxFaults
    BY <1>0, <1>5 DEF TypeOK, Causes
  <2>. QED
    BY <1>0, <1>4, <1>5, <2>2, <2>3, FailsStep
<1>6. CASE Fault(e, "fault")
  <2>1. /\ why' \in [Events -> SUBSET Causes] /\ faults' \in 0..MaxFaults
        /\ why'[e] = why[e] \cup {"fault"} /\ \A f \in Events \ {e} : why'[f] = why[f]
    BY <1>0, <1>6, FaultFacts DEF Causes
  <2>2. Recovers(e)'
    BY <2>1 DEF Recovers
  <2>. QED
    BY <1>0, <1>4, <2>1, <2>2, FailsStep
<1>. QED
  BY <1>5, <1>6 DEF CreateFails

\* The whole of project_json is written.
LEMMA UpdatedStep ==
  ASSUME IInv, NEW e \in Events, NEW step \in {"done", "failed"},
         Updated(e), Ends(e, step), why' \in [Events -> SUBSET Causes], faults' \in 0..MaxFaults,
         \A f \in Events \ {e} : why'[f] = why[f],
         why'[e] = IF step = "done" THEN why[e] ELSE why[e] \cup {"raised"}
  PROVE  IInv'
<1>. DEFINE t == task[e]
            j == task[e].json
<1>0. /\ TypeOK /\ RunningInv /\ ProjectInv /\ SoleInv /\ t.pc = "updating" /\ Valid(j.groups)
      /\ task \in [Events -> Tasks] /\ t \in Tasks /\ project \in [{1, 2} -> Projects]
      /\ group \in [Paths -> 0..MaxGen] 
      /\ project' = [project EXCEPT ![t.target] = j]
      /\ UNCHANGED <<config, group, made, index, lock, safe>>
  BY DEF IInv, Updated, At, TypeOK
<1>1. e \in Running /\ TaskOK(e) /\ AloneOK(e)
  BY <1>0 DEF RunningInv, Running
<1>2. /\ task' \in [Events -> Tasks]
      /\ \A f \in Events \ {e} : task'[f] = task[f]
      /\ task'[e].pc = step /\ task'[e].target = t.target
      /\ task'[e].ids = IF step = "done" THEN {} ELSE t.ids
  BY <1>0, EndsFacts
<1>3. /\ t.target \in {1, 2} /\ j.tags /\ j.service # "none" /\ j.name # "none"
      /\ config.renameLegacy \/ t.target # 1 => j.name = "dynamic"
      /\ j \in Projects /\ j.groups \in SUBSET Ids /\ project[t.target].name # "none"
  BY <1>0, <1>1 DEF TaskOK, Tasks, Projects
<1>4. /\ project'[t.target] = j /\ \A i \in {1, 2} \ {t.target} : project'[i] = project[i]
      /\ project' \in [{1, 2} -> Projects]
  BY <1>0, <1>3
<1>5. \A f \in Events \ {e} : f \in Running \/ At(f, "done") => why[f] # {}
  BY <1>0, <1>1 DEF SoleInv
<1>6. lock.event # e
  BY <1>0, LockElsewhere DEF At
<1>7. TypeOK'
  BY <1>0, <1>2, <1>4, <1>6, TypesKept
<1>8. ASSUME NEW f \in Events \ {e}
      PROVE  Known(f)' /\ (f \in Running' => TaskOK(f)' /\ RetryOK(f)' /\ AloneOK(f)')
  <2>1. Known(f)' /\ (f \in Running' => f \in Running)
    BY <1>0, <1>2 DEF RunningInv, Known, Running
  <2>. SUFFICES ASSUME f \in Running
                PROVE  TaskOK(f)' /\ RetryOK(f)' /\ AloneOK(f)'
    BY <2>1
  <2>2. task'[f] = task[f] /\ why'[f] = why[f] /\ why[f] # {} /\ TaskOK(f) /\ RetryOK(f) /\ task[f] \in Tasks
    BY <1>0, <1>2, <1>5 DEF RunningInv
  <2>3. TaskOK(f)'
    <3>1. CASE task[f].target = 0
      <4>1. t.target = 2 /\ project'[1] = project[1] /\ project[2].name # "none"
        BY <1>3, <1>4, <2>2, <3>1 DEF TaskOK
      <4>. QED
        BY <1>0, <2>2, <3>1, <4>1 DEF TaskOK
    <3>2. CASE task[f].target # 0
      <4>1. task[f].target \in {1, 2} /\ project[task[f].target].name # "none"
        BY <2>2, <3>2 DEF TaskOK, Tasks
      <4>2. project'[task[f].target].name # "none"
        BY <1>3, <1>4, <4>1
      <4>. QED
        BY <1>0, <2>2, <3>2, <4>2 DEF TaskOK
    <3>. QED
      BY <3>1, <3>2
  <2>4. RetryOK(f)'
    BY <1>0, <2>2 DEF RetryOK, Valid, Assigned, IdsFresh
  <2>5. AloneOK(f)'
    BY <2>2 DEF AloneOK
  <2>. QED
    BY <2>3, <2>4, <2>5
<1>9. RunningInv'
  <2>1. Known(e)' /\ e \notin Running'
    BY <1>0, <1>2 DEF RunningInv, Known, Running
  <2>. QED
    BY <1>8, <2>1 DEF RunningInv
<1>10. GroupInv' /\ IndexInv'
  BY <1>0 DEF IInv, GroupInv, IndexInv
<1>11. ProjectInv'
  <2>1. j # NoProject
    BY <1>3 DEF NoProject
  <2>2. \A i \in {1, 2} : Valid(project[i].groups)'
    BY <1>0, <1>3, <1>4 DEF Valid, Assigned, ProjectInv
  <2>3. \A i \in {1, 2} : project'[i].name = "none" <=> project'[i] = NoProject
    BY <1>0, <1>3, <1>4, <2>1 DEF ProjectInv
  <2>. QED
    BY <1>0, <1>3, <1>4, <2>2, <2>3 DEF ProjectInv
<1>12. ManualGroupKept'
  <2>1. t.target \in safe => ManualId \in j.groups
    BY <1>1 DEF TaskOK
  <2>2. safe \subseteq {1, 2}
    BY <1>0 DEF TypeOK
  <2>. QED
    BY <1>0, <1>4, <2>1, <2>2 DEF IInv, ManualGroupKept
<1>13. \A f \in Events : Recovers(f)'
  <2>1. \A f \in Events \ {e} : Recovers(f)
    BY PerEvent DEF IInv
  <2>2. \A f \in Events \ {e} : Recovers(f)'
    BY <1>0, <1>2, <2>1 DEF Recovers, At, Valid, Assigned
  <2>. QED
    BY <1>2, <2>2 DEF Recovers, At
<1>14. \A f \in Events : Converges(f)'
  <2>1. \A f \in Events \ {e} : Converges(f)'
    BY <1>0, <1>2, <1>5 DEF Converges, At
  <2>2. why[e] = {} /\ config.updateGroups => Assigned \subseteq j.groups
    BY <1>0, <1>1, <1>3, CoveredFacts DEF AloneOK
  <2>3. Converges(e)'
    BY <1>0, <1>2, <1>3, <1>4, <2>2 DEF Converges, Assigned
  <2>. QED
    BY <2>1, <2>3
<1>15. SoleInv'
  <2>1. \A f \in Events \ {e} : (f \in Running' <=> f \in Running) /\ (At(f, "done")' <=> At(f, "done"))
    BY <1>2, RunningKept
  <2>2. Running' \subseteq Running
    BY <1>1, <2>1 DEF Running
  <2>. QED
    BY <1>0, <1>1, <2>1, <2>2, SoleKept
<1>. QED
  BY <1>7, <1>9, <1>10, <1>11, <1>12, <1>13, <1>14, <1>15, PerEvent DEF IInv

\* With and without CxOne's answer.
LEMMA UpdateProjectStep ==
  ASSUME IInv, NEW e \in Events, UpdateProject(e) \/ UpdateUnheard(e)
  PROVE  IInv'
<1>1. TypeOK /\ faults \in 0..MaxFaults /\ why \in [Events -> SUBSET Causes] /\ "raised" \in Causes
  BY DEF IInv, TypeOK, Causes
<1>2. CASE UpdateProject(e)
  <2>1. Updated(e) /\ Ends(e, "done") /\ faults' \in 0..MaxFaults /\ why' = why
    BY <1>1, <1>2 DEF UpdateProject
  <2>. QED
    BY <1>1, <2>1, UpdatedStep
<1>3. CASE UpdateUnheard(e)
  <2>1. Updated(e) /\ Ends(e, "failed") /\ Fault(e, "raised")
    BY <1>3 DEF UpdateUnheard
  <2>2. /\ why' \in [Events -> SUBSET Causes] /\ faults' \in 0..MaxFaults
        /\ why'[e] = why[e] \cup {"raised"} /\ \A f \in Events \ {e} : why'[f] = why[f]
    BY <1>1, <2>1, FaultFacts
  <2>. QED
    BY <2>1, <2>2, UpdatedStep
<1>. QED
  BY <1>2, <1>3

\* The request ends in an exception and nothing is written.
LEMMA UpdateRaisesStep ==
  ASSUME IInv, NEW e \in Events, UpdateRaises(e)
  PROVE  IInv'
<1>1. /\ At(e, "updating") /\ Ends(e, "failed") /\ Fault(e, "raised")
      /\ UNCHANGED <<config, cxone, index, lock, safe>> /\ TypeOK
  BY DEF UpdateRaises, IInv
<1>2. /\ why' \in [Events -> SUBSET Causes] /\ faults' \in 0..MaxFaults
      /\ why'[e] = why[e] \cup {"raised"} /\ \A f \in Events \ {e} : why'[f] = why[f]
  BY <1>1, FaultFacts DEF Causes
<1>3. Recovers(e)' /\ ~ At(e, "resolving")
  BY <1>1, <1>2 DEF Recovers, At
<1>. QED
  BY <1>1, <1>2, <1>3, FailsStep

\* The update is refused: after the purge that is for a group that is gone.
LEMMA UpdateFailsStep ==
  ASSUME IInv, NEW e \in Events, UpdateFails(e)
  PROVE  IInv'
<1>. DEFINE t == task[e]
            cause == IF t.retried THEN "fault" ELSE "changed"
<1>0. /\ TypeOK /\ RunningInv /\ t.pc = "updating" /\ t \in Tasks
      /\ task \in [Events -> Tasks] /\ project \in [{1, 2} -> Projects]
      /\ UNCHANGED <<config, cxone, index, lock, safe>>
  BY DEF IInv, UpdateFails, At, TypeOK
<1>1. e \in Running /\ Known(e) /\ TaskOK(e) /\ RetryOK(e) /\ AloneOK(e)
  BY <1>0 DEF RunningInv, Running
<1>2. /\ why' \in [Events -> SUBSET Causes] /\ faults' \in 0..MaxFaults
      /\ \A f \in Events \ {e} : why'[f] = why[f]
      /\ \/ ~ Valid(t.json.groups) /\ why'[e] = why[e]
         \/ why'[e] = why[e] \cup {cause}
  <2>1. CASE ~ Valid(t.json.groups) /\ UNCHANGED <<faults, why>>
    BY <1>0, <2>1 DEF TypeOK, Causes
  <2>2. CASE Fault(e, cause)
    <3>1. cause \in Causes
      BY DEF Causes
    <3>. HIDE DEF cause
    <3>. QED
      BY <1>0, <2>2, <3>1, FaultFacts
  <2>. QED
    BY <2>1, <2>2 DEF UpdateFails
<1>3. t.target \in {1, 2} /\ ~ At(e, "resolving")
  BY <1>0, <1>1 DEF TaskOK, Tasks, At
<1>4. group' = group /\ made' = made /\ project' = project /\ lock' = lock /\ index' = index
      /\ config' = config /\ safe' = safe
  BY <1>0 DEF cxone
<1>5. CASE t.retried
  <2>1. Ends(e, "failed")
    BY <1>5 DEF UpdateFails
  <2>2. task'[e].pc = "failed" /\ task'[e].target = t.target
    BY <1>0, <2>1, EndsFacts
  <2>3. why'[e] \cap {"raised", "fault"} = {} => "deleted" \in why'[e]
    <3>. SUFFICES ASSUME why'[e] \cap {"raised", "fault"} = {}, "deleted" \notin why'[e]
                  PROVE  FALSE
      OBVIOUS
    <3>1. ~ Valid(t.json.groups) /\ why'[e] = why[e]
      BY <1>2, <1>5
    <3>2. t.json.groups = t.orig \cup t.ids
      BY <1>0, <1>1, <1>5 DEF TaskOK
    <3>3. Valid(t.orig) /\ Valid(t.ids)
      BY <1>1, <1>5, <3>1 DEF RetryOK
    <3>. QED
      BY <3>1, <3>2, <3>3 DEF Valid
  <2>4. Recovers(e)'
    BY <1>3, <2>2, <2>3 DEF Recovers
  <2>. QED
    BY <1>0, <1>2, <1>3, <2>1, <2>4, FailsStep
<1>6. CASE ~ t.retried
  <2>1. task' = [task EXCEPT ![e].pc = "purging"]
    BY <1>6 DEF UpdateFails
  <2>2. /\ task' \in [Events -> Tasks]
        /\ \A f \in Events \ {e} : task'[f] = task[f]
        /\ task'[e].pc = "purging" /\ task'[e].target = t.target
        /\ task'[e].json = t.json /\ task'[e].orig = t.orig
        /\ task'[e].ids = t.ids /\ task'[e].exec = t.exec /\ task'[e].retried = t.retried
    BY <1>0, <2>1, PurgingFacts
  <2>3. lock.event # e
    BY <1>0, <1>3, LockElsewhere
  <2>4. TypeOK'
    BY <1>0, <1>2, <1>4, <2>2, <2>3, TypesKept
  <2>5. Known(e)' /\ TaskOK(e)' /\ RetryOK(e)' /\ AloneOK(e)'
    <3>1. Known(e)'
      BY <1>1, <1>4, <2>2 DEF Known
    <3>2. TaskOK(e)'
      BY <1>0, <1>1, <1>2, <1>3, <1>4, <1>6, <2>2 DEF TaskOK
    <3>3. RetryOK(e)'
      BY <1>1, <1>2, <1>4, <1>6, <2>2 DEF RetryOK, Valid, Assigned
    <3>4. AloneOK(e)'
      BY <1>1, <1>2, <1>3, <1>4, <2>2 DEF AloneOK, Renames
    <3>. QED
      BY <3>1, <3>2, <3>3, <3>4
  <2>6. RunningInv'
    BY <1>0, <1>2, <1>4, <2>2, <2>3, <2>5, CacheKept, OthersKept DEF RunningInv
  <2>7. ManualGroupKept' /\ RetryRecovers' /\ SetupConverges'
    BY <1>0, <1>2, <2>2, EndedKept DEF IInv
  <2>8. SoleInv'
    <3>1. \A f \in Events \ {e} : (f \in Running' <=> f \in Running) /\ (At(f, "done")' <=> At(f, "done"))
      BY <2>2, RunningKept
    <3>2. Running' \subseteq Running
      BY <1>1, <3>1 DEF Running
    <3>3. why'[e] = {} => why[e] = {}
      BY <1>2
    <3>. QED
      BY <1>1, <1>2, <3>1, <3>2, <3>3, SoleKept DEF IInv
  <2>9. GroupInv' /\ ProjectInv' /\ IndexInv'
    BY <1>0, <1>4, CxOneKept DEF IInv, IndexInv
  <2>. QED
    BY <2>4, <2>6, <2>7, <2>8, <2>9 DEF IInv
<1>. QED
  BY <1>5, <1>6

\* The index is purged, and everything it can give from now on is fresh.
LEMMA PurgeStep ==
  ASSUME IInv, NEW e \in Events, PurgeCache(e)
  PROVE  IInv'
<1>. DEFINE t == task[e]
<1>0. /\ TypeOK /\ RunningInv /\ t.pc = "purging" /\ t \in Tasks /\ lock = Free
      /\ task \in [Events -> Tasks] /\ index' = [p \in Paths |-> 0]
      /\ UNCHANGED <<config, cxone, lock, faults, why, safe>>
  BY DEF IInv, PurgeCache, Purged, At, TypeOK
<1>1. e \in Running /\ Known(e) /\ TaskOK(e) /\ RetryOK(e) /\ AloneOK(e)
  BY <1>0 DEF RunningInv, Running
<1>2. /\ task' \in [Events -> Tasks]
      /\ \A f \in Events \ {e} : task'[f] = task[f]
      /\ task'[e].pc = "resolving" /\ task'[e].target = t.target
      /\ task'[e].json = t.json /\ task'[e].orig = t.orig
      /\ task'[e].ids = {} /\ task'[e].todo = Paths
      /\ task'[e].exec = t.exec /\ task'[e].retried = TRUE
  BY <1>0, PurgeFacts
<1>3. group' = group /\ made' = made /\ project' = project /\ lock' = lock
      /\ config' = config /\ safe' = safe /\ why' = why
  BY <1>0 DEF cxone
<1>4. IdsFresh'
  BY <1>0, <1>3 DEF IdsFresh
<1>5. Known(e)' /\ TaskOK(e)' /\ RetryOK(e)' /\ AloneOK(e)'
  <2>1. Known(e)'
    BY <1>2 DEF Known
  <2>2. TaskOK(e)'
    BY <1>0, <1>1, <1>2, <1>3 DEF TaskOK
  <2>3. RetryOK(e)'
    BY <1>1, <1>2, <1>3, <1>4 DEF RetryOK, Valid, Assigned
  <2>4. lock'.event # e
    BY <1>0, SetupAssumption DEF Free
  <2>5. AloneOK(e)'
    BY <1>1, <1>2, <1>3, <2>4 DEF AloneOK, Renames
  <2>. QED
    BY <2>1, <2>2, <2>3, <2>5
<1>6. RunningInv'
  BY <1>0, <1>2, <1>3, <1>4, <1>5, OthersKept DEF RunningInv
<1>7. TypeOK'
  BY <1>0, <1>2, <1>3, SetupAssumption DEF TypeOK
<1>8. ManualGroupKept' /\ RetryRecovers' /\ SetupConverges'
  BY <1>0, <1>2, EndedKept DEF IInv
<1>9. SoleInv'
  <2>1. \A f \in Events \ {e} : (f \in Running' <=> f \in Running) /\ (At(f, "done")' <=> At(f, "done"))
    BY <1>2, RunningKept
  <2>2. Running' \subseteq Running
    BY <1>1, <2>1 DEF Running
  <2>. QED
    BY <1>1, <1>3, <2>1, <2>2, SoleKept DEF IInv
<1>10. IndexInv'
  BY <1>0, <1>3 DEF IndexInv, TypeOK
<1>11. GroupInv' /\ ProjectInv'
  BY <1>0, CxOneKept DEF IInv
<1>. QED
  BY <1>6, <1>7, <1>8, <1>9, <1>10, <1>11 DEF IInv

\* The projects are listed, and one is chosen or to be made.
LEMMA ListProjectsStep ==
  ASSUME IInv, NEW e \in Events, ListProjects(e)
  PROVE  IInv'
<1>. DEFINE u == Retrieved
            q == project[Chosen]
<1>0. /\ TypeOK /\ RunningInv /\ ProjectInv /\ task[e].pc = "idle"
      /\ task \in [Events -> Tasks] /\ task' = [task EXCEPT ![e] = u]
      /\ safe \subseteq {1, 2} /\ faults \in 0..MaxFaults /\ project \in [{1, 2} -> Projects]
      /\ UNCHANGED <<config, cxone, index, lock, faults, safe>>
  BY DEF IInv, ListProjects, At, TypeOK
<1>1. /\ u \in Tasks /\ u.ids = {} /\ u.retried = FALSE
      /\ u.pc \in {"resolving", "updating", "done"}
      /\ u.json.tags /\ u.json.service # "none" /\ u.json.name # "none"
      /\ u.json.groups = u.orig
      /\ Found = {} => /\ u.pc = "resolving" /\ u.target = 0 /\ u.json.name = "dynamic"
                       /\ u.orig = {} /\ u.todo = Paths
      /\ Found # {} => /\ Chosen \in {1, 2} /\ u.target = Chosen /\ u.orig = q.groups
                       /\ q.name # "none" /\ q \in Projects
                       /\ config.renameLegacy \/ q.name = "dynamic" => u.json.name = "dynamic"
                       /\ u.exec = ExecUpdate(q)
                       /\ config.updateGroups <=> u.pc = "resolving"
                       /\ u.pc = "resolving" => u.todo = Paths
                       /\ u.pc = "done" => ~ ExecUpdate(q)
  BY <1>0, RetrievedFacts
<1>. HIDE DEF u, q
<1>2. task'[e] = u /\ task' \in [Events -> Tasks] /\ \A f \in Events \ {e} : task'[f] = task[f]
  BY <1>0, <1>1
<1>3. group' = group /\ made' = made /\ project' = project /\ lock' = lock /\ index' = index
      /\ config' = config /\ safe' = safe
  BY <1>0 DEF cxone
<1>4. /\ why' \in [Events -> SUBSET Causes] /\ (why'[e] = {} => Running = {})
      /\ \A f \in Events \ {e} : /\ why'[f] = Noted(f, "changed")
                                 /\ f \in Running \/ At(f, "done") => why'[f] # {}
                                 /\ At(f, "failed") => why'[f] = why[f]
  <2>1. why' = [f \in Events |-> IF f # e THEN Noted(f, "changed")
                                 ELSE IF Running = {} THEN {} ELSE {"changed"}]
    BY DEF ListProjects
  <2>2. why'[e] = (IF Running = {} THEN {} ELSE {"changed"})
        /\ \A f \in Events \ {e} : why'[f] = Noted(f, "changed")
    BY <2>1
  <2>3. why'[e] \in SUBSET Causes
    BY <2>2 DEF Causes
  <2>4. \A f \in Events \ {e} : why'[f] \in SUBSET Causes /\ (f \in Running \/ At(f, "done") => why'[f] # {})
                                /\ (At(f, "failed") => why'[f] = why[f])
    BY <1>0, <2>2, NotedFacts DEF Causes
  <2>. QED
    BY <2>1, <2>2, <2>3, <2>4
<1>5. lock.event # e
  BY <1>0, LockElsewhere DEF At
<1>6. TypeOK'
  BY <1>0, <1>2, <1>3, <1>4, <1>5, TypesKept
<1>7. \A f \in Events \ {e} : Known(f)' /\ (f \in Running' => TaskOK(f)' /\ RetryOK(f)' /\ AloneOK(f)')
  BY <1>0, <1>2, <1>3, <1>4, OthersNoted DEF Causes
<1>8. Found # {} /\ ~ ExecUpdate(q) => q.tags /\ q.service = "own" /\ ~ Renames(q)
  BY DEF ExecUpdate
<1>9. Found = {} => project[1].name = "none" /\ project[2].name = "none"
  BY DEF Found, NoProject
<1>10. TaskOK(e)'
  <2>1. config.renameLegacy \/ u.target # 1 => u.json.name = "dynamic"
    BY <1>0, <1>1 DEF ProjectInv, q
  <2>2. u.target = 0 => Found = {}
    BY <1>1
  <2>3. u.target # 0 => project[u.target].name # "none" /\ u.pc # "creating"
    BY <1>1 DEF q
  <2>4. u.target \in safe => ManualId \in u.orig
    BY <1>0, <1>1 DEF IInv, ManualGroupKept, q
  <2>. QED
    BY <1>1, <1>2, <1>3, <1>9, <2>1, <2>2, <2>3, <2>4 DEF TaskOK
<1>11. RetryOK(e)'
  <2>1. Valid(u.orig)
    BY <1>0, <1>1 DEF ProjectInv, Valid, q
  <2>. QED
    BY <1>1, <1>2, <1>3, <2>1 DEF RetryOK, Valid, Assigned
<1>12. AloneOK(e)'
  <2>1. u.target # 0 => Found # {} /\ project[u.target] = q
    BY <1>1 DEF q
  <2>3. u.target # 0 => LET x == project'[u.target] IN
          x.groups = u.orig /\ (~ u.exec => x.tags /\ x.service = "own" /\ ~ (x.name = "default" /\ config'.renameLegacy))
    BY <1>1, <1>3, <1>8, <2>1 DEF Renames
  <2>4. u.pc = "resolving" => u.todo = Paths
    BY <1>1
  <2>5. u.pc # "creating" /\ (u.pc = "updating" => ~ config.updateGroups /\ u.target # 0)
    BY <1>1
  <2>. QED
    BY <1>2, <1>3, <1>5, <2>3, <2>4, <2>5 DEF AloneOK, Renames
<1>13. RunningInv'
  <2>1. Known(e)'
    BY <1>1, <1>2 DEF Known
  <2>. QED
    BY <1>7, <1>10, <1>11, <1>12, <2>1 DEF RunningInv
<1>14. ManualGroupKept'
  BY <1>3 DEF IInv, ManualGroupKept
<1>15. \A f \in Events : Recovers(f)'
  <2>1. \A f \in Events \ {e} : Recovers(f)
    BY PerEvent DEF IInv
  <2>2. \A f \in Events \ {e} : Recovers(f)'
    BY <1>2, <1>3, <1>4, <2>1 DEF Recovers, At, Valid, Assigned
  <2>. QED
    BY <1>1, <1>2, <2>2 DEF Recovers, At
<1>16. \A f \in Events : Converges(f)'
  <2>1. \A f \in Events \ {e} : Converges(f)'
    BY <1>2, <1>4 DEF Converges, At
  <2>2. u.pc = "done" => /\ u.target # 0 /\ project[u.target] = q /\ ~ config.updateGroups
                         /\ q.tags /\ q.service = "own" /\ (config.renameLegacy => q.name = "dynamic")
    <3>1. u.pc = "done" => Found # {} /\ ~ Renames(q) /\ q.name # "none" /\ q \in Projects
      BY <1>1, <1>8
    <3>2. u.pc = "done" => (config.renameLegacy => q.name = "dynamic")
      BY <3>1 DEF Renames, Projects
    <3>. QED
      BY <1>1, <1>8, <3>2 DEF q
  <2>3. Converges(e)'
    BY <1>2, <1>3, <2>2 DEF Converges, At
  <2>. QED
    BY <2>1, <2>3
<1>17. SoleInv'
  <2>1. \A f \in Events \ {e} : (f \in Running' <=> f \in Running) /\ (At(f, "done")' <=> At(f, "done"))
    BY <1>2, RunningKept
  <2>2. Running' \subseteq Running \cup {e}
    BY <2>1 DEF Running
  <2>. QED
    BY <1>4, <2>1, <2>2 DEF SoleInv
<1>18. GroupInv' /\ ProjectInv' /\ IndexInv'
  BY <1>0, <1>3, CxOneKept DEF IInv, IndexInv
<1>. QED
  BY <1>6, <1>13, <1>14, <1>15, <1>16, <1>17, <1>18, PerEvent DEF IInv
-----------------------------------------------------------------------------
(***************************************************************************)
(* Users.                                                                  *)
(***************************************************************************)

\* Groups and projects change under the events, and it is noted.
LEMMA UserStep ==
  ASSUME IInv, NEW cause \in Causes, Note(cause), UNCHANGED <<config, index, lock, task, faults>>,
         group' \in [Paths -> 0..MaxGen], made' \in [Paths -> 1..MaxGen],
         project' \in [{1, 2} -> Projects], safe' \subseteq {1, 2},
         Running # {} => safe' = safe,
         \A i \in {1, 2} : project'[i].name = project[i].name,
         \A p \in Paths : made[p] <= made'[p],
         GroupInv', ProjectInv', ManualGroupKept',
         \A f \in Running : RetryOK(f) => RetryOK(f)',
         \A f \in Events : ~ Valid(task[f].ids) => ~ (task[f].ids \subseteq Assigned' \cup {ManualId})
  PROVE  IInv'
<1>0. TypeOK /\ RunningInv
  BY DEF IInv
<1>1. /\ why' \in [Events -> SUBSET Causes]
      /\ \A f \in Events : /\ f \in Running => why'[f] = why[f] \cup {cause}
                           /\ f \in Running \/ At(f, "done") => why'[f] # {}
                           /\ At(f, "failed") => why'[f] = why[f]
  <2>1. why' = [f \in Events |-> Noted(f, cause)]
    BY DEF Note
  <2>2. \A f \in Events : why'[f] = Noted(f, cause)
    BY <2>1
  <2>3. \A f \in Events : /\ why'[f] \in SUBSET Causes
                          /\ f \in Running => why'[f] = why[f] \cup {cause}
                          /\ f \in Running \/ At(f, "done") => why'[f] # {}
                          /\ At(f, "failed") => why'[f] = why[f]
    BY <1>0, <2>2, NotedFacts
  <2>. QED
    BY <2>1, <2>3
<1>2. TypeOK'
  BY <1>0, <1>1 DEF TypeOK, Causes, At
<1>3. IndexInv'
  <2>1. made \in [Paths -> 1..MaxGen] /\ index \in [Paths -> 0..MaxGen]
    BY <1>0 DEF TypeOK
  <2>2. lock # Free => lock.path \in Paths /\ lock.gen \in 0..MaxGen
    BY <1>0 DEF TypeOK
  <2>. QED
    BY <2>1, <2>2 DEF IInv, IndexInv
<1>4. ASSUME NEW f \in Events
      PROVE  Known(f)' /\ (f \in Running' => TaskOK(f)' /\ RetryOK(f)' /\ AloneOK(f)')
  <2>1. Known(f)'
    <3>1. Known(f) /\ made \in [Paths -> 1..MaxGen]
      BY <1>0 DEF RunningInv, TypeOK
    <3>. QED
      BY <3>1 DEF Known, Gens
  <2>. SUFFICES ASSUME f \in Running'
                PROVE  TaskOK(f)' /\ RetryOK(f)' /\ AloneOK(f)'
    BY <2>1
  <2>2. f \in Running /\ TaskOK(f) /\ RetryOK(f) /\ task[f] \in Tasks
    BY <1>0 DEF RunningInv, Running, TypeOK
  <2>3. TaskOK(f)'
    <3>1. safe' = safe /\ (why[f] \subseteq why'[f])
      BY <1>1, <2>2
    <3>2. task[f].target # 0 => project'[task[f].target].name = project[task[f].target].name
      BY <2>2 DEF Tasks
    <3>. QED
      BY <2>2, <3>1, <3>2 DEF TaskOK
  <2>4. AloneOK(f)'
    BY <1>1, <2>2 DEF AloneOK
  <2>. QED
    BY <2>2, <2>3, <2>4
<1>5. RunningInv'
  BY <1>4 DEF RunningInv
<1>6. \A f \in Events : Recovers(f)'
  <2>1. \A f \in Events : Recovers(f)
    BY PerEvent DEF IInv
  <2>. QED
    BY <1>1, <2>1 DEF Recovers, At, Valid
<1>7. \A f \in Events : Converges(f)'
  BY <1>1 DEF Converges, At
<1>8. SoleInv'
  BY <1>1 DEF SoleInv, Running, At
<1>. QED
  BY <1>2, <1>3, <1>5, <1>6, <1>7, <1>8, PerEvent DEF IInv

\* A group is deleted, and leaves the projects.
LEMMA DeleteGroupStep ==
  ASSUME IInv, NEW p \in Paths, DeleteGroup(p)
  PROVE  IInv'
<1>. DEFINE id == <<p, group[p]>>
<1>0. /\ TypeOK /\ ProjectInv /\ GroupInv /\ group[p] # 0 /\ made[p] < MaxGen
      /\ group \in [Paths -> 0..MaxGen] /\ made \in [Paths -> 1..MaxGen] /\ project \in [{1, 2} -> Projects]
      /\ group' = [group EXCEPT ![p] = 0]
      /\ project' = [i \in {1, 2} |-> [project[i] EXCEPT !.groups = @ \ {id}]]
      /\ Note("deleted") /\ UNCHANGED <<config, made, index, lock, task, faults, safe>>
  BY DEF IInv, DeleteGroup, TypeOK
<1>. HIDE DEF id
<1>1. \A i \in {1, 2} : /\ project'[i].name = project[i].name /\ project'[i].groups = project[i].groups \ {id}
                        /\ project'[i].tags = project[i].tags /\ project'[i].service = project[i].service
                        /\ project'[i] \in Projects
  BY <1>0 DEF Projects
<1>2. project' \in [{1, 2} -> Projects] /\ group' \in [Paths -> 0..MaxGen]
  <2>1. project' = [i \in {1, 2} |-> project'[i]]
    BY <1>0
  <2>2. project' \in [{1, 2} -> Projects]
    BY <1>1, <2>1
  <2>3. 0 \in 0..MaxGen
    BY SetupAssumption
  <2>. QED
    BY <1>0, <2>2, <2>3
<1>3. Assigned' \subseteq Assigned /\ Assigned \ {id} \subseteq Assigned'
  BY <1>0 DEF Assigned, id
<1>4. GroupInv'
  BY <1>0 DEF GroupInv
<1>5. ProjectInv'
  <2>1. \A i \in {1, 2} : Valid(project[i].groups)'
    BY <1>0, <1>1, <1>3 DEF ProjectInv, Valid
  <2>2. \A i \in {1, 2} : project'[i].name = "none" <=> project'[i] = NoProject
    <3>1. ASSUME NEW i \in {1, 2}, project[i] = NoProject
          PROVE  project'[i] = NoProject
      <4>1. project[i].groups \ {id} = project[i].groups
        BY <3>1 DEF NoProject
      <4>. QED
        BY <1>0, <1>1, <3>1, <4>1 DEF Projects
    <3>2. NoProject.name = "none"
      BY DEF NoProject
    <3>. QED
      BY <1>0, <1>1, <3>1, <3>2 DEF ProjectInv
  <2>. QED
    BY <1>0, <1>1, <2>1, <2>2 DEF ProjectInv
<1>6. ManualGroupKept'
  <2>1. id # ManualId
    BY SetupAssumption DEF id, ManualId
  <2>2. safe \subseteq {1, 2}
    BY <1>0 DEF TypeOK
  <2>. QED
    BY <1>0, <1>1, <2>1, <2>2 DEF IInv, ManualGroupKept
<1>7. \A f \in Running : RetryOK(f) => RetryOK(f)'
  <2>1. \A f \in Running : f \in Events /\ why'[f] = Noted(f, "deleted")
    BY <1>0 DEF Note, Running
  <2>2. \A f \in Running : "deleted" \in why'[f]
    BY <1>0, <2>1, NotedFacts DEF Causes
  <2>. QED
    BY <2>2 DEF RetryOK
<1>8. \A f \in Events : ~ Valid(task[f].ids) => ~ (task[f].ids \subseteq Assigned' \cup {ManualId})
  BY <1>3 DEF Valid
<1>9. \A x \in Paths : made[x] <= made'[x]
  BY <1>0
<1>10. /\ Note("deleted") /\ UNCHANGED <<config, index, lock, task, faults>> /\ "deleted" \in Causes
       /\ made' \in [Paths -> 1..MaxGen] /\ safe' \subseteq {1, 2} /\ safe' = safe
       /\ \A i \in {1, 2} : project'[i].name = project[i].name
  <2>1. safe \subseteq {1, 2}
    BY <1>0 DEF TypeOK
  <2>. QED
    BY <1>0, <1>1, <2>1 DEF Causes
<1>. QED
  BY <1>2, <1>4, <1>5, <1>6, <1>7, <1>8, <1>9, <1>10, UserStep

\* A group is made, again, under another id than all before.
LEMMA MakeGroupStep ==
  ASSUME IInv, NEW p \in Paths, MakeGroup(p)
  PROVE  IInv'
<1>0. /\ TypeOK /\ ProjectInv /\ GroupInv /\ RunningInv /\ group[p] = 0
      /\ group \in [Paths -> 0..MaxGen] /\ made \in [Paths -> 1..MaxGen] /\ project \in [{1, 2} -> Projects]
      /\ task \in [Events -> Tasks] /\ safe \subseteq {1, 2}
      /\ made' = [made EXCEPT ![p] = @ + 1] /\ group' = [group EXCEPT ![p] = made[p] + 1]
      /\ Note("changed") /\ UNCHANGED <<config, project, index, lock, task, faults, safe>>
  BY DEF IInv, MakeGroup, TypeOK
<1>1. /\ made[p] < MaxGen /\ made[p] \in Nat /\ made'[p] = made[p] + 1 /\ group'[p] = made[p] + 1
      /\ \A x \in Paths \ {p} : made'[x] = made[x] /\ group'[x] = group[x]
  BY <1>0, SetupAssumption DEF GroupInv
<1>2. made' \in [Paths -> 1..MaxGen] /\ group' \in [Paths -> 0..MaxGen]
  BY <1>0, <1>1, SetupAssumption
<1>3. Assigned \subseteq Assigned'
  BY <1>0, <1>1 DEF Assigned
<1>4. GroupInv'
  <2>1. group'[p] \in {0, made'[p]} /\ group'[p] # 0
    BY <1>1
  <2>. QED
    BY <1>0, <1>1, <2>1 DEF GroupInv
<1>5. ProjectInv' /\ ManualGroupKept'
  BY <1>0, <1>3 DEF IInv, ProjectInv, Valid, ManualGroupKept
<1>6. ASSUME NEW f \in Running, RetryOK(f)
      PROVE  RetryOK(f)'
  <2>1. f \in Events /\ why'[f] = why[f] \cup {"changed"}
    <3>1. f \in Events
      BY DEF Running
    <3>2. why'[f] = Noted(f, "changed")
      BY <1>0, <3>1 DEF Note
    <3>. QED
      BY <1>0, <3>1, <3>2, NotedFacts DEF Causes
  <2>2. IdsFresh => IdsFresh'
    <3>1. lock = Free \/ lock.path \in Paths
      BY <1>0 DEF TypeOK
    <3>. QED
      BY <1>0, <1>1, <3>1 DEF IdsFresh
  <2>. QED
    BY <1>0, <1>3, <1>6, <2>1, <2>2 DEF RetryOK, Valid
<1>7. ASSUME NEW f \in Events, task[f].ids \subseteq Assigned' \cup {ManualId}
      PROVE  Valid(task[f].ids)
  <2>1. task[f].ids \in SUBSET Ids
    BY <1>0 DEF Tasks
  <2>2. ASSUME NEW x \in Paths, NEW g \in Gens, <<x, g>> \in task[f].ids
        PROVE  group[x] = g
    <3>1. group'[x] = g
      BY <1>2, <1>7, <2>1, <2>2, ValidNext
    <3>2. g <= made[x]
      BY <1>0, <2>2 DEF RunningInv, Known
    <3>. QED
      BY <1>1, <3>1, <3>2 DEF Gens
  <2>. QED
    BY <1>0, <2>1, <2>2, ValidFacts
<1>8. \A x \in Paths : made[x] <= made'[x]
  BY <1>0, <1>1
<1>. QED
  BY <1>0, <1>2, <1>4, <1>5, <1>6, <1>7, <1>8, UserStep DEF Causes

\* Users give the project in use their group.
LEMMA UserAssignsStep ==
  ASSUME IInv, NEW i \in {1, 2}, UserAssigns(i)
  PROVE  IInv'
<1>0. /\ TypeOK /\ ProjectInv /\ GroupInv /\ i \in Found
      /\ project \in [{1, 2} -> Projects] /\ safe \subseteq {1, 2}
      /\ made \in [Paths -> 1..MaxGen] /\ group \in [Paths -> 0..MaxGen]
      /\ project' = [project EXCEPT ![i].groups = @ \cup {ManualId}]
      /\ safe' = IF Running = {} THEN safe \cup {i} ELSE safe
      /\ Note("changed") /\ UNCHANGED <<config, group, made, index, lock, task, faults>>
  BY ChosenFacts DEF IInv, UserAssigns, TypeOK
<1>1. /\ project'[i].name = project[i].name /\ project'[i].groups = project[i].groups \cup {ManualId}
      /\ project'[i] \in Projects /\ \A x \in {1, 2} \ {i} : project'[x] = project[x]
  <2>1. project[i] \in Projects /\ project'[i] = [project[i] EXCEPT !.groups = @ \cup {ManualId}]
    BY <1>0
  <2>. QED
    BY <1>0, <2>1, IdFacts DEF Projects
<1>2. project' \in [{1, 2} -> Projects] /\ safe' \subseteq {1, 2} /\ (Running # {} => safe' = safe)
  <2>1. project' = [x \in {1, 2} |-> project'[x]]
    BY <1>0
  <2>. QED
    BY <1>0, <1>1, <2>1
<1>3. GroupInv'
  BY <1>0 DEF GroupInv
<1>4. ProjectInv'
  <2>1. project[i].name # "none" /\ project'[i] # NoProject
    <3>1. NoProject.name = "none" /\ project[i] # NoProject
      BY <1>0 DEF NoProject, Found
    <3>. QED
      BY <1>0, <1>1, <3>1 DEF ProjectInv
  <2>2. \A x \in {1, 2} : Valid(project[x].groups)'
    BY <1>0, <1>1 DEF ProjectInv, Valid, Assigned
  <2>. QED
    BY <1>0, <1>1, <2>1, <2>2 DEF ProjectInv
<1>5. ManualGroupKept'
  BY <1>0, <1>1 DEF IInv, ManualGroupKept
<1>6. ASSUME NEW f \in Running, RetryOK(f)
      PROVE  RetryOK(f)'
  <2>1. f \in Events /\ why'[f] = why[f] \cup {"changed"}
    <3>1. f \in Events
      BY DEF Running
    <3>2. why'[f] = Noted(f, "changed")
      BY <1>0, <3>1 DEF Note
    <3>. QED
      BY <1>0, <3>1, <3>2, NotedFacts DEF Causes
  <2>. QED
    BY <1>0, <1>6, <2>1 DEF RetryOK, Valid, Assigned, IdsFresh
<1>7. \A f \in Events : ~ Valid(task[f].ids) => ~ (task[f].ids \subseteq Assigned' \cup {ManualId})
  BY <1>0 DEF Valid, Assigned
<1>8. \A x \in {1, 2} : project'[x].name = project[x].name
  BY <1>1
<1>9. \A x \in Paths : made[x] <= made'[x]
  BY <1>0
<1>. QED
  BY <1>0, <1>2, <1>3, <1>4, <1>5, <1>6, <1>7, <1>8, <1>9, UserStep DEF Causes
-----------------------------------------------------------------------------
(***************************************************************************)
(* The theorems.                                                           *)
(***************************************************************************)

\* The invariant holds at the start.
LEMMA InitIInv == Init => IInv
<1>. SUFFICES ASSUME Init
              PROVE  IInv
  OBVIOUS
<1>. DEFINE none == [pc |-> "idle", target |-> 0, json |-> NoProject, orig |-> {}, todo |-> {},
                     ids |-> {}, exec |-> FALSE, retried |-> FALSE]
<1>1. none \in Tasks
  BY DEF Tasks, NoProject, Projects
<1>2. task = [e \in Events |-> none]
  BY DEF Init
<1>3. none.pc = "idle" /\ none.ids = {}
  OBVIOUS
<1>. HIDE DEF none
<1>4. task \in [Events -> Tasks] /\ \A e \in Events : task[e].pc = "idle" /\ task[e].ids = {}
  BY <1>1, <1>2, <1>3
<1>5. /\ project \in [{1, 2} -> Projects]
      /\ \A i \in {1, 2} : project[i].groups = {} /\ (project[i].name = "none" <=> project[i] = NoProject)
      /\ project[2].name \in {"none", "dynamic"}
  <2>1. PICK present \in SUBSET {1, 2}, tagged \in BOOLEAN :
          project = [i \in {1, 2} |->
            IF i \notin present THEN NoProject
            ELSE [name |-> IF i = 1 THEN "default" ELSE "dynamic", groups |-> {},
                  tags |-> tagged, service |-> IF tagged THEN "other" ELSE "none"]]
    BY DEF Init
  <2>2. \A i \in {1, 2} : project[i] =
           IF i \notin present THEN NoProject
           ELSE [name |-> IF i = 1 THEN "default" ELSE "dynamic", groups |-> {},
                 tags |-> tagged, service |-> IF tagged THEN "other" ELSE "none"]
    BY <2>1
  <2>3. \A i \in {1, 2} : project[i] \in Projects
    <3>1. NoProject \in Projects
      BY DEF NoProject, Projects
    <3>2. ASSUME NEW n \in {"default", "dynamic"}, NEW s \in {"none", "other"}
          PROVE  [name |-> n, groups |-> {}, tags |-> tagged, service |-> s] \in Projects
      BY DEF Projects
    <3>. QED
      BY <2>2, <3>1, <3>2
  <2>4. project = [i \in {1, 2} |-> project[i]]
    BY <2>1
  <2>5. \A i \in {1, 2} : project[i].groups = {} /\ (project[i].name = "none" <=> project[i] = NoProject)
    BY <2>2 DEF NoProject
  <2>6. project[2].name \in {"none", "dynamic"}
    BY <2>2 DEF NoProject
  <2>. QED
    BY <2>3, <2>4, <2>5, <2>6
<1>6. TypeOK
  <2>1. /\ config \in [updateGroups : BOOLEAN, renameLegacy : BOOLEAN]
        /\ made = [p \in Paths |-> 1] /\ group = [p \in Paths |-> 1]
        /\ index = [p \in Paths |-> 0] /\ lock = Free /\ faults = 0
        /\ why = [e \in Events |-> {}] /\ safe = {}
    BY DEF Init
  <2>2. 1 \in 1..MaxGen /\ 1 \in 0..MaxGen /\ 0 \in 0..MaxGen /\ 0 \in 0..MaxFaults
    BY SetupAssumption
  <2>. QED
    BY <1>4, <1>5, <2>1, <2>2 DEF TypeOK
<1>7. GroupInv /\ IndexInv
  BY SetupAssumption DEF Init, GroupInv, IndexInv
<1>8. ProjectInv
  BY <1>5 DEF ProjectInv, Valid
<1>9. RunningInv /\ SoleInv
  BY <1>4 DEF RunningInv, SoleInv, Known, Running, At
<1>10. ManualGroupKept
  BY DEF Init, ManualGroupKept
<1>11. RetryRecovers /\ SetupConverges
  BY <1>4 DEF RetryRecovers, SetupConverges, At
<1>. QED
  BY <1>6, <1>7, <1>8, <1>9, <1>10, <1>11 DEF IInv

\* Every step keeps it.
LEMMA NextIInv == IInv /\ [Next]_vars => IInv'
<1>. SUFFICES ASSUME IInv, [Next]_vars
              PROVE  IInv'
  OBVIOUS
<1>1. CASE UNCHANGED vars
  <2>1. UNCHANGED <<config, cxone, index, lock, task, faults, why, safe>> /\ UNCHANGED <<group, made, project>>
    BY <1>1 DEF vars, cxone
  <2>2. TypeOK' /\ GroupInv' /\ ProjectInv' /\ IndexInv'
    BY <2>1, CxOneKept DEF IInv, IndexInv, TypeOK, At
  <2>3. RunningInv'
    BY <2>1, CacheKept, OthersKept DEF IInv, RunningInv
  <2>4. ManualGroupKept' /\ RetryRecovers' /\ SetupConverges'
    BY <2>1, EndedKept DEF IInv
  <2>5. SoleInv'
    BY <2>1 DEF IInv, SoleInv, Running, At
  <2>. QED
    BY <2>2, <2>3, <2>4, <2>5 DEF IInv
<1>2. ASSUME NEW p \in Paths, DeleteGroup(p) \/ MakeGroup(p)
      PROVE  IInv'
  BY <1>2, DeleteGroupStep, MakeGroupStep
<1>3. ASSUME NEW i \in {1, 2}, UserAssigns(i)
      PROVE  IInv'
  BY <1>3, UserAssignsStep
<1>4. ASSUME NEW e \in Events, Step(e)
      PROVE  IInv'
  BY <1>4, ListProjectsStep, ListFailsStep, UseIndexStep, AskGroupStep, AnsweredStep, ResolvedStep,
     CreateProjectStep, CreateFailsStep, UpdateProjectStep, UpdateRaisesStep, UpdateFailsStep, PurgeStep DEF Step
<1>. QED
  BY <1>1, <1>2, <1>3, <1>4 DEF Next

\* The inductive invariant of project set-up.
THEOREM SetupInvariant == Spec => []IInv
BY InitIInv, NextIInv, PTL DEF Spec

\* Types; and only an event that is resolving, for a path it has still to
\* resolve, holds the lock of GroupingService, so no ended event keeps it.
THEOREM SetupTypes == Spec => []TypeOK
<1>1. IInv => TypeOK
  BY DEF IInv
<1>. QED
  BY <1>1, SetupInvariant, PTL

\* "Group assignments are additive": a group given by hand while no event
\* was at work is never taken away by a project_json written later.
THEOREM ManualGroupsStay == Spec => []ManualGroupKept
<1>1. IInv => ManualGroupKept
  BY DEF IInv
<1>. QED
  BY <1>1, SetupInvariant, PTL

\* The purge and the one retry of __create_or_retrieve_project are enough:
\* the set-up of a listed project fails only for an exception of a request,
\* a second answer that is not ok, or a group deleted since the listing.
THEOREM RetrySuffices == Spec => []RetryRecovers
<1>1. IInv => RetryRecovers
  BY DEF IInv
<1>. QED
  BY <1>1, SetupInvariant, PTL

\* A set-up that runs alone and succeeds leaves the name, the tags and the
\* groups as configured, whatever was there and in the index before.
THEOREM LoneSetupConverges == Spec => []SetupConverges
<1>1. IInv => SetupConverges
  BY DEF IInv
<1>. QED
  BY <1>1, SetupInvariant, PTL
=============================================================================
