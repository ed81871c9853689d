---------------------------- MODULE ProjectSetup ----------------------------
(***************************************************************************)
(* Before a scan, every event finds or creates the CxOne project of its    *)
(* repository and brings its name, tags and groups up to date              *)
(* (CxOneService.__create_or_retrieve_project).  The ids of the groups     *)
(* the clone URL is assigned to come from a cache the events share         *)
(* (GroupingService), filled and purged under one asyncio lock.  Events    *)
(* interleave at every await; users change groups meanwhile.               *)
(***************************************************************************)
EXTENDS Naturals

CONSTANTS Events,      \* webhook events of one repository
          Paths,       \* group paths of the routes that match its clone URL
          Manual,      \* a group users assign by hand
          MaxGen,      \* how often a group can be made under its path; the last one stays
          MaxFaults    \* requests to CxOne that may fail

ASSUME SetupAssumption ==
  /\ "none" \notin Events /\ Manual \notin Paths
  /\ MaxGen \in Nat \ {0} /\ MaxFaults \in Nat

VARIABLES
  config,   \* update-groups and rename-legacy of the service's configuration
  group,    \* CxOne: the generation of the group at each path, 0 for none
  made,     \* CxOne: generations made at each path
  project,  \* CxOne: the projects that can have the default or dynamic name
  index,    \* GroupingService.__groupid_index
  lock,     \* GroupingService.__lock: who holds it, and CxOne's answer on its way
  task,     \* the coroutine of each event
  faults,   \* failures so far
  why,      \* history: what else happened since the event listed projects
  safe      \* history: projects given the manual group while no event ran

cxone == <<group, made, project>>
vars == <<config, cxone, index, lock, task, faults, why, safe>>

Free == [event |-> "none", path |-> "none", gen |-> 0]
NoProject == [name |-> "none", groups |-> {}, tags |-> FALSE, service |-> "none"]

\* A group made again under its path has another id.
ManualId == <<Manual, 1>>
Ids == (Paths \X (1..MaxGen)) \cup {ManualId}

\* tags: every default project tag is present; service: the "service" tag.
Projects ==
  [name : {"none", "default", "dynamic"}, groups : SUBSET Ids, tags : BOOLEAN,
   service : {"none", "own", "other"}]

\* The locals of __create_or_retrieve_project: project_id (0: to be created),
\* project_json, project_orig_groups, the paths to resolve and the ids found,
\* exec_update and retried.
Tasks ==
  [pc : {"idle", "resolving", "creating", "updating", "purging", "done", "failed"},
   target : 0..2, json : Projects, orig : SUBSET Ids, todo : SUBSET Paths,
   ids : SUBSET Ids, exec : BOOLEAN, retried : BOOLEAN]

\* Project 1 has the default name, project 2 the dynamic one; where the two
\* names are the same only project 2 can exist.
Init ==
  /\ config \in [updateGroups : BOOLEAN, renameLegacy : BOOLEAN]
  /\ made = [p \in Paths |-> 1] /\ group = [p \in Paths |-> 1]
  /\ \E present \in SUBSET {1, 2}, tagged \in BOOLEAN :
       project = [i \in {1, 2} |->
         IF i \notin present THEN NoProject
         ELSE [name |-> IF i = 1 THEN "default" ELSE "dynamic", groups |-> {},
               tags |-> tagged, service |-> IF tagged THEN "other" ELSE "none"]]
  /\ index = [p \in Paths |-> 0] /\ lock = Free
  /\ task = [e \in Events |->
       [pc |-> "idle", target |-> 0, json |-> NoProject, orig |-> {}, todo |-> {},
        ids |-> {}, exec |-> FALSE, retried |-> FALSE]]
  /\ faults = 0 /\ why = [e \in Events |-> {}] /\ safe = {}
-----------------------------------------------------------------------------
(***************************************************************************)
(* CxOne (external) and its users.  A deleted group leaves the projects;   *)
(* a write that names a group CxOne does not have is refused.              *)
(***************************************************************************)
Assigned == {<<p, group[p]>> : p \in {x \in Paths : group[x] # 0}}
Valid(ids) == ids \subseteq Assigned \cup {ManualId}

Found == {i \in {1, 2} : project[i] # NoProject}
Dynamic == {i \in Found : project[i].name = "dynamic"}

\* The project with the dynamic name is preferred.
Chosen == CHOOSE i \in Found : Dynamic # {} => i \in Dynamic

At(e, step) == task[e].pc = step
Running == {e \in Events : task[e].pc \notin {"idle", "done", "failed"}}

\* What happens to CxOne is noted for the events under way; a set-up that
\* has ended is just no longer the last thing that happened.
Noted(e, cause) ==
  CASE e \in Running -> why[e] \cup {cause}
    [] At(e, "done") -> {"changed"}
    [] OTHER -> why[e]
Note(cause) == why' = [e \in Events |-> Noted(e, cause)]

DeleteGroup(p) ==
  /\ group[p] # 0 /\ made[p] < MaxGen
  /\ group' = [group EXCEPT ![p] = 0]
  /\ project' = [i \in {1, 2} |-> [project[i] EXCEPT !.groups = @ \ {<<p, group[p]>>}]]
  /\ Note("deleted")
  /\ UNCHANGED <<config, made, index, lock, task, faults, safe>>

MakeGroup(p) ==
  /\ group[p] = 0
  /\ made' = [made EXCEPT ![p] = @ + 1]
  /\ group' = [group EXCEPT ![p] = made[p] + 1]
  /\ Note("changed")
  /\ UNCHANGED <<config, project, index, lock, task, faults, safe>>

\* Users look after the project that is in use.
UserAssigns(i) ==
  /\ Found # {} /\ i = Chosen /\ ManualId \notin project[i].groups
  /\ project' = [project EXCEPT ![i].groups = @ \cup {ManualId}]
  /\ safe' = IF Running = {} THEN safe \cup {i} ELSE safe
  /\ Note("changed")
  /\ UNCHANGED <<config, group, made, index, lock, task, faults>>
-----------------------------------------------------------------------------
(***************************************************************************)
(* Finding the project.                                                    *)
(***************************************************************************)
\* A request fails in CxOne or on the way.
Fails == faults < MaxFaults /\ faults' = faults + 1

Fault(e, cause) == Fails /\ why' = [why EXCEPT ![e] = @ \cup {cause}]

\* The event ends, and its locals with it: all but the project it worked on
\* and the ids a refused creation had, which the properties are about.
Ends(e, step) ==
  task' = [task EXCEPT ![e] =
    [pc |-> step, target |-> @.target, json |-> NoProject, orig |-> {}, todo |-> {},
     ids |-> IF step = "done" THEN {} ELSE @.ids, exec |-> FALSE, retried |-> FALSE]]

\* new_tags | tags: a tag the project has keeps its value, the service tag
\* of another service too.
MergedService(q) == IF q.service = "none" THEN "own" ELSE q.service

Renames(q) == q.name = "default" /\ config.renameLegacy

\* project_json once tags and name are set.
Refreshed(q) ==
  [name |-> IF Renames(q) THEN "dynamic" ELSE q.name, groups |-> q.groups,
   tags |-> TRUE, service |-> MergedService(q)]

\* exec_update before the groups are compared: there are new tags, or the
\* legacy name is to change.
ExecUpdate(q) == ~ q.tags \/ q.service # "own" \/ Renames(q)

\* What follows the list of projects before the next await.  A project
\* that is not there is created, with its groups.
Retrieved ==
  IF Found = {}
  THEN [pc |-> "resolving", target |-> 0,
        json |-> [name |-> "dynamic", groups |-> {}, tags |-> TRUE, service |-> "own"],
        orig |-> {}, todo |-> Paths, ids |-> {}, exec |-> FALSE, retried |-> FALSE]
  ELSE LET q == project[Chosen] IN
       [pc |-> IF config.updateGroups THEN "resolving"
               ELSE IF ExecUpdate(q) THEN "updating" ELSE "done",
        target |-> Chosen, json |-> Refreshed(q), orig |-> q.groups,
        todo |-> IF config.updateGroups THEN Paths ELSE {}, ids |-> {},
        exec |-> ExecUpdate(q), retried |-> FALSE]

ListProjects(e) ==
  /\ At(e, "idle")
  /\ task' = [task EXCEPT ![e] = Retrieved]
  /\ why' = [f \in Events |-> IF f # e THEN Noted(f, "changed")
                              ELSE IF Running = {} THEN {} ELSE {"changed"}]
  /\ UNCHANGED <<config, cxone, index, lock, faults, safe>>

ListFails(e) ==
  /\ At(e, "idle") /\ Ends(e, "failed")
  /\ Fault(e, "raised")
  /\ UNCHANGED <<config, cxone, index, lock, safe>>
-----------------------------------------------------------------------------
(***************************************************************************)
(* __resolve_group_ids, one path at a time: the lock is taken for a path,  *)
(* held while CxOne is asked for it, and released.                         *)
(***************************************************************************)
Take(e, p, gen) ==
  task' = [task EXCEPT ![e].ids = IF gen = 0 THEN @ ELSE @ \cup {<<p, gen>>},
                       ![e].todo = @ \ {p}]

UseIndex(e, p) ==
  /\ At(e, "resolving") /\ p \in task[e].todo /\ lock = Free
  /\ index[p] # 0
  /\ Take(e, p, index[p])
  /\ UNCHANGED <<config, cxone, index, lock, faults, why, safe>>

\* CxOne answers retrieve_groups with the group of the moment.
AskGroup(e, p) ==
  /\ At(e, "resolving") /\ p \in task[e].todo /\ lock = Free
  /\ index[p] = 0
  /\ lock' = [event |-> e, path |-> p, gen |-> group[p]]
  /\ UNCHANGED <<config, cxone, index, task, faults, why, safe>>

\* The path is done with and the lock released, also for no group of that
\* name and, the exception being caught, for a request that failed.
Answered(e, gen) ==
  /\ lock.event = e /\ lock.path \in task[e].todo
  /\ index' = [index EXCEPT ![lock.path] = gen]
  /\ Take(e, lock.path, gen)
  /\ lock' = Free
  /\ UNCHANGED <<config, cxone, safe>>

GroupAnswered(e) == Answered(e, lock.gen) /\ UNCHANGED <<faults, why>>

\* A faulty variant of AskFails: the lock is kept.
AskFails_Held(e) ==
  /\ lock.event = e /\ Take(e, lock.path, 0) /\ Fault(e, "changed")
  /\ UNCHANGED <<config, cxone, index, lock, safe>>

AskFails(e) == Answered(e, 0) /\ Fault(e, "changed")

\* A faulty variant of Wanted: the groups of the project are replaced.
Wanted_Replaced(e) == task[e].ids

\* __resolve_group_memberships: the assigned groups are added to those the
\* project had when it was listed.
Wanted(e) == task[e].orig \cup task[e].ids

\* A faulty variant of NewGroups: only a project without groups needs any.
NewGroups_WhenNone(e) == task[e].orig = {}

\* A new group assignment is needed.
NewGroups(e) == ~ (Wanted(e) \subseteq task[e].orig)

Resolved(e) ==
  /\ At(e, "resolving") /\ task[e].todo = {}
  /\ LET assign == task[e].target = 0 \/ task[e].retried \/ NewGroups(e) IN
     IF assign \/ task[e].exec
     THEN task' = [task EXCEPT
            ![e].json.groups = IF assign THEN Wanted(e) ELSE @,
            ![e].pc = IF task[e].target = 0 THEN "creating" ELSE "updating"]
     ELSE Ends(e, "done")
  /\ UNCHANGED <<config, cxone, index, lock, faults, why, safe>>
-----------------------------------------------------------------------------
(***************************************************************************)
(* Writing the project.                                                    *)
(***************************************************************************)
\* CxOne keeps names apart, and refuses the second of two first events.
Created(e, causes) ==
  /\ At(e, "creating")
  /\ Valid(task[e].json.groups) /\ Dynamic = {}
  /\ project' = [project EXCEPT ![2] = task[e].json]
  /\ why' = [f \in Events |-> IF f = e THEN why[f] \cup causes ELSE Noted(f, "created")]
  /\ UNCHANGED <<config, group, made, index, lock, safe>>

CreateProject(e) == Created(e, {}) /\ Ends(e, "done") /\ UNCHANGED faults

\* CxOne has made the project, but its answer does not arrive.
CreateUnheard(e) == Created(e, {"raised"}) /\ Ends(e, "failed") /\ Fails

\* The exception ends the event: no purge and no retry here.
CreateFails(e) ==
  /\ At(e, "creating") /\ Ends(e, "failed")
  /\ \/ ~ (Valid(task[e].json.groups) /\ Dynamic = {}) /\ UNCHANGED <<faults, why>>
     \/ Fault(e, "fault")
  /\ UNCHANGED <<config, cxone, index, lock, safe>>

\* The whole of project_json is written, as it was listed some awaits ago.
Updated(e) ==
  /\ At(e, "updating")
  /\ Valid(task[e].json.groups)
  /\ project' = [project EXCEPT ![task[e].target] = task[e].json]
  /\ UNCHANGED <<config, group, made, index, lock, safe>>

UpdateProject(e) == Updated(e) /\ Ends(e, "done") /\ UNCHANGED <<faults, why>>

\* An exception of update_a_project leaves the loop, at the first try as at
\* the second: CxOne has written the project and its answer is lost, ...
UpdateUnheard(e) == Updated(e) /\ Ends(e, "failed") /\ Fault(e, "raised")

\* ... or the request has not come to CxOne.
UpdateRaises(e) ==
  /\ At(e, "updating") /\ Ends(e, "failed")
  /\ Fault(e, "raised")
  /\ UNCHANGED <<config, cxone, index, lock, safe>>

\* An answer that is not ok, for a group that is gone or any other reason:
\* once, the group ids are loaded again; twice, it is an exception.
UpdateFails(e) ==
  /\ At(e, "updating")
  /\ \/ ~ Valid(task[e].json.groups) /\ UNCHANGED <<faults, why>>
     \/ Fault(e, IF task[e].retried THEN "fault" ELSE "changed")
  /\ IF task[e].retried THEN Ends(e, "failed")
     ELSE task' = [task EXCEPT ![e].pc = "purging"]
  /\ UNCHANGED <<config, cxone, index, lock, safe>>

\* A faulty variant of Purged: the ids stay.
Purged_Kept == index

Purged == [p \in Paths |-> 0]

\* The routes are resolved again, also where update-groups is off.
PurgeCache(e) ==
  /\ At(e, "purging") /\ lock = Free
  /\ index' = Purged
  /\ task' = [task EXCEPT ![e].pc = "resolving", ![e].retried = TRUE,
                          ![e].todo = Paths, ![e].ids = {}]
  /\ UNCHANGED <<config, cxone, lock, faults, why, safe>>
-----------------------------------------------------------------------------
Step(e) ==
  \/ ListProjects(e) \/ ListFails(e)
  \/ \E p \in Paths : UseIndex(e, p) \/ AskGroup(e, p)
  \/ GroupAnswered(e) \/ AskFails(e) \/ Resolved(e)
  \/ CreateProject(e) \/ CreateUnheard(e) \/ CreateFails(e)
  \/ UpdateProject(e) \/ UpdateUnheard(e) \/ UpdateRaises(e) \/ UpdateFails(e) \/ PurgeCache(e)

Next ==
  \/ \E p \in Paths : DeleteGroup(p) \/ MakeGroup(p)
  \/ \E i \in {1, 2} : UserAssigns(i)
  \/ \E e \in Events : Step(e)

Spec == Init /\ [][Next]_vars

\* The event loop runs every task, and CxOne answers every request.
FairSpec == Spec /\ \A e \in Events : WF_vars(Step(e))
-----------------------------------------------------------------------------
\* Types; only an event under way can hold the lock, and it asks for a path
\* it has still to resolve.
TypeOK ==
  /\ config \in [updateGroups : BOOLEAN, renameLegacy : BOOLEAN]
  /\ made \in [Paths -> 1..MaxGen] /\ group \in [Paths -> 0..MaxGen]
  /\ project \in [{1, 2} -> Projects]
  /\ index \in [Paths -> 0..MaxGen]
  /\ \/ lock = Free
     \/ /\ lock \in [event : Events, path : Paths, gen : 0..MaxGen]
        /\ At(lock.event, "resolving") /\ lock.path \in task[lock.event].todo
  /\ task \in [Events -> Tasks]
  /\ faults \in 0..MaxFaults
  /\ why \in [Events -> SUBSET {"deleted", "changed", "created", "fault", "raised"}]
  /\ safe \subseteq {1, 2}

(***************************************************************************)
(* "Group assignments are additive": a group users gave the project while  *)
(* no event was at work on it is never taken away, whatever writes, races  *)
(* and retries follow.  (One given meanwhile can be lost to a project_json *)
(* listed before it.)                                                      *)
(***************************************************************************)
ManualGroupKept == \A i \in safe : ManualId \in project[i].groups

(***************************************************************************)
(* The retry after a purge cures stale group ids and one answer that was   *)
(* not ok: the set-up of a listed project fails only when a request ended  *)
(* in an exception, which is not retried, when the answer to the retry was *)
(* not ok for a reason of CxOne's, or when a group was deleted after the   *)
(* project was listed; never for how stale the index was.  A creation also *)
(* fails for one answer that is not ok, a group id that is gone, or a      *)
(* project made meanwhile.                                                 *)
(***************************************************************************)
RetryRecovers ==
  \A e \in Events : At(e, "failed") /\ why[e] \cap {"raised", "fault"} = {} =>
    IF task[e].target = 0
    THEN "created" \in why[e] \/ ~ Valid(task[e].ids)
    ELSE "deleted" \in why[e]

(***************************************************************************)
(* Whatever earlier events, races and deletions have left behind, a set-up *)
(* that runs alone and succeeds leaves a project with the name, the tags   *)
(* and, if they are to be updated, all the groups that exist.  The service *)
(* tag is there, but can still name another service.                       *)
(***************************************************************************)
SetupConverges ==
  \A e \in Events : At(e, "done") /\ why[e] = {} =>
    LET t == task[e]
        q == project[IF t.target = 0 THEN 2 ELSE t.target]
    IN  /\ q.tags /\ q.service # "none"
        /\ config.renameLegacy => q.name = "dynamic"
        /\ config.updateGroups \/ t.target = 0 =>
             Assigned \subseteq q.groups

(***************************************************************************)
(* Every set-up ends: an event that waits for the lock gets it, also when  *)
(* the request of its holder fails.                                        *)
(***************************************************************************)
SetupEnds == \A e \in Events : task[e].pc = "resolving" ~> task[e].pc \in {"done", "failed"}
=============================================================================
