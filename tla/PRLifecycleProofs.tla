------------------------- MODULE PRLifecycleProofs -------------------------
(***************************************************************************)
(* Proofs about PRLifecycle, for any SCMs, branches, pull requests, events *)
(* and commits: its types, that the tags of a scan are those of its own    *)
(* pull request, and that a change does not scan a commit again where the  *)
(* orchestrator searches first.                                            *)
(***************************************************************************)
EXTENDS PRLifecycle, TLAPS

\* A handler past its submission has a scan and one before it has none;
\* what is listed for an update are scans of the same commit and request.
HandlerInv ==
  \A e \in Events :
    /\ pc[e] = "submitted" => scan[e] # "none"
    /\ scan[e] # "none" => pc[e] \in {"submitted", "done"}
    /\ \A i \in todo[e] : i \in Submitted /\ SamePRCommit(i, e)

\* The scans there were when an event was sent stay.
SeenInv == \A e \in 1..sent : seen[e].scans \subseteq Submitted

\* A search that decided for a scan had seen all those: the decision is
\* not undone by what happens in the awaits before the scan is submitted.
SearchInv ==
  scm \in {"gl", "adoe"} =>
    \A e \in Events : pc[e] \in {"orchestrate", "delegated"} \/ scan[e] # "none" =>
      \A j \in seen[e].scans : ~ SamePRCommit(e, j)

IInv == TypeOK /\ HandlerInv /\ SeenInv /\ SearchInv /\ TagsOfOwnPR
-----------------------------------------------------------------------------
(***************************************************************************)
(* What the operators do.                                                  *)
(***************************************************************************)

\* A sent event has a payload.
LEMMA EventTypes ==
  ASSUME TypeOK, NEW e \in Events, pc[e] # "unsent"
  PROVE  e \in 1..sent /\ event[e] \in Payload /\ seen[e].scans \in SUBSET Events
<1>1. e \in 1..sent
  BY DEF TypeOK, Events
<1>. QED
  BY <1>1 DEF TypeOK

\* The tags an orchestrator makes of a payload.
LEMMA TagTypes ==
  ASSUME TypeOK, NEW e \in Events, event[e] \in Payload
  PROVE  PRTags(e) \in TagSet
<1>. DEFINE v == event[e]
            s == IF scm # "gl" THEN v.review
                 ELSE IF v.change \in {"push", "ready", "draft", "retarget"} THEN "update"
                 ELSE v.change
            d == scm = "gh" /\ v.draft
<1>1. s \in Reviews \cup Changes \cup {"update"}
  BY DEF Payload
<1>2. v.state \in {"open", "closed"} /\ v.target \in Branches /\ d \in BOOLEAN
  BY DEF Payload
<1>3. PRTags(e) = [state |-> v.state, draft |-> d, status |-> s, target |-> v.target]
  BY DEF PRTags
<1>. HIDE DEF s, d
<1>. QED
  BY <1>1, <1>2, <1>3 DEF TagSet

\* What stays the same where the SCM's side does.
LEMMA ScmKept ==
  ASSUME UNCHANGED scmVars
  PROVE  /\ scm' = scm /\ pr' = pr /\ head' = head /\ sent' = sent /\ event' = event /\ seen' = seen
         /\ \A i, e : SamePRCommit(i, e)' <=> SamePRCommit(i, e)
         /\ \A e : PRTags(e)' = PRTags(e)
BY DEF scmVars, SamePRCommit, PRTags

\* What holds of tags where they and the scans do not change.
LEMMA TagsKept ==
  ASSUME TagsOfOwnPR, UNCHANGED scmVars, tags' = tags, Submitted' = Submitted
  PROVE  TagsOfOwnPR'
BY ScmKept DEF TagsOfOwnPR

\* The search invariant says what was to be shown.
LEMMA SearchEnough == IInv => NoRescan
<1>. SUFFICES ASSUME IInv, scm \in {"gl", "adoe"}, NEW i \in Submitted, NEW j \in seen[i].scans
              PROVE  ~ SamePRCommit(i, j)
  BY DEF NoRescan
<1>1. i \in Events /\ scan[i] # "none"
  BY DEF Submitted
<1>. QED
  BY <1>1 DEF IInv, SearchInv
-----------------------------------------------------------------------------
(***************************************************************************)
(* The handlers.                                                           *)
(***************************************************************************)

\* A handler only goes on: to a scan, after a search that found none.
LEMMA GotoStep ==
  ASSUME IInv, NEW e \in Events, NEW step \in {"orchestrate", "delegated", "update", "done"},
         pc[e] \in {"received", "orchestrate", "delegated"}, Goto(e, step),
         UNCHANGED <<scmVars, scan, tags, todo, feedback, lost>>,
         step \in {"orchestrate", "delegated"} /\ scm \in {"gl", "adoe"} =>
           \A j \in seen[e].scans : ~ SamePRCommit(e, j)
  PROVE  IInv'
<1>0. TypeOK /\ HandlerInv /\ SeenInv /\ SearchInv /\ TagsOfOwnPR
  BY DEF IInv
<1>1. scm' = scm /\ pr' = pr /\ head' = head /\ sent' = sent /\ event' = event /\ seen' = seen
  BY ScmKept
<1>2. /\ pc' \in [Events -> Steps] /\ pc'[e] = step /\ \A f \in Events \ {e} : pc'[f] = pc[f]
  BY <1>0 DEF TypeOK, Goto, Steps
<1>3. Submitted' = Submitted
  BY DEF Submitted
<1>4. TypeOK'
  <2>1. e <= sent
    BY <1>0, EventTypes
  <2>2. \A f \in Events : pc'[f] = "unsent" <=> f > sent
    BY <1>0, <1>2, <2>1 DEF TypeOK, Events
  <2>3. \A f \in Events : todo[f] # {} <=> pc'[f] = "updating"
    BY <1>0, <1>2 DEF TypeOK
  <2>. QED
    BY <1>0, <1>1, <1>2, <1>3, <2>2, <2>3 DEF TypeOK
<1>5. scan[e] = "none"
  BY <1>0 DEF HandlerInv
<1>6. HandlerInv'
  BY <1>0, <1>2, <1>3, <1>5, ScmKept DEF HandlerInv
<1>7. SeenInv' /\ TagsOfOwnPR'
  BY <1>0, <1>1, <1>3, TagsKept DEF SeenInv
<1>8. SearchInv'
  BY <1>0, <1>1, <1>2, <1>5, ScmKept DEF SearchInv
<1>. QED
  BY <1>4, <1>6, <1>7, <1>8 DEF IInv

\* Where the orchestrator searches, it does so for every change.
LEMMA AlwaysSearched ==
  ASSUME NEW e \in Events, scm \in {"gl", "adoe"}
  PROVE  Workflow(e) = "search"
<1>1. CASE scm = "gl"
  BY <1>1 DEF Workflow, GitlabWorkflow
<1>2. CASE scm = "adoe"
  BY <1>2 DEF Workflow, AzureWorkflow
<1>. QED
  BY <1>1, <1>2

\* The steps up to the submission.
LEMMA DispatchStep ==
  ASSUME IInv, NEW e \in Events,
         Unhandled(e) \/ Draft(e) \/ Dispatch(e) \/ Search(e) \/ NotProtected(e) \/ Delegate(e)
  PROVE  IInv'
<1>0. TypeOK /\ SeenInv /\ SearchInv
  BY DEF IInv
<1>1. CASE Unhandled(e) \/ Draft(e) \/ NotProtected(e)
  BY <1>1, GotoStep DEF Unhandled, Draft, NotProtected
<1>2. CASE Dispatch(e)
  <2>1. scm \notin {"gl", "adoe"}
    BY <1>2, AlwaysSearched DEF Dispatch
  <2>. QED
    BY <1>2, <2>1, GotoStep DEF Dispatch
<1>3. CASE Delegate(e)
  <2>1. scm \in {"gl", "adoe"} => \A j \in seen[e].scans : ~ SamePRCommit(e, j)
    BY <1>0, <1>3 DEF Delegate, SearchInv
  <2>. QED
    BY <1>3, <2>1, GotoStep DEF Delegate
<1>4. CASE Search(e)
  <2>1. FindPRScans(e) = {} => \A j \in seen[e].scans : ~ SamePRCommit(e, j)
    <3>1. seen[e].scans \subseteq Submitted
      BY <1>0, <1>4, EventTypes DEF Search, SeenInv
    <3>2. \A j : SamePRCommit(e, j) => SamePRCommit(j, e)
      BY DEF SamePRCommit
    <3>. QED
      BY <3>1, <3>2 DEF FindPRScans
  <2>. DEFINE step == IF FindPRScans(e) # {} THEN "update"
                      ELSE IF scm = "gl" /\ event[e].state = "closed" THEN "done"
                      ELSE "orchestrate"
  <2>2. pc[e] = "received" /\ Goto(e, step) /\ UNCHANGED <<scmVars, scan, tags, todo, feedback, lost>>
    BY <1>4 DEF Search
  <2>3. step \in {"update", "done", "orchestrate"} /\ (step = "orchestrate" => FindPRScans(e) = {})
    OBVIOUS
  <2>. HIDE DEF step
  <2>. QED
    BY <2>1, <2>2, <2>3, GotoStep
<1>. QED
  BY <1>1, <1>2, <1>3, <1>4

\* The scan is submitted with the tags of its own event.
LEMMA SubmitStep ==
  ASSUME IInv, NEW e \in Events, SubmitScan(e)
  PROVE  IInv'
<1>0. /\ TypeOK /\ HandlerInv /\ SeenInv /\ SearchInv /\ TagsOfOwnPR
      /\ pc[e] \in {"orchestrate", "delegated"} /\ Goto(e, "submitted")
      /\ scan' = [scan EXCEPT ![e] = "running"] /\ tags' = Add(tags, e, PRTags(e))
      /\ UNCHANGED <<scmVars, todo, feedback, lost>>
  BY DEF IInv, SubmitScan
<1>1. scm' = scm /\ pr' = pr /\ head' = head /\ sent' = sent /\ event' = event /\ seen' = seen
  BY <1>0, ScmKept
<1>2. /\ pc' \in [Events -> Steps] /\ pc'[e] = "submitted" /\ \A f \in Events \ {e} : pc'[f] = pc[f]
      /\ scan' \in [Events -> {"none", "running", "finished"}] /\ scan'[e] = "running"
      /\ \A f \in Events \ {e} : scan'[f] = scan[f]
  BY <1>0 DEF TypeOK, Goto, Steps
<1>3. scan[e] = "none" /\ e \in 1..sent /\ event[e] \in Payload
  BY <1>0, EventTypes DEF HandlerInv
<1>4. Submitted' = Submitted \cup {e} /\ e \notin Submitted
  BY <1>2, <1>3 DEF Submitted
<1>5. /\ tags' \in [Submitted' -> TagSet] /\ tags'[e] = PRTags(e)
      /\ \A i \in Submitted : tags'[i] = tags[i]
  <2>1. PRTags(e) \in TagSet /\ tags \in [Submitted -> TagSet]
    BY <1>0, <1>3, TagTypes DEF TypeOK
  <2>. QED
    BY <1>0, <1>4, <2>1 DEF Add
<1>6. TypeOK'
  <2>2. \A f \in Events : pc'[f] = "unsent" <=> f > sent
    BY <1>0, <1>2, <1>3 DEF TypeOK, Events
  <2>3. \A f \in Events : todo[f] # {} <=> pc'[f] = "updating"
    BY <1>0, <1>2 DEF TypeOK
  <2>. QED
    BY <1>0, <1>1, <1>2, <1>4, <1>5, <2>2, <2>3 DEF TypeOK
<1>7. HandlerInv'
  BY <1>0, <1>2, <1>4, ScmKept DEF HandlerInv
<1>8. SeenInv'
  BY <1>0, <1>1, <1>4 DEF SeenInv
<1>9. SearchInv'
  BY <1>0, <1>1, <1>2, ScmKept DEF SearchInv
<1>10. TagsOfOwnPR'
  <2>1. SamePRCommit(e, e)
    BY DEF SamePRCommit
  <2>. QED
    BY <1>0, <1>1, <1>3, <1>4, <1>5, <2>1, ScmKept DEF TagsOfOwnPR
<1>. QED
  BY <1>6, <1>7, <1>8, <1>9, <1>10 DEF IInv

\* The feedback workflow starts.
LEMMA StartStep ==
  ASSUME IInv, NEW e \in Events, StartPRWorkflow(e)
  PROVE  IInv'
<1>0. /\ TypeOK /\ HandlerInv /\ SeenInv /\ SearchInv /\ TagsOfOwnPR
      /\ pc[e] = "submitted" /\ Goto(e, "done") /\ feedback' = feedback \cup {e}
      /\ UNCHANGED <<scmVars, scan, tags, todo, lost>>
  BY DEF IInv, StartPRWorkflow
<1>1. scm' = scm /\ pr' = pr /\ head' = head /\ sent' = sent /\ event' = event /\ seen' = seen
  BY <1>0, ScmKept
<1>2. /\ pc' \in [Events -> Steps] /\ pc'[e] = "done" /\ \A f \in Events \ {e} : pc'[f] = pc[f]
  BY <1>0 DEF TypeOK, Goto, Steps
<1>3. Submitted' = Submitted /\ e \in Submitted /\ e \in 1..sent
  BY <1>0, EventTypes DEF Submitted, HandlerInv
<1>4. TypeOK'
  <2>2. \A f \in Events : pc'[f] = "unsent" <=> f > sent
    BY <1>0, <1>2, <1>3 DEF TypeOK, Events
  <2>3. \A f \in Events : todo[f] # {} <=> pc'[f] = "updating"
    BY <1>0, <1>2 DEF TypeOK
  <2>. QED
    BY <1>0, <1>1, <1>2, <1>3, <2>2, <2>3 DEF TypeOK
<1>5. HandlerInv'
  BY <1>0, <1>2, <1>3, ScmKept DEF HandlerInv
<1>6. SeenInv' /\ TagsOfOwnPR'
  BY <1>0, <1>1, <1>3, TagsKept DEF SeenInv
<1>7. SearchInv'
  BY <1>0, <1>1, <1>2, ScmKept DEF SearchInv
<1>. QED
  BY <1>4, <1>5, <1>6, <1>7 DEF IInv
-----------------------------------------------------------------------------
(***************************************************************************)
(* The tag update.                                                         *)
(***************************************************************************)

\* A step of a handler that submits nothing and changes what it has listed.
LEMMA TodoStep ==
  ASSUME IInv, NEW e \in Events, NEW step \in {"updating", "done"}, pc[e] # "unsent",
         Goto(e, step), NEW list \in SUBSET Events, todo' = [todo EXCEPT ![e] = list],
         list # {} <=> step = "updating",
         \A i \in list : i \in Submitted /\ SamePRCommit(i, e),
         pc[e] = "submitted" => step = "done", scan[e] # "none" => step = "done",
         UNCHANGED <<scmVars, scan, feedback>>,
         \A i \in Submitted : tags'[i] = tags[i] \/ (tags'[i] = PRTags(e) /\ SamePRCommit(i, e)),
         tags' \in [Submitted -> TagSet], lost' \in SUBSET (1..sent)
  PROVE  IInv'
<1>0. TypeOK /\ HandlerInv /\ SeenInv /\ SearchInv /\ TagsOfOwnPR
  BY DEF IInv
<1>1. scm' = scm /\ pr' = pr /\ head' = head /\ sent' = sent /\ event' = event /\ seen' = seen
  BY ScmKept
<1>2. /\ pc' \in [Events -> Steps] /\ pc'[e] = step /\ \A f \in Events \ {e} : pc'[f] = pc[f]
      /\ todo' \in [Events -> SUBSET Events] /\ todo'[e] = list /\ \A f \in Events \ {e} : todo'[f] = todo[f]
  BY <1>0 DEF TypeOK, Goto, Steps
<1>3. Submitted' = Submitted /\ e \in 1..sent
  BY <1>0, EventTypes DEF Submitted
<1>4. TypeOK'
  <2>2. \A f \in Events : pc'[f] = "unsent" <=> f > sent
    BY <1>0, <1>2, <1>3 DEF TypeOK, Events
  <2>3. \A f \in Events : todo'[f] # {} <=> pc'[f] = "updating"
    BY <1>0, <1>2 DEF TypeOK
  <2>. QED
    BY <1>0, <1>1, <1>2, <1>3, <2>2, <2>3 DEF TypeOK
<1>5. HandlerInv'
  BY <1>0, <1>2, <1>3, ScmKept DEF HandlerInv
<1>6. SeenInv'
  BY <1>0, <1>1, <1>3 DEF SeenInv
<1>7. SearchInv'
  BY <1>0, <1>1, <1>2, ScmKept DEF SearchInv
<1>8. TagsOfOwnPR'
  BY <1>0, <1>1, <1>3, ScmKept DEF TagsOfOwnPR
<1>. QED
  BY <1>4, <1>5, <1>6, <1>7, <1>8 DEF IInv

\* The finished scans of the commit and pull request are listed.
LEMMA ListStep ==
  ASSUME IInv, NEW e \in Events, ListScans(e)
  PROVE  IInv'
<1>. DEFINE list == UpdatableScans(e)
            step == IF list = {} THEN "done" ELSE "updating"
<1>1. /\ pc[e] = "update" /\ Goto(e, step) /\ todo' = [todo EXCEPT ![e] = list]
      /\ UNCHANGED <<scmVars, scan, tags, feedback, lost>>
  BY DEF ListScans
<1>2. list \in SUBSET Events /\ \A i \in list : i \in Submitted /\ SamePRCommit(i, e)
  BY DEF UpdatableScans, Submitted
<1>3. step \in {"updating", "done"} /\ (list # {} <=> step = "updating")
  OBVIOUS
<1>. HIDE DEF list, step
<1>4. scan[e] = "none" /\ tags' \in [Submitted -> TagSet] /\ lost' \in SUBSET (1..sent)
  BY <1>1 DEF IInv, HandlerInv, TypeOK
<1>. QED
  BY <1>1, <1>2, <1>3, <1>4, TodoStep

\* One of the listed scans is updated, or CxOne refuses.
LEMMA UpdateStep ==
  ASSUME IInv, NEW e \in Events, NEW i \in Events, UpdateTags(e, i) \/ UpdateRefused(e, i)
  PROVE  IInv'
<1>. DEFINE list == todo[e] \ {i}
            step == IF todo[e] = {i} THEN "done" ELSE "updating"
<1>0. /\ TypeOK /\ HandlerInv /\ pc[e] = "updating" /\ i \in todo[e] /\ Goto(e, step)
      /\ todo' = [todo EXCEPT ![e] = list] /\ UNCHANGED <<scmVars, scan, feedback>>
  BY DEF IInv, UpdateTags, UpdateRefused, Updated
<1>1. /\ todo[e] \in SUBSET Events /\ list \in SUBSET Events /\ i \in Submitted /\ SamePRCommit(i, e)
      /\ \A x \in list : x \in Submitted /\ SamePRCommit(x, e)
  BY <1>0 DEF TypeOK, HandlerInv
<1>2. step \in {"updating", "done"} /\ (list # {} <=> step = "updating")
  BY <1>0
<1>. HIDE DEF list, step
<1>3. scan[e] = "none" /\ e \in 1..sent /\ event[e] \in Payload
  BY <1>0, EventTypes DEF HandlerInv
<1>4. PRTags(e) \in TagSet /\ tags \in [Submitted -> TagSet] /\ lost \in SUBSET (1..sent)
  BY <1>0, <1>3, TagTypes DEF TypeOK
<1>5. /\ tags' \in [Submitted -> TagSet]
      /\ \A x \in Submitted : tags'[x] = tags[x] \/ (tags'[x] = PRTags(e) /\ SamePRCommit(x, e))
  <2>1. CASE tags' = [tags EXCEPT ![i] = PRTags(e)]
    BY <1>1, <1>4, <2>1
  <2>2. CASE tags' = tags
    BY <1>4, <2>2
  <2>. QED
    BY <2>1, <2>2 DEF UpdateTags, UpdateRefused
<1>6. lost' \in SUBSET (1..sent)
  BY <1>3, <1>4 DEF UpdateTags, UpdateRefused
<1>. QED
  BY <1>0, <1>1, <1>2, <1>3, <1>5, <1>6, TodoStep

\* A handler fails or its feedback is refused: it ends where it is.
LEMMA FailStep ==
  ASSUME IInv, NEW e \in Events, FeedbackRefused(e) \/ HandlerFails(e)
  PROVE  IInv'
<1>0. ASSUME FeedbackRefused(e)
      PROVE  todo' = [todo EXCEPT ![e] = {}]
  <2>1. pc[e] = "submitted" /\ todo' = todo /\ TypeOK
    BY <1>0 DEF FeedbackRefused, IInv
  <2>2. todo \in [Events -> SUBSET Events] /\ todo[e] = {}
    BY <2>1 DEF TypeOK
  <2>. QED
    BY <2>1, <2>2
<1>1. /\ pc[e] # "unsent" /\ Goto(e, "done") /\ todo' = [todo EXCEPT ![e] = {}]
      /\ UNCHANGED <<scmVars, scan, tags, feedback>> /\ lost' = lost \cup {e}
  BY <1>0 DEF FeedbackRefused, HandlerFails, Active
<1>2. e \in 1..sent /\ tags' \in [Submitted -> TagSet] /\ lost \in SUBSET (1..sent)
  BY <1>1, EventTypes DEF IInv, TypeOK
<1>3. lost' \in SUBSET (1..sent)
  BY <1>1, <1>2
<1>. DEFINE list == {}
            step == "done"
<1>4. /\ list \in SUBSET Events /\ step \in {"updating", "done"} /\ step = "done"
      /\ list # {} <=> step = "updating"
      /\ todo' = [todo EXCEPT ![e] = list] /\ Goto(e, step) /\ \A i \in list : FALSE
  BY <1>1
<1>. HIDE DEF list, step
<1>. QED
  BY <1>1, <1>2, <1>3, <1>4, TodoStep

\* CxOne finishes a scan.
LEMMA FinishStep ==
  ASSUME IInv, NEW i \in Events, ScanFinishes(i)
  PROVE  IInv'
<1>0. /\ TypeOK /\ HandlerInv /\ SeenInv /\ SearchInv /\ TagsOfOwnPR
      /\ scan[i] = "running" /\ scan' = [scan EXCEPT ![i] = "finished"]
      /\ UNCHANGED <<scmVars, pc, tags, todo, feedback, lost>>
  BY DEF IInv, ScanFinishes
<1>1. scm' = scm /\ pr' = pr /\ head' = head /\ sent' = sent /\ event' = event /\ seen' = seen
  BY <1>0, ScmKept
<1>2. /\ scan' \in [Events -> {"none", "running", "finished"}]
      /\ \A f \in Events : scan'[f] = "none" <=> scan[f] = "none"
  BY <1>0 DEF TypeOK
<1>3. Submitted' = Submitted
  BY <1>2 DEF Submitted
<1>4. TypeOK'
  BY <1>0, <1>1, <1>2, <1>3 DEF TypeOK
<1>5. HandlerInv'
  BY <1>0, <1>2, <1>3, ScmKept DEF HandlerInv
<1>6. SeenInv' /\ TagsOfOwnPR'
  BY <1>0, <1>1, <1>3, TagsKept DEF SeenInv
<1>7. SearchInv'
  BY <1>0, <1>1, <1>2, ScmKept DEF SearchInv
<1>. QED
  BY <1>4, <1>5, <1>6, <1>7 DEF IInv
-----------------------------------------------------------------------------
(***************************************************************************)
(* The users of the SCM.                                                   *)
(***************************************************************************)

\* An event is sent: nothing changes for those before it.
LEMMA EmitStep ==
  ASSUME IInv, NEW p \in PRs, NEW change \in Changes, NEW commit \in 1..MaxCommit,
         NEW q \in PullRequest, q.state # "none", Emit(p, change, commit, q)
  PROVE  IInv'
<1>. DEFINE n == sent + 1
            v == [pr |-> p, change |-> change, commit |-> commit,
                  state |-> q.state, draft |-> q.draft, target |-> q.target, review |-> q.review]
            w == [scans |-> Submitted, calm |-> Active = {} /\ \A i \in Events : scan[i] # "running"]
<1>0. /\ TypeOK /\ HandlerInv /\ SeenInv /\ SearchInv /\ TagsOfOwnPR
      /\ sent \in 0..MaxEvents /\ MaxEvents \in Nat /\ sent < MaxEvents /\ sent' = n
      /\ event' = Add(event, n, v) /\ seen' = Add(seen, n, w)
      /\ pr' = [pr EXCEPT ![p] = q] /\ head' = commit /\ pc' = [pc EXCEPT ![n] = "received"]
      /\ UNCHANGED <<scm, scan, tags, todo, feedback, lost>>
  BY LifecycleConstants DEF IInv, TypeOK, Emit
<1>1. n \in Events /\ n \notin 1..sent /\ 1..n = (1..sent) \cup {n} /\ n > sent /\ 1..sent \subseteq Events
  BY <1>0 DEF Events
<1>2. v \in Payload
  BY DEF Payload, PullRequest
<1>3. w \in [scans : SUBSET Events, calm : BOOLEAN] /\ w.scans = Submitted
  BY DEF Submitted
<1>. HIDE DEF v, w
<1>4. /\ event' \in [1..n -> Payload] /\ event'[n] = v /\ \A x \in 1..sent : event'[x] = event[x]
      /\ seen' \in [1..n -> [scans : SUBSET Events, calm : BOOLEAN]] /\ seen'[n] = w
      /\ \A x \in 1..sent : seen'[x] = seen[x]
  <2>1. event \in [1..sent -> Payload] /\ seen \in [1..sent -> [scans : SUBSET Events, calm : BOOLEAN]]
    BY <1>0 DEF TypeOK
  <2>. HIDE DEF n
  <2>. QED
    BY <1>0, <1>1, <1>2, <1>3, <2>1 DEF Add
<1>5. /\ pc \in [Events -> Steps] /\ pc' \in [Events -> Steps] /\ pc'[n] = "received" /\ pc[n] = "unsent"
      /\ \A f \in Events \ {n} : pc'[f] = pc[f]
      /\ \A f \in Events : pc[f] = "unsent" <=> f > sent
  BY <1>0, <1>1 DEF TypeOK, Steps
<1>6. Submitted' = Submitted /\ Submitted \subseteq 1..sent
  <2>1. \A f \in Submitted : f \in Events /\ pc[f] # "unsent"
    BY <1>0 DEF Submitted, HandlerInv
  <2>2. \A f \in Submitted : f \in 1..sent
    BY <1>0, <2>1, EventTypes
  <2>. QED
    BY <1>0, <2>2 DEF Submitted
<1>. HIDE DEF n
<1>7. \A x, y \in 1..sent : (SamePRCommit(x, y)' <=> SamePRCommit(x, y)) /\ PRTags(x)' = PRTags(x)
  BY <1>0, <1>4 DEF SamePRCommit, PRTags
<1>8. TypeOK'
  <2>1. pr' \in [PRs -> PullRequest] /\ head' \in 1..MaxCommit /\ sent' \in 0..MaxEvents
    BY <1>0, <1>1 DEF TypeOK, n
  <2>2. \A f \in Events : pc'[f] = "unsent" <=> f > sent'
    BY <1>0, <1>1, <1>5 DEF n, Events
  <2>3. \A f \in Events : todo[f] # {} <=> pc'[f] = "updating"
    BY <1>0, <1>1, <1>5 DEF TypeOK
  <2>4. lost' \in SUBSET (1..sent')
    BY <1>0, <1>1 DEF TypeOK
  <2>. QED
    BY <1>0, <1>4, <1>5, <1>6, <2>1, <2>2, <2>3, <2>4 DEF TypeOK
<1>9. HandlerInv'
  <2>1. scan[n] = "none" /\ todo[n] = {}
    BY <1>0, <1>1, <1>5 DEF HandlerInv, TypeOK
  <2>2. ASSUME NEW f \in Events, NEW i \in todo'[f]
        PROVE  i \in Submitted' /\ SamePRCommit(i, f)'
    <3>1. i \in todo[f] /\ i \in Submitted /\ SamePRCommit(i, f) /\ pc[f] = "updating"
      BY <1>0, <2>2 DEF HandlerInv, TypeOK
    <3>2. f \in 1..sent /\ i \in 1..sent
      BY <1>0, <1>6, <3>1, EventTypes
    <3>. QED
      BY <1>6, <1>7, <3>1, <3>2
  <2>. QED
    BY <1>0, <1>5, <2>1, <2>2 DEF HandlerInv
<1>10. SeenInv'
  BY <1>0, <1>1, <1>3, <1>4, <1>6 DEF SeenInv
<1>11. SearchInv'
  <2>. SUFFICES ASSUME scm \in {"gl", "adoe"}, NEW f \in Events,
                       pc'[f] \in {"orchestrate", "delegated"} \/ scan'[f] # "none", NEW j \in seen'[f].scans
                PROVE  ~ SamePRCommit(f, j)'
    BY <1>0 DEF SearchInv
  <2>1. f # n /\ (pc[f] \in {"orchestrate", "delegated"} \/ scan[f] # "none") /\ pc[f] # "unsent"
    BY <1>0, <1>1, <1>5 DEF HandlerInv
  <2>2. f \in 1..sent
    BY <1>0, <2>1, EventTypes
  <2>3. j \in seen[f].scans /\ j \in 1..sent
    BY <1>0, <1>4, <1>6, <2>2 DEF SeenInv
  <2>. QED
    BY <1>0, <1>7, <2>1, <2>2, <2>3 DEF SearchInv
<1>12. TagsOfOwnPR'
  <2>. SUFFICES ASSUME NEW i \in Submitted
                PROVE  \E e \in 1..sent' : SamePRCommit(i, e)' /\ tags'[i] = PRTags(e)'
    BY <1>6 DEF TagsOfOwnPR
  <2>1. PICK e \in 1..sent : SamePRCommit(i, e) /\ tags[i] = PRTags(e)
    BY <1>0 DEF TagsOfOwnPR
  <2>. QED
    BY <1>0, <1>1, <1>6, <1>7, <2>1
<1>. QED
  BY <1>8, <1>9, <1>10, <1>11, <1>12 DEF IInv

\* Every change a user can make is one the SCM sends an event for.
LEMMA UserStep ==
  ASSUME IInv, NEW p \in PRs, UserActs(p)
  PROVE  IInv'
<1>0. /\ pr[p] \in PullRequest /\ head \in 1..MaxCommit /\ MaxCommit \in Nat
  BY LifecycleConstants DEF IInv, TypeOK
<1>1. CASE UserOpens(p)
  <2>1. PICK d \in BOOLEAN, b \in Branches :
          Emit(p, "open", head, [state |-> "open", draft |-> d, target |-> b, review |-> "unreviewed"])
    BY <1>1 DEF UserOpens
  <2>. DEFINE q == [state |-> "open", draft |-> d, target |-> b, review |-> "unreviewed"]
  <2>2. q \in PullRequest /\ q.state # "none" /\ "open" \in Changes
    BY DEF PullRequest, Reviews, Changes
  <2>. HIDE DEF q
  <2>. QED
    BY <1>0, <2>1, <2>2, EmitStep DEF q
<1>2. CASE UserPushes(p)
  <2>1. pr[p].state # "none" /\ head + 1 \in 1..MaxCommit /\ "push" \in Changes
    BY <1>0, <1>2 DEF UserPushes, Changes
  <2>. QED
    BY <1>0, <1>2, <2>1, EmitStep DEF UserPushes
<1>3. CASE UserDrafts(p)
  <2>. DEFINE q == [pr[p] EXCEPT !.draft = ~ @]
              c == IF pr[p].draft THEN "ready" ELSE "draft"
  <2>1. pr[p].state = "open" /\ Emit(p, c, head, q)
    BY <1>3 DEF UserDrafts
  <2>2. q \in PullRequest /\ q.state # "none" /\ c \in Changes
    BY <1>0, <2>1 DEF PullRequest, Changes
  <2>. HIDE DEF q, c
  <2>. QED
    BY <1>0, <2>1, <2>2, EmitStep
<1>4. CASE UserRetargets(p)
  <2>1. PICK b \in Branches : pr[p].state = "open" /\ Emit(p, "retarget", head, [pr[p] EXCEPT !.target = b])
    BY <1>4 DEF UserRetargets
  <2>. DEFINE q == [pr[p] EXCEPT !.target = b]
  <2>2. q \in PullRequest /\ q.state # "none" /\ "retarget" \in Changes
    BY <1>0, <2>1 DEF PullRequest, Changes
  <2>3. Emit(p, "retarget", head, q)
    BY <2>1
  <2>. HIDE DEF q
  <2>. QED
    BY <1>0, <2>2, <2>3, EmitStep
<1>5. CASE UserReviews(p)
  <2>. DEFINE q == [pr[p] EXCEPT !.review = "reviewed"]
  <2>1. pr[p].state = "open" /\ Emit(p, "review", head, q)
    BY <1>5 DEF UserReviews
  <2>2. q \in PullRequest /\ q.state # "none" /\ "review" \in Changes
    BY <1>0, <2>1 DEF PullRequest, Reviews, Changes
  <2>. HIDE DEF q
  <2>. QED
    BY <1>0, <2>1, <2>2, EmitStep
<1>6. CASE UserCloses(p)
  <2>. DEFINE q == [pr[p] EXCEPT !.state = "closed"]
  <2>1. Emit(p, "close", head, q)
    BY <1>6 DEF UserCloses
  <2>2. q \in PullRequest /\ q.state # "none" /\ "close" \in Changes
    BY <1>0 DEF PullRequest, Changes
  <2>. HIDE DEF q
  <2>. QED
    BY <1>0, <2>1, <2>2, EmitStep
<1>7. CASE UserReopens(p)
  <2>. DEFINE q == [pr[p] EXCEPT !.state = "open"]
  <2>1. Emit(p, "reopen", head, q)
    BY <1>7 DEF UserReopens
  <2>2. q \in PullRequest /\ q.state # "none" /\ "reopen" \in Changes
    BY <1>0 DEF PullRequest, Changes
  <2>. HIDE DEF q
  <2>. QED
    BY <1>0, <2>1, <2>2, EmitStep
<1>. QED
  BY <1>1, <1>2, <1>3, <1>4, <1>5, <1>6, <1>7 DEF UserActs
-----------------------------------------------------------------------------
(***************************************************************************)
(* The theorems.                                                           *)
(***************************************************************************)

\* The invariant holds at the start.
LEMMA InitIInv == Init => IInv
<1>. SUFFICES ASSUME Init
              PROVE  IInv
  OBVIOUS
<1>0. /\ scm \in SCMs /\ head = 1 /\ sent = 0 /\ event = <<>> /\ pc = [e \in Events |-> "unsent"]
      /\ scan = [e \in Events |-> "none"] /\ tags = <<>> /\ todo = [e \in Events |-> {}]
      /\ feedback = {} /\ lost = {} /\ seen = <<>>
  BY DEF Init
<1>1. Submitted = {} /\ 1..sent = {} /\ \A e \in Events : e > sent
  BY <1>0 DEF Submitted, Events
<1>2. pr \in [PRs -> PullRequest]
  <2>. DEFINE b == CHOOSE x \in Branches : TRUE
  <2>1. b \in Branches
    BY LifecycleConstants
  <2>2. pr = [p \in PRs |-> [state |-> "none", draft |-> FALSE, target |-> b, review |-> "unreviewed"]]
    BY DEF Init
  <2>. HIDE DEF b
  <2>3. [state |-> "none", draft |-> FALSE, target |-> b, review |-> "unreviewed"] \in PullRequest
    BY <2>1 DEF PullRequest, Reviews
  <2>. QED
    BY <2>2, <2>3
<1>3. \A S : <<>> \in [{} -> S]
  OBVIOUS
<1>4. head \in 1..MaxCommit /\ sent \in 0..MaxEvents
  BY <1>0, LifecycleConstants
<1>5. TypeOK
  BY <1>0, <1>1, <1>2, <1>3, <1>4 DEF TypeOK, Steps
<1>. QED
  BY <1>0, <1>1, <1>5 DEF IInv, HandlerInv, SeenInv, SearchInv, TagsOfOwnPR

\* Every step keeps it.
LEMMA NextIInv == IInv /\ [Next]_vars => IInv'
<1>. SUFFICES ASSUME IInv, [Next]_vars
              PROVE  IInv'
  OBVIOUS
<1>1. CASE UNCHANGED vars
  <2>1. UNCHANGED scmVars /\ UNCHANGED <<pc, scan, tags, todo, feedback, lost>> /\ Submitted' = Submitted
    BY <1>1 DEF vars, Submitted
  <2>2. scm' = scm /\ pr' = pr /\ head' = head /\ sent' = sent /\ event' = event /\ seen' = seen
    BY <2>1, ScmKept
  <2>3. TypeOK'
    BY <2>1, <2>2 DEF IInv, TypeOK
  <2>4. HandlerInv' /\ SeenInv' /\ SearchInv'
    BY <2>1, <2>2, ScmKept DEF IInv, HandlerInv, SeenInv, SearchInv
  <2>. QED
    BY <2>1, <2>3, <2>4, TagsKept DEF IInv
<1>2. ASSUME NEW p \in PRs, UserActs(p)
      PROVE  IInv'
  BY <1>2, UserStep
<1>3. ASSUME NEW e \in Events, ScanFinishes(e) \/ Progress(e) \/ FeedbackRefused(e) \/ HandlerFails(e)
      PROVE  IInv'
  BY <1>3, FinishStep, FailStep, DispatchStep, SubmitStep, StartStep, ListStep, UpdateStep DEF Progress
<1>4. ASSUME NEW e \in Events, NEW i \in Events, UpdateRefused(e, i)
      PROVE  IInv'
  BY <1>4, UpdateStep
<1>. QED
  BY <1>1, <1>2, <1>3, <1>4 DEF Next

\* The inductive invariant of the pull-request orchestration.
THEOREM LifecycleInvariant == Spec => []IInv
BY InitIInv, NextIInv, PTL DEF Spec

\* Types; a handler that has nothing left to update has ended, and feedback
\* is started only for scans that were submitted.
THEOREM LifecycleTypes == Spec => []TypeOK
<1>1. IInv => TypeOK
  BY DEF IInv
<1>. QED
  BY <1>1, LifecycleInvariant, PTL

\* Whatever the order of the handlers, the tags of a scan are a state of
\* its own pull request at the scanned commit (update_scan_pr_tags).
THEOREM TagsStayOwn == Spec => []TagsOfOwnPR
<1>1. IInv => TagsOfOwnPR
  BY DEF IInv
<1>. QED
  BY <1>1, LifecycleInvariant, PTL

\* Azure DevOps and GitLab never scan again a commit that had a scan of the
\* pull request when the event was sent (find_pr_scans).
THEOREM SearchPreventsRescan == Spec => []NoRescan
BY SearchEnough, LifecycleInvariant, PTL
=============================================================================
