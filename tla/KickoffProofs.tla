---------------------------- MODULE KickoffProofs ----------------------------
(***************************************************************************)
(* Proofs about Kickoff, for any requests, projects, workers and faults:    *)
(* its types, what clients may conclude from their answers, that a repeated *)
(* kickoff makes no new scan, and how far max-concurrent-scans is exceeded. *)
(***************************************************************************)
EXTENDS Kickoff, FiniteSetTheorems, TLAPS

(* Nothing has been done at CxOne for the request.                          *)
Untouched(r) == scan[r] = "none" /\ r \notin delegated

(* A client waits exactly while its request is queued or served, and a      *)
(* request is served before it has a scan: none is served again after it    *)
(* had one, so a scan's state never starts over.                            *)
RequestInv ==
  /\ \A k \in Kickoffs :
       /\ pc[k] # "ended"
       /\ pc[k] = "none" <=> client[k] # "sent"
       /\ client[k] \in {"ready", "sent", "sleeping", "exists", "toomany"} /\ pc[k] # "submitted"
            => Untouched(k)
       /\ pc[k] = "submitted" => scan[k] # "none"
  /\ \A r \in Pushes : pc[r] \in {"none", "orchestrate"} => Untouched(r)

(* The scans a kickoff found when accepted, and what it knows of them once  *)
(* both lists are read.                                                     *)
BeforeInv ==
  \A k \in Kickoffs : \A r \in before[k] :
    /\ pc[k] \in Serving => Project[r] = Project[k] /\ scan[r] # "none"
    /\ pc[k] \in {"clear", "orchestrate", "submitted"} => scan[r] = "failed"

(* The kickoffs that hold a slot: their scan runs, or nothing but a fault   *)
(* keeps them from submitting one.                                          *)
Cleared == { k \in Kickoffs : \/ pc[k] \in {"clear", "orchestrate"}
                              \/ pc[k] = "listed" /\ ~TooMany(listed[k]) }
Holding == { k \in Local : scan[k] = "running" }
Slots == Holding \cup Cleared

SlotsInv == Cardinality(InService) <= Workers /\ Cardinality(Slots) <= MaxScans + Workers - 1

IInv == TypeOK /\ RequestInv /\ BeforeInv /\ AnswerIsTrue /\ SlotsInv
-----------------------------------------------------------------------------
(* The number of kickoff scans that CxOne lists is one of the counter.      *)
LEMMA ListedType ==
  Cardinality(RunningKickoffs) \in 0..Cardinality(Kickoffs) /\ 0 \in 0..Cardinality(Kickoffs)
<1>1. RunningKickoffs \subseteq Kickoffs
  BY DEF RunningKickoffs
<1>2. /\ IsFiniteSet(RunningKickoffs)
      /\ Cardinality(RunningKickoffs) <= Cardinality(Kickoffs)
  BY <1>1, FS_Subset, KickoffAssumption
<1>3. Cardinality(RunningKickoffs) \in Nat /\ Cardinality(Kickoffs) \in Nat
  BY <1>2, FS_CardinalityType, KickoffAssumption
<1>. QED
  BY <1>2, <1>3

(* Every set of kickoffs is finite.                                         *)
LEMMA KickoffSets ==
  ASSUME NEW S, S \subseteq Kickoffs
  PROVE  IsFiniteSet(S) /\ Cardinality(S) \in Nat
BY FS_Subset, FS_CardinalityType, KickoffAssumption

(* The types of what a coroutine and its client keep.                       *)
LocalTypes ==
  /\ client \in [Kickoffs -> {"ready", "sent", "sleeping"} \cup Answers]
  /\ retried \in [Kickoffs -> BOOLEAN]
  /\ pc \in [Requests -> {"none", "queued", "ended"} \cup Serving]
  /\ listed \in [Kickoffs -> 0..Cardinality(Kickoffs)]
  /\ authFails \in [Requests -> 0..1]
  /\ before \in [Kickoffs -> SUBSET Requests]

(* A response to a client respects them.                                    *)
LEMMA RespondTypes ==
  ASSUME TypeOK, NEW k \in Kickoffs, NEW answer \in Answers \cup {"sleeping"}, Respond(k, answer)
  PROVE  LocalTypes'
<1>1. retried' \in [Kickoffs -> BOOLEAN]
  BY DEF Respond, TypeOK
<1>2. k \in Requests
  BY DEF Requests
<1>. QED
  BY <1>1, <1>2, ListedType DEF Respond, TypeOK, LocalTypes

(* So does the end of a request of either kind.                             *)
LEMMA EndsTypes ==
  ASSUME TypeOK, NEW r \in Requests, NEW answer \in Answers, Ends(r, answer)
  PROVE  LocalTypes'
<1>1. CASE r \in Kickoffs
  BY <1>1, RespondTypes DEF Ends
<1>2. CASE r \notin Kickoffs
  BY <1>2 DEF Ends, TypeOK, LocalTypes
<1>. QED
  BY <1>1, <1>2

(* Types are preserved.                                                     *)
LEMMA TypePreserved ==
  ASSUME TypeOK, Next
  PROVE  TypeOK'
<1>. USE KickoffAssumption, ListedType DEF TypeOK, Requests, Answers, Serving
<1>1. ASSUME NEW k \in Kickoffs, Send(k)
      PROVE  TypeOK'
  BY <1>1 DEF Send
<1>2. ASSUME NEW k \in Kickoffs, Accept(k)
      PROVE  TypeOK'
  BY <1>2 DEF Accept, Live
<1>3. ASSUME NEW k \in Kickoffs, ListRunning(k)
      PROVE  TypeOK'
  BY <1>3 DEF ListRunning, RunningKickoffs
<1>4. ASSUME NEW k \in Kickoffs, ScanExists(k)
      PROVE  TypeOK'
  BY <1>4, RespondTypes DEF ScanExists, LocalTypes
<1>5. ASSUME NEW k \in Kickoffs, TooManyScans(k)
      PROVE  TypeOK'
  BY <1>5, RespondTypes DEF TooManyScans, LocalTypes
<1>6. ASSUME NEW k \in Kickoffs, BranchClear(k)
      PROVE  TypeOK'
  BY <1>6 DEF BranchClear, OneScanExists, Live
<1>7. ASSUME NEW k \in Kickoffs, ProjectClear(k)
      PROVE  TypeOK'
  BY <1>7 DEF ProjectClear
<1>8. ASSUME NEW k \in Kickoffs, Unauthorized(k)
      PROVE  TypeOK'
  <2>1. CASE retried[k]
    BY <1>8, <2>1, RespondTypes DEF Unauthorized, LocalTypes
  <2>2. CASE ~retried[k]
    BY <1>8, <2>2 DEF Unauthorized
  <2>. QED
    BY <2>1, <2>2
<1>9. ASSUME NEW k \in Kickoffs, NoRoute(k)
      PROVE  TypeOK'
  BY <1>9, RespondTypes DEF NoRoute, LocalTypes
<1>10. ASSUME NEW r \in Requests, PushEvent(r)
      PROVE  TypeOK'
  BY <1>10 DEF PushEvent
<1>11. ASSUME NEW r \in Requests, Delegate(r)
      PROVE  TypeOK'
  BY <1>11, EndsTypes DEF Delegate, LocalTypes
<1>12. ASSUME NEW r \in Requests, SubmitScan(r)
      PROVE  TypeOK'
  BY <1>12 DEF SubmitScan, Locally
<1>13. ASSUME NEW r \in Requests, StartFeedback(r)
      PROVE  TypeOK'
  BY <1>13, EndsTypes DEF StartFeedback, LocalTypes
<1>14. ASSUME NEW r \in Requests, CloneAuthFails(r)
      PROVE  TypeOK'
  <2>1. CASE authFails[r] = 0
    BY <1>14, <2>1 DEF CloneAuthFails
  <2>2. CASE authFails[r] # 0
    BY <1>14, <2>2, EndsTypes DEF CloneAuthFails, LocalTypes
  <2>. QED
    BY <2>1, <2>2
<1>15. ASSUME NEW r \in Requests, ServiceFails(r)
      PROVE  TypeOK'
  BY <1>15, EndsTypes DEF ServiceFails, LocalTypes
<1>16. ASSUME NEW r \in Requests, AgentScans(r)
      PROVE  TypeOK'
  BY <1>16 DEF AgentScans
<1>17. ASSUME NEW r \in Requests, ScanFinishes(r)
      PROVE  TypeOK'
  BY <1>17 DEF ScanFinishes
<1>. QED
  BY <1>1, <1>2, <1>3, <1>4, <1>5, <1>6, <1>7, <1>8, <1>9, <1>10, <1>11, <1>12, <1>13, <1>14, <1>15, <1>16, <1>17 DEF Next, Served, Scanned

(* The stages of a request are preserved.                                   *)
LEMMA RequestPreserved ==
  ASSUME TypeOK, RequestInv, Next
  PROVE  RequestInv'
<1>. USE KickoffAssumption DEF TypeOK, RequestInv, Untouched, Requests, Answers, Serving
<1>1. ASSUME NEW k \in Kickoffs, Send(k)
      PROVE  RequestInv'
  BY <1>1 DEF Send
<1>2. ASSUME NEW k \in Kickoffs, Accept(k)
      PROVE  RequestInv'
  BY <1>2 DEF Accept, Live
<1>3. ASSUME NEW k \in Kickoffs, ListRunning(k)
      PROVE  RequestInv'
  BY <1>3 DEF ListRunning, RunningKickoffs
<1>4. ASSUME NEW k \in Kickoffs, ScanExists(k)
      PROVE  RequestInv'
  BY <1>4 DEF ScanExists, Respond, OneScanExists, CompletedKickoff, Live
<1>5. ASSUME NEW k \in Kickoffs, TooManyScans(k)
      PROVE  RequestInv'
  BY <1>5 DEF TooManyScans, Respond
<1>6. ASSUME NEW k \in Kickoffs, BranchClear(k)
      PROVE  RequestInv'
  BY <1>6 DEF BranchClear, OneScanExists, Live
<1>7. ASSUME NEW k \in Kickoffs, ProjectClear(k)
      PROVE  RequestInv'
  BY <1>7 DEF ProjectClear
<1>8. ASSUME NEW k \in Kickoffs, Unauthorized(k)
      PROVE  RequestInv'
  BY <1>8 DEF Unauthorized, Respond
<1>9. ASSUME NEW k \in Kickoffs, NoRoute(k)
      PROVE  RequestInv'
  BY <1>9 DEF NoRoute, Respond
<1>10. ASSUME NEW r \in Requests, PushEvent(r)
      PROVE  RequestInv'
  BY <1>10 DEF PushEvent
<1>11. ASSUME NEW r \in Requests, Delegate(r)
      PROVE  RequestInv'
  BY <1>11 DEF Delegate, Ends, Respond
<1>12. ASSUME NEW r \in Requests, SubmitScan(r)
      PROVE  RequestInv'
  BY <1>12 DEF SubmitScan, Locally
<1>13. ASSUME NEW r \in Requests, StartFeedback(r)
      PROVE  RequestInv'
  BY <1>13 DEF StartFeedback, Ends, Respond
<1>14. ASSUME NEW r \in Requests, CloneAuthFails(r)
      PROVE  RequestInv'
  BY <1>14 DEF CloneAuthFails, Ends, Respond, CloneAuthException, Locally
<1>15. ASSUME NEW r \in Requests, ServiceFails(r)
      PROVE  RequestInv'
  BY <1>15 DEF ServiceFails, Ends, Respond
<1>16. ASSUME NEW r \in Requests, AgentScans(r)
      PROVE  RequestInv'
  BY <1>16 DEF AgentScans
<1>17. ASSUME NEW r \in Requests, ScanFinishes(r)
      PROVE  RequestInv'
  BY <1>17 DEF ScanFinishes
<1>. QED
  BY <1>1, <1>2, <1>3, <1>4, <1>5, <1>6, <1>7, <1>8, <1>9, <1>10, <1>11, <1>12, <1>13, <1>14, <1>15, <1>16, <1>17 DEF Next, Served, Scanned

(* What a kickoff knows of earlier scans is preserved: a kickoff whose      *)
(* lists show no live scan of the project had only failed ones before.      *)
LEMMA BeforePreserved ==
  ASSUME TypeOK, RequestInv, BeforeInv, Next
  PROVE  BeforeInv'
<1>. USE KickoffAssumption DEF TypeOK, RequestInv, BeforeInv, Untouched, Requests, Answers, Serving
<1>1. ASSUME NEW k \in Kickoffs, Send(k)
      PROVE  BeforeInv'
  BY <1>1 DEF Send
<1>2. ASSUME NEW k \in Kickoffs, Accept(k)
      PROVE  BeforeInv'
  BY <1>2 DEF Accept, Live
<1>3. ASSUME NEW k \in Kickoffs, ListRunning(k)
      PROVE  BeforeInv'
  BY <1>3 DEF ListRunning, RunningKickoffs
<1>4. ASSUME NEW k \in Kickoffs, ScanExists(k)
      PROVE  BeforeInv'
  BY <1>4 DEF ScanExists, Respond, OneScanExists, CompletedKickoff, Live
<1>5. ASSUME NEW k \in Kickoffs, TooManyScans(k)
      PROVE  BeforeInv'
  BY <1>5 DEF TooManyScans, Respond
<1>6. ASSUME NEW k \in Kickoffs, BranchClear(k)
      PROVE  BeforeInv'
  BY <1>6 DEF BranchClear, OneScanExists, Live
<1>7. ASSUME NEW k \in Kickoffs, ProjectClear(k)
      PROVE  BeforeInv'
  BY <1>7 DEF ProjectClear
<1>8. ASSUME NEW k \in Kickoffs, Unauthorized(k)
      PROVE  BeforeInv'
  BY <1>8 DEF Unauthorized, Respond
<1>9. ASSUME NEW k \in Kickoffs, NoRoute(k)
      PROVE  BeforeInv'
  BY <1>9 DEF NoRoute, Respond
<1>10. ASSUME NEW r \in Requests, PushEvent(r)
      PROVE  BeforeInv'
  BY <1>10 DEF PushEvent
<1>11. ASSUME NEW r \in Requests, Delegate(r)
      PROVE  BeforeInv'
  BY <1>11 DEF Delegate, Ends, Respond
<1>12. ASSUME NEW r \in Requests, SubmitScan(r)
      PROVE  BeforeInv'
  BY <1>12 DEF SubmitScan, Locally
<1>13. ASSUME NEW r \in Requests, StartFeedback(r)
      PROVE  BeforeInv'
  BY <1>13 DEF StartFeedback, Ends, Respond
<1>14. ASSUME NEW r \in Requests, CloneAuthFails(r)
      PROVE  BeforeInv'
  BY <1>14 DEF CloneAuthFails, Ends, Respond, CloneAuthException, Locally
<1>15. ASSUME NEW r \in Requests, ServiceFails(r)
      PROVE  BeforeInv'
  BY <1>15 DEF ServiceFails, Ends, Respond
<1>16. ASSUME NEW r \in Requests, AgentScans(r)
      PROVE  BeforeInv'
  BY <1>16 DEF AgentScans
<1>17. ASSUME NEW r \in Requests, ScanFinishes(r)
      PROVE  BeforeInv'
  BY <1>17 DEF ScanFinishes
<1>. QED
  BY <1>1, <1>2, <1>3, <1>4, <1>5, <1>6, <1>7, <1>8, <1>9, <1>10, <1>11, <1>12, <1>13, <1>14, <1>15, <1>16, <1>17 DEF Next, Served, Scanned

(* Answers stay true.                                                       *)
LEMMA AnswerPreserved ==
  ASSUME TypeOK, RequestInv, AnswerIsTrue, Next
  PROVE  AnswerIsTrue'
<1>. USE KickoffAssumption DEF TypeOK, RequestInv, AnswerIsTrue, Local, Untouched, Requests, Answers, Serving
<1>1. ASSUME NEW k \in Kickoffs, Send(k)
      PROVE  AnswerIsTrue'
  BY <1>1 DEF Send
<1>2. ASSUME NEW k \in Kickoffs, Accept(k)
      PROVE  AnswerIsTrue'
  BY <1>2 DEF Accept, Live
<1>3. ASSUME NEW k \in Kickoffs, ListRunning(k)
      PROVE  AnswerIsTrue'
  BY <1>3 DEF ListRunning, RunningKickoffs
<1>4. ASSUME NEW k \in Kickoffs, ScanExists(k)
      PROVE  AnswerIsTrue'
  BY <1>4 DEF ScanExists, Respond, OneScanExists, CompletedKickoff, Live
<1>5. ASSUME NEW k \in Kickoffs, TooManyScans(k)
      PROVE  AnswerIsTrue'
  BY <1>5 DEF TooManyScans, Respond
<1>6. ASSUME NEW k \in Kickoffs, BranchClear(k)
      PROVE  AnswerIsTrue'
  BY <1>6 DEF BranchClear, OneScanExists, Live
<1>7. ASSUME NEW k \in Kickoffs, ProjectClear(k)
      PROVE  AnswerIsTrue'
  BY <1>7 DEF ProjectClear
<1>8. ASSUME NEW k \in Kickoffs, Unauthorized(k)
      PROVE  AnswerIsTrue'
  BY <1>8 DEF Unauthorized, Respond
<1>9. ASSUME NEW k \in Kickoffs, NoRoute(k)
      PROVE  AnswerIsTrue'
  BY <1>9 DEF NoRoute, Respond
<1>10. ASSUME NEW r \in Requests, PushEvent(r)
      PROVE  AnswerIsTrue'
  BY <1>10 DEF PushEvent
<1>11. ASSUME NEW r \in Requests, Delegate(r)
      PROVE  AnswerIsTrue'
  BY <1>11 DEF Delegate, Ends, Respond
<1>12. ASSUME NEW r \in Requests, SubmitScan(r)
      PROVE  AnswerIsTrue'
  BY <1>12 DEF SubmitScan, Locally
<1>13. ASSUME NEW r \in Requests, StartFeedback(r)
      PROVE  AnswerIsTrue'
  BY <1>13 DEF StartFeedback, Ends, Respond
<1>14. ASSUME NEW r \in Requests, CloneAuthFails(r)
      PROVE  AnswerIsTrue'
  BY <1>14 DEF CloneAuthFails, Ends, Respond, CloneAuthException, Locally
<1>15. ASSUME NEW r \in Requests, ServiceFails(r)
      PROVE  AnswerIsTrue'
  BY <1>15 DEF ServiceFails, Ends, Respond
<1>16. ASSUME NEW r \in Requests, AgentScans(r)
      PROVE  AnswerIsTrue'
  BY <1>16 DEF AgentScans
<1>17. ASSUME NEW r \in Requests, ScanFinishes(r)
      PROVE  AnswerIsTrue'
  BY <1>17 DEF ScanFinishes
<1>. QED
  BY <1>1, <1>2, <1>3, <1>4, <1>5, <1>6, <1>7, <1>8, <1>9, <1>10, <1>11, <1>12, <1>13, <1>14, <1>15, <1>16, <1>17 DEF Next, Served, Scanned

-----------------------------------------------------------------------------
(***************************************************************************)
(* The concurrency bound.                                                   *)
(***************************************************************************)

(* A step that lets no kickoff into service and gives none a slot keeps the *)
(* bounds.                                                                  *)
LEMMA SlotsShrink ==
  ASSUME SlotsInv, InService' \subseteq InService, Slots' \subseteq Slots
  PROVE  SlotsInv'
<1>1. Slots \subseteq Kickoffs /\ InService \subseteq Kickoffs
  BY DEF Slots, Holding, Cleared, Local, InService
<1>2. /\ IsFiniteSet(Slots) /\ Cardinality(Slots) \in Nat /\ Cardinality(Slots') \in Nat
      /\ IsFiniteSet(InService) /\ Cardinality(InService) \in Nat /\ Cardinality(InService') \in Nat
  BY <1>1, KickoffSets
<1>3. Cardinality(Slots') <= Cardinality(Slots) /\ Cardinality(InService') <= Cardinality(InService)
  BY <1>2, FS_Subset
<1>. QED
  BY <1>2, <1>3, KickoffAssumption DEF SlotsInv

(* Slots are taken only by a kickoff that has read a list with room in it:  *)
(* then the slots held are of scans in that list, or of kickoffs in service.*)
LEMMA SlotTaken ==
  ASSUME TypeOK, SlotsInv, NEW k \in Kickoffs, ListRunning(k)
  PROVE  SlotsInv'
<1>1. InService' = InService
  BY DEF TypeOK, ListRunning, InService, Serving, Requests
<1>2. CASE TooMany(Cardinality(RunningKickoffs))
  <2>1. Slots' \subseteq Slots
    BY <1>2 DEF TypeOK, ListRunning, Slots, Holding, Cleared, Local, Requests
  <2>. QED
    BY <1>1, <2>1, SlotsShrink
<1>3. CASE ~TooMany(Cardinality(RunningKickoffs))
  <2>1. Slots' \subseteq RunningKickoffs \cup InService
    BY DEF TypeOK, ListRunning, Slots, Holding, Cleared, Local, RunningKickoffs, InService, Serving, Requests
  <2>2. /\ IsFiniteSet(RunningKickoffs) /\ Cardinality(RunningKickoffs) \in Nat
        /\ IsFiniteSet(InService) /\ Cardinality(InService) \in Nat
    BY KickoffSets DEF RunningKickoffs, InService
  <2>3. Cardinality(RunningKickoffs) <= MaxScans - 1
    BY <1>3, <2>2, KickoffAssumption DEF TooMany
  <2>4. /\ IsFiniteSet(RunningKickoffs \cup InService)
        /\ IsFiniteSet(RunningKickoffs \cap InService)
        /\ Cardinality(RunningKickoffs \cup InService)
             = Cardinality(RunningKickoffs) + Cardinality(InService) - Cardinality(RunningKickoffs \cap InService)
    BY <2>2, FS_Union, FS_Intersection
  <2>5. Cardinality(RunningKickoffs \cup InService) \in Nat /\ Cardinality(RunningKickoffs \cap InService) \in Nat
    BY <2>4, FS_CardinalityType
  <2>6. Cardinality(Slots') \in Nat /\ Cardinality(Slots') <= Cardinality(RunningKickoffs \cup InService)
    BY <2>1, <2>4, FS_Subset, FS_CardinalityType
  <2>. QED
    BY <1>1, <2>2, <2>3, <2>4, <2>5, <2>6, KickoffAssumption DEF SlotsInv
<1>. QED
  BY <1>2, <1>3

(* The bounds on kickoffs in service and on slots are preserved.            *)
LEMMA SlotsPreserved ==
  ASSUME TypeOK, RequestInv, SlotsInv, Next
  PROVE  SlotsInv'
<1>. USE KickoffAssumption DEF TypeOK, RequestInv, Untouched, Requests, Answers, Serving
<1>1. ASSUME NEW k \in Kickoffs, Send(k)
      PROVE  SlotsInv'
  <2>1. InService' \subseteq InService /\ Slots' \subseteq Slots
    BY <1>1 DEF Send, Slots, Holding, Cleared, Local, InService
  <2>. QED
    BY <2>1, SlotsShrink
<1>2. ASSUME NEW k \in Kickoffs, Accept(k)
      PROVE  SlotsInv'
  <2>1. InService' = InService \cup {k} /\ Slots' \subseteq Slots
    BY <1>2 DEF Accept, InService, Serving, Slots, Holding, Cleared, Local
  <2>2. IsFiniteSet(InService) /\ IsFiniteSet(Slots) /\ k \notin InService
    BY <1>2, KickoffSets DEF Accept, InService, Serving, Slots, Holding, Cleared, Local
  <2>3. Cardinality(InService') = Cardinality(InService) + 1
    BY <2>1, <2>2, FS_AddElement
  <2>4. Cardinality(Slots') <= Cardinality(Slots)
    BY <2>1, <2>2, FS_Subset
  <2>5. Cardinality(InService) \in Nat /\ Cardinality(Slots) \in Nat /\ Cardinality(Slots') \in Nat
    BY <2>1, <2>2, FS_CardinalityType, FS_Subset
  <2>. QED
    BY <1>2, <2>3, <2>4, <2>5, KickoffAssumption DEF Accept, SlotsInv
<1>3. ASSUME NEW k \in Kickoffs, ListRunning(k)
      PROVE  SlotsInv'
  BY <1>3, SlotTaken
<1>4. ASSUME NEW k \in Kickoffs, ScanExists(k)
      PROVE  SlotsInv'
  <2>1. InService' \subseteq InService /\ Slots' \subseteq Slots
    BY <1>4 DEF ScanExists, Respond, OneScanExists, CompletedKickoff, Live, Slots, Holding, Cleared, Local, InService
  <2>. QED
    BY <2>1, SlotsShrink
<1>5. ASSUME NEW k \in Kickoffs, TooManyScans(k)
      PROVE  SlotsInv'
  <2>1. InService' \subseteq InService /\ Slots' \subseteq Slots
    BY <1>5 DEF TooManyScans, Respond, Slots, Holding, Cleared, Local, InService
  <2>. QED
    BY <2>1, SlotsShrink
<1>6. ASSUME NEW k \in Kickoffs, BranchClear(k)
      PROVE  SlotsInv'
  <2>1. InService' \subseteq InService /\ Slots' \subseteq Slots
    BY <1>6 DEF BranchClear, OneScanExists, Live, Slots, Holding, Cleared, Local, InService
  <2>. QED
    BY <2>1, SlotsShrink
<1>7. ASSUME NEW k \in Kickoffs, ProjectClear(k)
      PROVE  SlotsInv'
  <2>1. InService' \subseteq InService /\ Slots' \subseteq Slots
    BY <1>7 DEF ProjectClear, Slots, Holding, Cleared, Local, InService
  <2>. QED
    BY <2>1, SlotsShrink
<1>8. ASSUME NEW k \in Kickoffs, Unauthorized(k)
      PROVE  SlotsInv'
  <2>1. InService' \subseteq InService /\ Slots' \subseteq Slots
    BY <1>8 DEF Unauthorized, Respond, Slots, Holding, Cleared, Local, InService
  <2>. QED
    BY <2>1, SlotsShrink
<1>9. ASSUME NEW k \in Kickoffs, NoRoute(k)
      PROVE  SlotsInv'
  <2>1. InService' \subseteq InService /\ Slots' \subseteq Slots
    BY <1>9 DEF NoRoute, Respond, Slots, Holding, Cleared, Local, InService
  <2>. QED
    BY <2>1, SlotsShrink
<1>10. ASSUME NEW r \in Requests, PushEvent(r)
      PROVE  SlotsInv'
  <2>1. InService' \subseteq InService /\ Slots' \subseteq Slots
    BY <1>10 DEF PushEvent, Slots, Holding, Cleared, Local, InService
  <2>. QED
    BY <2>1, SlotsShrink
<1>11. ASSUME NEW r \in Requests, Delegate(r)
      PROVE  SlotsInv'
  <2>1. InService' \subseteq InService /\ Slots' \subseteq Slots
    BY <1>11 DEF Delegate, Ends, Respond, Slots, Holding, Cleared, Local, InService
  <2>. QED
    BY <2>1, SlotsShrink
<1>12. ASSUME NEW r \in Requests, SubmitScan(r)
      PROVE  SlotsInv'
  <2>1. InService' \subseteq InService /\ Slots' \subseteq Slots
    BY <1>12 DEF SubmitScan, Locally, Slots, Holding, Cleared, Local, InService
  <2>. QED
    BY <2>1, SlotsShrink
<1>13. ASSUME NEW r \in Requests, StartFeedback(r)
      PROVE  SlotsInv'
  <2>1. InService' \subseteq InService /\ Slots' \subseteq Slots
    BY <1>13 DEF StartFeedback, Ends, Respond, Slots, Holding, Cleared, Local, InService
  <2>. QED
    BY <2>1, SlotsShrink
<1>14. ASSUME NEW r \in Requests, CloneAuthFails(r)
      PROVE  SlotsInv'
  <2>1. InService' \subseteq InService /\ Slots' \subseteq Slots
    BY <1>14 DEF CloneAuthFails, Ends, Respond, CloneAuthException, Locally, Slots, Holding, Cleared, Local, InService
  <2>. QED
    BY <2>1, SlotsShrink
<1>15. ASSUME NEW r \in Requests, ServiceFails(r)
      PROVE  SlotsInv'
  <2>1. InService' \subseteq InService /\ Slots' \subseteq Slots
    BY <1>15 DEF ServiceFails, Ends, Respond, Slots, Holding, Cleared, Local, InService
  <2>. QED
    BY <2>1, SlotsShrink
<1>16. ASSUME NEW r \in Requests, AgentScans(r)
      PROVE  SlotsInv'
  <2>1. InService' \subseteq InService /\ Slots' \subseteq Slots
    BY <1>16 DEF AgentScans, Slots, Holding, Cleared, Local, InService
  <2>. QED
    BY <2>1, SlotsShrink
<1>17. ASSUME NEW r \in Requests, ScanFinishes(r)
      PROVE  SlotsInv'
  <2>1. InService' \subseteq InService /\ Slots' \subseteq Slots
    BY <1>17 DEF ScanFinishes, Slots, Holding, Cleared, Local, InService
  <2>. QED
    BY <2>1, SlotsShrink
<1>. QED
  BY <1>1, <1>2, <1>3, <1>4, <1>5, <1>6, <1>7, <1>8, <1>9, <1>10, <1>11, <1>12, <1>13, <1>14, <1>15, <1>16, <1>17 DEF Next, Served, Scanned

-----------------------------------------------------------------------------
(* The invariant holds before the first request.                            *)
LEMMA InitIInv == Init => IInv
<1>. SUFFICES ASSUME Init
              PROVE  IInv
  OBVIOUS
<1>1. TypeOK
  BY KickoffAssumption, ListedType DEF Init, TypeOK, Answers, Serving
<1>2. RequestInv /\ BeforeInv /\ AnswerIsTrue
  BY KickoffAssumption DEF Init, RequestInv, Untouched, BeforeInv, AnswerIsTrue, Local, Requests
<1>3. InService = {} /\ Slots = {}
  BY DEF Init, InService, Serving, Slots, Holding, Cleared, Local, Requests
<1>4. SlotsInv
  BY <1>3, FS_EmptySet, KickoffAssumption DEF SlotsInv
<1>. QED
  BY <1>1, <1>2, <1>4 DEF IInv

(* The inductive invariant of kickoffs.                                     *)
THEOREM KickoffInvariant == Spec => []IInv
<1>1. IInv /\ [Next]_vars => IInv'
  <2>. SUFFICES ASSUME IInv, [Next]_vars
                PROVE  IInv'
    OBVIOUS
  <2>1. CASE Next
    BY <2>1, TypePreserved, RequestPreserved, BeforePreserved, AnswerPreserved, SlotsPreserved DEF IInv
  <2>2. CASE UNCHANGED vars
    <3>1. TypeOK' /\ RequestInv' /\ BeforeInv' /\ AnswerIsTrue'
      BY <2>2 DEF vars, IInv, TypeOK, RequestInv, Untouched, BeforeInv, AnswerIsTrue, Local
    <3>2. InService' = InService /\ Slots' = Slots
      BY <2>2 DEF vars, InService, Slots, Holding, Cleared, Local, TooMany
    <3>. QED
      BY <3>1, <3>2 DEF IInv, SlotsInv
  <2>. QED
    BY <2>1, <2>2
<1>. QED
  BY InitIInv, <1>1, PTL DEF Spec

(* Kickoff's types, for every value of the constants: a clone is retried at *)
(* most once and a list of kickoff scans has no more of them than kickoffs. *)
THEOREM KickoffTypes == Spec => []TypeOK
<1>1. IInv => TypeOK
  BY DEF IInv
<1>. QED
  BY <1>1, KickoffInvariant, PTL

(* What a client may conclude from its answer: 299 only with a scan of      *)
(* another request for its project, 201 only with its own scan, whose       *)
(* feedback workflow was published or refused by the broker; and a scan     *)
(* made for a request answered neither 201 nor an error is still in service *)
(* or an agent's.                                                           *)
THEOREM AnswersAreTrue == Spec => []AnswerIsTrue
<1>1. IInv => AnswerIsTrue
  BY DEF IInv
<1>. QED
  BY <1>1, KickoffInvariant, PTL

(* A kickoff of a project that had a live scan when it was accepted submits *)
(* none, however its requests to CxOne interleave with other scans' ends.   *)
THEOREM RepeatsMakeNoScan == Spec => []NoRepeat
<1>1. IInv => NoRepeat
  BY DEF IInv, BeforeInv, NoRepeat
<1>. QED
  BY <1>1, KickoffInvariant, PTL

(* max-concurrent-scans is exceeded by at most the other workers, for any   *)
(* number of kickoffs, workers and slots.                                   *)
THEOREM ConcurrencyBounded == Spec => []ConcurrencyBound
<1>1. IInv => ConcurrencyBound
  <2>. SUFFICES ASSUME IInv
                PROVE  ConcurrencyBound
    OBVIOUS
  <2>1. Holding \subseteq Slots /\ Slots \subseteq Kickoffs
    BY DEF Slots, Holding, Cleared, Local
  <2>2. Cardinality(Holding) <= Cardinality(Slots) /\ Cardinality(Holding) \in Nat /\ Cardinality(Slots) \in Nat
    BY <2>1, KickoffSets, FS_Subset
  <2>. QED
    BY <2>2, KickoffAssumption DEF IInv, SlotsInv, ConcurrencyBound, Holding
<1>. QED
  BY <1>1, KickoffInvariant, PTL
=============================================================================
