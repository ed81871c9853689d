---------------------------- MODULE PRDecoration ----------------------------
(***************************************************************************)
(* The handlers that decorate a pull request: process_pr_annotate for the   *)
(* "Scan Started" and error annotations and process_pr_feedback for the     *)
(* results, each looking for CxOneFlow's comment and then creating or       *)
(* updating it (exec_pr_decorate of the SCM service).  All scans of PRScans *)
(* are of one pull request, whose comments are thread, oldest first.        *)
(***************************************************************************)
EXTENDS Naturals, Sequences, FiniteSets, FiniteSetsExt, Topology, Broker

CONSTANTS PRScans, NoMessage,
          Annotators, Reporters,   \* handler slots of the two consumers
          SCMs,                    \* of "gh", "gl", "bbdc", "adoe"
          PageSize,                \* comments in one page of the SCM's API
          Tries,                   \* retries of the SCM's APISession
          MaxOthers,               \* bound: comments of other users
          MaxAway, MaxCleared,     \* bounds: of away and of cleared
          Faults,                  \* of these: "crash", "load", "scm", "repeat"
          MaxDisturb

VARIABLES msgs, disturb,           \* shared with ScanPolling
          scm,                     \* which SCM the service is for
          enabled,                 \* AbstractPRFeedbackWorkflow.is_enabled
          thread,                  \* the comments of the pull request
          away,                    \* those resolved, locked or deleted by users
          cleared,                 \* history: times the last own one was put away
          deco,                    \* the handlers
          shown,                   \* history: texts written for the scan
          lost                     \* history: scans whose outcome was dropped

Decorators == Annotators \cup Reporters
QueueOf(d) == IF d \in Annotators THEN PRAnnotating ELSE PRFeedback

Foreign == [scan |-> NoScan, text |-> "other", ver |-> 0]
DecoIdle == [pc |-> "idle", id |-> NoMessage, target |-> 0, ver |-> 0]

DecoInit ==
  /\ scm \in SCMs /\ enabled \in BOOLEAN
  /\ PRScans = {} => enabled                 \* it does not matter then
  /\ thread = <<>> /\ away = {} /\ cleared = 0
  /\ deco = [d \in Decorators |-> DecoIdle]
  /\ shown = [s \in PRScans |-> {}]
  /\ lost = {}

DecoTypeOK ==
  /\ \A n \in DOMAIN thread : thread[n].text \in {"other", "started", "results", "error"}
  /\ away \subseteq DOMAIN thread /\ cleared \in Nat
  /\ \A d \in Decorators : /\ deco[d].pc \in {"idle", "received", "found", "written"}
                           /\ deco[d].id \in MsgIds \cup {NoMessage}
                           /\ deco[d].target \in 0..Len(thread)
  /\ shown \in [PRScans -> SUBSET {"started", "results", "error"}]
  /\ lost \subseteq PRScans
-----------------------------------------------------------------------------
(* PullRequestDecoration.matches_identifier, or ADO's thread property.      *)
Own == { n \in DOMAIN thread : thread[n].text # "other" }

(* Bitbucket's search passes over a comment whose thread is resolved or     *)
(* that is not editable, ADO's over a thread that is deleted.               *)
Live == Own \ away

(* GitHub's page extractor reports a FULL page as the last one.             *)
FullPageIsLast == scm = "gh" /\ Len(thread) >= PageSize

(* The comments a search reads: all pages up to the last, by                *)
(* async_api_page_generator; GitLab's reads one page, newest first.         *)
Searched ==
  CASE FullPageIsLast -> 1..PageSize
    [] scm = "gl" /\ Len(thread) > PageSize -> (Len(thread) - PageSize + 1)..Len(thread)
    [] OTHER -> DOMAIN thread

Target_NeverFound == 0

(* Pages are popped from the end on GitHub, so the newest match wins; the   *)
(* others end at the oldest.                                                *)
Target ==
  IF Live \cap Searched = {} THEN 0
  ELSE IF scm = "gh" THEN Max(Live \cap Searched) ELSE Min(Live \cap Searched)
-----------------------------------------------------------------------------
DecoScan(d) == msgs[deco[d].id].scan
DecoText(d) == msgs[deco[d].id].text

OtherComment ==
  /\ Cardinality(DOMAIN thread \ Own) < MaxOthers
  /\ thread' = Append(thread, Foreign)
  /\ UNCHANGED <<msgs, disturb, scm, enabled, away, cleared, deco, shown, lost>>

UserActs == UNCHANGED <<msgs, disturb, scm, enabled, thread, deco, shown, lost>>

(* A user resolves the thread of a comment of CxOneFlow, or the account may *)
(* no longer edit it (Bitbucket), or the thread is deleted (ADO).           *)
PutAway(n) ==
  /\ scm \in {"bbdc", "adoe"} /\ n \in Live
  /\ Cardinality(away) < MaxAway /\ cleared < MaxCleared
  /\ away' = away \cup {n}
  /\ cleared' = IF Live = {n} THEN cleared + 1 ELSE cleared
  /\ UserActs

Reopen(n) ==
  /\ scm = "bbdc" /\ n \in away
  /\ away' = away \ {n}
  /\ UNCHANGED cleared /\ UserActs

DecoReceive(d, i) ==
  /\ deco[d].pc = "idle" /\ i \in Ready(msgs, QueueOf(d))
  /\ msgs' = Deliver(msgs, i)
  /\ deco' = [deco EXCEPT ![d] = [DecoIdle EXCEPT !.pc = "received", !.id = i]]
  /\ UNCHANGED <<disturb, scm, enabled, thread, away, cleared, shown, lost>>

DecoEnds(d) ==
  /\ msgs' = Ack(msgs, deco[d].id)
  /\ deco' = [deco EXCEPT ![d] = DecoIdle]
  /\ UNCHANGED <<disturb, scm, enabled, thread, away, cleared, shown>>

DecoDisabled(d) ==
  /\ deco[d].pc = "received" /\ ~enabled
  /\ DecoEnds(d) /\ UNCHANGED lost

DecoRetry_Acks(d) ==
  /\ "load" \in Faults
  /\ deco[d].pc = "received" /\ enabled
  /\ DecoEnds(d) /\ UNCHANGED lost

(* No inspector, no report in time, or a CxOneException of retrieve_report: *)
(* nack, which requeues.                                                    *)
DecoRetry(d) ==
  /\ "load" \in Faults
  /\ deco[d].pc = "received" /\ enabled
  /\ msgs' = Requeue(msgs, deco[d].id)
  /\ deco' = [deco EXCEPT ![d] = DecoIdle]
  /\ UNCHANGED <<disturb, scm, enabled, thread, away, cleared, shown, lost>>

LostNow(d) == IF DecoText(d) = "started" THEN {} ELSE {DecoScan(d)}

(* Any other exception, of CxOne, of the search or of the write: logged as  *)
(* unrecoverable and acknowledged.                                          *)
DecoAbort(d) ==
  /\ "scm" \in Faults
  /\ deco[d].pc \in {"received", "found"} /\ enabled
  /\ DecoEnds(d) /\ lost' = lost \cup LostNow(d)

DecoFind(d) ==
  /\ deco[d].pc = "received" /\ enabled
  /\ deco' = [deco EXCEPT ![d].pc = "found", ![d].target = Target,
                          ![d].ver = IF Target = 0 THEN 0 ELSE thread[Target].ver]
  /\ UNCHANGED <<msgs, disturb, scm, enabled, thread, away, cleared, shown, lost>>

Comment(d, v) == [scan |-> DecoScan(d), text |-> DecoText(d), ver |-> v]

Says(d) == shown' = [shown EXCEPT ![DecoScan(d)] = @ \cup {DecoText(d)}]

DecoWritten(d) ==
  /\ Says(d)
  /\ deco' = [deco EXCEPT ![d].pc = "written"]
  /\ UNCHANGED <<msgs, disturb, scm, enabled, away, cleared, lost>>

(* The SCM did the write, but exec raised: on 401 or 403, on a request      *)
(* without an answer, or when the last try was answered with an error.      *)
DecoUnheard(d) ==
  /\ Says(d)
  /\ msgs' = Ack(msgs, deco[d].id)
  /\ deco' = [deco EXCEPT ![d] = DecoIdle]
  /\ lost' = lost \cup LostNow(d)
  /\ UNCHANGED <<disturb, scm, enabled, away, cleared>>

(* APISession.exec posts a comment again when the answer is an error, which *)
(* does not mean that the SCM created none ("repeat").                      *)
Repeats == IF "repeat" \in Faults THEN Tries ELSE 1

Creates(d) ==
  /\ deco[d].pc = "found" /\ deco[d].target = 0
  /\ \E k \in 1..Repeats : thread' = thread \o [n \in 1..k |-> Comment(d, 0)]

DecoCreate(d) == Creates(d) /\ DecoWritten(d)

DecoCreateUnheard(d) == "repeat" \in Faults /\ Creates(d) /\ DecoUnheard(d)

(* Bitbucket refuses an update whose version is not the comment's.          *)
Conflict(d) == scm = "bbdc" /\ thread[deco[d].target].ver # deco[d].ver

DecoUpdate_Last(d) ==
  /\ deco[d].pc = "found" /\ deco[d].target # 0 /\ ~Conflict(d)
  /\ thread' = [thread EXCEPT ![Len(thread)] = Comment(d, IF scm = "bbdc" THEN deco[d].ver + 1 ELSE 0)]
  /\ DecoWritten(d)

Updates(d) ==
  /\ deco[d].pc = "found" /\ deco[d].target # 0 /\ ~Conflict(d)
  /\ thread' = [thread EXCEPT ![deco[d].target] = Comment(d, IF scm = "bbdc" THEN deco[d].ver + 1 ELSE 0)]

DecoUpdate(d) == Updates(d) /\ DecoWritten(d)

(* On Bitbucket also the try that follows: its version is the old one.      *)
DecoUpdateUnheard(d) == "repeat" \in Faults /\ Updates(d) /\ DecoUnheard(d)

(* The refused update exhausts exec's retries: an exception as any other.   *)
DecoConflict(d) ==
  /\ deco[d].pc = "found" /\ deco[d].target # 0 /\ Conflict(d)
  /\ DecoEnds(d) /\ lost' = lost \cup LostNow(d)

DecoAck(d) ==
  /\ deco[d].pc = "written"
  /\ DecoEnds(d) /\ UNCHANGED lost

DecoCrash(d) ==
  /\ "crash" \in Faults
  /\ deco[d].pc # "idle" /\ disturb[DecoScan(d)] < MaxDisturb
  /\ disturb' = [disturb EXCEPT ![DecoScan(d)] = @ + 1]
  /\ msgs' = Requeue(msgs, deco[d].id)
  /\ deco' = [deco EXCEPT ![d] = DecoIdle]
  /\ UNCHANGED <<scm, enabled, thread, away, cleared, shown, lost>>

DecoStep(d) ==
  \/ DecoDisabled(d) \/ DecoRetry(d) \/ DecoAbort(d) \/ DecoFind(d) \/ DecoCreate(d)
  \/ DecoCreateUnheard(d) \/ DecoUpdate(d) \/ DecoUpdateUnheard(d) \/ DecoConflict(d) \/ DecoAck(d)

DecoNext ==
  \/ OtherComment
  \/ \E n \in DOMAIN thread : PutAway(n) \/ Reopen(n)
  \/ \E d \in Decorators : DecoStep(d) \/ DecoCrash(d) \/ \E i \in MsgIds : DecoReceive(d, i)
=============================================================================
