--------------------------- MODULE FeedbackSystem ---------------------------
(***************************************************************************)
(* The workflow agents of spawn_agents: scan polling, pull-request          *)
(* annotation and feedback, and SARIF delivery, joined by the broker's      *)
(* queues.                                                                  *)
(***************************************************************************)
EXTENDS ScanPolling, Sequences

CONSTANTS Annotators, Reporters, SCMs, PageSize, Tries, MaxOthers, MaxAway, MaxCleared,
          Generators, HttpAgents, AmqpAgents, Retries

ASSUME SystemAssumption ==
  /\ IsFiniteSet(Annotators) /\ IsFiniteSet(Reporters)
  /\ PageSize \in Nat \ {0} /\ Tries \in Nat \ {0} /\ Retries \in Nat
  /\ MaxOthers \in Nat /\ MaxAway \in Nat /\ MaxCleared \in Nat

VARIABLES scm, enabled, thread, away, cleared, deco, shown, lost,
          sarifEnabled, gen, sarifs, undelivered

D == INSTANCE PRDecoration
G == INSTANCE SarifDelivery

decoVars == <<scm, enabled, thread, away, cleared, deco, shown, lost>>
sarifVars == <<sarifEnabled, gen, sarifs, undelivered>>
pollVars == <<scan, dropBy, start, poller, notified, stopped>>
sysVars == <<scan, dropBy, start, msgs, poller, notified, stopped, disturb,
             scm, enabled, thread, away, cleared, deco, shown, lost,
             sarifEnabled, gen, sarifs, undelivered>>

SysInit == Init /\ D!DecoInit /\ G!SarifInit

SysNext ==
  \/ Next /\ UNCHANGED <<decoVars, sarifVars>>
  \/ D!DecoNext /\ UNCHANGED <<pollVars, sarifVars>>
  \/ G!SarifNext /\ UNCHANGED <<pollVars, decoVars>>

SysSpec == SysInit /\ [][SysNext]_sysVars

(* As Fairness of ScanPolling, for the other two consumers, whose work for a *)
(* scan is finite: weak fairness of the delivery is enough.                 *)
Deco(A) == A /\ UNCHANGED <<pollVars, sarifVars>>
Sarif(A) == A /\ UNCHANGED <<pollVars, decoVars>>

SysFairness ==
  /\ Fairness
  /\ \A i \in MsgIds : /\ WF_sysVars(Deco(\E d \in D!Decorators : D!DecoReceive(d, i)))
                       /\ WF_sysVars(Sarif(\E g \in Generators : G!SarifReceive(g, i)))
  /\ \A d \in D!Decorators : WF_sysVars(Deco(D!DecoStep(d)))
  /\ \A g \in Generators : WF_sysVars(Sarif(G!SarifStep(g)))

FairSysSpec == SysSpec /\ SysFairness
-----------------------------------------------------------------------------
(* Types: in particular a comment of CxOneFlow has one of its three texts   *)
(* and no delivery is tried more than delivery-retries + 1 times.           *)
SysTypeOK == TypeOK /\ D!DecoTypeOK /\ G!SarifTypeOK

Started(s) == start[s] \in {"awaited", "done"}
Underway(s) == Active(s) # {} \/ \E i \in MsgIds : msgs[i].scan = s /\ msgs[i].text \in {"results", "error"}

(* End to end: unless a logged reason ended it, the outcome of a started    *)
(* pull-request scan is still under way in a queue or a handler, or has     *)
(* been written to the pull request.  No crash of an agent loses it.        *)
OutcomeReachesPR ==
  \A s \in PRScans : enabled /\ Started(s) /\ stopped[s] = {} /\ s \notin lost
                       => Underway(s) \/ shown[s] \cap {"results", "error"} # {}

(* exec_pr_decorate looks for the comment and writes it in two requests:    *)
(* concurrent handlers may each create one, as often as exec posts it, but  *)
(* no more comments are made than that, however many scans and redeliveries *)
(* there are, until users resolve or delete all the comments a search would *)
(* find: then as many can be made again.                                    *)
CommentsBounded ==
  Cardinality(D!Own) <= Cardinality(D!Decorators) * D!Repeats * (1 + cleared)

(* A comment of another user is never overwritten, although comments are    *)
(* added between the search and the write.                                  *)
ForeignUntouched ==
  [][\A n \in DOMAIN thread : thread[n].text = "other" => thread'[n] = thread[n]]_sysVars

(* A pull-request comment summarises the results: once all messages are     *)
(* handled a comment shows the results written last.                        *)
ResultsStayShown ==
  (\A i \in MsgIds : msgs[i].queue = NoQueue) =>
    \A s \in PRScans : "results" \in shown[s]
                         => \E n \in D!Own : thread[n].text = "results"

(* End to end for pushes: unless a logged reason ended it, the outcome is   *)
(* under way, or every delivery agent has delivered it or given up.         *)
OutcomeReachesAgents ==
  \A s \in PushScans : sarifEnabled /\ Started(s) /\ stopped[s] = {}
    => Underway(s) \/ \A a \in G!Agents : sarifs[s][a] > 0 \/ a \in undelivered[s]

(* An endpoint accepts the log of a scan once, and once more for every      *)
(* redelivery or duplicate on the way, never because of a retry.            *)
SarifBound ==
  \A s \in PushScans : \A a \in G!Agents : sarifs[s][a] <= 1 + disturb[s]

(* The outcome of a finished pull-request scan is written to the pull       *)
(* request, if no logged reason stops it, whichever agents crash.           *)
OutcomeShown ==
  \A s \in PRScans : Finished(s) ~>
    shown[s] \cap {"results", "error"} # {} \/ ~enabled \/ stopped[s] # {} \/ s \in lost

(* For pushes: every agent delivers the outcome or gives up.                *)
OutcomeDelivered ==
  \A s \in PushScans : Finished(s) ~>
    \/ \A a \in G!Agents : sarifs[s][a] > 0 \/ a \in undelivered[s]
    \/ ~sarifEnabled \/ stopped[s] # {}
=============================================================================
