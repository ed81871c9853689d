------------------------ MODULE ScanMonitorContract ------------------------
(***************************************************************************)
(* What the scan monitoring promises to the workflows: a scan under         *)
(* monitoring stays so until it is reported, which needs the scan to have   *)
(* ended, or abandoned, which needs its drop_by time to have passed.        *)
(***************************************************************************)
CONSTANT Scans

VARIABLES status,   \* of the monitoring of each scan
          ended,    \* the scans that have finished
          overdue   \* the scans whose drop_by time has passed

vars == <<status, ended, overdue>>

Init == status = [s \in Scans |-> "none"] /\ ended = {} /\ overdue = {}

End(s) ==
  /\ ended' = ended \cup {s}
  /\ UNCHANGED <<status, overdue>>

Overdue(s) ==
  /\ status[s] # "none"
  /\ overdue' = overdue \cup {s}
  /\ UNCHANGED <<status, ended>>

Begin(s) ==
  /\ status[s] = "none"
  /\ status' = [status EXCEPT ![s] = "monitoring"]
  /\ UNCHANGED <<ended, overdue>>

Report(s) ==
  /\ status[s] = "monitoring" /\ s \in ended
  /\ status' = [status EXCEPT ![s] = "reported"]
  /\ UNCHANGED <<ended, overdue>>

Abandon(s) ==
  /\ status[s] = "monitoring" /\ s \in overdue
  /\ status' = [status EXCEPT ![s] = "abandoned"]
  /\ UNCHANGED <<ended, overdue>>

Next == \E s \in Scans : End(s) \/ Overdue(s) \/ Begin(s) \/ Report(s) \/ Abandon(s)

Spec == Init /\ [][Next]_vars
=============================================================================
