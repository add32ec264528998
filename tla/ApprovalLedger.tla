--------------------------- MODULE ApprovalLedger ---------------------------
(***************************************************************************)
(* What the admin approval gate promises, without saying how.              *)
(*                                                                         *)
(* A ledger of requests and a registry of projects.  A request is asked    *)
(* for once and is settled at most once; it is settled as approved only    *)
(* when the registry already shows its effect.  While the gate is closed   *)
(* (`gated`) a project is registered or retired only on account of a       *)
(* request that was asked for.  AdminApproval, the orchestrator with its   *)
(* two stores that share no transaction, implements this module.           *)
(***************************************************************************)
CONSTANTS Requests, ProjectIds

VARIABLES
  status,     \* request -> its settlement
  project,    \* project id -> its place in the registry
  gated       \* are direct registry writes switched off?

vars == <<status, project, gated>>

Settled == {"approved_applied", "denied", "timeout"}

(* The registry shows what request k asks for. *)
Visible(k) == IF k.op = "add" THEN project[k.id] # "none"
                              ELSE project[k.id] = "archived"

(* Somebody asked for operation op on project id. *)
Asked(op, id) == \E k \in Requests : /\ k.op = op
                                     /\ k.id = id
                                     /\ status[k] # "absent"

Init ==
  /\ \A k \in Requests : status[k] \in {"absent", "pending_approval"}
  /\ \A id \in ProjectIds : project[id] \in {"none", "active"}
  /\ gated \in BOOLEAN

Ask(k) ==
  /\ status[k] = "absent"
  /\ status' = [status EXCEPT ![k] = "pending_approval"]
  /\ UNCHANGED <<project, gated>>

Register(id) ==
  /\ project[id] = "none"
  /\ gated => Asked("add", id)
  /\ project' = [project EXCEPT ![id] = "active"]
  /\ UNCHANGED <<status, gated>>

Retire(id) ==
  /\ project[id] = "active"
  /\ gated => Asked("archive", id)
  /\ project' = [project EXCEPT ![id] = "archived"]
  /\ UNCHANGED <<status, gated>>

Settle(k, s) ==
  /\ status[k] = "pending_approval"
  /\ s = "approved_applied" => Visible(k)
  /\ status' = [status EXCEPT ![k] = s]
  /\ UNCHANGED <<project, gated>>

Regate ==
  /\ gated' \in BOOLEAN
  /\ UNCHANGED <<status, project>>

Next ==
  \/ \E k \in Requests : Ask(k)
  \/ \E id \in ProjectIds : Register(id) \/ Retire(id)
  \/ \E k \in Requests, s \in Settled : Settle(k, s)
  \/ Regate

Spec == Init /\ [][Next]_vars
=============================================================================
