---------------------------- MODULE AdminApproval ----------------------------
(***************************************************************************)
(* The admin-mutation approval gate: the JSON-RPC methods that record a    *)
(* PendingApproval, the orchestrator that applies it to ProjectRegistry,   *)
(* the two stores, and the legacy REST writes the gate replaces.           *)
(*                                                                         *)
(* A worker is the goroutine that serves one call.  Every backend call of  *)
(* a handler is a step of its own, so two clicks, a click and a timeout,   *)
(* or a crash can fall between fetchActive, apply and Transition, which    *)
(* the code runs against two backends with no common transaction.  Error   *)
(* values the properties do not tell apart are one outcome, "failed".      *)
(***************************************************************************)
EXTENDS Naturals

CONSTANTS
  Humans,       \* Slack user ids of people; the operator ids of /rpc are some of them
  Agents,       \* Slack user ids listed in SLACK_AI_AGENT_BOT_USER_IDS
  Nobody,       \* the empty EffectiveRequesterID of a migrated record
  ProjectIds,   \* project ids that occur in request bodies
  InvalidIds,   \* those ValidateProjectID rejects
  Requests,     \* idempotency keys: one per requester, operation and body
  Workers,      \* goroutines serving calls
  Nothing,      \* the absent key, timestamp or caller
  Backend,      \* "firestore" or "sqlite"
  MaxFaults     \* bound on failed backend calls and restarts

Users == Humans \cup Agents

ASSUME UsersAssumption ==
  /\ Humans \cap Agents = {}
  /\ Nobody \notin Users
ASSUME RequestsAssumption ==
  /\ Requests \subseteq [requester : Humans \cup {Nobody},
                         op : {"add", "archive"}, id : ProjectIds]
  /\ Nothing \notin Requests
ASSUME WorkersAssumption == Nothing \notin Workers
ASSUME BackendAssumption == Backend \in {"firestore", "sqlite"}
ASSUME FaultsAssumption == MaxFaults \in Nat

VARIABLES
  status,       \* PendingStore: key -> Status, "absent" when there is no record
  project,      \* ProjectRegistry: id -> "none", "active" or "archived"
  archivedAt,   \* ProjectRegistry: id -> the worker whose clock stamped archived_at
  posted,       \* key -> how often its approve / deny buttons were posted
  gated,        \* RUNOPS_RPC_HIGH_MUTATION_ENABLED of the serving revision
  faults,       \* failed calls and restarts so far
  pc,           \* worker -> the step it is about to take
  job,          \* worker -> the call it serves
  reply,        \* the last answer the gateway gave to a caller
  effects,      \* history: acks whose registry call returned without error
  stranded      \* history: keys applied whose Transition then failed

stores == <<status, project, archivedAt>>
history == <<effects, stranded>>
vars == <<stores, posted, gated, faults, pc, job, reply, history>>

TerminalStatus == {"approved_applied", "denied", "timeout"}
Status == {"absent", "pending_approval"} \cup TerminalStatus
Steps == {"publish", "apply", "archive_update", "approve", "deny", "timeout"}
Outcomes == {"ok", "pending_approval", "pending_missing", "already_terminal",
             "rejected", "already_exists", "failed"}
Calls == {"create", "ack", "deny", "timeout", "rest"}
Keys == Requests \cup {Nothing}
Jobs == [call : Calls, op : {"add", "archive"}, id : ProjectIds,
         key : Keys, by : Users \cup {Nothing}]
Replies == [call : Calls, key : Keys, seen : Status, outcome : Outcomes]

ForgetsTimeout(s) == s \in {"approved_applied", "denied"}      \* mutant
IsTerminal(s) == s \in TerminalStatus

ValidateProjectID(id) == id \notin InvalidIds

(***************************************************************************)
(* Starting, advancing and finishing a call.                               *)
(***************************************************************************)
Idle(w) == pc[w] = "idle"

Job(call, k, u) == [call |-> call, op |-> k.op, id |-> k.id, key |-> k, by |-> u]

Reply(call, k, seen, o) == [call |-> call, key |-> k, seen |-> seen, outcome |-> o]

Start(w, step, j) ==
  /\ Idle(w)
  /\ pc' = [pc EXCEPT ![w] = step]
  /\ job' = [job EXCEPT ![w] = j]
  /\ UNCHANGED reply

(* A call answered by its first step. *)
Answer(w, r) ==
  /\ Idle(w)
  /\ reply' = r
  /\ UNCHANGED <<pc, job>>

Goto(w, step) ==
  /\ pc' = [pc EXCEPT ![w] = step]
  /\ UNCHANGED <<job, reply>>

Finish(w, o) ==
  /\ pc' = [pc EXCEPT ![w] = "idle"]
  /\ job' = [job EXCEPT ![w] = Nothing]
  /\ reply' = Reply(job[w].call, job[w].key, "pending_approval", o)

(***************************************************************************)
(* /rpc runops.admin.project.add and .archive: createPending.              *)
(***************************************************************************)
(* CreateIfNotExists inserts the record; the buttons are posted next. *)
CreatePending(w, k) ==
  /\ gated
  /\ k.requester # Nobody
  /\ status[k] = "absent"
  /\ status' = [status EXCEPT ![k] = "pending_approval"]
  /\ Start(w, "publish", Job("create", k, Nothing))
  /\ UNCHANGED <<project, archivedAt, posted, gated, faults, history>>

DuplicatePostsAgain(w, k) ==      \* mutant: the duplicate is not told apart
  /\ gated /\ k.requester # Nobody /\ status[k] # "absent"
  /\ Start(w, "publish", Job("create", k, Nothing))
  /\ UNCHANGED <<stores, posted, gated, faults, history>>

(* ErrPendingAlreadyExists: no second post, and the answer is the constant
   pending_approval whatever status the stored record has. *)
CreateDuplicate(w, k) ==
  /\ gated
  /\ k.requester # Nobody
  /\ status[k] # "absent"
  /\ Answer(w, Reply("create", k, status[k], "pending_approval"))
  /\ UNCHANGED <<stores, posted, gated, faults, history>>

(* approvalPublisher.publish is best effort: it may post nothing. *)
Publish(w) ==
  /\ pc[w] = "publish"
  /\ \/ posted' = [posted EXCEPT ![job[w].key] = @ + 1]
     \/ UNCHANGED posted
  /\ Finish(w, "pending_approval")
  /\ UNCHANGED <<stores, gated, faults, history>>

(***************************************************************************)
(* The orchestrator.  fetchActive and the checks that follow it read one   *)
(* record and touch nothing else, so they are one step.                    *)
(***************************************************************************)
SelfApproves(k, u) == k.requester # Nobody /\ u \in Humans         \* mutant

Validate4Eyes(k, u) ==
  /\ k.requester # Nobody
  /\ u \in Humans
  /\ u # k.requester

(* What fetchActive and then the given check answer; "none" means go on. *)
FetchAndCheck(k, permitted) ==
  CASE status[k] = "absent"   -> "pending_missing"
    [] IsTerminal(status[k])  -> "already_terminal"
    [] status[k] = "pending_approval" /\ ~permitted -> "rejected"
    [] OTHER                  -> "none"

BeginCall(w, call, step, k, u, permitted) ==
  /\ LET answer == FetchAndCheck(k, permitted)
     IN IF answer = "none" THEN Start(w, step, Job(call, k, u))
                           ELSE Answer(w, Reply(call, k, status[k], answer))
  /\ UNCHANGED <<stores, posted, gated, faults, history>>

(* Mutant: Transition moved before apply. *)
AckBeforeApply(w, k, u) == BeginCall(w, "ack", "approve", k, u, Validate4Eyes(k, u))

OnApprovalAck(w, k, u) == BeginCall(w, "ack", "apply", k, u, Validate4Eyes(k, u))
OnApprovalDeny(w, k, u) == BeginCall(w, "deny", "deny", k, u, u \in Humans)
OnApprovalTimeout(w, k) == BeginCall(w, "timeout", "timeout", k, Nothing, TRUE)

(* Mutant: the ack answers after apply and never calls Transition. *)
AppliedIsEnough(w) ==
  /\ Finish(w, "ok")
  /\ effects' = effects \cup {[key |-> job[v].key, by |-> job[v].by] :
                               v \in {v \in {w} : job[v].call = "ack"}}
  /\ UNCHANGED faults

(* Firestore committed a write whose answer the deadline cut off. *)
AnswerLost(w) ==
  /\ Backend = "firestore"
  /\ faults < MaxFaults
  /\ faults' = faults + 1
  /\ Finish(w, "failed")

(* The registry changed.  When the call returns nil an ack goes on to
   Transition and a REST write answers its caller. *)
Applied(w) ==
  \/ /\ job[w].call = "ack"
     /\ Goto(w, "approve")
     /\ effects' = effects \cup {[key |-> job[w].key, by |-> job[w].by]}
     /\ UNCHANGED faults
  \/ /\ job[w].call = "rest"
     /\ Finish(w, "ok")
     /\ UNCHANGED <<effects, faults>>
  \/ /\ AnswerLost(w)
     /\ UNCHANGED effects

(* Add creates, it never overwrites: INSERT in SQLite, Create in Firestore. *)
NeverTaken(id) == FALSE      \* mutant: upsert
Taken(id) == project[id] # "none"

RegistryAdd(w) ==
  LET id == job[w].id IN
  /\ pc[w] = "apply"
  /\ job[w].op = "add"
  /\ IF ValidateProjectID(id) /\ ~Taken(id)
     THEN /\ project' = [project EXCEPT ![id] = "active"]
          /\ Applied(w)
     ELSE /\ Finish(w, IF Taken(id) THEN "already_exists" ELSE "failed")
          /\ UNCHANGED <<project, effects, faults>>
  /\ UNCHANGED <<status, archivedAt, posted, gated, stranded>>

(* SQLite's UPDATE sets COALESCE(archived_at, now), Firestore's sets now. *)
AlwaysNow(w, id) == w        \* mutant: COALESCE dropped
ArchiveTime(w, id) ==
  IF Backend = "sqlite" /\ archivedAt[id] # Nothing THEN archivedAt[id] ELSE w

Stamp(w, id) ==
  /\ project' = [project EXCEPT ![id] = "archived"]
  /\ archivedAt' = [archivedAt EXCEPT ![id] = ArchiveTime(w, id)]

(* First backend call of Archive: SQLite does everything in one UPDATE,
   Firestore reads the document and returns early when it is archived. *)
RegistryArchive(w) ==
  LET id == job[w].id IN
  /\ pc[w] = "apply"
  /\ job[w].op = "archive"
  /\ \/ /\ ~Taken(id)
        /\ Finish(w, "failed")
        /\ UNCHANGED <<project, archivedAt, effects, faults>>
     \/ /\ Backend = "sqlite" /\ Taken(id)
        /\ Stamp(w, id)
        /\ Applied(w)
     \/ /\ Backend = "firestore" /\ project[id] = "archived"
        /\ Applied(w)
        /\ UNCHANGED <<project, archivedAt>>
     \/ /\ Backend = "firestore" /\ project[id] = "active"
        /\ Goto(w, "archive_update")
        /\ UNCHANGED <<project, archivedAt, effects, faults>>
  /\ UNCHANGED <<status, posted, gated, stranded>>

(* Firestore's doc.Update, unconditional since the read. *)
FirestoreArchiveUpdate(w) ==
  /\ pc[w] = "archive_update"
  /\ Stamp(w, job[w].id)
  /\ Applied(w)
  /\ UNCHANGED <<status, posted, gated, stranded>>

(* PendingStore.Transition: terminal check and update in one transaction. *)
Misspelled(step) == IF step = "timeout" THEN "timed_out" ELSE step      \* mutant
Target(step) == CASE step = "approve" -> "approved_applied"
                  [] step = "deny"    -> "denied"
                  [] OTHER            -> "timeout"

Transition(w) ==
  LET k == job[w].key IN
  /\ pc[w] \in {"approve", "deny", "timeout"}
  /\ IF IsTerminal(status[k])
     THEN /\ Finish(w, "failed")
          /\ stranded' = IF pc[w] = "approve" THEN stranded \cup {k} ELSE stranded
          /\ UNCHANGED <<status, faults>>
     ELSE /\ status' = [status EXCEPT ![k] = Target(pc[w])]
          /\ \/ Finish(w, "ok") /\ UNCHANGED faults
             \/ AnswerLost(w)
          /\ UNCHANGED stranded
  /\ UNCHANGED <<project, archivedAt, posted, gated, effects>>

(***************************************************************************)
(* Legacy REST writes: straight to the registry, 410 Gone while gated.     *)
(***************************************************************************)
RestAlwaysOpen(w, op, id) ==      \* mutant: adminWriteDisabled not consulted
  /\ Start(w, "apply", [call |-> "rest", op |-> op, id |-> id, key |-> Nothing,
                        by |-> Nothing])
  /\ UNCHANGED <<stores, posted, gated, faults, history>>

RestWrite(w, op, id) ==
  /\ ~gated
  /\ Start(w, "apply", [call |-> "rest", op |-> op, id |-> id, key |-> Nothing,
                        by |-> Nothing])
  /\ UNCHANGED <<stores, posted, gated, faults, history>>

(***************************************************************************)
(* A backend call that fails or outlives the 25-minute context, and the    *)
(* end of the process: a new revision may start with the other flag.       *)
(***************************************************************************)
Approving == {w \in Workers : pc[w] = "approve"}

Fail(w) ==
  /\ faults < MaxFaults
  /\ pc[w] \notin {"idle", "publish"}      \* publish swallows its own failure
  /\ Finish(w, "failed")
  /\ stranded' = stranded \cup {job[v].key : v \in Approving \cap {w}}
  /\ faults' = faults + 1
  /\ UNCHANGED <<stores, posted, gated, effects>>

Restart ==
  /\ faults < MaxFaults
  /\ pc' = [w \in Workers |-> "idle"]
  /\ job' = [w \in Workers |-> Nothing]
  /\ stranded' = stranded \cup {job[v].key : v \in Approving}
  /\ gated' \in BOOLEAN
  /\ faults' = faults + 1
  /\ UNCHANGED reply
  /\ UNCHANGED <<stores, posted, effects>>

(***************************************************************************)
(* Specification.                                                          *)
(***************************************************************************)
Init ==
  /\ status \in [Requests -> {"absent", "pending_approval"}]
  /\ \A k \in Requests : k.requester # Nobody => status[k] = "absent"
  /\ project \in [ProjectIds -> {"none", "active"}]
  /\ \A id \in InvalidIds \cap ProjectIds : project[id] = "none"
  /\ archivedAt = [id \in ProjectIds |-> Nothing]
  /\ posted = [k \in Requests |-> 0]
  /\ gated \in BOOLEAN
  /\ faults = 0
  /\ pc = [w \in Workers |-> "idle"]
  /\ job = [w \in Workers |-> Nothing]
  /\ reply = Nothing
  /\ effects = {}
  /\ stranded = {}

(* What the goroutine serving a call does once the call has begun. *)
Work(w) == \/ Publish(w)
           \/ RegistryAdd(w)
           \/ RegistryArchive(w)
           \/ FirestoreArchiveUpdate(w)
           \/ Transition(w)

Arrive(w) ==
  \/ \E k \in Requests : \/ CreatePending(w, k)
                         \/ CreateDuplicate(w, k)
                         \/ OnApprovalTimeout(w, k)
  \/ \E k \in Requests, u \in Users : OnApprovalAck(w, k, u) \/ OnApprovalDeny(w, k, u)
  \/ \E op \in {"add", "archive"}, id \in ProjectIds : RestWrite(w, op, id)

Next == \/ \E w \in Workers : Arrive(w) \/ Work(w) \/ Fail(w)
        \/ Restart

Spec == Init /\ [][Next]_vars

(* A goroutine that serves a call keeps running; nobody has to call. *)
Fairness == \A w \in Workers : WF_vars(Work(w))
FairSpec == Spec /\ Fairness

(***************************************************************************)
(* Properties.                                                             *)
(***************************************************************************)
TypeOK ==
  /\ status \in [Requests -> Status]
  /\ project \in [ProjectIds -> {"none", "active", "archived"}]
  /\ archivedAt \in [ProjectIds -> Workers \cup {Nothing}]
  /\ posted \in [Requests -> Nat]
  /\ gated \in BOOLEAN
  /\ faults \in Nat
  /\ pc \in [Workers -> Steps \cup {"idle"}]
  /\ job \in [Workers -> Jobs \cup {Nothing}]
  /\ reply \in Replies \cup {Nothing}
  /\ effects \subseteq [key : Requests, by : Users]
  /\ stranded \subseteq Requests

Visible(k) == IF k.op = "add" THEN project[k.id] # "none"
                              ELSE project[k.id] = "archived"

(* ADR 0035 4-eyes: whatever interleaving of clicks, timeouts, retries and
   restarts led there, a mutation applied by OnApprovalAck was approved by a
   person who is not its requester, and its requester is known. *)
FourEyes ==
  \A e \in effects : /\ e.key.requester # Nobody
                     /\ e.by \in Humans
                     /\ e.by # e.key.requester

(* A record that says approved_applied speaks the truth about the other
   backend: the project exists, or is archived, whatever ran since. *)
ApprovedIsVisible ==
  \A k \in Requests : status[k] = "approved_applied" => Visible(k)

(* Two operators who request the same project, or two approvers who click at
   once, register it once: at most one ack of an add ever takes effect per
   project id. *)
AddOnce ==
  \A e, f \in effects :
    (e.key.op = "add" /\ f.key.op = "add" /\ e.key.id = f.key.id) => e = f

(* The "approved + apply" notice goes out only for a record that is, at that
   moment and ever after, approved_applied: an ack that lost the race against
   a deny or a timeout does not report success. *)
SuccessIsTruthful ==
  (reply # Nothing /\ reply.call = "ack" /\ reply.outcome = "ok")
     => status[reply.key] = "approved_applied"

(* Duplicate and concurrent mutation calls post one pair of buttons. *)
PostedAtMostOnce == \A k \in Requests : posted[k] <= 1

(* Terminal statuses admit no further transition, although every caller of
   Transition decided on a record it read earlier. *)
TerminalIsFinal ==
  [][\A k \in Requests : status[k] \in TerminalStatus => status'[k] = status[k]]_vars

(* Archive is idempotent: archived_at keeps the time of the first archive. *)
ArchivedAtStable ==
  [][\A id \in ProjectIds :
       archivedAt[id] # Nothing => archivedAt'[id] = archivedAt[id]]_vars

(* The stores, seen through their two main fields, behave as the ledger. *)
Ledger == INSTANCE ApprovalLedger
LedgerSpec == Ledger!Spec

(* Once an ack has changed the registry its record becomes terminal, unless
   some backend call fails or the process ends: the window between apply and
   Transition closes. *)
AppliedSettles ==
  \A k \in Requests :
    (\E e \in effects : e.key = k) ~> (status[k] \in TerminalStatus \/ faults > 0)

(***************************************************************************)
(* The inductive invariant.                                                *)
(***************************************************************************)
(* A worker in the middle of a call holds a job that fits its step, about a
   record that exists; an ack got there through validate4Eyes, and a REST
   write only while the gate is open. *)
JobInv ==
  \A w \in Workers : ~Idle(w) =>
    LET j == job[w] IN
    /\ j \in Jobs
    /\ j.call # "rest" => /\ j.key \in Requests
                          /\ j.op = j.key.op /\ j.id = j.key.id
                          /\ status[j.key] # "absent"
    /\ j.call = "rest" => ~gated
    /\ j.call = "ack" => Validate4Eyes(j.key, j.by)
    /\ pc[w] = "publish" => j.call = "create"
    /\ pc[w] \in {"apply", "archive_update"} => j.call \in {"ack", "rest"}
    /\ pc[w] = "approve" => j.call = "ack"
    /\ pc[w] \in {"deny", "timeout"} => j.call = pc[w]
    /\ pc[w] = "archive_update" => j.op = "archive" /\ project[j.id] # "none"

(* Between apply and Transition, and ever after, the registry shows what was
   applied. *)
EffectsVisible ==
  /\ \A w \in Workers : pc[w] = "approve" => Visible(job[w].key)
  /\ \A e \in effects : Visible(e.key)

(* Only the call that created a record posts its buttons. *)
PublishInv ==
  /\ \A k \in Requests : status[k] = "absent" => posted[k] = 0
  /\ \A w \in Workers : pc[w] = "publish" =>
       /\ posted[job[w].key] = 0
       /\ \A v \in Workers \ {w} :
            pc[v] = "publish" => job[v].key # job[w].key

IInv == /\ TypeOK
        /\ JobInv
        /\ EffectsVisible
        /\ FourEyes
        /\ AddOnce
        /\ ApprovedIsVisible
        /\ SuccessIsTruthful
        /\ PublishInv
        /\ PostedAtMostOnce
=============================================================================
