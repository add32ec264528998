------------------------ MODULE AdminApproval_proofs ------------------------
(***************************************************************************)
(* Proofs about AdminApproval for every set of people, agents, requests,   *)
(* projects and goroutines, either backend and any number of faults.       *)
(*                                                                         *)
(* IInv is inductive (InitIInv, one lemma per group of actions, StepIInv), *)
(* and every safety property of the module is a conjunct of it.  The       *)
(* refinement of ApprovalLedger follows from the same invariant.           *)
(***************************************************************************)
EXTENDS AdminApproval, TLAPS

(* A revision starts with no call in flight and no effect: IInv holds. *)
LEMMA InitIInv == Init => IInv
<1> SUFFICES ASSUME Init PROVE IInv
  OBVIOUS
<1>1. TypeOK
  BY DEF Init, TypeOK, Status
<1>2. JobInv /\ EffectsVisible /\ PublishInv /\ PostedAtMostOnce
  BY DEF Init, JobInv, EffectsVisible, PublishInv, PostedAtMostOnce, Idle
<1>3. FourEyes /\ AddOnce /\ SuccessIsTruthful
  BY DEF Init, FourEyes, AddOnce, SuccessIsTruthful
<1>4. ApprovedIsVisible
  BY DEF Init, ApprovedIsVisible
<1> QED
  BY <1>1, <1>2, <1>3, <1>4 DEF IInv

(* createPending inserts an absent record and only then goes on to publish, so
   the worker that posts is the only one for its key. *)
LEMMA StepCreatePending ==
  ASSUME IInv, NEW w \in Workers, NEW k \in Requests, CreatePending(w, k)
  PROVE  IInv'
<1> USE DEF IInv, CreatePending, Start, Job, Idle, stores, history
<1>1. TypeOK'
  BY RequestsAssumption DEF TypeOK, Status, Steps, Jobs, Keys, Calls
<1>2. JobInv'
  BY <1>1, RequestsAssumption DEF JobInv, TypeOK, Jobs, Keys, Calls, Validate4Eyes
<1>3. EffectsVisible' /\ FourEyes' /\ AddOnce'
  BY DEF EffectsVisible, Visible, FourEyes, AddOnce, TypeOK, JobInv
<1>4. ApprovedIsVisible' /\ SuccessIsTruthful'
  BY DEF ApprovedIsVisible, Visible, SuccessIsTruthful, TypeOK
<1>5. PublishInv'
  BY DEF PublishInv, JobInv, TypeOK
<1>6. PostedAtMostOnce'
  BY DEF PostedAtMostOnce
<1> QED
  BY <1>1, <1>2, <1>3, <1>4, <1>5, <1>6

(* The duplicate branch of createPending answers and touches no store. *)
LEMMA StepCreateDuplicate ==
  ASSUME IInv, NEW w \in Workers, NEW k \in Requests, CreateDuplicate(w, k)
  PROVE  IInv'
<1> USE DEF IInv, CreateDuplicate, Answer, Reply, Idle, stores, history
<1>1. TypeOK'
  BY DEF TypeOK, Replies, Calls, Keys, Outcomes
<1>2. SuccessIsTruthful'
  BY DEF SuccessIsTruthful
<1>3. JobInv' /\ EffectsVisible' /\ PublishInv'
  BY DEF JobInv, EffectsVisible, Visible, PublishInv
<1> QED
  BY <1>1, <1>2, <1>3 DEF FourEyes, AddOnce, ApprovedIsVisible, Visible, PostedAtMostOnce

(* publish posts for a key nobody posted for: PublishInv is what it consumes. *)
LEMMA StepPublish ==
  ASSUME IInv, NEW w \in Workers, Publish(w)
  PROVE  IInv'
<1> USE DEF IInv, Publish, Finish, Reply, stores, history
<1>0. job[w] \in Jobs /\ job[w].key \in Requests /\ job[w].call = "create"
  BY DEF JobInv, Idle
<1>1. TypeOK'
  BY <1>0 DEF TypeOK, Replies, Keys, Outcomes, Status, Jobs
<1>2. SuccessIsTruthful'
  BY <1>0 DEF SuccessIsTruthful
<1>3. JobInv'
  BY DEF JobInv, Idle, TypeOK
<1>4. EffectsVisible' /\ FourEyes' /\ AddOnce' /\ ApprovedIsVisible'
  BY DEF EffectsVisible, Visible, FourEyes, AddOnce, ApprovedIsVisible, TypeOK
<1>5. PostedAtMostOnce'
  BY <1>0 DEF PostedAtMostOnce, PublishInv, TypeOK
<1>6. PublishInv'
  <2>1. ASSUME NEW k \in Requests, status'[k] = "absent" PROVE posted'[k] = 0
    BY <1>0, <2>1 DEF PublishInv, JobInv, Idle, TypeOK
  <2>2. ASSUME NEW x \in Workers, pc'[x] = "publish"
        PROVE  /\ posted'[job'[x].key] = 0
               /\ \A v \in Workers \ {x} :
                    pc'[v] = "publish" => job'[v].key # job'[x].key
    BY <1>0, <2>2 DEF PublishInv, JobInv, Idle, TypeOK
  <2> QED
    BY <2>1, <2>2 DEF PublishInv
<1> QED
  BY <1>1, <1>2, <1>3, <1>4, <1>5, <1>6

(* OnApprovalAck, OnApprovalDeny and OnApprovalTimeout up to their first
   change of a store. *)
LEMMA StepBeginCall ==
  ASSUME IInv, NEW w \in Workers, NEW k \in Requests, NEW u \in Users \cup {Nothing},
         NEW permitted \in BOOLEAN, NEW call \in {"ack", "deny", "timeout"},
         call = "ack" => permitted = Validate4Eyes(k, u),
         NEW step, step = IF call = "ack" THEN "apply" ELSE call,
         BeginCall(w, call, step, k, u, permitted)
  PROVE  IInv'
<1> USE DEF IInv, BeginCall, Idle, stores, history
<1> DEFINE answer == FetchAndCheck(k, permitted)
<1>0. status[k] \in Status /\ k.id \in ProjectIds /\ k.op \in {"add", "archive"}
  BY RequestsAssumption DEF TypeOK
<1>1. CASE answer = "none"
  <2>0. /\ pc[w] = "idle"
        /\ pc' = [pc EXCEPT ![w] = step]
        /\ job' = [job EXCEPT ![w] = Job(call, k, u)]
        /\ UNCHANGED reply
    BY <1>1 DEF Start
  <2>1. status[k] # "absent" /\ permitted
    BY <1>0, <1>1 DEF FetchAndCheck, Status, IsTerminal
  <2>2. Job(call, k, u) \in Jobs
    BY <1>0 DEF Job, Jobs, Calls, Keys
  <2>3. TypeOK'
    BY <2>0, <2>2 DEF TypeOK, Steps
  <2>4. JobInv'
    BY <2>0, <2>1, <2>2 DEF JobInv, TypeOK, Job
  <2>5. EffectsVisible' /\ PublishInv'
    BY <2>0 DEF EffectsVisible, PublishInv, Visible, TypeOK
  <2> QED
    BY <2>0, <2>3, <2>4, <2>5
       DEF FourEyes, AddOnce, ApprovedIsVisible, Visible, PostedAtMostOnce, SuccessIsTruthful
<1>2. CASE answer # "none"
  <2>0. reply' = Reply(call, k, status[k], answer) /\ UNCHANGED <<pc, job>>
    BY <1>2 DEF Answer
  <2>1. answer \in Outcomes /\ answer # "ok"
    BY <1>2 DEF FetchAndCheck, Outcomes
  <2>2. Reply(call, k, status[k], answer) \in Replies
    BY <1>0, <2>1 DEF Reply, Replies, Calls, Keys
  <2>3. TypeOK'
    BY <2>0, <2>2 DEF TypeOK
  <2>4. JobInv' /\ EffectsVisible' /\ PublishInv'
    BY <2>0 DEF JobInv, EffectsVisible, PublishInv, Visible
  <2>5. SuccessIsTruthful'
    BY <2>0, <2>1 DEF SuccessIsTruthful, Reply
  <2> QED
    BY <2>3, <2>4, <2>5 DEF FourEyes, AddOnce, ApprovedIsVisible, Visible, PostedAtMostOnce
<1> QED
  BY <1>1, <1>2

(* A REST write starts only while the gate is open, which JobInv remembers. *)
LEMMA StepRestWrite ==
  ASSUME IInv, NEW w \in Workers, NEW op \in {"add", "archive"}, NEW id \in ProjectIds,
         RestWrite(w, op, id)
  PROVE  IInv'
<1> USE DEF IInv, RestWrite, Start, Idle, stores, history
<1>1. TypeOK'
  BY DEF TypeOK, Steps, Jobs, Keys, Calls
<1>2. JobInv'
  BY <1>1 DEF JobInv, TypeOK, Jobs, Keys, Calls
<1>3. EffectsVisible' /\ PublishInv'
  BY DEF EffectsVisible, PublishInv, Visible, TypeOK
<1> QED
  BY <1>1, <1>2, <1>3
     DEF FourEyes, AddOnce, ApprovedIsVisible, Visible, PostedAtMostOnce, SuccessIsTruthful

(* A call that ends without success and changes neither store nor history of
   applied mutations: a refusal of a store, or a fault. *)
LEMMA StepRefused ==
  ASSUME IInv, NEW w \in Workers, ~Idle(w),
         NEW o \in Outcomes \ {"ok"}, Finish(w, o),
         faults' \in Nat, stranded' \subseteq Requests,
         UNCHANGED <<stores, posted, gated, effects>>
  PROVE  IInv'
<1> USE DEF IInv, stores, Finish
<1>0. job[w] \in Jobs
  BY DEF JobInv
<1>1. TypeOK'
  BY <1>0 DEF TypeOK, Reply, Replies, Jobs, Status
<1>2. JobInv' /\ EffectsVisible' /\ PublishInv'
  BY DEF JobInv, EffectsVisible, PublishInv, Visible, Idle, TypeOK
<1>3. SuccessIsTruthful'
  BY DEF SuccessIsTruthful, Reply
<1> QED
  BY <1>1, <1>2, <1>3
     DEF FourEyes, AddOnce, ApprovedIsVisible, Visible, PostedAtMostOnce

(* A registry call that returns nil, whoever made it: it takes no project
   back, and for an ack it leaves the requested project visible. *)
LEMMA StepApplied ==
  ASSUME IInv, NEW w \in Workers, Applied(w),
         pc[w] \in {"apply", "archive_update"},
         UNCHANGED <<status, posted, gated, stranded>>,
         project' \in [ProjectIds -> {"none", "active", "archived"}],
         archivedAt' \in [ProjectIds -> Workers \cup {Nothing}],
         \A id \in ProjectIds : /\ project[id] # "none" => project'[id] # "none"
                                /\ project[id] = "archived" => project'[id] = "archived",
         job[w].op = "add" => project[job[w].id] = "none",
         project'[job[w].id] = IF job[w].op = "add" THEN "active" ELSE "archived"
  PROVE  IInv'
<1> USE DEF IInv
<1> DEFINE j == job[w]
<1>0. /\ j \in Jobs /\ j.id \in ProjectIds /\ j.call \in {"ack", "rest"}
      /\ j.call = "ack" => /\ j.key \in Requests /\ j.key.op = j.op /\ j.key.id = j.id
                           /\ Validate4Eyes(j.key, j.by) /\ status[j.key] # "absent"
      /\ j.by \in Users \cup {Nothing} /\ j.key \in Keys
  BY DEF JobInv, Idle, Jobs
<1>1. \A k \in Requests : Visible(k) => Visible(k)'
  BY RequestsAssumption DEF Visible
<1>2. CASE /\ j.call = "ack"
           /\ Goto(w, "approve")
           /\ effects' = effects \cup {[key |-> j.key, by |-> j.by]}
           /\ UNCHANGED faults
  <2>0. /\ pc' = [pc EXCEPT ![w] = "approve"] /\ UNCHANGED <<job, reply>>
        /\ effects' = effects \cup {[key |-> j.key, by |-> j.by]}
    BY <1>2 DEF Goto
  <2>1. j.by \in Humans /\ j.by # j.key.requester /\ j.key.requester # Nobody
    BY <1>0, <1>2 DEF Validate4Eyes
  <2>2. Visible(j.key)'
    BY <1>0, <1>2, <2>0 DEF Visible
  <2>3. TypeOK'
    BY <1>0, <1>2, <2>0, <2>1 DEF TypeOK, Steps, Users
  <2>4. JobInv'
    BY <1>0, <1>2, <2>0 DEF JobInv, Idle, TypeOK, Validate4Eyes, Jobs
  <2>5. EffectsVisible'
    BY <1>0, <1>1, <1>2, <2>0, <2>2 DEF EffectsVisible, TypeOK, JobInv, Idle
  <2>6. FourEyes'
    BY <2>0, <2>1 DEF FourEyes
  <2>7. AddOnce'
    <3>1. j.op = "add" => \A e \in effects : ~(e.key.op = "add" /\ e.key.id = j.key.id)
      BY <1>0, <1>2 DEF EffectsVisible, Visible, TypeOK
    <3> QED
      BY <1>0, <1>2, <3>1, <2>0 DEF AddOnce
  <2>8. ApprovedIsVisible' /\ SuccessIsTruthful' /\ PublishInv' /\ PostedAtMostOnce'
    BY <1>1, <2>0
       DEF ApprovedIsVisible, SuccessIsTruthful, PublishInv, PostedAtMostOnce, TypeOK
  <2> QED
    BY <2>3, <2>4, <2>5, <2>6, <2>7, <2>8
<1>3. ASSUME NEW o \in {"ok", "failed"}, Finish(w, o), o = "ok" => j.call = "rest",
             faults' \in Nat, UNCHANGED effects
      PROVE  IInv'
  <2>0. /\ pc' = [pc EXCEPT ![w] = "idle"] /\ job' = [job EXCEPT ![w] = Nothing]
        /\ reply' = Reply(j.call, j.key, "pending_approval", o)
        /\ UNCHANGED effects
    BY <1>3 DEF Finish
  <2>1. TypeOK'
    BY <1>0, <1>3, <2>0 DEF TypeOK, Reply, Replies, Calls, Status, Outcomes
  <2>2. JobInv'
    BY <1>0, <2>0 DEF JobInv, Idle, TypeOK, Jobs
  <2>3. EffectsVisible' /\ ApprovedIsVisible'
    BY <1>1, <2>0 DEF EffectsVisible, ApprovedIsVisible, TypeOK, JobInv, Idle
  <2>4. SuccessIsTruthful'
    BY <1>3, <2>0 DEF SuccessIsTruthful, Reply
  <2>5. FourEyes' /\ AddOnce' /\ PublishInv' /\ PostedAtMostOnce'
    BY <2>0 DEF FourEyes, AddOnce, PublishInv, PostedAtMostOnce, TypeOK
  <2> QED
    BY <2>1, <2>2, <2>3, <2>4, <2>5
<1>4. CASE j.call = "rest" /\ Finish(w, "ok") /\ UNCHANGED <<effects, faults>>
  BY <1>3, <1>4 DEF TypeOK
<1>5. CASE AnswerLost(w) /\ UNCHANGED effects
  BY <1>3, <1>5 DEF AnswerLost, TypeOK
<1> QED
  BY <1>2, <1>4, <1>5 DEF Applied

(* A worker at the registry holds a well-formed job. *)
LEMMA AtRegistry ==
  ASSUME IInv, NEW w \in Workers, pc[w] \in {"apply", "archive_update"}
  PROVE  /\ ~Idle(w)
         /\ job[w].id \in ProjectIds
         /\ project[job[w].id] \in {"none", "active", "archived"}
BY DEF IInv, TypeOK, JobInv, Idle, Jobs

(* registry.Add creates a project that was absent, so no ack of an add of the
   same project can have taken effect before. *)
LEMMA StepRegistryAdd ==
  ASSUME IInv, NEW w \in Workers, RegistryAdd(w)
  PROVE  IInv'
<1> DEFINE id == job[w].id
<1>0. /\ pc[w] = "apply" /\ job[w].op = "add" /\ ~Idle(w) /\ id \in ProjectIds
      /\ UNCHANGED <<status, archivedAt, posted, gated, stranded>>
  BY AtRegistry DEF RegistryAdd
<1>1. CASE ~(ValidateProjectID(id) /\ project[id] = "none")
  <2>1. \E o \in Outcomes \ {"ok"} : Finish(w, o)
    BY <1>1 DEF RegistryAdd, Taken, Outcomes
  <2>2. UNCHANGED <<stores, posted, gated, effects>> /\ faults' \in Nat
        /\ stranded' \subseteq Requests
    BY <1>0, <1>1 DEF RegistryAdd, Taken, stores, IInv, TypeOK
  <2> QED
    BY <1>0, <2>1, <2>2, StepRefused
<1>2. CASE ValidateProjectID(id) /\ project[id] = "none"
  <2>1. project' = [project EXCEPT ![id] = "active"] /\ Applied(w)
    BY <1>2 DEF RegistryAdd, Taken
  <2>2. /\ project' \in [ProjectIds -> {"none", "active", "archived"}]
        /\ archivedAt' \in [ProjectIds -> Workers \cup {Nothing}]
        /\ \A i \in ProjectIds : /\ project[i] # "none" => project'[i] # "none"
                                 /\ project[i] = "archived" => project'[i] = "archived"
        /\ project'[id] = "active"
    BY <1>0, <1>2, <2>1 DEF IInv, TypeOK
  <2> QED
    BY <1>0, <1>2, <2>1, <2>2, StepApplied
<1> QED
  BY <1>1, <1>2

(* Stamp takes no project back. *)
LEMMA StampArchives ==
  ASSUME TypeOK, NEW w \in Workers, NEW id \in ProjectIds, Stamp(w, id)
  PROVE  /\ project' \in [ProjectIds -> {"none", "active", "archived"}]
         /\ archivedAt' \in [ProjectIds -> Workers \cup {Nothing}]
         /\ \A i \in ProjectIds : /\ project[i] # "none" => project'[i] # "none"
                                  /\ project[i] = "archived" => project'[i] = "archived"
         /\ project'[id] = "archived"
BY DEF TypeOK, Stamp, ArchiveTime

(* The three endings of registry.Archive: not found, already archived,
   archived or (Firestore) read and still to be updated. *)
LEMMA StepRegistryArchive ==
  ASSUME IInv, NEW w \in Workers, RegistryArchive(w)
  PROVE  IInv'
<1> DEFINE id == job[w].id
<1>0. /\ pc[w] = "apply" /\ job[w].op = "archive" /\ ~Idle(w) /\ id \in ProjectIds
      /\ UNCHANGED <<status, posted, gated, stranded>>
      /\ project[id] \in {"none", "active", "archived"}
      /\ TypeOK
  BY AtRegistry DEF RegistryArchive, IInv
<1>1. CASE ~Taken(id)
  <2>1. Finish(w, "failed") /\ UNCHANGED <<project, archivedAt, effects, faults>>
    BY <1>0, <1>1 DEF RegistryArchive, Taken
  <2> QED
    BY <1>0, <2>1, StepRefused DEF stores, Outcomes, TypeOK
<1>2. CASE Taken(id) /\ Stamp(w, id) /\ Applied(w)
  BY <1>0, <1>2, StampArchives, StepApplied
<1>3. CASE project[id] = "archived" /\ Applied(w) /\ UNCHANGED <<project, archivedAt>>
  BY <1>0, <1>3, StepApplied DEF TypeOK
<1>4. CASE /\ project[id] = "active"
           /\ Goto(w, "archive_update")
           /\ UNCHANGED <<project, archivedAt, effects, faults>>
  <2>1. pc' = [pc EXCEPT ![w] = "archive_update"]
        /\ UNCHANGED <<job, reply, project, archivedAt, effects, faults>>
    BY <1>4 DEF Goto
  <2> USE DEF IInv
  <2>2. TypeOK'
    BY <1>0, <2>1 DEF TypeOK, Steps
  <2>3. JobInv'
    BY <1>0, <1>4, <2>1 DEF JobInv, Idle, TypeOK
  <2>4. EffectsVisible' /\ PublishInv'
    BY <1>0, <2>1 DEF EffectsVisible, PublishInv, Visible, TypeOK
  <2> QED
    BY <1>0, <2>1, <2>2, <2>3, <2>4
       DEF FourEyes, AddOnce, ApprovedIsVisible, Visible, PostedAtMostOnce, SuccessIsTruthful
<1> QED
  BY <1>1, <1>2, <1>3, <1>4 DEF RegistryArchive

(* Firestore's second call archives a project that exists. *)
LEMMA StepFirestoreArchiveUpdate ==
  ASSUME IInv, NEW w \in Workers, FirestoreArchiveUpdate(w)
  PROVE  IInv'
<1>1. /\ pc[w] = "archive_update" /\ job[w].id \in ProjectIds /\ job[w].op = "archive"
      /\ TypeOK /\ Stamp(w, job[w].id) /\ Applied(w)
      /\ UNCHANGED <<status, posted, gated, stranded>>
  BY AtRegistry DEF FirestoreArchiveUpdate, IInv, JobInv
<1> QED
  BY <1>1, StampArchives, StepApplied

(* Transition: an approve, deny or timeout reaches a record that exists. *)
LEMMA StepTransition ==
  ASSUME IInv, NEW w \in Workers, Transition(w)
  PROVE  IInv'
<1> DEFINE k == job[w].key
<1>0. /\ pc[w] \in {"approve", "deny", "timeout"} /\ ~Idle(w)
      /\ UNCHANGED <<project, archivedAt, posted, gated, effects>>
      /\ TypeOK
      /\ k \in Requests /\ status[k] \in Status \ {"absent"}
      /\ job[w] \in Jobs
      /\ job[w].call = IF pc[w] = "approve" THEN "ack" ELSE pc[w]
  BY DEF Transition, IInv, TypeOK, JobInv, Idle
<1>1. CASE IsTerminal(status[k])
  <2>1. Finish(w, "failed") /\ UNCHANGED <<status, faults>> /\ stranded' \subseteq Requests
    BY <1>0, <1>1 DEF Transition, TypeOK
  <2> QED
    BY <1>0, <2>1, StepRefused DEF stores, Outcomes, TypeOK
<1>2. CASE ~IsTerminal(status[k])
  <2> USE DEF IInv
  <2>0. /\ status' = [status EXCEPT ![k] = Target(pc[w])]
        /\ pc' = [pc EXCEPT ![w] = "idle"] /\ job' = [job EXCEPT ![w] = Nothing]
        /\ \E o \in {"ok", "failed"} :
             reply' = Reply(job[w].call, k, "pending_approval", o)
        /\ faults' \in Nat /\ UNCHANGED stranded
    BY <1>0, <1>2 DEF Transition, Finish, AnswerLost, TypeOK
  <2>1. /\ Target(pc[w]) \in TerminalStatus
        /\ Target(pc[w]) = "approved_applied" <=> pc[w] = "approve"
    BY <1>0 DEF Target, TerminalStatus
  <2>2. TypeOK'
    BY <1>0, <2>0, <2>1 DEF TypeOK, Reply, Replies, Status, Outcomes, Jobs
  <2>3. JobInv'
    BY <1>0, <2>0, <2>1 DEF JobInv, Idle, TypeOK, Status, TerminalStatus
  <2>4. EffectsVisible' /\ FourEyes' /\ AddOnce' /\ PostedAtMostOnce'
    BY <1>0, <2>0 DEF EffectsVisible, Visible, FourEyes, AddOnce, PostedAtMostOnce, TypeOK
  <2>5. ApprovedIsVisible'
    BY <1>0, <2>0, <2>1 DEF ApprovedIsVisible, EffectsVisible, Visible, TypeOK
  <2>6. SuccessIsTruthful'
    BY <1>0, <2>0, <2>1 DEF SuccessIsTruthful, Reply, TypeOK
  <2>7. PublishInv'
    BY <1>0, <2>0, <2>1 DEF PublishInv, TypeOK, TerminalStatus
  <2> QED
    BY <2>2, <2>3, <2>4, <2>5, <2>6, <2>7
<1> QED
  BY <1>1, <1>2

(* A failed backend call ends the call and changes no store. *)
LEMMA StepFail ==
  ASSUME IInv, NEW w \in Workers, Fail(w)
  PROVE  IInv'
<1>1. ~Idle(w) /\ Finish(w, "failed") /\ UNCHANGED <<stores, posted, gated, effects>>
  BY DEF Fail, Idle
<1>2. faults' \in Nat
  BY DEF Fail, IInv, TypeOK
<1>3. stranded' \subseteq Requests
  BY DEF Fail, IInv, TypeOK, JobInv, Idle, Approving
<1> QED
  BY <1>1, <1>2, <1>3, StepRefused DEF Outcomes

(* The end of the process drops every call; no record and no project changes,
   so what JobInv said of the calls is not needed any more. *)
LEMMA StepRestart ==
  ASSUME IInv, Restart
  PROVE  IInv'
<1> USE DEF IInv, Restart, stores
<1>1. stranded' \subseteq Requests
  BY DEF TypeOK, JobInv, Idle, Approving
<1>2. TypeOK'
  BY <1>1 DEF TypeOK
<1>3. JobInv' /\ EffectsVisible' /\ PublishInv'
  BY DEF JobInv, EffectsVisible, PublishInv, Visible, Idle
<1> QED
  BY <1>2, <1>3
     DEF FourEyes, AddOnce, ApprovedIsVisible, Visible, PostedAtMostOnce, SuccessIsTruthful

(* The calls that may begin on an idle worker. *)
LEMMA StepArrive ==
  ASSUME IInv, NEW w \in Workers, Arrive(w)
  PROVE  IInv'
<1>1. ASSUME NEW k \in Requests, OnApprovalTimeout(w, k) PROVE IInv'
  BY <1>1, StepBeginCall DEF OnApprovalTimeout
<1>2. ASSUME NEW k \in Requests, NEW u \in Users, OnApprovalAck(w, k, u) PROVE IInv'
  <2>1. Validate4Eyes(k, u) \in BOOLEAN
    BY DEF Validate4Eyes
  <2> QED
    BY <1>2, <2>1, StepBeginCall DEF OnApprovalAck
<1>3. ASSUME NEW k \in Requests, NEW u \in Users, OnApprovalDeny(w, k, u) PROVE IInv'
  <2>1. (u \in Humans) \in BOOLEAN
    OBVIOUS
  <2> QED
    BY <1>3, <2>1, StepBeginCall DEF OnApprovalDeny
<1> QED
  BY <1>1, <1>2, <1>3, StepCreatePending, StepCreateDuplicate, StepRestWrite DEF Arrive

(* Every step of the system, stuttering included, keeps the invariant. *)
LEMMA StepIInv == IInv /\ [Next]_vars => IInv'
<1> SUFFICES ASSUME IInv, [Next]_vars PROVE IInv'
  OBVIOUS
<1>1. ASSUME NEW w \in Workers, Work(w) PROVE IInv'
  BY <1>1, StepPublish, StepRegistryAdd, StepRegistryArchive,
     StepFirestoreArchiveUpdate, StepTransition DEF Work
<1>2. CASE UNCHANGED vars
  BY <1>2 DEF vars, stores, history, IInv, TypeOK, JobInv, Idle, EffectsVisible, Visible,
     FourEyes, AddOnce, ApprovedIsVisible, SuccessIsTruthful, PublishInv, PostedAtMostOnce
<1> QED
  BY <1>1, <1>2, StepArrive, StepFail, StepRestart DEF Next

(* IInv holds in every reachable state. *)
LEMMA Invariance == Spec => []IInv
BY InitIInv, StepIInv, PTL DEF Spec

(***************************************************************************)
(* The theorems.                                                           *)
(***************************************************************************)
(* Every variable keeps its type, whatever interleaving, fault or restart. *)
THEOREM TypeCorrect == Spec => []TypeOK
<1>1. IInv => TypeOK
  BY DEF IInv
<1> QED
  BY <1>1, Invariance, PTL

(* A mutation applied by OnApprovalAck was approved by a person other than
   its known requester. *)
THEOREM FourEyesHolds == Spec => []FourEyes
<1>1. IInv => FourEyes
  BY DEF IInv
<1> QED
  BY <1>1, Invariance, PTL

(* A record in approved_applied is matched by the registry. *)
THEOREM ApprovedIsVisibleHolds == Spec => []ApprovedIsVisible
<1>1. IInv => ApprovedIsVisible
  BY DEF IInv
<1> QED
  BY <1>1, Invariance, PTL

(* At most one approval click per project id registers it. *)
THEOREM AddOnceHolds == Spec => []AddOnce
<1>1. IInv => AddOnce
  BY DEF IInv
<1> QED
  BY <1>1, Invariance, PTL

(* An ack answered "ok" left its record in approved_applied. *)
THEOREM SuccessIsTruthfulHolds == Spec => []SuccessIsTruthful
<1>1. IInv => SuccessIsTruthful
  BY DEF IInv
<1> QED
  BY <1>1, Invariance, PTL

(* Retried mutation calls never post the buttons of one request twice. *)
THEOREM PostedAtMostOnceHolds == Spec => []PostedAtMostOnce
<1>1. IInv => PostedAtMostOnce
  BY DEF IInv
<1> QED
  BY <1>1, Invariance, PTL

(* What one step may do to the record of a request: create it, or settle a
   record that is still pending_approval; it is settled as approved_applied
   only when the registry already shows the request. *)
LEMMA StatusStep ==
  ASSUME IInv, [Next]_vars
  PROVE  \/ UNCHANGED status
         \/ \E k \in Requests :
              /\ status[k] = "absent"
              /\ status' = [status EXCEPT ![k] = "pending_approval"]
              /\ UNCHANGED <<project, gated>>
         \/ \E k \in Requests, s \in TerminalStatus :
              /\ status[k] = "pending_approval"
              /\ s = "approved_applied" => Visible(k)
              /\ status' = [status EXCEPT ![k] = s]
              /\ UNCHANGED <<project, gated>>
<1> DEFINE Created(k) == /\ status[k] = "absent"
                         /\ status' = [status EXCEPT ![k] = "pending_approval"]
                         /\ UNCHANGED <<project, gated>>
           Ended(k, s) == /\ status[k] = "pending_approval"
                          /\ s = "approved_applied" => Visible(k)
                          /\ status' = [status EXCEPT ![k] = s]
                          /\ UNCHANGED <<project, gated>>
<1>1. ASSUME NEW w \in Workers, Arrive(w)
      PROVE UNCHANGED status \/ \E k \in Requests : Created(k)
  <2>1. ASSUME NEW k \in Requests, CreatePending(w, k) PROVE Created(k)
    BY <2>1 DEF CreatePending
  <2>2. CASE ~\E k \in Requests : CreatePending(w, k)
    BY <1>1, <2>2 DEF Arrive, CreateDuplicate, OnApprovalTimeout, OnApprovalAck,
       OnApprovalDeny, BeginCall, RestWrite, stores
  <2> QED
    BY <2>1, <2>2
<1>2. ASSUME NEW w \in Workers, Transition(w)
      PROVE UNCHANGED status \/ \E k \in Requests, s \in TerminalStatus : Ended(k, s)
  <2> DEFINE k == job[w].key
  <2>1. /\ k \in Requests /\ status[k] \in Status \ {"absent"}
        /\ pc[w] \in {"approve", "deny", "timeout"}
        /\ pc[w] = "approve" => Visible(k)
    BY <1>2 DEF Transition, IInv, TypeOK, JobInv, Idle, EffectsVisible
  <2>2. CASE IsTerminal(status[k])
    BY <1>2, <2>2 DEF Transition
  <2>3. CASE ~IsTerminal(status[k])
    <3>1. Target(pc[w]) \in TerminalStatus
          /\ (Target(pc[w]) = "approved_applied" => pc[w] = "approve")
      BY <2>1 DEF Target, TerminalStatus
    <3>2. status[k] = "pending_approval"
      BY <2>1, <2>3 DEF IsTerminal, Status
    <3>3. Ended(k, Target(pc[w]))
      BY <1>2, <2>1, <2>3, <3>1, <3>2 DEF Transition
    <3> HIDE DEF k, Ended
    <3> QED
      BY <2>1, <3>1, <3>3
  <2> QED
    BY <2>2, <2>3
<1>3. ASSUME NEW w \in Workers, Work(w), ~Transition(w) PROVE UNCHANGED status
  BY <1>3 DEF Work, Publish, RegistryAdd, RegistryArchive, FirestoreArchiveUpdate, stores
<1>4. ASSUME NEW w \in Workers, Fail(w) PROVE UNCHANGED status
  BY <1>4 DEF Fail, stores
<1>5. Restart \/ UNCHANGED vars => UNCHANGED status
  BY DEF Restart, vars, stores
<1> QED
  BY <1>1, <1>2, <1>3, <1>4, <1>5 DEF Next

(* No interleaving of clicks, timeouts and retries takes a record out of a
   terminal status. *)
THEOREM TerminalIsFinalHolds == Spec => TerminalIsFinal
<1>1. IInv /\ [Next]_vars
        => [\A k \in Requests : status[k] \in TerminalStatus => status'[k] = status[k]]_vars
  <2> SUFFICES ASSUME IInv, [Next]_vars, NEW k \in Requests, status[k] \in TerminalStatus
               PROVE  status'[k] = status[k]
    OBVIOUS
  <2>1. status \in [Requests -> Status]
    BY DEF IInv, TypeOK
  <2>2. status[k] # "absent" /\ status[k] # "pending_approval"
    BY DEF TerminalStatus
  <2> QED
    BY <2>1, <2>2, StatusStep
<1> QED
  BY <1>1, Invariance, PTL DEF Spec, TerminalIsFinal

(* What one step may do to the registry: register or retire one project, and
   while the gate is closed only for a request that was asked for. *)
LEMMA ProjectStep ==
  ASSUME IInv, [Next]_vars
  PROVE  UNCHANGED project \/ \E id \in ProjectIds : Ledger!Register(id) \/ Ledger!Retire(id)
<1>1. ASSUME NEW w \in Workers, pc[w] \in {"apply", "archive_update"}
      PROVE  /\ job[w].id \in ProjectIds
             /\ gated => Ledger!Asked(job[w].op, job[w].id)
             /\ project[job[w].id] \in {"none", "active", "archived"}
  BY <1>1 DEF IInv, TypeOK, JobInv, Idle, Jobs, Ledger!Asked
<1>2. ASSUME NEW w \in Workers, RegistryAdd(w), ~UNCHANGED project
      PROVE  Ledger!Register(job[w].id)
  BY <1>1, <1>2 DEF RegistryAdd, Taken, Ledger!Register
<1>3. ASSUME NEW w \in Workers, RegistryArchive(w), ~UNCHANGED project
      PROVE  Ledger!Retire(job[w].id)
  BY <1>1, <1>3 DEF RegistryArchive, Stamp, Taken, IInv, TypeOK, Ledger!Retire
<1>4. ASSUME NEW w \in Workers, FirestoreArchiveUpdate(w), ~UNCHANGED project
      PROVE  Ledger!Retire(job[w].id)
  <2>1. project[job[w].id] # "none" /\ job[w].op = "archive"
    BY <1>4 DEF FirestoreArchiveUpdate, IInv, JobInv, Idle
  <2>2. project[job[w].id] # "archived"
    BY <1>1, <1>4 DEF FirestoreArchiveUpdate, Stamp, IInv, TypeOK
  <2> QED
    BY <1>1, <1>4, <2>1, <2>2 DEF FirestoreArchiveUpdate, Stamp, Ledger!Retire
<1>5. ASSUME NEW w \in Workers, Publish(w) \/ Transition(w) \/ Fail(w) PROVE UNCHANGED project
  BY <1>5 DEF Publish, Transition, Fail, stores
<1>6. ASSUME NEW w \in Workers, Arrive(w) PROVE UNCHANGED project
  BY <1>6 DEF Arrive, CreatePending, CreateDuplicate, OnApprovalTimeout, OnApprovalAck,
     OnApprovalDeny, BeginCall, RestWrite, stores
<1>7. Restart \/ UNCHANGED vars => UNCHANGED project
  BY DEF Restart, vars, stores
<1>8. ASSUME NEW w \in Workers, pc[w] \in {"apply", "archive_update"},
             Ledger!Register(job[w].id) \/ Ledger!Retire(job[w].id)
      PROVE  \E id \in ProjectIds : Ledger!Register(id) \/ Ledger!Retire(id)
  BY <1>1, <1>8
<1>9. ASSUME NEW w \in Workers, Work(w)
      PROVE  UNCHANGED project \/ \E id \in ProjectIds : Ledger!Register(id) \/ Ledger!Retire(id)
  <2>1. CASE RegistryAdd(w)
    BY <2>1, <1>2, <1>8 DEF RegistryAdd
  <2>2. CASE RegistryArchive(w)
    BY <2>2, <1>3, <1>8 DEF RegistryArchive
  <2>3. CASE FirestoreArchiveUpdate(w)
    BY <2>3, <1>4, <1>8 DEF FirestoreArchiveUpdate
  <2> QED
    BY <1>5, <1>9, <2>1, <2>2, <2>3 DEF Work
<1> QED
  BY <1>5, <1>6, <1>7, <1>9 DEF Next

(* The gate with its two stores implements the ledger: every step settles one
   record, changes one project, switches the gate or shows nothing. *)
THEOREM ImplementsLedger == Spec => LedgerSpec
<1>1. Init => Ledger!Init
  BY RequestsAssumption DEF Init, Ledger!Init
<1>2. IInv /\ IInv' /\ [Next]_vars => [Ledger!Next]_(Ledger!vars)
  <2> SUFFICES ASSUME IInv, IInv', [Next]_vars PROVE [Ledger!Next]_(Ledger!vars)
    OBVIOUS
  <2>1. CASE ~UNCHANGED status
    BY <2>1, StatusStep DEF Ledger!Next, Ledger!Ask, Ledger!Settle, Ledger!Settled,
       Ledger!Visible, TerminalStatus, Visible
  <2>2. CASE ~UNCHANGED project
    BY <2>2, ProjectStep DEF Ledger!Next
  <2>3. CASE UNCHANGED <<status, project>>
    BY <2>3 DEF Ledger!Next, Ledger!Regate, IInv, TypeOK
  <2> QED
    BY <2>1, <2>2, <2>3
<1> QED
  BY <1>1, <1>2, Invariance, PTL DEF Spec, LedgerSpec, Ledger!Spec

(* sqlite.go's COALESCE: an archive that comes again, or runs beside another, leaves
   archived_at as the first one set it.  Firestore's Update does not. *)
THEOREM ArchivedAtStableHolds == Backend = "sqlite" => (Spec => ArchivedAtStable)
<1> SUFFICES ASSUME Backend = "sqlite" PROVE Spec => ArchivedAtStable
  OBVIOUS
<1>1. ASSUME NEW w \in Workers, NEW id \in ProjectIds, Stamp(w, job[w].id),
             archivedAt \in [ProjectIds -> Workers \cup {Nothing}], archivedAt[id] # Nothing
      PROVE  archivedAt'[id] = archivedAt[id]
  BY <1>1 DEF Stamp, ArchiveTime
<1>2. ASSUME NEW w \in Workers, Work(w) \/ Arrive(w) \/ Fail(w)
      PROVE  UNCHANGED archivedAt \/ Stamp(w, job[w].id)
  <2>1. CASE Work(w)
    BY <2>1 DEF Work, Publish, RegistryAdd, RegistryArchive, FirestoreArchiveUpdate, Transition, stores
  <2>2. CASE Arrive(w)
    BY <2>2 DEF Arrive, CreatePending, CreateDuplicate, OnApprovalTimeout, OnApprovalAck,
       OnApprovalDeny, BeginCall, RestWrite, stores
  <2>3. CASE Fail(w)
    BY <2>3 DEF Fail, stores
  <2> QED BY <1>2, <2>1, <2>2, <2>3
<1>3. Restart \/ UNCHANGED vars => UNCHANGED archivedAt
  BY DEF Restart, vars, stores
<1>4. IInv /\ [Next]_vars
        => [\A id \in ProjectIds :
              archivedAt[id] # Nothing => archivedAt'[id] = archivedAt[id]]_vars
  <2> SUFFICES ASSUME IInv, [Next]_vars, NEW id \in ProjectIds, archivedAt[id] # Nothing
               PROVE  archivedAt'[id] = archivedAt[id]
    OBVIOUS
  <2>1. archivedAt \in [ProjectIds -> Workers \cup {Nothing}]
    BY DEF IInv, TypeOK
  <2> QED BY <1>1, <1>2, <1>3, <2>1 DEF Next
<1> QED BY <1>4, Invariance, PTL DEF Spec, ArchivedAtStable
=============================================================================
