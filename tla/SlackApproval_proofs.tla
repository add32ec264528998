------------------------- MODULE SlackApproval_proofs -------------------------
(***************************************************************************)
(* Proofs about SlackApproval, for every set of people, agents, mails,     *)
(* instances and goroutines, and any number of expiries and restarts.      *)
(***************************************************************************)
EXTENDS SlackApproval, TLAPS

Steps == {"idle", "publish", "orchestrate", "notify"}
Jobs == [mail : Mails, by : Users, at : Instances, action : {"approve", "deny"}, text : Texts]

(***************************************************************************)
(* The inductive invariant.                                                *)
(***************************************************************************)
(* What ServeHTTP established before it started a goroutine, and what the
   goroutine relies on: who clicked passed the guards, an approve click
   marked its token, and a notice repeats what the orchestrator wrote. *)
JobInv(w) ==
  ~Idle(w) =>
    /\ job[w] \in Jobs
    /\ job[w].action = "approve" => Token(job[w].mail) \in consumed[job[w].at]
    /\ pc[w] = "publish" => /\ Permitted(Button(job[w].mail), job[w].by)
                            /\ job[w].mail.kind # "admin_mutation"
    /\ pc[w] = "orchestrate" => job[w].mail.kind = "admin_mutation"
    /\ (pc[w] = "notify" /\ job[w].mail.kind = "admin_mutation"
          /\ job[w].text \in {"approved", "denied"})
         => job[w].text = record[job[w].mail.parent]

AcksPermitted == \A a \in acks : Permitted(Button(a.mail), a.by)

IInv ==
  /\ TypeOK
  /\ \A w \in Workers : JobInv(w)
  /\ AcksPermitted
  /\ OneGrantPerToken
  /\ AdminNoticeIsTruthful

(***************************************************************************)
(* The guards.                                                             *)
(***************************************************************************)
(* An approver who passes the guards of handleApprovalAction is nobody the ADRs
   exclude. *)
LEMMA PermittedIsEligible ==
  ASSUME NEW m \in Mails, NEW u \in Users, Permitted(Button(m), u)
  PROVE  /\ u # m.requester
         /\ AskedByAgent(m) => u \in Humans
         /\ m.actor = "workspace-daemon" => m.initiating # ""
         /\ m.source = "env"
  BY MailsAssumption DEF Permitted, Button, Classify, EffectiveRequester, AskedByAgent, Users

(* The key of an admin mutation has a record. *)
LEMMA AdminHasRecord ==
  ASSUME NEW m \in Mails, m.kind = "admin_mutation" PROVE m.parent \in AdminKeys
  BY DEF AdminKeys

(***************************************************************************)
(* The first state, and the steps.                                         *)
(***************************************************************************)
(* Nothing is clicked yet, and nothing is recorded but pending requests. *)
LEMMA InitIInv == Init => IInv
  BY LapsesAssumption
  DEF Init, IInv, TypeOK, JobInv, Idle, AcksPermitted, OneGrantPerToken,
      OneApproveInFlight, SpentWasGranted, AdminNoticeIsTruthful, Texts

(* A click that starts no goroutine changes nothing but the note. *)
LEMMA TurnedAwayKeepsIInv ==
  ASSUME IInv, NEW m \in Mails, NEW u \in Users, NEW i \in Instances,
         RefusedClick(m, u, i) \/ ReplayClick(m, u, i)
  PROVE  IInv'
  BY DEF IInv, TypeOK, JobInv, Idle, AcksPermitted, OneGrantPerToken, OneApproveInFlight,
         SpentWasGranted, AdminNoticeIsTruthful, RefusedClick, ReplayClick, Click

(* A spawned goroutine has its click for a job, and the others keep theirs. *)
LEMMA SpawnedJob ==
  ASSUME TypeOK, NEW w \in Workers, NEW m \in Mails, NEW u \in Users, NEW i \in Instances,
         NEW step \in Steps, NEW action \in {"approve", "deny"}, NEW text \in Texts,
         Spawn(w, step, m, u, i, action, text)
  PROVE  /\ pc' \in [Workers -> Steps] /\ pc'[w] = step
         /\ job' \in [Workers -> {Nothing} \cup Jobs]
         /\ job'[w] \in Jobs /\ job'[w].mail = m /\ job'[w].at = i /\ job'[w].action = action
         /\ job'[w].by = u /\ job'[w].text = text
         /\ \A v \in Workers \ {w} : pc'[v] = pc[v] /\ job'[v] = job[v]
  BY DEF TypeOK, Spawn, Steps, Jobs

(* MarkConsumed is a test and set, so an approve click finds no goroutine of its
   token on this instance; a deny click takes no token. *)
LEMMA ClickKeepsIInv ==
  ASSUME IInv, NEW w \in Workers, NEW m \in Mails, NEW u \in Users, NEW i \in Instances,
         ApproveClick(w, m, u, i) \/ DenyClick(w, m, u, i)
  PROVE  IInv'
<1> USE DEF IInv
<1>1. CASE ApproveClick(w, m, u, i)
  <2> USE <1>1 DEF ApproveClick, Spawn, Idle
  <2>1. Token(m) \in Tokens
    BY DEF Tokens
  <2>2. TypeOK'
    BY <2>1 DEF TypeOK, Texts
  <2>3. ASSUME NEW v \in Workers PROVE JobInv(v)'
    <3>1. CASE v = w
      BY <3>1 DEF JobInv, TypeOK, Jobs, Texts
    <3>2. CASE v # w
      BY <3>2 DEF JobInv, TypeOK, Jobs
    <3> QED
      BY <3>1, <3>2
  <2>4. AcksPermitted'
    BY DEF AcksPermitted
  <2>5. OneApproveInFlight'
    <3>1. \A v \in Workers \ {w} : pc'[v] = pc[v] /\ job'[v] = job[v]
      BY DEF TypeOK
    <3>2. job'[w].at = i /\ job'[w].mail = m
      BY DEF TypeOK
    <3>3. \A v \in Workers : ~Idle(v) /\ job[v].action = "approve" /\ job[v].at = i => Token(job[v].mail) # Token(m)
      BY DEF JobInv
    <3> QED
      BY <3>1, <3>2, <3>3 DEF OneGrantPerToken, OneApproveInFlight
  <2>6. SpentWasGranted'
    <3> SUFFICES ASSUME NEW k \in Instances, NEW t \in consumed'[k]
                 PROVE  \E g \in granted' : g.at = k /\ Token(g.mail) = t
      BY DEF SpentWasGranted
    <3>1. CASE t \in consumed[k]
      BY <3>1 DEF OneGrantPerToken, SpentWasGranted
    <3>2. CASE k = i /\ t = Token(m)
      <4> WITNESS [mail |-> m, at |-> i] \in granted'
      <4> QED
        BY <3>2
    <3> QED
      BY <3>1, <3>2 DEF TypeOK
  <2>7. AdminNoticeIsTruthful'
    BY DEF AdminNoticeIsTruthful
  <2> QED
    BY <2>2, <2>3, <2>4, <2>5, <2>6, <2>7 DEF OneGrantPerToken
<1>2. CASE DenyClick(w, m, u, i)
  <2>1. PICK step \in {"orchestrate", "notify"}, text \in {"none", "denied"} :
          /\ Spawn(w, step, m, u, i, "deny", text)
          /\ step = "orchestrate" <=> m.kind = "admin_mutation"
    BY <1>2 DEF DenyClick
  <2>2. UNCHANGED <<consumed, acks, record, shown, refused, granted, lapses>>
    BY <1>2 DEF DenyClick
  <2>3. \A v \in Workers \ {w} : pc'[v] = pc[v] /\ job'[v] = job[v]
    BY <2>1, SpawnedJob DEF Steps, Texts
  <2>4. /\ pc' \in [Workers -> Steps] /\ pc'[w] = step
        /\ job' \in [Workers -> {Nothing} \cup Jobs]
        /\ job'[w] \in Jobs /\ job'[w].mail = m /\ job'[w].action = "deny"
    BY <2>1, SpawnedJob DEF Steps, Texts
  <2>5. TypeOK'
    BY <2>2, <2>4 DEF TypeOK, Steps, Jobs
  <2>6. ASSUME NEW v \in Workers PROVE JobInv(v)'
    <3>1. CASE v = w
      BY <3>1, <2>1, <2>4 DEF JobInv
    <3>2. CASE v # w
      BY <3>2, <2>2, <2>3 DEF JobInv, Jobs, Idle
    <3> QED
      BY <3>1, <3>2
  <2>7. OneApproveInFlight'
    BY <2>3, <2>4 DEF OneGrantPerToken, OneApproveInFlight, Idle
  <2> QED
    BY <2>2, <2>5, <2>6, <2>7 DEF AcksPermitted, OneGrantPerToken, SpentWasGranted, AdminNoticeIsTruthful
<1> QED
  BY <1>1, <1>2

(* A goroutine that goes on to its notice keeps its click and its token. *)
LEMMA ToNoticeKeepsJob ==
  ASSUME IInv, NEW w \in Workers, ~Idle(w), NEW text \in Texts, ToNotice(w, text)
  PROVE  /\ pc' \in [Workers -> Steps] /\ pc'[w] = "notify"
         /\ job' \in [Workers -> {Nothing} \cup Jobs]
         /\ job'[w] \in Jobs /\ job'[w].text = text
         /\ \A v \in Workers : /\ Idle(v)' = Idle(v)
                               /\ ~Idle(v) => /\ job'[v] \in Jobs
                                              /\ job'[v].mail = job[v].mail
                                              /\ job'[v].by = job[v].by
                                              /\ job'[v].at = job[v].at
                                              /\ job'[v].action = job[v].action
         /\ \A v \in Workers \ {w} : pc'[v] = pc[v] /\ job'[v] = job[v]
  BY DEF IInv, TypeOK, JobInv, Idle, ToNotice, Steps, Jobs

(* The goroutine of a click: publish or orchestrate, then the notice. *)
LEMMA WorkKeepsIInv ==
  ASSUME IInv, NEW w \in Workers, Work(w)
  PROVE  IInv'
<1> USE DEF IInv
<1>1. CASE PublishAck(w)
  <2>1. PICK text \in Texts : ToNotice(w, text) /\ pc[w] = "publish"
                              /\ acks' \subseteq acks \cup {[mail |-> job[w].mail, by |-> job[w].by]}
                              /\ UNCHANGED <<consumed, record, shown, refused, granted, lapses>>
    BY <1>1 DEF PublishAck, Texts
  <2> USE ToNoticeKeepsJob, <2>1
  <2>2. /\ ~Idle(w) /\ job[w] \in Jobs
        /\ Permitted(Button(job[w].mail), job[w].by)
        /\ job[w].mail.kind # "admin_mutation"
    BY <2>1 DEF JobInv, Idle
  <2>3. TypeOK'
    BY <2>2 DEF TypeOK, Steps, Jobs
  <2>4. ASSUME NEW v \in Workers PROVE JobInv(v)'
    <3> HIDE <2>1
    <3>1. UNCHANGED <<consumed, record>> /\ pc'[w] = "notify"
      BY <2>1, <2>2
    <3>2. CASE v = w
      <4>1. /\ job'[w] \in Jobs /\ job'[w].mail = job[w].mail
            /\ job'[w].action = job[w].action /\ job'[w].at = job[w].at
        BY <2>1, <2>2
      <4> QED
        BY <3>1, <3>2, <2>2, <4>1 DEF JobInv, Idle
    <3>3. CASE v # w
      <4>1. pc'[v] = pc[v] /\ job'[v] = job[v]
        BY <3>3, <2>1, <2>2
      <4> QED
        BY <3>1, <4>1 DEF JobInv, Idle
    <3> QED
      BY <3>2, <3>3
  <2>5. AcksPermitted'
    BY <2>2 DEF AcksPermitted
  <2>6. OneGrantPerToken'
    BY <2>2 DEF OneGrantPerToken, OneApproveInFlight, SpentWasGranted
  <2> QED
    BY <2>3, <2>4, <2>5, <2>6 DEF AdminNoticeIsTruthful
<1>2. CASE Orchestrate(w)
  <2> DEFINE m == job[w].mail
             decision == IF job[w].action = "deny" THEN "denied" ELSE "approved"
  <2>1. /\ pc[w] = "orchestrate" /\ ~Idle(w) /\ job[w] \in Jobs
        /\ m.kind = "admin_mutation" /\ m.parent \in AdminKeys
    BY <1>2, AdminHasRecord DEF Orchestrate, JobInv, Idle, Jobs
  <2>2. PICK text \in Texts :
          /\ ToNotice(w, text)
          /\ \/ /\ record[m.parent] = "pending_approval" /\ text = decision
                /\ record' = [record EXCEPT ![m.parent] = decision]
             \/ text = "failed" /\ UNCHANGED record
          /\ UNCHANGED <<consumed, acks, shown, refused, granted, lapses>>
    BY <1>2 DEF Orchestrate, CanSettle, Texts
  <2> USE ToNoticeKeepsJob, <2>1, <2>2
  <2>3. TypeOK'
    BY DEF TypeOK, Steps, Jobs
  <2>4. \A k \in AdminKeys : record[k] # "pending_approval" => record'[k] = record[k]
    BY DEF TypeOK
  <2>5. ASSUME NEW v \in Workers PROVE JobInv(v)'
    <3>1. CASE v = w
      <4>1. text \in {"approved", "denied"} => record'[m.parent] = text
        BY DEF TypeOK
      <4> QED
        BY <3>1, <4>1 DEF JobInv, Idle
    <3>2. CASE v # w
      <4>1. (~Idle(v) /\ pc[v] = "notify" /\ job[v].mail.kind = "admin_mutation") =>
               job[v].mail.parent \in AdminKeys
        BY AdminHasRecord DEF JobInv, Jobs
      <4> QED
        BY <3>2, <4>1, <2>4 DEF JobInv
    <3> QED
      BY <3>1, <3>2
  <2>6. AcksPermitted'
    BY DEF AcksPermitted
  <2>7. OneGrantPerToken'
    BY DEF OneGrantPerToken, OneApproveInFlight, SpentWasGranted
  <2>8. AdminNoticeIsTruthful'
    BY <2>4 DEF AdminNoticeIsTruthful
  <2> QED
    BY <2>3, <2>5, <2>6, <2>7, <2>8
<1>3. CASE Notify(w)
  <2>1. /\ pc[w] = "notify" /\ ~Idle(w) /\ job[w] \in Jobs
        /\ pc' = [pc EXCEPT ![w] = "idle"]
        /\ job' = [job EXCEPT ![w] = Nothing]
        /\ UNCHANGED <<consumed, acks, record, refused, granted, lapses>>
    BY <1>3 DEF Notify, JobInv, Idle
  <2>2. \A v \in Workers \ {w} : pc'[v] = pc[v] /\ job'[v] = job[v]
    BY <2>1 DEF TypeOK
  <2>3. pc'[w] = "idle"
    BY <2>1 DEF TypeOK
  <2>4. \/ UNCHANGED shown
        \/ /\ job[w].mail.kind = "admin_mutation" /\ job[w].mail.parent \in AdminKeys
           /\ shown' = [shown EXCEPT ![job[w].mail.parent] = job[w].text]
    BY <1>3, <2>1, AdminHasRecord DEF Notify, Jobs
  <2>5. TypeOK'
    BY <2>1, <2>4 DEF TypeOK, Jobs
  <2>6. ASSUME NEW v \in Workers PROVE JobInv(v)'
    BY <2>1, <2>2, <2>3 DEF JobInv, Idle
  <2>7. OneApproveInFlight'
    BY <2>2, <2>3 DEF OneGrantPerToken, OneApproveInFlight, Idle
  <2>8. AdminNoticeIsTruthful'
    BY <2>1, <2>4 DEF AdminNoticeIsTruthful, JobInv, TypeOK
  <2> QED
    BY <2>1, <2>5, <2>6, <2>7, <2>8 DEF AcksPermitted, OneGrantPerToken, SpentWasGranted
<1> QED
  BY <1>1, <1>2, <1>3 DEF Work

(* A token expires only when no goroutine works under it; an instance takes its
   goroutines with it. *)
LEMMA LapseKeepsIInv ==
  ASSUME IInv, NEW i \in Instances,
         Restart(i) \/ \E t \in Tokens : Expire(i, t)
  PROVE  IInv'
<1> USE DEF IInv
<1>1. ASSUME NEW t \in Tokens, Expire(i, t) PROVE IInv'
  <2> USE <1>1 DEF Expire
  <2>1. TypeOK'
    BY DEF TypeOK
  <2>2. \A k \in Instances : consumed'[k] \subseteq consumed[k]
                             /\ \A q \in consumed[k] : q \in consumed'[k] \/ (k = i /\ q = t)
    <3> SUFFICES ASSUME NEW k \in Instances
                 PROVE  consumed'[k] = IF k = i THEN consumed[k] \ {t} ELSE consumed[k]
      OBVIOUS
    <3> QED
      BY DEF TypeOK
  <2>3. ASSUME NEW v \in Workers PROVE JobInv(v)'
    BY <2>2 DEF JobInv, Idle, Approving, Jobs
  <2>4. OneGrantPerToken'
    BY <2>2 DEF OneGrantPerToken, OneApproveInFlight, SpentWasGranted, Idle
  <2> QED
    BY <2>1, <2>3, <2>4 DEF AcksPermitted, AdminNoticeIsTruthful
<1>2. CASE Restart(i)
  <2>1. /\ \A k \in Instances : consumed'[k] = IF k = i THEN {} ELSE consumed[k]
        /\ \A v \in Workers : \/ pc'[v] = "idle"
                              \/ ~Idle(v) /\ job[v].at # i /\ pc'[v] = pc[v] /\ job'[v] = job[v]
        /\ UNCHANGED <<acks, record, shown, refused, granted>>
    BY <1>2 DEF Restart, Idle, TypeOK
  <2>2. TypeOK'
    BY <1>2 DEF Restart, TypeOK, Idle
  <2>3. ASSUME NEW v \in Workers PROVE JobInv(v)'
    BY <2>1 DEF JobInv, Idle, Jobs
  <2>4. OneGrantPerToken'
    BY <2>1 DEF OneGrantPerToken, OneApproveInFlight, SpentWasGranted, Idle
  <2> QED
    BY <2>1, <2>2, <2>3, <2>4 DEF AcksPermitted, AdminNoticeIsTruthful
<1> QED
  BY <1>1, <1>2

(* Every step keeps the invariant. *)
LEMMA NextIInv == ASSUME IInv, [Next]_vars PROVE IInv'
<1>1. CASE UNCHANGED vars
  BY <1>1 DEF vars, IInv, TypeOK, JobInv, Idle, AcksPermitted, OneGrantPerToken,
              OneApproveInFlight, SpentWasGranted, AdminNoticeIsTruthful
<1> QED
  BY <1>1, TurnedAwayKeepsIInv, ClickKeepsIInv, WorkKeepsIInv, LapseKeepsIInv
  DEF Next, Clicks

(* The inductive invariant holds in every reachable state. *)
THEOREM Invariance == Spec => []IInv
  BY InitIInv, NextIInv, PTL DEF Spec

(***************************************************************************)
(* The theorems.                                                           *)
(***************************************************************************)
(* The state of handler.go's buttons stays typed: tokens, goroutines, acks,
   records and notices. *)
THEOREM TypeCorrect == Spec => []TypeOK
<1>1. IInv => TypeOK
  BY DEF IInv
<1> QED
  BY Invariance, <1>1, PTL

(* handler.go:548-634: no ack is published on the word of its requester, of an agent
   for an agent, or for a request nobody attested, whatever mails are in the
   channel and whoever clicks. *)
THEOREM NoLaunderedAckHolds == Spec => []NoLaunderedAck
<1>1. IInv => NoLaunderedAck
  BY PermittedIsEligible DEF IInv, TypeOK, AcksPermitted, NoLaunderedAck
<1> QED
  BY Invariance, <1>1, PTL

(* handler.go:687 and MarkConsumed: two approve clicks of one token never run at
   once on an instance, and only a granted click spends a token. *)
THEOREM OneGrantPerTokenHolds == Spec => []OneGrantPerToken
<1>1. IInv => OneGrantPerToken
  BY DEF IInv
<1> QED
  BY Invariance, <1>1, PTL

(* handler.go:636-770: a notice that says approved or denied agrees with the record,
   although instances share no tokens. *)
THEOREM AdminNoticeIsTruthfulHolds == Spec => []AdminNoticeIsTruthful
<1>1. IInv => AdminNoticeIsTruthful
  BY DEF IInv
<1> QED
  BY Invariance, <1>1, PTL
=============================================================================
