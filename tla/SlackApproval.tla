---------------------------- MODULE SlackApproval ----------------------------
(***************************************************************************)
(* The approve / deny buttons of a HIGH severity convergence D-Mail or of  *)
(* an admin mutation, and InteractiveHandler.handleApprovalAction, which   *)
(* serves their clicks.                                                    *)
(*                                                                         *)
(* Cloud Run runs several instances.  Each has its own in-memory           *)
(* ConsumedTokenStore, forgotten after one hour and lost when the instance *)
(* goes away.  ServeHTTP runs the guards and marks the token; a goroutine  *)
(* then publishes the ack or calls the admin orchestrator and posts a      *)
(* notice.  The orchestrator is seen as the ledger AdminApproval           *)
(* implements: one step that settles the record or fails.                  *)
(***************************************************************************)
EXTENDS Naturals, FiniteSets

CONSTANTS
  Humans,      \* Slack users that are people
  Agents,      \* Slack users listed in SLACK_AI_AGENT_BOT_USER_IDS
  Mails,       \* D-Mails whose buttons are in the channel
  Instances,   \* gateway instances
  Workers,     \* goroutines
  Nothing,     \* no job, no click
  MaxLapses    \* bound on expired tokens and instance restarts

Users == Humans \cup Agents
Actors == {"human-operator", "ai-agent", "gateway-service", "workspace-daemon"}

ASSUME UsersAssumption == Humans \cap Agents = {}
ASSUME MailsAssumption ==
  /\ \A m \in Mails :
       /\ m.kind \in {"convergence", "admin_mutation"}
       /\ m.actor \in Actors \cup {"", "unlisted"}
       /\ m.initiating \in Actors \cup {""}
       /\ m.source \in {"env", "broker", "env_attested", ""}
  /\ Nothing \notin Mails
ASSUME InstancesAssumption == Nothing \notin Workers
ASSUME LapsesAssumption == MaxLapses \in Nat

VARIABLES
  consumed,    \* instance -> tokens marked there less than one hour ago
  acks,        \* convergence acks published to dmail-inbound
  record,      \* idempotency key of an admin mutation -> status
  shown,       \* the same key -> the last notice that replaced its buttons
  pc, job,     \* the goroutines
  refused,     \* the last click that a guard turned away
  granted,     \* history: approve clicks that passed every guard
  lapses

vars == <<consumed, acks, record, shown, pc, job, refused, granted, lapses>>

(***************************************************************************)
(* The button value, and the guards on a click, in their order.            *)
(***************************************************************************)
(* External producers never count as broker verified. *)
TrustsRaw(raw) == IF raw = "broker" THEN "broker_verified" ELSE "env_attested"   \* mutant
Classify(raw) == CASE raw = "broker" -> "spoofed_broker"
                   [] raw = "env"    -> "env_attested"
                   [] OTHER          -> "unknown"

AdminKeys == {m.parent : m \in {x \in Mails : x.kind = "admin_mutation"}}

Button(m) == [requester |-> m.requester, actor |-> m.actor,
              initiating |-> m.initiating, source |-> Classify(m.source)]

(* issued_at is written as 0 by buildButtonValues. *)
Token(m) == <<m.requester, m.parent, 0>>

ProximateOnly(b) == b.actor      \* mutant: a daemon speaks for itself
EffectiveRequester(b) == IF b.actor = "workspace-daemon" THEN b.initiating ELSE b.actor

Permitted(b, u) ==
  /\ u # b.requester
  /\ b.actor \in Actors
  /\ b.source \notin {"spoofed_broker", "unknown"}
  /\ EffectiveRequester(b) # ""
  /\ ~(EffectiveRequester(b) = "ai-agent" /\ u \in Agents)

(***************************************************************************)
(* Clicks.  A click may reach an instance after the notice of an earlier   *)
(* one: it was made before, or the notice went to the thread because the   *)
(* response_url was spent and the buttons are still there.                 *)
(***************************************************************************)
Idle(w) == pc[w] = "idle"

Click(m, u) == [mail |-> m, by |-> u]

(* The goroutine of a click; "text" is the notice it will post. *)
Spawn(w, step, m, u, i, action, text) ==
  /\ Idle(w)
  /\ pc' = [pc EXCEPT ![w] = step]
  /\ job' = [job EXCEPT ![w] = [mail |-> m, by |-> u, at |-> i, action |-> action,
                                text |-> text]]

RefusedSpendsToken(m, u, i) ==      \* mutant: MarkConsumed ahead of the guards
  /\ ~Permitted(Button(m), u)
  /\ consumed' = [consumed EXCEPT ![i] = @ \cup {Token(m)}]
  /\ refused' = Click(m, u)
  /\ UNCHANGED <<acks, record, shown, pc, job, granted, lapses>>

(* A click some guard turns away gets an refused note. *)
RefusedClick(m, u, i) ==
  /\ ~Permitted(Button(m), u)
  /\ refused' = Click(m, u)
  /\ UNCHANGED <<consumed, acks, record, shown, pc, job, granted, lapses>>

DenyClick(w, m, u, i) ==
  /\ Permitted(Button(m), u)
  /\ IF m.kind = "admin_mutation"
     THEN Spawn(w, "orchestrate", m, u, i, "deny", "none")
     ELSE Spawn(w, "notify", m, u, i, "deny", "denied")
  /\ UNCHANGED <<consumed, acks, record, shown, refused, granted, lapses>>

(* MarkConsumed: test and set under the store's mutex. *)
ApproveClick(w, m, u, i) ==
  /\ Permitted(Button(m), u)
  /\ Token(m) \notin consumed[i]
  /\ consumed' = [consumed EXCEPT ![i] = @ \cup {Token(m)}]
  /\ Spawn(w, IF m.kind = "admin_mutation" THEN "orchestrate" ELSE "publish",
           m, u, i, "approve", "none")
  /\ granted' = granted \cup {[mail |-> m, at |-> i]}
  /\ UNCHANGED <<acks, record, shown, refused, lapses>>

ReplayClick(m, u, i) ==
  /\ Permitted(Button(m), u)
  /\ Token(m) \in consumed[i]
  /\ refused' = Nothing
  /\ UNCHANGED <<consumed, acks, record, shown, pc, job, granted, lapses>>

(***************************************************************************)
(* The goroutines.                                                         *)
(***************************************************************************)
Texts == {"none", "approved", "denied", "failed"}

RawError(w, text) ==      \* mutant: the error itself is shown
  /\ pc' = [pc EXCEPT ![w] = "notify"]
  /\ job' = [job EXCEPT ![w].text = IF text = "failed" THEN "rpc error" ELSE text]

ToNotice(w, text) ==
  /\ pc' = [pc EXCEPT ![w] = "notify"]
  /\ job' = [job EXCEPT ![w].text = text]

PublishAck(w) ==
  /\ pc[w] = "publish"
  /\ \/ /\ acks' = acks \cup {[mail |-> job[w].mail, by |-> job[w].by]}
        /\ ToNotice(w, "approved")
     \/ /\ UNCHANGED acks
        /\ ToNotice(w, "failed")
  /\ UNCHANGED <<consumed, record, shown, refused, granted, lapses>>

(* OnApprovalAck and OnApprovalDeny settle a pending record, or return an
   error: the approver is not a person, the record is settled, a store
   failed. *)
SettlesAnyway(m, u) == u \in Humans     \* mutant: no terminal check
CanSettle(m, u) == u \in Humans /\ record[m.parent] = "pending_approval"

Orchestrate(w) ==
  LET m == job[w].mail
      decision == IF job[w].action = "deny" THEN "denied" ELSE "approved"
  IN
  /\ pc[w] = "orchestrate"
  /\ \/ /\ CanSettle(m, job[w].by)
        /\ record' = [record EXCEPT ![m.parent] = decision]
        /\ ToNotice(w, decision)
     \/ /\ UNCHANGED record
        /\ ToNotice(w, "failed")
  /\ UNCHANGED <<consumed, acks, shown, refused, granted, lapses>>

(* notifier.UpdateMessage, whose failure is only logged; only what it says of
   admin mutations is kept. *)
Notify(w) ==
  /\ pc[w] = "notify"
  /\ \/ job[w].mail.kind = "admin_mutation"
        /\ shown' = [shown EXCEPT ![job[w].mail.parent] = job[w].text]
     \/ UNCHANGED shown
  /\ pc' = [pc EXCEPT ![w] = "idle"]
  /\ job' = [job EXCEPT ![w] = Nothing]
  /\ UNCHANGED <<consumed, acks, record, refused, granted, lapses>>

(***************************************************************************)
(* Time and crashes.                                                       *)
(***************************************************************************)
Approving(w, i, t) == /\ ~Idle(w)
                      /\ job[w].action = "approve"
                      /\ job[w].at = i
                      /\ Token(job[w].mail) = t

(* One hour has passed since the token was marked; the goroutine it was
   marked for has 25 minutes. *)
ExpireEarly(i, t) ==      \* mutant: a time to live below the goroutine's deadline
  /\ lapses < MaxLapses
  /\ t \in consumed[i]
  /\ consumed' = [consumed EXCEPT ![i] = @ \ {t}]
  /\ lapses' = lapses + 1
  /\ UNCHANGED <<acks, record, shown, pc, job, refused, granted>>

Expire(i, t) ==
  /\ lapses < MaxLapses
  /\ t \in consumed[i]
  /\ \A w \in Workers : ~Approving(w, i, t)
  /\ consumed' = [consumed EXCEPT ![i] = @ \ {t}]
  /\ lapses' = lapses + 1
  /\ UNCHANGED <<acks, record, shown, pc, job, refused, granted>>

(* The instance goes away, with its tokens and its goroutines. *)
Restart(i) ==
  LET Here(w) == ~Idle(w) /\ job[w].at = i IN
  /\ lapses < MaxLapses
  /\ consumed' = [consumed EXCEPT ![i] = {}]
  /\ pc' = [w \in Workers |-> IF Here(w) THEN "idle" ELSE pc[w]]
  /\ job' = [w \in Workers |-> IF Here(w) THEN Nothing ELSE job[w]]
  /\ lapses' = lapses + 1
  /\ UNCHANGED <<acks, record, shown, refused, granted>>

(***************************************************************************)
(* Specification.                                                          *)
(***************************************************************************)
Tokens == {Token(m) : m \in Mails}

Init ==
  /\ consumed = [i \in Instances |-> {}]
  /\ acks = {}
  /\ record = [k \in AdminKeys |-> "pending_approval"]
  /\ shown = [k \in AdminKeys |-> "none"]
  /\ pc = [w \in Workers |-> "idle"]
  /\ job = [w \in Workers |-> Nothing]
  /\ refused = Nothing
  /\ granted = {}
  /\ lapses = 0

Work(w) == PublishAck(w) \/ Orchestrate(w) \/ Notify(w)

Clicks(m, u, i) == \/ RefusedClick(m, u, i)
                   \/ ReplayClick(m, u, i)
                   \/ \E w \in Workers : ApproveClick(w, m, u, i) \/ DenyClick(w, m, u, i)

Next ==
  \/ \E w \in Workers : Work(w)
  \/ \E m \in Mails, u \in Users, i \in Instances : Clicks(m, u, i)
  \/ \E i \in Instances : Restart(i) \/ \E t \in Tokens : Expire(i, t)

Spec == Init /\ [][Next]_vars

(***************************************************************************)
(* Properties.                                                             *)
(***************************************************************************)
TypeOK ==
  /\ consumed \in [Instances -> SUBSET Tokens]
  /\ acks \subseteq [mail : Mails, by : Users]
  /\ record \in [AdminKeys -> {"pending_approval", "approved", "denied"}]
  /\ shown \in [AdminKeys -> Texts]
  /\ pc \in [Workers -> {"idle", "publish", "orchestrate", "notify"}]
  /\ job \in [Workers -> {Nothing} \cup [mail : Mails, by : Users, at : Instances,
                                         action : {"approve", "deny"}, text : Texts]]
  /\ refused \in {Nothing} \cup [mail : Mails, by : Users]
  /\ granted \subseteq [mail : Mails, at : Instances]
  /\ lapses \in Nat

(* ADR 0035 and 0037: an ack that reaches dmail-inbound was granted by
   somebody else than the requester; when an AI agent made the request, or set
   the workspace daemon going that did, by a person; a daemon that does not say
   who set it going gets none; and the producer attested who asked. *)
AskedByAgent(m) == \/ m.actor = "ai-agent"
                   \/ m.actor = "workspace-daemon" /\ m.initiating = "ai-agent"

NoLaunderedAck ==
  \A a \in acks :
    /\ a.by # a.mail.requester
    /\ AskedByAgent(a.mail) => a.by \in Humans
    /\ a.mail.actor = "workspace-daemon" => a.mail.initiating # ""
    /\ a.mail.source = "env"

(* On one instance two goroutines never work on the same approval, however
   clicks, expiry of tokens and restarts interleave: the token outlives the
   goroutine it was marked for. *)
OneApproveInFlight ==
  \A v, w \in Workers :
    (~Idle(v) /\ ~Idle(w) /\ job[v].action = "approve" /\ job[w].action = "approve"
       /\ job[v].at = job[w].at /\ Token(job[v].mail) = Token(job[w].mail)) => v = w

(* A click is answered "already processed" only if some approve click of its
   token passed every guard on that instance: refused clicks spend nothing. *)
SpentWasGranted ==
  \A i \in Instances : \A t \in consumed[i] :
    \E g \in granted : g.at = i /\ Token(g.mail) = t

(* One token stands for one granted click of one instance. *)
OneGrantPerToken == OneApproveInFlight /\ SpentWasGranted

(* Tokens are not shared between instances nor kept over a restart; the
   record is.  A notice about an admin mutation that says approved or denied
   says what the record says, for good. *)
AdminNoticeIsTruthful ==
  \A k \in AdminKeys : shown[k] \in {"approved", "denied"} => shown[k] = record[k]

(***************************************************************************)
(* What comments and documents say, and the code does not do.              *)
(***************************************************************************)
(* The buttons of approvalPublisher route a click "to the admin orchestrator":
   no eligible person is refused. *)
AdminButtonsWork ==
  (refused # Nothing /\ refused.mail.kind = "admin_mutation")
    => refused.by \in Agents \cup {refused.mail.requester}
=============================================================================
