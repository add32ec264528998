---------------------------- MODULE DMailInbound ----------------------------
(***************************************************************************)
(* The way of a task to an agent: the confirmation that /agent answers,    *)
(* the click on dispatch_approve, the use case that publishes the task on  *)
(* the dmail-inbound topic, and the dmail-receiver daemon that lands it in *)
(* the outbox phonewave watches.                                           *)
(*                                                                         *)
(* The gateway runs on several instances, each with its own tokens, locks  *)
(* and publisher client.  The daemon handles several messages at once, but *)
(* the subscription is ordered: one message per target at a time.          *)
(***************************************************************************)
EXTENDS Subscription, FiniteSets

CONSTANTS
  Orders,      \* confirmations in the channel: requester, role, project
  Users,       \* people who click
  Allowed,     \* ALLOWED_SLACK_USERS
  Instances,   \* gateway instances
  Goroutines,  \* goroutines of the gateway
  Workers,     \* callbacks of the receiver
  Registered,  \* projects active in the registry
  Multi,       \* PHONEWAVE_OUTBOX_DIRS_BY_PROJECT is set
  Outboxes,    \* the projects it names
  MaxClicks,   \* bound on clicks
  MaxFailures, \* bound on failed publishes, writes and Slack calls
  MaxLapses    \* bound on expired tokens, lost leases and restarts

ASSUME OrdersAssumption == \A o \in Orders : o.requester \in Users
ASSUME NobodyAssumption == Nobody \notin Orders \cup Goroutines \cup Workers \cup Instances
ASSUME InboundBounds ==
  /\ Multi \in BOOLEAN
  /\ MaxClicks \in Nat
  /\ MaxFailures \in Nat
  /\ MaxLapses \in Nat

VARIABLES
  consumed,    \* instance -> orders whose approve token is marked there
  locked,      \* instance -> orders whose operation key is locked there
  paused,      \* instance -> roles whose ordering key its client has paused
  job,         \* goroutine -> [inst, order, at], at "none" when it is free
  note,        \* order -> what the last update of its message says
  topic,       \* everything published on dmail-inbound
  hand, step,  \* the receiver's callbacks: message in hand, next step
  outbox,      \* message -> what a reader of its file in the outbox finds
  written,     \* history: messages whose file was complete once
  taken,       \* history: what phonewave took away
  sent,        \* history: instance -> order -> publications
  clicks, failures, lapses

gateway  == <<consumed, locked, paused, job, note, sent>>
receiver == <<hand, step, outbox, written, taken>>
vars == <<gateway, receiver, topic, clicks, failures, lapses>>

Idle == [inst |-> Nobody, order |-> Nobody, at |-> "none"]
Ids == 1..Len(topic)

(***************************************************************************)
(* The confirmation and InteractiveHandler.handleDispatchAction.           *)
(***************************************************************************)
\* CommandHandler.ServeHTTP: the registry knows the project, if one is named.  The
\* receiver's own list of projects is not consulted.
Ask(o) ==
  /\ note[o] = "none"
  /\ o.project \in Registered \cup {Nobody}
  /\ note' = [note EXCEPT ![o] = "asked"]
  /\ UNCHANGED <<consumed, locked, paused, job, sent, receiver, topic, clicks, failures, lapses>>

ForgetsToken(i, o) == TRUE      \* mutant
Unconsumed(i, o) == o \notin consumed[i]

\* goAsync: the guards ran in the request, the use case runs in a goroutine.
Spawn(i, o) ==
  \E g \in Goroutines :
    /\ job[g].at = "none"
    /\ job' = [job EXCEPT ![g] = [inst |-> i, order |-> o, at |-> "start"]]

\* Someone else's click, and a second click, only get an ephemeral message.
ApproveClick(u, i, o) ==
  /\ note[o] /= "none"
  /\ clicks < MaxClicks
  /\ clicks' = clicks + 1
  /\ IF u = o.requester /\ Unconsumed(i, o)
     THEN /\ consumed' = [consumed EXCEPT ![i] = @ \cup {o}]
          /\ Spawn(i, o)
     ELSE UNCHANGED <<consumed, job>>
  /\ UNCHANGED <<locked, paused, note, sent, receiver, topic, failures, lapses>>

\* dispatch_deny consults no token and touches nothing but the message.
DenyClick(u, i, o) ==
  /\ note[o] /= "none"
  /\ clicks < MaxClicks
  /\ clicks' = clicks + 1
  /\ note' = IF u = o.requester THEN [note EXCEPT ![o] = "cancelled"] ELSE note
  /\ UNCHANGED <<consumed, locked, paused, job, sent, receiver, topic, failures, lapses>>

(***************************************************************************)
(* DispatchService.DispatchAgentTask.                                      *)
(***************************************************************************)
Goto(g, at) == job' = [job EXCEPT ![g].at = at]

Begin(g) ==
  /\ job[g].at = "start"
  /\ LET i == job[g].inst
         o == job[g].order
     IN IF o \in locked[i] \/ o.requester \notin Allowed
        THEN job' = [job EXCEPT ![g] = Idle] /\ UNCHANGED locked
        ELSE Goto(g, "publish") /\ locked' = [locked EXCEPT ![i] = @ \cup {o}]
  /\ UNCHANGED <<consumed, paused, note, sent, receiver, topic, clicks, failures, lapses>>

\* PublishDMail: the topic with the task at its end.
Sent(i, o) ==
  /\ topic' = Append(topic, Fresh(o))
  /\ outbox' = Append(outbox, "none")
  /\ sent' = [sent EXCEPT ![i][o] = @ + 1]

Publish(g) ==
  /\ job[g].at = "publish"
  /\ job[g].order.role \notin paused[job[g].inst]
  /\ Sent(job[g].inst, job[g].order)
  /\ Goto(g, "accepted")
  /\ UNCHANGED <<consumed, locked, paused, note, hand, step, written, taken, clicks, failures, lapses>>

\* A failed publish may have reached the topic.  The client library then refuses
\* the ordering key until ResumePublish, which nothing calls.
PublishFails(g) ==
  /\ job[g].at = "publish"
  /\ job[g].order.role \notin paused[job[g].inst]
  /\ failures < MaxFailures
  /\ failures' = failures + 1
  /\ paused' = [paused EXCEPT ![job[g].inst] = @ \cup {job[g].order.role}]
  /\ Sent(job[g].inst, job[g].order) \/ UNCHANGED <<topic, outbox, sent>>
  /\ Goto(g, "failed")
  /\ UNCHANGED <<consumed, locked, note, hand, step, written, taken, clicks, lapses>>

PublishRefused(g) ==
  /\ job[g].at = "publish"
  /\ job[g].order.role \in paused[job[g].inst]
  /\ Goto(g, "failed")
  /\ UNCHANGED <<consumed, locked, paused, note, sent, receiver, topic, clicks, failures, lapses>>

LeaksLock(i, o) == UNCHANGED locked      \* mutant
Release(i, o) == locked' = [locked EXCEPT ![i] = @ \ {o}]

\* UpdateMessage, whose error is only logged, and the deferred Release.
Tell(g) ==
  /\ job[g].at \in {"accepted", "failed"}
  /\ LET i == job[g].inst
         o == job[g].order
     IN /\ \/ note' = [note EXCEPT ![o] = job[g].at] /\ UNCHANGED failures
           \/ failures < MaxFailures /\ failures' = failures + 1 /\ UNCHANGED note
        /\ Release(i, o)
  /\ job' = [job EXCEPT ![g] = Idle]
  /\ UNCHANGED <<consumed, paused, sent, receiver, topic, clicks, lapses>>

\* MemoryConsumedStore forgets a token after an hour.
Expire(i, o) ==
  /\ lapses < MaxLapses
  /\ o \in consumed[i]
  /\ \A g \in Goroutines : job[g].inst = i => job[g].order /= o
  /\ lapses' = lapses + 1
  /\ consumed' = [consumed EXCEPT ![i] = @ \ {o}]
  /\ UNCHANGED <<locked, paused, job, note, sent, receiver, topic, clicks, failures>>

\* Tokens, locks, goroutines and the publisher client live in memory.
Restart(i) ==
  /\ lapses < MaxLapses
  /\ lapses' = lapses + 1
  /\ consumed' = [consumed EXCEPT ![i] = {}]
  /\ locked' = [locked EXCEPT ![i] = {}]
  /\ paused' = [paused EXCEPT ![i] = {}]
  /\ job' = [g \in Goroutines |-> IF job[g].inst = i THEN Idle ELSE job[g]]
  /\ UNCHANGED <<note, sent, receiver, topic, clicks, failures>>

(***************************************************************************)
(* The subscription: the messages of one ordering key one after the other. *)
(***************************************************************************)
Unordered(i, k) == FALSE      \* mutant
SameKey(i, k) == topic[i].mail.role = topic[k].mail.role

Deliverable(i) ==
  /\ topic[i].at = "queued"
  /\ \A k \in 1..(i - 1) : SameKey(k, i) => Settled(topic[k])

Deliver(w) ==
  /\ hand[w] = Nobody
  /\ \E i \in Ids :
       /\ Deliverable(i)
       /\ topic' = Leased(topic, i, w)
       /\ hand' = [hand EXCEPT ![w] = i]
  /\ step' = [step EXCEPT ![w] = "resolve"]
  /\ UNCHANGED <<gateway, outbox, written, taken, clicks, failures, lapses>>

LeaseLapses(w) ==
  /\ lapses < MaxLapses
  /\ hand[w] /= Nobody
  /\ topic[hand[w]].by = w
  /\ topic' = Released(topic, hand[w], AfterNack(topic[hand[w]]))
  /\ lapses' = lapses + 1
  /\ UNCHANGED <<gateway, receiver, clicks, failures>>

(***************************************************************************)
(* Receiver.OnMessage and OutboxWriter.WriteFile.  The file is named after *)
(* the message, so that two deliveries of one message write the same file  *)
(* and two messages never do.                                              *)
(***************************************************************************)
Routed(o) == Multi => o.project \in Outboxes

IgnoresUnrouted(w) == IF Routed(topic[hand[w]].mail) THEN "look" ELSE "idle"       \* mutant
Resolved(w) == IF Routed(topic[hand[w]].mail) THEN "look" ELSE "nack"

Resolve(w) ==
  /\ step[w] = "resolve"
  /\ step' = [step EXCEPT ![w] = Resolved(w)]
  /\ UNCHANGED <<gateway, hand, outbox, written, taken, topic, clicks, failures, lapses>>

\* The bytes go to a dotfile, which phonewave does not read.
ToFinal(i) == outbox' = [outbox EXCEPT ![i] = "part"]      \* mutant
ToTemp(i) == UNCHANGED outbox

AcksFirst == "ack"         \* mutant
AfterTemp == "rename"

\* A file that is already there is a delivery the daemon saw before.
Look(w) ==
  /\ step[w] = "look"
  /\ IF outbox[hand[w]] = "whole"
     THEN step' = [step EXCEPT ![w] = "ack"] /\ UNCHANGED outbox
     ELSE step' = [step EXCEPT ![w] = AfterTemp] /\ ToTemp(hand[w])
  /\ UNCHANGED <<gateway, hand, written, taken, topic, clicks, failures, lapses>>

Rename(w) ==
  /\ step[w] = "rename"
  /\ outbox' = [outbox EXCEPT ![hand[w]] = "whole"]
  /\ written' = written \cup {hand[w]}
  /\ step' = [step EXCEPT ![w] = "ack"]
  /\ UNCHANGED <<gateway, hand, taken, topic, clicks, failures, lapses>>

\* Any call of WriteFile fails: the temp file is removed.
WriteFails(w) ==
  /\ step[w] \in {"look", "rename"}
  /\ failures < MaxFailures
  /\ failures' = failures + 1
  /\ step' = [step EXCEPT ![w] = "nack"]
  /\ UNCHANGED <<gateway, hand, outbox, written, taken, topic, clicks, lapses>>

Answer(w) ==
  /\ step[w] \in {"ack", "nack"}
  /\ topic' = Answered(topic, hand[w], w, step[w] = "ack")
  /\ hand' = [hand EXCEPT ![w] = Nobody]
  /\ step' = [step EXCEPT ![w] = "idle"]
  /\ UNCHANGED <<gateway, outbox, written, taken, clicks, failures, lapses>>

\* The daemon dies; the messages in its hands are delivered again.
ReceiverDies ==
  /\ lapses < MaxLapses
  /\ lapses' = lapses + 1
  /\ hand' = [w \in Workers |-> Nobody]
  /\ step' = [w \in Workers |-> "idle"]
  /\ topic' = [i \in Ids |-> IF topic[i].at = "leased"
                             THEN [topic[i] EXCEPT !.at = AfterNack(topic[i]), !.by = Nobody]
                             ELSE topic[i]]
  /\ UNCHANGED <<gateway, outbox, written, taken, clicks, failures>>

\* phonewave delivers a file of the outbox and removes it.
Take(i) ==
  /\ outbox[i] /= "none"
  /\ taken' = taken \cup {<<i, outbox[i]>>}
  /\ outbox' = [outbox EXCEPT ![i] = "none"]
  /\ UNCHANGED <<gateway, hand, step, written, topic, clicks, failures, lapses>>

(***************************************************************************)
(* The specification.                                                      *)
(***************************************************************************)
Init ==
  /\ consumed = [i \in Instances |-> {}]
  /\ locked = [i \in Instances |-> {}]
  /\ paused = [i \in Instances |-> {}]
  /\ job = [g \in Goroutines |-> Idle]
  /\ note = [o \in Orders |-> "none"]
  /\ sent = [i \in Instances |-> [o \in Orders |-> 0]]
  /\ topic = << >>
  /\ hand = [w \in Workers |-> Nobody]
  /\ step = [w \in Workers |-> "idle"]
  /\ outbox = << >>
  /\ written = {}
  /\ taken = {}
  /\ clicks = 0
  /\ failures = 0
  /\ lapses = 0

Dispatch(g) == Begin(g) \/ Publish(g) \/ PublishFails(g) \/ PublishRefused(g) \/ Tell(g)
OnMessage(w) == Resolve(w) \/ Look(w) \/ Rename(w) \/ WriteFails(w) \/ Answer(w)

Next ==
  \/ \E o \in Orders : Ask(o)
  \/ \E u \in Users, i \in Instances, o \in Orders : ApproveClick(u, i, o) \/ DenyClick(u, i, o)
  \/ \E i \in Instances : Restart(i) \/ \E o \in Orders : Expire(i, o)
  \/ \E g \in Goroutines : Dispatch(g)
  \/ \E w \in Workers : Deliver(w) \/ OnMessage(w) \/ LeaseLapses(w)
  \/ \E i \in Ids : Take(i)
  \/ ReceiverDies

Spec == Init /\ [][Next]_vars

\* Goroutines and callbacks keep running, and Pub/Sub keeps delivering; nobody has to
\* click and phonewave need not take a file.
Fairness ==
  /\ \A g \in Goroutines : WF_vars(Dispatch(g))
  /\ \A w \in Workers : WF_vars(Deliver(w)) /\ WF_vars(OnMessage(w))

FairSpec == Spec /\ Fairness

(***************************************************************************)
(* Properties.                                                             *)
(***************************************************************************)
\* The variables keep their types; a lock is held exactly while a goroutine of its
\* instance is between TryLock and the deferred Release.
TypeOK ==
  /\ consumed \in [Instances -> SUBSET Orders]
  /\ paused \in [Instances -> SUBSET {o.role : o \in Orders}]
  /\ job \in [Goroutines -> [inst : Instances \cup {Nobody}, order : Orders \cup {Nobody},
                             at : {"none", "start", "publish", "accepted", "failed"}]]
  /\ locked = [i \in Instances |->
                 {job[g].order : g \in {x \in Goroutines :
                     job[x].inst = i /\ job[x].at \in {"publish", "accepted", "failed"}}}]
  /\ note \in [Orders -> {"none", "asked", "accepted", "failed", "cancelled"}]
  /\ sent \in [Instances -> [Orders -> Nat]]
  /\ topic \in Seq(Messages(Orders, Workers))
  /\ hand \in [Workers -> Ids \cup {Nobody}]
  /\ step \in [Workers -> {"idle", "resolve", "look", "rename", "ack", "nack"}]
  /\ outbox \in Seq({"none", "part", "whole"}) /\ Len(outbox) = Len(topic)
  /\ written \subseteq Ids
  /\ taken \subseteq Ids \X {"part", "whole"}
  /\ clicks \in 0..MaxClicks
  /\ failures \in 0..MaxFailures
  /\ lapses \in 0..MaxLapses

\* handler.go:379-399: a button publishes its task at most once per instance, however
\* often it is clicked; only a token that was forgotten allows one more.
OncePerButton ==
  \A i \in Instances, o \in Orders : sent[i][o] <= 1 + lapses

\* receiver.go:90-132: seen through its topic, the bridge is the Courier.  A task is
\* acked only when its file was complete in the outbox, and dead-lettered only after
\* the last delivery, through failed writes, lost leases and deaths of the daemon.
Mailbox == INSTANCE Courier WITH
  state <- [i \in Ids |-> Standing(topic[i])],
  tries <- [i \in Ids |-> topic[i].tries],
  owed  <- Ids \ written
CourierSpec == Mailbox!Spec

\* writer.go:59-91: whoever reads the outbox, at whatever moment of a write, a failure
\* or a death of the daemon, finds whole files only.
TakenWhole == \A x \in taken : x[2] = "whole"

\* tofu/subscriptions.tf:33 and publisher.go:130: tasks for one agent land in the order
\* they were published, except those given up to the dead-letter topic.
LandsInOrder ==
  \A i \in Ids : \A k \in 1..(i - 1) :
    i \in written /\ topic[k].mail.role = topic[i].mail.role
      => k \in written \/ topic[k].at = "dead"

\* receiver.go:97-108: a task that can be routed lands in its outbox although an earlier
\* one for the same agent cannot be routed at all.
RoutableLands ==
  \A o \in Orders : Routed(o) =>
    \A k \in 1..MaxClicks :
      (k \in Ids /\ topic[k].mail = o) ~> (k \in written)

\* dispatch_agent_task.go:25-26: "a failing dispatch can be retried by the operator
\* without admin reset", so each reported failure has a failure of its own.
FailureCanRetry == Cardinality({o \in Orders : note[o] = "failed"}) <= failures
=============================================================================
