------------------------- MODULE DMailInbound_proofs -------------------------
(***************************************************************************)
(* Proofs about DMailInbound, for every set of orders, people, instances,  *)
(* goroutines and callbacks, every routing table, and any number of        *)
(* clicks, failures, lost leases and restarts.                             *)
(***************************************************************************)
EXTENDS DMailInbound, Subscription_proofs

Tasks == Messages(Orders, Workers)

(***************************************************************************)
(* The inductive invariant of the gateway.                                 *)
(***************************************************************************)
At(g, i, o) == job[g].inst = i /\ job[g].order = o
Busy == {"publish", "accepted", "failed"}
Jobs == [inst : Instances \cup {Nobody}, order : Orders \cup {Nobody},
         at : {"none", "start", "publish", "accepted", "failed"}]

GatewayTypes ==
  /\ consumed \in [Instances -> SUBSET Orders]
  /\ paused \in [Instances -> SUBSET {o.role : o \in Orders}]
  /\ job \in [Goroutines -> Jobs]
  /\ locked \in [Instances -> SUBSET Orders]
  /\ note \in [Orders -> {"none", "asked", "accepted", "failed", "cancelled"}]
  /\ sent \in [Instances -> [Orders -> Nat]]
  /\ clicks \in 0..MaxClicks
  /\ failures \in 0..MaxFailures
  /\ lapses \in 0..MaxLapses

(* A goroutine runs for one instance and order, alone, under a marked token. *)
JobInv(g) ==
  IF job[g].at = "none" THEN job[g] = Idle
  ELSE /\ job[g].inst \in Instances
       /\ job[g].order \in consumed[job[g].inst]
       /\ \A h \in Goroutines : At(h, job[g].inst, job[g].order) => h = g

LockInv ==
  \A i \in Instances, o \in Orders :
    o \in locked[i] <=> \E g \in Goroutines : At(g, i, o) /\ job[g].at \in Busy

(* A token allows one publication, and only one that lapsed allows another. *)
SentInv ==
  \A i \in Instances, o \in Orders :
    /\ sent[i][o] <= 1 + lapses
    /\ o \notin consumed[i] => sent[i][o] <= lapses
    /\ \A g \in Goroutines :
         At(g, i, o) /\ job[g].at \in {"start", "publish"} => sent[i][o] <= lapses

GatewayInv == GatewayTypes /\ (\A g \in Goroutines : JobInv(g)) /\ LockInv /\ SentInv

(***************************************************************************)
(* The inductive invariant of the topic, the receiver and the outbox.      *)
(***************************************************************************)
ReceiverTypes ==
  /\ topic \in Seq(Tasks)
  /\ hand \in [Workers -> Ids \cup {Nobody}]
  /\ step \in [Workers -> {"idle", "resolve", "look", "rename", "ack", "nack"}]
  /\ outbox \in Seq({"none", "whole"}) /\ Len(outbox) = Len(topic)
  /\ written \subseteq Ids
  /\ taken \subseteq Ids \X {"whole"}

(* A callback at work has a message, and acks it only when its file was there. *)
CallbackInv(w) ==
  /\ step[w] # "idle" => hand[w] \in Ids
  /\ step[w] = "ack" => hand[w] \in written

(* A file that a reader finds, or whose message was acked, was written. *)
FileInv(i) == outbox[i] = "whole" \/ topic[i].at = "acked" => i \in written

(* What is in a callback's hands, or was written, came after every earlier task
   of its agent was settled. *)
OrderInv ==
  \A i \in Ids : \A k \in 1..(i - 1) :
    /\ topic[k].mail.role = topic[i].mail.role
    /\ i \in written \/ \E w \in Workers : hand[w] = i
    => Settled(topic[k])

ReceiverInv ==
  /\ ReceiverTypes
  /\ AllSound(topic, Workers)
  /\ \A w \in Workers : CallbackInv(w)
  /\ \A i \in Ids : FileInv(i)
  /\ OrderInv

IInv == GatewayInv /\ ReceiverInv

(***************************************************************************)
(* Steps of the gateway.                                                   *)
(***************************************************************************)
LEMMA GotoIs ==
  ASSUME NEW g \in Goroutines, NEW at \in Busy, job \in [Goroutines -> Jobs], Goto(g, at)
  PROVE  /\ job' \in [Goroutines -> Jobs]
         /\ \A h \in Goroutines : h # g => job'[h] = job[h]
         /\ job'[g].inst = job[g].inst /\ job'[g].order = job[g].order /\ job'[g].at = at
  BY DEF Goto, Jobs, Busy

LEMMA FreedIs ==
  ASSUME NEW g \in Goroutines, job \in [Goroutines -> Jobs], job' = [job EXCEPT ![g] = Idle]
  PROVE  /\ job' \in [Goroutines -> Jobs]
         /\ \A h \in Goroutines : h # g => job'[h] = job[h]
         /\ job'[g] = Idle
  BY DEF Jobs, Idle

(* Steps that leave tokens, locks, goroutines and publications alone. *)
LEMMA JobsRest ==
  ASSUME GatewayInv, UNCHANGED <<consumed, job, locked, sent>>, GatewayTypes', lapses <= lapses'
  PROVE  GatewayInv'
<1>1. \A g \in Goroutines : JobInv(g)'
  BY DEF GatewayInv, JobInv, At
<1>2. LockInv'
  BY DEF GatewayInv, LockInv, At, Busy
<1>3. SentInv'
  <2>1. \A i \in Instances, o \in Orders : sent[i][o] \in Nat
    BY DEF GatewayInv, GatewayTypes
  <2>2. lapses \in Nat /\ lapses' \in Nat
    BY InboundBounds DEF GatewayInv, GatewayTypes
  <2> QED BY <2>1, <2>2 DEF GatewayInv, SentInv, At
<1> QED BY <1>1, <1>2, <1>3 DEF GatewayInv

LEMMA GatewayRest ==
  ASSUME GatewayInv, UNCHANGED gateway, clicks' \in 0..MaxClicks,
         failures' \in 0..MaxFailures, lapses' \in 0..MaxLapses, lapses <= lapses'
  PROVE  GatewayInv'
<1>1. GatewayTypes'
  BY DEF GatewayInv, GatewayTypes, gateway
<1> QED BY <1>1, JobsRest DEF gateway

LEMMA AskKeeps ==
  ASSUME GatewayInv, NEW o \in Orders, Ask(o)
  PROVE  GatewayInv'
<1>1. GatewayTypes' /\ lapses <= lapses'
  BY InboundBounds DEF GatewayInv, GatewayTypes, Ask
<1> QED BY <1>1, JobsRest DEF Ask

LEMMA DenyClickKeeps ==
  ASSUME GatewayInv, NEW u \in Users, NEW i \in Instances, NEW o \in Orders, DenyClick(u, i, o)
  PROVE  GatewayInv'
<1>1. GatewayTypes' /\ lapses <= lapses'
  BY InboundBounds DEF GatewayInv, GatewayTypes, DenyClick
<1> QED BY <1>1, JobsRest DEF DenyClick

(* A click that marks a token starts the only goroutine of that token. *)
LEMMA ApproveClickKeeps ==
  ASSUME GatewayInv, NEW u \in Users, NEW i \in Instances, NEW o \in Orders, ApproveClick(u, i, o)
  PROVE  GatewayInv'
<1>1. CASE UNCHANGED <<consumed, job>>
  <2>1. GatewayTypes' /\ lapses <= lapses'
    BY <1>1, InboundBounds DEF GatewayInv, GatewayTypes, ApproveClick
  <2> QED BY <1>1, <2>1, JobsRest DEF ApproveClick
<1>2. ASSUME Unconsumed(i, o), consumed' = [consumed EXCEPT ![i] = @ \cup {o}], Spawn(i, o)
      PROVE  GatewayInv'
  <2>1. PICK g \in Goroutines :
          job[g].at = "none" /\ job' = [job EXCEPT ![g] = [inst |-> i, order |-> o, at |-> "start"]]
    BY <1>2 DEF Spawn
  <2>2. GatewayTypes'
    BY <1>2, <2>1, InboundBounds DEF GatewayInv, GatewayTypes, ApproveClick, Jobs
  <2>3. /\ job'[g].inst = i /\ job'[g].order = o /\ job'[g].at = "start"
        /\ \A h \in Goroutines : h # g => job'[h] = job[h]
    BY <2>1 DEF GatewayInv, GatewayTypes
  <2>4. /\ o \notin consumed[i] /\ o \in consumed'[i]
        /\ \A n \in Instances : consumed[n] \subseteq consumed'[n]
        /\ \A n \in Instances, q \in Orders : <<n, q>> # <<i, o>> => (q \in consumed'[n] <=> q \in consumed[n])
    BY <1>2 DEF GatewayInv, GatewayTypes, Unconsumed
  <2>5. job[g] = Idle /\ \A h \in Goroutines : ~At(h, i, o)
    <3>1. \A h \in Goroutines : JobInv(h)
      BY DEF GatewayInv
    <3> QED BY <2>1, <2>4, <3>1, NobodyAssumption DEF JobInv, At, Idle
  <2>6. \A h \in Goroutines : JobInv(h)'
    <3> SUFFICES ASSUME NEW h \in Goroutines PROVE JobInv(h)'
      OBVIOUS
    <3>1. CASE h = g
      BY <2>3, <2>4, <2>5, <3>1 DEF JobInv, At
    <3>2. CASE h # g
      <4>1. JobInv(h) /\ job'[h] = job[h] /\ ~At(h, i, o)
        BY <2>3, <2>5, <3>2 DEF GatewayInv
      <4>2. CASE job[h].at = "none"
        BY <4>1, <4>2 DEF JobInv
      <4>3. CASE job[h].at # "none"
        BY <2>3, <2>4, <2>5, <3>2, <4>1, <4>3 DEF JobInv, At
      <4> QED BY <4>2, <4>3
    <3> QED BY <3>1, <3>2
  <2>7. LockInv'
    <3>1. locked' = locked
      BY DEF ApproveClick
    <3>2. ASSUME NEW n \in Instances, NEW q \in Orders, NEW h \in Goroutines
          PROVE  (At(h, n, q) /\ job[h].at \in Busy) <=> (At(h, n, q) /\ job[h].at \in Busy)'
      BY <2>3, <2>5 DEF At, Busy, Idle
    <3> QED BY <3>1, <3>2 DEF GatewayInv, LockInv
  <2>8. SentInv'
    <3>1. sent' = sent /\ lapses' = lapses
      BY DEF ApproveClick
    <3>2. ASSUME NEW n \in Instances, NEW q \in Orders, NEW h \in Goroutines,
                 At(h, n, q)', job'[h].at \in {"start", "publish"}
          PROVE  sent[n][q] <= lapses
      BY <2>3, <2>4, <3>2 DEF GatewayInv, SentInv, At
    <3> QED BY <2>4, <3>1, <3>2 DEF GatewayInv, SentInv
  <2> QED BY <2>2, <2>6, <2>7, <2>8 DEF GatewayInv
<1> QED BY <1>1, <1>2 DEF ApproveClick

(* A goroutine at work goes on or ends; the others stay where they are. *)
Moves(g) ==
  /\ job[g].at # "none"
  /\ job' \in [Goroutines -> Jobs]
  /\ \A h \in Goroutines : h # g => job'[h] = job[h]
  /\ \/ job'[g] = Idle
     \/ job'[g].inst = job[g].inst /\ job'[g].order = job[g].order /\ job'[g].at \in Busy

LEMMA WorkerIs ==
  ASSUME GatewayInv, NEW g \in Goroutines, job[g].at # "none"
  PROVE  /\ job[g].inst \in Instances /\ job[g].order \in Orders
         /\ job[g].order \in consumed[job[g].inst]
         /\ \A h \in Goroutines : At(h, job[g].inst, job[g].order) => h = g
  BY DEF GatewayInv, GatewayTypes, JobInv

LEMMA MovesKeepJobs ==
  ASSUME GatewayInv, NEW g \in Goroutines, Moves(g), UNCHANGED consumed
  PROVE  \A h \in Goroutines : JobInv(h)'
<1> SUFFICES ASSUME NEW h \in Goroutines PROVE JobInv(h)'
  OBVIOUS
<1>1. JobInv(h) /\ JobInv(g) /\ Nobody \notin Instances
  BY NobodyAssumption DEF GatewayInv
<1>2. \A n \in Goroutines, i \in Instances, o \in Orders : At(n, i, o)' => At(n, i, o)
  BY <1>1 DEF Moves, At, Idle
<1>3. CASE job'[h].at = "none"
  BY <1>1, <1>3 DEF Moves, JobInv, Idle, Busy
<1>4. CASE job'[h].at # "none"
  <2>1. job[h].at # "none" /\ job'[h].inst = job[h].inst /\ job'[h].order = job[h].order
    BY <1>4 DEF Moves, Idle
  <2>2. job[h].inst \in Instances /\ job[h].order \in Orders
    BY <2>1, WorkerIs
  <2> QED BY <1>1, <1>2, <1>4, <2>1, <2>2 DEF JobInv
<1> QED BY <1>3, <1>4

(* Unless a task was published, the counts stay within their bounds. *)
LEMMA MovesKeepSent ==
  ASSUME GatewayInv, NEW g \in Goroutines, Moves(g), UNCHANGED <<consumed, sent, lapses>>,
         job'[g].at = "publish" => job[g].at = "start"
  PROVE  SentInv'
<1>1. ASSUME NEW i \in Instances, NEW o \in Orders, NEW h \in Goroutines,
             At(h, i, o)', job'[h].at \in {"start", "publish"}
      PROVE  sent[i][o] <= lapses
  <2>1. At(h, i, o) /\ job[h].at \in {"start", "publish"}
    BY <1>1, NobodyAssumption DEF Moves, At, Idle, Busy
  <2> QED BY <2>1 DEF GatewayInv, SentInv
<1> QED BY <1>1 DEF GatewayInv, SentInv

(* The lock is taken when the work starts, and given back when it ends. *)
LEMMA MovesKeepLocks ==
  ASSUME GatewayInv, NEW g \in Goroutines, Moves(g),
         \A i \in Instances, o \in Orders :
           o \in locked'[i] <=> IF At(g, i, o) THEN job'[g].at \in Busy ELSE o \in locked[i]
  PROVE  LockInv'
<1> SUFFICES ASSUME NEW i \in Instances, NEW o \in Orders
             PROVE  (o \in locked[i] <=> \E h \in Goroutines : At(h, i, o) /\ job[h].at \in Busy)'
  BY DEF LockInv
<1>1. o \in locked[i] <=> \E h \in Goroutines : At(h, i, o) /\ job[h].at \in Busy
  BY DEF GatewayInv, LockInv
<1>2. CASE At(g, i, o)
  <2>1. \A h \in Goroutines : At(h, i, o) => h = g
    BY <1>2, WorkerIs DEF Moves, At
  <2>2. \A h \in Goroutines : h # g => ~At(h, i, o)'
    BY <2>1 DEF Moves, At
  <2>3. job'[g].at \in Busy => At(g, i, o)'
    BY <1>2 DEF Moves, At, Busy, Idle
  <2> QED BY <1>2, <2>2, <2>3
<1>3. CASE ~At(g, i, o)
  <2>1. ~At(g, i, o)'
    BY <1>3, NobodyAssumption DEF Moves, At, Idle
  <2>2. \A h \in Goroutines : h # g => (At(h, i, o)' <=> At(h, i, o)) /\ job'[h] = job[h]
    BY DEF Moves, At
  <2> QED BY <1>1, <1>3, <2>1, <2>2
<1> QED BY <1>2, <1>3

LEMMA BeginKeeps ==
  ASSUME GatewayInv, NEW g \in Goroutines, Begin(g)
  PROVE  GatewayInv'
<1> DEFINE i == job[g].inst
           o == job[g].order
<1>1. job[g].at = "start" /\ i \in Instances /\ o \in Orders /\ job \in [Goroutines -> Jobs]
  BY WorkerIs DEF Begin, GatewayInv, GatewayTypes
<1>2. UNCHANGED <<consumed, paused, note, sent, clicks, failures, lapses>>
  BY DEF Begin
<1>3. CASE job' = [job EXCEPT ![g] = Idle] /\ UNCHANGED locked
  <2>1. Moves(g) /\ job'[g] = Idle
    BY <1>1, <1>3, FreedIs DEF Moves
  <2>2. GatewayTypes'
    BY <1>2, <1>3, <2>1 DEF GatewayInv, GatewayTypes, Moves
  <2>3. LockInv'
    <3>1. o \notin locked[i]
      <4>1. \A h \in Goroutines : At(h, i, o) => h = g
        BY <1>1, WorkerIs
      <4> QED BY <1>1, <4>1 DEF GatewayInv, LockInv, Busy
    <3> HIDE DEF i, o
    <3>2. \A n \in Instances, q \in Orders : At(g, n, q) => n = i /\ q = o
      BY DEF At, i, o
    <3> QED BY <1>1, <1>3, <2>1, <3>1, <3>2, MovesKeepLocks DEF Idle, Busy
  <2>4. \A h \in Goroutines : JobInv(h)'
    BY <1>2, <2>1, MovesKeepJobs
  <2>5. SentInv'
    BY <1>2, <2>1, MovesKeepSent DEF Idle
  <2> QED BY <2>2, <2>3, <2>4, <2>5 DEF GatewayInv
<1>4. CASE Goto(g, "publish") /\ locked' = [locked EXCEPT ![i] = @ \cup {o}]
  <2>1. Moves(g) /\ job'[g].at = "publish"
    BY <1>1, <1>4, GotoIs DEF Moves, Busy
  <2>2. GatewayTypes'
    BY <1>1, <1>2, <1>4, <2>1 DEF GatewayInv, GatewayTypes, Moves
  <2>3. LockInv'
    <3> HIDE DEF i, o
    <3>1. \A n \in Instances, q \in Orders : At(g, n, q) <=> n = i /\ q = o
      BY DEF At, i, o
    <3>2. \A n \in Instances, q \in Orders :
            q \in locked'[n] <=> (n = i /\ q = o) \/ q \in locked[n]
      BY <1>1, <1>4 DEF GatewayInv, GatewayTypes
    <3> QED BY <2>1, <3>1, <3>2, MovesKeepLocks DEF Busy
  <2>4. \A h \in Goroutines : JobInv(h)'
    BY <1>2, <2>1, MovesKeepJobs
  <2>5. SentInv'
    BY <1>1, <1>2, <2>1, MovesKeepSent
  <2> QED BY <2>2, <2>3, <2>4, <2>5 DEF GatewayInv
<1> QED BY <1>3, <1>4 DEF Begin

(* The lock of a goroutine at work stays as it is until the work is told. *)
LEMMA LockStays ==
  ASSUME GatewayInv, NEW g \in Goroutines, Moves(g), job[g].at \in Busy, job'[g].at \in Busy,
         UNCHANGED locked
  PROVE  LockInv'
<1>1. \A i \in Instances, o \in Orders : At(g, i, o) => o \in locked[i]
  BY DEF GatewayInv, LockInv
<1> QED BY <1>1, MovesKeepLocks

LEMMA PublishRefusedKeeps ==
  ASSUME GatewayInv, NEW g \in Goroutines, PublishRefused(g)
  PROVE  GatewayInv'
<1>1. job[g].at = "publish" /\ job \in [Goroutines -> Jobs] /\ Goto(g, "failed")
  BY DEF PublishRefused, GatewayInv, GatewayTypes
<1>2. UNCHANGED <<consumed, locked, paused, note, sent, clicks, failures, lapses>>
  BY DEF PublishRefused
<1>3. Moves(g) /\ job'[g].at = "failed"
  BY <1>1, GotoIs DEF Moves, Busy
<1>4. GatewayTypes'
  BY <1>2, <1>3 DEF GatewayInv, GatewayTypes, Moves
<1>5. LockInv'
  BY <1>1, <1>2, <1>3, LockStays DEF Busy
<1>6. (\A h \in Goroutines : JobInv(h)') /\ SentInv'
  BY <1>2, <1>3, MovesKeepJobs, MovesKeepSent
<1> QED BY <1>4, <1>5, <1>6 DEF GatewayInv

(* A publication uses up what its token allows. *)
LEMMA PublicationKeeps ==
  ASSUME GatewayInv, NEW g \in Goroutines, job[g].at = "publish",
         NEW at \in {"accepted", "failed"}, Goto(g, at),
         Sent(job[g].inst, job[g].order) \/ UNCHANGED sent,
         UNCHANGED <<consumed, locked, note, clicks, lapses>>,
         paused' \in [Instances -> SUBSET {o.role : o \in Orders}], failures' \in 0..MaxFailures
  PROVE  GatewayInv'
<1> DEFINE i == job[g].inst
           o == job[g].order
<1>1. i \in Instances /\ o \in Orders /\ o \in consumed[i]
      /\ \A h \in Goroutines : At(h, i, o) => h = g
  BY WorkerIs
<1>2. Moves(g) /\ job'[g].at = at
  BY GotoIs DEF Moves, Busy, GatewayInv, GatewayTypes
<1>3. LockInv' /\ \A h \in Goroutines : JobInv(h)'
  BY <1>2, LockStays, MovesKeepJobs DEF Busy
<1>4. CASE UNCHANGED sent
  <2>1. GatewayTypes'
    BY <1>2, <1>4 DEF GatewayInv, GatewayTypes, Moves
  <2>2. SentInv'
    BY <1>2, <1>4, MovesKeepSent
  <2> QED BY <1>3, <2>1, <2>2 DEF GatewayInv
<1>5. CASE Sent(i, o)
  <2>1. /\ sent' \in [Instances -> [Orders -> Nat]]
        /\ \A n \in Instances, q \in Orders : <<n, q>> # <<i, o>> => sent'[n][q] = sent[n][q]
        /\ sent'[i][o] = sent[i][o] + 1 /\ sent[i][o] \in Nat
    <3>1. sent \in [Instances -> [Orders -> Nat]] /\ sent' = [sent EXCEPT ![i][o] = @ + 1]
      BY <1>5 DEF GatewayInv, GatewayTypes, Sent
    <3> HIDE DEF i, o
    <3> QED BY <1>1, <3>1
  <2>2. GatewayTypes'
    BY <1>2, <2>1 DEF GatewayInv, GatewayTypes, Moves
  <2>3. sent[i][o] <= lapses /\ At(g, i, o) /\ lapses \in Nat
    BY <1>1, InboundBounds DEF GatewayInv, SentInv, GatewayTypes, At
  <2> HIDE DEF i, o
  <2>4. ASSUME NEW n \in Instances, NEW q \in Orders, NEW h \in Goroutines,
               At(h, n, q)', job'[h].at \in {"start", "publish"}
        PROVE  sent'[n][q] <= lapses
    <3>1. At(h, n, q) /\ job[h].at \in {"start", "publish"} /\ h # g
      BY <1>2, <2>4 DEF Moves, At
    <3>2. sent[n][q] <= lapses /\ <<n, q>> # <<i, o>>
      BY <1>1, <3>1 DEF GatewayInv, SentInv
    <3> QED BY <2>1, <3>2
  <2>5. ASSUME NEW n \in Instances, NEW q \in Orders
        PROVE  sent'[n][q] <= 1 + lapses /\ (q \notin consumed[n] => sent'[n][q] <= lapses)
    <3>1. CASE <<n, q>> = <<i, o>>
      BY <1>1, <2>1, <2>3, <3>1
    <3>2. CASE <<n, q>> # <<i, o>>
      BY <2>1, <3>2 DEF GatewayInv, SentInv
    <3> QED BY <3>1, <3>2
  <2>6. SentInv'
    BY <2>4, <2>5 DEF SentInv
  <2> QED BY <1>3, <2>2, <2>6 DEF GatewayInv
<1> QED BY <1>4, <1>5

LEMMA PublishKeeps ==
  ASSUME GatewayInv, NEW g \in Goroutines, Publish(g)
  PROVE  GatewayInv'
<1>1. Goto(g, "accepted") /\ job[g].at = "publish" /\ Sent(job[g].inst, job[g].order)
      /\ UNCHANGED <<consumed, locked, paused, note, clicks, failures, lapses>>
  BY DEF Publish
<1>2. paused' \in [Instances -> SUBSET {o.role : o \in Orders}] /\ failures' \in 0..MaxFailures
  BY <1>1 DEF GatewayInv, GatewayTypes
<1> QED BY <1>1, <1>2, PublicationKeeps

LEMMA PublishFailsKeeps ==
  ASSUME GatewayInv, NEW g \in Goroutines, PublishFails(g)
  PROVE  GatewayInv'
<1> DEFINE i == job[g].inst
           o == job[g].order
<1>1. Goto(g, "failed") /\ job[g].at = "publish"
      /\ UNCHANGED <<consumed, locked, note, clicks, lapses>>
      /\ (Sent(i, o) \/ UNCHANGED <<topic, outbox, sent>>)
      /\ failures < MaxFailures /\ failures' = failures + 1
      /\ paused' = [paused EXCEPT ![i] = @ \cup {o.role}]
  BY DEF PublishFails
<1>2. i \in Instances /\ o \in Orders
  BY <1>1, WorkerIs
<1>3. paused' \in [Instances -> SUBSET {q.role : q \in Orders}] /\ failures' \in 0..MaxFailures
  <2> HIDE DEF i, o
  <2> QED BY <1>1, <1>2, InboundBounds DEF GatewayInv, GatewayTypes
<1> QED BY <1>1, <1>3, PublicationKeeps

LEMMA TellKeeps ==
  ASSUME GatewayInv, NEW g \in Goroutines, Tell(g)
  PROVE  GatewayInv'
<1> DEFINE i == job[g].inst
           o == job[g].order
<1>1. /\ job[g].at \in {"accepted", "failed"}
      /\ \/ note' = [note EXCEPT ![o] = job[g].at] /\ UNCHANGED failures
         \/ failures < MaxFailures /\ failures' = failures + 1 /\ UNCHANGED note
      /\ locked' = [locked EXCEPT ![i] = @ \ {o}]
      /\ job' = [job EXCEPT ![g] = Idle]
      /\ UNCHANGED <<consumed, paused, sent, clicks, lapses>>
  BY DEF Tell, Release
<1>2. i \in Instances /\ o \in Orders /\ job \in [Goroutines -> Jobs]
  BY <1>1, WorkerIs DEF GatewayInv, GatewayTypes
<1>3. Moves(g) /\ job'[g] = Idle
  BY <1>1, <1>2, FreedIs DEF Moves
<1>4. (\A h \in Goroutines : JobInv(h)') /\ SentInv'
  BY <1>1, <1>3, MovesKeepJobs, MovesKeepSent DEF Idle
<1>5. \A n \in Instances, q \in Orders : At(g, n, q) <=> n = i /\ q = o
  BY DEF At
<1> HIDE DEF i, o
<1>6. GatewayTypes'
  BY <1>1, <1>2, <1>3, InboundBounds DEF GatewayInv, GatewayTypes, Moves
<1>7. \A n \in Instances, q \in Orders :
        q \in locked'[n] <=> q \in locked[n] /\ ~(n = i /\ q = o)
  BY <1>1, <1>2 DEF GatewayInv, GatewayTypes
<1>8. LockInv'
  BY <1>3, <1>5, <1>7, MovesKeepLocks DEF Idle, Busy
<1> QED BY <1>4, <1>6, <1>8 DEF GatewayInv

(* A token is forgotten only when nothing runs under it, and counts as a lapse. *)
LEMMA ExpireKeeps ==
  ASSUME GatewayInv, NEW i \in Instances, NEW o \in Orders, Expire(i, o)
  PROVE  GatewayInv'
<1>1. /\ \A g \in Goroutines : ~At(g, i, o)
      /\ lapses < MaxLapses /\ lapses' = lapses + 1
      /\ consumed' = [consumed EXCEPT ![i] = @ \ {o}]
      /\ UNCHANGED <<locked, paused, job, note, sent, clicks, failures>>
  BY DEF Expire, At
<1>2. GatewayTypes' /\ lapses \in Nat
  BY <1>1, InboundBounds DEF GatewayInv, GatewayTypes
<1>3. /\ \A n \in Instances : n # i => consumed'[n] = consumed[n]
      /\ consumed'[i] = consumed[i] \ {o}
  BY <1>1 DEF GatewayInv, GatewayTypes
<1>4. ASSUME NEW g \in Goroutines PROVE JobInv(g)'
  <2>1. JobInv(g) /\ ~At(g, i, o)
    BY <1>1 DEF GatewayInv
  <2> QED BY <1>1, <1>3, <2>1 DEF JobInv, At
<1>5. LockInv'
  BY <1>1 DEF GatewayInv, LockInv, At
<1>6. SentInv'
  <2>1. ASSUME NEW n \in Instances, NEW q \in Orders
        PROVE  sent[n][q] <= 1 + lapses /\ sent[n][q] \in Nat
               /\ (\A g \in Goroutines : At(g, n, q) /\ job[g].at \in {"start", "publish"} => sent[n][q] <= lapses)
    BY DEF GatewayInv, SentInv, GatewayTypes
  <2> QED BY <1>1, <1>2, <2>1 DEF SentInv, At
<1> QED BY <1>2, <1>4, <1>5, <1>6 DEF GatewayInv

LEMMA RestartKeeps ==
  ASSUME GatewayInv, NEW i \in Instances, Restart(i)
  PROVE  GatewayInv'
<1>1. /\ lapses < MaxLapses /\ lapses' = lapses + 1
      /\ consumed' = [consumed EXCEPT ![i] = {}]
      /\ locked' = [locked EXCEPT ![i] = {}]
      /\ paused' = [paused EXCEPT ![i] = {}]
      /\ job' = [g \in Goroutines |-> IF job[g].inst = i THEN Idle ELSE job[g]]
      /\ UNCHANGED <<note, sent, clicks, failures>>
  BY DEF Restart
<1>2. GatewayTypes' /\ lapses \in Nat
  BY <1>1, InboundBounds DEF GatewayInv, GatewayTypes, Jobs, Idle
<1>3. /\ \A n \in Instances : n # i => consumed'[n] = consumed[n] /\ locked'[n] = locked[n]
      /\ consumed'[i] = {} /\ locked'[i] = {}
  BY <1>1 DEF GatewayInv, GatewayTypes
<1>4. ASSUME NEW g \in Goroutines, NEW n \in Instances, NEW o \in Orders
      PROVE  /\ At(g, n, o)' => At(g, n, o) /\ n # i /\ job'[g] = job[g]
             /\ At(g, n, o) /\ n # i => At(g, n, o)' /\ job'[g] = job[g]
  BY <1>1, NobodyAssumption DEF At, Idle
<1>5. ASSUME NEW g \in Goroutines PROVE JobInv(g)'
  <2>1. CASE job[g].inst = i
    BY <1>1, <2>1 DEF JobInv, Idle
  <2>2. CASE job[g].inst # i
    <3>1. JobInv(g) /\ job'[g] = job[g]
      BY <1>1, <2>2 DEF GatewayInv
    <3>2. job[g].at # "none" => job[g].order \in Orders
      BY WorkerIs
    <3> QED BY <1>3, <1>4, <2>2, <3>1, <3>2 DEF JobInv
  <2> QED BY <2>1, <2>2
<1>6. LockInv'
  <2> SUFFICES ASSUME NEW n \in Instances, NEW o \in Orders
               PROVE  (o \in locked[n] <=> \E h \in Goroutines : At(h, n, o) /\ job[h].at \in Busy)'
    BY DEF LockInv
  <2>1. o \in locked[n] <=> \E h \in Goroutines : At(h, n, o) /\ job[h].at \in Busy
    BY DEF GatewayInv, LockInv
  <2> QED BY <1>3, <1>4, <2>1
<1>7. SentInv'
  <2>1. ASSUME NEW n \in Instances, NEW o \in Orders
        PROVE  sent[n][o] <= 1 + lapses /\ sent[n][o] \in Nat
               /\ (\A g \in Goroutines : At(g, n, o) /\ job[g].at \in {"start", "publish"} => sent[n][o] <= lapses)
    BY DEF GatewayInv, SentInv, GatewayTypes
  <2> QED BY <1>1, <1>2, <1>4, <2>1 DEF SentInv
<1> QED BY <1>2, <1>5, <1>6, <1>7 DEF GatewayInv

(***************************************************************************)
(* Steps of the topic, the receiver and the outbox.                        *)
(***************************************************************************)
LEMMA ReceiverRest ==
  ASSUME ReceiverInv, UNCHANGED <<receiver, topic>>
  PROVE  ReceiverInv'
  BY DEF ReceiverInv, ReceiverTypes, CallbackInv, FileInv, OrderInv, receiver, Ids

LEMMA TopicIs ==
  ASSUME ReceiverInv
  PROVE  /\ topic \in Seq(Messages(Orders, Workers)) /\ Len(topic) \in Nat
         /\ AllSound(topic, Workers) /\ Nobody \notin Workers
         /\ \A i \in Ids : topic[i] \in Tasks
  BY ElementOfSeq, LenProperties, NobodyAssumption DEF ReceiverInv, ReceiverTypes, Tasks, Ids

(* A new task has no file, and no callback knows it. *)
LEMMA SentKeeps ==
  ASSUME ReceiverInv, NEW i \in Instances, NEW o \in Orders, Sent(i, o),
         UNCHANGED <<hand, step, written, taken>>
  PROVE  ReceiverInv'
<1>1. /\ topic' \in Seq(Tasks) /\ Len(topic') = Len(topic) + 1
      /\ \A j \in Ids : topic'[j] = topic[j]
      /\ topic'[Len(topic) + 1] = Fresh(o)
      /\ AllSound(topic', Workers)
  <2>1. topic' = Published(topic, o)
    BY DEF Sent, Published
  <2>2. /\ topic' \in Seq(Messages(Orders, Workers)) /\ Len(topic') = Len(topic) + 1
        /\ \A j \in 1..Len(topic) : topic'[j] = topic[j]
        /\ topic'[Len(topic) + 1] = Fresh(o)
        /\ AllSound(topic', Workers)
    BY <2>1, TopicIs, PublishedIs
  <2> QED BY <2>2 DEF Ids, Tasks
<1>2. /\ outbox' \in Seq({"none", "whole"}) /\ Len(outbox') = Len(topic) + 1
      /\ \A j \in Ids : outbox'[j] = outbox[j]
      /\ outbox'[Len(topic) + 1] = "none"
  <2>1. outbox \in Seq({"none", "whole"}) /\ Len(outbox) = Len(topic)
        /\ outbox' = Append(outbox, "none")
    BY DEF ReceiverInv, ReceiverTypes, Sent
  <2> QED BY <2>1, AppendProperties DEF Ids
<1>3. Ids' = Ids \cup {Len(topic) + 1} /\ Len(topic) + 1 \notin Ids
      /\ \A j \in Ids' : \A k \in 1..(j - 1) : k \in Ids
  BY <1>1, TopicIs DEF Ids
<1>4. ReceiverTypes'
  BY <1>1, <1>2, <1>3 DEF ReceiverInv, ReceiverTypes
<1>5. \A w \in Workers : CallbackInv(w)'
  BY <1>3 DEF ReceiverInv, CallbackInv
<1>6. \A j \in Ids' : FileInv(j)'
  BY <1>1, <1>2, <1>3 DEF ReceiverInv, FileInv, Fresh
<1>7. OrderInv'
  <2> SUFFICES ASSUME NEW j \in Ids', NEW k \in 1..(j - 1),
                      topic'[k].mail.role = topic'[j].mail.role,
                      j \in written' \/ \E w \in Workers : hand'[w] = j
               PROVE  Settled(topic'[k])
    BY DEF OrderInv
  <2>1. j \in Ids
    BY <1>3, NoIndexAssumption, TopicIs DEF ReceiverInv, ReceiverTypes
  <2>2. k \in Ids /\ topic'[k] = topic[k] /\ topic'[j] = topic[j]
    BY <1>1, <1>3, <2>1
  <2> QED BY <2>1, <2>2 DEF ReceiverInv, OrderInv
<1> QED BY <1>1, <1>4, <1>5, <1>6, <1>7 DEF ReceiverInv

(* A task reaches a callback when every earlier one of its agent is settled. *)
LEMMA DeliverKeeps ==
  ASSUME ReceiverInv, NEW w \in Workers, Deliver(w)
  PROVE  ReceiverInv'
<1>1. PICK i \in Ids : /\ Deliverable(i) /\ topic' = Leased(topic, i, w)
                       /\ hand' = [hand EXCEPT ![w] = i]
  BY DEF Deliver
<1>2. step' = [step EXCEPT ![w] = "resolve"] /\ UNCHANGED <<outbox, written, taken>>
  BY DEF Deliver
<1>3. /\ topic' \in Seq(Tasks) /\ Len(topic') = Len(topic)
      /\ \A j \in Ids : j # i => topic'[j] = topic[j]
      /\ topic'[i].mail = topic[i].mail /\ topic'[i].at = "leased"
      /\ AllSound(topic', Workers)
  BY <1>1, TopicIs, LeasedIs DEF Deliverable, Ids, Tasks
<1>4. Ids' = Ids
  BY <1>3 DEF Ids
<1>5. hand'[w] = i /\ step'[w] = "resolve"
      /\ \A v \in Workers : v # w => hand'[v] = hand[v] /\ step'[v] = step[v]
  BY <1>1, <1>2 DEF ReceiverInv, ReceiverTypes
<1>6. ReceiverTypes'
  BY <1>1, <1>2, <1>3, <1>4 DEF ReceiverInv, ReceiverTypes
<1>7. \A v \in Workers : CallbackInv(v)'
  BY <1>2, <1>4, <1>5 DEF ReceiverInv, CallbackInv
<1>8. \A j \in Ids' : FileInv(j)'
  BY <1>2, <1>3, <1>4 DEF ReceiverInv, FileInv
<1>9. OrderInv'
  <2> SUFFICES ASSUME NEW j \in Ids, NEW k \in 1..(j - 1),
                      topic'[k].mail.role = topic'[j].mail.role,
                      j \in written' \/ \E v \in Workers : hand'[v] = j
               PROVE  Settled(topic'[k])
    BY <1>4 DEF OrderInv
  <2>1. k \in Ids /\ topic[k].mail.role = topic[j].mail.role
    BY <1>3, TopicIs DEF Ids
  <2>2. CASE j = i
    <3>1. Settled(topic[k])
      BY <1>1, <2>1, <2>2 DEF Deliverable, SameKey
    <3> QED BY <1>3, <2>1, <2>2, <3>1, TopicIs DEF Ids
  <2>3. CASE j # i
    <3>1. Settled(topic[k])
      BY <1>2, <1>5, <2>1, <2>3 DEF ReceiverInv, OrderInv
    <3>2. k # i
      BY <1>1, <3>1 DEF Deliverable, Settled
    <3> QED BY <1>3, <2>1, <3>1, <3>2
  <2> QED BY <2>2, <2>3
<1> QED BY <1>3, <1>6, <1>7, <1>8, <1>9 DEF ReceiverInv

(* The end of a lease, by an answer or by itself: the task stays where it was in
   the order, and is acked only with its file. *)
LEMMA ReleaseKeeps ==
  ASSUME ReceiverInv, NEW i \in Ids, topic[i].by \in Workers,
         NEW at \in {"acked", AfterNack(topic[i])}, at = "acked" => i \in written,
         topic' = Released(topic, i, at),
         hand' \in [Workers -> Ids \cup {Nobody}],
         \A w \in Workers : hand'[w] \in {hand[w], Nobody},
         step' \in [Workers -> {"idle", "resolve", "look", "rename", "ack", "nack"}],
         \A w \in Workers : step'[w] = "idle" \/ (step'[w] = step[w] /\ hand'[w] = hand[w]),
         UNCHANGED <<outbox, written, taken>>
  PROVE  ReceiverInv'
<1>1. /\ topic' \in Seq(Tasks) /\ Len(topic') = Len(topic)
      /\ \A j \in Ids : j # i => topic'[j] = topic[j]
      /\ topic'[i].mail = topic[i].mail /\ topic'[i].at = at
      /\ topic[i].at = "leased"
      /\ AllSound(topic', Workers)
  BY TopicIs, ReleasedIs DEF Ids, Tasks
<1>2. Ids' = Ids
  BY <1>1 DEF Ids
<1>3. ReceiverTypes'
  BY <1>1, <1>2 DEF ReceiverInv, ReceiverTypes
<1>4. \A w \in Workers : CallbackInv(w)'
  BY <1>2 DEF ReceiverInv, CallbackInv
<1>5. \A j \in Ids' : FileInv(j)'
  BY <1>1, <1>2 DEF ReceiverInv, FileInv
<1>6. OrderInv'
  <2> SUFFICES ASSUME NEW j \in Ids, NEW k \in 1..(j - 1),
                      topic'[k].mail.role = topic'[j].mail.role,
                      j \in written' \/ \E w \in Workers : hand'[w] = j
               PROVE  Settled(topic'[k])
    BY <1>2 DEF OrderInv
  <2>1. k \in Ids /\ topic[k].mail.role = topic[j].mail.role
    BY <1>1, TopicIs DEF Ids
  <2>2. j \in written \/ \E w \in Workers : hand[w] = j
    BY NoIndexAssumption, TopicIs DEF Ids
  <2>3. Settled(topic[k])
    BY <2>1, <2>2 DEF ReceiverInv, OrderInv
  <2>4. k # i
    BY <1>1, <2>3 DEF Settled
  <2> QED BY <1>1, <2>1, <2>3, <2>4
<1> QED BY <1>1, <1>3, <1>4, <1>5, <1>6 DEF ReceiverInv

LEMMA LeaseLapsesKeeps ==
  ASSUME ReceiverInv, NEW w \in Workers, LeaseLapses(w)
  PROVE  ReceiverInv'
<1>1. /\ topic[hand[w]].by = w /\ hand[w] # Nobody
      /\ topic' = Released(topic, hand[w], AfterNack(topic[hand[w]]))
      /\ UNCHANGED <<hand, step, outbox, written, taken>>
  BY DEF LeaseLapses, receiver
<1>2. PICK i \in Ids : i = hand[w]
  BY <1>1 DEF ReceiverInv, ReceiverTypes
<1>3. AfterNack(topic[i]) # "acked"
  BY DEF AfterNack
<1>4. hand' \in [Workers -> Ids \cup {Nobody}]
      /\ step' \in [Workers -> {"idle", "resolve", "look", "rename", "ack", "nack"}]
  BY <1>1 DEF ReceiverInv, ReceiverTypes
<1> QED BY <1>1, <1>2, <1>3, <1>4, ReleaseKeeps

LEMMA AnswerKeeps ==
  ASSUME ReceiverInv, NEW w \in Workers, Answer(w)
  PROVE  ReceiverInv'
<1>1. /\ step[w] \in {"ack", "nack"}
      /\ topic' = Answered(topic, hand[w], w, step[w] = "ack")
      /\ hand' = [hand EXCEPT ![w] = Nobody]
      /\ step' = [step EXCEPT ![w] = "idle"]
      /\ UNCHANGED <<outbox, written, taken>>
  BY DEF Answer
<1>2. CallbackInv(w)
  BY DEF ReceiverInv
<1>3. PICK i \in Ids : i = hand[w]
  BY <1>1, <1>2 DEF CallbackInv
<1>4. /\ hand' \in [Workers -> Ids \cup {Nobody}]
      /\ \A v \in Workers : hand'[v] \in {hand[v], Nobody}
      /\ step' \in [Workers -> {"idle", "resolve", "look", "rename", "ack", "nack"}]
      /\ \A v \in Workers : step'[v] = "idle" \/ (step'[v] = step[v] /\ hand'[v] = hand[v])
  BY <1>1 DEF ReceiverInv, ReceiverTypes
<1>5. CASE topic[i].by = w
  <2>1. PICK at \in {"acked", AfterNack(topic[i])} :
          (at = "acked" => step[w] = "ack") /\ topic' = Released(topic, i, at)
    BY <1>1, <1>3, <1>5 DEF Answered, AfterNack
  <2>2. at = "acked" => i \in written
    BY <1>2, <1>3, <2>1 DEF CallbackInv
  <2> QED BY <1>1, <1>4, <1>5, <2>1, <2>2, ReleaseKeeps
<1>6. CASE topic[i].by # w
  <2>1. topic' = topic /\ Ids' = Ids
    BY <1>1, <1>3, <1>6 DEF Answered, Ids
  <2>2. ReceiverTypes' /\ \A v \in Workers : CallbackInv(v)'
    BY <1>1, <1>4, <2>1 DEF ReceiverInv, ReceiverTypes, CallbackInv
  <2>3. \A j \in Ids' : FileInv(j)'
    BY <1>1, <2>1 DEF ReceiverInv, FileInv
  <2>4. OrderInv'
    <3>1. \A j \in Ids : (\E v \in Workers : hand'[v] = j) => \E v \in Workers : hand[v] = j
      BY <1>4, NoIndexAssumption, TopicIs DEF Ids
    <3> QED BY <1>1, <2>1, <3>1 DEF ReceiverInv, OrderInv
  <2> QED BY <2>1, <2>2, <2>3, <2>4 DEF ReceiverInv
<1> QED BY <1>5, <1>6

LEMMA ReceiverDiesKeeps ==
  ASSUME ReceiverInv, ReceiverDies
  PROVE  ReceiverInv'
<1>1. /\ hand' = [w \in Workers |-> Nobody]
      /\ step' = [w \in Workers |-> "idle"]
      /\ topic' = AllReleased(topic)
      /\ UNCHANGED <<outbox, written, taken>>
  BY DEF ReceiverDies, AllReleased, Ids
<1>2. /\ topic' \in Seq(Tasks) /\ Len(topic') = Len(topic)
      /\ \A j \in Ids : topic'[j].mail = topic[j].mail
      /\ \A j \in Ids : Settled(topic[j]) => topic'[j] = topic[j]
      /\ \A j \in Ids : topic'[j].at = "acked" => topic[j].at = "acked"
      /\ AllSound(topic', Workers)
  BY <1>1, TopicIs, AllReleasedIs DEF Ids, Tasks
<1>3. Ids' = Ids
  BY <1>2 DEF Ids
<1>4. ReceiverTypes' /\ \A w \in Workers : CallbackInv(w)'
  BY <1>1, <1>2, <1>3 DEF ReceiverInv, ReceiverTypes, CallbackInv
<1>5. \A j \in Ids' : FileInv(j)'
  BY <1>1, <1>2, <1>3 DEF ReceiverInv, FileInv
<1>6. OrderInv'
  <2> SUFFICES ASSUME NEW j \in Ids, NEW k \in 1..(j - 1),
                      topic'[k].mail.role = topic'[j].mail.role, j \in written
               PROVE  Settled(topic'[k])
    BY <1>1, <1>3, NoIndexAssumption, TopicIs DEF OrderInv, Ids
  <2>1. k \in Ids /\ topic[k].mail.role = topic[j].mail.role
    BY <1>2, TopicIs DEF Ids
  <2> QED BY <1>2, <2>1 DEF ReceiverInv, OrderInv
<1> QED BY <1>2, <1>4, <1>5, <1>6 DEF ReceiverInv

(* Steps of a callback that leave the topic alone. *)
CallbackStep(w) == Resolve(w) \/ Look(w) \/ Rename(w) \/ WriteFails(w)

LEMMA CallbackStepKeeps ==
  ASSUME ReceiverInv, NEW w \in Workers, CallbackStep(w)
  PROVE  ReceiverInv'
<1>1. UNCHANGED <<topic, hand, taken>> /\ step[w] # "idle" /\ Ids' = Ids
  BY DEF CallbackStep, Resolve, Look, Rename, WriteFails, Ids
<1>2. PICK i \in Ids : i = hand[w]
  BY <1>1 DEF ReceiverInv, CallbackInv
<1>3. \A v \in Workers : v # w => step'[v] = step[v]
  BY DEF CallbackStep, Resolve, Look, Rename, WriteFails, ReceiverInv, ReceiverTypes
<1>4. /\ step' \in [Workers -> {"idle", "resolve", "look", "rename", "ack", "nack"}]
      /\ \/ UNCHANGED <<outbox, written>> /\ (step'[w] = "ack" => i \in written)
         \/ /\ outbox' = [outbox EXCEPT ![i] = "whole"] /\ written' = written \cup {i}
  <2>1. CASE Resolve(w)
    BY <1>2, <2>1 DEF Resolve, Resolved, ReceiverInv, ReceiverTypes
  <2>2. CASE Look(w)
    BY <1>2, <2>2 DEF Look, ToTemp, AfterTemp, FileInv, ReceiverInv, ReceiverTypes
  <2>3. CASE Rename(w)
    BY <1>2, <2>3 DEF Rename, ReceiverInv, ReceiverTypes
  <2>4. CASE WriteFails(w)
    BY <1>2, <2>4 DEF WriteFails, ReceiverInv, ReceiverTypes
  <2> QED BY <2>1, <2>2, <2>3, <2>4 DEF CallbackStep
<1>5. CASE UNCHANGED <<outbox, written>> /\ (step'[w] = "ack" => i \in written)
  BY <1>1, <1>2, <1>3, <1>4, <1>5 DEF ReceiverInv, ReceiverTypes, CallbackInv, FileInv, OrderInv
<1>6. CASE outbox' = [outbox EXCEPT ![i] = "whole"] /\ written' = written \cup {i}
  <2>1. ReceiverTypes' /\ \A j \in Ids : outbox'[j] = IF j = i THEN "whole" ELSE outbox[j]
    <3>1. outbox \in Seq({"none", "whole"}) /\ Len(outbox) = Len(topic)
      BY DEF ReceiverInv, ReceiverTypes
    <3>2. /\ outbox' \in Seq({"none", "whole"}) /\ Len(outbox') = Len(topic)
          /\ \A j \in Ids : outbox'[j] = IF j = i THEN "whole" ELSE outbox[j]
      BY <1>6, <3>1, ExceptSeq DEF Ids
    <3> QED BY <1>1, <1>4, <1>6, <3>2 DEF ReceiverInv, ReceiverTypes
  <2>2. (\A v \in Workers : CallbackInv(v)') /\ \A j \in Ids' : FileInv(j)'
    BY <1>1, <1>2, <1>3, <1>6, <2>1 DEF ReceiverInv, CallbackInv, FileInv
  <2>3. OrderInv'
    BY <1>1, <1>2, <1>6 DEF ReceiverInv, OrderInv
  <2> QED BY <1>1, <2>1, <2>2, <2>3 DEF ReceiverInv
<1> QED BY <1>4, <1>5, <1>6

LEMMA TakeKeeps ==
  ASSUME ReceiverInv, NEW i \in Ids, Take(i)
  PROVE  ReceiverInv'
<1>1. /\ outbox[i] # "none" /\ taken' = taken \cup {<<i, outbox[i]>>}
      /\ outbox' = [outbox EXCEPT ![i] = "none"]
      /\ UNCHANGED <<hand, step, written, topic>> /\ Ids' = Ids
  BY DEF Take, Ids
<1>2. outbox \in Seq({"none", "whole"}) /\ Len(outbox) = Len(topic)
  BY DEF ReceiverInv, ReceiverTypes
<1>3. /\ outbox' \in Seq({"none", "whole"}) /\ Len(outbox') = Len(topic)
      /\ \A j \in Ids : outbox'[j] = IF j = i THEN "none" ELSE outbox[j]
  BY <1>1, <1>2, ExceptSeq DEF Ids
<1>4. outbox[i] = "whole"
  BY <1>1, <1>2, ElementOfSeq DEF Ids
<1>5. ReceiverTypes'
  BY <1>1, <1>3, <1>4 DEF ReceiverInv, ReceiverTypes
<1>6. (\A v \in Workers : CallbackInv(v)') /\ (\A j \in Ids' : FileInv(j)') /\ OrderInv'
  BY <1>1, <1>3 DEF ReceiverInv, CallbackInv, FileInv, OrderInv
<1> QED BY <1>1, <1>5, <1>6 DEF ReceiverInv

(***************************************************************************)
(* The invariant.                                                          *)
(***************************************************************************)
LEMMA InitIInv == Init => IInv
<1> SUFFICES ASSUME Init PROVE IInv
  OBVIOUS
<1>1. GatewayTypes
  BY InboundBounds DEF Init, GatewayTypes, Jobs, Idle
<1>2. \A g \in Goroutines : JobInv(g)
  BY DEF Init, JobInv, Idle
<1>3. LockInv
  BY DEF Init, LockInv, Busy, Idle
<1>4. SentInv
  BY DEF Init, SentInv, Idle
<1>5. topic = << >> /\ Ids = {}
  BY DEF Init, Ids
<1>6. ReceiverTypes
  BY <1>5 DEF Init, ReceiverTypes, Ids
<1>7. AllSound(topic, Workers) /\ (\A w \in Workers : CallbackInv(w))
      /\ (\A i \in Ids : FileInv(i)) /\ OrderInv
  BY <1>5 DEF Init, AllSound, CallbackInv, OrderInv
<1> QED BY <1>1, <1>2, <1>3, <1>4, <1>6, <1>7 DEF IInv, GatewayInv, ReceiverInv

(* The clicks, the goroutines and the instances. *)
GatewayStep ==
  \/ \E o \in Orders : Ask(o)
  \/ \E u \in Users, i \in Instances, o \in Orders : ApproveClick(u, i, o) \/ DenyClick(u, i, o)
  \/ \E i \in Instances : Restart(i) \/ \E o \in Orders : Expire(i, o)
  \/ \E g \in Goroutines : Dispatch(g)

(* Pub/Sub, the receiver and phonewave. *)
ReceiverStep ==
  \/ \E w \in Workers : Deliver(w) \/ OnMessage(w) \/ LeaseLapses(w)
  \/ \E i \in Ids : Take(i)
  \/ ReceiverDies

LEMMA NextIs == Next <=> GatewayStep \/ ReceiverStep
  BY DEF Next, GatewayStep, ReceiverStep

LEMMA GatewayStepKeepsGateway == ASSUME GatewayInv, GatewayStep PROVE GatewayInv'
<1>1. ASSUME NEW g \in Goroutines, Dispatch(g) PROVE GatewayInv'
  BY <1>1, BeginKeeps, PublishKeeps, PublishFailsKeeps, PublishRefusedKeeps, TellKeeps DEF Dispatch
<1> QED BY <1>1, AskKeeps, ApproveClickKeeps, DenyClickKeeps, RestartKeeps, ExpireKeeps DEF GatewayStep

LEMMA ReceiverStepKeepsGateway == ASSUME GatewayInv, ReceiverStep PROVE GatewayInv'
<1>1. /\ UNCHANGED <<gateway, clicks>>
      /\ \/ UNCHANGED failures
         \/ failures < MaxFailures /\ failures' = failures + 1
      /\ \/ UNCHANGED lapses
         \/ lapses < MaxLapses /\ lapses' = lapses + 1
  BY DEF ReceiverStep, OnMessage, Deliver, LeaseLapses, Resolve, Look, Rename, WriteFails, Answer,
     Take, ReceiverDies
<1>2. /\ clicks' \in 0..MaxClicks /\ failures' \in 0..MaxFailures /\ lapses' \in 0..MaxLapses
      /\ lapses <= lapses'
  BY <1>1, InboundBounds DEF GatewayInv, GatewayTypes
<1> QED BY <1>1, <1>2, GatewayRest

(* What a step of the gateway does to the topic: a task is added, or nothing. *)
LEMMA GatewayStepSends ==
  ASSUME GatewayInv, GatewayStep
  PROVE  \/ UNCHANGED <<receiver, topic>>
         \/ \E i \in Instances, o \in Orders :
              Sent(i, o) /\ UNCHANGED <<hand, step, written, taken>>
<1>1. ASSUME NEW g \in Goroutines, Publish(g) \/ PublishFails(g)
      PROVE  \/ UNCHANGED <<receiver, topic>>
             \/ \E i \in Instances, o \in Orders :
                  Sent(i, o) /\ UNCHANGED <<hand, step, written, taken>>
  <2>1. job[g].at = "publish"
    BY <1>1 DEF Publish, PublishFails
  <2>2. job[g].inst \in Instances /\ job[g].order \in Orders
    BY <2>1, WorkerIs
  <2>3. UNCHANGED <<hand, step, written, taken>>
        /\ (UNCHANGED <<topic, outbox>> \/ Sent(job[g].inst, job[g].order))
    BY <1>1 DEF Publish, PublishFails
  <2> QED BY <2>2, <2>3 DEF receiver
<1>2. ASSUME NEW g \in Goroutines, Begin(g) \/ PublishRefused(g) \/ Tell(g)
      PROVE  UNCHANGED <<receiver, topic>>
  BY <1>2 DEF Begin, PublishRefused, Tell
<1>3. CASE \E g \in Goroutines : Dispatch(g)
  BY <1>1, <1>2, <1>3 DEF Dispatch
<1>4. CASE ~\E g \in Goroutines : Dispatch(g)
  BY <1>4 DEF GatewayStep, Ask, ApproveClick, DenyClick, Restart, Expire
<1> QED BY <1>3, <1>4

LEMMA ReceiverStepKeepsReceiver == ASSUME ReceiverInv, ReceiverStep PROVE ReceiverInv'
<1>1. ASSUME NEW w \in Workers, OnMessage(w) PROVE ReceiverInv'
  BY <1>1, CallbackStepKeeps, AnswerKeeps DEF OnMessage, CallbackStep
<1> QED BY <1>1, DeliverKeeps, LeaseLapsesKeeps, TakeKeeps, ReceiverDiesKeeps DEF ReceiverStep

LEMMA StepIInv == IInv /\ [Next]_vars => IInv'
<1> SUFFICES ASSUME IInv, [Next]_vars PROVE IInv'
  OBVIOUS
<1> USE DEF IInv
<1>1. CASE GatewayStep
  BY <1>1, GatewayStepKeepsGateway, GatewayStepSends, ReceiverRest, SentKeeps
<1>2. CASE ReceiverStep
  BY <1>2, ReceiverStepKeepsGateway, ReceiverStepKeepsReceiver
<1>3. CASE UNCHANGED vars
  <2>1. clicks' \in 0..MaxClicks /\ failures' \in 0..MaxFailures /\ lapses' \in 0..MaxLapses
        /\ lapses <= lapses'
    BY <1>3, InboundBounds DEF vars, GatewayInv, GatewayTypes
  <2> QED BY <1>3, <2>1, GatewayRest, ReceiverRest DEF vars
<1> QED BY <1>1, <1>2, <1>3, NextIs

(* Every state of every behaviour satisfies the invariant. *)
THEOREM Invariance == Spec => []IInv
BY InitIInv, StepIInv, PTL DEF Spec

(***************************************************************************)
(* The properties.                                                         *)
(***************************************************************************)
(* The variables keep their types, and the locks of an instance are exactly the
   orders its goroutines work on. *)
THEOREM TypeCorrect == Spec => []TypeOK
<1>1. IInv => TypeOK
  <2> SUFFICES ASSUME IInv PROVE TypeOK
    OBVIOUS
  <2>1. locked = [i \in Instances |->
                    {job[g].order : g \in {x \in Goroutines :
                        job[x].inst = i /\ job[x].at \in {"publish", "accepted", "failed"}}}]
    <3> DEFINE held(i) == {job[g].order : g \in {x \in Goroutines :
                             job[x].inst = i /\ job[x].at \in {"publish", "accepted", "failed"}}}
    <3>1. ASSUME NEW i \in Instances PROVE locked[i] = held(i)
      <4>1. locked[i] \subseteq Orders
        BY DEF IInv, GatewayInv, GatewayTypes
      <4>2. ASSUME NEW o \in held(i) PROVE o \in Orders
        BY WorkerIs DEF IInv
      <4>3. ASSUME NEW o \in Orders PROVE o \in locked[i] <=> o \in held(i)
        BY DEF IInv, GatewayInv, LockInv, At, Busy
      <4> QED BY <4>1, <4>2, <4>3
    <3>2. locked = [i \in Instances |-> locked[i]]
      BY DEF IInv, GatewayInv, GatewayTypes
    <3> HIDE DEF held
    <3>3. locked = [i \in Instances |-> held(i)]
      BY <3>1, <3>2
    <3> QED BY <3>3 DEF held
  <2>2. outbox \in Seq({"none", "part", "whole"}) /\ Len(outbox) = Len(topic)
    <3>1. outbox \in [1..Len(outbox) -> {"none", "whole"}] /\ Len(outbox) \in Nat
          /\ Len(outbox) = Len(topic)
      BY LenProperties DEF IInv, ReceiverInv, ReceiverTypes
    <3>2. outbox \in [1..Len(outbox) -> {"none", "part", "whole"}]
      BY <3>1
    <3> QED BY <3>1, <3>2
  <2>3. consumed \in [Instances -> SUBSET Orders]
        /\ paused \in [Instances -> SUBSET {o.role : o \in Orders}]
        /\ job \in [Goroutines -> Jobs]
        /\ note \in [Orders -> {"none", "asked", "accepted", "failed", "cancelled"}]
        /\ sent \in [Instances -> [Orders -> Nat]]
        /\ clicks \in 0..MaxClicks /\ failures \in 0..MaxFailures /\ lapses \in 0..MaxLapses
    BY DEF IInv, GatewayInv, GatewayTypes
  <2>4. topic \in Seq(Tasks) /\ hand \in [Workers -> Ids \cup {Nobody}]
        /\ step \in [Workers -> {"idle", "resolve", "look", "rename", "ack", "nack"}]
        /\ written \subseteq Ids /\ taken \subseteq Ids \X {"part", "whole"}
    BY DEF IInv, ReceiverInv, ReceiverTypes
  <2> QED BY <2>1, <2>2, <2>3, <2>4 DEF TypeOK, Tasks, Jobs
<1> QED BY <1>1, Invariance, PTL

(* A button publishes its task once per instance; a further publication needs a
   token that lapsed. *)
THEOREM OncePerButtonHolds == Spec => []OncePerButton
<1>1. IInv => OncePerButton
  BY DEF IInv, GatewayInv, SentInv, OncePerButton
<1> QED BY <1>1, Invariance, PTL

(* A reader of the outbox finds whole files only. *)
THEOREM TakenWholeHolds == Spec => []TakenWhole
<1>1. IInv => TakenWhole
  BY DEF IInv, ReceiverInv, ReceiverTypes, TakenWhole
<1> QED BY <1>1, Invariance, PTL

(* The tasks of one agent land in the order of their publication, but for those
   that were given up. *)
THEOREM LandsInOrderHolds == Spec => []LandsInOrder
<1>1. IInv => LandsInOrder
  <2> SUFFICES ASSUME IInv, NEW i \in Ids, NEW k \in 1..(i - 1), i \in written,
                      topic[k].mail.role = topic[i].mail.role, k \notin written
               PROVE  topic[k].at = "dead"
    BY DEF LandsInOrder
  <2>1. k \in Ids
    BY TopicIs DEF IInv, Ids
  <2>2. Settled(topic[k]) /\ FileInv(k)
    BY <2>1 DEF IInv, ReceiverInv, OrderInv
  <2> QED BY <2>2 DEF Settled, FileInv
<1> QED BY <1>1, Invariance, PTL

(***************************************************************************)
(* The bridge is the Courier.                                              *)
(***************************************************************************)
Owed == Ids \ written

LEMMA Seen ==
  /\ [i \in Ids |-> Standing(topic[i])] = StatesOf(topic)
  /\ [i \in Ids |-> topic[i].tries] = TriesOf(topic)
  /\ DOMAIN StatesOf(topic) = Ids /\ DOMAIN TriesOf(topic) = Ids
  /\ \A i \in Ids : StatesOf(topic)[i] = Standing(topic[i]) /\ TriesOf(topic)[i] = topic[i].tries
  BY DEF StatesOf, TriesOf, Ids

LEMMA SeenNext ==
  /\ [i \in Ids |-> Standing(topic[i])]' = StatesOf(topic')
  /\ [i \in Ids |-> topic[i].tries]' = TriesOf(topic')
  BY DEF StatesOf, TriesOf, Ids

(* A publication posts a message that is owed. *)
LEMMA SentPosts ==
  ASSUME ReceiverInv, NEW i \in Instances, NEW o \in Orders, Sent(i, o), UNCHANGED written
  PROVE  Mailbox!Post
<1>1. topic' = Published(topic, o)
  BY DEF Sent, Published
<1>2. /\ Len(topic') = Len(topic) + 1
      /\ StatesOf(topic') = Append(StatesOf(topic), "open")
      /\ TriesOf(topic') = Append(TriesOf(topic), 0)
  BY <1>1, TopicIs, PublishedIs
<1>3. Len(StatesOf(topic)) = Len(topic) /\ Len(topic) \in Nat
  BY TopicIs DEF StatesOf
<1>4. Owed' = Owed \cup {Len(topic) + 1}
  BY <1>2, <1>3 DEF Owed, Ids, ReceiverInv, ReceiverTypes
<1> QED BY <1>2, <1>3, <1>4, Seen, SeenNext DEF Mailbox!Post, Owed

LEMMA DeliverAttempts ==
  ASSUME ReceiverInv, NEW w \in Workers, Deliver(w)
  PROVE  \E i \in Ids : Mailbox!Attempt(i)
<1>1. PICK i \in Ids : Deliverable(i) /\ topic' = Leased(topic, i, w)
  BY DEF Deliver
<1>2. /\ StatesOf(topic') = StatesOf(topic)
      /\ TriesOf(topic') = [TriesOf(topic) EXCEPT ![i] = @ + 1]
      /\ topic[i].tries < MaxAttempts /\ Len(topic') = Len(topic)
  BY <1>1, TopicIs, LeasedIs DEF Deliverable, Ids
<1>3. UNCHANGED Owed
  BY <1>2 DEF Deliver, Owed, Ids
<1>4. StatesOf(topic)[i] = "open"
  BY <1>1, Seen DEF Deliverable, Standing
<1>5. Mailbox!Attempt(i)
  BY <1>2, <1>3, <1>4, Seen, SeenNext DEF Mailbox!Attempt, Mailbox!Open, Owed
<1> QED BY <1>5

(* The end of a lease is an acknowledgement, a giving up, or nothing. *)
LEMMA ReleaseEnds ==
  ASSUME ReceiverInv, NEW i \in Ids, topic[i].by \in Workers,
         NEW at \in {"acked", AfterNack(topic[i])}, at = "acked" => i \in written,
         topic' = Released(topic, i, at), UNCHANGED written
  PROVE  \/ Mailbox!Acknowledge(i) \/ Mailbox!GiveUp({i}) \/ UNCHANGED Mailbox!vars
<1>1. /\ Len(topic') = Len(topic) /\ topic[i].at = "leased" /\ topic[i].tries > 0
      /\ at = "queued" => StatesOf(topic') = StatesOf(topic)
      /\ at # "queued" => StatesOf(topic') = [StatesOf(topic) EXCEPT ![i] = at]
      /\ at = "dead" => topic[i].tries = MaxAttempts
      /\ at \in {"queued", "acked", "dead"}
      /\ TriesOf(topic') = TriesOf(topic)
  BY TopicIs, ReleasedIs DEF Ids
<1>2. UNCHANGED Owed
  BY <1>1 DEF Owed, Ids
<1>3. StatesOf(topic)[i] = "open" /\ TriesOf(topic)[i] = topic[i].tries
  BY <1>1, Seen DEF Standing
<1>4. CASE at = "queued"
  BY <1>1, <1>2, <1>4, Seen, SeenNext DEF Mailbox!vars, Owed
<1>5. CASE at = "acked"
  <2>1. i \notin Owed
    BY <1>5 DEF Owed
  <2>2. Mailbox!Acknowledge(i)
    BY <1>1, <1>2, <1>3, <1>5, <2>1, Seen, SeenNext DEF Mailbox!Acknowledge, Mailbox!Open, Owed
  <2> QED BY <2>2
<1>6. CASE at = "dead"
  <2>1. StatesOf(topic') = [j \in Ids |-> IF j \in {i} THEN "dead" ELSE StatesOf(topic)[j]]
    BY <1>1, <1>6, Seen DEF StatesOf
  <2>2. Mailbox!GiveUp({i})
    BY <1>1, <1>2, <1>3, <1>6, <2>1, Seen, SeenNext DEF Mailbox!GiveUp, Mailbox!Open, Owed
  <2> QED BY <2>2
<1> QED BY <1>1, <1>4, <1>5, <1>6

LEMMA LeaseLapsesEnds ==
  ASSUME ReceiverInv, NEW w \in Workers, LeaseLapses(w)
  PROVE  \E i \in Ids : Mailbox!Acknowledge(i) \/ Mailbox!GiveUp({i}) \/ UNCHANGED Mailbox!vars
<1>1. /\ topic[hand[w]].by = w /\ hand[w] # Nobody
      /\ topic' = Released(topic, hand[w], AfterNack(topic[hand[w]]))
      /\ UNCHANGED written
  BY DEF LeaseLapses, receiver
<1>2. PICK i \in Ids : i = hand[w]
  BY <1>1 DEF ReceiverInv, ReceiverTypes
<1>3. AfterNack(topic[i]) # "acked"
  BY DEF AfterNack
<1> QED BY <1>1, <1>2, <1>3, ReleaseEnds

LEMMA AnswerEnds ==
  ASSUME ReceiverInv, NEW w \in Workers, Answer(w)
  PROVE  \E i \in Ids : Mailbox!Acknowledge(i) \/ Mailbox!GiveUp({i}) \/ UNCHANGED Mailbox!vars
<1>1. /\ step[w] \in {"ack", "nack"} /\ CallbackInv(w)
      /\ topic' = Answered(topic, hand[w], w, step[w] = "ack")
      /\ UNCHANGED written
  BY DEF Answer, ReceiverInv
<1>2. PICK i \in Ids : i = hand[w]
  BY <1>1 DEF CallbackInv
<1>3. CASE topic[i].by = w
  <2>1. PICK at \in {"acked", AfterNack(topic[i])} :
          (at = "acked" => step[w] = "ack") /\ topic' = Released(topic, i, at)
    BY <1>1, <1>2, <1>3 DEF Answered, AfterNack
  <2>2. at = "acked" => i \in written
    BY <1>1, <1>2, <2>1 DEF CallbackInv
  <2> QED BY <1>1, <1>3, <2>1, <2>2, ReleaseEnds
<1>4. CASE topic[i].by # w
  <2>1. UNCHANGED <<topic, written>>
    BY <1>1, <1>2, <1>4 DEF Answered
  <2> QED BY <2>1, Seen, SeenNext DEF Mailbox!vars, Ids
<1> QED BY <1>3, <1>4

(* The death of the daemon gives up all it held for the last time. *)
LEMMA ReceiverDiesGivesUp ==
  ASSUME ReceiverInv, ReceiverDies
  PROVE  \/ LastTry(topic) \in SUBSET Ids /\ Mailbox!GiveUp(LastTry(topic))
         \/ UNCHANGED Mailbox!vars
<1>1. topic' = AllReleased(topic) /\ UNCHANGED written
  BY DEF ReceiverDies, AllReleased, Ids
<1>2. /\ Len(topic') = Len(topic) /\ TriesOf(topic') = TriesOf(topic)
      /\ StatesOf(topic') = [i \in Ids |-> IF i \in LastTry(topic) THEN "dead" ELSE StatesOf(topic)[i]]
  BY <1>1, TopicIs, AllReleasedIs DEF Ids
<1>3. UNCHANGED Owed
  BY <1>1, <1>2 DEF Owed, Ids
<1>4. CASE LastTry(topic) = {}
  <2>1. StatesOf(topic') = StatesOf(topic)
    BY <1>2, <1>4, Seen
  <2> QED BY <1>2, <1>3, <2>1, Seen, SeenNext DEF Mailbox!vars, Owed
<1>5. CASE LastTry(topic) # {}
  <2>1. LastTry(topic) \subseteq Ids
        /\ \A i \in LastTry(topic) : StatesOf(topic)[i] = "open" /\ TriesOf(topic)[i] = MaxAttempts
    BY Seen DEF LastTry, Ids, Standing
  <2>2. Mailbox!GiveUp(LastTry(topic))
    BY <1>2, <1>3, <1>5, <2>1, Seen, SeenNext DEF Mailbox!GiveUp, Mailbox!Open, Owed
  <2> QED BY <2>1, <2>2
<1> QED BY <1>4, <1>5

(* A rename is the arrival of a task, unless an earlier one brought it. *)
LEMMA CallbackStepArrives ==
  ASSUME ReceiverInv, NEW w \in Workers, CallbackStep(w)
  PROVE  (\E i \in Ids : Mailbox!Arrive(i)) \/ UNCHANGED Mailbox!vars
<1>1. UNCHANGED topic /\ step[w] # "idle"
  BY DEF CallbackStep, Resolve, Look, Rename, WriteFails
<1>2. PICK i \in Ids : i = hand[w]
  BY <1>1 DEF ReceiverInv, CallbackInv
<1>3. UNCHANGED written \/ written' = written \cup {i}
  BY <1>2 DEF CallbackStep, Resolve, Look, Rename, WriteFails
<1>4. CASE i \in Owed /\ written' = written \cup {i}
  <2>1. Owed' = Owed \ {i}
    BY <1>1, <1>4 DEF Owed, Ids
  <2>2. Mailbox!Arrive(i)
    BY <1>1, <1>4, <2>1, Seen, SeenNext DEF Mailbox!Arrive, Owed
  <2> QED BY <2>2
<1>5. CASE UNCHANGED Owed
  BY <1>1, <1>5, Seen, SeenNext DEF Mailbox!vars, Owed
<1>6. UNCHANGED written \/ i \in written => UNCHANGED Owed
  BY <1>1, <1>3 DEF Owed, Ids
<1> QED BY <1>3, <1>4, <1>5, <1>6 DEF Owed

LEMMA RestStutters ==
  ASSUME UNCHANGED <<topic, written>>
  PROVE  UNCHANGED Mailbox!vars
  BY Seen, SeenNext DEF Mailbox!vars, Ids

(* Seen through its topic, the bridge is the Courier: whatever fails, lapses or dies,
   a task is acked only with its file in the outbox, and given up only after its last
   delivery. *)
THEOREM ImplementsCourier == Spec => CourierSpec
<1>1. Init => Mailbox!Init
  <2> SUFFICES ASSUME Init PROVE Mailbox!Init
    OBVIOUS
  <2>1. Ids = {} /\ written = {}
    BY DEF Init, Ids
  <2>2. [i \in Ids |-> Standing(topic[i])] = << >> /\ [i \in Ids |-> topic[i].tries] = << >>
    BY <2>1
  <2> QED BY <2>1, <2>2 DEF Mailbox!Init
<1>2. IInv /\ [Next]_vars => [Mailbox!Next]_(Mailbox!vars)
  <2> SUFFICES ASSUME IInv, [Next]_vars PROVE Mailbox!Next \/ UNCHANGED Mailbox!vars
    OBVIOUS
  <2> USE DEF IInv
  <2>0. DOMAIN [i \in Ids |-> Standing(topic[i])] = Ids
    OBVIOUS
  <2>1. CASE GatewayStep
    <3>1. UNCHANGED <<receiver, topic>> \/ Mailbox!Post
      BY <2>1, GatewayStepSends, SentPosts
    <3> QED BY <3>1, RestStutters DEF Mailbox!Next, receiver
  <2>2. ASSUME NEW w \in Workers, Deliver(w) PROVE Mailbox!Next
    BY <2>0, <2>2, DeliverAttempts DEF Mailbox!Next
  <2>3. ASSUME NEW w \in Workers, LeaseLapses(w) \/ Answer(w)
        PROVE  Mailbox!Next \/ UNCHANGED Mailbox!vars
    <3>1. PICK i \in Ids : Mailbox!Acknowledge(i) \/ Mailbox!GiveUp({i}) \/ UNCHANGED Mailbox!vars
      BY <2>3, LeaseLapsesEnds, AnswerEnds
    <3>2. {i} \in SUBSET Ids
      BY <3>1
    <3> QED BY <2>0, <3>1, <3>2 DEF Mailbox!Next
  <2>4. ASSUME NEW w \in Workers, CallbackStep(w)
        PROVE  Mailbox!Next \/ UNCHANGED Mailbox!vars
    BY <2>0, <2>4, CallbackStepArrives DEF Mailbox!Next
  <2>5. CASE ReceiverDies
    BY <2>0, <2>5, ReceiverDiesGivesUp DEF Mailbox!Next
  <2>6. CASE \E i \in Ids : Take(i)
    BY <2>6, RestStutters DEF Take
  <2>7. CASE UNCHANGED vars
    BY <2>7, RestStutters DEF vars, receiver
  <2> QED BY <2>1, <2>2, <2>3, <2>4, <2>5, <2>6, <2>7, NextIs
          DEF ReceiverStep, OnMessage, CallbackStep
<1> QED BY <1>1, <1>2, Invariance, PTL DEF Spec, CourierSpec, Mailbox!Spec

AckedIsWritten == \A i \in Ids : topic[i].at = "acked" => i \in written

(* OnMessage and writer.go: at any time a task that is acked has had its whole file in
   the outbox of its agent. *)
THEOREM AckedIsWrittenHolds == Spec => []AckedIsWritten
<1>1. IInv => AckedIsWritten
  BY DEF IInv, ReceiverInv, FileInv, AckedIsWritten
<1> QED BY <1>1, Invariance, PTL
=============================================================================
