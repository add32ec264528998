------------------------- MODULE CanaryRollout_proofs -------------------------
(***************************************************************************)
(* Proofs about CanaryRollout, for every number of services, every set of  *)
(* builds, people, instances and goroutines, any expiry of the buttons and *)
(* any number of clicks and faults.                                        *)
(***************************************************************************)
EXTENDS CanaryRollout, TLAPS

(***************************************************************************)
(* The inductive invariant.                                                *)
(***************************************************************************)
Working(w) == pc[w] \notin {"idle", "begin", "deny"}

(* Of every button in the channel and every click: a step past the first comes
   after the one before it, and the first is offered without a dialog only where
   the question about the migration no longer arises. *)
Reached(r) ==
  \E i \in 2..5 : CanarySteps[i] = r.percent /\ <<r.build, CanarySteps[i - 1]>> \in completed
Settled(b) == b \in migrated \/ \E q \in approved : q.build = b /\ q.dialog # "none"

Offered(r) ==
  r.kind = "service" => /\ r.percent > 10 => Reached(r)
                        /\ r.dialog # "none" \/ Settled(r.build)

MessageInv(b) ==
  /\ message[b].kind = "none" => message[b].buttons = {}
  /\ \A r \in message[b].buttons : r.build = b /\ Offered(r)

(* A goroutine past the guards holds its key and works for a listed user. *)
HeldInv(w) ==
  LET r == job[w].req IN
  /\ message[r.build].kind # "none"
  /\ Offered(r)
  /\ Working(w) => r \in approved /\ Key(r) \in locks[job[w].at]

(* Where a goroutine is and what is marked on its job fit its request. *)
PhaseInv(w) ==
  LET j == job[w] IN
  /\ pc[w] = "deny" <=> j.req.kind = "deny"
  /\ pc[w] \in {"begin", "progress"} => j.index = 1 /\ ~Failed(j)
  /\ pc[w] \in {"backup", "migrate"} => j.req.kind = "job" /\ ~Failed(j)
  /\ pc[w] \in {"read", "update"} => j.req.kind = "service"
  /\ pc[w] = "offer" /\ j.req.kind = "job" /\ ~Failed(j) => j.req.build \in migrated
  /\ ~Failed(j) => j.last = N /\ ~Broken(j)

(* Where only one goroutine works on the only build, the services behind it have
   what it wants them to have. *)
Done(w) == IF pc[w] = "offer" THEN job[w].last ELSE job[w].index - 1
Undisturbed(w) == job[w].req.build \notin mixed /\ Alone(job[w].req.build)
WalkInv(w) ==
  (/\ pc[w] \in {"read", "update", "offer"}
   /\ job[w].req.kind = "service"
   /\ Undisturbed(w)
   /\ ~Broken(job[w]))
  => \A s \in 1..Done(w) : split[s][job[w].req.build] = Want(w)

MixedInv ==
  \A v, w \in Workers :
    v # w /\ Working(v) /\ Working(w) /\ job[v].req.build = job[w].req.build
      => job[v].req.build \in mixed

IInv ==
  /\ TypeOK
  /\ \A b \in Builds : MessageInv(b)
  /\ \A w \in Workers : ~Idle(w) => HeldInv(w) /\ PhaseInv(w)
  /\ \A w \in Workers : WalkInv(w)
  /\ MixedInv
  /\ OneRunPerKey
  /\ ShareWasApproved
  /\ StepsInOrder
  /\ SkipWasConfirmed

(***************************************************************************)
(* Lemmas about the operators.                                             *)
(***************************************************************************)
(* The canary steps, and the share a rollback leaves. *)
LEMMA StepsAre == StepSet = {10, 30, 50, 80, 100}
<1>1. DOMAIN CanarySteps = 1..5
  BY DEF CanarySteps
<1>2. /\ CanarySteps[1] = 10 /\ CanarySteps[2] = 30 /\ CanarySteps[3] = 50
      /\ CanarySteps[4] = 80 /\ CanarySteps[5] = 100
  BY DEF CanarySteps
<1> QED BY <1>1, <1>2 DEF StepSet

(* What is offered after a step is the step behind it. *)
LEMMA NextIsNext ==
  ASSUME NEW p \in StepSet \cup {0}
  PROVE  /\ NextCanaryPercent(p) \in StepSet \cup {0}
         /\ NextCanaryPercent(p) # 0 =>
              \E i \in 2..5 : CanarySteps[i] = NextCanaryPercent(p) /\ CanarySteps[i - 1] = p
<1>1. /\ CanarySteps[1] = 10 /\ CanarySteps[2] = 30 /\ CanarySteps[3] = 50
      /\ CanarySteps[4] = 80 /\ CanarySteps[5] = 100
  BY DEF CanarySteps
<1>2. CASE \E i \in 1..4 : CanarySteps[i] = p
  <2> DEFINE i == CHOOSE i \in 1..4 : CanarySteps[i] = p
  <2>1. i \in 1..4 /\ CanarySteps[i] = p
    BY <1>2
  <2> HIDE DEF i
  <2>2. 1 + i \in 2..5 /\ (1 + i) - 1 = i
    BY <2>1
  <2>3. NextCanaryPercent(p) = CanarySteps[1 + i]
    BY <1>2 DEF NextCanaryPercent, i
  <2>4. CanarySteps[1 + i] \in StepSet
    BY <1>1, <2>2, StepsAre
  <2> QED BY <2>1, <2>2, <2>3, <2>4
<1>3. CASE ~ \E i \in 1..4 : CanarySteps[i] = p
  BY <1>3 DEF NextCanaryPercent
<1> QED BY <1>2, <1>3

(* An offer stands: migrations, approvals and steps that were reached stay. *)
LEMMA OffersStand ==
  ASSUME NEW r, Offered(r), migrated \subseteq migrated', approved \subseteq approved',
         completed \subseteq completed'
  PROVE  Offered(r)'
  BY DEF Offered, Reached, Settled

(* A listed user's click settles what its build needs. *)
LEMMA ApprovedIsOffered ==
  ASSUME IInv, NEW r \in approved
  PROVE  /\ r.kind = "service" => Settled(r.build)
         /\ Offered(r)
  BY DEF IInv, StepsInOrder, SkipWasConfirmed, Offered, Reached, Settled

(***************************************************************************)
(* What a step leaves alone.                                               *)
(***************************************************************************)
(* History only grows, and a build that was announced stays announced. *)
Grows == /\ migrated \subseteq migrated' /\ approved \subseteq approved'
         /\ completed \subseteq completed' /\ mixed \subseteq mixed'
Announced == \A b \in Builds : message[b].kind # "none" => message'[b].kind # "none"

LEMMA AloneBefore ==
  ASSUME Announced, NEW b \in Builds, Alone(b)' PROVE Alone(b)
  BY DEF Announced, Alone

(* A goroutine at work is on one of the builds. *)
LEMMA RequestOfJob ==
  ASSUME IInv, NEW w \in Workers, ~Idle(w)
  PROVE  /\ job[w] \in Jobs /\ job[w].req \in Requests /\ job[w].req.build \in Builds
         /\ HeldInv(w) /\ PhaseInv(w)
  BY DEF IInv, TypeOK, Jobs, Requests

(* A goroutine keeps what it holds while it keeps its request, its instance and its lock. *)
LEMMA HeldKeeps ==
  ASSUME IInv, Grows, Announced, NEW w \in Workers, ~Idle(w),
         job'[w].req = job[w].req, job'[w].at = job[w].at, Working(w)' => Working(w),
         Working(w) => Key(job[w].req) \in locks'[job[w].at]
  PROVE  HeldInv(w)'
<1>1. PICK r \in Requests : r = job[w].req /\ r = job'[w].req
  BY RequestOfJob
<1>2. Offered(r)'
  BY <1>1, RequestOfJob, OffersStand DEF Grows, HeldInv
<1>3. Offered(job[w].req)'
  BY <1>1, <1>2 DEF Offered, Reached, Settled
<1>4. message'[r.build].kind # "none"
  BY <1>1, RequestOfJob DEF Announced, HeldInv
<1>5. Working(w)' => r \in approved' /\ Key(r)' \in locks'[job[w].at]
  BY <1>1, RequestOfJob DEF Grows, HeldInv, Key
<1> QED BY <1>1, <1>3, <1>4, <1>5 DEF HeldInv, Key

(* A goroutine that takes no step keeps everything, unless somebody else moves
   the traffic of a build it has to itself. *)
LEMMA OthersKeep ==
  ASSUME IInv, Grows, Announced, NEW w \in Workers, pc'[w] = pc[w], job'[w] = job[w],
         Working(w) => Key(job[w].req) \in locks'[job[w].at],
         Working(w) /\ Undisturbed(w) =>
           \A s \in Services : split'[s][job[w].req.build] = split[s][job[w].req.build]
  PROVE  /\ (~Idle(w))' => HeldInv(w)' /\ PhaseInv(w)'
         /\ WalkInv(w)'
<1>1. (~Idle(w))' => HeldInv(w)' /\ PhaseInv(w)'
  <2> SUFFICES ASSUME ~Idle(w) PROVE HeldInv(w)' /\ PhaseInv(w)'
    BY DEF Idle
  <2>1. PhaseInv(w)'
    BY RequestOfJob DEF PhaseInv, Grows, Failed, Broken
  <2> QED BY <2>1, HeldKeeps DEF Working
<1>2. WalkInv(w)'
  <2> SUFFICES ASSUME pc[w] \in {"read", "update", "offer"}, job[w].req.kind = "service",
                      Undisturbed(w)', ~Broken(job[w]), NEW s \in 1..Done(w)
               PROVE  split'[s][job[w].req.build] = Want(w)
    BY DEF WalkInv, Done, Want, Broken, Failed
  <2>1. ~Idle(w) /\ Working(w) /\ job[w].req.build \in Builds
    BY RequestOfJob DEF Idle, Working
  <2>2. Undisturbed(w)
    <3>1. PICK b \in Builds : b = job[w].req.build
      BY <2>1
    <3>2. Alone(b)'
      BY <3>1 DEF Undisturbed, Alone
    <3> QED BY <3>1, <3>2, AloneBefore DEF Undisturbed, Grows
  <2>3. s \in Services
    <3>1. job[w].last \in 0..N /\ job[w].index \in 1..N
      BY <2>1, RequestOfJob DEF Jobs
    <3> QED BY <3>1, ServicesAssumption DEF Done, Services
  <2>4. split[s][job[w].req.build] = Want(w)
    BY <2>2 DEF IInv, WalkInv
  <2> QED BY <2>1, <2>2, <2>3, <2>4
<1> QED BY <1>1, <1>2

(* A message that is replaced offers nothing that was not reached and settled. *)
LEMMA MessagesKeep ==
  ASSUME IInv, Grows, NEW b \in Builds, NEW text \in Messages, text.kind # "none",
         \A r \in text.buttons : r.build = b /\ Offered(r)',
         message' = [message EXCEPT ![b] = text]
  PROVE  /\ message' \in [Builds -> Messages]
         /\ \A c \in Builds : MessageInv(c)'
         /\ Announced
<1>1. message \in [Builds -> Messages]
  BY DEF IInv, TypeOK
<1>2. ASSUME NEW c \in Builds PROVE MessageInv(c)'
  <2>1. CASE c = b
    BY <1>1, <2>1 DEF MessageInv, Offered, Reached, Settled
  <2>2. CASE c # b
    <3>1. message'[c] = message[c] /\ MessageInv(c)
      BY <1>1, <2>2 DEF IInv
    <3>2. ASSUME NEW r \in message[c].buttons PROVE r.build = c /\ Offered(r)'
      BY <3>1, OffersStand DEF Grows, MessageInv
    <3> QED BY <3>1, <3>2 DEF MessageInv, Offered, Reached, Settled
  <2> QED BY <2>1, <2>2
<1>3. Announced
  BY <1>1 DEF Announced
<1> QED BY <1>1, <1>2, <1>3

(* A message that stays offers what it offered. *)
LEMMA MessagesSame ==
  ASSUME IInv, Grows, message' = message
  PROVE  (\A c \in Builds : MessageInv(c)') /\ Announced
<1>1. ASSUME NEW c \in Builds PROVE MessageInv(c)'
  <2>1. ASSUME NEW r \in message[c].buttons PROVE r.build = c /\ Offered(r)'
    BY OffersStand DEF Grows, IInv, MessageInv
  <2> QED BY <2>1 DEF MessageInv, IInv, Offered, Reached, Settled
<1> QED BY <1>1 DEF Announced

(* What listed users approved stays in order. *)
LEMMA ApprovalsKeep ==
  ASSUME IInv, Grows, approved' = approved PROVE StepsInOrder' /\ SkipWasConfirmed'
  BY DEF IInv, Grows, StepsInOrder, SkipWasConfirmed

(* Shares that only fall, or go to what was approved, stay approved. *)
LEMMA SharesKeep ==
  ASSUME IInv, Grows, Announced,
         \A s \in Services, b \in Builds :
           Alone(b) => \/ split'[s][b] = split[s][b]
                       \/ split'[s][b] = 0
                       \/ \E r \in approved : r.build = b /\ split'[s][b] <= r.percent
  PROVE  ShareWasApproved'
<1> SUFFICES ASSUME NEW s \in Services, NEW b \in Builds, Alone(b)', split'[s][b] > 0
             PROVE  \E r \in approved' : r.build = b /\ split'[s][b] <= r.percent
  BY DEF ShareWasApproved
<1>1. Alone(b)
  BY AloneBefore
<1>2. CASE split'[s][b] = split[s][b]
  BY <1>1, <1>2 DEF IInv, ShareWasApproved, Grows
<1>3. CASE \E r \in approved : r.build = b /\ split'[s][b] <= r.percent
  BY <1>3 DEF Grows
<1> QED BY <1>1, <1>2, <1>3

(* Who was not at work before and is not now cannot run a key twice, nor mix a build. *)
LEMMA RunsKeep ==
  ASSUME IInv, Grows,
         \A v \in Workers : Working(v)' => Working(v) /\ job'[v].req = job[v].req
                                                    /\ job'[v].at = job[v].at
  PROVE  MixedInv' /\ OneRunPerKey'
<1>1. MixedInv'
  <2> SUFFICES ASSUME NEW v \in Workers, NEW w \in Workers, v # w, Working(v)', Working(w)',
                      job'[v].req.build = job'[w].req.build
               PROVE  job'[v].req.build \in mixed'
    BY DEF MixedInv
  <2>1. /\ Working(v) /\ Working(w)
        /\ job'[v].req = job[v].req /\ job'[w].req = job[w].req
    OBVIOUS
  <2>2. job[v].req.build \in mixed
    BY <2>1 DEF IInv, MixedInv
  <2> QED BY <2>1, <2>2 DEF Grows
<1>2. OneRunPerKey'
  <2> SUFFICES ASSUME NEW v \in Workers, NEW w \in Workers, v # w, Working(v)', Working(w)',
                      job'[v].at = job'[w].at
               PROVE  Key(job[v].req)' # Key(job[w].req)'
    BY DEF OneRunPerKey, Working
  <2>1. /\ Working(v) /\ Working(w)
        /\ job'[v].req = job[v].req /\ job'[w].req = job[w].req
        /\ job[v].at = job[w].at
    OBVIOUS
  <2>2. {pc[v], pc[w]} \cap {"idle", "begin", "deny"} = {}
    BY <2>1 DEF Working
  <2>3. Key(job[v].req) # Key(job[w].req)
    BY <2>1, <2>2 DEF IInv, OneRunPerKey
  <2> QED BY <2>1, <2>3 DEF Key
<1> QED BY <1>1, <1>2

(* A step of a goroutine at work that stays at work. *)
LEMMA WorkKeeps ==
  ASSUME IInv, TypeOK', Grows, Announced, NEW w \in Workers,
         \A c \in Builds : MessageInv(c)',
         \A v \in Workers : v # w => pc'[v] = pc[v] /\ job'[v] = job[v],
         Working(w), Working(w)', job'[w].req = job[w].req, job'[w].at = job[w].at,
         locks' = locks, approved' = approved,
         PhaseInv(w)', WalkInv(w)',
         \A v \in Workers : v # w /\ Working(v) /\ Undisturbed(v) =>
           \A s \in Services : split'[s][job[v].req.build] = split[s][job[v].req.build],
         ShareWasApproved'
  PROVE  IInv'
<1>1. ~Idle(w)
  BY DEF Working, Idle
<1>2. ASSUME NEW v \in Workers
      PROVE  ((~Idle(v))' => HeldInv(v)' /\ PhaseInv(v)') /\ WalkInv(v)'
  <2>1. Working(v) => Key(job[v].req) \in locks'[job[v].at]
    BY RequestOfJob DEF HeldInv, Working, Idle
  <2>2. CASE v = w
    BY <1>1, <2>1, <2>2, HeldKeeps
  <2>3. CASE v # w
    BY <2>1, <2>3, OthersKeep
  <2> QED BY <2>2, <2>3
<1>3. \A v \in Workers : /\ Working(v)' <=> Working(v)
                         /\ job'[v].req = job[v].req /\ job'[v].at = job[v].at
  BY DEF Working
<1>4. MixedInv' /\ OneRunPerKey'
  BY <1>3, RunsKeep
<1> QED BY <1>2, <1>4, ApprovalsKeep DEF IInv

(***************************************************************************)
(* The first state, and the steps.                                         *)
(***************************************************************************)
(* Only the old revision serves and nothing was announced. *)
LEMMA InitIInv == Init => IInv
<1> SUFFICES ASSUME Init PROVE IInv OBVIOUS
<1>1. TypeOK
  BY BoundsAssumption
  DEF Init, TypeOK, Text, Messages, Idle, Services, Revisions
<1>2. ASSUME NEW b \in Builds PROVE MessageInv(b)
  BY DEF Init, MessageInv, Text
<1>3. \A w \in Workers : Idle(w) /\ ~Working(w) /\ WalkInv(w)
  BY DEF Init, Idle, Working, WalkInv
<1>4. ShareWasApproved
  <2>1. ASSUME NEW s \in Services, NEW b \in Builds PROVE split[s][b] = 0
    BY BuildsAssumption DEF Init, Revisions
  <2> QED BY <2>1 DEF ShareWasApproved
<1>5. OneRunPerKey
  BY DEF Init, OneRunPerKey
<1> QED BY <1>1, <1>2, <1>3, <1>4, <1>5
       DEF IInv, MixedInv, StepsInOrder, SkipWasConfirmed, Init

(* A call that is made, and a call that fails. *)
LEMMA FaultsTyped ==
  ASSUME IInv, NEW w \in Workers, Works(w) \/ Fails(w) \/ Fault PROVE faults' \in 0..MaxFaults
  BY BoundsAssumption DEF IInv, TypeOK, Works, Fails, Fault

(* A mark changes nothing else of a job. *)
LEMMA MarkedTyped ==
  ASSUME NEW j \in Jobs, NEW mark \in {"failed", "broken", "late"}
  PROVE  /\ Marked(j, mark) \in Jobs
         /\ Marked(j, mark).marks = j.marks \cup {mark}
         /\ Marked(j, mark).req = j.req /\ Marked(j, mark).at = j.at
         /\ Marked(j, mark).index = j.index /\ Marked(j, mark).last = j.last
  BY DEF Marked, Jobs

(* The progress text takes the buttons away. *)
LEMMA ProgressKeepsIInv == ASSUME IInv, NEW w \in Workers, Progress(w) PROVE IInv'
<1> DEFINE r == job[w].req
           step == IF r.kind = "job" THEN "backup" ELSE "read"
           text == Text("progress", {})
<1>1. /\ ~Idle(w) /\ Working(w) /\ r \in Requests /\ r.build \in Builds
      /\ job[w] \in Jobs /\ PhaseInv(w) /\ HeldInv(w)
  BY RequestOfJob DEF Progress, Idle, Working
<1>2. /\ job' = job /\ pc' = [pc EXCEPT ![w] = step] /\ step # "idle"
      /\ faults' \in 0..MaxFaults
  BY FaultsTyped DEF Progress, Goto
<1>3. Grows /\ UNCHANGED <<split, latest, locks, clicks, approved>>
  BY DEF Grows, Progress, gcp, history
<1>4. /\ message' \in [Builds -> Messages]
      /\ \A c \in Builds : MessageInv(c)'
      /\ Announced
  <2>1. text \in Messages /\ text.kind # "none" /\ text.buttons = {}
    BY DEF Text, Messages
  <2>2. CASE message' = message
    BY <1>3, <2>2, MessagesSame DEF IInv, TypeOK
  <2>3. CASE message' = [message EXCEPT ![r.build] = text]
    BY <1>1, <1>3, <2>1, <2>3, MessagesKeep
  <2> QED BY <2>2, <2>3 DEF Progress
<1>5. TypeOK'
  BY <1>1, <1>2, <1>3, <1>4 DEF IInv, TypeOK, Progress, Idle, gcp, history
<1>6. Working(w)' /\ \A v \in Workers : v # w => pc'[v] = pc[v] /\ job'[v] = job[v]
  BY <1>2 DEF IInv, TypeOK, Working
<1>7. pc'[w] = step
  BY <1>2 DEF IInv, TypeOK
<1>8. PhaseInv(w)'
  <2>1. r.kind = "job" \/ r.kind = "service"
    BY <1>1 DEF PhaseInv, Requests, Progress
  <2> QED BY <1>1, <1>2, <1>7, <2>1 DEF PhaseInv, Progress, Failed, Broken
<1>9. WalkInv(w)'
  <2>1. job'[w].index = 1
    BY <1>1, <1>2 DEF PhaseInv, Progress
  <2> QED BY <1>7, <2>1 DEF WalkInv, Done
<1>10. ShareWasApproved'
  BY <1>3, <1>4, SharesKeep
<1> QED BY <1>1, <1>2, <1>3, <1>4, <1>5, <1>6, <1>8, <1>9, <1>10, WorkKeeps

(* A step inside the work: only what Cloud Run serves, and the goroutine's own job, change. *)
LEMMA InnerKeeps ==
  ASSUME IInv, NEW w \in Workers, Working(w),
         NEW step \in {"progress", "backup", "migrate", "read", "update", "offer"},
         NEW j \in Jobs, j.req = job[w].req, j.at = job[w].at,
         pc' = [pc EXCEPT ![w] = step], job' = [job EXCEPT ![w] = j],
         UNCHANGED <<latest, message, locks, clicks, approved, completed, cut, mixed>>,
         migrated \subseteq migrated', migrated' \subseteq Builds, faults' \in 0..MaxFaults,
         split' \in [Services -> [Revisions -> 0..100]],
         \A s \in Services : \/ split'[s][j.req.build] = split[s][j.req.build]
                             \/ split'[s][j.req.build] \in {0, j.req.percent},
         PhaseInv(w)', WalkInv(w)'
  PROVE  IInv'
<1>1. ~Idle(w) /\ j.req \in approved /\ j.req.build \in Builds /\ message[j.req.build].kind # "none"
  BY RequestOfJob DEF HeldInv, Working, Idle
<1>2. Grows
  BY DEF Grows
<1>3. (\A c \in Builds : MessageInv(c)') /\ Announced
  BY <1>2, MessagesSame
<1>4. /\ \A v \in Workers : v # w => pc'[v] = pc[v] /\ job'[v] = job[v]
      /\ pc'[w] = step /\ job'[w] = j
  BY DEF IInv, TypeOK
<1>5. TypeOK'
  <2>1. \A v \in Workers : IF Idle(v)' THEN job'[v] = Nothing ELSE job'[v] \in Jobs
    BY <1>4 DEF IInv, TypeOK, Idle
  <2> QED BY <2>1 DEF IInv, TypeOK
<1>6. Working(w)'
  BY <1>4 DEF Working
<1>7. ASSUME NEW b \in Builds, Alone(b) PROVE b = j.req.build
  BY <1>1, <1>7 DEF Alone
<1>8. ASSUME NEW v \in Workers, v # w, Working(v), Undisturbed(v), NEW s \in Services
      PROVE  split'[s][job[v].req.build] = split[s][job[v].req.build]
  <2>1. job[v].req.build \in Builds
    BY <1>8, RequestOfJob DEF Working, Idle
  <2>2. job[v].req.build = job[w].req.build
    BY <1>1, <1>8, <2>1 DEF Undisturbed, Alone
  <2> QED BY <1>8, <2>2 DEF IInv, MixedInv, Undisturbed
<1>9. ShareWasApproved'
  <2>1. ASSUME NEW s \in Services, NEW b \in Builds, Alone(b)
        PROVE  \/ split'[s][b] = split[s][b]
               \/ split'[s][b] = 0
               \/ \E r \in approved : r.build = b /\ split'[s][b] <= r.percent
    <3>1. b = j.req.build /\ split'[s][b] \in 0..100
      BY <1>7, <2>1 DEF Revisions
    <3> QED BY <1>1, <3>1
  <2> QED BY <1>2, <1>3, <2>1, SharesKeep
<1> QED BY <1>2, <1>3, <1>4, <1>5, <1>6, <1>8, <1>9, WorkKeeps

(* A failed backup or migration is offered again from the start. *)
LEMMA JobStepKeepsIInv ==
  ASSUME IInv, NEW w \in Workers, Backup(w) \/ Migrate(w) PROVE IInv'
<1>1. /\ Working(w) /\ job[w] \in Jobs /\ PhaseInv(w) /\ job[w].req.build \in Builds
  BY RequestOfJob DEF Backup, Migrate, Idle, Working
<1>2. job[w].req.kind = "job" /\ ~Failed(job[w]) /\ pc[w] \in {"backup", "migrate"}
  BY <1>1 DEF PhaseInv, Backup, Migrate
<1>3. /\ UNCHANGED <<split, latest, message, locks, clicks, approved, completed, cut, mixed>>
      /\ faults' \in 0..MaxFaults
      /\ split \in [Services -> [Revisions -> 0..100]]
  BY FaultsTyped DEF Backup, Migrate, gcp, history, IInv, TypeOK
<1>4. migrated \subseteq migrated' /\ migrated' \subseteq Builds
  BY <1>1 DEF Backup, Migrate, history, IInv, TypeOK
<1>5. CASE GiveUp(w)
  <2> DEFINE j == Marked(job[w], "failed")
  <2>1. j \in Jobs /\ j.req = job[w].req /\ j.at = job[w].at /\ Failed(j)
    BY <1>1, MarkedTyped DEF Failed
  <2>2. pc' = [pc EXCEPT ![w] = "offer"] /\ job' = [job EXCEPT ![w] = j]
    BY <1>5 DEF GiveUp
  <2>3. pc'[w] = "offer" /\ job'[w] = j
    BY <2>2 DEF IInv, TypeOK
  <2> HIDE DEF j
  <2>4. PhaseInv(w)' /\ WalkInv(w)'
    BY <1>2, <2>1, <2>3 DEF PhaseInv, WalkInv, Failed
  <2> QED BY <1>1, <1>3, <1>4, <2>1, <2>2, <2>4, InnerKeeps
<1>6. CASE Goto(w, "migrate") /\ pc[w] = "backup"
  <2>1. pc' = [pc EXCEPT ![w] = "migrate"] /\ job' = [job EXCEPT ![w] = job[w]]
    BY <1>6 DEF Goto, IInv, TypeOK
  <2>2. pc'[w] = "migrate" /\ job'[w] = job[w]
    BY <2>1 DEF IInv, TypeOK
  <2>3. PhaseInv(w)' /\ WalkInv(w)'
    BY <1>1, <1>2, <2>2 DEF PhaseInv, WalkInv, Failed, Broken
  <2> QED BY <1>1, <1>3, <1>4, <2>1, <2>3, InnerKeeps
<1>7. CASE Goto(w, "offer") /\ migrated' = migrated \cup {job[w].req.build}
  <2>1. pc' = [pc EXCEPT ![w] = "offer"] /\ job' = [job EXCEPT ![w] = job[w]]
    BY <1>7 DEF Goto, IInv, TypeOK
  <2>2. pc'[w] = "offer" /\ job'[w] = job[w]
    BY <2>1 DEF IInv, TypeOK
  <2>3. PhaseInv(w)' /\ WalkInv(w)'
    BY <1>1, <1>2, <1>7, <2>2 DEF PhaseInv, WalkInv, Failed, Broken
  <2> QED BY <1>1, <1>3, <1>4, <2>1, <2>3, InnerKeeps
<1> QED BY <1>5, <1>6, <1>7 DEF Backup, Migrate

(* A deadline that passes changes nothing yet. *)
LEMMA TimeoutKeepsIInv == ASSUME IInv, NEW w \in Workers, Timeout(w) PROVE IInv'
<1> DEFINE j == Marked(job[w], "late")
<1>1. /\ Working(w) /\ ~Idle(w) /\ job[w] \in Jobs /\ PhaseInv(w)
  BY RequestOfJob DEF Timeout, Idle, Working
<1>2. /\ j \in Jobs /\ j.req = job[w].req /\ j.at = job[w].at
      /\ j.index = job[w].index /\ j.last = job[w].last
      /\ Failed(j) <=> Failed(job[w])
      /\ Broken(j) <=> Broken(job[w])
  BY <1>1, MarkedTyped DEF Failed, Broken
<1>3. /\ UNCHANGED <<split, latest, message, locks, clicks, migrated, approved, completed, cut,
                     mixed>>
      /\ faults' \in 0..MaxFaults
      /\ split \in [Services -> [Revisions -> 0..100]] /\ migrated \subseteq Builds
  BY FaultsTyped DEF Timeout, gcp, history, IInv, TypeOK
<1>4. /\ pc' = [pc EXCEPT ![w] = pc[w]] /\ job' = [job EXCEPT ![w] = j]
      /\ pc[w] \in {"progress", "backup", "migrate", "read", "update", "offer"}
  BY DEF Timeout, IInv, TypeOK
<1>5. pc'[w] = pc[w] /\ job'[w] = j
  BY <1>4 DEF IInv, TypeOK
<1> HIDE DEF j
<1>6. PhaseInv(w)'
  BY <1>1, <1>2, <1>3, <1>5 DEF PhaseInv, Failed, Broken
<1>7. WalkInv(w)'
  <2>1. Want(w)' = Want(w) /\ Done(w)' = Done(w)
    BY <1>2, <1>5 DEF Want, Done, Failed
  <2>2. Undisturbed(w)' <=> Undisturbed(w)
    BY <1>2, <1>3, <1>5 DEF Undisturbed, Alone
  <2>3. Broken(job[w])' <=> Broken(job[w])
    BY <1>2, <1>5 DEF Broken
  <2>4. WalkInv(w)
    BY DEF IInv
  <2> QED BY <1>2, <1>3, <1>5, <2>1, <2>2, <2>3, <2>4 DEF WalkInv
<1> QED BY <1>1, <1>2, <1>3, <1>4, <1>6, <1>7, InnerKeeps

(* On to the next service: the one left behind has what the goroutine wants, or
   the compensation is marked broken. *)
LEMMA OnwardKeepsIInv ==
  ASSUME IInv, NEW w \in Workers, pc[w] \in {"read", "update"},
         NEW k \in Jobs, k.req = job[w].req, k.at = job[w].at,
         k.index = job[w].index, k.last = job[w].last,
         Failed(k) <=> Failed(job[w]), Broken(job[w]) => Broken(k), Broken(k) => Failed(k),
         Onward(w, k), faults' \in 0..MaxFaults,
         UNCHANGED <<latest, message, locks, clicks, history>>,
         split' \in [Services -> [Revisions -> 0..100]],
         split'[k.index][k.req.build] \in {split[k.index][k.req.build], Want(w)},
         ~Broken(k) => split'[k.index][k.req.build] = Want(w),
         \A s \in Services : s # k.index => split'[s][k.req.build] = split[s][k.req.build]
  PROVE  IInv'
<1>1. /\ Working(w) /\ ~Idle(w) /\ job[w] \in Jobs /\ PhaseInv(w) /\ HeldInv(w)
      /\ job[w].req.kind = "service" /\ job[w].req \in Requests
  BY RequestOfJob DEF Idle, Working, PhaseInv
<1>2. PICK step \in {"read", "offer"}, j \in Jobs :
        /\ pc' = [pc EXCEPT ![w] = step] /\ job' = [job EXCEPT ![w] = j]
        /\ j.req = k.req /\ j.at = k.at /\ j.last = k.last /\ j.marks = k.marks
        /\ step = "read" => j.index = k.index + 1
        /\ step = "offer" => k.index = k.last
  <2> DEFINE stay == [k EXCEPT !.seen = Nothing]
             next == [k EXCEPT !.index = @ + 1, !.seen = Nothing]
  <2>1. /\ stay \in Jobs /\ stay.req = k.req /\ stay.at = k.at /\ stay.last = k.last
        /\ stay.marks = k.marks
    BY DEF Jobs
  <2>2. CASE k.index = k.last
    BY <2>1, <2>2 DEF Onward, Jobs
  <2>3. CASE k.index < k.last
    <3>1. k.index + 1 \in 1..N
      BY <2>3, ServicesAssumption DEF Jobs
    <3>2. /\ next \in Jobs /\ next.req = k.req /\ next.at = k.at /\ next.last = k.last
          /\ next.marks = k.marks /\ next.index = k.index + 1
      BY <3>1 DEF Jobs
    <3>3. k.index # k.last
      BY <2>3 DEF Jobs
    <3> QED BY <3>2, <3>3, <2>3 DEF Onward
  <2> QED BY <2>2, <2>3 DEF Onward
<1>3. pc'[w] = step /\ job'[w] = j
  BY <1>2 DEF IInv, TypeOK
<1>4. (Failed(j) <=> Failed(job[w])) /\ (Broken(j) <=> Broken(k))
  BY <1>2 DEF Failed, Broken
<1>5. PhaseInv(w)'
  BY <1>1, <1>2, <1>3, <1>4 DEF PhaseInv, Failed, Broken
<1>6. Want(w) \in {0, j.req.percent} /\ Want(w)' = Want(w)
  BY <1>2, <1>3, <1>4 DEF Want, Failed
<1>7. WalkInv(w)'
  <2> SUFFICES ASSUME Undisturbed(w)', ~Broken(j), NEW s \in 1..Done(w)'
               PROVE  split'[s][job[w].req.build] = Want(w)
    BY <1>2, <1>3, <1>6 DEF WalkInv, Broken
  <2>1. Undisturbed(w)
    BY <1>2, <1>3 DEF Undisturbed, Alone, history
  <2>2. WalkInv(w) /\ ~Broken(job[w])
    BY <1>4 DEF IInv
  <2>3. Done(w)' = k.index
    BY <1>2, <1>3 DEF Done, Jobs
  <2>4. k.index \in 1..N /\ Done(w) = k.index - 1
    BY DEF Done, Jobs
  <2>5. CASE s = k.index
    BY <1>4, <2>5
  <2>6. CASE s # k.index
    <3>1. s \in 1..Done(w) /\ s \in Services
      BY <2>3, <2>4, <2>6, ServicesAssumption DEF Services
    <3>2. split[s][job[w].req.build] = Want(w)
      BY <1>1, <2>1, <2>2, <3>1 DEF WalkInv
    <3> QED BY <2>6, <3>1, <3>2
  <2> QED BY <2>5, <2>6
<1>8. \A s \in Services : \/ split'[s][j.req.build] = split[s][j.req.build]
                          \/ split'[s][j.req.build] \in {0, j.req.percent}
  BY <1>2, <1>6
<1>9. /\ UNCHANGED <<latest, message, locks, clicks, migrated, approved, completed, cut, mixed>>
      /\ migrated \subseteq Builds
  BY DEF history, IInv, TypeOK
<1> QED BY <1>1, <1>2, <1>5, <1>7, <1>8, <1>9, InnerKeeps

(* An error ends the walk, or is noted by the compensation. *)
LEMMA TroubleKeepsIInv ==
  ASSUME IInv, NEW w \in Workers, pc[w] \in {"read", "update"},
         Trouble(w), faults' \in 0..MaxFaults,
         UNCHANGED <<latest, message, locks, clicks, history>>,
         split' \in [Services -> [Revisions -> 0..100]],
         split'[job[w].index][job[w].req.build]
           \in {split[job[w].index][job[w].req.build], Want(w)},
         \A s \in Services : s # job[w].index =>
           split'[s][job[w].req.build] = split[s][job[w].req.build]
  PROVE  IInv'
<1>1. /\ Working(w) /\ job[w] \in Jobs /\ PhaseInv(w) /\ job[w].req.kind = "service"
  BY RequestOfJob DEF Idle, Working, PhaseInv
<1>2. CASE Failed(job[w])
  <2> DEFINE k == Marked(job[w], "broken")
  <2>1. /\ k \in Jobs /\ k.req = job[w].req /\ k.at = job[w].at
        /\ k.index = job[w].index /\ k.last = job[w].last
        /\ Failed(k) /\ Broken(k)
    BY <1>1, <1>2, MarkedTyped DEF Failed, Broken
  <2>2. Onward(w, k)
    BY <1>2 DEF Trouble
  <2> HIDE DEF k
  <2> QED BY <1>2, <2>1, <2>2, OnwardKeepsIInv
<1>3. CASE ~Failed(job[w])
  <2> DEFINE m == Marked(job[w], "failed")
             j == [m EXCEPT !.last = job[w].index - 1, !.index = 1, !.seen = Nothing]
  <2>1. PICK step \in {"read", "offer"} :
          pc' = [pc EXCEPT ![w] = step] /\ job' = [job EXCEPT ![w] = j]
                /\ (step = "offer" => job[w].index = 1)
    BY <1>3 DEF Trouble
  <2>2. /\ m \in Jobs /\ m.req = job[w].req /\ m.at = job[w].at /\ Failed(m)
        /\ m.marks = job[w].marks \cup {"failed"}
    BY <1>1, MarkedTyped DEF Failed
  <2>3. /\ j \in Jobs /\ j.req = job[w].req /\ j.at = job[w].at /\ j.marks = m.marks
        /\ j.index = 1 /\ j.last = job[w].index - 1
    <3>1. job[w].index - 1 \in 0..N /\ 1 \in 1..N
      BY <1>1, ServicesAssumption DEF Jobs
    <3> HIDE DEF m
    <3> QED BY <2>2, <3>1 DEF Jobs
  <2>4. pc'[w] = step /\ job'[w] = j /\ Failed(j)
    BY <2>1, <2>2, <2>3 DEF IInv, TypeOK, Failed
  <2> HIDE DEF j, m
  <2>5. PhaseInv(w)'
    BY <1>1, <2>3, <2>4 DEF PhaseInv
  <2>6. WalkInv(w)'
    <3>1. Done(w)' = 0
      BY <2>1, <2>3, <2>4 DEF Done
    <3> QED BY <3>1 DEF WalkInv
  <2>7. Want(w) = job[w].req.percent
    BY <1>3 DEF Want
  <2>8. \A s \in Services : \/ split'[s][j.req.build] = split[s][j.req.build]
                            \/ split'[s][j.req.build] \in {0, j.req.percent}
    BY <2>3, <2>7
  <2>9. /\ UNCHANGED <<latest, message, locks, clicks, migrated, approved, completed, cut, mixed>>
        /\ migrated \subseteq Builds
    BY DEF history, IInv, TypeOK
  <2> QED BY <1>1, <2>1, <2>3, <2>5, <2>6, <2>8, <2>9, InnerKeeps
<1> QED BY <1>2, <1>3

(* GetService: a service that already matches is passed. *)
LEMMA ReadKeepsIInv == ASSUME IInv, NEW w \in Workers, Read(w) PROVE IInv'
<1> DEFINE s == job[w].index  b == job[w].req.build
<1>1. /\ pc[w] = "read" /\ Working(w) /\ job[w] \in Jobs /\ PhaseInv(w)
      /\ job[w].req.kind = "service" /\ s \in Services /\ b \in Builds
  BY RequestOfJob, ServicesAssumption DEF Read, Idle, Working, PhaseInv, Jobs, Services
<1>2. /\ UNCHANGED <<split, latest, message, locks, clicks, history>>
      /\ faults' \in 0..MaxFaults /\ split \in [Services -> [Revisions -> 0..100]]
      /\ migrated \subseteq Builds
  BY FaultsTyped DEF Read, gcp, IInv, TypeOK
<1>3. CASE Onward(w, job[w]) /\ split[s][b] = Want(w)
  <2>1. Broken(job[w]) => Failed(job[w])
    BY <1>1 DEF PhaseInv
  <2> QED BY <1>1, <1>2, <1>3, <2>1, OnwardKeepsIInv
<1>4. CASE Trouble(w)
  BY <1>1, <1>2, <1>4, TroubleKeepsIInv
<1>5. CASE /\ pc' = [pc EXCEPT ![w] = "update"]
           /\ job' = [job EXCEPT ![w].seen = [split |-> split[s], latest |-> latest[s]]]
  <2> DEFINE j == [job[w] EXCEPT !.seen = [split |-> split[s], latest |-> latest[s]]]
  <2>1. [split |-> split[s], latest |-> latest[s]]
          \in [split : [Revisions -> 0..100], latest : Revisions]
    BY <1>1 DEF IInv, TypeOK
  <2>2. /\ j \in Jobs /\ j.req = job[w].req /\ j.at = job[w].at /\ j.marks = job[w].marks
        /\ j.index = job[w].index /\ j.last = job[w].last
    BY <1>1, <2>1 DEF Jobs
  <2>3. job' = [job EXCEPT ![w] = j]
    BY <1>5 DEF IInv, TypeOK
  <2>4. pc'[w] = "update" /\ job'[w] = j
    BY <1>5, <2>3 DEF IInv, TypeOK
  <2> HIDE DEF j
  <2>5. PhaseInv(w)'
    BY <1>1, <2>2, <2>4 DEF PhaseInv, Failed, Broken
  <2>6. WalkInv(w)'
    <3>1. Want(w)' = Want(w) /\ Done(w)' = Done(w) /\ (Undisturbed(w)' <=> Undisturbed(w))
          /\ (Broken(job[w])' <=> Broken(job[w]))
      BY <1>1, <1>2, <2>2, <2>4 DEF Want, Done, Failed, Undisturbed, Alone, Broken, history
    <3>2. WalkInv(w)
      BY DEF IInv
    <3> QED BY <1>1, <1>2, <2>2, <2>4, <3>1, <3>2 DEF WalkInv
  <2> QED BY <1>1, <1>2, <1>5, <2>2, <2>3, <2>5, <2>6, InnerKeeps DEF history
<1> QED BY <1>3, <1>4, <1>5 DEF Read

(* A split that is written gives the build what the goroutine wants. *)
LEMMA NewSplitTyped ==
  ASSUME NEW b \in Builds, NEW a, NEW p \in StepSet \cup {0}
  PROVE  NewSplit(b, a, p) \in [Revisions -> 0..100] /\ NewSplit(b, a, p)[b] = p
<1>1. p \in 0..100 /\ 100 - p \in 0..100
  BY StepsAre
<1>2. ASSUME NEW r \in Revisions PROVE NewSplit(b, a, p)[r] \in 0..100
  <2>1. CASE r = b
    BY <1>1, <2>1 DEF NewSplit
  <2>2. CASE r # b /\ r = a /\ p < 100
    BY <1>1, <2>2 DEF NewSplit
  <2>3. CASE r # b /\ ~(r = a /\ p < 100)
    BY <2>3 DEF NewSplit
  <2> QED BY <2>1, <2>2, <2>3
<1>3. NewSplit(b, a, p)[b] = p
  BY DEF NewSplit, Revisions
<1>4. NewSplit(b, a, p) = [r \in Revisions |-> NewSplit(b, a, p)[r]]
  BY DEF NewSplit
<1> QED BY <1>2, <1>3, <1>4

(* UpdateService, with each way its call may end. *)
LEMMA UpdateKeepsIInv == ASSUME IInv, NEW w \in Workers, Update(w) PROVE IInv'
<1> DEFINE s == job[w].index  b == job[w].req.build
<1>1. /\ pc[w] = "update" /\ Working(w) /\ job[w] \in Jobs /\ PhaseInv(w)
      /\ s \in Services /\ b \in Builds
      /\ Want(w) \in StepSet \cup {0} /\ (Broken(job[w]) => Failed(job[w]))
  <2>1. /\ pc[w] = "update" /\ Working(w) /\ job[w] \in Jobs /\ PhaseInv(w) /\ b \in Builds
        /\ job[w].req \in Requests
    BY RequestOfJob DEF Update, Idle, Working
  <2> QED BY <2>1, ServicesAssumption DEF PhaseInv, Jobs, Services, Want, Requests
<1>2. PICK a : /\ \/ split' = [split EXCEPT ![s] = NewSplit(b, a, Want(w))]
                        /\ (Onward(w, job[w]) \/ Trouble(w))
                  \/ split' = split /\ Trouble(w)
               /\ Works(w) \/ Fails(w) \/ Fault
  BY DEF Update
<1>3. /\ UNCHANGED <<latest, message, locks, clicks, history>>
      /\ faults' \in 0..MaxFaults /\ split \in [Services -> [Revisions -> 0..100]]
  BY <1>2, FaultsTyped DEF Update, IInv, TypeOK
<1>4. CASE split' = [split EXCEPT ![s] = NewSplit(b, a, Want(w))]
             /\ (Onward(w, job[w]) \/ Trouble(w))
  <2>1. NewSplit(b, a, Want(w)) \in [Revisions -> 0..100] /\ NewSplit(b, a, Want(w))[b] = Want(w)
    BY <1>1, NewSplitTyped
  <2> HIDE DEF s, b
  <2>2. /\ split' \in [Services -> [Revisions -> 0..100]]
        /\ split'[s][b] = Want(w)
        /\ \A t \in Services : t # s => split'[t][b] = split[t][b]
    BY <1>1, <1>3, <1>4, <2>1
  <2> USE DEF s, b
  <2>3. CASE Onward(w, job[w])
    BY <1>1, <1>3, <2>2, <2>3, OnwardKeepsIInv
  <2>4. CASE Trouble(w)
    BY <1>1, <1>3, <2>2, <2>4, TroubleKeepsIInv
  <2> QED BY <1>4, <2>3, <2>4
<1>5. CASE split' = split /\ Trouble(w)
  BY <1>1, <1>3, <1>5, TroubleKeepsIInv
<1> QED BY <1>2, <1>4, <1>5

(* A step after which every goroutine is gone, or is where it was and holds what it held. *)
LEMMA RestKeeps ==
  ASSUME IInv, TypeOK', Grows, Announced, \A c \in Builds : MessageInv(c)',
         split' = split, approved' = approved,
         \A v \in Workers :
           \/ pc'[v] = "idle"
           \/ /\ pc'[v] = pc[v] /\ job'[v] = job[v]
              /\ Working(v) => Key(job[v].req) \in locks'[job[v].at]
  PROVE  IInv'
<1>1. ASSUME NEW v \in Workers
      PROVE  ((~Idle(v))' => HeldInv(v)' /\ PhaseInv(v)') /\ WalkInv(v)'
  <2>1. CASE pc'[v] = "idle"
    BY <2>1 DEF Idle, WalkInv
  <2>2. CASE pc'[v] # "idle"
    BY <2>2, OthersKeep
  <2> QED BY <2>1, <2>2
<1>2. \A v \in Workers : Working(v)' => Working(v) /\ job'[v] = job[v] /\ pc'[v] = pc[v]
  BY DEF Working
<1>3. MixedInv' /\ OneRunPerKey'
  BY <1>2, RunsKeep
<1>4. ShareWasApproved'
  BY SharesKeep
<1> QED BY <1>1, <1>3, <1>4, ApprovalsKeep DEF IInv

(* The message of a new build offers the first step behind a dialog. *)
LEMMA DeployKeepsIInv == ASSUME IInv, NEW b \in Builds, Deploy(b) PROVE IInv'
<1>1. InitialButtons(b) \subseteq Requests
  BY BoundsAssumption, StepsAre
  DEF InitialButtons, Button, Request, Requests, IInv, TypeOK
<1>2. Text("buttons", InitialButtons(b)) \in Messages
  BY <1>1 DEF Text, Messages
<1>3. Grows
  BY DEF Grows, Deploy, history
<1>4. \A r \in InitialButtons(b) : r.build = b /\ Offered(r)'
  <2>1. ~(10 > 10)
    OBVIOUS
  <2> QED BY <2>1 DEF InitialButtons, Button, Request, Offered
<1>5. /\ message' \in [Builds -> Messages]
      /\ \A c \in Builds : MessageInv(c)'
      /\ Announced
  BY <1>2, <1>3, <1>4, MessagesKeep DEF Deploy, Text
<1>6. TypeOK'
  BY <1>5 DEF Deploy, IInv, TypeOK, Revisions, history, Idle
<1>7. \A v \in Workers : Working(v) => Key(job[v].req) \in locks[job[v].at]
  BY RequestOfJob DEF HeldInv, Working, Idle
<1> QED BY <1>3, <1>5, <1>6, <1>7, RestKeeps DEF Deploy, history

(* Anybody may click a button as often as it is there; nothing is decided yet. *)
LEMMA ClickKeepsIInv ==
  ASSUME IInv, NEW b \in Builds, NEW w \in Workers, NEW i \in Instances, NEW u \in Users,
         NEW r \in message[b].buttons, Click(w, i, u, r)
  PROVE  IInv'
<1> DEFINE step == IF r.kind = "deny" THEN "deny" ELSE "begin"
           j == [at |-> i, by |-> u, req |-> r, index |-> 1, last |-> N, marks |-> {},
                 seen |-> Nothing]
<1>1. /\ r \in Requests /\ r.build = b /\ Offered(r) /\ message[b].kind # "none"
  BY DEF IInv, TypeOK, Messages, MessageInv
<1>2. /\ pc' = [pc EXCEPT ![w] = step] /\ job' = [job EXCEPT ![w] = j] /\ Idle(w)
      /\ UNCHANGED <<split, latest, message, locks, faults, history>>
      /\ clicks' \in 0..MaxClicks
  BY BoundsAssumption DEF Click, gcp, IInv, TypeOK
<1>3. j \in Jobs /\ j.req = r /\ j.index = 1 /\ j.last = N /\ ~Failed(j) /\ ~Broken(j)
  BY <1>1, ServicesAssumption DEF Jobs, Failed, Broken
<1>4. /\ \A v \in Workers : v # w => pc'[v] = pc[v] /\ job'[v] = job[v]
      /\ pc'[w] = step /\ job'[w] = j
  BY <1>2 DEF IInv, TypeOK
<1> HIDE DEF j
<1>5. Grows
  BY <1>2 DEF Grows, history
<1>6. (\A c \in Builds : MessageInv(c)') /\ Announced
  BY <1>2, <1>5, MessagesSame
<1>7. TypeOK'
  <2>1. \A v \in Workers : IF Idle(v)' THEN job'[v] = Nothing ELSE job'[v] \in Jobs
    BY <1>3, <1>4 DEF IInv, TypeOK, Idle
  <2> QED BY <1>2, <1>3, <2>1 DEF IInv, TypeOK, history
<1>8. ~Working(w) /\ ~Working(w)'
  BY <1>2, <1>4 DEF Working, Idle
<1>9. ASSUME NEW v \in Workers
      PROVE  ((~Idle(v))' => HeldInv(v)' /\ PhaseInv(v)') /\ WalkInv(v)'
  <2>1. CASE v = w
    <3>1. Offered(r)'
      BY <1>1, <1>5, OffersStand DEF Grows
    <3>2. HeldInv(w)'
      BY <1>1, <1>2, <1>3, <1>4, <1>8, <3>1 DEF HeldInv, Offered, Reached, Settled
    <3>3. PhaseInv(w)'
      BY <1>3, <1>4 DEF PhaseInv, Failed, Broken
    <3>4. WalkInv(w)'
      BY <1>4 DEF WalkInv
    <3> QED BY <2>1, <3>2, <3>3, <3>4
  <2>2. CASE v # w
    <3>1. Working(v) => Key(job[v].req) \in locks'[job[v].at]
      BY <1>2, RequestOfJob DEF HeldInv, Working, Idle
    <3> QED BY <1>2, <1>4, <1>5, <1>6, <2>2, <3>1, OthersKeep
  <2> QED BY <2>1, <2>2
<1>10. \A v \in Workers : Working(v)' => v # w /\ Working(v) /\ job'[v] = job[v]
  BY <1>4, <1>8 DEF Working
<1>11. MixedInv' /\ OneRunPerKey'
  BY <1>5, <1>10, RunsKeep
<1>12. ShareWasApproved'
  BY <1>2, <1>5, <1>6, SharesKeep
<1>13. StepsInOrder' /\ SkipWasConfirmed'
  BY <1>2, <1>5, ApprovalsKeep DEF history
<1> QED BY <1>6, <1>7, <1>9, <1>11, <1>12, <1>13 DEF IInv

(* DenyAction touches the message alone. *)
LEMMA DenyKeepsIInv == ASSUME IInv, NEW w \in Workers, Deny(w) PROVE IInv'
<1> DEFINE b == job[w].req.build
<1>1. ~Idle(w) /\ b \in Builds
  BY RequestOfJob DEF Deny, Idle
<1>2. /\ pc' = [pc EXCEPT ![w] = "idle"] /\ job' = [job EXCEPT ![w] = Nothing]
      /\ UNCHANGED <<split, latest, locks, clicks, history>>
      /\ faults' \in 0..MaxFaults
  BY FaultsTyped DEF Deny, End, gcp
<1>3. Grows
  BY <1>2 DEF Grows, history
<1>4. /\ message' \in [Builds -> Messages]
      /\ \A c \in Builds : MessageInv(c)'
      /\ Announced
  <2>1. /\ Text("outcome", {}) \in Messages
        /\ Text("outcome", {}).kind # "none" /\ Text("outcome", {}).buttons = {}
    BY DEF Text, Messages
  <2>2. CASE message' = message
    BY <1>3, <2>2, MessagesSame DEF IInv, TypeOK
  <2>3. CASE message' = [message EXCEPT ![b] = Text("outcome", {})]
    BY <1>1, <1>3, <2>1, <2>3, MessagesKeep
  <2> QED BY <2>2, <2>3 DEF Deny
<1>5. TypeOK'
  BY <1>1, <1>2, <1>4 DEF IInv, TypeOK, Idle, history
<1>6. ASSUME NEW v \in Workers
      PROVE  \/ pc'[v] = "idle"
             \/ /\ pc'[v] = pc[v] /\ job'[v] = job[v]
                /\ Working(v) => Key(job[v].req) \in locks'[job[v].at]
  BY <1>2, RequestOfJob DEF IInv, TypeOK, HeldInv, Working, Idle
<1> QED BY <1>2, <1>3, <1>4, <1>5, <1>6, RestKeeps DEF history

(* What the message offers at the end of a run: the first buttons, the same step
   again, or the step after the one that was reached. *)
LEMMA ButtonsAreOffered ==
  ASSUME IInv, NEW w \in Workers, Offer(w), NEW r \in Buttons(job[w])
  PROVE  r \in Requests /\ r.build = job[w].req.build /\ Offered(r)'
<1> DEFINE j == job[w]  q == job[w].req  b == job[w].req.build
<1>1. /\ q \in Requests /\ b \in Builds /\ q \in approved /\ PhaseInv(w)
      /\ pc[w] = "offer" /\ q.kind \in {"job", "service"}
  <2>1. /\ pc[w] = "offer" /\ ~Idle(w) /\ Working(w)
    BY DEF Offer, Idle, Working
  <2> QED BY <2>1, RequestOfJob DEF HeldInv, PhaseInv, Requests
<1>2. clicks \in Nat /\ 10 \in StepSet \cup {0} /\ 0 \in StepSet \cup {0}
  BY BoundsAssumption, StepsAre DEF IInv, TypeOK
<1>3. (q.kind = "service" => Settled(b)) /\ Offered(q)
  BY <1>1, ApprovedIsOffered
<1>4. /\ migrated' = migrated /\ approved' = approved /\ completed \subseteq completed'
      /\ q.kind = "service" /\ ~Failed(j) => <<b, q.percent>> \in completed'
  BY DEF Offer
<1>5. Settled(b) => \/ b \in migrated'
                    \/ \E x \in approved' : x.build = b /\ x.dialog # "none"
  BY <1>4 DEF Settled
<1>6. ~(10 > 10) /\ ~(0 > 10)
  OBVIOUS
<1>7. CASE Failed(j) /\ q.kind = "job"
  <2>1. r \in InitialButtons(b)
    BY <1>7 DEF Buttons
  <2> QED BY <1>1, <1>2, <1>6, <2>1 DEF InitialButtons, Button, Request, Requests, Offered
<1>8. CASE Failed(j) /\ q.kind # "job"
  <2>1. r = Request(b, q.kind, q.percent)
    BY <1>8 DEF Buttons, Retry
  <2>2. r \in Requests /\ r.build = b /\ r.kind = "service" /\ r.percent = q.percent
    BY <1>1, <1>2, <1>8, <2>1 DEF Button, Request, Requests
  <2>3. q.percent > 10 => Reached(r)'
    BY <1>1, <1>3, <1>4, <1>8, <2>2 DEF Offered, Reached
  <2> QED BY <1>1, <1>3, <1>5, <1>8, <2>2, <2>3 DEF Offered, Settled
<1>9. CASE ~Failed(j) /\ q.kind = "job"
  <2>1. r \in AfterMigration(b)
    BY <1>9 DEF Buttons
  <2>2. b \in migrated'
    BY <1>1, <1>4, <1>9 DEF PhaseInv
  <2> QED BY <1>1, <1>2, <1>6, <2>1, <2>2
          DEF AfterMigration, Button, Request, Requests, Offered, Settled
<1>10. CASE ~Failed(j) /\ q.kind # "job"
  <2> DEFINE p == NextCanaryPercent(q.percent)
  <2>1. /\ p # 0 /\ q.percent # 0
        /\ r \in {Request(b, "service", p), Request(b, "service", 0)}
    BY <1>10 DEF Buttons, Continuation
  <2>2. /\ p \in StepSet \cup {0}
        /\ \E i \in 2..5 : CanarySteps[i] = p /\ CanarySteps[i - 1] = q.percent
    BY <1>1, <2>1, NextIsNext DEF Requests
  <2>3. /\ r \in Requests /\ r.build = b /\ r.kind = "service" /\ r.percent \in {0, p}
    <3> HIDE DEF p
    <3> QED BY <1>1, <1>2, <2>1, <2>2 DEF Button, Request, Requests
  <2>4. \E i \in 2..5 : CanarySteps[i] = p /\ <<b, CanarySteps[i - 1]>> \in completed'
    BY <1>1, <1>4, <1>10, <2>2
  <2> HIDE DEF p
  <2>5. r.percent > 10 => Reached(r)'
    BY <1>6, <2>3, <2>4 DEF Reached
  <2> QED BY <1>1, <1>3, <1>5, <1>10, <2>3, <2>5 DEF Offered, Settled
<1> QED BY <1>7, <1>8, <1>9, <1>10

(* The goroutine says how it ended, gives its own lock back and is gone. *)
LEMMA OfferKeepsIInv == ASSUME IInv, NEW w \in Workers, Offer(w) PROVE IInv'
<1> DEFINE j == job[w]  q == job[w].req  b == job[w].req.build
           held == [locks EXCEPT ![job[w].at] = @ \ {Key(job[w].req)}]
<1>1. /\ ~Idle(w) /\ Working(w) /\ j \in Jobs /\ q \in Requests /\ b \in Builds
  BY RequestOfJob DEF Offer, Idle, Working
<1>2. /\ pc' = [pc EXCEPT ![w] = "idle"] /\ job' = [job EXCEPT ![w] = Nothing]
      /\ locks' = held
      /\ UNCHANGED <<split, latest, clicks, migrated, approved, mixed>>
  BY DEF Offer, End, gcp
<1>3. /\ faults' \in 0..MaxFaults
      /\ \/ UNCHANGED message /\ cut' = cut \cup {b}
         \/ cut' = cut /\ message' = [message EXCEPT ![b] = Text(Outcome(j), Buttons(j))]
         \/ cut' = cut /\ message' = [message EXCEPT ![b] = Text(Outcome(j), {})]
         \/ cut' = cut /\ message' = [message EXCEPT ![b] = Text("timeout", {})]
  <2>1. faults' \in 0..MaxFaults
    BY BoundsAssumption DEF Offer, Tell, Works, Fault, IInv, TypeOK
  <2> QED BY <2>1 DEF Offer, Tell, Say, SayNothing
<1>4. Grows /\ completed' \subseteq Builds \X (StepSet \cup {0})
  BY <1>1, <1>2 DEF Grows, Offer, IInv, TypeOK, Requests
<1>5. Outcome(j) \in {"broken", "undone", "outcome"}
  BY DEF Outcome
<1>6. \A r \in Buttons(j) : r \in Requests /\ r.build = b /\ Offered(r)'
  BY ButtonsAreOffered
<1>7. /\ message' \in [Builds -> Messages]
      /\ \A c \in Builds : MessageInv(c)'
      /\ Announced
  <2>1. ASSUME NEW text \in Messages, text.kind # "none", text.buttons \subseteq Buttons(j),
               message' = [message EXCEPT ![b] = text]
        PROVE  /\ message' \in [Builds -> Messages]
               /\ \A c \in Builds : MessageInv(c)'
               /\ Announced
    <3>1. \A r \in text.buttons : r.build = b /\ Offered(r)'
      BY <1>6, <2>1
    <3> HIDE DEF b
    <3> QED BY <1>1, <1>4, <2>1, <3>1, MessagesKeep
  <2>2. CASE message' = message
    BY <1>4, <2>2, MessagesSame DEF IInv, TypeOK
  <2>3. \A kind \in {"broken", "undone", "outcome", "timeout"}, some \in SUBSET Buttons(j) :
          /\ Text(kind, some) \in Messages
          /\ Text(kind, some).kind # "none" /\ Text(kind, some).buttons \subseteq Buttons(j)
    BY <1>6 DEF Text, Messages
  <2> QED BY <1>3, <1>5, <2>1, <2>2, <2>3
<1>8. TypeOK'
  <2>1. /\ held \in [Instances -> SUBSET Keys]
    BY DEF IInv, TypeOK
  <2>2. cut' \subseteq Builds
    BY <1>1, <1>3 DEF IInv, TypeOK
  <2> HIDE DEF held
  <2> QED BY <1>1, <1>2, <1>3, <1>4, <1>7, <2>1, <2>2 DEF IInv, TypeOK, Idle
<1>9. ASSUME NEW v \in Workers
      PROVE  \/ pc'[v] = "idle"
             \/ /\ pc'[v] = pc[v] /\ job'[v] = job[v]
                /\ Working(v) => Key(job[v].req) \in locks'[job[v].at]
  <2>1. CASE v = w
    BY <1>2, <2>1 DEF IInv, TypeOK
  <2>2. CASE v # w
    <3>1. pc'[v] = pc[v] /\ job'[v] = job[v]
      BY <1>2, <2>2 DEF IInv, TypeOK
    <3>2. ASSUME Working(v) PROVE Key(job[v].req) \in locks'[job[v].at]
      <4>1. ~Idle(v) /\ job[v] \in Jobs /\ Key(job[v].req) \in locks[job[v].at]
        BY <3>2, RequestOfJob DEF HeldInv, Working, Idle
      <4>2. job[v].at = job[w].at => Key(job[v].req) # Key(job[w].req)
        <5>1. {pc[v], pc[w]} \cap {"idle", "begin", "deny"} = {}
          BY <1>1, <3>2 DEF Working
        <5> QED BY <2>2, <5>1 DEF IInv, OneRunPerKey
      <4> QED BY <1>1, <1>2, <4>1, <4>2 DEF IInv, TypeOK, Jobs
    <3> QED BY <3>1, <3>2
  <2> QED BY <2>1, <2>2
<1> QED BY <1>2, <1>4, <1>7, <1>8, <1>9, RestKeeps

(* The guards turn a click away, or the goroutine takes the lock of its key. *)
LEMMA BeginKeepsIInv == ASSUME IInv, NEW w \in Workers, Begin(w) PROVE IInv'
<1> DEFINE r == job[w].req  i == job[w].at
<1>1. /\ pc[w] = "begin" /\ ~Idle(w) /\ ~Working(w) /\ r \in Requests /\ r.build \in Builds
      /\ i \in Instances /\ job[w] \in Jobs /\ HeldInv(w) /\ PhaseInv(w)
  BY RequestOfJob DEF Begin, Idle, Working, Jobs
<1>2. /\ UNCHANGED <<split, latest, message, clicks, faults, migrated, completed, cut>>
      /\ \/ UNCHANGED <<locks, approved, mixed>> /\ End(w)
         \/ /\ Key(r) \notin locks[i]
            /\ locks' = [locks EXCEPT ![i] = @ \cup {Key(r)}]
            /\ approved' = approved \cup {r}
            /\ mixed' = mixed \cup {b \in {r.build} : \E v \in Workers : AtWork(v, b)}
            /\ pc' = [pc EXCEPT ![w] = "progress"] /\ job' = job
  BY DEF Begin, LeavesHeld, gcp
<1>3. Grows /\ Announced /\ \A c \in Builds : MessageInv(c)'
  <2>1. Grows
    BY <1>2 DEF Grows
  <2> QED BY <1>2, <2>1, MessagesSame
<1>4. ASSUME NEW v \in Workers, Working(v) PROVE Key(job[v].req) \in locks[job[v].at]
  BY <1>4, RequestOfJob DEF HeldInv, Working, Idle
<1>5. CASE UNCHANGED <<locks, approved, mixed>> /\ End(w)
  <2>1. TypeOK'
    BY <1>2, <1>5 DEF End, IInv, TypeOK, Idle
  <2>2. ASSUME NEW v \in Workers
        PROVE  \/ pc'[v] = "idle"
               \/ /\ pc'[v] = pc[v] /\ job'[v] = job[v]
                  /\ Working(v) => Key(job[v].req) \in locks'[job[v].at]
    BY <1>4, <1>5 DEF End, IInv, TypeOK
  <2> QED BY <1>2, <1>3, <1>5, <2>1, <2>2, RestKeeps
<1>6. CASE /\ Key(r) \notin locks[i]
           /\ locks' = [locks EXCEPT ![i] = @ \cup {Key(r)}]
           /\ approved' = approved \cup {r}
           /\ mixed' = mixed \cup {b \in {r.build} : \E v \in Workers : AtWork(v, b)}
           /\ pc' = [pc EXCEPT ![w] = "progress"] /\ job' = job
  <2>1. /\ pc'[w] = "progress" /\ \A v \in Workers : v # w => pc'[v] = pc[v]
    BY <1>6 DEF IInv, TypeOK
  <2>2. /\ Key(r) \in Keys
        /\ locks' \in [Instances -> SUBSET Keys]
        /\ \A h \in Instances : locks[h] \subseteq locks'[h]
        /\ Key(r) \in locks'[i]
    <3>1. Key(r) \in Keys
      BY <1>1 DEF Key, Keys, Requests
    <3> HIDE DEF r
    <3> QED BY <1>1, <1>6, <3>1 DEF IInv, TypeOK
  <2>3. TypeOK'
    BY <1>1, <1>2, <1>6, <2>1, <2>2 DEF IInv, TypeOK, Idle
  <2>4. ASSUME NEW v \in Workers
        PROVE  ((~Idle(v))' => HeldInv(v)' /\ PhaseInv(v)') /\ WalkInv(v)'
    <3>1. CASE v = w
      <4>1. PICK q \in Requests : q = job[w].req /\ q = job'[w].req
        BY <1>1, <1>6
      <4>2. Offered(q)'
        BY <1>1, <1>3, <4>1, OffersStand DEF Grows, HeldInv
      <4>3. HeldInv(w)'
        BY <1>1, <1>2, <1>6, <2>2, <4>1, <4>2 DEF HeldInv, Key, Offered, Reached, Settled
      <4>4. PhaseInv(w)'
        BY <1>1, <1>6, <2>1 DEF PhaseInv, Failed, Broken
      <4>5. WalkInv(w)'
        BY <2>1 DEF WalkInv
      <4> QED BY <3>1, <4>3, <4>4, <4>5
    <3>2. CASE v # w
      <4>1. Working(v) => Key(job[v].req) \in locks'[job[v].at]
        <5>1. Working(v) => job[v].at \in Instances
          BY RequestOfJob DEF Jobs, Working, Idle
        <5> QED BY <1>4, <2>2, <5>1
      <4> QED BY <1>2, <1>3, <1>6, <2>1, <3>2, <4>1, OthersKeep
    <3> QED BY <3>1, <3>2
  <2>5. \A v \in Workers : v # w => (Working(v)' <=> Working(v))
    BY <2>1 DEF Working
  <2>6. MixedInv'
    <3>1. ASSUME NEW v \in Workers, v # w, Working(v), job[v].req.build = r.build
          PROVE  r.build \in mixed'
      <4>1. AtWork(v, r.build)
        BY <3>1 DEF AtWork, Working
      <4> QED BY <1>6, <4>1
    <3> SUFFICES ASSUME NEW u \in Workers, NEW v \in Workers, u # v, Working(u)', Working(v)',
                        job[u].req.build = job[v].req.build
                 PROVE  job[u].req.build \in mixed'
      BY <1>6 DEF MixedInv
    <3>2. CASE u # w /\ v # w
      BY <1>3, <2>5, <3>2 DEF IInv, MixedInv, Grows
    <3>3. CASE u = w \/ v = w
      BY <2>5, <3>1, <3>3
    <3> QED BY <3>2, <3>3
  <2>7. OneRunPerKey'
    <3>1. ASSUME NEW v \in Workers, v # w, Working(v), job[v].at = i PROVE Key(job[v].req) # Key(r)
      BY <1>4, <1>6, <3>1
    <3> SUFFICES ASSUME NEW u \in Workers, NEW v \in Workers, u # v, Working(u)', Working(v)',
                        job[u].at = job[v].at
                 PROVE  Key(job[u].req) # Key(job[v].req)
      BY <1>6 DEF OneRunPerKey, Working, Key
    <3>2. CASE u # w /\ v # w
      <4>1. {pc[u], pc[v]} \cap {"idle", "begin", "deny"} = {}
        BY <2>5, <3>2 DEF Working
      <4> QED BY <4>1 DEF IInv, OneRunPerKey
    <3>3. CASE u = w \/ v = w
      BY <2>5, <3>1, <3>3
    <3> QED BY <3>2, <3>3
  <2>8. ShareWasApproved'
    BY <1>2, <1>3, SharesKeep
  <2>9. StepsInOrder'
    <3>1. r.kind = "service" /\ r.percent > 10 => Reached(r)
      BY <1>1 DEF HeldInv, Offered
    <3> HIDE DEF r
    <3> QED BY <1>2, <1>6, <3>1 DEF IInv, StepsInOrder, Reached
  <2>10. SkipWasConfirmed'
    <3>1. r.kind = "service" => r.dialog # "none" \/ Settled(r.build)
      BY <1>1 DEF HeldInv, Offered
    <3> HIDE DEF r
    <3>2. ASSUME NEW q \in approved', q.kind = "service"
          PROVE  q.build \in migrated' \/ \E x \in approved' : x.build = q.build /\ x.dialog # "none"
      <4>1. CASE q \in approved
        BY <1>2, <1>6, <3>2, <4>1 DEF IInv, SkipWasConfirmed
      <4>2. CASE q = r
        BY <1>2, <1>6, <3>1, <3>2, <4>2 DEF Settled
      <4> QED BY <1>6, <4>1, <4>2
    <3> QED BY <3>2 DEF SkipWasConfirmed
  <2> QED BY <1>3, <2>3, <2>4, <2>6, <2>7, <2>8, <2>9, <2>10 DEF IInv
<1> QED BY <1>2, <1>5, <1>6

(* An instance takes its goroutines and its locks with it, and no other's. *)
LEMMA CrashKeepsIInv == ASSUME IInv, NEW i \in Instances, Crash(i) PROVE IInv'
<1> DEFINE Here == {w \in Workers : ~Idle(w) /\ job[w].at = i}
<1>1. /\ pc' = [w \in Workers |-> IF w \in Here THEN "idle" ELSE pc[w]]
      /\ job' = [w \in Workers |-> IF w \in Here THEN Nothing ELSE job[w]]
      /\ locks' = [locks EXCEPT ![i] = {}]
      /\ cut' = cut \cup {job[w].req.build : w \in Here}
      /\ UNCHANGED <<split, latest, message, clicks, migrated, approved, completed, mixed>>
      /\ faults' \in 0..MaxFaults
  BY BoundsAssumption DEF Crash, Fault, gcp, IInv, TypeOK
<1>2. Grows /\ Announced /\ \A c \in Builds : MessageInv(c)'
  <2>1. Grows
    BY <1>1 DEF Grows
  <2> QED BY <1>1, <2>1, MessagesSame
<1>3. TypeOK'
  <2>1. /\ pc' \in [Workers -> {"idle", "begin", "deny", "progress", "backup", "migrate", "read",
                                "update", "offer"}]
        /\ job' \in [Workers -> Jobs \cup {Nothing}]
        /\ \A w \in Workers : IF Idle(w)' THEN job'[w] = Nothing ELSE job'[w] \in Jobs
    BY <1>1 DEF IInv, TypeOK, Idle
  <2>2. cut' \subseteq Builds
    <3>1. \A w \in Here : job[w].req.build \in Builds
      BY RequestOfJob
    <3> QED BY <1>1, <3>1 DEF IInv, TypeOK
  <2>3. locks' \in [Instances -> SUBSET Keys]
    BY <1>1 DEF IInv, TypeOK
  <2> QED BY <1>1, <2>1, <2>2, <2>3 DEF IInv, TypeOK
<1>4. ASSUME NEW v \in Workers
      PROVE  \/ pc'[v] = "idle"
             \/ /\ pc'[v] = pc[v] /\ job'[v] = job[v]
                /\ Working(v) => Key(job[v].req) \in locks'[job[v].at]
  <2>1. CASE v \in Here
    BY <1>1, <2>1
  <2>2. CASE v \notin Here
    <3>1. ASSUME Working(v) PROVE Key(job[v].req) \in locks'[job[v].at]
      <4>1. ~Idle(v) /\ job[v] \in Jobs /\ Key(job[v].req) \in locks[job[v].at]
        BY <3>1, RequestOfJob DEF HeldInv, Working, Idle
      <4>2. job[v].at # i /\ job[v].at \in Instances
        BY <2>2, <4>1 DEF Jobs
      <4> QED BY <1>1, <4>1, <4>2 DEF IInv, TypeOK
    <3> QED BY <1>1, <2>2, <3>1
  <2> QED BY <2>1, <2>2
<1> QED BY <1>1, <1>2, <1>3, <1>4, RestKeeps

(* Every step keeps the invariant. *)
LEMMA NextIInv == IInv /\ [Next]_vars => IInv'
<1> SUFFICES ASSUME IInv, [Next]_vars PROVE IInv' OBVIOUS
<1>1. ASSUME NEW w \in Workers, Work(w) \/ Timeout(w) PROVE IInv'
  BY <1>1, BeginKeepsIInv, DenyKeepsIInv, ProgressKeepsIInv, JobStepKeepsIInv, ReadKeepsIInv,
     UpdateKeepsIInv, OfferKeepsIInv, TimeoutKeepsIInv DEF Work
<1>2. ASSUME NEW b \in Builds, Deploy(b) PROVE IInv'
  BY <1>2, DeployKeepsIInv
<1>3. ASSUME NEW b \in Builds, NEW w \in Workers, NEW i \in Instances, NEW u \in Users,
             NEW r \in message[b].buttons, Click(w, i, u, r)
      PROVE  IInv'
  BY <1>3, ClickKeepsIInv
<1>4. ASSUME NEW i \in Instances, Crash(i) PROVE IInv'
  BY <1>4, CrashKeepsIInv
<1>5. CASE UNCHANGED vars
  <2>1. UNCHANGED <<split, latest, message, locks, pc, job, clicks, faults, migrated, approved,
                    completed, cut, mixed>>
    BY <1>5 DEF vars, gcp, history
  <2>2. Grows /\ Announced /\ \A c \in Builds : MessageInv(c)'
    <3>1. Grows
      BY <2>1 DEF Grows
    <3> QED BY <2>1, <3>1, MessagesSame
  <2>3. TypeOK'
    BY <2>1 DEF IInv, TypeOK, Idle
  <2>4. \A v \in Workers : Working(v) => Key(job[v].req) \in locks[job[v].at]
    BY RequestOfJob DEF HeldInv, Working, Idle
  <2> QED BY <2>1, <2>2, <2>3, <2>4, RestKeeps
<1> QED BY <1>1, <1>2, <1>3, <1>4, <1>5 DEF Next

(***************************************************************************)
(* The theorems.                                                           *)
(***************************************************************************)
(* The inductive invariant holds in every reachable state. *)
THEOREM Invariance == Spec => []IInv
  BY InitIInv, NextIInv, PTL DEF Spec

(* The traffic, the messages, the locks and the goroutines keep their types: a
   percentage is one, and a goroutine has a job exactly while it runs. *)
THEOREM TypeCorrect == Spec => []TypeOK
<1>1. IInv => TypeOK
  BY DEF IInv
<1> QED BY <1>1, Invariance, PTL

(* store.go's TryLock and runops.go:61-66: however often a button is clicked, an
   instance runs an operation once at a time, and only its own goroutine gives
   the lock back. *)
THEOREM OneRunPerKeyHolds == Spec => []OneRunPerKey
<1>1. IInv => OneRunPerKey
  BY DEF IInv
<1> QED BY <1>1, Invariance, PTL

(* While a build is the only one announced, no service gives it a larger share
   than a listed user approved, whatever fails, is retried or crashes. *)
THEOREM ShareWasApprovedHolds == Spec => []ShareWasApproved
<1>1. IInv => ShareWasApproved
  BY DEF IInv
<1> QED BY <1>1, Invariance, PTL

(* runops.go:133-164 and :257-275: what the message says of a canary at the end of
   a run, on the only build and with no second goroutine on it, is what Cloud Run
   serves, for any number of services and wherever the walk or its undoing stopped. *)
THEOREM SaidIsSoHolds == Spec => []SaidIsSo
<1>1. ASSUME IInv PROVE SaidIsSo
  <2> SUFFICES ASSUME NEW w \in Workers, pc[w] = "offer", job[w].req.kind = "service",
                      Undisturbed(w)
               PROVE  /\ ~Failed(job[w]) =>
                           \A s \in Services : split[s][job[w].req.build] = job[w].req.percent
                      /\ Failed(job[w]) /\ ~Broken(job[w]) =>
                           \A s \in 1..job[w].last : split[s][job[w].req.build] = 0
    BY DEF SaidIsSo, Undisturbed
  <2>1. PhaseInv(w)
    BY <1>1, RequestOfJob DEF Idle
  <2>2. ~Broken(job[w]) => \A s \in 1..job[w].last : split[s][job[w].req.build] = Want(w)
    BY <1>1 DEF IInv, WalkInv, Done
  <2> QED BY <2>1, <2>2 DEF PhaseInv, Want, Services
<1> QED BY <1>1, Invariance, PTL

(* ADR 0008: a step past the first is approved only after the one before it was
   reached on every service, through failures, retries and several goroutines. *)
THEOREM StepsInOrderHolds == Spec => []StepsInOrder
<1>1. IInv => StepsInOrder
  BY DEF IInv
<1> QED BY <1>1, Invariance, PTL

(* ADR 0009: no canary of a build whose migration did not run to the end is
   approved before a listed user answered the question about the migration. *)
THEOREM SkipWasConfirmedHolds == Spec => []SkipWasConfirmed
<1>1. IInv => SkipWasConfirmed
  BY DEF IInv
<1> QED BY <1>1, Invariance, PTL
=============================================================================
