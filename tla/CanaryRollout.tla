---------------------------- MODULE CanaryRollout ----------------------------
(***************************************************************************)
(* Progressive canary rollouts: RunOpsService.ApproveAction, the Cloud Run *)
(* controller it drives, its per-instance operation lock and the buttons   *)
(* of the Slack message that offers the next step.                         *)
(*                                                                         *)
(* A build deploys one revision of every service without traffic and posts *)
(* one message.  A click runs ApproveAction in a goroutine that walks over *)
(* the services; every call to Cloud Run, Cloud SQL or Slack is a step, so *)
(* other clicks, a build, the 25-minute deadline or the end of the         *)
(* instance can fall between any two of them.                              *)
(***************************************************************************)
EXTENDS Integers, Sequences, FiniteSets

CONSTANTS
  N,           \* services 1..N, in the order of the CSV
  Builds,      \* a build names the revision it deploys on every service
  Old,         \* the revision that serves before any build
  Users, Allowed,   \* people who click; ALLOWED_SLACK_USERS
  Instances,   \* gateway instances, each with its own MemoryStore
  Workers,     \* goroutines
  Nothing,     \* no job
  Expiry,      \* BUTTON_EXPIRY_SECONDS, in ticks of the clock
  MaxClicks,   \* bound on clicks; a click is the tick of the clock
  MaxFaults    \* bound on failed calls, deadlines and lost instances

ASSUME ServicesAssumption == N \in Nat \ {0}
ASSUME BuildsAssumption == Old \notin Builds
ASSUME WorkersAssumption == Nothing \notin Workers
ASSUME BoundsAssumption == Expiry \in Nat /\ MaxClicks \in Nat /\ MaxFaults \in Nat

Services == 1..N
Revisions == Builds \cup {Old}

VARIABLES
  split,       \* service -> revision -> percent of the traffic; 0 when not listed
  latest,      \* service -> LatestReadyRevision
  message,     \* build -> its Slack message: a kind of text and its buttons
  locks,       \* instance -> operation keys held
  pc, job,     \* the goroutines
  clicks, faults,
  migrated,    \* history: builds whose migration job ran to the end
  approved,    \* history: steps a listed user clicked in time
  completed,   \* history: steps reached on every service
  cut,         \* history: builds with a goroutine lost, or unable to say how it ended
  mixed        \* history: builds on which two goroutines were at work at once

gcp == <<split, latest>>
history == <<migrated, approved, completed, cut, mixed>>
vars == <<gcp, message, locks, pc, job, clicks, faults, history>>

(***************************************************************************)
(* Actions and requests.                                                   *)
(***************************************************************************)
CanarySteps == <<10, 30, 50, 80, 100>>
StepSet == {CanarySteps[i] : i \in DOMAIN CanarySteps}

(* 0 after the last step. *)
SkipsSteps(p) == IF p < 50 THEN 50 ELSE 0      \* mutant
NextCanaryPercent(p) ==
  IF \E i \in 1..4 : CanarySteps[i] = p
  THEN CanarySteps[1 + CHOOSE i \in 1..4 : CanarySteps[i] = p]
  ELSE 0

(* percent 0 is the action "rollback"; a job has the action "migrate_apply".
   A button may open a dialog first: was the database migrated?  A "service"
   is a Cloud Run service or a worker pool: both go through approveShift. *)
Button(b, kind, percent, dialog) ==
  [build |-> b, kind |-> kind, percent |-> percent, dialog |-> dialog, issuedAt |-> clicks]
Request(b, kind, percent) == Button(b, kind, percent, "none")

Key(r) == <<r.build, r.kind, r.percent, r.issuedAt>>

IsExpired(r) == clicks - r.issuedAt > Expiry

(***************************************************************************)
(* The message.                                                            *)
(***************************************************************************)
Text(kind, buttons) == [kind |-> kind, buttons |-> buttons]

NeverAsks(b) == {Request(b, "job", 0), Request(b, "service", 10),
                 Request(b, "deny", 0)}        \* mutant
InitialButtons(b) == {Request(b, "job", 0), Button(b, "service", 10, "migrated?"),
                      Request(b, "deny", 0)}

AfterMigration(b) == {Request(b, "service", 10), Request(b, "deny", 0)}

(* After a step: the next one and the stop button; after the last, or a rollback, neither. *)
Continuation(r) ==
  LET p == NextCanaryPercent(r.percent)
  IN IF r.percent = 0 \/ p = 0 THEN {}
     ELSE {Request(r.build, "service", p), Request(r.build, "service", 0)}

(* offerRetry: the same action again; this button opens no dialog. *)
Retry(r) == {Request(r.build, r.kind, r.percent)}

(* cloudbuild.yaml: a revision without traffic, and the three-button message. *)
Deploy(b) ==
  /\ message[b].kind = "none"
  /\ latest' = [s \in Services |-> b]
  /\ message' = [message EXCEPT ![b] = Text("buttons", InitialButtons(b))]
  /\ UNCHANGED <<split, locks, pc, job, clicks, faults, history>>

(***************************************************************************)
(* A click, and the guards at the head of ApproveAction.                   *)
(***************************************************************************)
Idle(w) == pc[w] = "idle"

(* What is marked on a job: the walk failed, its compensation did, its context
   is past the deadline. *)
Failed(j) == "failed" \in j.marks
Broken(j) == "broken" \in j.marks
Late(j) == "late" \in j.marks
Marked(j, mark) == [j EXCEPT !.marks = @ \cup {mark}]

Click(w, i, u, r) ==
  /\ clicks < MaxClicks
  /\ Idle(w)
  /\ clicks' = clicks + 1
  /\ pc' = [pc EXCEPT ![w] = IF r.kind = "deny" THEN "deny" ELSE "begin"]
  /\ job' = [job EXCEPT ![w] = [at |-> i, by |-> u, req |-> r, index |-> 1, last |-> N,
                                marks |-> {}, seen |-> Nothing]]
  /\ UNCHANGED <<gcp, message, locks, faults, history>>

End(w) == /\ pc' = [pc EXCEPT ![w] = "idle"]
          /\ job' = [job EXCEPT ![w] = Nothing]

ReleasesAnyway(i, k) == locks' = [locks EXCEPT ![i] = @ \ {k}]      \* mutant
LeavesHeld(i, k) == UNCHANGED locks

AtWork(w, b) == pc[w] \notin {"idle", "begin", "deny"} /\ job[w].req.build = b

(* TryLock, IsAuthorized, IsExpired; whoever got the lock releases it. *)
Begin(w) ==
  LET r == job[w].req  i == job[w].at IN
  /\ pc[w] = "begin"
  /\ \/ /\ Key(r) \in locks[i]
        /\ LeavesHeld(i, Key(r))
        /\ End(w)
        /\ UNCHANGED <<approved, mixed>>
     \/ /\ Key(r) \notin locks[i]
        /\ job[w].by \notin Allowed \/ IsExpired(r)
        /\ End(w)
        /\ UNCHANGED <<locks, approved, mixed>>
     \/ /\ Key(r) \notin locks[i]
        /\ job[w].by \in Allowed
        /\ ~IsExpired(r)
        /\ locks' = [locks EXCEPT ![i] = @ \cup {Key(r)}]
        /\ approved' = approved \cup {r}
        /\ mixed' = mixed \cup {b \in {r.build} : \E v \in Workers : AtWork(v, b)}
        /\ pc' = [pc EXCEPT ![w] = "progress"]
        /\ UNCHANGED job
  /\ UNCHANGED <<gcp, message, clicks, faults, migrated, completed, cut>>

(***************************************************************************)
(* A call of the goroutine to a backend; once its context is past the      *)
(* deadline every call fails.                                              *)
(***************************************************************************)
Works(w) == ~Late(job[w]) /\ UNCHANGED faults

Fault == faults < MaxFaults /\ faults' = faults + 1
Fails(w) == IF Late(job[w]) THEN UNCHANGED faults ELSE Fault

(* DenyAction: anybody's click, without a lock, and only the message. *)
Deny(w) ==
  /\ pc[w] = "deny"
  /\ \/ Works(w) /\ message' = [message EXCEPT ![job[w].req.build] = Text("outcome", {})]
     \/ Fails(w) /\ UNCHANGED message
  /\ End(w)
  /\ UNCHANGED <<gcp, locks, clicks, history>>

Goto(w, step) == pc' = [pc EXCEPT ![w] = step] /\ UNCHANGED job

(* UpdateMessage replaces text and buttons; its failure is only logged. *)
Progress(w) ==
  LET r == job[w].req IN
  /\ pc[w] = "progress"
  /\ \/ /\ Works(w)
        /\ message' = [message EXCEPT ![r.build] = Text("progress", {})]
     \/ Fails(w) /\ UNCHANGED message
  /\ Goto(w, IF r.kind = "job" THEN "backup" ELSE "read")
  /\ UNCHANGED <<gcp, locks, clicks, history>>

(***************************************************************************)
(* approveJob.                                                             *)
(***************************************************************************)
GiveUp(w) == /\ pc' = [pc EXCEPT ![w] = "offer"]
             /\ job' = [job EXCEPT ![w] = Marked(@, "failed")]

Backup(w) ==
  /\ pc[w] = "backup"
  /\ \/ Works(w) /\ Goto(w, "migrate")
     \/ Fails(w) /\ GiveUp(w)
  /\ UNCHANGED <<gcp, message, locks, clicks, history>>

Migrate(w) ==
  /\ pc[w] = "migrate"
  /\ \/ /\ Works(w)
        /\ Goto(w, "offer")
        /\ migrated' = migrated \cup {job[w].req.build}
     \/ Fails(w) /\ GiveUp(w) /\ UNCHANGED migrated
  /\ UNCHANGED <<gcp, message, locks, clicks, approved, completed, cut, mixed>>

(***************************************************************************)
(* approveShift and compensateRollback: Controller.ShiftTraffic on one     *)
(* service after the other.                                                *)
(***************************************************************************)
Want(w) == IF Failed(job[w]) THEN 0 ELSE job[w].req.percent

(* On to the next service, or to the message after the last one. *)
OneTooFar(w, j) ==      \* mutant
  /\ pc' = [pc EXCEPT ![w] = IF j.index > j.last THEN "offer" ELSE "read"]
  /\ job' = [job EXCEPT ![w] = [j EXCEPT !.index = @ + 1, !.seen = Nothing]]
Onward(w, j) ==
  \/ /\ j.index = j.last
     /\ pc' = [pc EXCEPT ![w] = "offer"]
     /\ job' = [job EXCEPT ![w] = [j EXCEPT !.seen = Nothing]]
  \/ /\ j.index < j.last
     /\ pc' = [pc EXCEPT ![w] = "read"]
     /\ job' = [job EXCEPT ![w] = [j EXCEPT !.index = @ + 1, !.seen = Nothing]]

(* An error ends the walk and starts the compensation of the services before
   it; an error of the compensation is noted and the next one tried. *)
NeverUndoes(w) ==      \* mutant
  LET j == job[w] IN
  /\ pc' = [pc EXCEPT ![w] = "offer"]
  /\ job' = [job EXCEPT ![w] = [Marked(j, "failed") EXCEPT !.last = j.index - 1,
                                                        !.index = 1, !.seen = Nothing]]
Trouble(w) ==
  LET j == job[w] IN
  \/ /\ Failed(j)
     /\ Onward(w, Marked(j, "broken"))
  \/ /\ ~Failed(j)
     /\ pc' = [pc EXCEPT ![w] = IF j.index = 1 THEN "offer" ELSE "read"]
     /\ job' = [job EXCEPT ![w] = [Marked(j, "failed") EXCEPT !.last = j.index - 1,
                                                           !.index = 1, !.seen = Nothing]]

(* GetService, and isTrafficAlreadyMatching. *)
Read(w) ==
  LET s == job[w].index IN
  /\ pc[w] = "read"
  /\ \/ /\ Works(w)
        /\ split[s][job[w].req.build] = Want(w)
        /\ Onward(w, job[w])
     \/ /\ Works(w)
        /\ split[s][job[w].req.build] # Want(w)
        /\ pc' = [pc EXCEPT ![w] = "update"]
        /\ job' = [job EXCEPT ![w].seen = [split |-> split[s], latest |-> latest[s]]]
     \/ Fails(w) /\ Trouble(w)
  /\ UNCHANGED <<gcp, message, locks, clicks, history>>

(* selectActiveRevision, and LatestReadyRevision when only b serves.  Which of
   two equal revisions comes first in the list is left open. *)
Heaviest(sp, b) == {r \in Revisions \ {b} :
                      sp[r] > 0 /\ \A q \in Revisions \ {b} : sp[q] <= sp[r]}
Active(seen, b) == IF Heaviest(seen.split, b) # {} THEN Heaviest(seen.split, b)
                                                 ELSE {seen.latest}

SwapsShares(b, a, p) ==      \* mutant
  [r \in Revisions |-> CASE r = b -> (IF a = b \/ p = 100 THEN p ELSE 100 - p)
                         [] r = a /\ p < 100 -> p
                         [] OTHER -> 0]
NewSplit(b, a, p) ==
  [r \in Revisions |-> CASE r = b -> p
                         [] r = a /\ r # b /\ p < 100 -> 100 - p
                         [] OTHER -> 0]

(* Cloud Run refuses a write that carries an old etag and a split whose
   percents do not add up: here one where b alone is given less than 100. *)
Accepted(s, seen, b, a, p) ==
  /\ split[s] = seen.split
  /\ latest[s] = seen.latest
  /\ a = b => p = 100

(* UpdateService and the wait for its operation, which may fail after the
   write took effect. *)
Update(w) ==
  LET s == job[w].index  b == job[w].req.build  seen == job[w].seen IN
  /\ pc[w] = "update"
  /\ \E a \in Active(seen, b) :
       LET ok == Accepted(s, seen, b, a, Want(w))
           Write == split' = [split EXCEPT ![s] = NewSplit(b, a, Want(w))]
       IN \/ Works(w) /\ ok /\ Write /\ Onward(w, job[w])
          \/ Works(w) /\ ~ok /\ Trouble(w) /\ UNCHANGED split
          \/ Fails(w) /\ Trouble(w) /\ UNCHANGED split
          \/ ~Late(job[w]) /\ Fault /\ ok /\ Write /\ Trouble(w)
  /\ UNCHANGED <<latest, message, locks, clicks, history>>

(***************************************************************************)
(* The end of ApproveAction: the outcome and its buttons, and the lock.    *)
(***************************************************************************)
Outcome(j) == CASE Broken(j) -> "broken"
                [] Failed(j) -> "undone"
                [] OTHER    -> "outcome"

Buttons(j) ==
  CASE Failed(j) /\ j.req.kind = "job" -> InitialButtons(j.req.build)
    [] Failed(j) /\ j.req.kind # "job" -> Retry(j.req)
    [] ~Failed(j) /\ j.req.kind = "job" -> AfterMigration(j.req.build)
    [] ~Failed(j) /\ j.req.kind # "job" -> Continuation(j.req)

Say(b, text) == message' = [message EXCEPT ![b] = text] /\ UNCHANGED cut
SayNothing(b) == UNCHANGED message /\ cut' = cut \cup {b}

(* offerOrFallback and rebuildInitial try once more with text alone, and log it
   when that fails too; past the deadline only notifyIfTimeout, after an error, still has a live context. *)
NoSecondTry(w) ==      \* mutant
  LET j == job[w]  b == j.req.build IN
  \/ Works(w) /\ Say(b, Text(Outcome(j), Buttons(j)))
  \/ Fails(w) /\ UNCHANGED <<message, cut>>
Tell(w) ==
  LET j == job[w]  b == j.req.build IN
  \/ Works(w) /\ Say(b, Text(Outcome(j), Buttons(j)))
  \/ ~Late(j) /\ Fault /\ Say(b, Text(Outcome(j), {}))
  \/ ~Late(j) /\ faults + 2 <= MaxFaults /\ faults' = faults + 2 /\ SayNothing(b)
  \/ Late(j) /\ Failed(j) /\ UNCHANGED faults /\ Say(b, Text("timeout", {}))
  \/ Late(j) /\ ~Failed(j) /\ UNCHANGED faults /\ SayNothing(b)

Offer(w) ==
  LET j == job[w]  r == j.req IN
  /\ pc[w] = "offer"
  /\ Tell(w)
  /\ completed' = completed \cup {<<x.build, x.percent>> :
                                    x \in {x \in {r} : x.kind = "service" /\ ~Failed(j)}}
  /\ locks' = [locks EXCEPT ![j.at] = @ \ {Key(r)}]
  /\ End(w)
  /\ UNCHANGED <<gcp, clicks, migrated, approved, mixed>>

(***************************************************************************)
(* The 25-minute deadline of a goroutine, and the end of an instance.      *)
(***************************************************************************)
Timeout(w) ==
  /\ pc[w] \notin {"idle", "begin", "deny"}
  /\ ~Late(job[w])
  /\ Fault
  /\ job' = [job EXCEPT ![w] = Marked(@, "late")]
  /\ UNCHANGED <<gcp, message, locks, pc, clicks, history>>

Crash(i) ==
  LET Here == {w \in Workers : ~Idle(w) /\ job[w].at = i} IN
  /\ Here # {}
  /\ Fault
  /\ pc' = [w \in Workers |-> IF w \in Here THEN "idle" ELSE pc[w]]
  /\ job' = [w \in Workers |-> IF w \in Here THEN Nothing ELSE job[w]]
  /\ locks' = [locks EXCEPT ![i] = {}]
  /\ cut' = cut \cup {job[w].req.build : w \in Here}
  /\ UNCHANGED <<gcp, message, clicks, migrated, approved, completed, mixed>>

(***************************************************************************)
(* Specification.                                                          *)
(***************************************************************************)
Init ==
  /\ split = [s \in Services |-> [r \in Revisions |-> IF r = Old THEN 100 ELSE 0]]
  /\ latest = [s \in Services |-> Old]
  /\ message = [b \in Builds |-> Text("none", {})]
  /\ locks = [i \in Instances |-> {}]
  /\ pc = [w \in Workers |-> "idle"]
  /\ job = [w \in Workers |-> Nothing]
  /\ clicks = 0
  /\ faults = 0
  /\ migrated = {} /\ approved = {} /\ completed = {} /\ cut = {} /\ mixed = {}

Work(w) == \/ Begin(w) \/ Deny(w) \/ Progress(w) \/ Backup(w) \/ Migrate(w)
           \/ Read(w) \/ Update(w) \/ Offer(w)

Next ==
  \/ \E w \in Workers : Work(w) \/ Timeout(w)
  \/ \E b \in Builds : Deploy(b)
  \/ \E b \in Builds, w \in Workers, i \in Instances, u \in Users :
       \E r \in message[b].buttons : Click(w, i, u, r)
  \/ \E i \in Instances : Crash(i)

Spec == Init /\ [][Next]_vars

(* Goroutines run on; nobody has to click. *)
FairSpec == Spec /\ \A w \in Workers : WF_vars(Work(w))

(***************************************************************************)
(* Properties.                                                             *)
(***************************************************************************)
Requests == [build : Builds, kind : {"job", "service", "deny"}, percent : StepSet \cup {0},
             dialog : {"none", "migrated?"}, issuedAt : Nat]
Keys == Builds \X {"job", "service", "deny"} \X (StepSet \cup {0}) \X Nat
Messages == [kind : {"none", "buttons", "progress", "outcome", "undone", "broken", "timeout"},
             buttons : SUBSET Requests]
Jobs == [at : Instances, by : Users, req : Requests, index : 1..N, last : 0..N,
         marks : SUBSET {"failed", "broken", "late"},
         seen : {Nothing} \cup [split : [Revisions -> 0..100], latest : Revisions]]

TypeOK ==
  /\ split \in [Services -> [Revisions -> 0..100]]
  /\ latest \in [Services -> Revisions]
  /\ message \in [Builds -> Messages]
  /\ locks \in [Instances -> SUBSET Keys]
  /\ pc \in [Workers -> {"idle", "begin", "deny", "progress", "backup", "migrate", "read",
                         "update", "offer"}]
  /\ job \in [Workers -> Jobs \cup {Nothing}]
  /\ \A w \in Workers : IF Idle(w) THEN job[w] = Nothing ELSE job[w] \in Jobs
  /\ clicks \in 0..MaxClicks
  /\ faults \in 0..MaxFaults
  /\ migrated \subseteq Builds /\ cut \subseteq Builds /\ mixed \subseteq Builds
  /\ approved \subseteq Requests
  /\ completed \subseteq Builds \X (StepSet \cup {0})

(* Two goroutines of an instance never run the same operation: the caller
   that loses TryLock does not give the winner's lock away. *)
OneRunPerKey ==
  \A v, w \in Workers :
    (/\ v # w
     /\ {pc[v], pc[w]} \cap {"idle", "begin", "deny"} = {}
     /\ job[v].at = job[w].at)
    => Key(job[v].req) # Key(job[w].req)

(* While no other build is rolled out, a revision never gets a larger share of a
   service than a listed user approved for its build, whatever failures,
   compensations and other clicks came in between.  Two builds at a time do not
   have this: the rest of a split goes to whichever other revision is heaviest. *)
Alone(b) == \A c \in Builds \ {b} : message[c].kind = "none"
ShareWasApproved ==
  \A s \in Services, b \in Builds :
    (Alone(b) /\ split[s][b] > 0)
      => \E r \in approved : r.build = b /\ split[s][b] <= r.percent

(* runops.go:133-164, :257-275: what the message is about to say of a canary is so.
   A step that succeeded is served by every service; after a failure that was
   undone, no service before the failing one is left with a share, although an
   update may have taken effect and its answer been lost (controller.go:105).
   Two goroutines on one build, or two builds, undo each other's work. *)
SaidIsSo ==
  \A w \in Workers :
    LET j == job[w] IN
    (pc[w] = "offer" /\ j.req.kind = "service" /\ j.req.build \notin mixed /\ Alone(j.req.build))
      => /\ ~Failed(j) => \A s \in Services : split[s][j.req.build] = j.req.percent
         /\ Failed(j) /\ ~Broken(j) => \A s \in 1..j.last : split[s][j.req.build] = 0

(* ADR 0008: a canary step is approved only after the step before it was
   reached on every service; failures offer the same step again. *)
StepsInOrder ==
  \A r \in approved :
    (r.kind = "service" /\ r.percent > 10) =>
      \E i \in 2..5 : CanarySteps[i] = r.percent /\ <<r.build, CanarySteps[i - 1]>> \in completed

(* ADR 0009: a canary of a build whose migration did not run to the end starts
   only when a listed user answered the question about the migration; retries
   and later steps of that build need not ask again. *)
SkipWasConfirmed ==
  \A r \in approved :
    r.kind = "service" =>
      r.build \in migrated \/ \E q \in approved : q.build = r.build /\ q.dialog # "none"

(* The message never stays at "in progress" unless its goroutine was lost
   with the instance, ran past the deadline, or Slack refused both messages. *)
NotStuck ==
  \A b \in Builds :
    message[b].kind = "progress" ~> (message[b].kind # "progress" \/ b \in cut)

(***************************************************************************)
(* What documents say, and the code does not do.                           *)
(***************************************************************************)
(* ADR 0001: production does not change before a person approved it; no
   revision serves without a click on its build. *)
OnlyApprovedServe ==
  \A s \in Services, b \in Builds :
    split[s][b] > 0 => \E r \in approved : r.build = b
=============================================================================
