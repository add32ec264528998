---------------------------- MODULE DMailOutbound ----------------------------
(***************************************************************************)
(* The way of a result back to Slack: a pillar writes a D-Mail into its    *)
(* archive directory, the dmail-emitter daemon publishes it on the         *)
(* dmail-outbound topic, and the gateway's subscriber shows it in the      *)
(* thread of the request, as a reply or as a pair of approval buttons.     *)
(*                                                                         *)
(* The emitter is one goroutine (Watcher.Run calls PublishFile itself), so *)
(* its steps are sequential; the writers, the Pub/Sub service and the      *)
(* subscriber's callbacks interleave with them.  The daemon may die at any *)
(* step: systemd starts it again and it scans the directory from scratch.  *)
(***************************************************************************)
EXTENDS Subscription

CONSTANTS
  Files,        \* .md files of one watched directory
  InPlace,      \* those a shell or an editor writes in place
  Mail,         \* file -> the frontmatter its writer gives it
  Workers,      \* callbacks of the subscriber running at once
  HasApprover,  \* SLACK_BOT_TOKEN is set, so an ApprovalRequester is wired
  MaxFailures,  \* bound on failed publishes, Slack errors and lost leases
  MaxKills      \* bound on deaths of the emitter

ResultKinds == {"report", "design-feedback", "implementation-feedback",
                "convergence", "ci-result"}

ASSUME MailAssumption ==
  /\ Nobody \notin Files
  /\ InPlace \subseteq Files
  /\ Mail \in [Files -> [kind : ResultKinds \cup {"specification"}, high : BOOLEAN,
                         threaded : BOOLEAN, target : {"paintress", "amadeus"}]]
ASSUME WorkersAssumption == Nobody \notin Workers
ASSUME BoundsAssumption ==
  /\ HasApprover \in BOOLEAN
  /\ MaxFailures \in Nat
  /\ MaxKills \in Nat

VARIABLES
  disk,      \* file -> what a read of it returns
  events,    \* file -> fsnotify events not yet received by the watcher
  seen,      \* Emitter.seen
  paused,    \* targets whose ordering key the publisher client has paused
  pc, file,  \* the emitter's goroutine and the file in its hands
  text,      \* what it read of that file
  todo,      \* directory entries the startup scan has still to hand over
  topic,     \* everything published on dmail-outbound
  hand,      \* worker -> index of the message it handles, or Nobody
  done,      \* worker -> what Handle returned
  shown,     \* indexes of messages whose post reached the thread
  failures, kills,
  copies     \* history: file -> publications in this life of the emitter

disks   == <<disk, events>>
emitter == <<seen, paused, pc, file, text, todo, copies>>
workers == <<hand, done, shown>>
vars == <<disks, emitter, topic, workers, failures, kills>>

Contents == {"none", "stub", "cut", "mail"}

(***************************************************************************)
(* The writers.  A temp+rename writer makes the whole file appear at once; *)
(* a shell or an editor creates it first, and a reader may see a stub,     *)
(* which ends before the closing --- and does not parse, or a mail whose   *)
(* body is cut, which does.                                                *)
(***************************************************************************)
\* fsnotify delivers nothing for a directory that was not added.
Watching == pc /= "down"
Notified(f) == IF Watching THEN [events EXCEPT ![f] = @ + 1] ELSE events

Continued(f) ==
  CASE disk[f] = "none" -> IF f \in InPlace THEN {"stub", "cut", "mail"} ELSE {"mail"}
    [] disk[f] = "stub" -> {"cut", "mail"}
    [] disk[f] = "cut"  -> {"mail"}
    [] OTHER            -> {}

Write(f) ==
  /\ \E c \in Continued(f) : disk' = [disk EXCEPT ![f] = c]
  /\ events' = Notified(f)
  /\ UNCHANGED <<emitter, topic, workers, failures, kills>>

(***************************************************************************)
(* The emitter.                                                            *)
(***************************************************************************)
\* notifier.Add comes before ReadDir: a file written between the two is in both.
AddDir ==
  /\ pc = "down"
  /\ pc' = "list"
  /\ UNCHANGED <<disks, seen, paused, file, text, todo, copies, topic, workers, failures, kills>>

ScanOnce ==
  /\ pc = "list"
  /\ todo' = {f \in Files : disk[f] /= "none"}
  /\ pc' = "idle"
  /\ UNCHANGED <<disks, seen, paused, file, text, copies, topic, workers, failures, kills>>

\* The next path: the scan's entries first, then the watcher's events.
NextPath(f) ==
  IF todo /= {}
  THEN /\ f \in todo
       /\ todo' = todo \ {f}
       /\ UNCHANGED events
  ELSE /\ events[f] > 0
       /\ events' = [events EXCEPT ![f] = @ - 1]
       /\ UNCHANGED todo

NeverSeen(f) == TRUE      \* mutant
Unseen(f) == f \notin seen

\* PublishFile up to the check-and-set of seen.
Take(f) ==
  /\ pc = "idle"
  /\ NextPath(f)
  /\ IF Unseen(f)
     THEN /\ seen' = seen \cup {f}
          /\ file' = f
          /\ pc' = "read"
     ELSE UNCHANGED <<seen, file, pc>>
  /\ UNCHANGED <<disk, paused, text, copies, topic, workers, failures, kills>>

KeepsSeen(f) == UNCHANGED seen      \* mutant
ClearOnFailure(f) == seen' = seen \ {f}

\* Back to the select of Watcher.Run (or the loop of scanOnce).
Return == pc' = "idle" /\ file' = Nobody /\ text' = "none"

ParsesStubs(f) == TRUE      \* mutant
\* ParseDMail wants the closing ---.
Parses(f) == disk[f] /= "stub"

Read ==
  /\ pc = "read"
  /\ IF Parses(file)
     THEN /\ pc' = "publish"
          /\ text' = disk[file]
          /\ UNCHANGED <<seen, file>>
     ELSE Return /\ ClearOnFailure(file)
  /\ UNCHANGED <<disks, paused, todo, copies, topic, workers, failures, kills>>

Target == Mail[file].target
Sent ==
  /\ topic' = Append(topic, Fresh([of |-> file, text |-> text]))
  /\ copies' = [copies EXCEPT ![file] = @ + 1]

Publish ==
  /\ pc = "publish"
  /\ Target \notin paused
  /\ Return
  /\ Sent
  /\ UNCHANGED <<disks, seen, paused, todo, workers, failures, kills>>

\* A failed publish may have reached the topic.  The client library then refuses
\* the ordering key until ResumePublish, which nothing calls.
PublishFails ==
  /\ pc = "publish"
  /\ failures < MaxFailures
  /\ Target \notin paused
  /\ failures' = failures + 1
  /\ paused' = paused \cup {Target}
  /\ Return
  /\ ClearOnFailure(file)
  /\ Sent \/ UNCHANGED <<topic, copies>>
  /\ UNCHANGED <<disks, todo, workers, kills>>

PublishRefused ==
  /\ pc = "publish"
  /\ Target \in paused
  /\ Return
  /\ ClearOnFailure(file)
  /\ UNCHANGED <<disks, paused, todo, copies, topic, workers, failures, kills>>

\* Everything in memory is lost: seen, the events, the paused keys.
Kill ==
  /\ pc /= "down"
  /\ kills < MaxKills
  /\ kills' = kills + 1
  /\ pc' = "down"
  /\ file' = Nobody
  /\ text' = "none"
  /\ todo' = {}
  /\ seen' = {}
  /\ paused' = {}
  /\ events' = [f \in Files |-> 0]
  /\ copies' = [f \in Files |-> 0]
  /\ UNCHANGED <<disk, topic, workers, failures>>

(***************************************************************************)
(* The subscription delivers in any order.                                 *)
(***************************************************************************)
Ids == 1..Len(topic)

Deliver(w) ==
  /\ hand[w] = Nobody
  /\ \E i \in Ids :
       /\ topic[i].at = "queued"
       /\ topic' = Leased(topic, i, w)
       /\ hand' = [hand EXCEPT ![w] = i]
  /\ done' = [done EXCEPT ![w] = "no"]
  /\ UNCHANGED <<disks, emitter, shown, failures, kills>>

\* The lease of a message lapses while its worker is still at work.
LeaseLapses(w) ==
  /\ failures < MaxFailures
  /\ hand[w] /= Nobody
  /\ topic[hand[w]].by = w
  /\ topic' = Released(topic, hand[w], AfterNack(topic[hand[w]]))
  /\ failures' = failures + 1
  /\ UNCHANGED <<disks, emitter, workers, kills>>

(***************************************************************************)
(* DispatchResultHandler.Handle and OutboundReceiver.OnMessage.            *)
(***************************************************************************)
Rendered(mail) == mail.kind \in ResultKinds

Route(mail) ==
  IF ~mail.threaded \/ ~Rendered(mail) THEN "drop"
  ELSE IF mail.kind = "convergence" /\ mail.high /\ HasApprover THEN "approval"
  ELSE "reply"

\* FallbackNotifier.UpdateMessage turns to chat.postMessage only for a 404 of the
\* response_url.  The target of a result has no CallbackURL, and its error
\* is "response_url is empty".
PrimaryError(callbackURL) == IF callbackURL = "" THEN "empty" ELSE "404"
IsResponseURLLimitErr(err) == err = "404"
Posts(mail) == \/ Route(mail) = "approval"
               \/ Route(mail) = "reply" /\ IsResponseURLLimitErr(PrimaryError(""))

MailAt(i) == Mail[topic[i].mail.of]
Working(w) == hand[w] /= Nobody /\ done[w] = "no"
MailOf(w) == MailAt(hand[w])

Handle(w) ==
  /\ Working(w)
  /\ done' = [done EXCEPT ![w] = IF Route(MailOf(w)) = "drop" \/ Posts(MailOf(w)) THEN "ok" ELSE "err"]
  /\ shown' = IF Posts(MailOf(w)) THEN shown \cup {hand[w]} ELSE shown
  /\ UNCHANGED <<disks, emitter, topic, hand, failures, kills>>

\* Slack answers an error, or its answer is lost after the post.
SlackFails(w) ==
  /\ Working(w)
  /\ Posts(MailOf(w))
  /\ failures < MaxFailures
  /\ failures' = failures + 1
  /\ done' = [done EXCEPT ![w] = "err"]
  /\ shown' \in {shown, shown \cup {hand[w]}}
  /\ UNCHANGED <<disks, emitter, topic, hand, kills>>

AcksAnyway(w) == TRUE      \* mutant
Acks(w) == done[w] = "ok"

Answer(w) ==
  /\ hand[w] /= Nobody
  /\ done[w] /= "no"
  /\ topic' = Answered(topic, hand[w], w, Acks(w))
  /\ hand' = [hand EXCEPT ![w] = Nobody]
  /\ done' = [done EXCEPT ![w] = "no"]
  /\ UNCHANGED <<disks, emitter, shown, failures, kills>>

(***************************************************************************)
(* The specification.                                                      *)
(***************************************************************************)
Init ==
  /\ disk = [f \in Files |-> "none"]
  /\ events = [f \in Files |-> 0]
  /\ seen = {}
  /\ paused = {}
  /\ pc = "down"
  /\ file = Nobody
  /\ text = "none"
  /\ todo = {}
  /\ topic = << >>
  /\ hand = [w \in Workers |-> Nobody]
  /\ done = [w \in Workers |-> "no"]
  /\ shown = {}
  /\ failures = 0
  /\ kills = 0
  /\ copies = [f \in Files |-> 0]

Emitter == \/ AddDir \/ ScanOnce \/ Read
           \/ Publish \/ PublishFails \/ PublishRefused
           \/ \E f \in Files : Take(f)

Subscriber(w) == Deliver(w) \/ Handle(w) \/ SlackFails(w) \/ Answer(w)

Next ==
  \/ \E f \in Files : Write(f)
  \/ Emitter
  \/ Kill
  \/ \E w \in Workers : Subscriber(w) \/ LeaseLapses(w)

Spec == Init /\ [][Next]_vars

\* systemd restarts the daemon and its goroutine runs; Pub/Sub keeps delivering and
\* the callbacks keep running.  A pillar that began a file finishes it.
Fairness ==
  /\ WF_vars(Emitter)
  /\ \A w \in Workers : WF_vars(Subscriber(w))
  /\ \A f \in Files : WF_vars(disk[f] /= "none" /\ Write(f))

FairSpec == Spec /\ Fairness

(***************************************************************************)
(* Properties.                                                             *)
(***************************************************************************)
\* The variables keep their types: no mail that does not parse reaches the topic, and
\* no message is delivered more often than the subscription's max_delivery_attempts.
TypeOK ==
  /\ disk \in [Files -> Contents]
  /\ events \in [Files -> 0..3]
  /\ seen \subseteq Files
  /\ paused \subseteq {"paintress", "amadeus"}
  /\ pc \in {"down", "list", "idle", "read", "publish"}
  /\ file \in Files \cup {Nobody}
  /\ (file /= Nobody) <=> (pc \in {"read", "publish"})
  /\ text \in {"none", "cut", "mail"} /\ (text /= "none" <=> pc = "publish")
  /\ todo \subseteq Files
  /\ topic \in Seq(Messages([of : Files, text : {"cut", "mail"}], Workers))
  /\ hand \in [Workers -> Ids \cup {Nobody}]
  /\ done \in [Workers -> {"no", "ok", "err"}]
  /\ shown \subseteq Ids
  /\ failures \in 0..MaxFailures
  /\ kills \in 0..MaxKills
  /\ copies \in [Files -> Nat]

\* Emitter.seen (emitter.go:91-107): the startup scan, the Create and the Write
\* events of one file publish it once in one life of the daemon; only a failed
\* publish whose outcome is unknown can add a copy.
PublishedOncePerRun == \A f \in Files : copies[f] <= 1 + failures

\* OnMessage (outbound_subscriber.go:46-83): seen through its topic, the bridge is the
\* Courier.  A message that has something to show is acked only after it reached the
\* thread, and dead-lettered only after the last delivery.
Mailbox == INSTANCE Courier WITH
  state <- [i \in Ids |-> Standing(topic[i])],
  tries <- [i \in Ids |-> topic[i].tries],
  owed  <- {i \in Ids : Route(MailAt(i)) /= "drop"} \ shown
CourierSpec == Mailbox!Spec

Copies(f) == {i \in Ids : topic[i].mail.of = f}
PublishedWhole(f) == \E i \in Copies(f) : topic[i].mail.text = "mail"

\* A file written completely is published, whatever the moment the daemon started,
\* died or read it, unless a publish failed; and it is published whole, unless its writer
\* works in place and a read fell between the closing --- and the end (emitter.go:91-107,
\* watcher.go:94-103: the retry on Write mends a read that does not parse, and no other).
EveryMailPublished ==
  \A f \in Files : disk[f] = "mail" ~> \/ PublishedWhole(f)
                                       \/ f \in InPlace /\ Copies(f) /= {}
                                       \/ failures > 0

\* An approval request that was published reaches the thread as long as fewer calls
\* fail than the subscription allows attempts (dispatch_result_handler.go:97-107).
EveryApprovalArrives ==
  \A f \in {x \in Files : Route(Mail[x]) = "approval"} :
    Copies(f) /= {} ~> Copies(f) \cap shown /= {}

\* dispatch_result_handler.go:88-91: a reply has no response_url and FallbackNotifier
\* "handles this by going straight to chat.postMessage", so without a failure of Slack
\* no result is given up.
ResultReachesThread == failures = 0 => \A i \in Ids : topic[i].at /= "dead"
=============================================================================
