------------------------- MODULE DMailOutbound_proofs -------------------------
(***************************************************************************)
(* Proofs about DMailOutbound, for every set of files, whatever their      *)
(* frontmatter and their writers, any number of callbacks, and any number  *)
(* of failures and of deaths of the emitter.                               *)
(***************************************************************************)
EXTENDS DMailOutbound, Subscription_proofs

Mails == [of : Files, text : {"cut", "mail"}]
Posted == Messages(Mails, Workers)

(***************************************************************************)
(* The inductive invariant of the directory and the emitter.               *)
(***************************************************************************)
(* How far a file is written. *)
Rank(c) == CASE c = "none" -> 0 [] c = "stub" -> 1 [] c = "cut" -> 2 [] c = "mail" -> 3

EmitterTypes ==
  /\ disk \in [Files -> Contents]
  /\ events \in [Files -> Nat]
  /\ seen \subseteq Files
  /\ paused \subseteq {"paintress", "amadeus"}
  /\ pc \in {"down", "list", "idle", "read", "publish"}
  /\ file \in Files \cup {Nobody}
  /\ text \in {"none", "cut", "mail"}
  /\ todo \subseteq Files
  /\ failures \in 0..MaxFailures
  /\ kills \in 0..MaxKills
  /\ copies \in [Files -> Nat]

(* The goroutine has a file in hand, and marked it, until it returns. *)
HandInv ==
  /\ file # Nobody <=> pc \in {"read", "publish"}
  /\ text # "none" <=> pc = "publish"
  /\ file # Nobody => file \in seen

(* The watcher has at most one event for each step of a write, and every file
   that the emitter knows of is there. *)
KnownInv ==
  \A f \in Files :
    /\ events[f] <= Rank(disk[f])
    /\ f \in todo \cup seen => disk[f] # "none"

(* A file that may be published again was published by failed calls only. *)
CopiesInv ==
  \A f \in Files :
    /\ copies[f] <= 1 + failures
    /\ f \notin seen \/ f = file => copies[f] <= failures

EmitterInv == EmitterTypes /\ HandInv /\ KnownInv /\ CopiesInv

(***************************************************************************)
(* The inductive invariant of the topic and the subscriber.                *)
(***************************************************************************)
SubscriberTypes ==
  /\ topic \in Seq(Posted)
  /\ hand \in [Workers -> Ids \cup {Nobody}]
  /\ done \in [Workers -> {"no", "ok", "err"}]
  /\ shown \subseteq Ids

Dropped(i) == Route(MailAt(i)) = "drop"

(* Handle succeeds only for a message that reached the thread or has nothing to show. *)
CallbackInv(w) ==
  hand[w] # Nobody /\ done[w] = "ok" => hand[w] \in shown \/ Dropped(hand[w])

SubscriberInv ==
  /\ SubscriberTypes
  /\ AllSound(topic, Workers)
  /\ \A w \in Workers : CallbackInv(w)

IInv == EmitterInv /\ SubscriberInv

(***************************************************************************)
(* Steps of the directory and the emitter.                                 *)
(***************************************************************************)
LEMMA EmitterRest ==
  ASSUME EmitterInv, UNCHANGED <<disks, emitter>>,
         failures' \in 0..MaxFailures, kills' \in 0..MaxKills, failures <= failures'
  PROVE  EmitterInv'
<1>1. EmitterTypes' /\ HandInv' /\ KnownInv'
  BY DEF EmitterInv, EmitterTypes, HandInv, KnownInv, disks, emitter
<1>2. CopiesInv'
  <2>1. \A f \in Files : copies[f] \in Nat
    BY DEF EmitterInv, EmitterTypes
  <2>2. failures \in Nat /\ failures' \in Nat
    BY BoundsAssumption DEF EmitterInv, EmitterTypes
  <2> QED BY <2>1, <2>2 DEF EmitterInv, CopiesInv, emitter
<1> QED BY <1>1, <1>2 DEF EmitterInv

(* A write goes on with a file, and notifies the watcher at most once. *)
LEMMA WriteKeeps ==
  ASSUME EmitterInv, NEW f \in Files, Write(f)
  PROVE  EmitterInv'
<1>1. PICK c \in Continued(f) : disk' = [disk EXCEPT ![f] = c]
  BY DEF Write
<1>2. events' = Notified(f) /\ UNCHANGED <<emitter, failures, kills>>
  BY DEF Write
<1>3. c \in Contents /\ c # "none" /\ Rank(disk[f]) + 1 <= Rank(c)
  <2>1. disk[f] \in Contents
    BY DEF EmitterInv, EmitterTypes
  <2> QED BY <1>1, <2>1 DEF Continued, Contents, Rank
<1>4. EmitterTypes' /\ HandInv' /\ CopiesInv'
  <2>1. events' \in [Files -> Nat]
    BY <1>2 DEF Notified, EmitterInv, EmitterTypes
  <2>2. disk' \in [Files -> Contents]
    BY <1>1, <1>3 DEF EmitterInv, EmitterTypes
  <2> QED BY <1>2, <2>1, <2>2 DEF EmitterInv, EmitterTypes, HandInv, CopiesInv, emitter
<1>5. KnownInv'
  <2> SUFFICES ASSUME NEW h \in Files
               PROVE  events'[h] <= Rank(disk'[h]) /\ (h \in todo \cup seen => disk'[h] # "none")
    BY <1>2 DEF KnownInv, emitter
  <2>1. events[h] \in Nat /\ events[h] <= Rank(disk[h])
    BY DEF EmitterInv, EmitterTypes, KnownInv
  <2>2. CASE h = f
    <3>1. disk'[h] = c /\ events'[h] \in {events[h], events[h] + 1}
      BY <1>1, <1>2, <2>2 DEF Notified, EmitterInv, EmitterTypes
    <3>2. Rank(disk[h]) \in Nat /\ Rank(c) \in Nat
      <4>1. disk[h] \in Contents
        BY DEF EmitterInv, EmitterTypes
      <4> QED BY <1>3, <4>1 DEF Contents, Rank
    <3> QED BY <1>3, <2>1, <2>2, <3>1, <3>2
  <2>3. CASE h # f
    <3>1. disk'[h] = disk[h] /\ events'[h] = events[h]
      BY <1>1, <1>2, <2>3 DEF Notified, EmitterInv, EmitterTypes
    <3> QED BY <3>1 DEF EmitterInv, KnownInv
  <2> QED BY <2>2, <2>3
<1> QED BY <1>4, <1>5 DEF EmitterInv

LEMMA AddDirKeeps ==
  ASSUME EmitterInv, AddDir
  PROVE  EmitterInv'
  BY DEF EmitterInv, EmitterTypes, HandInv, KnownInv, CopiesInv, AddDir, disks

LEMMA ScanOnceKeeps ==
  ASSUME EmitterInv, ScanOnce
  PROVE  EmitterInv'
  BY DEF EmitterInv, EmitterTypes, HandInv, KnownInv, CopiesInv, ScanOnce, disks

LEMMA TakeKeeps ==
  ASSUME EmitterInv, NEW f \in Files, Take(f)
  PROVE  EmitterInv'
<1>1. /\ pc = "idle" /\ file = Nobody /\ text = "none"
      /\ UNCHANGED <<disk, paused, text, copies, failures, kills>>
  BY DEF Take, EmitterInv, HandInv
<1>2. /\ todo' \subseteq todo /\ events' \in [Files -> Nat]
      /\ \A h \in Files : events'[h] <= events[h]
      /\ disk[f] # "none"
  <2>1. CASE todo # {}
    BY <2>1 DEF Take, NextPath, EmitterInv, EmitterTypes, KnownInv
  <2>2. CASE todo = {}
    <3>1. events[f] > 0 /\ events' = [events EXCEPT ![f] = @ - 1] /\ todo' = todo
      BY <2>2 DEF Take, NextPath
    <3>2. disk[f] # "none"
      BY <3>1 DEF EmitterInv, EmitterTypes, KnownInv, Rank
    <3> QED BY <3>1, <3>2 DEF EmitterInv, EmitterTypes
  <2> QED BY <2>1, <2>2
<1>3. \/ /\ f \notin seen /\ seen' = seen \cup {f}
         /\ file' = f /\ pc' = "read"
      \/ UNCHANGED <<seen, file, pc>>
  BY DEF Take, Unseen
<1>4. EmitterTypes' /\ HandInv'
  BY <1>1, <1>2, <1>3, MailAssumption DEF EmitterInv, EmitterTypes, HandInv
<1>5. KnownInv'
  <2>1. \A h \in Files : Rank(disk[h]) \in Nat
    <3>1. \A h \in Files : disk[h] \in Contents
      BY DEF EmitterInv, EmitterTypes
    <3> QED BY <3>1 DEF Contents, Rank
  <2>2. \A h \in Files : events[h] \in Nat /\ events'[h] \in Nat
    BY <1>2 DEF EmitterInv, EmitterTypes
  <2> QED BY <1>1, <1>2, <1>3, <2>1, <2>2 DEF EmitterInv, KnownInv
<1>6. CopiesInv'
  BY <1>1, <1>3, MailAssumption DEF EmitterInv, CopiesInv
<1> QED BY <1>4, <1>5, <1>6 DEF EmitterInv

(* The goroutine returns, having published the file or not; unless it has, the file
   is unmarked. *)
Returns ==
  /\ Return
  /\ UNCHANGED <<disk, events, todo, kills>>
  /\ \/ seen' = seen \ {file} /\ UNCHANGED <<copies, failures>>
     \/ UNCHANGED <<seen, failures>> /\ copies' = [copies EXCEPT ![file] = @ + 1]
     \/ /\ seen' = seen \ {file}
        /\ failures < MaxFailures /\ failures' = failures + 1
        /\ copies' = [copies EXCEPT ![file] = @ + 1] \/ UNCHANGED copies

LEMMA ReturnsKeeps ==
  ASSUME EmitterInv, pc \in {"read", "publish"}, Returns,
         paused' \subseteq {"paintress", "amadeus"}
  PROVE  EmitterInv'
<1>1. file \in Files /\ copies \in [Files -> Nat] /\ failures \in Nat
  BY BoundsAssumption DEF EmitterInv, EmitterTypes, HandInv
<1>2. EmitterTypes'
  BY <1>1, BoundsAssumption DEF Returns, Return, EmitterInv, EmitterTypes
<1>3. HandInv' /\ KnownInv'
  BY DEF Returns, Return, EmitterInv, HandInv, KnownInv
<1>4. CopiesInv'
  <2> SUFFICES ASSUME NEW f \in Files
               PROVE  /\ copies'[f] <= 1 + failures'
                      /\ f \notin seen' => copies'[f] <= failures'
    BY MailAssumption DEF CopiesInv, Returns, Return
  <2>1. copies[f] \in Nat /\ copies[f] <= 1 + failures /\ (f \notin seen \/ f = file => copies[f] <= failures)
    BY <1>1 DEF EmitterInv, CopiesInv
  <2>2. copies'[f] \in Nat /\ copies'[f] = IF f = file /\ copies' # copies THEN copies[f] + 1 ELSE copies[f]
    BY <1>1 DEF Returns
  <2>3. file \in seen
    BY <1>1, MailAssumption DEF EmitterInv, HandInv
  <2> QED BY <1>1, <2>1, <2>2, <2>3 DEF Returns
<1> QED BY <1>2, <1>3, <1>4 DEF EmitterInv

LEMMA ReadKeeps ==
  ASSUME EmitterInv, Read
  PROVE  EmitterInv'
<1>1. pc = "read" /\ file \in Files /\ file \in seen
      /\ UNCHANGED <<disks, paused, todo, copies, failures, kills>>
  BY MailAssumption DEF Read, EmitterInv, EmitterTypes, HandInv
<1>2. CASE Parses(file)
  <2>1. pc' = "publish" /\ text' = disk[file] /\ UNCHANGED <<seen, file>>
    BY <1>2 DEF Read
  <2>2. text' \in {"cut", "mail"}
    BY <1>1, <1>2, <2>1 DEF Parses, EmitterInv, EmitterTypes, KnownInv, Contents
  <2> QED BY <1>1, <2>1, <2>2 DEF EmitterInv, EmitterTypes, HandInv, KnownInv, CopiesInv, disks
<1>3. CASE ~Parses(file)
  BY <1>1, <1>3, ReturnsKeeps DEF Read, Returns, ClearOnFailure, disks, EmitterInv, EmitterTypes
<1> QED BY <1>2, <1>3

LEMMA PublicationKeeps ==
  ASSUME EmitterInv, Publish \/ PublishFails \/ PublishRefused
  PROVE  EmitterInv'
<1>1. pc = "publish"
  BY DEF Publish, PublishFails, PublishRefused
<1>2. Returns
  BY DEF Publish, PublishFails, PublishRefused, Sent, Returns, ClearOnFailure, disks
<1>3. Target \in {"paintress", "amadeus"}
  BY <1>1, MailAssumption DEF Target, EmitterInv, EmitterTypes, HandInv
<1>4. paused' \subseteq {"paintress", "amadeus"}
  BY <1>3 DEF Publish, PublishFails, PublishRefused, EmitterInv, EmitterTypes
<1> QED BY <1>1, <1>2, <1>4, ReturnsKeeps

LEMMA KillKeeps ==
  ASSUME EmitterInv, Kill
  PROVE  EmitterInv'
<1>1. EmitterTypes' /\ HandInv'
  BY BoundsAssumption DEF Kill, EmitterInv, EmitterTypes, HandInv
<1>2. KnownInv'
  <2>1. \A f \in Files : Rank(disk[f]) >= 0
    <3>1. \A f \in Files : disk[f] \in Contents
      BY DEF EmitterInv, EmitterTypes
    <3> QED BY <3>1 DEF Contents, Rank
  <2> QED BY <2>1 DEF Kill, KnownInv
<1>3. CopiesInv'
  BY BoundsAssumption DEF Kill, EmitterInv, EmitterTypes, CopiesInv
<1> QED BY <1>1, <1>2, <1>3 DEF EmitterInv

(***************************************************************************)
(* Steps of the topic and the subscriber.                                  *)
(***************************************************************************)
LEMMA TopicIs ==
  ASSUME SubscriberInv
  PROVE  /\ topic \in Seq(Messages(Mails, Workers)) /\ Len(topic) \in Nat
         /\ AllSound(topic, Workers) /\ Nobody \notin Workers
         /\ \A i \in Ids : topic[i] \in Posted
  BY ElementOfSeq, LenProperties, WorkersAssumption DEF SubscriberInv, SubscriberTypes, Posted, Ids

LEMMA SubscriberRest ==
  ASSUME SubscriberInv, UNCHANGED <<topic, workers>>
  PROVE  SubscriberInv'
  BY DEF SubscriberInv, SubscriberTypes, CallbackInv, Dropped, MailAt, workers, Ids

(* What a publication of the file in hand does to the topic. *)
LEMMA SentIs ==
  ASSUME EmitterInv, SubscriberInv, pc = "publish", Sent
  PROVE  /\ topic' \in Seq(Posted) /\ Len(topic') = Len(topic) + 1
         /\ \A j \in Ids : topic'[j] = topic[j]
         /\ AllSound(topic', Workers)
         /\ StatesOf(topic') = Append(StatesOf(topic), "open")
         /\ TriesOf(topic') = Append(TriesOf(topic), 0)
         /\ Ids' = Ids \cup {Len(topic) + 1} /\ Len(topic) + 1 \notin Ids
<1>1. PICK m \in Mails : m = [of |-> file, text |-> text]
  BY MailAssumption DEF EmitterInv, EmitterTypes, HandInv, Mails
<1>2. topic' = Published(topic, m)
  BY <1>1 DEF Sent, Published
<1>3. /\ topic' \in Seq(Messages(Mails, Workers)) /\ Len(topic') = Len(topic) + 1
      /\ \A j \in 1..Len(topic) : topic'[j] = topic[j]
      /\ AllSound(topic', Workers)
      /\ StatesOf(topic') = Append(StatesOf(topic), "open")
      /\ TriesOf(topic') = Append(TriesOf(topic), 0)
  BY <1>2, TopicIs, PublishedIs
<1> QED BY <1>3, TopicIs DEF Posted, Ids

LEMMA SentKeeps ==
  ASSUME EmitterInv, SubscriberInv, pc = "publish", Sent, UNCHANGED workers
  PROVE  SubscriberInv'
<1>1. /\ topic' \in Seq(Posted) /\ \A j \in Ids : topic'[j] = topic[j]
      /\ AllSound(topic', Workers) /\ Ids \subseteq Ids'
  BY SentIs
<1>2. SubscriberTypes'
  BY <1>1 DEF SubscriberInv, SubscriberTypes, workers
<1>3. \A w \in Workers : CallbackInv(w)'
  BY <1>1 DEF SubscriberInv, SubscriberTypes, CallbackInv, Dropped, MailAt, workers
<1> QED BY <1>1, <1>2, <1>3 DEF SubscriberInv

LEMMA DeliverKeeps ==
  ASSUME SubscriberInv, NEW w \in Workers, Deliver(w)
  PROVE  SubscriberInv'
<1>1. PICK i \in Ids : /\ topic[i].at = "queued" /\ topic' = Leased(topic, i, w)
                       /\ hand' = [hand EXCEPT ![w] = i]
  BY DEF Deliver
<1>2. done' = [done EXCEPT ![w] = "no"] /\ UNCHANGED shown
  BY DEF Deliver
<1>3. /\ topic' \in Seq(Posted) /\ Len(topic') = Len(topic)
      /\ \A j \in Ids : j # i => topic'[j] = topic[j]
      /\ topic'[i].mail = topic[i].mail
      /\ AllSound(topic', Workers)
  BY <1>1, TopicIs, LeasedIs DEF Ids, Posted
<1>4. Ids' = Ids /\ \A j \in Ids : Dropped(j)' <=> Dropped(j)
  BY <1>3 DEF Ids, Dropped, MailAt
<1>5. SubscriberTypes'
  BY <1>1, <1>2, <1>3, <1>4 DEF SubscriberInv, SubscriberTypes
<1>6. \A v \in Workers : CallbackInv(v)'
  BY <1>1, <1>2, <1>4 DEF SubscriberInv, SubscriberTypes, CallbackInv
<1> QED BY <1>3, <1>5, <1>6 DEF SubscriberInv

LEMMA ReleaseKeeps ==
  ASSUME SubscriberInv, NEW i \in Ids, topic[i].by \in Workers,
         NEW at \in {"acked", AfterNack(topic[i])}, topic' = Released(topic, i, at),
         hand' \in [Workers -> Ids \cup {Nobody}], done' \in [Workers -> {"no", "ok", "err"}],
         \A w \in Workers : done'[w] = "no" \/ (done'[w] = done[w] /\ hand'[w] = hand[w]),
         UNCHANGED shown
  PROVE  SubscriberInv'
<1>1. /\ topic' \in Seq(Posted) /\ Len(topic') = Len(topic)
      /\ \A j \in Ids : j # i => topic'[j] = topic[j]
      /\ topic'[i].mail = topic[i].mail
      /\ AllSound(topic', Workers)
  BY TopicIs, ReleasedIs DEF Ids, Posted
<1>2. Ids' = Ids /\ \A j \in Ids : Dropped(j)' <=> Dropped(j)
  BY <1>1 DEF Ids, Dropped, MailAt
<1>3. SubscriberTypes'
  BY <1>1, <1>2 DEF SubscriberInv, SubscriberTypes
<1>4. \A v \in Workers : CallbackInv(v)'
  BY <1>2 DEF SubscriberInv, SubscriberTypes, CallbackInv
<1> QED BY <1>1, <1>3, <1>4 DEF SubscriberInv

LEMMA LeaseLapsesKeeps ==
  ASSUME SubscriberInv, NEW w \in Workers, LeaseLapses(w)
  PROVE  SubscriberInv'
<1>1. /\ topic[hand[w]].by = w /\ hand[w] # Nobody
      /\ topic' = Released(topic, hand[w], AfterNack(topic[hand[w]]))
      /\ UNCHANGED <<hand, done, shown>>
  BY DEF LeaseLapses, workers
<1>2. PICK i \in Ids : i = hand[w]
  BY <1>1 DEF SubscriberInv, SubscriberTypes
<1>3. hand' \in [Workers -> Ids \cup {Nobody}] /\ done' \in [Workers -> {"no", "ok", "err"}]
  BY <1>1 DEF SubscriberInv, SubscriberTypes
<1> QED BY <1>1, <1>2, <1>3, ReleaseKeeps

LEMMA AnswerKeeps ==
  ASSUME SubscriberInv, NEW w \in Workers, Answer(w)
  PROVE  SubscriberInv'
<1>1. /\ hand[w] # Nobody
      /\ topic' = Answered(topic, hand[w], w, Acks(w))
      /\ hand' = [hand EXCEPT ![w] = Nobody]
      /\ done' = [done EXCEPT ![w] = "no"]
      /\ UNCHANGED shown
  BY DEF Answer
<1>2. PICK i \in Ids : i = hand[w]
  BY <1>1 DEF SubscriberInv, SubscriberTypes
<1>3. /\ hand' \in [Workers -> Ids \cup {Nobody}] /\ done' \in [Workers -> {"no", "ok", "err"}]
      /\ \A v \in Workers : done'[v] = "no" \/ (done'[v] = done[v] /\ hand'[v] = hand[v])
  BY <1>1 DEF SubscriberInv, SubscriberTypes
<1>4. CASE topic[i].by = w
  <2>1. PICK at \in {"acked", AfterNack(topic[i])} : topic' = Released(topic, i, at)
    BY <1>1, <1>2, <1>4 DEF Answered
  <2> QED BY <1>1, <1>3, <1>4, <2>1, ReleaseKeeps
<1>5. CASE topic[i].by # w
  <2>1. topic' = topic /\ Ids' = Ids
    BY <1>1, <1>2, <1>5 DEF Answered, Ids
  <2> QED BY <1>1, <1>3, <2>1 DEF SubscriberInv, SubscriberTypes, CallbackInv, Dropped, MailAt
<1> QED BY <1>4, <1>5

(* Handle, whether Slack answers or not. *)
LEMMA HandleKeeps ==
  ASSUME SubscriberInv, NEW w \in Workers, Handle(w) \/ SlackFails(w)
  PROVE  SubscriberInv'
<1>1. UNCHANGED <<topic, hand>> /\ Ids' = Ids /\ hand[w] # Nobody
  BY DEF Handle, SlackFails, Working, Ids
<1>2. PICK i \in Ids : i = hand[w]
  BY <1>1 DEF SubscriberInv, SubscriberTypes
<1>3. shown' \in {shown, shown \cup {i}}
  BY <1>2 DEF Handle, SlackFails
<1>4. PICK d \in {"ok", "err"} : done' = [done EXCEPT ![w] = d] /\ (d = "ok" => i \in shown' \/ Dropped(i))
  BY <1>2 DEF Handle, SlackFails, MailOf, Dropped
<1>5. SubscriberTypes'
  BY <1>1, <1>3, <1>4 DEF SubscriberInv, SubscriberTypes
<1>6. \A v \in Workers : CallbackInv(v)'
  BY <1>1, <1>2, <1>3, <1>4 DEF SubscriberInv, SubscriberTypes, CallbackInv, Dropped, MailAt
<1> QED BY <1>1, <1>5, <1>6 DEF SubscriberInv

(***************************************************************************)
(* The invariant.                                                          *)
(***************************************************************************)
LEMMA InitIInv == Init => IInv
<1> SUFFICES ASSUME Init PROVE IInv
  OBVIOUS
<1>1. EmitterInv
  BY MailAssumption, BoundsAssumption
  DEF Init, EmitterInv, EmitterTypes, HandInv, KnownInv, CopiesInv, Contents, Rank
<1>2. topic = << >> /\ Ids = {}
  BY DEF Init, Ids
<1>3. SubscriberInv
  BY <1>2 DEF Init, SubscriberInv, SubscriberTypes, AllSound, CallbackInv
<1> QED BY <1>1, <1>3 DEF IInv

LEMMA EmitterStepKeeps ==
  ASSUME EmitterInv, Emitter \/ Kill \/ \E f \in Files : Write(f)
  PROVE  EmitterInv'
  BY WriteKeeps, AddDirKeeps, ScanOnceKeeps, TakeKeeps, ReadKeeps, PublicationKeeps, KillKeeps
  DEF Emitter

LEMMA SubscriberStepKeepsEmitter ==
  ASSUME EmitterInv, NEW w \in Workers, Subscriber(w) \/ LeaseLapses(w)
  PROVE  EmitterInv'
<1>1. /\ UNCHANGED <<disks, emitter, kills>>
      /\ \/ UNCHANGED failures
         \/ failures < MaxFailures /\ failures' = failures + 1
  BY DEF Subscriber, Deliver, Handle, SlackFails, Answer, LeaseLapses
<1>2. failures' \in 0..MaxFailures /\ kills' \in 0..MaxKills /\ failures <= failures'
  BY <1>1, BoundsAssumption DEF EmitterInv, EmitterTypes
<1> QED BY <1>1, <1>2, EmitterRest

(* What a step of the emitter does to the topic: a mail is added, or nothing. *)
LEMMA EmitterStepSends ==
  ASSUME Emitter \/ Kill \/ \E f \in Files : Write(f)
  PROVE  UNCHANGED workers /\ (UNCHANGED topic \/ (pc = "publish" /\ Sent))
  BY DEF Emitter, Write, AddDir, ScanOnce, Take, Read, Publish, PublishFails, PublishRefused, Kill

LEMMA StepIInv == IInv /\ [Next]_vars => IInv'
<1> SUFFICES ASSUME IInv, [Next]_vars PROVE IInv'
  OBVIOUS
<1> USE DEF IInv
<1>1. CASE Emitter \/ Kill \/ \E f \in Files : Write(f)
  <2>1. EmitterInv'
    BY <1>1, EmitterStepKeeps
  <2>2. SubscriberInv'
    BY <1>1, EmitterStepSends, SubscriberRest, SentKeeps
  <2> QED BY <2>1, <2>2
<1>2. ASSUME NEW w \in Workers, Subscriber(w) \/ LeaseLapses(w) PROVE IInv'
  <2>1. EmitterInv'
    BY <1>2, SubscriberStepKeepsEmitter
  <2>2. SubscriberInv'
    BY <1>2, DeliverKeeps, HandleKeeps, AnswerKeeps, LeaseLapsesKeeps DEF Subscriber
  <2> QED BY <2>1, <2>2
<1>3. CASE UNCHANGED vars
  <2>1. failures' \in 0..MaxFailures /\ kills' \in 0..MaxKills /\ failures <= failures'
    BY <1>3, BoundsAssumption DEF vars, EmitterInv, EmitterTypes
  <2> QED BY <1>3, <2>1, EmitterRest, SubscriberRest DEF vars
<1> QED BY <1>1, <1>2, <1>3 DEF Next

(* Every state of every behaviour satisfies the invariant. *)
THEOREM Invariance == Spec => []IInv
BY InitIInv, StepIInv, PTL DEF Spec

(***************************************************************************)
(* The properties.                                                         *)
(***************************************************************************)
(* The variables keep their types: only mails that parse are published, none is
   delivered too often, and the watcher never has more than three events of a file. *)
THEOREM TypeCorrect == Spec => []TypeOK
<1>1. IInv => TypeOK
  <2> SUFFICES ASSUME IInv PROVE TypeOK
    OBVIOUS
  <2>1. events \in [Files -> 0..3]
    <3>1. ASSUME NEW f \in Files PROVE events[f] \in 0..3
      <4>1. disk[f] \in Contents /\ events[f] \in Nat /\ events[f] <= Rank(disk[f])
        BY DEF IInv, EmitterInv, EmitterTypes, KnownInv
      <4>2. Rank(disk[f]) \in 0..3
        BY <4>1 DEF Contents, Rank
      <4> QED BY <4>1, <4>2
    <3>2. events \in [Files -> Nat]
      BY DEF IInv, EmitterInv, EmitterTypes
    <3> QED BY <3>1, <3>2
  <2>2. SubscriberTypes
    BY DEF IInv, SubscriberInv
  <2>3. EmitterTypes /\ HandInv
    BY DEF IInv, EmitterInv
  <2> QED BY <2>1, <2>2, <2>3 DEF TypeOK, SubscriberTypes, EmitterTypes, HandInv, Posted, Mails
<1> QED BY <1>1, Invariance, PTL

(* One life of the daemon publishes a file once, and once more for each publish
   whose failure may have reached the topic. *)
THEOREM PublishedOncePerRunHolds == Spec => []PublishedOncePerRun
<1>1. IInv => PublishedOncePerRun
  BY DEF IInv, EmitterInv, CopiesInv, PublishedOncePerRun
<1> QED BY <1>1, Invariance, PTL

(***************************************************************************)
(* The bridge is the Courier.                                              *)
(***************************************************************************)
Owed == {i \in Ids : ~Dropped(i)} \ shown

LEMMA Seen ==
  /\ [i \in Ids |-> Standing(topic[i])] = StatesOf(topic)
  /\ [i \in Ids |-> topic[i].tries] = TriesOf(topic)
  /\ {i \in Ids : Route(MailAt(i)) /= "drop"} \ shown = Owed
  /\ DOMAIN StatesOf(topic) = Ids /\ DOMAIN TriesOf(topic) = Ids
  /\ \A i \in Ids : StatesOf(topic)[i] = Standing(topic[i]) /\ TriesOf(topic)[i] = topic[i].tries
  BY DEF StatesOf, TriesOf, Ids, Owed, Dropped

LEMMA SeenNext ==
  /\ [i \in Ids |-> Standing(topic[i])]' = StatesOf(topic')
  /\ [i \in Ids |-> topic[i].tries]' = TriesOf(topic')
  /\ ({i \in Ids : Route(MailAt(i)) /= "drop"} \ shown)' = Owed'
  BY DEF StatesOf, TriesOf, Ids, Owed, Dropped

LEMMA OwedStays ==
  ASSUME UNCHANGED <<Ids, shown>>, \A j \in Ids : topic'[j].mail = topic[j].mail
  PROVE  UNCHANGED Owed
  BY DEF Owed, Dropped, MailAt

(* A publication posts a message, which is owed unless nothing shows it. *)
LEMMA SentPosts ==
  ASSUME EmitterInv, SubscriberInv, pc = "publish", Sent, UNCHANGED workers
  PROVE  Mailbox!Post
<1>1. /\ \A j \in Ids : topic'[j] = topic[j]
      /\ StatesOf(topic') = Append(StatesOf(topic), "open")
      /\ TriesOf(topic') = Append(TriesOf(topic), 0)
      /\ Ids' = Ids \cup {Len(topic) + 1} /\ Len(topic) + 1 \notin Ids
  BY SentIs
<1>2. Len(StatesOf(topic)) = Len(topic)
  BY TopicIs DEF StatesOf
<1>3. Len(topic) + 1 \notin shown /\ shown' = shown
  BY <1>1 DEF SubscriberInv, SubscriberTypes, workers
<1>4. \A j \in Ids : Dropped(j)' <=> Dropped(j)
  BY <1>1 DEF Dropped, MailAt
<1>5. PICK n : n = Len(topic) + 1
  OBVIOUS
<1>6. Owed' \in {Owed, Owed \cup {n}}
  <2>1. CASE Dropped(n)'
    <3>1. Owed' = Owed
      BY <1>1, <1>3, <1>4, <1>5, <2>1 DEF Owed
    <3> QED BY <3>1
  <2>2. CASE ~Dropped(n)'
    <3>1. Owed' = Owed \cup {n}
      BY <1>1, <1>3, <1>4, <1>5, <2>2 DEF Owed
    <3> QED BY <3>1
  <2> QED BY <2>1, <2>2
<1> QED BY <1>1, <1>2, <1>5, <1>6, Seen, SeenNext DEF Mailbox!Post

LEMMA DeliverAttempts ==
  ASSUME SubscriberInv, NEW w \in Workers, Deliver(w)
  PROVE  \E i \in Ids : Mailbox!Attempt(i)
<1>1. PICK i \in Ids : topic[i].at = "queued" /\ topic' = Leased(topic, i, w)
  BY DEF Deliver
<1>2. /\ StatesOf(topic') = StatesOf(topic)
      /\ TriesOf(topic') = [TriesOf(topic) EXCEPT ![i] = @ + 1]
      /\ topic[i].tries < MaxAttempts
      /\ Ids' = Ids /\ \A j \in Ids : topic'[j].mail = topic[j].mail
  <2>1. /\ StatesOf(topic') = StatesOf(topic)
        /\ TriesOf(topic') = [TriesOf(topic) EXCEPT ![i] = @ + 1]
        /\ topic[i].tries < MaxAttempts /\ Len(topic') = Len(topic)
        /\ \A j \in 1..Len(topic) : j # i => topic'[j] = topic[j]
        /\ topic'[i].mail = topic[i].mail
    BY <1>1, TopicIs, LeasedIs DEF Ids
  <2> QED BY <2>1 DEF Ids
<1>3. UNCHANGED Owed
  BY <1>2, OwedStays DEF Deliver
<1>4. StatesOf(topic)[i] = "open"
  BY <1>1, Seen DEF Standing
<1>5. Mailbox!Attempt(i)
  BY <1>2, <1>3, <1>4, Seen, SeenNext DEF Mailbox!Attempt, Mailbox!Open
<1> QED BY <1>5

(* The end of a lease is an acknowledgement, a giving up, or nothing. *)
LEMMA ReleaseEnds ==
  ASSUME SubscriberInv, NEW i \in Ids, topic[i].by \in Workers,
         NEW at \in {"acked", AfterNack(topic[i])}, at = "acked" => i \notin Owed,
         topic' = Released(topic, i, at), UNCHANGED shown
  PROVE  \/ Mailbox!Acknowledge(i) \/ Mailbox!GiveUp({i}) \/ UNCHANGED Mailbox!vars
<1>1. /\ Len(topic') = Len(topic) /\ topic[i].at = "leased" /\ topic[i].tries > 0
      /\ at = "queued" => StatesOf(topic') = StatesOf(topic)
      /\ at # "queued" => StatesOf(topic') = [StatesOf(topic) EXCEPT ![i] = at]
      /\ at = "dead" => topic[i].tries = MaxAttempts
      /\ at \in {"queued", "acked", "dead"}
      /\ TriesOf(topic') = TriesOf(topic)
      /\ \A j \in 1..Len(topic) : j # i => topic'[j] = topic[j]
      /\ topic'[i].mail = topic[i].mail
  BY TopicIs, ReleasedIs DEF Ids
<1>2. UNCHANGED Owed /\ Ids' = Ids
  BY <1>1, OwedStays DEF Ids
<1>3. StatesOf(topic)[i] = "open" /\ TriesOf(topic)[i] = topic[i].tries
  BY <1>1, Seen DEF Standing
<1>4. CASE at = "queued"
  BY <1>1, <1>2, <1>4, Seen, SeenNext DEF Mailbox!vars
<1>5. CASE at = "acked"
  <2>1. Mailbox!Acknowledge(i)
    BY <1>1, <1>2, <1>3, <1>5, Seen, SeenNext DEF Mailbox!Acknowledge, Mailbox!Open
  <2> QED BY <2>1
<1>6. CASE at = "dead"
  <2>1. StatesOf(topic') = [j \in Ids |-> IF j \in {i} THEN "dead" ELSE StatesOf(topic)[j]]
    BY <1>1, <1>6, Seen DEF StatesOf
  <2>2. Mailbox!GiveUp({i})
    BY <1>1, <1>2, <1>3, <1>6, <2>1, Seen, SeenNext DEF Mailbox!GiveUp, Mailbox!Open
  <2> QED BY <2>2
<1> QED BY <1>1, <1>4, <1>5, <1>6

LEMMA LeaseLapsesEnds ==
  ASSUME SubscriberInv, NEW w \in Workers, LeaseLapses(w)
  PROVE  \E i \in Ids : Mailbox!Acknowledge(i) \/ Mailbox!GiveUp({i}) \/ UNCHANGED Mailbox!vars
<1>1. /\ topic[hand[w]].by = w /\ hand[w] # Nobody
      /\ topic' = Released(topic, hand[w], AfterNack(topic[hand[w]]))
      /\ UNCHANGED shown
  BY DEF LeaseLapses, workers
<1>2. PICK i \in Ids : i = hand[w]
  BY <1>1 DEF SubscriberInv, SubscriberTypes
<1>3. AfterNack(topic[i]) # "acked"
  BY DEF AfterNack
<1> QED BY <1>1, <1>2, <1>3, ReleaseEnds

LEMMA AnswerEnds ==
  ASSUME SubscriberInv, NEW w \in Workers, Answer(w)
  PROVE  \E i \in Ids : Mailbox!Acknowledge(i) \/ Mailbox!GiveUp({i}) \/ UNCHANGED Mailbox!vars
<1>1. /\ hand[w] # Nobody /\ CallbackInv(w)
      /\ topic' = Answered(topic, hand[w], w, Acks(w))
      /\ UNCHANGED shown
  BY DEF Answer, SubscriberInv
<1>2. PICK i \in Ids : i = hand[w]
  BY <1>1 DEF SubscriberInv, SubscriberTypes
<1>3. CASE topic[i].by = w
  <2>1. PICK at \in {"acked", AfterNack(topic[i])} :
          (at = "acked" => Acks(w)) /\ topic' = Released(topic, i, at)
    BY <1>1, <1>2, <1>3 DEF Answered, AfterNack
  <2>2. at = "acked" => i \notin Owed
    BY <1>1, <1>2, <2>1 DEF CallbackInv, Acks, Owed
  <2> QED BY <1>1, <1>3, <2>1, <2>2, ReleaseEnds
<1>4. CASE topic[i].by # w
  <2>1. UNCHANGED <<topic, shown>> /\ Ids' = Ids
    BY <1>1, <1>2, <1>4 DEF Answered, Ids
  <2> QED BY <2>1, OwedStays, Seen, SeenNext DEF Mailbox!vars
<1> QED BY <1>3, <1>4

(* A post that reaches the thread is the arrival of a result, unless an earlier
   one showed it. *)
LEMMA HandleArrives ==
  ASSUME SubscriberInv, NEW w \in Workers, Handle(w) \/ SlackFails(w)
  PROVE  (\E i \in Ids : Mailbox!Arrive(i)) \/ UNCHANGED Mailbox!vars
<1>1. UNCHANGED <<topic, Ids>> /\ hand[w] # Nobody
  BY DEF Handle, SlackFails, Working, Ids
<1>2. PICK i \in Ids : i = hand[w]
  BY <1>1 DEF SubscriberInv, SubscriberTypes
<1>3. shown' \in {shown, shown \cup {i}}
  BY <1>2 DEF Handle, SlackFails
<1>4. \A j \in Ids : Dropped(j)' <=> Dropped(j)
  BY <1>1 DEF Dropped, MailAt
<1>5. CASE i \in Owed /\ shown' = shown \cup {i}
  <2>1. Owed' = Owed \ {i}
    BY <1>1, <1>4, <1>5 DEF Owed
  <2>2. Mailbox!Arrive(i)
    BY <1>1, <1>5, <2>1, Seen, SeenNext DEF Mailbox!Arrive
  <2> QED BY <2>2
<1>6. CASE ~(i \in Owed /\ shown' = shown \cup {i})
  <2>1. Owed' = Owed
    BY <1>1, <1>3, <1>4, <1>6 DEF Owed
  <2> QED BY <1>1, <2>1, Seen, SeenNext DEF Mailbox!vars
<1> QED BY <1>5, <1>6

LEMMA RestStutters ==
  ASSUME UNCHANGED <<topic, workers>>
  PROVE  UNCHANGED Mailbox!vars
<1>1. UNCHANGED Owed
  BY OwedStays DEF Ids, workers
<1> QED BY <1>1, Seen, SeenNext DEF Mailbox!vars, Ids

(* Seen through its topic, the bridge is the Courier: whatever fails, lapses or dies,
   a result that has something to show is acked only after it reached the thread, and
   given up only after its last delivery. *)
THEOREM ImplementsCourier == Spec => CourierSpec
<1>1. Init => Mailbox!Init
  <2> SUFFICES ASSUME Init PROVE Mailbox!Init
    OBVIOUS
  <2>1. Ids = {}
    BY DEF Init, Ids
  <2>2. /\ [i \in Ids |-> Standing(topic[i])] = << >> /\ [i \in Ids |-> topic[i].tries] = << >>
        /\ {i \in Ids : Route(MailAt(i)) /= "drop"} \ shown = {}
    BY <2>1
  <2> QED BY <2>2 DEF Mailbox!Init
<1>2. IInv /\ [Next]_vars => [Mailbox!Next]_(Mailbox!vars)
  <2> SUFFICES ASSUME IInv, [Next]_vars PROVE Mailbox!Next \/ UNCHANGED Mailbox!vars
    OBVIOUS
  <2> USE DEF IInv
  <2>0. DOMAIN [i \in Ids |-> Standing(topic[i])] = Ids
    OBVIOUS
  <2>1. CASE Emitter \/ Kill \/ \E f \in Files : Write(f)
    <3>1. UNCHANGED <<topic, workers>> \/ Mailbox!Post
      BY <2>1, EmitterStepSends, SentPosts
    <3> QED BY <3>1, RestStutters DEF Mailbox!Next
  <2>2. ASSUME NEW w \in Workers, Deliver(w) PROVE Mailbox!Next
    BY <2>0, <2>2, DeliverAttempts DEF Mailbox!Next
  <2>3. ASSUME NEW w \in Workers, LeaseLapses(w) \/ Answer(w)
        PROVE  Mailbox!Next \/ UNCHANGED Mailbox!vars
    <3>1. PICK i \in Ids : Mailbox!Acknowledge(i) \/ Mailbox!GiveUp({i}) \/ UNCHANGED Mailbox!vars
      BY <2>3, LeaseLapsesEnds, AnswerEnds
    <3>2. {i} \in SUBSET Ids
      BY <3>1
    <3> QED BY <2>0, <3>1, <3>2 DEF Mailbox!Next
  <2>4. ASSUME NEW w \in Workers, Handle(w) \/ SlackFails(w)
        PROVE  Mailbox!Next \/ UNCHANGED Mailbox!vars
    BY <2>0, <2>4, HandleArrives DEF Mailbox!Next
  <2>5. CASE UNCHANGED vars
    BY <2>5, RestStutters DEF vars
  <2> QED BY <2>1, <2>2, <2>3, <2>4, <2>5 DEF Next, Subscriber
<1> QED BY <1>1, <1>2, Invariance, PTL DEF Spec, CourierSpec, Mailbox!Spec

(***************************************************************************)
(* What an acknowledgement and a publication are worth.                    *)
(***************************************************************************)
(* A step of a callback leaves the mails of the topic alone, and acks only on
   Handle's success; what was shown stays shown. *)
LEMMA SubscriberStepIs ==
  ASSUME SubscriberInv, NEW w \in Workers, Subscriber(w) \/ LeaseLapses(w)
  PROVE  /\ Ids' = Ids /\ shown \subseteq shown'
         /\ \A j \in Ids : topic'[j].mail = topic[j].mail
         /\ \A j \in Ids : topic'[j].at = "acked" => topic[j].at = "acked" \/ j \notin Owed
<1>1. CASE UNCHANGED topic /\ shown \subseteq shown'
  BY <1>1 DEF Ids
<1>2. CASE Deliver(w)
  <2>1. PICK i \in Ids : topic[i].at = "queued" /\ topic' = Leased(topic, i, w)
    BY <1>2 DEF Deliver
  <2>2. /\ Len(topic') = Len(topic) /\ topic'[i].at = "leased"
        /\ \A j \in 1..Len(topic) : j # i => topic'[j] = topic[j]
        /\ topic'[i].mail = topic[i].mail
    BY <2>1, TopicIs, LeasedIs DEF Ids
  <2> QED BY <1>2, <2>2 DEF Deliver, Ids
<1>3. ASSUME NEW i \in Ids, topic[i].by = w, UNCHANGED shown,
             NEW at \in {"acked", AfterNack(topic[i])}, at = "acked" => i \notin Owed,
             topic' = Released(topic, i, at)
      PROVE  /\ Ids' = Ids
             /\ \A j \in Ids : topic'[j].mail = topic[j].mail
             /\ \A j \in Ids : topic'[j].at = "acked" => topic[j].at = "acked" \/ j \notin Owed
  <2>1. /\ Len(topic') = Len(topic) /\ topic'[i].at = at
        /\ \A j \in 1..Len(topic) : j # i => topic'[j] = topic[j]
        /\ topic'[i].mail = topic[i].mail
    BY <1>3, TopicIs, ReleasedIs DEF Ids
  <2> QED BY <1>3, <2>1 DEF Ids
<1>4. CASE LeaseLapses(w)
  <2>1. /\ topic[hand[w]].by = w /\ hand[w] # Nobody
        /\ topic' = Released(topic, hand[w], AfterNack(topic[hand[w]]))
        /\ UNCHANGED shown
    BY <1>4 DEF LeaseLapses, workers
  <2>2. PICK i \in Ids : i = hand[w]
    BY <2>1 DEF SubscriberInv, SubscriberTypes
  <2>3. AfterNack(topic[i]) # "acked"
    BY DEF AfterNack
  <2> QED BY <1>3, <2>1, <2>2, <2>3
<1>5. CASE Answer(w)
  <2>1. /\ hand[w] # Nobody /\ CallbackInv(w)
        /\ topic' = Answered(topic, hand[w], w, Acks(w))
        /\ UNCHANGED shown
    BY <1>5 DEF Answer, SubscriberInv
  <2>2. PICK i \in Ids : i = hand[w]
    BY <2>1 DEF SubscriberInv, SubscriberTypes
  <2>3. CASE topic[i].by = w
    <3>1. PICK at \in {"acked", AfterNack(topic[i])} :
            (at = "acked" => Acks(w)) /\ topic' = Released(topic, i, at)
      BY <2>1, <2>2, <2>3 DEF Answered, AfterNack
    <3>2. at = "acked" => i \notin Owed
      BY <2>1, <2>2, <3>1 DEF CallbackInv, Acks, Owed
    <3> QED BY <1>3, <2>1, <2>3, <3>1, <3>2
  <2>4. CASE topic[i].by # w
    BY <1>1, <2>1, <2>2, <2>4 DEF Answered
  <2> QED BY <2>3, <2>4
<1>6. CASE Handle(w) \/ SlackFails(w)
  <2>1. UNCHANGED topic /\ shown \subseteq shown'
    BY <1>6 DEF Handle, SlackFails
  <2> QED BY <1>1, <2>1
<1> QED BY <1>2, <1>4, <1>5, <1>6 DEF Subscriber

AckedIsShown == \A i \in Ids : topic[i].at = "acked" => i \notin Owed

LEMMA AckedKeeps ==
  ASSUME IInv, AckedIsShown, [Next]_vars
  PROVE  AckedIsShown'
<1> USE DEF IInv
<1>1. CASE UNCHANGED <<topic, workers>>
  BY <1>1, OwedStays DEF AckedIsShown, Ids, workers
<1>2. CASE pc = "publish" /\ Sent /\ UNCHANGED workers
  <2>1. /\ topic' = Append(topic, Fresh([of |-> file, text |-> text]))
        /\ \A j \in Ids : topic'[j] = topic[j]
        /\ Ids' = Ids \cup {Len(topic) + 1}
    BY <1>2, SentIs DEF Sent
  <2>2. topic'[Len(topic) + 1].at = "queued"
    BY <2>1, TopicIs DEF Fresh
  <2>3. \A j \in Ids : j \in Owed' => j \in Owed
    BY <1>2, <2>1 DEF Owed, Dropped, MailAt, workers
  <2> QED BY <2>1, <2>2, <2>3 DEF AckedIsShown
<1>3. ASSUME NEW w \in Workers, Subscriber(w) \/ LeaseLapses(w) PROVE AckedIsShown'
  <2>1. /\ Ids' = Ids /\ shown \subseteq shown'
        /\ \A j \in Ids : topic'[j].mail = topic[j].mail
        /\ \A j \in Ids : topic'[j].at = "acked" => topic[j].at = "acked" \/ j \notin Owed
    BY <1>3, SubscriberStepIs
  <2>2. \A j \in Ids : j \in Owed' => j \in Owed
    BY <2>1 DEF Owed, Dropped, MailAt
  <2> QED BY <2>1, <2>2 DEF AckedIsShown
<1>4. CASE Emitter \/ Kill \/ \E f \in Files : Write(f)
  BY <1>1, <1>2, <1>4, EmitterStepSends
<1>5. CASE UNCHANGED vars
  BY <1>1, <1>5 DEF vars
<1> QED BY <1>3, <1>4, <1>5 DEF Next

(* OnMessage (outbound_subscriber.go:46-83): a message of dmail-outbound that is acked
   reached its thread, or has nothing to show there, at any later time. *)
THEOREM AckedIsShownHolds == Spec => []AckedIsShown
<1>1. Init => AckedIsShown
  BY DEF Init, AckedIsShown, Ids
<1> QED BY <1>1, AckedKeeps, Invariance, PTL DEF Spec

(* What is on the way from a file that its writer renamed into place. *)
WholeInv ==
  /\ \A f \in Files \ InPlace : disk[f] \in {"none", "mail"}
  /\ pc = "publish" /\ file \notin InPlace => text = "mail"

PublishedIsWhole == \A i \in Ids : topic[i].mail.of \notin InPlace => topic[i].mail.text = "mail"

LEMMA WholeKeeps ==
  ASSUME IInv, WholeInv, PublishedIsWhole, [Next]_vars
  PROVE  WholeInv' /\ PublishedIsWhole'
<1> USE DEF IInv
<1>1. WholeInv'
  <2>1. CASE UNCHANGED <<disk, file, text>> /\ (pc' = "publish" => pc = "publish")
    BY <2>1 DEF WholeInv
  <2>2. CASE pc' # "publish" /\ UNCHANGED disk
    BY <2>2 DEF WholeInv
  <2>3. ASSUME NEW f \in Files, Write(f) PROVE WholeInv'
    <3>1. PICK c \in Continued(f) : disk' = [disk EXCEPT ![f] = c]
      BY <2>3 DEF Write
    <3>2. f \notin InPlace => c = "mail"
      BY <3>1 DEF Continued, WholeInv
    <3>3. \A h \in Files \ InPlace : disk'[h] \in {"none", "mail"}
      BY <3>1, <3>2 DEF WholeInv, EmitterInv, EmitterTypes
    <3> QED BY <2>3, <3>3 DEF Write, emitter, WholeInv
  <2>4. CASE Read
    <3>1. disk[file] # "none" /\ file \in Files
      BY <2>4 DEF Read, EmitterInv, EmitterTypes, HandInv, KnownInv
    <3> QED BY <2>4, <3>1 DEF Read, Return, disks, WholeInv
  <2>5. CASE AddDir \/ ScanOnce \/ Publish \/ PublishFails \/ PublishRefused \/ Kill
             \/ \E f \in Files : Take(f)
    <3>1. UNCHANGED disk /\ pc' # "publish"
      BY <2>5 DEF AddDir, ScanOnce, Publish, PublishFails, PublishRefused, Kill, Take, Return, disks
    <3> QED BY <3>1, <2>2
  <2>6. ASSUME NEW w \in Workers, Subscriber(w) \/ LeaseLapses(w) PROVE WholeInv'
    <3>1. UNCHANGED <<disks, emitter>>
      BY <2>6 DEF Subscriber, Deliver, Handle, SlackFails, Answer, LeaseLapses
    <3> QED BY <2>1, <3>1 DEF disks, emitter
  <2>7. CASE UNCHANGED vars
    BY <2>1, <2>7 DEF vars, disks, emitter
  <2> QED BY <2>3, <2>4, <2>5, <2>6, <2>7 DEF Next, Emitter
<1>2. PublishedIsWhole'
  <2>1. CASE Ids' = Ids /\ \A j \in Ids : topic'[j].mail = topic[j].mail
    BY <2>1 DEF PublishedIsWhole
  <2>2. CASE pc = "publish" /\ Sent
    <3>1. /\ topic' = Append(topic, Fresh([of |-> file, text |-> text]))
          /\ \A j \in Ids : topic'[j] = topic[j]
          /\ Ids' = Ids \cup {Len(topic) + 1}
      BY <2>2, SentIs DEF Sent
    <3>2. topic'[Len(topic) + 1].mail = [of |-> file, text |-> text]
      BY <3>1, TopicIs DEF Fresh
    <3>3. ASSUME NEW j \in Ids', topic'[j].mail.of \notin InPlace PROVE topic'[j].mail.text = "mail"
      <4>1. CASE j \in Ids
        BY <3>1, <3>3, <4>1 DEF PublishedIsWhole
      <4>2. CASE j = Len(topic) + 1
        <5>1. file \notin InPlace
          BY <3>2, <3>3, <4>2
        <5> QED BY <2>2, <3>2, <4>2, <5>1 DEF WholeInv
      <4> QED BY <3>1, <3>3, <4>1, <4>2
    <3> QED BY <3>3 DEF PublishedIsWhole
  <2>3. ASSUME NEW w \in Workers, Subscriber(w) \/ LeaseLapses(w)
        PROVE  Ids' = Ids /\ \A j \in Ids : topic'[j].mail = topic[j].mail
    BY <2>3, SubscriberStepIs
  <2>4. CASE Emitter \/ Kill \/ \E f \in Files : Write(f)
    BY <2>1, <2>2, <2>4, EmitterStepSends DEF Ids
  <2>5. CASE UNCHANGED vars
    BY <2>1, <2>5 DEF vars, Ids
  <2> QED BY <2>1, <2>3, <2>4, <2>5 DEF Next
<1> QED BY <1>1, <1>2

(* emitter.go:76-107: a mail that its writer renames into the directory is published
   whole or not at all, whatever the watcher sees and whenever the daemon dies. *)
THEOREM PublishedIsWholeHolds == Spec => []PublishedIsWhole
<1>1. Init => WholeInv /\ PublishedIsWhole
  BY DEF Init, WholeInv, PublishedIsWhole, Ids
<1> QED BY <1>1, WholeKeeps, Invariance, PTL DEF Spec
=============================================================================
