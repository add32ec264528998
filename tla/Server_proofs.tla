----------------------------- MODULE Server_proofs -----------------------------
(***************************************************************************)
(* Proofs about Server, for every set of requests and kinds of work and    *)
(* for all times.                                                          *)
(***************************************************************************)
EXTENDS Server, TLAPS

(* The switches main has set so far agree with one another.  WireRpc relies
   on OpenPendingStore, which ran before it; closing a client at the end
   changes no switch. *)
BeforeRpc == {"config", "clients", "registry", "admin", "pending", "rpc"}
ConsumerFollowsStore == phase = "rpc" => (wired["consumer"] <=> "pending" \in open)
RpcHasConsumer ==
  wired["rpc"] => /\ wired["consumer"]
                  /\ phase \notin BeforeRpc
GateClosesRest == wired["high"] => ~wired["restWrites"]

WiringInv ==
  /\ wired \in [Switches -> BOOLEAN]
  /\ ConsumerFollowsStore
  /\ RpcHasConsumer
  /\ GateClosesRest

(* main starts with nothing switched on. *)
LEMMA InitWiring == Init => WiringInv
  BY DEF Init, WiringInv, ConsumerFollowsStore, RpcHasConsumer, GateClosesRest, Switches, BeforeRpc

(* Once boot is over, no step of a request, of the shutdown or of the platform
   changes a switch, and none leads back into boot. *)
LEMMA LaterStepsKeepWiring ==
  ASSUME WiringInv, wired' = wired,
         UNCHANGED <<phase, open>> \/ phase' \notin BeforeRpc
  PROVE  WiringInv'
  BY DEF WiringInv, ConsumerFollowsStore, RpcHasConsumer, GateClosesRest, BeforeRpc

(* Each statement of boot keeps the switches in agreement (main.go, in order). *)
LEMMA BootKeepsWiring == ASSUME WiringInv, BootStep PROVE WiringInv'
<1> USE DEF WiringInv, ConsumerFollowsStore, RpcHasConsumer, GateClosesRest,
            Switches, BeforeRpc, Boot, Goto
<1>1. CASE LoadConfig
  BY <1>1 DEF LoadConfig
<1>2. CASE BuildClients
  BY <1>2 DEF BuildClients
<1>3. CASE OpenRegistry
  BY <1>3 DEF OpenRegistry
<1>4. CASE MountAdmin
  BY <1>4 DEF MountAdmin
<1>5. CASE OpenPendingStore
  <2>1. /\ phase = "pending" /\ phase' = "rpc"
        /\ wired' = [wired EXCEPT !["consumer"] = "pending" \in open']
    BY <1>5 DEF OpenPendingStore
  <2>2. wired'["consumer"] = ("pending" \in open')
    BY <2>1, Zenon
  <2>3. \A s \in Switches \ {"consumer"} : wired'[s] = wired[s]
    BY <2>1
  <2>4. wired' \in [Switches -> BOOLEAN]
    BY <2>1
  <2>5. ~wired["rpc"]
    BY <2>1
  <2> QED
    BY <2>1, <2>2, <2>3, <2>4, <2>5
<1>6. CASE WireRpc
  BY <1>6 DEF WireRpc
<1>7. CASE MountBroker
  BY <1>7 DEF MountBroker
<1>8. CASE Listen
  BY <1>8 DEF Listen, wiring
<1>9. CASE NotifySignals
  BY <1>9 DEF NotifySignals, wiring
<1> QED
  BY <1>1, <1>2, <1>3, <1>4, <1>5, <1>6, <1>7, <1>8, <1>9 DEF BootStep

(* Every step keeps the switches in agreement. *)
LEMMA NextKeepsWiring == ASSUME WiringInv, [Next]_vars PROVE WiringInv'
<1> USE LaterStepsKeepWiring DEF wiring
<1>1. CASE BootStep
  BY <1>1, BootKeepsWiring
<1>2. CASE Abort \/ SigtermUnhandled \/ Exit \/ Sigkill
  BY <1>2 DEF Abort, SigtermUnhandled, Exit, Sigkill, Die
<1>3. ASSUME NEW r \in Requests,
             \/ Accept(r) \/ Respond(r) \/ CallClient(r) \/ EndGoroutine(r)
             \/ \E kind \in Kinds : Go(r, kind)
      PROVE  WiringInv'
  BY <1>3 DEF Accept, Respond, CallClient, EndGoroutine, Go
<1>4. CASE ExportBatch \/ SubscriberEnds \/ FlushAll \/ Tick
  BY <1>4 DEF ExportBatch, SubscriberEnds, FlushAll, Tick
<1>5. CASE Sigterm \/ SubscriberDone \/ TracerStopped
  BY <1>5 DEF Sigterm, SubscriberDone, TracerStopped, Goto, BeforeRpc
<1>6. CASE Return("http", "wait") \/ Return("wait", "flush")
  BY <1>6 DEF Return, Goto, BeforeRpc
<1>7. ASSUME NEW i \in 1 .. Len(CloseOrder), Close(i)
      PROVE  WiringInv'
  BY <1>7 DEF Close, BeforeRpc
<1>8. CASE UNCHANGED vars
  BY <1>8 DEF vars
<1> QED
  BY <1>1, <1>2, <1>3, <1>4, <1>5, <1>6, <1>7, <1>8 DEF Next

(* main.go:167-257 and rpc_wiring.go: whatever the environment switched on, while
   /rpc records mutations no REST write goes around the second operator, and
   this process can apply what it recorded. *)
THEOREM OneWayToWriteHolds == Spec => []OneWayToWrite
<1>1. WiringInv => OneWayToWrite
  BY DEF WiringInv, RpcHasConsumer, GateClosesRest, OneWayToWrite
<1> QED
  BY InitWiring, NextKeepsWiring, <1>1, PTL DEF Spec

(***************************************************************************)
(* The clients.                                                            *)
(***************************************************************************)
(* A client is open from the statement that builds what needs it until the
   deferred closes: the work a request may leave to a goroutine finds every
   client it calls. *)
OpenClients ==
  phase # "closing" =>
    /\ phase \notin {"config", "clients"} =>
         "gcp" \in open /\ (wired["pubsub"] => "approval" \in open)
    /\ wired["consumer"] => "pending" \in open
    /\ "pending" \in open => "registry" \in open

ConsumerComesLate ==
  phase \in {"config", "clients", "registry", "admin", "pending"} =>
    ~wired["consumer"] /\ "pending" \notin open

ClientsInv ==
  /\ wired \in [Switches -> BOOLEAN]
  /\ OpenClients
  /\ ConsumerComesLate

(* main starts with no client. *)
LEMMA InitClients == Init => ClientsInv
  BY DEF Init, ClientsInv, OpenClients, ConsumerComesLate, Switches

(* A step that changes neither switch nor client, and does not go back into
   boot, keeps what they owe each other. *)
LEMMA LaterStepsKeepClients ==
  ASSUME ClientsInv, wired' = wired,
         \/ UNCHANGED <<phase, open>>
         \/ UNCHANGED open /\ phase \notin Booting \cup {"closing"} /\ phase' \notin Booting
         \/ phase' = "closing"
  PROVE  ClientsInv'
  BY DEF ClientsInv, OpenClients, ConsumerComesLate, Booting

(* Each statement of boot opens a client before, or together with, the switch
   that lets a request use it. *)
LEMMA BootKeepsClients == ASSUME ClientsInv, BootStep PROVE ClientsInv'
<1> USE DEF ClientsInv, OpenClients, ConsumerComesLate, Switches, Boot, Goto
<1>1. CASE LoadConfig
  BY <1>1 DEF LoadConfig
<1>2. CASE BuildClients
  BY <1>2 DEF BuildClients
<1>3. CASE OpenRegistry
  BY <1>3 DEF OpenRegistry
<1>4. CASE MountAdmin
  BY <1>4 DEF MountAdmin
<1>5. CASE OpenPendingStore
  <2>1. /\ phase = "pending" /\ phase' = "rpc"
        /\ open' = IF "registry" \in open THEN open \cup {"pending"} ELSE open
        /\ wired' = [wired EXCEPT !["consumer"] = "pending" \in open']
    BY <1>5 DEF OpenPendingStore
  <2>2. wired'["consumer"] = ("pending" \in open')
    BY <2>1, Zenon
  <2>3. \A s \in Switches \ {"consumer"} : wired'[s] = wired[s]
    BY <2>1
  <2>4. wired' \in [Switches -> BOOLEAN]
    BY <2>1
  <2>5. "pending" \in open' => "registry" \in open'
    BY <2>1
  <2> QED
    BY <2>1, <2>2, <2>3, <2>4, <2>5
<1>6. CASE WireRpc
  BY <1>6 DEF WireRpc
<1>7. CASE MountBroker
  BY <1>7 DEF MountBroker
<1>8. CASE Listen
  BY <1>8 DEF Listen, wiring
<1>9. CASE NotifySignals
  BY <1>9 DEF NotifySignals, wiring
<1> QED
  BY <1>1, <1>2, <1>3, <1>4, <1>5, <1>6, <1>7, <1>8, <1>9 DEF BootStep

(* Every step keeps the clients open that the switches promise. *)
LEMMA NextKeepsClients == ASSUME ClientsInv, [Next]_vars PROVE ClientsInv'
<1> USE LaterStepsKeepClients DEF wiring
<1>1. CASE BootStep
  BY <1>1, BootKeepsClients
<1>2. CASE Abort \/ SigtermUnhandled \/ Exit \/ Sigkill
  BY <1>2 DEF Abort, SigtermUnhandled, Exit, Sigkill, Die
<1>3. ASSUME NEW r \in Requests,
             \/ Accept(r) \/ Respond(r) \/ CallClient(r) \/ EndGoroutine(r)
             \/ \E kind \in Kinds : Go(r, kind)
      PROVE  ClientsInv'
  BY <1>3 DEF Accept, Respond, CallClient, EndGoroutine, Go
<1>4. CASE ExportBatch \/ SubscriberEnds \/ FlushAll \/ Tick
  BY <1>4 DEF ExportBatch, SubscriberEnds, FlushAll, Tick
<1>5. CASE Sigterm \/ SubscriberDone \/ TracerStopped
  BY <1>5 DEF Sigterm, SubscriberDone, TracerStopped, Goto, Booting
<1>6. CASE Return("http", "wait") \/ Return("wait", "flush")
  BY <1>6 DEF Return, Goto, Booting
<1>7. ASSUME NEW i \in 1 .. Len(CloseOrder), Close(i)
      PROVE  ClientsInv'
  BY <1>7 DEF Close
<1>8. CASE UNCHANGED vars
  BY <1>8 DEF vars
<1> QED
  BY <1>1, <1>2, <1>3, <1>4, <1>5, <1>6, <1>7, <1>8 DEF Next

(***************************************************************************)
(* The requests.                                                           *)
(***************************************************************************)
WorkTyped ==
  /\ stage \in [Requests -> {"out", "handler", "goroutine", "done"}]
  /\ todo \in [Requests -> Seq(Clients)]
  /\ span \in [Requests -> {"none", "queued", "exported", "lost"}]
  /\ late \subseteq Requests

(* How far a request is, what it has still to call and its span belong
   together, and a goroutine finds its clients open until main closes them. *)
StageInv(r) ==
  /\ phase \in Booting => stage[r] = "out"
  /\ stage[r] \in {"out", "handler"} => todo[r] = << >>
  /\ stage[r] = "done" <=> span[r] # "none"
  /\ phase # "closing" /\ stage[r] = "goroutine" =>
       \A i \in 1 .. Len(todo[r]) : todo[r][i] \in open

(* Each wait of main has ended for every request it did not give up. *)
AwaitedInv(r) ==
  r \notin late =>
    /\ phase \in {"wait", "flush", "closing"} => stage[r] # "handler"
    /\ phase \in {"flush", "closing"} => stage[r] # "goroutine"
    /\ phase = "closing" => span[r] # "queued"
    /\ span[r] # "lost"
    /\ stage[r] = "done" => todo[r] = << >>

WorkInv ==
  /\ WorkTyped
  /\ \A r \in Requests : StageInv(r) /\ AwaitedInv(r)
  /\ dead = "exit" => phase = "closing"

(* No request has come when main starts. *)
LEMMA InitWork == Init => WorkInv
  BY DEF Init, WorkInv, WorkTyped, StageInv, AwaitedInv, Booting

(* What a goroutine calls is a sequence of clients. *)
LEMMA CallsTyped == ASSUME NEW kind \in Kinds PROVE Calls(kind) \in Seq(Clients)
<1>1. CASE kind = "ack"
  BY <1>1 DEF Calls, Clients
<1>2. CASE kind = "publish"
  BY <1>2 DEF Calls, Clients
<1>3. CASE kind = "rollout"
  BY <1>3 DEF Calls, Clients
<1> QED
  BY <1>1, <1>2, <1>3, KindsAssumption

(* A goroutine is started only for work whose clients main opened. *)
LEMMA OfferedIsOpen ==
  ASSUME ClientsInv, NEW kind \in Kinds, Offered(kind),
         phase \notin Booting \cup {"closing"}
  PROVE  \A i \in 1 .. Len(Calls(kind)) : Calls(kind)[i] \in open
<1>1. CASE kind = "ack"
  BY <1>1 DEF ClientsInv, OpenClients, Offered, Calls, Booting
<1>2. CASE kind = "publish"
  BY <1>2 DEF ClientsInv, OpenClients, Offered, Calls, Booting
<1>3. CASE kind = "rollout"
  BY <1>3 DEF ClientsInv, OpenClients, Offered, Calls, Booting
<1> QED
  BY <1>1, <1>2, <1>3, KindsAssumption

(* A request is accepted, answered, handed to a goroutine, served by a client
   or ended, and the other requests stay as they are. *)
LEMMA RequestKeepsWork ==
  ASSUME ClientsInv, WorkInv, NEW r \in Requests,
         \/ Accept(r) \/ Respond(r) \/ CallClient(r) \/ EndGoroutine(r)
         \/ \E kind \in Kinds : Go(r, kind)
  PROVE  WorkInv'
<1> USE DEF WorkInv, WorkTyped, StageInv, AwaitedInv, wiring, clock
<1>1. CASE Accept(r)
  BY <1>1 DEF Accept, Booting
<1>2. CASE Respond(r)
  BY <1>2 DEF Respond, EndSpan, Traced, Booting
<1>3. CASE CallClient(r)
  <2>1. /\ stage[r] = "goroutine" /\ todo[r] \in Seq(Clients) /\ todo[r] # << >>
        /\ todo' = [todo EXCEPT ![r] = Tail(todo[r])]
        /\ UNCHANGED <<phase, dead, open, stage, span, late>>
    BY <1>3 DEF CallClient
  <2>2. /\ Tail(todo[r]) \in Seq(Clients)
        /\ \A i \in 1 .. Len(Tail(todo[r])) :
             i + 1 \in 1 .. Len(todo[r]) /\ Tail(todo[r])[i] = todo[r][i + 1]
    BY <2>1
  <2> QED
    BY <2>1, <2>2
<1>4. CASE EndGoroutine(r)
  <2>1. ASSUME phase # "closing" PROVE todo[r] = << >>
    <3>1. todo[r] \in Seq(Clients) /\ \A i \in 1 .. Len(todo[r]) : todo[r][i] \in open
      BY <1>4, <2>1 DEF EndGoroutine
    <3>2. todo[r] # << >> => 1 \in 1 .. Len(todo[r]) /\ Head(todo[r]) = todo[r][1]
      BY <3>1
    <3> QED
      BY <1>4, <3>1, <3>2 DEF EndGoroutine
  <2> QED
    BY <1>4, <2>1 DEF EndGoroutine, EndSpan, Traced, Booting
<1>5. ASSUME NEW kind \in Kinds, Go(r, kind)
      PROVE  WorkInv'
  <2>1. phase \notin Booting
    BY <1>5 DEF Go
  <2>2. phase # "closing" =>
          \A i \in 1 .. Len(Calls(kind)) : Calls(kind)[i] \in open
    BY <1>5, <2>1, OfferedIsOpen DEF Go
  <2>3. Calls(kind) \in Seq(Clients)
    BY CallsTyped
  <2> QED
    BY <1>5, <2>1, <2>2, <2>3 DEF Go
<1> QED
  BY <1>1, <1>2, <1>3, <1>4, <1>5

(* The exporter and the last flush move only what is queued. *)
LEMMA ExportKeepsWork ==
  ASSUME WorkInv, Become("exported"), UNCHANGED <<phase, dead, open, stage, todo, late>>
  PROVE  WorkInv'
  BY DEF WorkInv, WorkTyped, StageInv, AwaitedInv, Become, Queued

(* main goes from one wait to the next and writes down what it stopped
   waiting for. *)
LEMMA WaitsKeepWork ==
  ASSUME WorkInv, SubscriberDone \/ Return("http", "wait") \/ Return("wait", "flush")
                    \/ TracerStopped
  PROVE  WorkInv'
<1> USE DEF WorkInv, WorkTyped, StageInv, AwaitedInv, Goto, wiring, Awaited, Booting
<1>1. CASE SubscriberDone
  BY <1>1 DEF SubscriberDone, requests
<1>2. CASE Return("http", "wait")
  BY <1>2 DEF Return
<1>3. CASE Return("wait", "flush")
  BY <1>3 DEF Return
<1>4. CASE TracerStopped
  BY <1>4 DEF TracerStopped, Become, Queued
<1> QED
  BY <1>1, <1>2, <1>3, <1>4

(* Every step keeps requests, spans and the waits of main together. *)
LEMMA NextKeepsWork ==
  ASSUME ClientsInv, WorkInv, [Next]_vars
  PROVE  WorkInv'
<1> USE DEF WorkInv, WorkTyped, StageInv, AwaitedInv, wiring, requests
<1>1. CASE BootStep
  <2>1. /\ phase \in Booting \cup {"listening"} /\ phase' \in Booting \cup {"listening", "serving"}
        /\ phase = "listening" => phase' = "serving" /\ UNCHANGED open
        /\ UNCHANGED <<dead, requests>>
    BY <1>1 DEF BootStep, LoadConfig, BuildClients, OpenRegistry, MountAdmin,
                OpenPendingStore, WireRpc, MountBroker, Listen, NotifySignals,
                Boot, Goto, Booting
  <2> QED
    BY <2>1 DEF Booting
<1>2. CASE Abort \/ SigtermUnhandled \/ Sigkill \/ Exit
  BY <1>2 DEF Abort, SigtermUnhandled, Sigkill, Exit, Die
<1>3. ASSUME NEW r \in Requests,
             \/ Accept(r) \/ Respond(r) \/ CallClient(r) \/ EndGoroutine(r)
             \/ \E kind \in Kinds : Go(r, kind)
      PROVE  WorkInv'
  BY <1>3, RequestKeepsWork
<1>4. CASE ExportBatch \/ FlushAll
  BY <1>4, ExportKeepsWork DEF ExportBatch, FlushAll
<1>5. CASE SubscriberEnds \/ Tick
  BY <1>5 DEF SubscriberEnds, Tick
<1>6. CASE Sigterm
  BY <1>6 DEF Sigterm, Goto, Booting
<1>7. CASE SubscriberDone \/ Return("http", "wait") \/ Return("wait", "flush")
             \/ TracerStopped
  BY <1>7, WaitsKeepWork
<1>8. ASSUME NEW i \in 1 .. Len(CloseOrder), Close(i)
      PROVE  WorkInv'
  BY <1>8 DEF Close
<1>9. CASE UNCHANGED vars
  BY <1>9 DEF vars
<1> QED
  BY <1>1, <1>2, <1>3, <1>4, <1>5, <1>6, <1>7, <1>8, <1>9 DEF Next

(***************************************************************************)
(* The clock.                                                              *)
(***************************************************************************)
ClockTyped == now \in Nat /\ since \in Nat /\ stoppedAt \in Nat

(* The three waits end by the budget, unless the subscriber used it up before
   they began; if it took no time, each begins within the sum of those before. *)
WaitsInv ==
  /\ phase \notin Stopping => now = 0
  /\ phase \in {"http", "wait", "flush"} => now <= Budget \/ now = stoppedAt
  /\ phase = "http" /\ stoppedAt = 0 => since = 0 /\ now <= HttpTime
  /\ phase = "wait" /\ stoppedAt = 0 => since <= HttpTime /\ now <= HttpTime + WaitTime
  /\ phase = "flush" /\ stoppedAt = 0 => since <= HttpTime + WaitTime

KilledLate ==
  dead = "kill" /\ phase \in {"http", "wait", "flush"} => stoppedAt = Grace

ClockInv == ClockTyped /\ WaitsInv /\ KilledLate

(* Time starts at SIGTERM. *)
LEMMA InitClock == Init => ClockInv
  BY DEF Init, ClockInv, ClockTyped, WaitsInv, KilledLate

(* While a wait goes on, the second that begins ends by its own time and by
   the budget. *)
LEMMA TickWithinWait ==
  ASSUME ClockTyped, Waits, phase \in {"http", "wait", "flush"}
  PROVE  /\ now + 1 <= Budget
         /\ phase = "http" => now + 1 <= since + HttpTime
         /\ phase = "wait" => now + 1 <= since + WaitTime
<1>1. now < Deadline
  BY DEF Waits
<1>2. {Budget, HttpTime, WaitTime, FlushTime} \subseteq Nat
  BY TimesAssumption
<1>3. CASE phase = "http"
  <2>1. Deadline = Lesser(since + HttpTime, Budget)
    BY <1>3 DEF Deadline
  <2> QED
    BY <1>1, <1>2, <1>3, <2>1 DEF Lesser, ClockTyped
<1>4. CASE phase = "wait"
  <2>1. Deadline = Lesser(since + WaitTime, Budget)
    BY <1>4 DEF Deadline
  <2> QED
    BY <1>1, <1>2, <1>4, <2>1 DEF Lesser, ClockTyped
<1>5. CASE phase = "flush"
  <2>1. Deadline = Lesser(since + FlushTime, Budget)
    BY <1>5 DEF Deadline
  <2> QED
    BY <1>1, <1>2, <1>5, <2>1 DEF Lesser, ClockTyped
<1> QED
  BY <1>3, <1>4, <1>5

(* Every step keeps the waits within the budget. *)
LEMMA NextKeepsClock == ASSUME ClockInv, [Next]_vars PROVE ClockInv'
<1> USE DEF ClockInv, ClockTyped, WaitsInv, KilledLate, Stopping, clock
<1>1. CASE BootStep
  BY <1>1 DEF BootStep, LoadConfig, BuildClients, OpenRegistry, MountAdmin,
              OpenPendingStore, WireRpc, MountBroker, Listen, NotifySignals,
              Boot, Goto
<1>2. CASE Abort \/ SigtermUnhandled \/ Exit
  BY <1>2 DEF Abort, SigtermUnhandled, Exit, Die, Booting
<1>3. ASSUME NEW r \in Requests,
             \/ Accept(r) \/ Respond(r) \/ CallClient(r) \/ EndGoroutine(r)
             \/ \E kind \in Kinds : Go(r, kind)
      PROVE  ClockInv'
  BY <1>3 DEF Accept, Respond, CallClient, EndGoroutine, Go
<1>4. CASE ExportBatch \/ FlushAll \/ SubscriberEnds
  BY <1>4 DEF ExportBatch, FlushAll, SubscriberEnds
<1>5. CASE Sigterm
  BY <1>5 DEF Sigterm, Goto
<1>6. CASE SubscriberDone
  BY <1>6, TimesAssumption DEF SubscriberDone, Goto
<1>7. CASE Return("http", "wait")
  BY <1>7, TimesAssumption DEF Return, Goto
<1>8. CASE Return("wait", "flush")
  BY <1>8, TimesAssumption DEF Return, Goto
<1>9. CASE TracerStopped
  BY <1>9 DEF TracerStopped, Goto
<1>10. ASSUME NEW i \in 1 .. Len(CloseOrder), Close(i)
       PROVE  ClockInv'
  BY <1>10 DEF Close
<1>11. CASE Tick
  BY <1>11, TickWithinWait, TimesAssumption DEF Tick
<1>12. CASE Sigkill
  BY <1>12, TimesAssumption DEF Sigkill, Die
<1>13. CASE UNCHANGED vars
  BY <1>13 DEF vars
<1> QED
  BY <1>1, <1>2, <1>3, <1>4, <1>5, <1>6, <1>7, <1>8, <1>9, <1>10, <1>11, <1>12, <1>13
  DEF Next

(* main.go:411-447: for all lengths of the waits that TimesAssumption allows, and any
   number of requests, the shutdown drops nothing it did not run out of time
   for, and is not cut off while the subscriber left it time. *)
THEOREM OrderlyExitHolds == Spec => []OrderlyExit
<1>1. WorkInv /\ ClockInv => OrderlyExit
  <2>1. WorkInv => NothingDropped
    BY DEF WorkInv, WorkTyped, StageInv, AwaitedInv, NothingDropped
  <2>2. ClockInv => GraceIsEnough
    BY TimesAssumption DEF ClockInv, ClockTyped, WaitsInv, KilledLate, GraceIsEnough
  <2> QED
    BY <2>1, <2>2 DEF OrderlyExit
<1> QED
  BY InitClients, NextKeepsClients, InitWork, NextKeepsWork, InitClock, NextKeepsClock,
     <1>1, PTL DEF Spec

(***************************************************************************)
(* The types.                                                              *)
(***************************************************************************)
(* What the invariants above leave open. *)
ShapeInv ==
  /\ phase \in Booting \cup Stopping \cup {"listening", "serving"}
  /\ dead \in {"no", "exit", "abort", "kill"}
  /\ open \subseteq Clients
  /\ sub \in BOOLEAN
  /\ now \in 0 .. Grace /\ since \in 0 .. Grace /\ stoppedAt \in 0 .. Grace
  /\ \A r \in Requests : Len(todo[r]) <= 3

LEMMA InitShape == Init => ShapeInv
<1>1. ASSUME Init, NEW r \in Requests PROVE Len(todo[r]) <= 3
  <2>1. PICK s : s = << >> /\ s = todo[r]
    BY <1>1 DEF Init
  <2>2. Len(s) = 0
    BY <2>1
  <2> QED BY <2>1, <2>2
<1>2. Init => phase \in Booting /\ 0 \in 0 .. Grace
  BY TimesAssumption DEF Init, Booting
<1> QED BY <1>1, <1>2 DEF Init, ShapeInv

(* No work calls more than three clients, and a call leaves one fewer. *)
LEMMA RequestKeepsShape ==
  ASSUME WorkInv, ShapeInv, NEW r \in Requests,
         \/ Accept(r) \/ Respond(r) \/ CallClient(r) \/ EndGoroutine(r)
         \/ \E kind \in Kinds : Go(r, kind)
  PROVE  ShapeInv'
<1>1. todo \in [Requests -> Seq(Clients)]
  BY DEF WorkInv, WorkTyped
<1>2. \A q \in Requests : Len(todo'[q]) <= 3
  <2>1. CASE CallClient(r)
    <3>1. todo[r] \in Seq(Clients) /\ todo[r] # << >> /\ todo' = [todo EXCEPT ![r] = Tail(todo[r])]
      BY <1>1, <2>1 DEF CallClient
    <3>2. Len(Tail(todo[r])) = Len(todo[r]) - 1 /\ Len(todo[r]) \in Nat
      BY <3>1
    <3> QED BY <1>1, <3>1, <3>2 DEF ShapeInv
  <2>2. ASSUME NEW kind \in Kinds, Go(r, kind)
        PROVE  \A q \in Requests : Len(todo'[q]) <= 3
    <3>1. Len(Calls(kind)) <= 3
      BY KindsAssumption DEF Calls
    <3> QED BY <1>1, <2>2, <3>1 DEF Go, ShapeInv
  <2>3. CASE UNCHANGED todo
    BY <2>3 DEF ShapeInv
  <2> QED BY <2>1, <2>2, <2>3 DEF Accept, Respond, EndGoroutine
<1>3. UNCHANGED <<phase, dead, open, sub, now, since, stoppedAt>>
  BY DEF Accept, Respond, CallClient, EndGoroutine, Go, wiring, clock
<1> QED BY <1>2, <1>3 DEF ShapeInv

LEMMA NextKeepsShape ==
  ASSUME WorkInv, ShapeInv, [Next]_vars
  PROVE  ShapeInv'
<1>1. ASSUME NEW r \in Requests,
             \/ Accept(r) \/ Respond(r) \/ CallClient(r) \/ EndGoroutine(r)
             \/ \E kind \in Kinds : Go(r, kind)
      PROVE  ShapeInv'
  BY <1>1, RequestKeepsShape
<1> USE DEF ShapeInv, wiring, clock, requests
<1>2. CASE BootStep
  BY <1>2 DEF BootStep, LoadConfig, BuildClients, OpenRegistry, MountAdmin, OpenPendingStore,
              WireRpc, MountBroker, Listen, NotifySignals, Boot, Goto, Booting, Clients
<1>3. CASE Abort \/ SigtermUnhandled \/ Exit \/ Sigkill
  BY <1>3 DEF Abort, SigtermUnhandled, Exit, Sigkill, Die
<1>4. CASE ExportBatch \/ SubscriberEnds \/ FlushAll
  BY <1>4 DEF ExportBatch, SubscriberEnds, FlushAll
<1>5. CASE Sigterm \/ SubscriberDone \/ TracerStopped
  BY <1>5 DEF Sigterm, SubscriberDone, TracerStopped, Goto, Stopping
<1>6. CASE Return("http", "wait") \/ Return("wait", "flush")
  BY <1>6 DEF Return, Goto, Stopping
<1>7. ASSUME NEW i \in 1 .. Len(CloseOrder), Close(i)
      PROVE  ShapeInv'
  BY <1>7 DEF Close
<1>8. CASE Tick
  <2>1. now + 1 \in 0 .. Grace
    BY <1>8, TimesAssumption DEF Tick
  <2> QED BY <1>8, <2>1 DEF Tick
<1>9. CASE UNCHANGED vars
  BY <1>9 DEF vars
<1> QED
  BY <1>1, <1>2, <1>3, <1>4, <1>5, <1>6, <1>7, <1>8, <1>9 DEF Next

(* The variables keep their types: no request calls more than three clients, and
   nothing outlives the grace Cloud Run gives. *)
THEOREM TypeCorrect == Spec => []TypeOK
<1>1. WiringInv /\ WorkInv /\ ShapeInv => TypeOK
  BY DEF TypeOK, WiringInv, WorkInv, WorkTyped, ShapeInv
<1> QED
  BY InitWiring, NextKeepsWiring, InitClients, NextKeepsClients, InitWork, NextKeepsWork,
     InitShape, NextKeepsShape, <1>1, PTL DEF Spec
=============================================================================
