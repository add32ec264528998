-------------------------------- MODULE Server --------------------------------
(***************************************************************************)
(* cmd/server: what main wires at boot from the environment, and how it    *)
(* stops within Cloud Run's grace after SIGTERM.                           *)
(*                                                                         *)
(* main, the outbound subscriber, every HTTP handler and every goroutine   *)
(* PendingTracker.Go starts run side by side.  Time is counted in seconds  *)
(* from SIGTERM; a wait of main that is over lets no second pass.  What a  *)
(* goroutine does is in the other modules: here it is the sequence of the  *)
(* clients it calls, which main closes at its end.                         *)
(***************************************************************************)
EXTENDS Naturals, Sequences

CONSTANTS
  Requests,   \* POSTs that may reach the process
  Kinds,      \* the work a request may leave to a goroutine
  Grace,      \* seconds from SIGTERM to SIGKILL
  Budget,     \* timeout of shutdownCtx
  HttpTime,   \* of srv.Shutdown
  WaitTime,   \* of pending.WaitWithDeadline
  FlushTime   \* of tp.Shutdown

ASSUME KindsAssumption == Kinds \subseteq {"ack", "publish", "rollout"}
ASSUME TimesAssumption ==
  /\ {Grace, Budget, HttpTime, WaitTime, FlushTime} \subseteq Nat
  /\ HttpTime + WaitTime < Budget
  /\ Budget < Grace

VARIABLES
  phase,      \* the statement of main that runs or waits
  dead,       \* "no", "exit", "abort" (os.Exit) or "kill" (a signal)
  wired,      \* what the environment switched on
  open,       \* clients opened and not closed
  sub,        \* is the subscriber goroutine running?
  now,        \* seconds since SIGTERM
  since,      \* when phase began
  stoppedAt,  \* when main had the subscriber's end
  stage,      \* request -> "out", "handler", "goroutine" or "done"
  todo,       \* request -> the clients its goroutine still has to call
  span,       \* request -> "none", "queued", "exported" or "lost"
  late        \* history: requests main stopped waiting for

wiring == <<wired, open>>
clock == <<now, since, stoppedAt>>
requests == <<stage, todo, span, late>>
vars == <<phase, dead, wiring, sub, clock, requests>>

Booting == {"config", "clients", "registry", "admin", "pending", "rpc",
            "broker", "listen"}
Stopping == {"outbound", "http", "wait", "flush", "closing"}
Switches == {"pubsub", "consumer", "high", "restWrites", "rpc"}
Clients == {"broker", "pending", "registry", "approval", "dispatcher", "gcp"}

Init ==
  /\ phase = "config" /\ dead = "no"
  /\ wired = [s \in Switches |-> FALSE]
  /\ open = {} /\ sub = FALSE
  /\ now = 0 /\ since = 0 /\ stoppedAt = 0
  /\ stage = [r \in Requests |-> "out"]
  /\ todo = [r \in Requests |-> << >>]
  /\ span = [r \in Requests |-> "none"]
  /\ late = {}

Goto(p) == phase' = p /\ since' = now

(***************************************************************************)
(* Boot.  The environment is read where main reads it.                     *)
(***************************************************************************)
Boot(p, q) ==
  /\ phase = p /\ dead = "no"
  /\ Goto(q)
  /\ UNCHANGED <<dead, now, stoppedAt, requests>>

LoadConfig ==
  /\ Boot("config", "clients")
  /\ \E pubsub \in BOOLEAN : wired' = [wired EXCEPT !["pubsub"] = pubsub]
  /\ UNCHANGED <<open, sub>>

(* gcpCtrl, and with DISPATCHER_BACKEND=pubsub the publishers of the
   dispatcher and of the approval acks. *)
BuildClients ==
  /\ Boot("clients", "registry")
  /\ open' = {"gcp"} \cup (IF wired["pubsub"] THEN {"dispatcher", "approval"} ELSE {})
  /\ UNCHANGED <<wired, sub>>

OpenRegistry ==
  /\ Boot("registry", "admin")
  /\ \E set \in BOOLEAN :
       open' = IF set THEN open \cup {"registry"} ELSE open
  /\ UNCHANGED <<wired, sub>>

MountAdminOpen ==      \* mutant: without WithWriteDisabled
  /\ Boot("admin", "pending")
  /\ \E token, high \in BOOLEAN :
       wired' = [wired EXCEPT
         !["high"] = high,
         !["restWrites"] = token /\ "registry" \in open]
  /\ UNCHANGED <<open, sub>>

MountAdmin ==
  /\ Boot("admin", "pending")
  /\ \E token, high \in BOOLEAN :
       wired' = [wired EXCEPT
         !["high"] = high,
         !["restWrites"] = token /\ "registry" \in open /\ ~high]
  /\ UNCHANGED <<open, sub>>

(* ResolvePendingStoreFromEnv reads the variables ResolveFromEnv read: with the
   registry comes the pending store, and with both the orchestrator. *)
OpenPendingStore ==
  /\ Boot("pending", "rpc")
  /\ open' = IF "registry" \in open THEN open \cup {"pending"} ELSE open
  /\ wired' = [wired EXCEPT !["consumer"] = "pending" \in open']
  /\ UNCHANGED sub

(* The endpoint needs its flag and a registry file; with both but no stores the
   boot ends. *)
WireRpc ==
  /\ Boot("rpc", "broker")
  /\ \E flag, file \in BOOLEAN :
       /\ flag /\ file => "registry" \in open /\ "pending" \in open
       /\ wired' = [wired EXCEPT !["rpc"] = flag /\ file]
  /\ UNCHANGED <<open, sub>>

(* Whatever goes wrong with the broker only leaves it out. *)
MountBroker ==
  /\ Boot("broker", "listen")
  /\ \E mounted \in BOOLEAN :
       /\ mounted => "registry" \in open
       /\ open' = IF mounted THEN open \cup {"broker"} ELSE open
  /\ UNCHANGED <<wired, sub>>

(* startOutboundSubscriber, then the goroutine of ListenAndServe. *)
Listen ==
  /\ Boot("listen", "listening")
  /\ sub' \in BOOLEAN
  /\ UNCHANGED wiring

NotifySignals ==
  /\ Boot("listening", "serving")
  /\ UNCHANGED <<wiring, sub>>

Die(how) ==
  /\ dead = "no"
  /\ dead' = how
  /\ UNCHANGED <<phase, wiring, sub, clock, requests>>

(* os.Exit(1): configuration, a client, a store, or /rpc without its registry;
   later the listener. *)
Abort ==
  /\ \/ phase \in {"config", "clients", "registry", "pending", "rpc"}
     \/ phase \in {"listening", "serving", "outbound"}
  /\ Die("abort")

(***************************************************************************)
(* Requests and their goroutines.                                          *)
(***************************************************************************)
Accept(r) ==
  /\ dead = "no"
  /\ phase \in {"listening", "serving", "outbound"}
  /\ stage[r] = "out"
  /\ stage' = [stage EXCEPT ![r] = "handler"]
  /\ UNCHANGED <<phase, dead, wiring, sub, clock, todo, span, late>>

ReadsAgain(kind) ==      \* mutant: the record is read again to settle it
  CASE kind = "ack"     -> <<"pending", "registry", "pending", "pending">>
    [] kind = "publish" -> <<"approval">>
    [] kind = "rollout" -> <<"gcp">>

(* OnApprovalAck reads the record, writes the registry and settles the record;
   an approval ack is published; a canary or a migration calls GCP. *)
Calls(kind) ==
  CASE kind = "ack"     -> <<"pending", "registry", "pending">>
    [] kind = "publish" -> <<"approval">>
    [] kind = "rollout" -> <<"gcp">>

Offered(kind) ==
  CASE kind = "ack"     -> wired["consumer"]
    [] kind = "publish" -> wired["pubsub"]
    [] kind = "rollout" -> TRUE

Traced == phase \notin {"flush", "closing"}

EndSpan(r) == span' = [span EXCEPT ![r] = IF Traced THEN "queued" ELSE "lost"]

(* PendingTracker.Go, before ServeHTTP returns. *)
Go(r, kind) ==
  /\ dead = "no" /\ stage[r] = "handler"
  /\ Offered(kind)
  /\ stage' = [stage EXCEPT ![r] = "goroutine"]
  /\ todo' = [todo EXCEPT ![r] = Calls(kind)]
  /\ UNCHANGED <<phase, dead, wiring, sub, clock, span, late>>

(* A handler that leaves nothing to a goroutine. *)
Respond(r) ==
  /\ dead = "no" /\ stage[r] = "handler"
  /\ stage' = [stage EXCEPT ![r] = "done"]
  /\ EndSpan(r)
  /\ UNCHANGED <<phase, dead, wiring, sub, clock, todo, late>>

CallClient(r) ==
  /\ dead = "no" /\ stage[r] = "goroutine"
  /\ todo[r] # << >>
  /\ Head(todo[r]) \in open
  /\ todo' = [todo EXCEPT ![r] = Tail(@)]
  /\ UNCHANGED <<phase, dead, wiring, sub, clock, stage, span, late>>

(* The last notice is out, or a closed client ended the work. *)
EndGoroutine(r) ==
  /\ dead = "no" /\ stage[r] = "goroutine"
  /\ todo[r] # << >> => Head(todo[r]) \notin open
  /\ stage' = [stage EXCEPT ![r] = "done"]
  /\ EndSpan(r)
  /\ UNCHANGED <<phase, dead, wiring, sub, clock, todo, late>>

(* BatchSpanProcessor exports what is queued, on its schedule. *)
Queued == {r \in Requests : span[r] = "queued"}
Become(s) == span' = [r \in Requests |-> IF r \in Queued THEN s ELSE span[r]]

ExportBatch ==
  /\ dead = "no" /\ Traced /\ Queued # {}
  /\ Become("exported")
  /\ UNCHANGED <<phase, dead, wiring, sub, clock, stage, todo, late>>

(* The receive loop fails, or ends once it is cancelled and its callbacks
   have returned, which nothing bounds. *)
SubscriberEnds ==
  /\ dead = "no" /\ sub
  /\ sub' = FALSE
  /\ UNCHANGED <<phase, dead, wiring, clock, requests>>

(***************************************************************************)
(* Shutdown.                                                               *)
(***************************************************************************)
Sigterm ==
  /\ dead = "no" /\ phase = "serving"
  /\ Goto("outbound")
  /\ UNCHANGED <<dead, wiring, sub, now, stoppedAt, requests>>

(* Before signal.Notify the signal has its default effect. *)
SigtermUnhandled ==
  /\ phase \in Booting \cup {"listening"}
  /\ Die("kill")

Lesser(a, b) == IF a < b THEN a ELSE b

DeadlineUncapped ==      \* mutant: the waits do not derive from shutdownCtx
  CASE phase = "http"  -> since + HttpTime
    [] phase = "wait"  -> since + WaitTime
    [] phase = "flush" -> since + FlushTime

(* Each wait has its own timeout under shutdownCtx. *)
Deadline ==
  LET own == CASE phase = "http"  -> HttpTime
               [] phase = "wait"  -> WaitTime
               [] phase = "flush" -> FlushTime
  IN  Lesser(since + own, Budget)

AwaitedUntracked ==      \* mutant: goroutines started with a bare go
  CASE phase = "http"  -> {r \in Requests : stage[r] = "handler"}
    [] phase = "wait"  -> {}
    [] phase = "flush" -> Queued

(* What a wait of main waits for; the subscriber's has no deadline. *)
Awaited ==
  CASE phase = "http"  -> {r \in Requests : stage[r] = "handler"}
    [] phase = "wait"  -> {r \in Requests : stage[r] = "goroutine"}
    [] phase = "flush" -> Queued

Waits == CASE phase = "outbound" -> sub
           [] phase = "closing"  -> TRUE
           [] OTHER              -> Awaited # {} /\ now < Deadline

SubscriberDone ==
  /\ dead = "no" /\ phase = "outbound" /\ ~Waits
  /\ Goto("http")
  /\ stoppedAt' = now
  /\ UNCHANGED <<dead, wiring, sub, now, requests>>

(* srv.Shutdown and WaitWithDeadline return: nothing is left to wait for, or
   the time is up. *)
Return(p, q) ==
  /\ dead = "no" /\ phase = p /\ ~Waits
  /\ Goto(q)
  /\ late' = late \cup Awaited
  /\ UNCHANGED <<dead, wiring, sub, now, stoppedAt, stage, todo, span>>

(* tp.Shutdown: what it could not export in time is dropped. *)
FlushAll ==
  /\ dead = "no" /\ phase = "flush" /\ Queued # {}
  /\ Become("exported")
  /\ UNCHANGED <<phase, dead, wiring, sub, clock, stage, todo, late>>

TracerStopped ==
  /\ dead = "no" /\ phase = "flush" /\ ~Waits
  /\ Goto("closing")
  /\ Become("lost")
  /\ late' = late \cup Awaited
  /\ UNCHANGED <<dead, wiring, sub, now, stoppedAt, stage, todo>>

(* main's defers, last in first out. *)
CloseOrder == <<"broker", "pending", "registry", "approval", "dispatcher", "gcp">>

Close(i) ==
  /\ dead = "no" /\ phase = "closing"
  /\ CloseOrder[i] \in open
  /\ \A j \in 1 .. i - 1 : CloseOrder[j] \notin open
  /\ open' = open \ {CloseOrder[i]}
  /\ UNCHANGED <<phase, dead, wired, sub, clock, requests>>

Exit ==
  /\ phase = "closing" /\ open = {}
  /\ Die("exit")

Tick ==
  /\ dead = "no" /\ phase \in Stopping
  /\ now < Grace /\ Waits
  /\ now' = now + 1
  /\ UNCHANGED <<phase, dead, wiring, sub, since, stoppedAt, requests>>

Sigkill ==
  /\ phase \in Stopping /\ now = Grace
  /\ Die("kill")

BootStep == LoadConfig \/ BuildClients \/ OpenRegistry \/ MountAdmin
              \/ OpenPendingStore \/ WireRpc \/ MountBroker \/ Listen \/ NotifySignals

Next ==
  \/ BootStep \/ Abort
  \/ \E r \in Requests :
       Accept(r) \/ Respond(r) \/ CallClient(r) \/ EndGoroutine(r)
         \/ \E kind \in Kinds : Go(r, kind)
  \/ ExportBatch \/ SubscriberEnds
  \/ Sigterm \/ SigtermUnhandled
  \/ SubscriberDone \/ Return("http", "wait") \/ Return("wait", "flush")
  \/ FlushAll \/ TracerStopped
  \/ \E i \in 1 .. Len(CloseOrder) : Close(i)
  \/ Exit \/ Tick \/ Sigkill

Spec == Init /\ [][Next]_vars

(***************************************************************************)
(* Properties.                                                             *)
(***************************************************************************)
TypeOK ==
  /\ phase \in Booting \cup Stopping \cup {"listening", "serving"}
  /\ dead \in {"no", "exit", "abort", "kill"}
  /\ wired \in [Switches -> BOOLEAN]
  /\ open \subseteq Clients
  /\ sub \in BOOLEAN
  /\ now \in 0 .. Grace /\ since \in 0 .. Grace /\ stoppedAt \in 0 .. Grace
  /\ stage \in [Requests -> {"out", "handler", "goroutine", "done"}]
  /\ todo \in [Requests -> Seq(Clients)]
  /\ \A r \in Requests : Len(todo[r]) <= 3
  /\ span \in [Requests -> {"none", "queued", "exported", "lost"}]
  /\ late \subseteq Requests

(* Of everything the server accepted, only what one of the three waits ran out
   on is given up: no client is closed under other work, nothing else is
   unfinished when main returns, and no other span is lost. *)
NothingDropped ==
  \A r \in Requests \ late :
    /\ stage[r] = "done" => todo[r] = << >>
    /\ span[r] # "lost"
    /\ dead = "exit" => stage[r] = "out" \/ span[r] = "exported"

(* SIGKILL never interrupts the drain, the wait or the flush; and when the
   subscriber stops at once the flush has time left, however long the two
   waits before it took. *)
GraceIsEnough ==
  /\ dead = "kill" /\ phase \in {"http", "wait", "flush"} => stoppedAt = Grace
  /\ phase = "flush" /\ stoppedAt = 0 => since < Budget

(* The shutdown of main.go:411-447, drain, wait, flush and the deferred closes,
   drops no work and fits the grace Cloud Run gives. *)
OrderlyExit == NothingDropped /\ GraceIsEnough

(* While /rpc records mutations, no REST write bypasses the second operator,
   and this instance can apply what it recorded. *)
OneWayToWrite ==
  wired["rpc"] /\ wired["high"] => ~wired["restWrites"] /\ wired["consumer"]
=============================================================================
