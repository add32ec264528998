----------------------------- MODULE TokenBroker -----------------------------
(***************************************************************************)
(* POST /broker/token: a caller is authenticated, its request is checked   *)
(* against the grant matrix and the project registry, and it gets a GitHub *)
(* installation token from a read-through cache.  Callers that miss at the *)
(* same time share one mint (singleflight) and whatever becomes of it.     *)
(*                                                                         *)
(* One gateway instance: the cache is in its memory, the two registries    *)
(* are outside and change at any moment.                                   *)
(***************************************************************************)
EXTENDS Naturals, FiniteSets

CONSTANTS
  Callers,      \* connections, each of them serving one HTTP request at a time
  Requests,     \* what may be asked: project, tool, type, email and session, and how
                \* long the caller's identity token is valid
  Allowlist,    \* caller type -> accounts, except for AI agents
  Sessions,     \* AI-agent sessions in the registry
  SessionOf,    \* session -> the account, project and tool it is for, and its ExpiresAt
  Installed,    \* projects with a GitHub App installation
  Nobody,       \* no caller, no session
  Lifetime,     \* of a GitHub installation token, one hour
  SafetyMargin, \* of the cache, five minutes
  Patience,     \* a request is cut off when it has lasted longer
  MaxTime,      \* bound on the clock
  MaxCalls,     \* bound on calls
  MaxFailures   \* bound on failed mints and callers that hang up

Tools == {"paintress", "sightjack", "amadeus", "dominator", "phonewave"}
CallerTypes == {"human-operator", "gateway-service", "ai-agent", "workspace-daemon"}
Projects == {r.project : r \in Requests}

ASSUME RequestAssumption ==
  \A r \in Requests : /\ r.tool \in Tools
                      /\ r.type \in CallerTypes
                      /\ r.session \in Sessions \cup {Nobody}
                      /\ r.until \in Nat
ASSUME SessionsAssumption == \A s \in Sessions : SessionOf[s].ends \in Nat
ASSUME TimesAssumption ==
  /\ Lifetime \in Nat
  /\ SafetyMargin \in Nat
  /\ Patience \in Nat
  /\ Patience + SafetyMargin < Lifetime
  /\ {MaxTime, MaxCalls, MaxFailures} \subseteq Nat
ASSUME NobodyAssumption == Nobody \notin Callers \cup Sessions \cup Requests

VARIABLES
  time,
  archived,    \* projects archived in the registry
  revoked,     \* sessions revoked in the registry
  items,       \* key -> cached token, or NoToken
  leader,      \* key -> the caller whose fetch is in flight, or Nobody
  request,     \* caller -> the request it is serving, or Nobody
  pc,          \* caller -> next step of its request
  token,       \* caller -> what GetOrFetch returned, or NoToken
  gone,        \* callers that hung up: their context is cancelled
  since,       \* history: caller -> when its call arrived
  entitled,    \* history: callers whose project was active, and whose identity and
               \* session were good, when their call arrived
  calls, failures

registries == <<archived, revoked>>
cache == <<items, leader>>
origin == <<request, since, entitled>>
vars == <<time, registries, cache, origin, pc, token, gone, calls, failures>>

\* A token carries what its mint's request asked for and that request's actor.
NoToken == [exp |-> 0, for |-> Nobody]

(***************************************************************************)
(* The decisions.                                                          *)
(***************************************************************************)
IgnoresType(r) == <<r.project, r.tool, r.email>>      \* mutant
CacheKey(r) == <<r.project, r.tool, r.type, r.email>>
Key(c) == CacheKey(request[c])
Keys == {CacheKey(r) : r \in Requests}

\* GrantPolicy: every tool but phonewave, whoever asks.
IsAllowed(tool) == tool /= "phonewave"

Pinned(s, c) == /\ SessionOf[s].email = request[c].email
                /\ SessionOf[s].project = request[c].project
                /\ SessionOf[s].tool = request[c].tool

IgnoresRevoked(s, c) == time < SessionOf[s].ends /\ Pinned(s, c)      \* mutant
VerifyAgentSession(s, c) == s \notin revoked /\ time < SessionOf[s].ends /\ Pinned(s, c)

VerifyAndParse(r) == time < r.until
Listed(r) == r.email \in Allowlist[r.type]

\* ChainAuthenticator: an AI agent needs a session, anyone else a place on a list.
Authentic(c) ==
  /\ VerifyAndParse(request[c])
  /\ IF request[c].type = "ai-agent"
     THEN request[c].session \in Sessions /\ VerifyAgentSession(request[c].session, c)
     ELSE Listed(request[c])

Active(c) == request[c].project \notin archived

ServesExpired(t) == t /= NoToken /\ t.exp > time                   \* mutant
Fresh(t) == t /= NoToken /\ t.exp > time + SafetyMargin

(***************************************************************************)
(* The handler and the use case.                                           *)
(***************************************************************************)
Goto(c, step) == pc' = [pc EXCEPT ![c] = step]

\* What the registries say of a request at this moment.
Entitled(r) ==
  /\ r.project \notin archived
  /\ time < r.until
  /\ r.type /= "ai-agent" => r.email \in Allowlist[r.type]
  /\ r.type = "ai-agent" =>
       /\ r.session \in Sessions \ revoked
       /\ LET s == SessionOf[r.session]
          IN  time < s.ends /\ <<s.email, s.project, s.tool>> = <<r.email, r.project, r.tool>>

\* The request is over; nothing of it remains.
End(c) ==
  /\ Goto(c, "idle")
  /\ token' = [token EXCEPT ![c] = NoToken]
  /\ gone' = gone \ {c}
  /\ request' = [request EXCEPT ![c] = Nobody]
  /\ since' = [since EXCEPT ![c] = 0]
  /\ entitled' = entitled \ {c}

Proceed(c, step) == Goto(c, step) /\ UNCHANGED <<token, gone, origin>>

Arrive(c, r) ==
  /\ pc[c] = "idle"
  /\ calls < MaxCalls
  /\ calls' = calls + 1
  /\ Goto(c, "auth")
  /\ request' = [request EXCEPT ![c] = r]
  /\ since' = [since EXCEPT ![c] = time]
  /\ entitled' = IF Entitled(r) THEN entitled \cup {c} ELSE entitled
  /\ UNCHANGED <<time, registries, cache, token, gone, failures>>

Authenticate(c) ==
  /\ pc[c] = "auth"
  /\ IF Authentic(c) THEN Proceed(c, "check") ELSE End(c)
  /\ UNCHANGED <<time, registries, cache, calls, failures>>

MayMint(c) == IsAllowed(request[c].tool) /\ Active(c) /\ request[c].project \in Installed

\* BrokerTokenService.Mint, before the cache.
Check(c) ==
  /\ pc[c] = "check"
  /\ IF MayMint(c) THEN Proceed(c, "lookup") ELSE End(c)
  /\ UNCHANGED <<time, registries, cache, calls, failures>>

\* A registry does not answer, or the caller is gone and its context with it.
Fault(c) == \/ c \in gone /\ UNCHANGED failures
            \/ failures < MaxFailures /\ failures' = failures + 1

LookupFails(c) ==
  /\ pc[c] \in {"auth", "check"}
  /\ Fault(c)
  /\ End(c)
  /\ UNCHANGED <<time, registries, cache, calls>>

(***************************************************************************)
(* InstallationTokenCache.GetOrFetch.                                      *)
(***************************************************************************)
\* A stale item is deleted by whoever finds it.
Lookup(c) ==
  /\ pc[c] = "lookup"
  /\ IF Fresh(items[Key(c)])
     THEN /\ token' = [token EXCEPT ![c] = items[Key(c)]]
          /\ Goto(c, "answer")
          /\ UNCHANGED items
     ELSE /\ items' = [items EXCEPT ![Key(c)] = NoToken]
          /\ Goto(c, "enter")
          /\ UNCHANGED token
  /\ UNCHANGED <<time, registries, leader, gone, origin, calls, failures>>

NoSingleflight(c) == TRUE      \* mutant
SlotFree(c) == leader[Key(c)] = Nobody

\* singleflight.Do: the first caller runs the fetch, the others wait for it.
Enter(c) ==
  /\ pc[c] = "enter"
  /\ IF SlotFree(c)
     THEN /\ leader' = [leader EXCEPT ![Key(c)] = c]
          /\ Goto(c, "recheck")
     ELSE /\ Goto(c, "wait")
          /\ UNCHANGED leader
  /\ UNCHANGED <<time, registries, items, token, gone, origin, calls, failures>>

Sharing(c) == {c} \cup {d \in Callers : pc[d] = "wait" /\ Key(d) = Key(c)}

OnlyLeader(c) == {c}      \* mutant
WokenByError(c) == Sharing(c)

\* The fetch is over: the leader and everyone who waits get its result.
KeepsSlot(c) == leader      \* mutant
FreedSlot(c) == [leader EXCEPT ![Key(c)] = Nobody]

Finish(c, t, woken) ==
  /\ token' = [d \in Callers |-> IF d \in woken THEN t ELSE token[d]]
  /\ pc' = [d \in Callers |-> IF d \in woken THEN "answer" ELSE pc[d]]
  /\ leader' = FreedSlot(c)

Recheck(c) ==
  /\ pc[c] = "recheck"
  /\ IF Fresh(items[Key(c)])
     THEN Finish(c, items[Key(c)], Sharing(c)) /\ UNCHANGED items
     ELSE /\ items' = [items EXCEPT ![Key(c)] = NoToken]
          /\ Goto(c, "mint")
          /\ UNCHANGED <<token, leader>>
  /\ UNCHANGED <<time, registries, gone, origin, calls, failures>>

\* InstallationTokenBroker.Mint reads the project again and mints for its repository;
\* whether it is still active is not asked again.
Minted(c) == [exp |-> time + Lifetime, for |-> request[c]]

Mint(c) ==
  /\ pc[c] = "mint"
  /\ items' = [items EXCEPT ![Key(c)] = Minted(c)]
  /\ Goto(c, "minted")
  /\ UNCHANGED <<time, registries, leader, token, gone, origin, calls, failures>>

Share(c) ==
  /\ pc[c] = "minted"
  /\ Finish(c, items[Key(c)], Sharing(c))
  /\ UNCHANGED <<time, registries, items, gone, origin, calls, failures>>

\* GitHub or the registry fails, or the leader's own context was cancelled: the fetch
\* runs on that context, and its error is everyone's error.
MintFails(c) ==
  /\ pc[c] = "mint"
  /\ Fault(c)
  /\ Finish(c, NoToken, WokenByError(c))
  /\ UNCHANGED <<time, registries, items, gone, origin, calls>>

Answer(c) ==
  /\ pc[c] = "answer"
  /\ End(c)
  /\ UNCHANGED <<time, registries, cache, calls, failures>>

(***************************************************************************)
(* The surroundings.                                                       *)
(***************************************************************************)
HangUp(c) ==
  /\ pc[c] /= "idle"
  /\ c \notin gone
  /\ failures < MaxFailures
  /\ failures' = failures + 1
  /\ gone' = gone \cup {c}
  /\ UNCHANGED <<time, registries, cache, pc, token, origin, calls>>

Archive(p) ==
  /\ p \notin archived
  /\ archived' = archived \cup {p}
  /\ UNCHANGED <<time, revoked, cache, pc, token, gone, origin, calls, failures>>

Revoke(s) ==
  /\ s \notin revoked
  /\ revoked' = revoked \cup {s}
  /\ UNCHANGED <<time, archived, cache, pc, token, gone, origin, calls, failures>>

\* Cloud Run cuts a request off long before a token would age.
Tick ==
  /\ time < MaxTime
  /\ \A c \in Callers : pc[c] /= "idle" => time < since[c] + Patience
  /\ time' = time + 1
  /\ UNCHANGED <<registries, cache, pc, token, gone, origin, calls, failures>>

(***************************************************************************)
(* The specification.                                                      *)
(***************************************************************************)
Init ==
  /\ time = 0
  /\ archived = {}
  /\ revoked = {}
  /\ items = [k \in Keys |-> NoToken]
  /\ leader = [k \in Keys |-> Nobody]
  /\ request = [c \in Callers |-> Nobody]
  /\ pc = [c \in Callers |-> "idle"]
  /\ token = [c \in Callers |-> NoToken]
  /\ gone = {}
  /\ since = [c \in Callers |-> 0]
  /\ entitled = {}
  /\ calls = 0
  /\ failures = 0

Serve(c) == \/ Authenticate(c) \/ Check(c) \/ LookupFails(c) \/ Lookup(c) \/ Enter(c) \/ Recheck(c)
            \/ Mint(c) \/ Share(c) \/ MintFails(c) \/ Answer(c)

Next ==
  \/ \E c \in Callers, r \in Requests : Arrive(c, r)
  \/ \E c \in Callers : Serve(c) \/ HangUp(c)
  \/ \E p \in Projects : Archive(p)
  \/ \E s \in Sessions : Revoke(s)
  \/ Tick

Spec == Init /\ [][Next]_vars

\* The goroutine of a request keeps running; GitHub answers or the call fails.
Fairness == \A c \in Callers : WF_vars(Serve(c))
FairSpec == Spec /\ Fairness

(***************************************************************************)
(* Properties.                                                             *)
(***************************************************************************)
Tokens == [exp : 0..(MaxTime + Lifetime), for : Requests \cup {Nobody}]

Fetching(c) == pc[c] \in {"recheck", "mint", "minted"}

\* The variables keep their types, and a key has a leader exactly while that caller is
\* inside the fetch (installation_token_cache.go:60-72).
TypeOK ==
  /\ time \in 0..MaxTime
  /\ archived \subseteq Projects
  /\ revoked \subseteq Sessions
  /\ items \in [Keys -> Tokens]
  /\ leader \in [Keys -> Callers \cup {Nobody}]
  /\ \A k \in Keys, c \in Callers : leader[k] = c <=> Fetching(c) /\ Key(c) = k
  /\ request \in [Callers -> Requests \cup {Nobody}]
  /\ pc \in [Callers -> {"idle", "auth", "check", "lookup", "enter", "wait", "recheck",
                         "mint", "minted", "answer"}]
  /\ token \in [Callers -> Tokens]
  /\ gone \subseteq Callers
  /\ since \in [Callers -> 0..MaxTime]
  /\ entitled \subseteq {c \in Callers : pc[c] /= "idle"}
  /\ calls \in 0..MaxCalls
  /\ failures \in 0..MaxFailures

\* installation_token_cache.go:60-72: callers that miss together cause one mint.
OneMintPerKey ==
  \A c, d \in Callers : Fetching(c) /\ Fetching(d) /\ Key(c) = Key(d) => c = d

Served(c) == pc[c] = "answer" /\ token[c] /= NoToken

\* installation_token_cache.go:22-25: whoever gets a token can use it for more than the
\* safety margin after it asked, cached, shared or minted.
ServedIsFresh == \A c \in Callers : Served(c) => token[c].exp > since[c] + SafetyMargin

\* broker_dependencies.go:158-168: sharing never crosses a project, a tool, a caller type
\* or an account.
ServedFitsRequest ==
  \A c \in Callers : Served(c) =>
    LET r == token[c].for
    IN  /\ r.project = request[c].project
        /\ r.tool = request[c].tool
        /\ r.type = request[c].type
        /\ r.email = request[c].email

\* broker_token.go:68-83 and agent_session.go:86-103: a project archived, or a session
\* revoked or expired, before a call came in is not served to it, cached or not, and an
\* agent's session serves only the account, project and tool it is for; the same goes for
\* an identity token that has expired and an account that is on no list.
ServedIsEntitled == \A c \in Callers : Served(c) => c \in entitled

\* Every request ends, whoever leads the mint it waits for and however that ends.
RequestsEnd == \A c \in Callers : pc[c] /= "idle" ~> pc[c] = "idle"
=============================================================================
