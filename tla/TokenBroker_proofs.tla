-------------------------- MODULE TokenBroker_proofs --------------------------
(***************************************************************************)
(* Proofs about TokenBroker, for every set of callers, requests, sessions  *)
(* and allowlists, any number of calls and failures, and all times with    *)
(* Patience + SafetyMargin < Lifetime.                                     *)
(***************************************************************************)
EXTENDS TokenBroker, TLAPS

Steps == {"idle", "auth", "check", "lookup", "enter", "wait", "recheck", "mint", "minted",
          "answer"}

(***************************************************************************)
(* The inductive invariant.                                                *)
(***************************************************************************)
(* A request lasts no longer than Cloud Run lets it. *)
InTime(c) ==
  pc[c] # "idle" => /\ request[c] \in Requests
                    /\ since[c] <= time
                    /\ time <= since[c] + Patience

(* What the checks passed so far say of the moment the call arrived.  Nothing
   that is archived, revoked or expired becomes good again. *)
CheckedInv(c) ==
  /\ pc[c] = "auth" /\ Entitled(request[c]) => c \in entitled
  /\ pc[c] = "check" /\ request[c].project \notin archived => c \in entitled
  /\ pc[c] \notin {"idle", "auth", "check"} => c \in entitled

(* A token just minted is in the cache until it is shared, and young. *)
MintedInv(c) ==
  pc[c] = "minted" => /\ items[Key(c)] # NoToken
                      /\ items[Key(c)].exp >= since[c] + Lifetime

Good(t, k) == t.for \in Requests /\ CacheKey(t.for) = k

ServedInv(c) ==
  Served(c) => Good(token[c], Key(c)) /\ token[c].exp > since[c] + SafetyMargin

CallInv(c) == InTime(c) /\ CheckedInv(c) /\ MintedInv(c) /\ ServedInv(c)

(* What is cached under a key was minted for that key. *)
CacheInv == \A k \in Keys : items[k] # NoToken => Good(items[k], k)

IInv ==
  /\ TypeOK
  /\ \A c \in Callers : CallInv(c)
  /\ CacheInv

(***************************************************************************)
(* Lemmas about the operators.                                             *)
(***************************************************************************)
(* Every span of time and every bound is a number. *)
LEMMA TimesAreNat ==
  {Lifetime, SafetyMargin, Patience, MaxTime, MaxCalls, MaxFailures} \subseteq Nat
  BY TimesAssumption

(* The empty cache entry is a token that is nobody's. *)
LEMMA NoTokenTyped == NoToken \in Tokens
  BY TimesAreNat DEF NoToken, Tokens

(* A request has a cache key. *)
LEMMA KeyOfRequest == ASSUME NEW r \in Requests PROVE CacheKey(r) \in Keys
  BY DEF Keys

(* What the registries and the clock once refuse they refuse for good. *)
LEMMA EntitledWanes ==
  ASSUME NEW r \in Requests, time \in Nat, time' \in Nat, time <= time',
         archived \subseteq archived', revoked \subseteq revoked',
         Entitled(r)'
  PROVE  Entitled(r)
  BY RequestAssumption, SessionsAssumption DEF Entitled

(* The checks of the handler read the same facts. *)
LEMMA AuthenticIsEntitled ==
  ASSUME NEW c \in Callers, request[c] \in Requests, Authentic(c),
         request[c].project \notin archived
  PROVE  Entitled(request[c])
  BY DEF Authentic, Entitled, VerifyAndParse, VerifyAgentSession, Pinned, Listed

(* A caller inside GetOrFetch, or past it, has a key. *)
LEMMA CallerHasKey ==
  ASSUME IInv, NEW c \in Callers, pc[c] # "idle"
  PROVE  request[c] \in Requests /\ Key(c) \in Keys
  BY KeyOfRequest DEF IInv, CallInv, InTime, Key

(* A token just minted is fresh: its call is cut off long before it ages. *)
LEMMA MintedIsFresh ==
  ASSUME IInv, NEW c \in Callers, pc[c] = "minted"
  PROVE  Fresh(items[Key(c)]) /\ items[Key(c)].exp > time + SafetyMargin
<1>1. /\ items[Key(c)] # NoToken
      /\ items[Key(c)].exp >= since[c] + Lifetime
      /\ time <= since[c] + Patience
  BY DEF IInv, CallInv, MintedInv, InTime
<1>2. items[Key(c)] \in Tokens
  BY CallerHasKey DEF IInv, TypeOK
<1>3. /\ items[Key(c)].exp \in Nat /\ since[c] \in Nat /\ time \in Nat
  BY <1>2, TimesAreNat DEF IInv, TypeOK, Tokens
<1> QED
  BY <1>1, <1>3, TimesAssumption DEF Fresh

(* Who leads a fetch for a key is the only one who can be inside it. *)
LEMMA LeaderIsAlone ==
  ASSUME IInv, NEW c \in Callers, NEW d \in Callers,
         Fetching(c), Fetching(d), Key(c) = Key(d)
  PROVE  c = d
<1>1. Key(c) \in Keys
  BY CallerHasKey DEF Fetching
<1>2. leader[Key(c)] = c /\ leader[Key(c)] = d
  BY <1>1 DEF IInv, TypeOK
<1> QED BY <1>2

(***************************************************************************)
(* What a step leaves alone.                                               *)
(***************************************************************************)
(* A caller whose own request a step does not touch keeps its invariant. *)
LEMMA OthersKeep ==
  ASSUME IInv, NEW c \in Callers,
         time' = time, archived \subseteq archived', revoked \subseteq revoked',
         request'[c] = request[c], since'[c] = since[c], c \in entitled' <=> c \in entitled,
         pc'[c] = pc[c], token'[c] = token[c],
         pc[c] = "minted" => items'[Key(c)] = items[Key(c)]
  PROVE  CallInv(c)'
<1>1. CallInv(c) /\ time \in Nat
  BY TimesAreNat DEF IInv, TypeOK
<1>2. Key(c)' = Key(c)
  BY DEF Key, CacheKey
<1>3. InTime(c)'
  BY <1>1 DEF CallInv, InTime
<1>4. CheckedInv(c)'
  <2>1. pc[c] # "idle" => request[c] \in Requests
    BY <1>1 DEF CallInv, InTime
  <2>2. ASSUME pc'[c] = "auth", Entitled(request[c])'
        PROVE  c \in entitled'
    <3>1. PICK r \in Requests : r = request[c] /\ r = request'[c]
      BY <2>1, <2>2
    <3>2. Entitled(r)'
      BY <2>2, <3>1 DEF Entitled
    <3>3. Entitled(r)
      BY <1>1, <3>2, EntitledWanes DEF IInv, TypeOK
    <3> QED BY <1>1, <2>2, <3>1, <3>3 DEF CallInv, CheckedInv
  <2> QED BY <1>1, <2>2 DEF CallInv, CheckedInv
<1>5. MintedInv(c)'
  BY <1>1, <1>2 DEF CallInv, MintedInv
<1>6. ServedInv(c)'
  BY <1>1, <1>2 DEF CallInv, ServedInv, Served, Good
<1> QED BY <1>3, <1>4, <1>5, <1>6 DEF CallInv

(* A key keeps its leader while the same callers are inside the same fetches. *)
LEMMA LeadersKeep ==
  ASSUME IInv, leader' = leader,
         \A d \in Callers : /\ Fetching(d)' <=> Fetching(d)
                            /\ Fetching(d) => request'[d] = request[d]
  PROVE  \A k \in Keys, d \in Callers : leader'[k] = d <=> (Fetching(d)' /\ Key(d)' = k)
  BY DEF IInv, TypeOK, Key, CacheKey

(* What is cached under a key stays good while only the clock and the callers move. *)
LEMMA CacheKeeps == ASSUME IInv, items' = items PROVE CacheInv'
  BY DEF IInv, CacheInv

(***************************************************************************)
(* The first state, and the steps.                                         *)
(***************************************************************************)
(* Nobody is served yet and nothing is cached. *)
LEMMA InitIInv == Init => IInv
<1> SUFFICES ASSUME Init PROVE IInv OBVIOUS
<1>1. TypeOK
  BY NoTokenTyped, TimesAreNat, NobodyAssumption DEF Init, TypeOK, Fetching
<1>2. ASSUME NEW c \in Callers PROVE CallInv(c)
  BY DEF Init, CallInv, InTime, CheckedInv, MintedInv, ServedInv, Served
<1>3. CacheInv
  BY DEF Init, CacheInv
<1> QED BY <1>1, <1>2, <1>3 DEF IInv

(* A request that ends, answered or refused, leaves nothing behind. *)
LEMMA EndKeepsIInv ==
  ASSUME IInv, NEW c \in Callers, pc[c] # "idle", ~Fetching(c), End(c),
         UNCHANGED <<time, registries, cache, calls>>, failures' \in 0..MaxFailures
  PROVE  IInv'
<1>1. \A k \in Keys, d \in Callers : leader'[k] = d <=> (Fetching(d)' /\ Key(d)' = k)
  <2>1. ASSUME NEW d \in Callers
        PROVE  /\ Fetching(d)' <=> Fetching(d)
               /\ Fetching(d) => request'[d] = request[d]
    BY DEF IInv, TypeOK, End, Goto, Fetching
  <2> QED BY <2>1, LeadersKeep DEF cache
<1>2. TypeOK'
  BY <1>1, NoTokenTyped, TimesAreNat DEF IInv, TypeOK, End, Goto, registries, cache
<1>3. ASSUME NEW d \in Callers PROVE CallInv(d)'
  <2>1. CASE d = c
    BY <2>1 DEF IInv, TypeOK, End, Goto, CallInv, InTime, CheckedInv, MintedInv, ServedInv, Served
  <2>2. CASE d # c
    BY <2>2, OthersKeep DEF IInv, TypeOK, End, Goto, registries, cache
  <2> QED BY <2>1, <2>2
<1> QED BY <1>2, <1>3, CacheKeeps DEF IInv, cache

(* A check that succeeds is the reason a call goes on. *)
LEMMA ProceedKeepsIInv ==
  ASSUME IInv, NEW c \in Callers, NEW step \in {"check", "lookup"},
         pc[c] \in {"auth", "check"}, Proceed(c, step),
         step = "check" => (request[c].project \notin archived => c \in entitled),
         step = "lookup" => c \in entitled,
         UNCHANGED <<time, registries, cache, calls, failures>>
  PROVE  IInv'
<1>1. \A k \in Keys, d \in Callers : leader'[k] = d <=> (Fetching(d)' /\ Key(d)' = k)
  BY LeadersKeep DEF IInv, TypeOK, Proceed, Goto, Fetching, cache, origin
<1>2. TypeOK'
  BY <1>1 DEF IInv, TypeOK, Proceed, Goto, registries, cache, origin
<1>3. ASSUME NEW d \in Callers PROVE CallInv(d)'
  <2>1. CASE d = c
    <3>1. pc'[c] = step /\ step \notin {"idle", "auth", "minted", "answer"}
      BY DEF IInv, TypeOK, Proceed, Goto
    <3>2. InTime(c)
      BY DEF IInv, CallInv
    <3> QED
      BY <2>1, <3>1, <3>2
      DEF CallInv, InTime, CheckedInv, MintedInv, ServedInv, Served, Proceed, registries, origin
  <2>2. CASE d # c
    BY <2>2, OthersKeep DEF IInv, TypeOK, Proceed, Goto, registries, cache, origin
  <2> QED BY <2>1, <2>2
<1> QED BY <1>2, <1>3, CacheKeeps DEF IInv, cache

(* Entitled is what the checks ahead of the call will find, seen as it arrives. *)
LEMMA ArriveKeepsIInv ==
  ASSUME IInv, NEW c \in Callers, NEW r \in Requests, Arrive(c, r) PROVE IInv'
<1>1. \A k \in Keys, d \in Callers : leader'[k] = d <=> (Fetching(d)' /\ Key(d)' = k)
  <2>1. ASSUME NEW d \in Callers
        PROVE  /\ Fetching(d)' <=> Fetching(d)
               /\ Fetching(d) => request'[d] = request[d]
    BY DEF IInv, TypeOK, Arrive, Goto, Fetching
  <2> QED BY <2>1, LeadersKeep DEF Arrive, cache
<1>2. TypeOK'
  <2>1. calls' \in 0..MaxCalls
    BY TimesAreNat DEF IInv, TypeOK, Arrive
  <2>2. /\ since' \in [Callers -> 0..MaxTime]
        /\ request' \in [Callers -> Requests \cup {Nobody}]
        /\ entitled' \subseteq {d \in Callers : pc'[d] # "idle"}
    BY DEF IInv, TypeOK, Arrive, Goto
  <2> QED BY <1>1, <2>1, <2>2 DEF IInv, TypeOK, Arrive, Goto, registries, cache
<1>3. ASSUME NEW d \in Callers PROVE CallInv(d)'
  <2>1. CASE d = c
    <3>1. /\ pc'[c] = "auth" /\ request'[c] = r /\ since'[c] = time /\ time' = time
          /\ time \in Nat
      BY TimesAreNat DEF IInv, TypeOK, Arrive, Goto
    <3>2. Entitled(request[c])' => Entitled(r)
      BY <3>1 DEF Entitled, Arrive, registries
    <3>3. Entitled(r) => c \in entitled'
      BY DEF Arrive
    <3>4. InTime(c)'
      BY <3>1, TimesAssumption DEF InTime
    <3> QED BY <2>1, <3>1, <3>2, <3>3, <3>4 DEF CallInv, CheckedInv, MintedInv, ServedInv, Served
  <2>2. CASE d # c
    BY <2>2, OthersKeep DEF IInv, TypeOK, Arrive, Goto, registries, cache
  <2> QED BY <2>1, <2>2
<1> QED BY <1>2, <1>3, CacheKeeps DEF IInv, Arrive, cache

(* An authenticated caller has left only the project to be checked. *)
LEMMA AuthenticateKeepsIInv ==
  ASSUME IInv, NEW c \in Callers, Authenticate(c) PROVE IInv'
<1>1. CASE Authentic(c)
  <2>1. request[c] \in Requests /\ CheckedInv(c)
    BY CallerHasKey DEF Authenticate, IInv, CallInv
  <2>2. request[c].project \notin archived => c \in entitled
    BY <1>1, <2>1, AuthenticIsEntitled DEF Authenticate, CheckedInv
  <2> QED BY <1>1, <2>2, ProceedKeepsIInv DEF Authenticate
<1>2. CASE ~Authentic(c)
  BY <1>2, EndKeepsIInv DEF Authenticate, Fetching, IInv, TypeOK
<1> QED BY <1>1, <1>2

(* Who passes Mint's checks was entitled when its call arrived. *)
LEMMA CheckKeepsIInv ==
  ASSUME IInv, NEW c \in Callers, Check(c) PROVE IInv'
<1>1. CASE MayMint(c)
  <2>1. c \in entitled
    BY <1>1 DEF Check, MayMint, Active, IInv, CallInv, CheckedInv
  <2> QED BY <1>1, <2>1, ProceedKeepsIInv DEF Check
<1>2. CASE ~MayMint(c)
  BY <1>2, EndKeepsIInv DEF Check, Fetching, IInv, TypeOK
<1> QED BY <1>1, <1>2

(* A failed call is counted, one that was cancelled is not. *)
LEMMA FaultsTyped ==
  ASSUME IInv, NEW c \in Callers, Fault(c) PROVE failures' \in 0..MaxFailures
  BY TimesAreNat DEF IInv, TypeOK, Fault

(* A registry that fails, or a cancelled context, ends the call. *)
LEMMA LookupFailsKeepsIInv ==
  ASSUME IInv, NEW c \in Callers, LookupFails(c) PROVE IInv'
  BY EndKeepsIInv, FaultsTyped DEF LookupFails, Fetching

(* An answer ends the call. *)
LEMMA AnswerKeepsIInv ==
  ASSUME IInv, NEW c \in Callers, Answer(c) PROVE IInv'
  BY EndKeepsIInv DEF Answer, Fetching, IInv, TypeOK

(* Throwing away a stale item hurts nobody: one just minted is not stale. *)
LEMMA LookupKeepsIInv ==
  ASSUME IInv, NEW c \in Callers, Lookup(c) PROVE IInv'
<1>1. request[c] \in Requests /\ Key(c) \in Keys /\ c \in entitled /\ InTime(c)
  BY CallerHasKey DEF Lookup, IInv, CallInv, CheckedInv
<1>2. \A k \in Keys, d \in Callers : leader'[k] = d <=> (Fetching(d)' /\ Key(d)' = k)
  <2>1. ASSUME NEW d \in Callers
        PROVE  /\ Fetching(d)' <=> Fetching(d)
               /\ Fetching(d) => request'[d] = request[d]
    BY DEF IInv, TypeOK, Lookup, Goto, Fetching, origin
  <2> QED BY <2>1, LeadersKeep DEF Lookup
<1>3. items[Key(c)] \in Tokens /\ NoToken \in Tokens
  BY <1>1, NoTokenTyped DEF IInv, TypeOK
<1>4. TypeOK'
  BY <1>1, <1>2, <1>3 DEF IInv, TypeOK, Lookup, Goto, registries, origin
<1>5. ASSUME NEW d \in Callers PROVE CallInv(d)'
  <2>1. CASE d = c
    <3>1. InTime(c)' /\ CheckedInv(c)' /\ MintedInv(c)'
      BY <1>1 DEF IInv, TypeOK, Lookup, Goto, InTime, CheckedInv, MintedInv, registries, origin
    <3>2. ServedInv(c)'
      <4>1. CASE Fresh(items[Key(c)])
        <5>1. token'[c] = items[Key(c)] /\ Key(c)' = Key(c) /\ since'[c] = since[c]
          BY <4>1 DEF IInv, TypeOK, Lookup, Goto, Key, CacheKey, origin
        <5>2. Good(items[Key(c)], Key(c))
          BY <1>1, <4>1 DEF IInv, CacheInv, Fresh
        <5>3. items[Key(c)].exp > since[c] + SafetyMargin
          <6>1. items[Key(c)].exp \in Nat /\ time \in Nat /\ since[c] \in Nat
            BY <1>3, TimesAreNat DEF IInv, TypeOK, Tokens
          <6> QED BY <1>1, <4>1, <6>1, TimesAssumption DEF Fresh, InTime, Lookup
        <5> QED BY <5>1, <5>2, <5>3 DEF ServedInv, Good
      <4>2. CASE ~Fresh(items[Key(c)])
        BY <4>2 DEF IInv, TypeOK, Lookup, Goto, ServedInv, Served
      <4> QED BY <4>1, <4>2
    <3> QED BY <2>1, <3>1, <3>2 DEF CallInv
  <2>2. CASE d # c
    <3>1. pc[d] = "minted" => items'[Key(d)] = items[Key(d)]
      <4>1. pc[d] = "minted" => Fresh(items[Key(d)]) /\ Key(d) \in Keys
        BY MintedIsFresh, CallerHasKey
      <4>2. CASE Key(d) = Key(c)
        BY <4>1, <4>2 DEF Lookup
      <4>3. CASE Key(d) # Key(c)
        BY <4>1, <4>3 DEF Lookup, IInv, TypeOK
      <4> QED BY <4>2, <4>3
    <3> QED BY <2>2, <3>1, OthersKeep DEF IInv, TypeOK, Lookup, Goto, registries, origin
  <2> QED BY <2>1, <2>2
<1>6. CacheInv'
  BY <1>1 DEF IInv, TypeOK, CacheInv, Lookup
<1> QED BY <1>4, <1>5, <1>6 DEF IInv

(* Whoever finds no fetch in flight becomes the one inside it. *)
LEMMA EnterKeepsIInv ==
  ASSUME IInv, NEW c \in Callers, Enter(c) PROVE IInv'
<1>1. request[c] \in Requests /\ Key(c) \in Keys /\ c \in entitled /\ InTime(c) /\ ~Fetching(c)
  BY CallerHasKey DEF Enter, IInv, CallInv, CheckedInv, Fetching
<1>2. request' = request /\ Key(c)' = Key(c)
  BY DEF Enter, origin, Key, CacheKey
<1>3. \A k \in Keys, d \in Callers : leader'[k] = d <=> (Fetching(d)' /\ Key(d)' = k)
  <2>1. CASE SlotFree(c)
    <3> SUFFICES ASSUME NEW k \in Keys, NEW d \in Callers
                 PROVE  leader'[k] = d <=> (Fetching(d)' /\ Key(d)' = k)
      OBVIOUS
    <3>1. /\ leader[k] = d <=> (Fetching(d) /\ Key(d) = k)
          /\ leader[Key(c)] = d <=> (Fetching(d) /\ Key(d) = Key(c))
          /\ leader[Key(c)] # d
      BY <1>1, <2>1, NobodyAssumption DEF IInv, TypeOK, SlotFree
    <3>2. Key(d)' = Key(d)
      BY <1>2 DEF Key, CacheKey
    <3>3. leader'[k] = IF k = Key(c) THEN c ELSE leader[k]
      BY <2>1 DEF IInv, TypeOK, Enter
    <3>4. CASE d = c
      <4>1. Fetching(c)'
        BY <2>1 DEF IInv, TypeOK, Enter, Goto, Fetching
      <4> QED BY <1>1, <3>1, <3>2, <3>3, <3>4, <4>1
    <3>5. CASE d # c
      <4>1. Fetching(d)' <=> Fetching(d)
        BY <2>1, <3>5 DEF IInv, TypeOK, Enter, Goto, Fetching
      <4> QED BY <3>1, <3>2, <3>3, <3>5, <4>1
    <3> QED BY <3>4, <3>5
  <2>2. CASE ~SlotFree(c)
    <3>1. ASSUME NEW d \in Callers PROVE Fetching(d)' <=> Fetching(d)
      BY <2>2 DEF IInv, TypeOK, Enter, Goto, Fetching
    <3> QED BY <1>2, <2>2, <3>1, LeadersKeep DEF Enter
  <2> QED BY <2>1, <2>2
<1>4. TypeOK'
  <2>1. leader' \in [Keys -> Callers \cup {Nobody}]
    BY <1>1 DEF IInv, TypeOK, Enter
  <2> QED BY <1>1, <1>3, <2>1 DEF IInv, TypeOK, Enter, Goto, registries, origin
<1>5. ASSUME NEW d \in Callers PROVE CallInv(d)'
  <2>1. CASE d = c
    BY <1>1, <2>1 DEF IInv, TypeOK, Enter, Goto, CallInv, InTime, CheckedInv, MintedInv,
                     ServedInv, Served, registries, origin
  <2>2. CASE d # c
    BY <2>2, OthersKeep DEF IInv, TypeOK, Enter, Goto, registries, origin
  <2> QED BY <2>1, <2>2
<1> QED BY <1>4, <1>5, CacheKeeps DEF IInv, Enter

(* Everyone who waits for a fetch waits for a token of its own key. *)
LEMMA FinishKeepsIInv ==
  ASSUME IInv, NEW c \in Callers, Fetching(c), NEW t \in Tokens, Finish(c, t, Sharing(c)),
         t # NoToken => Good(t, Key(c)) /\ t.exp > time + SafetyMargin,
         UNCHANGED <<time, registries, items, gone, origin, calls>>,
         failures' \in 0..MaxFailures
  PROVE  IInv'
<1>1. request[c] \in Requests /\ Key(c) \in Keys
  BY CallerHasKey DEF Fetching
<1>2. \A d \in Callers : Key(d)' = Key(d) /\ request'[d] = request[d] /\ since'[d] = since[d]
  BY DEF Key, CacheKey, origin
<1>3. \A k \in Keys, d \in Callers : leader'[k] = d <=> (Fetching(d)' /\ Key(d)' = k)
  <2> SUFFICES ASSUME NEW k \in Keys, NEW d \in Callers
               PROVE  leader'[k] = d <=> (Fetching(d)' /\ Key(d)' = k)
    OBVIOUS
  <2>1. leader[k] = d <=> (Fetching(d) /\ Key(d) = k)
    BY DEF IInv, TypeOK
  <2>2. leader'[k] = IF k = Key(c) THEN Nobody ELSE leader[k]
    BY DEF IInv, TypeOK, Finish, FreedSlot
  <2>3. CASE d = c
    <3>1. ~Fetching(c)'
      BY DEF Finish, Sharing, Fetching
    <3> QED BY <2>1, <2>2, <2>3, <3>1, NobodyAssumption
  <2>4. CASE d # c
    <3>1. Fetching(d)' <=> Fetching(d)
      BY <2>4 DEF Finish, Sharing, Fetching
    <3>2. Fetching(d) => Key(d) # Key(c)
      BY <2>4, LeaderIsAlone
    <3> QED BY <1>2, <2>1, <2>2, <3>1, <3>2, NobodyAssumption
  <2> QED BY <2>3, <2>4
<1>4. TypeOK'
  <2>1. leader' \in [Keys -> Callers \cup {Nobody}]
    BY <1>1 DEF IInv, TypeOK, Finish, FreedSlot
  <2>2. /\ pc' \in [Callers -> Steps]
        /\ token' \in [Callers -> Tokens]
    BY DEF IInv, TypeOK, Finish, Steps
  <2>3. entitled' \subseteq {d \in Callers : pc'[d] # "idle"}
    BY DEF IInv, TypeOK, Finish, Sharing, Fetching, origin
  <2> QED BY <1>3, <2>1, <2>2, <2>3 DEF IInv, TypeOK, Steps, registries, origin
<1>5. ASSUME NEW d \in Callers PROVE CallInv(d)'
  <2>1. CASE d \in Sharing(c)
    <3>1. pc[d] \notin {"idle", "auth", "check"} /\ Key(d) = Key(c)
      BY <2>1 DEF Sharing, Fetching
    <3>2. InTime(d) /\ d \in entitled
      BY <3>1 DEF IInv, CallInv, CheckedInv
    <3>3. pc'[d] = "answer" /\ token'[d] = t
      BY <2>1 DEF Finish
    <3>4. InTime(d)' /\ CheckedInv(d)' /\ MintedInv(d)'
      BY <3>1, <3>2, <3>3 DEF InTime, CheckedInv, MintedInv, origin
    <3>5. t # NoToken => t.exp > since[d] + SafetyMargin
      <4>1. t.exp \in Nat /\ time \in Nat /\ since[d] \in Nat
        BY TimesAreNat DEF IInv, TypeOK, Tokens
      <4>2. since[d] <= time
        BY <3>1, <3>2 DEF InTime
      <4> QED BY <4>1, <4>2, TimesAssumption
    <3>6. ServedInv(d)'
      BY <1>2, <3>1, <3>3, <3>5 DEF ServedInv, Served, Good
    <3> QED BY <3>4, <3>6 DEF CallInv
  <2>2. CASE d \notin Sharing(c)
    BY <2>2, OthersKeep DEF IInv, TypeOK, Finish, registries, origin
  <2> QED BY <2>1, <2>2
<1> QED BY <1>4, <1>5, CacheKeeps DEF IInv

(* Inside a fetch, a step that keeps its caller inside and what it puts into the cache good. *)
LEMMA FetchKeepsIInv ==
  ASSUME IInv, NEW c \in Callers, Fetching(c), NEW step \in {"mint", "minted"}, Goto(c, step),
         NEW t \in Tokens, items' = [items EXCEPT ![Key(c)] = t],
         t # NoToken => Good(t, Key(c)),
         step = "minted" => t # NoToken /\ t.exp >= since[c] + Lifetime,
         UNCHANGED <<time, registries, leader, token, gone, origin, calls, failures>>
  PROVE  IInv'
<1>1. request[c] \in Requests /\ Key(c) \in Keys /\ c \in entitled /\ InTime(c)
  BY CallerHasKey DEF IInv, CallInv, CheckedInv, Fetching
<1>2. \A k \in Keys, d \in Callers : leader'[k] = d <=> (Fetching(d)' /\ Key(d)' = k)
  <2>1. ASSUME NEW d \in Callers PROVE Fetching(d)' <=> Fetching(d)
    BY DEF IInv, TypeOK, Goto, Fetching
  <2> QED BY <2>1, LeadersKeep DEF origin
<1>3. TypeOK'
  BY <1>1, <1>2 DEF IInv, TypeOK, Goto, registries, origin
<1>4. ASSUME NEW d \in Callers PROVE CallInv(d)'
  <2>1. CASE d = c
    <3>1. /\ pc'[c] = step /\ Key(c)' = Key(c) /\ items'[Key(c)] = t
          /\ since'[c] = since[c] /\ request'[c] = request[c] /\ time' = time
          /\ entitled' = entitled
      BY <1>1 DEF IInv, TypeOK, Goto, Key, CacheKey, origin
    <3>2. InTime(c)' /\ CheckedInv(c)' /\ ServedInv(c)'
      BY <1>1, <3>1 DEF InTime, CheckedInv, ServedInv, Served, Fetching
    <3>3. MintedInv(c)'
      BY <3>1 DEF MintedInv
    <3> QED BY <2>1, <3>2, <3>3 DEF CallInv
  <2>2. CASE d # c
    <3>1. pc[d] = "minted" => Key(d) # Key(c)
      BY <2>2, LeaderIsAlone DEF Fetching
    <3> QED BY <2>2, <3>1, OthersKeep DEF IInv, TypeOK, Goto, registries, origin
  <2> QED BY <2>1, <2>2
<1>5. CacheInv'
  BY <1>1 DEF IInv, TypeOK, CacheInv
<1> QED BY <1>3, <1>4, <1>5 DEF IInv

(* Inside the fetch the cache is asked again, and what it has is shared. *)
LEMMA RecheckKeepsIInv ==
  ASSUME IInv, NEW c \in Callers, Recheck(c) PROVE IInv'
<1>1. Fetching(c) /\ Key(c) \in Keys
  BY CallerHasKey DEF Recheck, Fetching
<1>2. items[Key(c)] \in Tokens /\ failures \in 0..MaxFailures
  BY <1>1 DEF IInv, TypeOK
<1>3. CASE Fresh(items[Key(c)])
  <2>1. Good(items[Key(c)], Key(c)) /\ items[Key(c)].exp > time + SafetyMargin
    BY <1>1, <1>3 DEF IInv, CacheInv, Fresh
  <2> QED BY <1>1, <1>2, <1>3, <2>1, FinishKeepsIInv DEF Recheck
<1>4. CASE ~Fresh(items[Key(c)])
  BY <1>1, <1>4, NoTokenTyped, FetchKeepsIInv DEF Recheck
<1> QED BY <1>3, <1>4

(* A minted token is for its leader's request and expires a lifetime from now. *)
LEMMA MintKeepsIInv ==
  ASSUME IInv, NEW c \in Callers, Mint(c) PROVE IInv'
<1>1. Fetching(c) /\ request[c] \in Requests /\ InTime(c)
  BY CallerHasKey DEF Mint, Fetching, IInv, CallInv
<1>2. time \in 0..MaxTime /\ since[c] \in Nat /\ since[c] <= time
  BY <1>1, TimesAreNat DEF Mint, IInv, TypeOK, InTime
<1>3. /\ Minted(c) \in Tokens /\ Minted(c) # NoToken /\ Good(Minted(c), Key(c))
      /\ Minted(c).exp >= since[c] + Lifetime
  BY <1>1, <1>2, TimesAssumption, NobodyAssumption DEF Minted, Tokens, NoToken, Good, Key
<1> QED BY <1>1, <1>3, FetchKeepsIInv DEF Mint

(* What was minted is still cached when it is shared. *)
LEMMA ShareKeepsIInv ==
  ASSUME IInv, NEW c \in Callers, Share(c) PROVE IInv'
<1>1. Fetching(c) /\ Key(c) \in Keys
  BY CallerHasKey DEF Share, Fetching
<1>2. items[Key(c)] \in Tokens /\ failures \in 0..MaxFailures
  BY <1>1 DEF IInv, TypeOK
<1>3. Good(items[Key(c)], Key(c)) /\ items[Key(c)].exp > time + SafetyMargin
  BY <1>1, MintedIsFresh DEF Share, IInv, CacheInv, Fresh
<1> QED BY <1>1, <1>2, <1>3, FinishKeepsIInv DEF Share

(* A fetch that fails leaves the leader and who waits without a token. *)
LEMMA MintFailsKeepsIInv ==
  ASSUME IInv, NEW c \in Callers, MintFails(c) PROVE IInv'
  BY FaultsTyped, NoTokenTyped, FinishKeepsIInv DEF MintFails, Fetching, WokenByError

(* A caller that hangs up, and a registry that changes, touch no call. *)
LEMMA SurroundingsKeepIInv ==
  ASSUME IInv,
         archived \subseteq archived', revoked \subseteq revoked',
         archived' \subseteq Projects, revoked' \subseteq Sessions,
         gone' \subseteq Callers, failures' \in 0..MaxFailures,
         UNCHANGED <<time, cache, pc, token, origin, calls>>
  PROVE  IInv'
<1>1. \A k \in Keys, d \in Callers : leader'[k] = d <=> (Fetching(d)' /\ Key(d)' = k)
  BY LeadersKeep DEF Fetching, cache, origin
<1>2. TypeOK'
  BY <1>1 DEF IInv, TypeOK, cache, origin
<1>3. ASSUME NEW d \in Callers PROVE CallInv(d)'
  BY OthersKeep DEF cache, origin
<1> QED BY <1>2, <1>3, CacheKeeps DEF IInv, cache

(* Time passes only while no call has lasted too long. *)
LEMMA TickKeepsIInv == ASSUME IInv, Tick PROVE IInv'
<1>1. \A k \in Keys, d \in Callers : leader'[k] = d <=> (Fetching(d)' /\ Key(d)' = k)
  BY LeadersKeep DEF Tick, Fetching, cache, origin
<1>2. TypeOK'
  BY <1>1, TimesAreNat DEF IInv, TypeOK, Tick, registries, cache, origin
<1>3. ASSUME NEW d \in Callers PROVE CallInv(d)'
  <2>1. CallInv(d) /\ time \in Nat /\ since[d] \in Nat /\ time' = time + 1 /\ Key(d)' = Key(d)
    BY TimesAreNat DEF IInv, TypeOK, Tick, Key, CacheKey, origin
  <2>2. InTime(d)'
    BY <2>1, TimesAssumption DEF Tick, CallInv, InTime, origin
  <2>3. CheckedInv(d)'
    <3>1. ASSUME pc[d] = "auth", Entitled(request[d])' PROVE d \in entitled
      <4>1. PICK r \in Requests : r = request[d] /\ r = request'[d]
        BY <2>1, <3>1 DEF CallInv, InTime, Tick, origin
      <4>2. Entitled(r)'
        BY <3>1, <4>1 DEF Entitled
      <4>3. time <= time' /\ time' \in Nat
        BY <2>1
      <4>4. Entitled(r)
        BY <2>1, <4>2, <4>3, EntitledWanes DEF Tick, registries
      <4> QED BY <2>1, <3>1, <4>1, <4>4 DEF CallInv, CheckedInv
    <3> QED BY <2>1, <3>1 DEF CallInv, CheckedInv, Tick, registries, origin
  <2>4. MintedInv(d)' /\ ServedInv(d)'
    BY <2>1 DEF CallInv, MintedInv, ServedInv, Served, Good, Tick, cache, origin
  <2> QED BY <2>2, <2>3, <2>4 DEF CallInv
<1> QED BY <1>2, <1>3, CacheKeeps DEF IInv, Tick, cache

(* Every step keeps the invariant. *)
LEMMA NextIInv == IInv /\ [Next]_vars => IInv'
<1> SUFFICES ASSUME IInv, [Next]_vars PROVE IInv' OBVIOUS
<1>1. ASSUME NEW c \in Callers, NEW r \in Requests, Arrive(c, r) PROVE IInv'
  BY <1>1, ArriveKeepsIInv
<1>2. ASSUME NEW c \in Callers, Serve(c) PROVE IInv'
  BY <1>2, AuthenticateKeepsIInv, CheckKeepsIInv, LookupFailsKeepsIInv, LookupKeepsIInv,
     EnterKeepsIInv, RecheckKeepsIInv, MintKeepsIInv, ShareKeepsIInv, MintFailsKeepsIInv,
     AnswerKeepsIInv DEF Serve
<1>3. ASSUME NEW c \in Callers, HangUp(c) PROVE IInv'
  <2>1. failures' \in 0..MaxFailures /\ gone' \subseteq Callers
    BY <1>3, TimesAreNat DEF HangUp, IInv, TypeOK
  <2> QED BY <1>3, <2>1, SurroundingsKeepIInv DEF HangUp, registries, IInv, TypeOK
<1>4. ASSUME NEW p \in Projects, Archive(p) PROVE IInv'
  BY <1>4, SurroundingsKeepIInv DEF Archive, IInv, TypeOK
<1>5. ASSUME NEW s \in Sessions, Revoke(s) PROVE IInv'
  BY <1>5, SurroundingsKeepIInv DEF Revoke, IInv, TypeOK
<1>6. ASSUME Tick PROVE IInv'
  BY <1>6, TickKeepsIInv
<1>7. ASSUME UNCHANGED vars PROVE IInv'
  BY <1>7, SurroundingsKeepIInv DEF vars, registries, IInv, TypeOK
<1> QED BY <1>1, <1>2, <1>3, <1>4, <1>5, <1>6, <1>7 DEF Next

(***************************************************************************)
(* The theorems.                                                           *)
(***************************************************************************)
(* The inductive invariant holds in every reachable state. *)
THEOREM Invariance == Spec => []IInv
  BY InitIInv, NextIInv, PTL DEF Spec

(* Every variable keeps its type, and a key has a leader exactly while that
   caller is inside the fetch (installation_token_cache.go:60-72). *)
THEOREM TypeCorrect == Spec => []TypeOK
<1>1. IInv => TypeOK
  BY DEF IInv
<1> QED BY <1>1, Invariance, PTL

(* However many callers miss together and however fetches end, no two are inside
   a fetch of the same key (installation_token_cache.go:60-72). *)
THEOREM OneMintPerKeyHolds == Spec => []OneMintPerKey
<1>1. IInv => OneMintPerKey
  BY LeaderIsAlone DEF OneMintPerKey
<1> QED BY <1>1, Invariance, PTL

(* A served token outlives the safety margin, counted from when its caller asked
   (installation_token_cache.go:22-25). *)
THEOREM ServedIsFreshHolds == Spec => []ServedIsFresh
<1>1. IInv => ServedIsFresh
  BY DEF IInv, CallInv, ServedInv, ServedIsFresh
<1> QED BY <1>1, Invariance, PTL

(* A token is served only for the project, tool, caller type and account it was
   minted for (broker_dependencies.go:158-168). *)
THEOREM ServedFitsRequestHolds == Spec => []ServedFitsRequest
<1>1. IInv => ServedFitsRequest
  BY DEF IInv, CallInv, ServedInv, Good, Key, CacheKey, ServedFitsRequest
<1> QED BY <1>1, Invariance, PTL

(* Who is served was entitled to it when its call arrived, whatever is archived,
   revoked or expires since (broker_token.go:68-83, agent_session.go:86-103). *)
THEOREM ServedIsEntitledHolds == Spec => []ServedIsEntitled
<1>1. IInv => ServedIsEntitled
  BY DEF IInv, CallInv, CheckedInv, Served, ServedIsEntitled
<1> QED BY <1>1, Invariance, PTL
=============================================================================
