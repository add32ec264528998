---------------------------- MODULE MCTokenBroker ----------------------------
(* An AI agent and its workspace daemon, under the daemon's account, on two
   connections.  The agent also asks for a tool its session is not for, and
   somebody who is no operator asks too. *)
EXTENDS TokenBroker, TLC
CONSTANTS c1, c2, s1, shop, daemon, guest

Asks(type, email, tool, session, until) ==
  [project |-> shop, tool |-> tool, type |-> type, email |-> email, session |-> session,
   until |-> until]
Asked == {Asks("ai-agent", daemon, "paintress", s1, 9),
          Asks("ai-agent", daemon, "sightjack", s1, 9),
          Asks("workspace-daemon", daemon, "paintress", Nobody, 3),
          Asks("human-operator", guest, "amadeus", Nobody, 9)}
Listings == [type \in CallerTypes |-> IF type = "workspace-daemon" THEN {daemon} ELSE {}]
SessionsFor == s1 :> [email |-> daemon, project |-> shop, tool |-> "paintress", ends |-> 2]
=============================================================================
