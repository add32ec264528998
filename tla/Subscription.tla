---------------------------- MODULE Subscription ----------------------------
(***************************************************************************)
(* One pull subscription of Pub/Sub, as tofu/subscriptions.tf declares the *)
(* two of the D-Mail bridge: at-least-once delivery, a lease per delivery, *)
(* and a dead-letter topic after max_delivery_attempts.  A topic is the    *)
(* sequence of everything published; each message carries its state in the *)
(* subscription.                                                           *)
(***************************************************************************)
EXTENDS Naturals, Sequences

CONSTANTS
  MaxAttempts,  \* max_delivery_attempts
  Nobody        \* no worker, no mail

ASSUME AttemptsAssumption == MaxAttempts \in Nat \ {0}
ASSUME NoIndexAssumption == Nobody \notin Nat      \* a worker holds an index or Nobody

Fresh(mail) == [mail |-> mail, at |-> "queued", by |-> Nobody, tries |-> 0]

Messages(Mails, Holders) ==
  [mail : Mails, at : {"queued", "leased", "acked", "dead"},
   by : Holders \cup {Nobody}, tries : 0..MaxAttempts]

\* What the Courier promises to end: open, acked or dead.
Standing(m) == IF m.at \in {"queued", "leased"} THEN "open" ELSE m.at
Settled(m) == m.at \in {"acked", "dead"}

Leased(t, i, w) == [t EXCEPT ![i].at = "leased", ![i].by = w, ![i].tries = @ + 1]
Released(t, i, at) == [t EXCEPT ![i].at = at, ![i].by = Nobody]

OneTryOnly(m) == "dead"                                                  \* mutant
\* Where a message goes after a Nack or when its lease lapses.
AfterNack(m) == IF m.tries >= MaxAttempts THEN "dead" ELSE "queued"

\* An Ack or Nack has no effect once the lease is gone.
Answered(t, i, w, ok) ==
  IF t[i].by = w THEN Released(t, i, IF ok THEN "acked" ELSE AfterNack(t[i])) ELSE t
=============================================================================
