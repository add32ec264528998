------------------------------- MODULE Courier -------------------------------
(***************************************************************************)
(* What both directions of the D-Mail bridge promise for each published    *)
(* message, whatever happens to daemons, leases, callbacks and calls: it   *)
(* is delivered a bounded number of times, it is acknowledged only when    *)
(* nobody is owed it any more, and it is given up only when every delivery *)
(* was used.  DMailInbound owes a task to an agent's outbox; DMailOutbound *)
(* owes a result to a Slack thread.                                        *)
(***************************************************************************)
EXTENDS Naturals, Sequences

CONSTANT MaxAttempts   \* deliveries before a message is dead-lettered

VARIABLES
  state,   \* message -> "open", "acked" or "dead"
  tries,   \* message -> deliveries so far
  owed     \* messages that have not reached their reader yet

vars == <<state, tries, owed>>

Open(i) == i \in DOMAIN state /\ state[i] = "open"

Init ==
  /\ state = << >>
  /\ tries = << >>
  /\ owed = {}

(* Some messages have nothing for their reader. *)
Post ==
  /\ state' = Append(state, "open")
  /\ tries' = Append(tries, 0)
  /\ owed' \in {owed, owed \cup {Len(state) + 1}}

Attempt(i) ==
  /\ Open(i)
  /\ tries[i] < MaxAttempts
  /\ tries' = [tries EXCEPT ![i] = @ + 1]
  /\ UNCHANGED <<state, owed>>

(* A callback that lost its lease may still do its work, so a message can
   arrive after it was given up; it never arrives twice. *)
Arrive(i) ==
  /\ i \in owed
  /\ owed' = owed \ {i}
  /\ UNCHANGED <<state, tries>>

Acknowledge(i) ==
  /\ Open(i)
  /\ tries[i] > 0
  /\ i \notin owed
  /\ state' = [state EXCEPT ![i] = "acked"]
  /\ UNCHANGED <<tries, owed>>

(* The end of a daemon gives up all it held. *)
GiveUp(S) ==
  /\ S # {}
  /\ \A i \in S : Open(i) /\ tries[i] = MaxAttempts
  /\ state' = [i \in DOMAIN state |-> IF i \in S THEN "dead" ELSE state[i]]
  /\ UNCHANGED <<tries, owed>>

Next ==
  \/ Post
  \/ \E i \in DOMAIN state : Attempt(i) \/ Arrive(i) \/ Acknowledge(i)
  \/ \E S \in SUBSET DOMAIN state : GiveUp(S)

Spec == Init /\ [][Next]_vars
=============================================================================
