--------------------------- MODULE MCAdminApproval ---------------------------
(* AdminApproval on small instances: two people, one agent, two goroutines. *)
EXTENDS AdminApproval, TLC

CONSTANTS alice, bob, p, bad

Add(who, id)     == [requester |-> who, op |-> "add", id |-> id]
Archive(who, id) == [requester |-> who, op |-> "archive", id |-> id]

(* Two operators ask for the same project. *)
TwoAdds == {Add(alice, p), Add(bob, p)}

AddAndArchive == {Add(alice, p), Archive(bob, p)}

WorkerSymmetry == Permutations(Workers)
=============================================================================
