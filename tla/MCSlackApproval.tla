--------------------------- MODULE MCSlackApproval ---------------------------
(* SlackApproval on small instances: two people, one enrolled agent, two
   gateway instances. *)
EXTENDS SlackApproval, TLC

CONSTANTS alice, bob, bot, key1, key2

Mail(kind, who, actor, initiating, source, key, body) ==
  [kind |-> kind, requester |-> who, actor |-> actor, initiating |-> initiating,
   source |-> source, parent |-> key, body |-> body]

(* A daemon that an AI agent set going. *)
Laundered == Mail("convergence", alice, "workspace-daemon", "ai-agent", "env", key1, 1)
Spoofed   == Mail("convergence", alice, "human-operator", "", "broker", key1, 1)
(* The admin button the handler's own tests click. *)
Admin     == Mail("admin_mutation", alice, "human-operator", "", "env", key2, 1)
(* What buildAdminApprovalDMail writes. *)
AsBuilt   == Mail("admin_mutation", alice, "human-operator", "", "env_attested", key2, 1)

BothKinds == {Laundered, Spoofed, Admin}
AsBuiltMails == {AsBuilt}

Symmetry == Permutations(Workers) \cup Permutations(Instances)
=============================================================================
