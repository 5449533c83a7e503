-------------------------- MODULE MCTargetRouter --------------------------
(***************************************************************************)
(* TargetRouter with one alias of a remote host, written in both ways, a   *)
(* handle bound to it that a remote spawn left without a pane, a local     *)
(* handle, and an override that gives the alias its host only.  A call on   *)
(* the remote handle finds it with or without its pane.                    *)
(***************************************************************************)
EXTENDS TargetRouter

CONSTANTS gpu, far, h1, h2, h3

MCOverrides == [a \in {gpu} |-> [host |-> far, bin |-> Unset]]
MCBoundTo == [h \in {h1, h2} |-> IF h = h2 THEN Local ELSE Ssh(gpu)]
MCProvisional == {h1}

ByName(form, alias, op) ==
  [by |-> "name", name |-> [form |-> form, alias |-> alias], handle |-> h1, op |-> op]
ByHandle(h, op) == [ByName("blank", NoAlias, op) EXCEPT !.by = "handle", !.handle = h]

MCRequests ==
  {ByName("alias", gpu, "spawn"), ByName("ssh", gpu, "spawn"),
   ByName("blank", NoAlias, "look"), ByName("local", NoAlias, "list"),
   ByHandle(h1, "read"), ByHandle(h1, "use"), ByHandle(h3, "use")}

(* A sound host; the ways it may be wrong, one or two at a time.           *)
MCSound == [up |-> TRUE, zellij |-> "local_bin", tmux |-> TRUE, helper |-> "attached",
            plugin |-> "running"]

MCHostStates ==
  {MCSound,
   [MCSound EXCEPT !.up = FALSE],
   [MCSound EXCEPT !.zellij = "path"],
   [MCSound EXCEPT !.zellij = "none", !.tmux = FALSE, !.helper = "none", !.plugin = "absent"],
   [MCSound EXCEPT !.plugin = "stopped", !.helper = "none"]}

=============================================================================
