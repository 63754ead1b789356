------------------------------- MODULE MCTurn -------------------------------
(* An instance of Turn for TLC. *)
EXTENDS Turn, TLC

CONSTANTS parent, child, k

MCPrincipals == {parent, child}

Op(effect, external, reversible, trusted, causes, horizon) ==
    [effect |-> effect, external |-> external, reversible |-> reversible,
     trusted |-> trusted, causes |-> causes, horizon |-> horizon]

(* An untrusted external read that starts the child, an external write, and *)
(* one that also starts the parent's own next context.                      *)
MCManifest ==
    [fetch_spawn |-> Op("read", TRUE, "yes", FALSE, child, 1),
     send |-> Op("write", TRUE, "unset", FALSE, Nobody, 0),
     send_later |-> Op("write", TRUE, "unset", FALSE, parent, 1)]

MCOps == DOMAIN MCManifest

(* The parent reads and writes; the child, which reads nothing, writes. *)
MCoptable == parent :> {"fetch_spawn", "send_later"} @@ child :> {"send"}

(* The parent's agent retries under a key, and the parent's grant moves. *)
MCsupplied == parent :> {k} @@ child :> {}
MCGrants == parent :> {"none", "in-loop", "on-loop"} @@ child :> {"on-loop"}

(* The child's broker is a full skew ahead. *)
MCOffset == parent :> 0 @@ child :> 1
=============================================================================
