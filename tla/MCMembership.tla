---------------------------- MODULE MCMembership ----------------------------
(***************************************************************************)
(* Small instances of Membership for TLC.                                  *)
(***************************************************************************)
EXTENDS Membership, TLC

CONSTANTS alice, bob, carol, r1, r2, r3, i1, i2

MCInitialRole == (alice :> "owner") @@ (bob :> "owner") @@ (carol :> "none")

Ask(kind, by, on, newRole) == [kind |-> kind, by |-> by, on |-> on, role |-> newRole]

\* The two owners change each other and themselves; an owner and the invited user deal
\* with invitations.
MCOps ==
    {Ask("role", by, on, newRole) :
        by \in {alice, bob}, on \in {alice, bob}, newRole \in {"admin", "owner"}}
    \cup {Ask("remove", by, on, "none") : by \in {alice, bob}, on \in User}
    \cup {Ask("account", alice, Free, "none"), Ask("organization", bob, Free, "none"),
          Ask("invite", alice, Free, "none")}
    \cup {Ask("accept", by, i, "none") : by \in {carol, bob}, i \in Invitation}
    \cup {Ask("revoke", by, i, "none") : by \in {alice, bob}, i \in Invitation}

MCSymmetry == Permutations(Request)
=============================================================================
