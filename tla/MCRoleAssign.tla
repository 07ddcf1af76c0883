----------------------------- MODULE MCRoleAssign -----------------------------
(* Small instances of RoleAssign for TLC. *)
EXTENDS RoleAssign

CONSTANTS menu, users

TwoRoles == {menu, users}

\* Dragging one of them only, and disabling the other one, keeps the instance
\* small.
OnlyMenu == {menu}
OnlyUsers == {users}
=============================================================================
