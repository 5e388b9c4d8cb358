--------------------------- MODULE MCStaffAccounts ---------------------------
(***************************************************************************)
(* Small instances of the staff accounts for TLC.                          *)
(***************************************************************************)
EXTENDS StaffAccounts

CONSTANTS founder, ada

Strict == [mode |-> "instant", approval |-> TRUE]
Lenient == [mode |-> "grace", approval |-> FALSE]
MCPolicies == {Strict, Lenient}
=============================================================================
