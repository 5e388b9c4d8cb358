------------------------------ MODULE MCPmsSync ------------------------------
(***************************************************************************)
(* Small instances of the PMS synchronisation for TLC.                     *)
(***************************************************************************)
EXTENDS PmsSync

CONSTANTS b1

\* A booking with a room, and cancelled without one: every part of a revision
\* differs, so that a mixture of the two shows.
Revision(status, stay, details) == [status |-> status, stay |-> stay, details |-> details]
MCRevisions ==
    {Revision("confirmed", "room", "d1"), Revision("cancelled", "no room", "d2")}
=============================================================================
