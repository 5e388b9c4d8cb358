------------------------------- MODULE MCApps -------------------------------
(***************************************************************************)
(* A small instance of the apps for TLC: the local AI, discovered before   *)
(* OpenAI, a configuration with its key, one with a wrong key, and none.   *)
(***************************************************************************)
EXTENDS Apps, TLC

CONSTANTS local, openai, right, wrong, blank, r1, r2

AsDiscovered == <<local, openai>>
Creatable == local :> Configs @@ openai :> {right, wrong}
Valid == local :> Configs @@ openai :> {right}

SymmetricRequests == Permutations(Requests)
=============================================================================
