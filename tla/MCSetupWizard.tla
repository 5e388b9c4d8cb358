---------------------------- MODULE MCSetupWizard ----------------------------
(***************************************************************************)
(* Small instances of the setup wizard for TLC.                            *)
(***************************************************************************)
EXTENDS SetupWizard, TLC

CONSTANTS t1, t2, policy, contact, e1

MCCategories == <<policy, contact>>
MCOneCategory == <<policy>>
TabSymmetry == Permutations(Tabs)
=============================================================================
