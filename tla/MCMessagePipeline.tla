------------------------- MODULE MCMessagePipeline -------------------------
(***************************************************************************)
(* Small instances of the message path for TLC.                            *)
(***************************************************************************)
EXTENDS PipelineRefinement, TLC

CONSTANTS m1, m2, m3, s1, c1, g1, g2

\* Everything on one conversation.
OneAddress == [x \in Messages \cup Replies |-> c1]

\* A phone channel, whose address names g1, and one that names nobody.
OnPhone == [c \in Channels |-> g1]
Anonymous == [c \in Channels |-> NoGuest]

SymmetricMessages == Permutations(Messages)
=============================================================================
