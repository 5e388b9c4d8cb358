------------------------- MODULE PipelineRefinement -------------------------
(***************************************************************************)
(* The message pipeline implements ThreadContract: the exchange a message  *)
(* opens is as far as its handler's pc and the messages table say.         *)
(***************************************************************************)
EXTENDS MessagePipeline

Saved(who, m) == \E i \in DOMAIN thread[AddressOf[m]] :
                    thread[AddressOf[m]][i] = By(who, m)

MessagePhase(m) ==
    CASE Saved("ai", m) -> "answered"
      [] ~Saved("ai", m) /\ pc[m] \in PastSave -> "recorded"
      [] ~Saved("ai", m) /\ pc[m] \in Settled \cup {"apologising"} -> "abandoned"
      [] OTHER -> "open"

StaffPhase(s) ==
    CASE Saved("staff", s) -> "written"
      [] ~Saved("staff", s) /\ staffPc[s] = "lost" -> "abandoned"
      [] OTHER -> "open"

phaseBar == [m \in Messages \cup Replies |->
               IF m \in Messages THEN MessagePhase(m) ELSE StaffPhase(m)]

Contract == INSTANCE ThreadContract WITH phase <- phaseBar

\* The pipeline keeps the contract: recorded once, answered once, in order,
\* never after it was abandoned (the whole of the stage order in
\* src/pipeline/index.ts and the webhook handlers around it).
KeepsContract == Contract!TSpec
=============================================================================
