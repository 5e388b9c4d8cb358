--------------------------- MODULE ThreadContract ---------------------------
(***************************************************************************)
(* What the message path promises about a conversation's history, whatever *)
(* the AI, the PMS and the channels do: a guest message is recorded at     *)
(* most once, answered at most once and only after it was recorded, an     *)
(* abandoned message never shows up later, nothing is rewritten.           *)
(***************************************************************************)
EXTENDS Naturals, Sequences

CONSTANTS Messages, Replies, Channels, AddressOf

\* Every message and reply belongs to one conversation.
Addressed == AddressOf \in [Messages \cup Replies -> Channels]

VARIABLES
    thread,   \* per conversation, what was said, in order
    phase     \* how far the exchange opened by a message has come

tvars == <<thread, phase>>

Phases == {"open", "recorded", "answered", "abandoned", "written"}
Said(who, m) == [by |-> who, of |-> m]
Say(who, m) ==
    thread' = [thread EXCEPT ![AddressOf[m]] = Append(@, Said(who, m))]
Advance(m, from, to) == phase[m] \in from /\ phase' = [phase EXCEPT ![m] = to]

TInit == thread = [c \in Channels |-> <<>>] /\ phase = [m \in Messages \cup Replies |-> "open"]

Record(m) == Advance(m, {"open"}, "recorded") /\ Say("guest", m)
Answer(m) == Advance(m, {"recorded"}, "answered") /\ Say("ai", m)
StaffWrites(s) == Advance(s, {"open"}, "written") /\ Say("staff", s)

\* A send failure, a failed AI call or a crash abandons any number of
\* exchanges at once, answered ones excepted.
Abandon ==
    /\ phase' \in [Messages \cup Replies -> Phases]
    /\ \A m \in Messages \cup Replies :
          phase'[m] # phase[m] => phase[m] \in {"open", "recorded"} /\ phase'[m] = "abandoned"
    /\ UNCHANGED thread

TNext ==
    \/ \E m \in Messages : Record(m) \/ Answer(m)
    \/ \E s \in Replies : StaffWrites(s)
    \/ Abandon

TSpec == TInit /\ [][TNext]_tvars

-----------------------------------------------------------------------------
\* Nothing is said twice: one row per guest message, per AI answer, per
\* staff reply.
SaidOnce ==
    \A c \in Channels : \A i, j \in DOMAIN thread[c] :
        thread[c][i] = thread[c][j] => i = j

\* An AI answer comes after the message it answers, in the same conversation.
AnswersFollow ==
    \A c \in Channels : \A i \in DOMAIN thread[c] :
        thread[c][i].by = "ai" =>
            \E j \in 1 .. (i - 1) : thread[c][j] = Said("guest", thread[c][i].of)
=============================================================================
