------------------------ MODULE ThreadContract_proofs ------------------------
(***************************************************************************)
(* The contract keeps its two promises for any messages and conversations. *)
(***************************************************************************)
EXTENDS ThreadContract, SequenceTheorems, TLAPS

Participants == {"guest", "ai", "staff"}
Parties == Messages \cup Replies
Lines == [by : Participants, of : Parties]

TType ==
    /\ thread \in [Channels -> Seq(Lines)]
    /\ phase \in [Parties -> Phases]

\* What a line says about the phase of its exchange, and back.
LinesMatchPhases ==
    /\ \A c \in Channels : \A i \in DOMAIN thread[c] :
          /\ AddressOf[thread[c][i].of] = c
          /\ thread[c][i].by = "guest" => phase[thread[c][i].of] # "open"
          /\ thread[c][i].by = "ai" => phase[thread[c][i].of] = "answered"
          /\ thread[c][i].by = "staff" => phase[thread[c][i].of] = "written"
    /\ \A m \in Messages : phase[m] = "recorded" =>
          \E j \in DOMAIN thread[AddressOf[m]] : thread[AddressOf[m]][j] = Said("guest", m)

TInv == TType /\ LinesMatchPhases /\ SaidOnce /\ AnswersFollow

LEMMA TInvInit == TInit => TInv
  BY DEF TInit, TInv, TType, Phases, Parties, LinesMatchPhases, SaidOnce, AnswersFollow

LEMMA LinesHaveParties ==
    ASSUME TType
    PROVE  \A c \in Channels : \A i \in DOMAIN thread[c] : thread[c][i].of \in Parties
  <1> SUFFICES ASSUME NEW c \in Channels, NEW i \in DOMAIN thread[c]
               PROVE  thread[c][i].of \in Parties
    OBVIOUS
  <1>1. thread[c] \in Seq(Lines)
    BY DEF TType
  <1>2. thread[c][i] \in Lines
    BY <1>1
  <1>3. QED BY <1>2 DEF Lines

\* One more line on one conversation: the old lines keep their places.
LEMMA OneMoreLine ==
    ASSUME Addressed, TType, NEW who \in Participants, NEW m \in Parties, Say(who, m)
    PROVE  LET a == AddressOf[m]
               n == Len(thread[a])
           IN  /\ n \in Nat
               /\ DOMAIN thread[a] = 1 .. n
               /\ thread' \in [Channels -> Seq(Lines)]
               /\ DOMAIN thread'[a] = 1 .. (n + 1)
               /\ thread'[a][n + 1] = Said(who, m)
               /\ \A i \in 1 .. n : thread'[a][i] = thread[a][i]
               /\ \A c \in Channels \ {a} : thread'[c] = thread[c]
  <1> DEFINE a == AddressOf[m]
  <1>1. a \in Channels
    BY DEF Addressed, Parties
  <1>2. thread[a] \in Seq(Lines) /\ Said(who, m) \in Lines
    BY <1>1 DEF TType, Lines, Said
  <1>3. thread'[a] = Append(thread[a], Said(who, m))
    BY <1>1 DEF Say, TType
  <1>4. thread' \in [Channels -> Seq(Lines)]
    BY <1>1, <1>2 DEF Say, TType
  <1>5. QED BY <1>1, <1>2, <1>3, <1>4 DEF Say, TType

\* A line not yet there may be added, if an answer has its message before it.
LEMMA NewLineKeepsOrder ==
    ASSUME Addressed, TInv, NEW who \in Participants, NEW m \in Parties, Say(who, m),
           \A i \in DOMAIN thread[AddressOf[m]] : thread[AddressOf[m]][i] # Said(who, m),
           who = "ai" => \E j \in DOMAIN thread[AddressOf[m]] :
                            thread[AddressOf[m]][j] = Said("guest", m)
    PROVE  SaidOnce' /\ AnswersFollow'
  <1> DEFINE a == AddressOf[m]
             n == Len(thread[a])
  <1>1. /\ n \in Nat
        /\ DOMAIN thread[a] = 1 .. n
        /\ DOMAIN thread'[a] = 1 .. (n + 1)
        /\ thread'[a][n + 1] = Said(who, m)
        /\ \A i \in 1 .. n : thread'[a][i] = thread[a][i]
        /\ \A c \in Channels \ {a} : thread'[c] = thread[c]
    BY OneMoreLine DEF TInv
  <1>2. \A i, j \in 1 .. n : thread[a][i] = thread[a][j] => i = j
    BY <1>1 DEF Addressed, TInv, SaidOnce, Parties
  <1> HIDE DEF n, a
  <1>3. ASSUME NEW c \in Channels, NEW i \in DOMAIN thread'[c], NEW j \in DOMAIN thread'[c],
               thread'[c][i] = thread'[c][j]
        PROVE  i = j
    <2>1. CASE c # a
      BY <1>1, <1>3, <2>1 DEF TInv, SaidOnce
    <2>2. CASE c = a
      <3>1. i \in 1 .. (n + 1) /\ j \in 1 .. (n + 1)
        BY <1>1, <2>2
      <3>2. CASE i \in 1 .. n /\ j \in 1 .. n
        BY <1>1, <1>2, <1>3, <2>2, <3>2
      <3>3. CASE i = n + 1 /\ j \in 1 .. n
        BY <1>1, <1>3, <2>2, <3>3 DEF a
      <3>4. CASE j = n + 1 /\ i \in 1 .. n
        BY <1>1, <1>3, <2>2, <3>4 DEF a
      <3>5. QED BY <1>1, <3>1, <3>2, <3>3, <3>4
    <2>3. QED BY <2>1, <2>2
  <1>4. ASSUME NEW c \in Channels, NEW i \in DOMAIN thread'[c], thread'[c][i].by = "ai"
        PROVE  \E j \in 1 .. (i - 1) : thread'[c][j] = Said("guest", thread'[c][i].of)
    <2>1. CASE c # a
      BY <1>1, <1>4, <2>1 DEF TInv, AnswersFollow
    <2>2. CASE c = a /\ i \in 1 .. n
      <3>1. PICK j \in 1 .. (i - 1) : thread[a][j] = Said("guest", thread[a][i].of)
        BY <1>1, <1>4, <2>2 DEF TInv, AnswersFollow
      <3>2. j \in 1 .. n
        BY <1>1, <2>2
      <3>3. QED BY <1>1, <2>2, <3>1, <3>2
    <2>3. CASE c = a /\ i = n + 1
      <3>1. who = "ai" /\ thread'[a][i].of = m
        BY <1>1, <1>4, <2>3 DEF Said
      <3>2. PICK j \in 1 .. n : thread[a][j] = Said("guest", m)
        BY <1>1, <3>1 DEF a
      <3>3. QED BY <1>1, <2>3, <3>1, <3>2
    <2>4. QED BY <1>1, <2>1, <2>2, <2>3
  <1>5. QED BY <1>3, <1>4 DEF SaidOnce, AnswersFollow

\* The phase moves with the line.
LEMMA NewLineKeepsPhases ==
    ASSUME Addressed, TInv, NEW who \in Participants, NEW m \in Parties, Say(who, m),
           NEW to \in Phases, phase' = [phase EXCEPT ![m] = to],
           \/ who = "guest" /\ phase[m] = "open" /\ to = "recorded"
           \/ who = "ai" /\ phase[m] = "recorded" /\ to = "answered"
           \/ who = "staff" /\ phase[m] = "open" /\ to = "written"
    PROVE  TType' /\ LinesMatchPhases'
  <1> DEFINE a == AddressOf[m]
             n == Len(thread[a])
  <1>1. /\ n \in Nat
        /\ DOMAIN thread[a] = 1 .. n
        /\ thread' \in [Channels -> Seq(Lines)]
        /\ DOMAIN thread'[a] = 1 .. (n + 1)
        /\ thread'[a][n + 1] = Said(who, m)
        /\ \A i \in 1 .. n : thread'[a][i] = thread[a][i]
        /\ \A c \in Channels \ {a} : thread'[c] = thread[c]
    BY OneMoreLine DEF TInv
  <1>2. TType'
    BY <1>1 DEF TInv, TType
  <1>3. phase'[m] = to /\ \A p \in Parties \ {m} : phase'[p] = phase[p]
    BY DEF TInv, TType
  <1>4. a \in Channels
    BY DEF Addressed, Parties
  <1>5. \A c \in Channels : \A i \in DOMAIN thread[c] : thread[c][i].of \in Parties
    BY LinesHaveParties DEF TInv
  <1> DEFINE Fits(c, line, ph) ==
                 /\ AddressOf[line.of] = c
                 /\ line.by = "guest" => ph # "open"
                 /\ line.by = "ai" => ph = "answered"
                 /\ line.by = "staff" => ph = "written"
  <1>6. ASSUME NEW c \in Channels, NEW i \in DOMAIN thread[c]
        PROVE  Fits(c, thread[c][i], phase'[thread[c][i].of])
    <2>1. Fits(c, thread[c][i], phase[thread[c][i].of])
      BY DEF TInv, LinesMatchPhases
    <2>2. QED BY <1>3, <1>5, <2>1
  <1>7. Fits(a, Said(who, m), to)
    <2>1. Said(who, m).by = who /\ Said(who, m).of = m
      BY DEF Said
    <2>2. CASE who = "guest" /\ to = "recorded"
      BY <2>1, <2>2
    <2>3. CASE who = "ai" /\ to = "answered"
      BY <2>1, <2>3
    <2>4. CASE who = "staff" /\ to = "written"
      BY <2>1, <2>4
    <2>5. QED BY <2>2, <2>3, <2>4
  <1>8. ASSUME NEW c \in Channels, NEW i \in DOMAIN thread'[c]
        PROVE  Fits(c, thread'[c][i], phase'[thread'[c][i].of])
    <2>1. CASE c # a
      BY <1>1, <1>6, <2>1
    <2>2. CASE c = a /\ i \in 1 .. n
      BY <1>1, <1>4, <1>6, <2>2
    <2>3. CASE c = a /\ i = n + 1
      <3>1. thread'[c][i].of = m
        BY <1>1, <2>3 DEF Said
      <3>2. QED BY <1>1, <1>3, <1>7, <2>3, <3>1
    <2>4. QED BY <1>1, <2>1, <2>2, <2>3
  <1>9. ASSUME NEW p \in Messages, phase'[p] = "recorded"
        PROVE  \E j \in DOMAIN thread'[AddressOf[p]] :
                  thread'[AddressOf[p]][j] = Said("guest", p)
    <2>0. p \in Parties /\ AddressOf[p] \in Channels
      BY DEF Addressed, Parties
    <2>1. CASE p = m
      BY <1>1, <1>3, <1>9, <2>1
    <2>2. CASE p # m
      <3>1. PICK j \in DOMAIN thread[AddressOf[p]] : thread[AddressOf[p]][j] = Said("guest", p)
        BY <1>3, <1>9, <2>0, <2>2 DEF TInv, LinesMatchPhases
      <3>2. CASE AddressOf[p] = a
        <4>1. j \in 1 .. n /\ thread[a][j] = Said("guest", p)
          BY <1>1, <3>1, <3>2
        <4>2. thread'[a][j] = Said("guest", p) /\ j \in DOMAIN thread'[a]
          BY <1>1, <4>1
        <4>3. QED BY <3>2, <4>2
      <3>3. CASE AddressOf[p] # a
        BY <1>1, <2>0, <3>1, <3>3
      <3>4. QED BY <3>2, <3>3
    <2>3. QED BY <2>1, <2>2
  <1>10. QED BY <1>2, <1>8, <1>9 DEF LinesMatchPhases

LEMMA TInvStep == ASSUME Addressed PROVE TInv /\ [TNext]_tvars => TInv'
  <1> SUFFICES ASSUME TInv, [TNext]_tvars PROVE TInv'
    OBVIOUS
  <1>0. \A m \in Parties : AddressOf[m] \in Channels
    BY DEF Addressed, Parties
  <1>1. ASSUME NEW m \in Messages, Record(m) PROVE TInv'
    <2>1. phase[m] = "open" /\ phase' = [phase EXCEPT ![m] = "recorded"] /\ Say("guest", m)
      BY <1>1 DEF Record, Advance
    <2>2. \A i \in DOMAIN thread[AddressOf[m]] : thread[AddressOf[m]][i] # Said("guest", m)
      BY <1>0, <2>1 DEF TInv, LinesMatchPhases, Said, Parties
    <2>3. QED
      BY <2>1, <2>2, NewLineKeepsOrder, NewLineKeepsPhases DEF TInv, Participants, Parties, Phases
  <1>2. ASSUME NEW m \in Messages, Answer(m) PROVE TInv'
    <2>1. phase[m] = "recorded" /\ phase' = [phase EXCEPT ![m] = "answered"] /\ Say("ai", m)
      BY <1>2 DEF Answer, Advance
    <2>2. \A i \in DOMAIN thread[AddressOf[m]] : thread[AddressOf[m]][i] # Said("ai", m)
      BY <1>0, <2>1 DEF TInv, LinesMatchPhases, Said, Parties
    <2>3. \E j \in DOMAIN thread[AddressOf[m]] : thread[AddressOf[m]][j] = Said("guest", m)
      BY <2>1 DEF TInv, LinesMatchPhases
    <2>4. QED
      BY <2>1, <2>2, <2>3, NewLineKeepsOrder, NewLineKeepsPhases
      DEF TInv, Participants, Parties, Phases
  <1>3. ASSUME NEW s \in Replies, StaffWrites(s) PROVE TInv'
    <2>1. phase[s] = "open" /\ phase' = [phase EXCEPT ![s] = "written"] /\ Say("staff", s)
      BY <1>3 DEF StaffWrites, Advance
    <2>2. \A i \in DOMAIN thread[AddressOf[s]] : thread[AddressOf[s]][i] # Said("staff", s)
      BY <1>0, <2>1 DEF TInv, LinesMatchPhases, Said, Parties
    <2>3. QED
      BY <2>1, <2>2, NewLineKeepsOrder, NewLineKeepsPhases DEF TInv, Participants, Parties, Phases
  <1>4. CASE Abandon
    <2>1. \A c \in Channels : \A i \in DOMAIN thread[c] : thread[c][i].of \in Parties
      BY LinesHaveParties DEF TInv
    <2>2. thread' = thread
      BY <1>4 DEF Abandon
    <2>3. \A p \in Parties :
             phase'[p] # phase[p]
               => phase[p] \in {"open", "recorded"} /\ phase'[p] = "abandoned"
      BY <1>4 DEF Abandon, Parties
    <2>4. ASSUME NEW c \in Channels, NEW i \in DOMAIN thread[c], NEW p \in Parties,
                 p = thread[c][i].of
          PROVE  /\ AddressOf[p] = c
                 /\ thread[c][i].by = "guest" => phase'[p] # "open"
                 /\ thread[c][i].by = "ai" => phase'[p] = "answered"
                 /\ thread[c][i].by = "staff" => phase'[p] = "written"
      BY <2>3, <2>4 DEF TInv, LinesMatchPhases
    <2>5. \A p \in Messages : phase'[p] = "recorded" => phase[p] = "recorded"
      BY <2>3 DEF Parties
    <2>6. LinesMatchPhases'
      BY <2>1, <2>2, <2>4, <2>5 DEF TInv, LinesMatchPhases
    <2>7. TType' /\ SaidOnce' /\ AnswersFollow'
      BY <1>4 DEF Abandon, TInv, TType, SaidOnce, AnswersFollow, Parties
    <2>8. QED BY <2>6, <2>7 DEF TInv
  <1>5. CASE UNCHANGED tvars
    BY <1>5 DEF tvars, TInv, TType, LinesMatchPhases, SaidOnce, AnswersFollow
  <1>6. QED BY <1>1, <1>2, <1>3, <1>4, <1>5 DEF TNext

\* No guest message, AI answer or staff reply is said twice.
THEOREM NothingSaidTwice == ASSUME Addressed PROVE TSpec => []SaidOnce
  <1>1. TInv => SaidOnce
    BY DEF TInv
  <1>2. QED BY <1>1, TInvInit, TInvStep, PTL DEF TSpec

\* An AI answer always comes after the guest message it answers.
THEOREM AnswersComeAfter == ASSUME Addressed PROVE TSpec => []AnswersFollow
  <1>1. TInv => AnswersFollow
    BY DEF TInv
  <1>2. QED BY <1>1, TInvInit, TInvStep, PTL DEF TSpec
=============================================================================
