--------------------------- MODULE WebChat_proofs ---------------------------
(***************************************************************************)
(* The cap on verification attempts of the web chat, for any number of     *)
(* sessions, forms, messages, guests and days.                             *)
(***************************************************************************)
EXTENDS WebChat, FiniteSetTheorems, TLAPS

-----------------------------------------------------------------------------
(***************************************************************************)
(* The inductive invariant: a form under way counts as an attempt already. *)
(***************************************************************************)
Forms(s) == {r \in Requests : SessionOf[r] = s}
UnderWay(s) == {r \in Forms(s) : reqPc[r] \in Waiting}

\* What the counting needs to know of a row.
HasCount(row) ==
    /\ "attempts" \in DOMAIN row /\ "status" \in DOMAIN row
    /\ row.attempts \in Nat

FormTypes ==
    /\ DOMAIN session = Sessions
    /\ reqPc \in [Requests -> ReqStages]
    /\ \A s \in Sessions : Stored(session[s]) => HasCount(session[s])

Counted(s) == session[s].attempts + Cardinality(UnderWay(s)) < MaxAttempts + Cardinality(Forms(s))

AInv == FormTypes /\ \A s \in Sessions : Stored(session[s]) => Counted(s)

-----------------------------------------------------------------------------
(***************************************************************************)
(* Forms under way.                                                        *)
(***************************************************************************)
LEMMA FormSets ==
    ASSUME NEW s
    PROVE  /\ IsFiniteSet(Forms(s)) /\ Cardinality(Forms(s)) \in Nat
           /\ IsFiniteSet(UnderWay(s)) /\ Cardinality(UnderWay(s)) \in Nat
           /\ Cardinality(UnderWay(s)) <= Cardinality(Forms(s))
  <1>1. Forms(s) \in SUBSET Requests /\ UnderWay(s) \in SUBSET Forms(s)
    BY DEF Forms, UnderWay
  <1>2. IsFiniteSet(Forms(s))
    BY <1>1, FormsAssumption, FS_Subset
  <1>3. IsFiniteSet(UnderWay(s)) /\ Cardinality(UnderWay(s)) <= Cardinality(Forms(s))
    BY <1>1, <1>2, FS_Subset
  <1>4. QED BY <1>2, <1>3, FS_CardinalityType

\* An idle form of the session leaves room for one more.
LEMMA IdleFormLeavesRoom ==
    ASSUME NEW r \in Requests, reqPc[r] \notin Waiting
    PROVE  Cardinality(UnderWay(SessionOf[r])) < Cardinality(Forms(SessionOf[r]))
  <1> DEFINE s == SessionOf[r]
  <1>1. UnderWay(s) \in SUBSET Forms(s) /\ r \in Forms(s) /\ r \notin UnderWay(s)
    BY DEF Forms, UnderWay
  <1>2. UnderWay(s) # Forms(s)
    BY <1>1
  <1>3. IsFiniteSet(Forms(s)) /\ Cardinality(UnderWay(s)) \in Nat /\ Cardinality(Forms(s)) \in Nat
        /\ Cardinality(UnderWay(s)) <= Cardinality(Forms(s))
    BY FormSets
  <1>4. Cardinality(Forms(s)) # Cardinality(UnderWay(s))
    BY <1>1, <1>2, <1>3, FS_Subset
  <1>5. QED BY <1>3, <1>4

\* A form starts.
LEMMA FormStarts ==
    ASSUME FormTypes, NEW r \in Requests, reqPc[r] \notin Waiting, NEW stage \in Waiting,
           reqPc' = [reqPc EXCEPT ![r] = stage]
    PROVE  /\ Cardinality(UnderWay(SessionOf[r])') = Cardinality(UnderWay(SessionOf[r])) + 1
           /\ \A s : s # SessionOf[r] => UnderWay(s)' = UnderWay(s)
  <1>1. UnderWay(SessionOf[r])' = UnderWay(SessionOf[r]) \cup {r}
    BY DEF UnderWay, Forms, FormTypes
  <1>2. r \notin UnderWay(SessionOf[r])
    BY DEF UnderWay
  <1>3. \A s : s # SessionOf[r] => UnderWay(s)' = UnderWay(s)
    BY DEF UnderWay, Forms, FormTypes
  <1>4. QED BY <1>1, <1>2, <1>3, FormSets, FS_AddElement

\* A form is answered.
LEMMA FormEnds ==
    ASSUME FormTypes, NEW r \in Requests, reqPc[r] \in Waiting,
           reqPc' = [reqPc EXCEPT ![r] = "idle"]
    PROVE  /\ Cardinality(UnderWay(SessionOf[r])') = Cardinality(UnderWay(SessionOf[r])) - 1
           /\ \A s : s # SessionOf[r] => UnderWay(s)' = UnderWay(s)
  <1>1. UnderWay(SessionOf[r])' = UnderWay(SessionOf[r]) \ {r}
    BY DEF UnderWay, Forms, FormTypes, Waiting
  <1>2. r \in UnderWay(SessionOf[r])
    BY DEF UnderWay, Forms
  <1>3. \A s : s # SessionOf[r] => UnderWay(s)' = UnderWay(s)
    BY DEF UnderWay, Forms, FormTypes
  <1>4. QED BY <1>1, <1>2, <1>3, FormSets, FS_RemoveElement

-----------------------------------------------------------------------------
(***************************************************************************)
(* Row writes.                                                             *)
(***************************************************************************)
\* The row is no more stored than it was and has no more attempts.
Keeps(new, row) ==
    Stored(new) => Stored(row) /\ (HasCount(row) => HasCount(new) /\ new.attempts <= row.attempts)

LEMMA RowWrites ==
    ASSUME NEW row, NEW day, NEW x
    PROVE  /\ Keeps(Touch(row, day), row)
           /\ Keeps(LinkConversation(row, x), row)
           /\ Keeps(SetCode(row, x), row)
           /\ Keeps(Deleted, row)
           /\ Keeps(row, row)
  <1>1. Keeps(row, row)
    BY DEF Keeps, HasCount
  <1>2. Keeps(Deleted, row)
    BY DEF Keeps, Deleted, Stored
  <1>3. Keeps(Touch(row, day), row)
    BY <1>1 DEF Keeps, HasCount, Stored, Touch, OnStored
  <1>4. Keeps(LinkConversation(row, x), row)
    BY <1>1 DEF Keeps, HasCount, Stored, LinkConversation, OnStored
  <1>5. Keeps(SetCode(row, x), row)
    BY <1>1 DEF Keeps, HasCount, Stored, SetCode, OnStored
  <1>6. QED BY <1>1, <1>2, <1>3, <1>4, <1>5

LEMMA MarkKeeps ==
    ASSUME NEW row, NEW b, NEW day
    PROVE  Keeps(MarkVerified(row, b, day), row)
  <1>1. CASE ~Stored(row)
    BY <1>1 DEF Keeps, MarkVerified, OnStored
  <1>2. CASE Stored(row)
    BY <1>2 DEF Keeps, HasCount, Stored, MarkVerified, OnStored
  <1>3. QED BY <1>1, <1>2

LEMMA CountsOne ==
    ASSUME NEW row, Stored(CountAttempt(row)), HasCount(row)
    PROVE  /\ Stored(row) /\ HasCount(CountAttempt(row))
           /\ CountAttempt(row).attempts = row.attempts + 1
  <1>1. Stored(row)
    BY DEF CountAttempt, OnStored
  <1>2. QED BY <1>1 DEF CountAttempt, OnStored, HasCount

-----------------------------------------------------------------------------
(***************************************************************************)
(* The steps.                                                              *)
(***************************************************************************)
LEMMA InitHolds == Init => AInv
  <1> SUFFICES ASSUME Init PROVE AInv
    OBVIOUS
  <1>1. FormTypes
    BY DEF Init, FormTypes, Stored, Unborn, ReqStages
  <1>2. \A s \in Sessions : ~Stored(session[s])
    BY DEF Init, Stored, Unborn
  <1>3. QED BY <1>1, <1>2 DEF AInv

\* A step that starts no form and counts no attempt.
LEMMA QuietStep ==
    ASSUME AInv, DOMAIN session' = Sessions, reqPc' = reqPc,
           \A s \in Sessions : Keeps(session'[s], session[s])
    PROVE  AInv'
  <1>1. FormTypes'
    BY DEF AInv, FormTypes, Keeps
  <1>2. \A s : UnderWay(s)' = UnderWay(s) /\ Forms(s)' = Forms(s)
    BY DEF UnderWay, Forms
  <1>3. ASSUME NEW s \in Sessions, Stored(session'[s])
        PROVE  Counted(s)'
    <2>1. /\ Stored(session[s]) /\ HasCount(session[s]) /\ HasCount(session'[s])
          /\ session'[s].attempts <= session[s].attempts /\ Counted(s)
      BY <1>3 DEF AInv, FormTypes, Keeps
    <2>2. Cardinality(UnderWay(s)) \in Nat /\ Cardinality(Forms(s)) \in Nat
      BY FormSets
    <2>3. QED BY <1>2, <2>1, <2>2, WebChatBoundsAssumption DEF Counted, HasCount
  <1>4. QED BY <1>1, <1>3 DEF AInv

\* The same when one row is written.
LEMMA RowStep ==
    ASSUME AInv, NEW s, NEW row, session' = [session EXCEPT ![s] = row], reqPc' = reqPc,
           Keeps(row, session[s])
    PROVE  AInv'
  <1>1. DOMAIN session' = Sessions
    BY DEF AInv, FormTypes
  <1>2. \A a \in Sessions : Keeps(session'[a], session[a])
    BY RowWrites DEF AInv, FormTypes
  <1>3. QED BY <1>1, <1>2, QuietStep

LEMMA ConnectStep ==
    ASSUME AInv, NEW s \in Sessions, Connect(s)
    PROVE  AInv'
  <1>1. PICK row : /\ session' = [session EXCEPT ![s] = row] /\ reqPc' = reqPc
                   /\ HasCount(row) /\ row.attempts = 0
    <2>1. HasCount(NewRow(now)) /\ NewRow(now).attempts = 0 /\ Stored(NewRow(now))
      BY DEF HasCount, NewRow, Stored
    <2>2. /\ HasCount(LinkConversation(NewRow(now), s))
          /\ LinkConversation(NewRow(now), s).attempts = 0
      BY <2>1 DEF HasCount, LinkConversation, OnStored
    <2>3. QED BY <2>1, <2>2 DEF Connect
  <1>2. FormTypes'
    BY <1>1 DEF AInv, FormTypes
  <1>3. \A a : UnderWay(a)' = UnderWay(a) /\ Forms(a)' = Forms(a)
    BY <1>1 DEF UnderWay, Forms
  <1>4. Counted(s)'
    <2>1. session'[s].attempts = 0
      BY <1>1 DEF AInv, FormTypes
    <2>2. QED BY <1>3, <2>1, FormSets, WebChatBoundsAssumption DEF Counted
  <1>5. \A a \in Sessions \ {s} : Stored(session'[a]) => Counted(a)'
    BY <1>1, <1>3 DEF AInv, FormTypes, Counted
  <1>6. QED BY <1>2, <1>4, <1>5 DEF AInv

\* A form is rejected, or goes to the PMS with an attempt to spare.
LEMMA SubmitStep ==
    ASSUME AInv, NEW r \in Requests, NEW method \in Methods, Submit(r, method)
    PROVE  AInv'
  <1> DEFINE s == SessionOf[r]
             Rejected == ~MayTry(s) \/ (method = "code" /\ session[s].code # "pending")
             Expired == MayTry(s) /\ method = "code" /\ session[s].code = "expired"
             row == IF Expired THEN CountAttempt(Touch(session[s], now))
                    ELSE Touch(session[s], now)
  <1>1. /\ s \in Sessions /\ reqPc[r] = "idle" /\ DOMAIN session = Sessions
        /\ Stored(session[s]) /\ HasCount(session[s]) /\ Counted(s)
        /\ reqPc \in [Requests -> ReqStages]
    BY SessionOfAssumption DEF AInv, FormTypes, Submit, Submitted, Valid
  <1>2. /\ session' = [session EXCEPT ![s] = row]
        /\ reqPc' = [reqPc EXCEPT ![r] = IF Rejected THEN "idle" ELSE method]
    BY <1>1 DEF Submit
  <1>3. /\ Stored(Touch(session[s], now)) => HasCount(Touch(session[s], now))
        /\ Stored(Touch(session[s], now)) =>
             Touch(session[s], now).attempts <= session[s].attempts
    BY <1>1, RowWrites DEF Keeps
  <1>4. Cardinality(UnderWay(s)) < Cardinality(Forms(s))
    BY <1>1, IdleFormLeavesRoom DEF Waiting
  <1>5. Cardinality(UnderWay(s)) \in Nat /\ Cardinality(Forms(s)) \in Nat
    BY FormSets
  <1>6. CASE Rejected /\ ~Expired
    <2>1. reqPc' = reqPc
      BY <1>1, <1>2, <1>6
    <2>2. row = Touch(session[s], now)
      BY <1>6
    <2> HIDE DEF row, Rejected, Expired
    <2>3. QED BY <1>2, <2>1, <2>2, RowWrites, RowStep
  <1>7. CASE Expired
    <2>1. reqPc' = reqPc
      BY <1>1, <1>2, <1>7
    <2>2. FormTypes'
      <3>1. /\ DOMAIN session' = Sessions
            /\ session'[s] = CountAttempt(Touch(session[s], now))
            /\ \A a \in Sessions \ {s} : session'[a] = session[a]
        BY <1>1, <1>2, <1>7
      <3>2. Stored(session'[s]) => HasCount(session'[s])
        <4> SUFFICES ASSUME Stored(session'[s]) PROVE HasCount(session'[s])
          OBVIOUS
        <4>1. Stored(Touch(session[s], now)) /\ HasCount(Touch(session[s], now))
          BY <1>3, <3>1 DEF CountAttempt, OnStored
        <4>2. QED BY <3>1, <4>1, CountsOne
      <3> HIDE DEF s, row, Rejected, Expired
      <3>3. QED BY <2>1, <3>1, <3>2 DEF AInv, FormTypes
    <2>3. \A a : UnderWay(a)' = UnderWay(a) /\ Forms(a)' = Forms(a)
      BY <2>1 DEF UnderWay, Forms
    <2>4. Stored(session'[s]) => Counted(s)'
      <3> SUFFICES ASSUME Stored(session'[s]) PROVE Counted(s)'
        OBVIOUS
      <3>1. session'[s] = CountAttempt(Touch(session[s], now))
        BY <1>1, <1>2, <1>7
      <3>2. /\ Stored(Touch(session[s], now)) /\ HasCount(Touch(session[s], now))
            /\ Touch(session[s], now).attempts <= session[s].attempts
        BY <1>3, <3>1 DEF CountAttempt, OnStored
      <3>3. session'[s].attempts = Touch(session[s], now).attempts + 1
        BY <3>1, <3>2, CountsOne
      <3>4. session[s].attempts < MaxAttempts
        BY <1>7 DEF MayTry
      <3> HIDE DEF s, row, Rejected, Expired
      <3>5. QED
        BY <1>1, <1>4, <1>5, <2>3, <3>2, <3>3, <3>4, WebChatBoundsAssumption DEF Counted, HasCount
    <2>5. \A a \in Sessions \ {s} : Stored(session'[a]) => Counted(a)'
      BY <1>1, <1>2, <2>3 DEF AInv, Counted
    <2>6. QED BY <2>2, <2>4, <2>5 DEF AInv
  <1>8. CASE ~Rejected
    <2>1. reqPc' = [reqPc EXCEPT ![r] = method] /\ session[s].attempts < MaxAttempts
      BY <1>2, <1>8 DEF MayTry
    <2>2. row = Touch(session[s], now)
      BY <1>8
    <2>3. method \in Waiting
      BY WebChatBoundsAssumption DEF Waiting
    <2>4. FormTypes'
      BY <1>1, <1>2, <1>3, <2>1, <2>2, <2>3 DEF AInv, FormTypes, ReqStages
    <2>5. /\ Cardinality(UnderWay(s)') = Cardinality(UnderWay(s)) + 1
          /\ \A a : a # s => UnderWay(a)' = UnderWay(a)
      BY <1>1, <2>1, <2>3, FormStarts DEF AInv, Waiting
    <2>6. \A a : Forms(a)' = Forms(a)
      BY DEF Forms
    <2>7. Stored(session'[s]) => Counted(s)'
      <3> SUFFICES ASSUME Stored(session'[s]) PROVE Counted(s)'
        OBVIOUS
      <3>1. session'[s] = Touch(session[s], now)
        BY <1>1, <1>2, <2>2
      <3>2. HasCount(session'[s]) /\ session'[s].attempts <= session[s].attempts
        BY <1>3, <3>1
      <3> HIDE DEF s, row, Rejected, Expired
      <3>3. QED
        BY <1>1, <1>4, <1>5, <2>1, <2>5, <2>6, <3>2, WebChatBoundsAssumption
        DEF Counted, HasCount
    <2>8. \A a \in Sessions \ {s} : Stored(session'[a]) => Counted(a)'
      BY <1>1, <1>2, <2>5, <2>6 DEF AInv, Counted
    <2>9. QED BY <2>4, <2>7, <2>8 DEF AInv
  <1>9. QED BY <1>6, <1>7, <1>8

LEMMA WrongCodeStep ==
    ASSUME AInv, NEW r \in Requests, WrongCode(r)
    PROVE  AInv'
  <1> DEFINE s == SessionOf[r]
             row == CountAttempt(Touch(session[s], now))
  <1>1. /\ s \in Sessions /\ reqPc[r] = "idle" /\ DOMAIN session = Sessions
        /\ HasCount(session[s]) /\ session[s].attempts < MaxAttempts
        /\ session' = [session EXCEPT ![s] = row] /\ reqPc' = reqPc
    BY SessionOfAssumption DEF AInv, FormTypes, WrongCode, Submitted, Valid, MayTry
  <1>2. Keeps(Touch(session[s], now), session[s])
    BY RowWrites
  <1>3. Cardinality(UnderWay(s)) < Cardinality(Forms(s))
    BY <1>1, IdleFormLeavesRoom DEF Waiting
  <1>4. Cardinality(UnderWay(s)) \in Nat /\ Cardinality(Forms(s)) \in Nat
    BY FormSets
  <1>5. \A a : UnderWay(a)' = UnderWay(a) /\ Forms(a)' = Forms(a)
    BY <1>1 DEF UnderWay, Forms
  <1>6. ASSUME Stored(session'[s])
        PROVE  HasCount(session'[s]) /\ Counted(s)'
    <2>1. session'[s] = row
      BY <1>1
    <2>2. /\ Stored(Touch(session[s], now)) /\ HasCount(Touch(session[s], now))
          /\ Touch(session[s], now).attempts <= session[s].attempts
      BY <1>1, <1>2, <1>6, <2>1 DEF Keeps, CountAttempt, OnStored
    <2>3. HasCount(row) /\ row.attempts = Touch(session[s], now).attempts + 1
      BY <1>6, <2>1, <2>2, CountsOne
    <2> HIDE DEF s, row
    <2>4. QED
      BY <1>1, <1>3, <1>4, <1>5, <2>1, <2>2, <2>3, WebChatBoundsAssumption DEF Counted, HasCount
  <1>7. FormTypes'
    BY <1>1, <1>6 DEF AInv, FormTypes
  <1>8. \A a \in Sessions \ {s} : Stored(session'[a]) => Counted(a)'
    BY <1>1, <1>5 DEF AInv, Counted
  <1>9. QED BY <1>6, <1>7, <1>8 DEF AInv

\* A form under way ends: at most the attempt it already counted is counted.
LEMMA AnswerStep ==
    ASSUME AInv, NEW r \in Requests, reqPc[r] \in Waiting, NEW row,
           reqPc' = [reqPc EXCEPT ![r] = "idle"],
           session' = [session EXCEPT ![SessionOf[r]] = row],
           \/ Keeps(row, session[SessionOf[r]])
           \/ row = CountAttempt(session[SessionOf[r]])
    PROVE  AInv'
  <1> DEFINE s == SessionOf[r]
  <1>1. s \in Sessions /\ DOMAIN session = Sessions /\ reqPc \in [Requests -> ReqStages]
    BY SessionOfAssumption DEF AInv, FormTypes
  <1>2. /\ Cardinality(UnderWay(s)') = Cardinality(UnderWay(s)) - 1
        /\ \A a : a # s => UnderWay(a)' = UnderWay(a)
    BY FormEnds DEF AInv
  <1>3. \A a : Forms(a)' = Forms(a)
    BY DEF Forms
  <1>4. Cardinality(UnderWay(s)) \in Nat /\ Cardinality(Forms(s)) \in Nat
    BY FormSets
  <1>5. session'[s] = row
    BY <1>1
  <1>6. ASSUME Stored(row)
        PROVE  /\ Stored(session[s]) /\ HasCount(session[s]) /\ HasCount(row)
               /\ row.attempts <= session[s].attempts + 1
    <2>1. CASE Keeps(row, session[s])
      BY <1>1, <1>6, <2>1 DEF Keeps, AInv, FormTypes, HasCount
    <2>2. CASE row = CountAttempt(session[s])
      <3>1. Stored(session[s])
        BY <1>6, <2>2 DEF CountAttempt, OnStored
      <3>2. HasCount(session[s])
        BY <1>1, <3>1 DEF AInv, FormTypes
      <3>3. HasCount(row) /\ row.attempts = session[s].attempts + 1
        BY <1>6, <2>2, <3>2, CountsOne
      <3>4. QED BY <3>1, <3>2, <3>3 DEF HasCount
    <2>3. QED BY <2>1, <2>2
  <1>7. FormTypes'
    BY <1>1, <1>5, <1>6 DEF AInv, FormTypes, ReqStages
  <1>8. Stored(session'[s]) => Counted(s)'
    <2> SUFFICES ASSUME Stored(session'[s]) PROVE Counted(s)'
      OBVIOUS
    <2>1. Counted(s)
      BY <1>1, <1>5, <1>6 DEF AInv
    <2> HIDE DEF s
    <2>2. QED
      BY <1>2, <1>3, <1>4, <1>5, <1>6, <2>1, WebChatBoundsAssumption DEF Counted, HasCount
  <1>9. \A a \in Sessions \ {s} : Stored(session'[a]) => Counted(a)'
    BY <1>1, <1>2, <1>3 DEF AInv, Counted
  <1>10. QED BY <1>7, <1>8, <1>9 DEF AInv

LEMMA LookupFailsStep ==
    ASSUME AInv, NEW r \in Requests, LookupFails(r)
    PROVE  AInv'
  <1> DEFINE old == session[SessionOf[r]]
             row == IF reqPc[r] = "code" THEN old ELSE CountAttempt(old)
  <1>1. /\ reqPc[r] \in Waiting /\ reqPc' = [reqPc EXCEPT ![r] = "idle"]
        /\ session' = [session EXCEPT ![SessionOf[r]] = row]
    BY SessionOfAssumption DEF AInv, FormTypes, LookupFails, Answered
  <1>2. Keeps(row, old) \/ row = CountAttempt(old)
    BY RowWrites
  <1>3. QED BY <1>1, <1>2, AnswerStep

LEMMA SendCodeStep ==
    ASSUME AInv, NEW r \in Requests, SendCode(r)
    PROVE  AInv'
  <1> DEFINE s == SessionOf[r]
  <1>1. /\ reqPc[r] \in Waiting /\ reqPc' = [reqPc EXCEPT ![r] = "idle"]
        /\ s \in Sessions /\ DOMAIN session = Sessions
    BY SessionOfAssumption DEF AInv, FormTypes, SendCode, Answered, Waiting
  <1>2. CASE session' = [session EXCEPT ![s] = SetCode(session[s], "pending")]
    BY <1>1, <1>2, RowWrites, AnswerStep
  <1>3. CASE session' = session
    <2>1. /\ FormTypes' /\ \A a : Forms(a)' = Forms(a)
      BY <1>1, <1>3 DEF AInv, FormTypes, ReqStages, Forms
    <2>2. /\ Cardinality(UnderWay(s)') = Cardinality(UnderWay(s)) - 1
          /\ \A a : a # s => UnderWay(a)' = UnderWay(a)
      BY <1>1, FormEnds DEF AInv
    <2>3. ASSUME NEW a \in Sessions, Stored(session'[a])
          PROVE  Counted(a)'
      <3>1. Counted(a) /\ session[a].attempts \in Nat
        BY <1>3, <2>3 DEF AInv, FormTypes, HasCount
      <3>2. Cardinality(UnderWay(a)) \in Nat /\ Cardinality(Forms(a)) \in Nat
        BY FormSets
      <3>3. Cardinality(UnderWay(a)') <= Cardinality(UnderWay(a))
            /\ Cardinality(UnderWay(a)') \in Int
        BY <2>2, <3>2
      <3>4. QED BY <1>3, <2>1, <3>1, <3>2, <3>3, WebChatBoundsAssumption DEF Counted
    <2>4. QED BY <2>1, <2>3 DEF AInv
  <1>4. QED BY <1>2, <1>3 DEF SendCode

LEMMA KeepsTwice ==
    ASSUME NEW a, NEW b, NEW c, Keeps(a, b), Keeps(b, c)
    PROVE  Keeps(a, c)
  BY DEF Keeps, HasCount

LEMMA CompleteStep ==
    ASSUME AInv, NEW r \in Requests, NEW b \in Bookings, Complete(r, b)
    PROVE  AInv'
  <1> DEFINE old == session[SessionOf[r]]
             verified == MarkVerified(old, b, now)
  <1>1. reqPc[r] \in Waiting /\ reqPc' = [reqPc EXCEPT ![r] = "idle"]
    BY DEF Complete, Completes, Answered, Waiting
  <1>2. PICK row : /\ session' = [session EXCEPT ![SessionOf[r]] = row]
                   /\ row = verified \/ \E target : row = LinkConversation(verified, target)
    BY DEF Complete, Completes
  <1>3. Keeps(verified, old)
    BY MarkKeeps
  <1> HIDE DEF verified
  <1>4. Keeps(row, old)
    BY <1>2, <1>3, RowWrites, KeepsTwice
  <1>5. QED BY <1>1, <1>2, <1>4, AnswerStep

LEMMA NextDayStep == ASSUME AInv, NextDay PROVE AInv'
  <1>1. reqPc' = reqPc /\ DOMAIN session' = Sessions
    BY DEF NextDay
  <1>2. \A s \in Sessions : Keeps(session'[s], session[s])
    BY RowWrites DEF NextDay
  <1>3. QED BY <1>1, <1>2, QuietStep

LEMMA CleanupStep == ASSUME AInv, Cleanup PROVE AInv'
  <1>1. reqPc' = reqPc /\ DOMAIN session' = Sessions
    BY DEF Cleanup
  <1>2. \A s \in Sessions : Keeps(session'[s], session[s])
    BY RowWrites DEF Cleanup
  <1>3. QED BY <1>1, <1>2, QuietStep

\* A restart loses the forms under way: their attempts are never counted.
LEMMA CrashStep == ASSUME AInv, Crash PROVE AInv'
  <1>1. session' = session /\ reqPc' = [r \in Requests |-> "idle"]
    BY DEF Crash
  <1>2. FormTypes'
    BY <1>1 DEF AInv, FormTypes, ReqStages
  <1>3. \A s : UnderWay(s)' = {} /\ Forms(s)' = Forms(s)
    BY <1>1 DEF UnderWay, Forms, Waiting
  <1>4. ASSUME NEW s \in Sessions, Stored(session'[s])
        PROVE  Counted(s)'
    <2>1. Counted(s) /\ session[s].attempts \in Nat
      BY <1>1, <1>4 DEF AInv, FormTypes, HasCount
    <2>2. QED BY <1>1, <1>3, <2>1, FormSets, FS_EmptySet, WebChatBoundsAssumption DEF Counted
  <1>5. QED BY <1>2, <1>4 DEF AInv

\* The steps that write no session row and no form.
LEMMA StutterStep ==
    ASSUME AInv, session' = session, reqPc' = reqPc
    PROVE  AInv'
  BY QuietStep, RowWrites DEF AInv, FormTypes

LEMMA SessionStep ==
    ASSUME AInv, NEW s \in Sessions,
           Connect(s) \/ Reconnect(s) \/ Disconnect(s) \/ CodeExpires(s)
    PROVE  AInv'
  <1>1. CASE Connect(s)
    BY <1>1, ConnectStep
  <1>2. CASE Reconnect(s) \/ Disconnect(s)
    BY <1>2, StutterStep DEF Reconnect, Disconnect
  <1>3. CASE CodeExpires(s)
    <2>1. session' = [session EXCEPT ![s] = SetCode(session[s], "expired")] /\ reqPc' = reqPc
      BY <1>3 DEF CodeExpires
    <2>2. QED BY <2>1, RowWrites, RowStep
  <1>4. QED BY <1>1, <1>2, <1>3

LEMMA MessageStep ==
    ASSUME AInv, NEW m \in Messages,
           GuestSays(m) \/ SaveInbound(m) \/ Reply(m) \/ ReplyFails(m)
    PROVE  AInv'
  <1> DEFINE s == SessionOf[m]
  <1>1. CASE GuestSays(m)
    <2>1. session' = [session EXCEPT ![s] = Touch(session[s], now)] /\ reqPc' = reqPc
      BY <1>1 DEF GuestSays
    <2>2. QED BY <2>1, RowWrites, RowStep
  <1>2. CASE Reply(m)
    <2>1. session' = [session EXCEPT ![s] = LinkConversation(session[s], s)] /\ reqPc' = reqPc
      BY <1>2 DEF Reply
    <2>2. QED BY <2>1, RowWrites, RowStep
  <1>3. CASE SaveInbound(m) \/ ReplyFails(m)
    BY <1>3, StutterStep DEF SaveInbound, ReplyFails
  <1>4. QED BY <1>1, <1>2, <1>3

LEMMA AInvStep == AInv /\ [Next]_vars => AInv'
  <1> SUFFICES ASSUME AInv, [Next]_vars PROVE AInv'
    OBVIOUS
  <1>1. CASE \E s \in Sessions : Connect(s) \/ Reconnect(s) \/ Disconnect(s) \/ CodeExpires(s)
    BY <1>1, SessionStep
  <1>2. CASE \E m \in Messages : GuestSays(m) \/ SaveInbound(m) \/ Reply(m) \/ ReplyFails(m)
    BY <1>2, MessageStep
  <1>3. CASE \E m \in Messages, g \in Guests : VerifyInChat(m, g)
    BY <1>3, StutterStep DEF VerifyInChat
  <1>4. CASE \E c \in Sessions, x \in Replies : StaffReply(c, x)
    BY <1>4, StutterStep DEF StaffReply
  <1>5. CASE \E r \in Requests, method \in Methods : Submit(r, method)
    BY <1>5, SubmitStep
  <1>6. CASE \E r \in Requests : WrongCode(r) \/ LookupFails(r) \/ SendCode(r)
    BY <1>6, WrongCodeStep, LookupFailsStep, SendCodeStep
  <1>7. CASE \E r \in Requests, b \in Bookings : Complete(r, b)
    BY <1>7, CompleteStep
  <1>8. CASE NextDay \/ Cleanup \/ Crash
    BY <1>8, NextDayStep, CleanupStep, CrashStep
  <1>9. CASE UNCHANGED vars
    BY <1>9, StutterStep DEF vars
  <1>10. QED
    BY <1>1, <1>2, <1>3, <1>4, <1>5, <1>6, <1>7, <1>8, <1>9 DEF Next

-----------------------------------------------------------------------------
LEMMA CountedIsWithinOverlap == AInv => AttemptsWithinOverlap
  <1> SUFFICES ASSUME AInv, NEW s \in Sessions, Stored(session[s])
               PROVE  session[s].attempts < MaxAttempts + Cardinality(Forms(s))
    BY DEF AttemptsWithinOverlap, Forms
  <1>1. Counted(s) /\ session[s].attempts \in Nat
    BY DEF AInv, FormTypes, HasCount
  <1>2. QED BY <1>1, FormSets, WebChatBoundsAssumption DEF Counted

\* The attempts are checked before the PMS lookup and counted after it
\* (verifyReservation), whatever forms, restarts, cleanups and restores come
\* between: no session ever has as many as the cap and its forms together.
THEOREM AttemptsStayWithinOverlap == Spec => []AttemptsWithinOverlap
  <1>1. AInv => AttemptsWithinOverlap
    BY CountedIsWithinOverlap
  <1>2. QED BY <1>1, InitHolds, AInvStep, PTL DEF Spec
=============================================================================
