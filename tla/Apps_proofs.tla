----------------------------- MODULE Apps_proofs -----------------------------
(***************************************************************************)
(* The table, the registry and the checks of the apps, for any apps,       *)
(* configurations and number of checks at a time.                          *)
(***************************************************************************)
EXTENDS Apps, TLAPS

AInv == TypeOK /\ RestartKeeps /\ ConnectedWasChecked

LEMMA Constants ==
    /\ AIApps \subseteq Apps /\ Local \in Apps
    /\ Blank \in Configs /\ Embedding \in Configs /\ NotRunning \notin Configs
    /\ \A a \in Apps : Accepts[a] \subseteq Configs /\ Works[a] \subseteq Configs
  BY AppsAssumption

-----------------------------------------------------------------------------
(***************************************************************************)
(* What the actions are built from.                                        *)
(***************************************************************************)
LEMMA RowsAre ==
    /\ NoRow \notin Rows
    /\ \A a : row[a] = NoRow => ~Stored(a)
    /\ NoRow.status # "connected"
  <1>1. NoRow \notin Rows
    BY DEF NoRow, Rows
  <1>2. QED BY <1>1 DEF Stored, NoRow

\* What writing one row and one instance leaves to show.
LEMMA OneApp ==
    ASSUME AInv, NEW a \in Apps,
           NEW newRow \in Rows \cup {NoRow}, row' = [row EXCEPT ![a] = newRow],
           NEW config \in Configs \cup {NotRunning}, running' = [running EXCEPT ![a] = config],
           NEW stays \in BOOLEAN, left' = [left EXCEPT ![a] = stays],
           NEW other \in BOOLEAN, foreign' = [foreign EXCEPT ![a] = other],
           NEW checked \in SUBSET Configs, passed' = [passed EXCEPT ![a] = checked],
           request' \in [Requests -> {Idle} \cup [at : {"checking"}, of : Apps, config : Configs,
                                                  for : {"test", "wizard"}]],
           running'[a] = Booted(a)' \/ (stays /\ newRow \in Rows /\ ~newRow.enabled),
           newRow.status = "connected" => newRow.config \in checked \/ other
    PROVE  AInv'
  <1>1. TypeOK'
    BY DEF AInv, TypeOK
  <1>2. /\ row'[a] = newRow /\ left'[a] = stays /\ passed'[a] = checked /\ foreign'[a] = other
        /\ \A b \in Apps : b # a => /\ row'[b] = row[b] /\ running'[b] = running[b]
                                    /\ left'[b] = left[b] /\ passed'[b] = passed[b]
                                    /\ foreign'[b] = foreign[b]
    BY DEF AInv, TypeOK
  <1>3. RestartKeeps'
    <2> SUFFICES ASSUME NEW b \in Apps
                 PROVE  running'[b] = Booted(b)' \/ (left'[b] /\ Stored(b)' /\ ~row'[b].enabled)
      BY DEF RestartKeeps
    <2>1. CASE b = a
      BY <1>2, <2>1 DEF Stored
    <2>2. CASE b # a
      BY <1>2, <2>2 DEF AInv, RestartKeeps, Booted, Stored
    <2>3. QED BY <2>1, <2>2
  <1>4. ConnectedWasChecked'
    <2> SUFFICES ASSUME NEW b \in Apps, row'[b].status = "connected"
                 PROVE  row'[b].config \in passed'[b] \/ foreign'[b]
      BY DEF ConnectedWasChecked
    <2>1. QED BY <1>2 DEF AInv, ConnectedWasChecked
  <1>5. QED BY <1>1, <1>3, <1>4 DEF AInv

LEMMA CheckTyped ==
    ASSUME TypeOK, NEW r \in Requests, NEW a \in Apps, NEW config \in Configs,
           NEW purpose \in {"test", "wizard"},
           request' = [request EXCEPT ![r] = Checking(a, config, purpose)]
    PROVE  request' \in [Requests -> {Idle} \cup [at : {"checking"}, of : Apps,
                                                  config : Configs, for : {"test", "wizard"}]]
  BY DEF TypeOK, Checking

LEMMA CheckOf ==
    ASSUME TypeOK, NEW r \in Requests, request[r].at = "checking"
    PROVE  /\ request[r].of \in Apps /\ request[r].config \in Configs
           /\ [request EXCEPT ![r] = Idle] \in
                [Requests -> {Idle} \cup [at : {"checking"}, of : Apps,
                                          config : Configs, for : {"test", "wizard"}]]
  <1>1. request[r] # Idle
    BY DEF Idle
  <1>2. QED BY <1>1 DEF TypeOK

-----------------------------------------------------------------------------
LEMMA SaveStep ==
    ASSUME AInv, NEW a \in Apps, NEW config \in Configs, NEW enabled \in BOOLEAN,
           Saves(a, config, enabled), passed' = passed,
           request' \in [Requests -> {Idle} \cup [at : {"checking"}, of : Apps, config : Configs,
                                                  for : {"test", "wizard"}]]
    PROVE  AInv'
  <1> DEFINE newRow == Written(a, config, enabled)
             instance == IF enabled THEN Activated(a, config) ELSE running[a]
             stays == ~enabled /\ Runs(a)
  <1>1. newRow \in Rows /\ newRow.status = "configured" /\ newRow.enabled = enabled
        /\ newRow.config = config
    BY DEF Written, Rows, Statuses
  <1>2. Activated(a, config) \in Configs \cup {NotRunning}
    BY DEF Activated
  <1>3. /\ row' = [row EXCEPT ![a] = newRow]
        /\ running' = [running EXCEPT ![a] = instance]
        /\ instance \in Configs \cup {NotRunning}
        /\ left' = [left EXCEPT ![a] = stays] /\ stays \in BOOLEAN
        /\ foreign' = [foreign EXCEPT ![a] = FALSE]
    BY <1>2 DEF Saves, AInv, TypeOK, Runs
  <1>4. passed' = [passed EXCEPT ![a] = passed[a]] /\ passed[a] \in SUBSET Configs
    BY DEF AInv, TypeOK
  <1>5. row'[a] = newRow /\ running'[a] = instance
    BY <1>3 DEF AInv, TypeOK
  <1>6. running'[a] = Booted(a)' \/ (stays /\ newRow \in Rows /\ ~newRow.enabled)
    <2>1. CASE enabled
      BY <1>1, <1>5, <2>1 DEF Booted, Stored, Activated
    <2>2. CASE ~enabled /\ Runs(a)
      BY <1>1, <2>2
    <2>3. CASE ~enabled /\ ~Runs(a)
      BY <1>1, <1>5, <2>3 DEF Booted, Stored, Runs
    <2>4. QED BY <2>1, <2>2, <2>3
  <1> HIDE DEF newRow, instance, stays
  <1>7. newRow.status # "connected"
    BY <1>1
  <1>8. QED BY <1>1, <1>3, <1>4, <1>6, <1>7, OneApp

\* An app that is stopped and whose row is disabled or gone.
LEMMA StopStep ==
    ASSUME AInv, NEW a \in Apps, NEW newRow \in Rows \cup {NoRow},
           newRow \in Rows => ~newRow.enabled, newRow.status # "connected",
           row' = [row EXCEPT ![a] = newRow],
           running' = [running EXCEPT ![a] = NotRunning], left' = [left EXCEPT ![a] = FALSE],
           foreign' = [foreign EXCEPT ![a] = FALSE], passed' = passed,
           request' \in [Requests -> {Idle} \cup [at : {"checking"}, of : Apps, config : Configs,
                                                  for : {"test", "wizard"}]]
    PROVE  AInv'
  <1>1. passed' = [passed EXCEPT ![a] = passed[a]] /\ passed[a] \in SUBSET Configs
    BY DEF AInv, TypeOK
  <1>2. row'[a] = newRow /\ running'[a] = NotRunning
    BY DEF AInv, TypeOK
  <1>3. running'[a] = Booted(a)'
    BY <1>2 DEF Booted, Stored
  <1>4. QED BY <1>1, <1>3, OneApp

LEMMA AdministrationStep ==
    ASSUME AInv, NEW a \in Apps, Administration(a)
    PROVE  AInv'
  <1>0. request \in [Requests -> {Idle} \cup [at : {"checking"}, of : Apps, config : Configs,
                                              for : {"test", "wizard"}]]
    BY DEF AInv, TypeOK
  <1>1. ASSUME NEW enabled \in BOOLEAN, NEW config \in Configs, Put(a, config, enabled)
        PROVE  AInv'
    BY <1>0, <1>1, SaveStep DEF Put
  <1>2. ASSUME NEW enabled \in BOOLEAN, PutMasked(a, enabled) PROVE AInv'
    <2>1. (IF Stored(a) THEN row[a].config ELSE Blank) \in Configs
      BY Constants DEF Stored, Rows
    <2>2. QED BY <1>1, <1>2, <2>1 DEF PutMasked
  <1>3. CASE ToggleOn(a)
    <2>1. row[a].config \in Configs
      BY <1>3 DEF ToggleOn, Stored, Rows
    <2>2. QED BY <1>0, <1>3, <2>1, SaveStep DEF ToggleOn
  <1>4. CASE ToggleOff(a)
    <2> DEFINE newRow == [row[a] EXCEPT !.enabled = FALSE, !.status = "disabled"]
    <2>1. newRow \in Rows /\ ~newRow.enabled /\ newRow.status # "connected"
      BY <1>4 DEF ToggleOff, Stored, Rows, Statuses
    <2>2. row' = [row EXCEPT ![a] = newRow]
      BY <1>4 DEF ToggleOff, Disables, Stored, Rows, AInv, TypeOK
    <2> HIDE DEF newRow
    <2>3. QED BY <1>0, <1>4, <2>1, <2>2, StopStep DEF ToggleOff, Disables
  <1>5. CASE Delete(a)
    BY <1>0, <1>5, RowsAre, StopStep DEF Delete
  <1>6. QED BY <1>1, <1>2, <1>3, <1>4, <1>5 DEF Administration

LEMMA TestStep ==
    ASSUME AInv, NEW r \in Requests, NEW a \in Apps, TestBegins(r, a)
    PROVE  AInv'
  <1> DEFINE config == IF Runs(a) THEN running[a] ELSE Activated(a, row[a].config)
             stays == left[a] \/ ~row[a].enabled
  <1>1. row[a] \in Rows /\ row[a].enabled \in BOOLEAN
    BY DEF TestBegins, Stored, Rows
  <1>2. config \in Configs
    BY <1>1, Constants DEF TestBegins, Activated, Runs, AInv, TypeOK, Rows
  <1>3. /\ row' = [row EXCEPT ![a] = row[a]] /\ foreign' = [foreign EXCEPT ![a] = foreign[a]]
        /\ passed' = [passed EXCEPT ![a] = passed[a]]
        /\ running' = [running EXCEPT ![a] = config]
        /\ left' = [left EXCEPT ![a] = stays] /\ stays \in BOOLEAN
        /\ foreign[a] \in BOOLEAN /\ passed[a] \in SUBSET Configs
    BY <1>1 DEF TestBegins, AInv, TypeOK
  <1>4. request' \in [Requests -> {Idle} \cup [at : {"checking"}, of : Apps, config : Configs,
                                               for : {"test", "wizard"}]]
    BY <1>2, CheckTyped DEF TestBegins, AInv
  <1>5. running'[a] = config /\ row' = row
    BY <1>3 DEF AInv, TypeOK, TestBegins
  <1>6. running'[a] = Booted(a)' \/ (stays /\ row[a] \in Rows /\ ~row[a].enabled)
    <2>1. CASE row[a].enabled
      <3>1. running[a] = Booted(a)
        BY <2>1 DEF AInv, RestartKeeps
      <3>2. CASE Runs(a)
        BY <1>5, <3>1, <3>2 DEF Booted, Stored
      <3>3. CASE ~Runs(a)
        BY <1>1, <1>5, <2>1, <3>3, <1>2, Constants DEF Booted, Stored, Activated
      <3>4. QED BY <3>2, <3>3
    <2>2. CASE ~row[a].enabled
      BY <1>1, <2>2
    <2>3. QED BY <2>1, <2>2
  <1>7. row[a].status = "connected" => row[a].config \in passed[a] \/ foreign[a]
    BY DEF AInv, ConnectedWasChecked
  <1> HIDE DEF config, stays
  <1>8. QED BY <1>1, <1>2, <1>3, <1>4, <1>6, <1>7, OneApp

LEMMA TryStep ==
    ASSUME AInv, NEW r \in Requests, NEW a \in AIApps, NEW config \in Configs,
           TryKey(r, a, config)
    PROVE  AInv'
  <1>1. a \in Apps
    BY Constants
  <1>2. request' \in [Requests -> {Idle} \cup [at : {"checking"}, of : Apps, config : Configs,
                                               for : {"test", "wizard"}]]
    BY <1>1, CheckTyped DEF TryKey, AInv, TypeOK
  <1>3. QED BY <1>1, <1>2, SaveStep DEF TryKey

LEMMA LocalStep ==
    ASSUME AInv, EnableLocalAI
    PROVE  AInv'
  BY Constants, SaveStep DEF EnableLocalAI, AInv, TypeOK

\* A result is written to the row of the app, if it has one.
LEMMA Results ==
    ASSUME TypeOK, NEW a \in Apps, NEW status \in Statuses
    PROVE  /\ Stored(a) => /\ Result(a, status) = [row EXCEPT ![a] = [row[a] EXCEPT !.status = status]]
                           /\ [row[a] EXCEPT !.status = status] \in Rows
                           /\ [row[a] EXCEPT !.status = status].status = status
                           /\ [row[a] EXCEPT !.status = status].enabled = row[a].enabled
                           /\ [row[a] EXCEPT !.status = status].config = row[a].config
           /\ ~Stored(a) => Result(a, status) = row /\ row[a] = NoRow
  BY DEF Result, Stored, Rows, Statuses, TypeOK

\* An app of which only the status is written, or nothing.
LEMMA StatusStep ==
    ASSUME AInv, NEW a \in Apps, NEW status \in Statuses, row' = Result(a, status),
           UNCHANGED <<running, left>>,
           NEW checked \in SUBSET Configs, passed' = [passed EXCEPT ![a] = checked],
           NEW other \in BOOLEAN, foreign' = [foreign EXCEPT ![a] = other],
           status = "connected" /\ Stored(a) => row[a].config \in checked \/ other,
           request' \in [Requests -> {Idle} \cup [at : {"checking"}, of : Apps, config : Configs,
                                                  for : {"test", "wizard"}]]
    PROVE  AInv'
  <1> DEFINE newRow == IF Stored(a) THEN [row[a] EXCEPT !.status = status] ELSE NoRow
  <1>1. newRow \in Rows \cup {NoRow} /\ row' = [row EXCEPT ![a] = newRow] /\ row'[a] = newRow
    BY Results DEF AInv, TypeOK
  <1>2. /\ running' = [running EXCEPT ![a] = running[a]] /\ running[a] \in Configs \cup {NotRunning}
        /\ left' = [left EXCEPT ![a] = left[a]] /\ left[a] \in BOOLEAN
    BY DEF AInv, TypeOK
  <1>3. running'[a] = Booted(a)' \/ (left[a] /\ newRow \in Rows /\ ~newRow.enabled)
    <2>1. running[a] = Booted(a) \/ (left[a] /\ Stored(a) /\ ~row[a].enabled)
      BY DEF AInv, RestartKeeps
    <2>2. Stored(a)' <=> Stored(a)
      BY <1>1, Results, RowsAre DEF Stored, AInv
    <2>3. Booted(a)' = Booted(a)
      BY <1>1, <2>2, Results DEF Booted, AInv
    <2>4. QED BY <2>1, <2>3, Results DEF AInv
  <1>4. newRow.status = "connected" => newRow.config \in checked \/ other
    BY Results, RowsAre DEF AInv
  <1> HIDE DEF newRow
  <1>5. ASSUME NEW config \in Configs \cup {NotRunning}, config = running[a],
               NEW stays \in BOOLEAN, stays = left[a]
        PROVE  AInv'
    <2>1. running' = [running EXCEPT ![a] = config] /\ left' = [left EXCEPT ![a] = stays]
          /\ (running'[a] = Booted(a)' \/ (stays /\ newRow \in Rows /\ ~newRow.enabled))
      BY <1>2, <1>3, <1>5
    <2>2. QED BY <1>1, <1>4, <2>1, OneApp
  <1>6. QED BY <1>2, <1>5

LEMMA PassStep ==
    ASSUME AInv, NEW r \in Requests, Passes(r)
    PROVE  AInv'
  <1> DEFINE a == request[r].of
             checked == passed[a] \cup {request[r].config}
             other == Stored(a) /\ row[a].config # request[r].config
  <1>1. a \in Apps /\ request[r].config \in Configs
    BY CheckOf DEF Passes, AInv
  <1>2. request' \in [Requests -> {Idle} \cup [at : {"checking"}, of : Apps, config : Configs,
                                               for : {"test", "wizard"}]]
    BY CheckOf DEF Passes, AInv
  <1>3. checked \in SUBSET Configs /\ other \in BOOLEAN
    BY <1>1 DEF AInv, TypeOK
  <1>4. /\ passed' = [passed EXCEPT ![a] = checked] /\ foreign' = [foreign EXCEPT ![a] = other]
        /\ row' = Result(a, "connected") /\ UNCHANGED <<running, left>>
    BY DEF Passes
  <1>5. Stored(a) => row[a].config \in checked \/ other
    OBVIOUS
  <1> HIDE DEF a, checked, other
  <1>6. QED BY <1>1, <1>2, <1>3, <1>4, <1>5, StatusStep DEF Statuses

LEMMA FailStep ==
    ASSUME AInv, NEW r \in Requests, Fails(r)
    PROVE  AInv'
  <1> DEFINE a == request[r].of
  <1>1. a \in Apps
    BY CheckOf DEF Fails, AInv
  <1>2. request' \in [Requests -> {Idle} \cup [at : {"checking"}, of : Apps, config : Configs,
                                               for : {"test", "wizard"}]]
    BY CheckOf DEF Fails, AInv
  <1>3. CASE Stored(a) /\ Disables(a, Result(a, "error"))
    <2> DEFINE newRow == [[row[a] EXCEPT !.status = "error"]
                            EXCEPT !.enabled = FALSE, !.status = "disabled"]
    <2>1. newRow \in Rows /\ ~newRow.enabled /\ newRow.status # "connected"
      BY <1>3 DEF Stored, Rows, Statuses
    <2>2. row' = [row EXCEPT ![a] = newRow]
      <3>1. Result(a, "error") = [row EXCEPT ![a] = [row[a] EXCEPT !.status = "error"]]
        BY <1>1, <1>3, Results DEF Statuses, AInv
      <3>2. QED BY <1>1, <1>3, <3>1 DEF Disables, AInv, TypeOK
    <2>3. passed' = passed
      BY DEF Fails
    <2> HIDE DEF newRow
    <2>4. QED BY <1>1, <1>2, <1>3, <2>1, <2>2, <2>3, StopStep DEF Disables
  <1>4. CASE row' = Result(a, "error") /\ UNCHANGED <<running, left, foreign>>
    <2>1. /\ passed' = [passed EXCEPT ![a] = passed[a]] /\ passed[a] \in SUBSET Configs
          /\ foreign' = [foreign EXCEPT ![a] = foreign[a]] /\ foreign[a] \in BOOLEAN
      BY <1>1, <1>4 DEF Fails, AInv, TypeOK
    <2> HIDE DEF a
    <2>2. QED BY <1>1, <1>2, <1>4, <2>1, StatusStep DEF Statuses
  <1>5. QED BY <1>3, <1>4 DEF Fails

LEMMA RestartStep ==
    ASSUME AInv, Restart
    PROVE  AInv'
  <1>1. TypeOK'
    <2>1. \A a \in Apps : Booted(a) \in Configs \cup {NotRunning}
      BY DEF Booted, Stored, Rows
    <2>2. running' \in [Apps -> Configs \cup {NotRunning}]
      BY <2>1 DEF Restart
    <2>3. QED BY <2>2 DEF Restart, AInv, TypeOK
  <1>2. RestartKeeps'
    BY DEF Restart, RestartKeeps, Booted, Stored
  <1>3. ConnectedWasChecked'
    BY DEF Restart, AInv, ConnectedWasChecked
  <1>4. QED BY <1>1, <1>2, <1>3 DEF AInv

-----------------------------------------------------------------------------
LEMMA InitHolds == Init => AInv
  <1> SUFFICES ASSUME Init PROVE AInv
    OBVIOUS
  <1>1. TypeOK
    BY DEF Init, TypeOK
  <1>2. RestartKeeps
    BY RowsAre DEF Init, RestartKeeps, Booted, Stored
  <1>3. ConnectedWasChecked
    BY RowsAre DEF Init, ConnectedWasChecked
  <1>4. QED BY <1>1, <1>2, <1>3 DEF AInv

LEMMA StutterStep ==
    ASSUME AInv, UNCHANGED vars
    PROVE  AInv'
  BY DEF AInv, vars, storeVars, historyVars, TypeOK, RestartKeeps, Booted, Stored,
         ConnectedWasChecked

LEMMA AInvStep == AInv /\ [Next]_vars => AInv'
  <1> SUFFICES ASSUME AInv, [Next]_vars PROVE AInv'
    OBVIOUS
  <1>1. CASE \E a \in Apps : Administration(a)
    BY <1>1, AdministrationStep
  <1>2. CASE \E r \in Requests, a \in Apps : TestBegins(r, a)
    BY <1>2, TestStep
  <1>3. CASE \E r \in Requests, a \in AIApps, config \in Configs : TryKey(r, a, config)
    BY <1>3, TryStep
  <1>4. CASE \E r \in Requests : Passes(r) \/ Fails(r)
    BY <1>4, PassStep, FailStep
  <1>5. CASE EnableLocalAI
    BY <1>5, LocalStep
  <1>6. CASE Restart
    BY <1>6, RestartStep
  <1>7. CASE UNCHANGED vars
    BY <1>7, StutterStep
  <1>8. QED BY <1>1, <1>2, <1>3, <1>4, <1>5, <1>6, <1>7 DEF Next

\* The table, the registry and the checks keep their types (apps/config.ts).
THEOREM AppsTypeCorrect == Spec => []TypeOK
  <1>1. AInv => TypeOK
    BY DEF AInv
  <1>2. QED BY <1>1, InitHolds, AInvStep, PTL DEF Spec

\* Whatever is saved, toggled, deleted, tested or tried, in any order and with
\* any number of checks under way, the registry runs what a restart would
\* start (saveAppConfig, setAppEnabled, testAppConnection, loadEnabledApps).
THEOREM RegistryMatchesTable == Spec => []RestartKeeps
  <1>1. AInv => RestartKeeps
    BY DEF AInv
  <1>2. QED BY <1>1, InitHolds, AInvStep, PTL DEF Spec

\* A status of "connected" is about the stored configuration, except after a
\* check of another instance (updateAppStatus).
THEOREM ConnectedIsChecked == Spec => []ConnectedWasChecked
  <1>1. AInv => ConnectedWasChecked
    BY DEF AInv
  <1>2. QED BY <1>1, InitHolds, AInvStep, PTL DEF Spec
=============================================================================
