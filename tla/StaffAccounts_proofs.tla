------------------------ MODULE StaffAccounts_proofs ------------------------
(***************************************************************************)
(* The accounts and sessions of the staff, for any number of accounts and  *)
(* requests and any settings.                                              *)
(***************************************************************************)
EXTENDS StaffAccounts, FiniteSetTheorems, TLAPS

-----------------------------------------------------------------------------
(***************************************************************************)
(* The inductive invariant.  An approval is never taken back, so a request *)
(* that waits may trust the one it saw; and an account nobody approved is  *)
(* an administrator's only where a PATCH made it one.                      *)
(***************************************************************************)
Settled(a) == account[a] = Deleted \/ (Exists(a) /\ account[a].approval = "approved")

RequestCleared(r) ==
    /\ request[r].at \in {"signing", "mailing"} => Settled(request[r].of)
    /\ request[r].at = "comparing" =>
          /\ account[request[r].of] # NoRow
          /\ request[r].saw.approval = "approved" => Settled(request[r].of)

Cleared ==
    /\ \A a \in Accounts : SignedIn(a) => Settled(a)
    /\ \A r \in Requests : RequestCleared(r)

NoPendingAdmin ==
    \A a \in Accounts : Exists(a) /\ account[a].approval = "pending" => account[a].role # "admin"

AdminsKept == bypassed \/ (Admins # {} /\ NoPendingAdmin)

IInv == TypeOK /\ Cleared /\ NobodyStranded /\ AdminsKept

-----------------------------------------------------------------------------
(***************************************************************************)
(* Rows and requests.                                                      *)
(***************************************************************************)
LEMMA RowsAre ==
    /\ NoRow \notin Rows /\ Deleted \notin Rows /\ NoRow # Deleted
    /\ \A a : account[a] = NoRow \/ account[a] = Deleted => ~Exists(a)
    /\ \A status \in {"active", "inactive"}, approval \in {"pending", "approved", "rejected"},
          verified \in BOOLEAN, role \in Roles :
             Row(status, approval, verified, role) \in Rows
  <1>1. NoRow.status = "none" /\ Deleted.status = "deleted"
    BY DEF NoRow, Deleted
  <1>2. \A row \in Rows : row.status \in {"active", "inactive"}
    BY DEF Rows
  <1>3. NoRow \notin Rows /\ Deleted \notin Rows /\ NoRow # Deleted
    BY <1>1, <1>2
  <1>4. QED BY <1>3 DEF Exists, Rows, Row

LEMMA RequestOf ==
    ASSUME TypeOK, NEW r \in Requests
    PROVE  /\ request[r].at = "comparing" =>
                 /\ request[r].of \in Accounts /\ request[r].saw \in Rows
                 /\ request[r].saw.role \in Roles
           /\ request[r].at \in {"signing", "creating"} =>
                 request[r].of \in Accounts /\ request[r].role \in Roles
           /\ request[r].at = "registering" =>
                 request[r].of \in Accounts /\ request[r].under \in Policies
           /\ request[r].at = "mailing" => request[r].of \in Accounts
  <1>1. request[r] \in RequestStates
    BY DEF TypeOK
  <1>2. QED BY <1>1 DEF RequestStates, Idle, Rows

LEMMA RequestTyped ==
    ASSUME TypeOK, NEW r \in Requests, NEW q \in RequestStates,
           request' = [request EXCEPT ![r] = q]
    PROVE  request' \in [Requests -> RequestStates]
  BY DEF TypeOK

LEMMA RequestForms ==
    ASSUME NEW a \in Accounts, NEW role \in Roles
    PROVE  /\ Idle \in RequestStates
           /\ Signing(a, role) \in RequestStates
           /\ [at |-> "creating", of |-> a, role |-> role] \in RequestStates
           /\ [at |-> "mailing", of |-> a] \in RequestStates
           /\ \A row \in Rows : [at |-> "comparing", of |-> a, saw |-> row] \in RequestStates
           /\ \A p \in Policies : [at |-> "registering", of |-> a, under |-> p] \in RequestStates
  BY DEF RequestStates, Signing

-----------------------------------------------------------------------------
(***************************************************************************)
(* What one written row leaves to show, part by part of the invariant.     *)
(***************************************************************************)
LEMMA RowCleared ==
    ASSUME TypeOK, Cleared, NEW a \in Accounts, NEW row \in Rows \cup {Deleted},
           account' = [account EXCEPT ![a] = row], UNCHANGED sessionVars,
           Settled(a) => row = Deleted \/ row.approval = "approved",
           NEW r \in Requests, NEW q, request' = [request EXCEPT ![r] = q],
           request'[r] = request[r] \/ RequestCleared(r)'
    PROVE  Cleared'
  <1>1. account'[a] = row /\ \A b \in Accounts : b # a => account'[b] = account[b]
    BY DEF TypeOK
  <1>2. \A b \in Accounts : Settled(b) => Settled(b)'
    BY <1>1, RowsAre DEF Settled, Exists
  <1>3. \A b \in Accounts : account[b] # NoRow => account'[b] # NoRow
    BY <1>1, RowsAre
  <1>4. ASSUME NEW p \in Requests, request'[p] = request[p] PROVE RequestCleared(p)'
    BY <1>2, <1>3, <1>4, RequestOf DEF Cleared, RequestCleared
  <1>5. \A p \in Requests : request'[p] = request[p] \/ (p = r /\ RequestCleared(p)')
    BY DEF TypeOK
  <1>6. \A p \in Requests : RequestCleared(p)'
    BY <1>4, <1>5
  <1>7. \A b \in Accounts : SignedIn(b)' => Settled(b)'
    BY <1>2 DEF Cleared, SignedIn, sessionVars
  <1>8. QED BY <1>6, <1>7 DEF Cleared

LEMMA RowNotStranded ==
    ASSUME TypeOK, NobodyStranded, NEW a \in Accounts, NEW row \in Rows \cup {Deleted},
           account' = [account EXCEPT ![a] = row], NEW by \in BOOLEAN,
           benched' = [benched EXCEPT ![a] = by],
           row \in Rows /\ row.approval = "approved" /\ row.verified => row.status = "active" \/ by
    PROVE  NobodyStranded'
  <1>1. account'[a] = row /\ benched'[a] = by
        /\ \A b \in Accounts : b # a => account'[b] = account[b] /\ benched'[b] = benched[b]
    BY DEF TypeOK
  <1>2. QED BY <1>1 DEF NobodyStranded, Exists, Active

\* The administrators other than a, and a itself if its row says so.
LEMMA RowAdmins ==
    ASSUME TypeOK, NEW a \in Accounts, NEW row, account' = [account EXCEPT ![a] = row]
    PROVE  /\ Admins \ {a} \subseteq Admins'
           /\ row \in Rows /\ row.status = "active" /\ row.role = "admin" => a \in Admins'
  <1>1. account'[a] = row /\ \A b \in Accounts : b # a => account'[b] = account[b]
    BY DEF TypeOK
  <1>2. QED BY <1>1 DEF Admins, Exists, Active

LEMMA RowKeepsAdmins ==
    ASSUME TypeOK, AdminsKept, NEW a \in Accounts, NEW row \in Rows \cup {Deleted},
           account' = [account EXCEPT ![a] = row], bypassed' = bypassed,
           a \in Admins => \/ row \in Rows /\ row.status = "active" /\ row.role = "admin"
                          \/ Admins \ {a} # {},
           row \in Rows /\ row.approval = "pending" =>
               row.role # "admin" \/ (Exists(a) /\ account[a].approval = "pending"
                                                /\ account[a].role = "admin")
    PROVE  AdminsKept'
  <1> SUFFICES ASSUME ~bypassed PROVE (Admins # {})' /\ NoPendingAdmin'
    BY DEF AdminsKept
  <1>1. Admins # {} /\ NoPendingAdmin
    BY DEF AdminsKept
  <1>2. (Admins # {})'
    <2>1. /\ Admins \ {a} \subseteq Admins'
          /\ row \in Rows /\ row.status = "active" /\ row.role = "admin" => a \in Admins'
      BY RowAdmins
    <2>2. CASE Admins \ {a} # {}
      BY <2>1, <2>2
    <2>3. CASE Admins \ {a} = {}
      BY <1>1, <2>1, <2>3
    <2>4. QED BY <2>2, <2>3
  <1>3. account'[a] = row /\ \A b \in Accounts : b # a => account'[b] = account[b]
    BY DEF TypeOK
  <1>4. NoPendingAdmin'
    BY <1>1, <1>3 DEF NoPendingAdmin, Exists
  <1>5. QED BY <1>2, <1>4

LEMMA NotLastLeavesOne ==
    ASSUME TypeOK, NEW a \in Admins, ~IsLastAdmin(a)
    PROVE  Admins \ {a} # {}
  <1>1. account[a].role = "admin" /\ ~(Cardinality(Admins) <= 1)
    BY DEF IsLastAdmin, Admins
  <1>2. SUFFICES ASSUME Admins = {a} PROVE FALSE
    OBVIOUS
  <1>3. QED BY <1>1, <1>2, FS_Singleton

-----------------------------------------------------------------------------
(***************************************************************************)
(* Steps that leave the accounts alone.                                    *)
(***************************************************************************)
LEMMA NoAccountWritten ==
    ASSUME IInv, UNCHANGED <<account, benched, bypassed>>
    PROVE  /\ NobodyStranded' /\ AdminsKept'
           /\ \A a : (Settled(a)' <=> Settled(a)) /\ (Exists(a)' <=> Exists(a))
  BY DEF IInv, NobodyStranded, AdminsKept, NoPendingAdmin, Admins, Exists, Active, Settled

\* A request moves on; the sessions stay.
LEMMA RequestStep ==
    ASSUME IInv, UNCHANGED <<rowVars, sessionVars, historyVars>>, NEW r \in Requests,
           NEW q \in RequestStates, request' = [request EXCEPT ![r] = q], RequestCleared(r)'
    PROVE  IInv'
  <1>1. NobodyStranded' /\ AdminsKept' /\ \A a : Settled(a)' <=> Settled(a)
    BY NoAccountWritten DEF rowVars, historyVars
  <1>2. TypeOK'
    BY RequestTyped DEF IInv, TypeOK, rowVars, sessionVars, historyVars
  <1>3. ASSUME NEW p \in Requests PROVE RequestCleared(p)'
    <2>1. CASE p = r
      BY <2>1
    <2>2. CASE p # r
      <3>1. request'[p] = request[p]
        BY <2>2 DEF IInv, TypeOK
      <3>2. QED BY <1>1, <3>1 DEF IInv, Cleared, RequestCleared, rowVars
    <2>3. QED BY <2>1, <2>2
  <1>4. Cleared'
    BY <1>1, <1>3 DEF IInv, Cleared, SignedIn, sessionVars
  <1>5. QED BY <1>1, <1>2, <1>4 DEF IInv

\* Anything else but the accounts and the requests changes.
LEMMA OtherStep ==
    ASSUME IInv, UNCHANGED <<account, benched, bypassed, request>>,
           link' \in [Accounts -> BOOLEAN], overdue' \in [Accounts -> BOOLEAN],
           policy' \in Policies, access' \in [Accounts -> SUBSET Roles],
           refreshable' \in [Accounts -> BOOLEAN],
           \A a \in Accounts : SignedIn(a)' => SignedIn(a)
    PROVE  IInv'
  <1>1. NobodyStranded' /\ AdminsKept' /\ \A a : Settled(a)' <=> Settled(a)
    BY NoAccountWritten
  <1>2. TypeOK'
    BY DEF IInv, TypeOK
  <1>3. Cleared'
    BY <1>1 DEF IInv, Cleared, RequestCleared
  <1>4. QED BY <1>1, <1>2, <1>3 DEF IInv

-----------------------------------------------------------------------------
(***************************************************************************)
(* Signing in.                                                             *)
(***************************************************************************)
LEMMA LoginBeginsStep ==
    ASSUME IInv, NEW r \in Requests, NEW a \in Accounts, LoginBegins(r, a)
    PROVE  IInv'
  <1> DEFINE q == [at |-> "comparing", of |-> a, saw |-> account[a]]
  <1>1. q \in RequestStates /\ account[a] # NoRow
    BY RowsAre, RequestForms DEF LoginBegins, Exists, RequestStates
  <1>2. request' = [request EXCEPT ![r] = q] /\ request'[r] = q
    BY DEF LoginBegins, IInv, TypeOK
  <1>3. RequestCleared(r)'
    BY <1>1, <1>2 DEF RequestCleared, Settled, LoginBegins, rowVars, Exists
  <1>4. QED BY <1>1, <1>2, <1>3, RequestStep DEF LoginBegins

\* A request that ends, or goes on to sign for a settled account.
LEMMA SignsOrEnds ==
    ASSUME IInv, UNCHANGED <<rowVars, sessionVars, historyVars>>, NEW r \in Requests,
           \/ Ends(r)
           \/ \E a \in Accounts, role \in Roles :
                 Settled(a) /\ request' = [request EXCEPT ![r] = Signing(a, role)]
    PROVE  IInv'
  <1>1. CASE Ends(r)
    <2>1. request' = [request EXCEPT ![r] = Idle] /\ request'[r] = Idle
      BY <1>1 DEF Ends, IInv, TypeOK
    <2>2. Idle \in RequestStates /\ RequestCleared(r)'
      BY <2>1 DEF RequestStates, RequestCleared, Idle
    <2>3. QED BY <2>1, <2>2, RequestStep
  <1>2. ASSUME NEW a \in Accounts, NEW role \in Roles, Settled(a),
               request' = [request EXCEPT ![r] = Signing(a, role)]
        PROVE  IInv'
    <2>1. request'[r] = Signing(a, role) /\ Settled(a)'
      BY <1>2 DEF IInv, TypeOK, Settled, Exists, rowVars
    <2>2. RequestCleared(r)'
      BY <2>1 DEF RequestCleared, Signing
    <2>3. QED BY <1>2, <2>2, RequestForms, RequestStep
  <1>3. QED BY <1>1, <1>2

LEMMA PowerIsRole == \A a, role : Power(a, role) \in Roles
  BY DEF Power, Roles

LEMMA LoginEndsStep ==
    ASSUME IInv, NEW r \in Requests, LoginEnds(r)
    PROVE  IInv'
  <1>1. /\ request[r].of \in Accounts /\ request[r].saw.role \in Roles
        /\ RequestCleared(r) /\ request[r].at = "comparing"
    BY RequestOf DEF IInv, Cleared, LoginEnds
  <1>2. CASE Ends(r)
    BY <1>2, SignsOrEnds DEF LoginEnds
  <1>3. CASE /\ MayLogIn(request[r].of, request[r].saw)
             /\ request' = [request EXCEPT ![r] =
                             Signing(request[r].of, Power(request[r].of, request[r].saw.role))]
    <2>1. Settled(request[r].of)
      BY <1>1, <1>3 DEF RequestCleared, MayLogIn
    <2>2. QED BY <1>1, <1>3, <2>1, PowerIsRole, SignsOrEnds DEF LoginEnds
  <1>4. QED BY <1>2, <1>3 DEF LoginEnds

LEMMA RefreshBeginsStep ==
    ASSUME IInv, NEW r \in Requests, NEW a \in Accounts, RefreshBegins(r, a)
    PROVE  IInv'
  <1>1. Settled(a)
    BY DEF RefreshBegins, MayRefresh, Exists, Rows, IInv, Cleared, SignedIn
  <1>2. QED BY <1>1, PowerIsRole, SignsOrEnds DEF RefreshBegins

LEMMA TokensIssuedStep ==
    ASSUME IInv, NEW r \in Requests, TokensIssued(r)
    PROVE  IInv'
  <1> DEFINE a == request[r].of
  <1>1. a \in Accounts /\ request[r].role \in Roles /\ Settled(a)
    BY RequestOf DEF TokensIssued, IInv, Cleared, RequestCleared
  <1>2. NobodyStranded' /\ AdminsKept' /\ \A b : Settled(b)' <=> Settled(b)
    BY NoAccountWritten DEF TokensIssued, rowVars, historyVars
  <1>3. /\ request' = [request EXCEPT ![r] = Idle]
        /\ \A p \in Requests : request'[p] = IF p = r THEN Idle ELSE request[p]
    BY DEF TokensIssued, Ends, IInv, TypeOK
  <1>4. TypeOK'
    <2>1. request' \in [Requests -> RequestStates]
      BY <1>3, RequestTyped DEF IInv, RequestStates
    <2>2. access' \in [Accounts -> SUBSET Roles] /\ refreshable' \in [Accounts -> BOOLEAN]
      BY <1>1 DEF TokensIssued, IInv, TypeOK
    <2>3. QED BY <2>1, <2>2 DEF TokensIssued, IInv, TypeOK, rowVars, historyVars
  <1>5. \A b \in Accounts : SignedIn(b)' => SignedIn(b) \/ b = a
    BY DEF TokensIssued, SignedIn, IInv, TypeOK
  <1>6. \A p \in Requests : RequestCleared(p)'
    <2>1. \A p \in Requests : p # r => RequestCleared(p)'
      BY <1>2, <1>3 DEF IInv, Cleared, RequestCleared, TokensIssued, rowVars
    <2>2. RequestCleared(r)'
      BY <1>3 DEF RequestCleared, Idle
    <2>3. QED BY <2>1, <2>2
  <1>7. Cleared'
    BY <1>1, <1>2, <1>5, <1>6 DEF IInv, Cleared
  <1>8. QED BY <1>2, <1>4, <1>7 DEF IInv

LEMMA TimeStep ==
    ASSUME IInv, NEW a \in Accounts, Time(a) \/ Resend(a)
    PROVE  IInv'
  <1>1. ASSUME NEW role \in Roles, AccessExpires(a, role) PROVE IInv'
    <2>1. access' \in [Accounts -> SUBSET Roles] /\ \A b \in Accounts : access'[b] \subseteq access[b]
      BY <1>1 DEF AccessExpires, IInv, TypeOK
    <2>2. \A b \in Accounts : SignedIn(b)' => SignedIn(b)
      BY <1>1, <2>1 DEF SignedIn, AccessExpires
    <2>3. QED BY <1>1, <2>1, <2>2, OtherStep DEF AccessExpires, rowVars, historyVars, IInv, TypeOK
  <1>2. CASE RefreshExpires(a)
    <2>1. refreshable' \in [Accounts -> BOOLEAN] /\ \A b \in Accounts : refreshable'[b] => refreshable[b]
      BY <1>2 DEF RefreshExpires, IInv, TypeOK
    <2>2. \A b \in Accounts : SignedIn(b)' => SignedIn(b)
      BY <1>2, <2>1 DEF SignedIn, RefreshExpires
    <2>3. QED BY <1>2, <2>1, <2>2, OtherStep DEF RefreshExpires, rowVars, historyVars, IInv, TypeOK
  <1>3. CASE LinkExpires(a) \/ Resend(a)
    <2>1. link' \in [Accounts -> BOOLEAN]
      BY <1>3 DEF LinkExpires, Resend, IInv, TypeOK
    <2>2. QED BY <1>3, <2>1, OtherStep
          DEF LinkExpires, Resend, sessionVars, historyVars, IInv, TypeOK, SignedIn
  <1>4. CASE GraceEnds(a)
    <2>1. overdue' \in [Accounts -> BOOLEAN]
      BY <1>4 DEF GraceEnds, IInv, TypeOK
    <2>2. QED BY <1>4, <2>1, OtherStep DEF GraceEnds, sessionVars, historyVars, IInv, TypeOK, SignedIn
  <1>5. QED BY <1>1, <1>2, <1>3, <1>4 DEF Time

-----------------------------------------------------------------------------
(***************************************************************************)
(* Registration.                                                           *)
(***************************************************************************)
LEMMA RegisterBeginsStep ==
    ASSUME IInv, NEW r \in Requests, NEW a \in Accounts, RegisterBegins(r, a)
    PROVE  IInv'
  <1> DEFINE q == [at |-> "registering", of |-> a, under |-> policy]
  <1>1. q \in RequestStates /\ request' = [request EXCEPT ![r] = q]
    BY RequestForms DEF RegisterBegins, IInv, TypeOK, RequestStates
  <1>2. RequestCleared(r)'
    BY <1>1 DEF RequestCleared, IInv, TypeOK
  <1>3. QED BY <1>1, <1>2, RequestStep DEF RegisterBegins

LEMMA CreateBeginsStep ==
    ASSUME IInv, NEW r \in Requests, NEW a \in Accounts, NEW b \in Accounts, NEW role \in Roles,
           CreateBegins(r, b, a, role)
    PROVE  IInv'
  <1> DEFINE q == [at |-> "creating", of |-> a, role |-> role]
  <1>1. q \in RequestStates /\ request' = [request EXCEPT ![r] = q]
    BY RequestForms DEF CreateBegins
  <1>2. RequestCleared(r)'
    BY <1>1 DEF RequestCleared, IInv, TypeOK
  <1>3. QED BY <1>1, <1>2, RequestStep DEF CreateBegins

LEMMA MailedStep ==
    ASSUME IInv, NEW r \in Requests, Mailed(r)
    PROVE  IInv'
  <1>1. request[r].of \in Accounts /\ Settled(request[r].of)
    BY RequestOf DEF Mailed, IInv, Cleared, RequestCleared
  <1>2. Exists(request[r].of) => account[request[r].of].role \in Roles
    BY DEF Exists, Rows
  <1>3. QED BY <1>1, <1>2, PowerIsRole, SignsOrEnds DEF Mailed

\* A row is written and a request moves on, or none does.
LEMMA RowStep ==
    ASSUME IInv, NEW a \in Accounts, NEW row \in Rows \cup {Deleted},
           account' = [account EXCEPT ![a] = row], UNCHANGED <<overdue, policy, sessionVars, bypassed>>,
           link' \in [Accounts -> BOOLEAN],
           NEW by \in BOOLEAN, benched' = [benched EXCEPT ![a] = by],
           Settled(a) => row = Deleted \/ row.approval = "approved",
           row \in Rows /\ row.approval = "approved" /\ row.verified => row.status = "active" \/ by,
           a \in Admins => \/ row \in Rows /\ row.status = "active" /\ row.role = "admin"
                          \/ Admins \ {a} # {},
           row \in Rows /\ row.approval = "pending" =>
               row.role # "admin" \/ (Exists(a) /\ account[a].approval = "pending"
                                                /\ account[a].role = "admin"),
           NEW r \in Requests, NEW q \in RequestStates, request' = [request EXCEPT ![r] = q],
           q = request[r] \/ RequestCleared(r)'
    PROVE  IInv'
  <1>1. TypeOK'
    <2>1. account' \in [Accounts -> Rows \cup {NoRow, Deleted}] /\ benched' \in [Accounts -> BOOLEAN]
      BY DEF IInv, TypeOK
    <2>2. request' \in [Requests -> RequestStates]
      BY RequestTyped DEF IInv
    <2>3. QED BY <2>1, <2>2 DEF IInv, TypeOK, sessionVars
  <1>2. Cleared'
    <2>1. request'[r] = request[r] \/ RequestCleared(r)'
      BY DEF IInv, TypeOK
    <2>2. QED BY <2>1, RowCleared DEF IInv
  <1>3. NobodyStranded'
    BY RowNotStranded DEF IInv
  <1>4. AdminsKept'
    BY RowKeepsAdmins DEF IInv
  <1>5. QED BY <1>1, <1>2, <1>3, <1>4 DEF IInv

\* The same without a request.
LEMMA RowOnlyStep ==
    ASSUME IInv, NEW a \in Accounts, NEW row \in Rows \cup {Deleted},
           account' = [account EXCEPT ![a] = row],
           UNCHANGED <<overdue, policy, sessionVars, request, bypassed>>,
           link' \in [Accounts -> BOOLEAN],
           NEW by \in BOOLEAN, benched' = [benched EXCEPT ![a] = by],
           Settled(a) => row = Deleted \/ row.approval = "approved",
           row \in Rows /\ row.approval = "approved" /\ row.verified => row.status = "active" \/ by,
           a \in Admins => \/ row \in Rows /\ row.status = "active" /\ row.role = "admin"
                          \/ Admins \ {a} # {},
           row \in Rows /\ row.approval = "pending" =>
               row.role # "admin" \/ (Exists(a) /\ account[a].approval = "pending"
                                                /\ account[a].role = "admin")
    PROVE  IInv'
  <1>1. 1 \in Requests
    BY AccountsAssumption DEF Requests
  <1>2. request[1] \in RequestStates /\ request' = [request EXCEPT ![1] = request[1]]
    BY <1>1 DEF IInv, TypeOK
  <1>3. PICK q \in RequestStates : q = request[1]
    BY <1>2
  <1>4. request' = [request EXCEPT ![1] = q]
    BY <1>2, <1>3
  <1>5. QED BY <1>1, <1>3, <1>4, RowStep

LEMMA RegisterEndsStep ==
    ASSUME IInv, NEW r \in Requests, RegisterEnds(r)
    PROVE  IInv'
  <1> DEFINE a == request[r].of
             row == Registered(request[r].under)
             q == IF row.status = "active" THEN [at |-> "mailing", of |-> a] ELSE Idle
  <1>1. a \in Accounts /\ request[r].under \in Policies
    BY RequestOf DEF RegisterEnds, IInv
  <1>2. CASE account[a] # NoRow
    <2>1. Ends(r) /\ UNCHANGED <<rowVars, sessionVars, historyVars>>
      BY <1>2 DEF RegisterEnds, rowVars
    <2>2. QED BY <2>1, SignsOrEnds
  <1>3. CASE account[a] = NoRow
    <2>1. /\ row \in Rows /\ row.role = "staff" /\ ~row.verified
          /\ row.status = "active" => row.approval = "approved"
      BY RowsAre DEF Registered, Row, Roles
    <2>2. ~Exists(a) /\ ~Settled(a) /\ a \notin Admins
      BY <1>3, RowsAre DEF Settled, Admins
    <2>3. /\ account' = [account EXCEPT ![a] = row]
          /\ request' = [request EXCEPT ![r] = q]
          /\ link' = [link EXCEPT ![a] = TRUE]
          /\ UNCHANGED <<overdue, policy, sessionVars, historyVars>>
      BY <1>3 DEF RegisterEnds
    <2>4. /\ benched' = [benched EXCEPT ![a] = benched[a]] /\ benched[a] \in BOOLEAN
          /\ link' \in [Accounts -> BOOLEAN] /\ bypassed' = bypassed
      BY <1>1, <2>3 DEF IInv, TypeOK, historyVars
    <2>5. q \in RequestStates
      BY <1>1, RequestForms DEF RequestStates
    <2>6. request'[r] = q /\ account'[a] = row
      BY <1>1, <2>3 DEF IInv, TypeOK
    <2>7. RequestCleared(r)'
      BY <2>1, <2>6 DEF RequestCleared, Settled, Exists, Idle
    <2> HIDE DEF a, row, q
    <2>8. PICK by \in BOOLEAN : by = benched[a]
      BY <2>4
    <2>9. benched' = [benched EXCEPT ![a] = by]
      BY <2>4, <2>8
    <2>10. QED BY <1>1, <2>1, <2>2, <2>3, <2>4, <2>5, <2>7, <2>9, RowStep
  <1>4. QED BY <1>2, <1>3

LEMMA CreateEndsStep ==
    ASSUME IInv, NEW r \in Requests, CreateEnds(r)
    PROVE  IInv'
  <1> DEFINE a == request[r].of
             row == Row("active", "approved", TRUE, request[r].role)
  <1>1. a \in Accounts /\ request[r].role \in Roles
    BY RequestOf DEF CreateEnds, IInv
  <1>2. CASE account[a] # NoRow
    <2>1. Ends(r) /\ UNCHANGED <<rowVars, sessionVars, historyVars>>
      BY <1>2 DEF CreateEnds, rowVars
    <2>2. QED BY <2>1, SignsOrEnds
  <1>3. CASE account[a] = NoRow
    <2>1. row \in Rows /\ row.approval = "approved" /\ row.status = "active"
      BY <1>1, RowsAre DEF Row
    <2>2. ~Exists(a) /\ ~Settled(a) /\ a \notin Admins
      BY <1>3, RowsAre DEF Settled, Admins
    <2>3. /\ account' = [account EXCEPT ![a] = row]
          /\ request' = [request EXCEPT ![r] = Idle] /\ request'[r] = Idle
          /\ UNCHANGED <<link, overdue, policy, sessionVars, historyVars>>
      BY <1>3 DEF CreateEnds, Stores, Ends, IInv, TypeOK
    <2>4. /\ benched[a] \in BOOLEAN /\ benched' = [benched EXCEPT ![a] = benched[a]]
          /\ link' \in [Accounts -> BOOLEAN] /\ bypassed' = bypassed
      BY <1>1, <2>3 DEF IInv, TypeOK, historyVars
    <2>5. Idle \in RequestStates
      BY DEF RequestStates
    <2> HIDE DEF a, row
    <2>6. RequestCleared(r)'
      BY <2>3 DEF RequestCleared, Idle
    <2>7. PICK by \in BOOLEAN : by = benched[a]
      BY <2>4
    <2>8. benched' = [benched EXCEPT ![a] = by]
      BY <2>4, <2>7
    <2>9. QED BY <1>1, <2>1, <2>2, <2>3, <2>4, <2>5, <2>6, <2>8, RowStep
  <1>4. QED BY <1>2, <1>3

LEMMA VerifyEmailStep ==
    ASSUME IInv, NEW r \in Requests, NEW a \in Accounts, VerifyEmail(r, a)
    PROVE  IInv'
  <1> DEFINE row == Verified(account[a])
             q == IF row.status = "active" /\ row.approval = "approved"
                  THEN Signing(a, Power(a, account[a].role)) ELSE Idle
  <1>1. account[a] \in Rows
    BY DEF VerifyEmail, Exists
  <1>2. /\ row \in Rows /\ row.approval = account[a].approval /\ row.role = account[a].role
        /\ row.approval = "approved" => row.status = "active"
        /\ account[a].status = "active" => row.status = "active"
    BY <1>1 DEF Verified, Rows
  <1>3. account' = [account EXCEPT ![a] = row] /\ account'[a] = row
    BY DEF VerifyEmail, IInv, TypeOK
  <1>4. request' = [request EXCEPT ![r] = q] /\ request'[r] = q
    BY <1>3 DEF VerifyEmail, IInv, TypeOK
  <1>5. q \in RequestStates
    BY PowerIsRole, RequestForms DEF RequestStates
  <1>6. RequestCleared(r)'
    BY <1>2, <1>3, <1>4 DEF RequestCleared, Settled, Exists, Idle, Signing
  <1>7. /\ benched[a] \in BOOLEAN /\ benched' = [benched EXCEPT ![a] = benched[a]]
        /\ link' \in [Accounts -> BOOLEAN] /\ UNCHANGED <<overdue, policy, sessionVars, bypassed>>
    BY DEF VerifyEmail, IInv, TypeOK, historyVars
  <1>8. /\ Settled(a) => row.approval = "approved"
        /\ a \in Admins => row.status = "active" /\ row.role = "admin"
    BY <1>1, <1>2, RowsAre DEF Settled, Admins, Active, Exists
  <1> HIDE DEF row, q
  <1>9. PICK by \in BOOLEAN : by = benched[a]
    BY <1>7
  <1>10. benched' = [benched EXCEPT ![a] = by]
    BY <1>7, <1>9
  <1>11. row.approval = "pending" =>
            row.role # "admin" \/ (Exists(a) /\ account[a].approval = "pending"
                                             /\ account[a].role = "admin")
    BY <1>1, <1>2 DEF Exists
  <1>12. QED BY <1>2, <1>3, <1>4, <1>5, <1>6, <1>7, <1>8, <1>10, <1>11, RowStep

-----------------------------------------------------------------------------
(***************************************************************************)
(* What an administrator does.                                             *)
(***************************************************************************)
LEMMA UpdateStep ==
    ASSUME IInv, NEW a \in Accounts, NEW b \in Accounts, NEW status \in {"active", "inactive"},
           NEW role \in Roles, Update(b, a, status, role)
    PROVE  IInv'
  <1> DEFINE row == [account[a] EXCEPT !.status = status, !.role = role]
  <1>1. account[a] \in Rows
    BY DEF Update, Exists
  <1>2. /\ row \in Rows /\ row.status = status /\ row.role = role
        /\ row.approval = account[a].approval /\ row.verified = account[a].verified
    BY <1>1 DEF Rows
  <1>3. /\ account' = [account EXCEPT ![a] = row] /\ account'[a] = row
        /\ bypassed' = (bypassed \/ Bypasses(a, row))
        /\ IF status # account[a].status THEN Benches(a, row) ELSE UNCHANGED benched
        /\ UNCHANGED <<link, overdue, policy, sessionVars, request>>
    BY DEF Update, Stores, IInv, TypeOK
  <1>4. PICK by \in BOOLEAN :
            /\ benched' = [benched EXCEPT ![a] = by]
            /\ by = IF status # account[a].status THEN status = "inactive" ELSE benched[a]
    <2>1. CASE status # account[a].status
      BY <1>2, <1>3, <2>1 DEF Benches
    <2>2. CASE status = account[a].status
      <3>1. benched[a] \in BOOLEAN /\ benched' = [benched EXCEPT ![a] = benched[a]]
        BY <1>3, <2>2 DEF IInv, TypeOK
      <3>2. QED BY <2>2, <3>1
    <2>3. QED BY <2>1, <2>2
  <1>5. row.approval = "approved" /\ row.verified => row.status = "active" \/ by
    <2>1. CASE status # account[a].status
      BY <1>2, <1>4, <2>1
    <2>2. CASE status = account[a].status
      BY <1>1, <1>2, <1>4, <2>2 DEF IInv, NobodyStranded, Exists, Active
    <2>3. QED BY <2>1, <2>2
  <1>6. TypeOK'
    <2>1. account' \in [Accounts -> Rows \cup {NoRow, Deleted}] /\ benched' \in [Accounts -> BOOLEAN]
      BY <1>2, <1>3, <1>4 DEF IInv, TypeOK
    <2>2. bypassed' \in BOOLEAN
      BY <1>3 DEF IInv, TypeOK, Bypasses
    <2>3. QED BY <1>3, <2>1, <2>2 DEF IInv, TypeOK, sessionVars
  <1>7. Cleared'
    <2>1. Settled(a) => row.approval = "approved"
      BY <1>1, <1>2, RowsAre DEF Settled
    <2>2. 1 \in Requests
      BY AccountsAssumption DEF Requests
    <2>3. request' = [request EXCEPT ![1] = request[1]] /\ request'[1] = request[1]
      BY <1>3, <2>2 DEF IInv, TypeOK
    <2> HIDE DEF row
    <2>4. PICK q : q = request[1]
      OBVIOUS
    <2>5. QED BY <1>2, <1>3, <2>1, <2>2, <2>3, <2>4, RowCleared DEF IInv
  <1>8. NobodyStranded'
    BY <1>2, <1>3, <1>4, <1>5, RowNotStranded DEF IInv
  <1>9. AdminsKept'
    <2>1. CASE bypassed'
      BY <2>1 DEF AdminsKept
    <2>2. CASE ~bypassed'
      <3>1. bypassed' = bypassed /\ ~Bypasses(a, row)
        BY <1>3, <2>2 DEF IInv, TypeOK, Bypasses
      <3>2. a \in Admins => row.status = "active" /\ row.role = "admin"
        BY <1>2, <3>1 DEF Bypasses, Roles
      <3>3. row.approval = "pending" => row.role # "admin"
        BY <3>1 DEF Bypasses
      <3> HIDE DEF row
      <3>4. QED BY <1>2, <1>3, <3>1, <3>2, <3>3, RowKeepsAdmins DEF IInv
    <2>3. QED BY <2>1, <2>2
  <1>10. QED BY <1>6, <1>7, <1>8, <1>9 DEF IInv

\* The row stays an administrator's, or another administrator remains.
LEMMA StoreStep ==
    ASSUME IInv, NEW a \in Accounts, Exists(a), NEW row \in Rows, Stores(a, row),
           UNCHANGED <<overdue, policy, sessionVars, request, bypassed, link>>,
           NEW by \in BOOLEAN, benched' = [benched EXCEPT ![a] = by],
           account[a].approval = "approved" => row.approval = "approved",
           row.approval = "approved" /\ row.verified => row.status = "active" \/ by,
           row.role = account[a].role,
           row.approval = "pending" => account[a].approval = "pending",
           account[a].status = "active" => row.status = "active" \/ (a \in Admins => Admins \ {a} # {})
    PROVE  IInv'
  <1>1. account' = [account EXCEPT ![a] = row] /\ link' \in [Accounts -> BOOLEAN]
    BY DEF Stores, IInv, TypeOK
  <1>2. Settled(a) => row.approval = "approved"
    BY RowsAre DEF Settled, Exists
  <1>3. a \in Admins => \/ row \in Rows /\ row.status = "active" /\ row.role = "admin"
                       \/ Admins \ {a} # {}
    BY DEF Admins, Active
  <1>4. row.approval = "pending" =>
           row.role # "admin" \/ (Exists(a) /\ account[a].approval = "pending"
                                            /\ account[a].role = "admin")
    OBVIOUS
  <1>5. QED BY <1>1, <1>2, <1>3, <1>4, RowOnlyStep

LEMMA DeactivateStep ==
    ASSUME IInv, NEW a \in Accounts, NEW b \in Accounts, Deactivate(b, a)
    PROVE  IInv'
  <1> DEFINE row == [account[a] EXCEPT !.status = "inactive"]
  <1>1. row \in Rows /\ row.role = account[a].role /\ row.approval = account[a].approval
    BY DEF Deactivate, Exists, Rows
  <1>2. a \in Admins => Admins \ {a} # {}
    BY NotLastLeavesOne DEF Deactivate, IInv
  <1> HIDE DEF row
  <1>3. QED BY <1>1, <1>2, StoreStep DEF Deactivate, row

LEMMA ActivateStep ==
    ASSUME IInv, NEW a \in Accounts, NEW b \in Accounts, Activate(b, a)
    PROVE  IInv'
  <1> DEFINE row == [account[a] EXCEPT !.status = "active"]
  <1>1. row \in Rows /\ row.role = account[a].role /\ row.approval = account[a].approval
        /\ row.status = "active"
    BY DEF Activate, Exists, Rows
  <1> HIDE DEF row
  <1>2. QED BY <1>1, StoreStep DEF Activate, row

LEMMA ApproveStep ==
    ASSUME IInv, NEW a \in Accounts, NEW b \in Accounts, Approve(b, a)
    PROVE  IInv'
  <1> DEFINE row == Approved(account[a])
  <1>1. /\ row \in Rows /\ row.role = account[a].role /\ row.approval = "approved"
        /\ row.verified => row.status = "active"
        /\ account[a].status = "active" => row.status = "active"
    BY DEF Approve, Approved, Exists, Rows
  <1>2. /\ Exists(a) /\ account[a].approval = "pending"
        /\ Stores(a, row) /\ benched' = [benched EXCEPT ![a] = FALSE]
        /\ UNCHANGED <<overdue, policy, sessionVars, request, bypassed, link>>
    BY DEF Approve
  <1> HIDE DEF row
  <1>3. PICK by \in BOOLEAN : by = FALSE
    OBVIOUS
  <1>4. benched' = [benched EXCEPT ![a] = by]
    BY <1>2, <1>3
  <1>5. row.approval = "approved" /\ row.verified => row.status = "active" \/ by
    BY <1>1
  <1>6. row.approval = "pending" => account[a].approval = "pending"
    BY <1>1
  <1>7. account[a].status = "active" =>
           row.status = "active" \/ (a \in Admins => Admins \ {a} # {})
    BY <1>1
  <1>8. account[a].approval = "approved" => row.approval = "approved"
    BY <1>1
  <1>9. QED BY <1>1, <1>2, <1>4, <1>5, <1>6, <1>7, <1>8, StoreStep

\* A pending account is no administrator's, so a rejection takes none.
LEMMA RejectStep ==
    ASSUME IInv, NEW a \in Accounts, NEW b \in Accounts, Reject(b, a)
    PROVE  IInv'
  <1> DEFINE row == [account[a] EXCEPT !.approval = "rejected", !.status = "inactive"]
  <1>1. row \in Rows /\ row.approval = "rejected" /\ account[a].approval = "pending"
        /\ account' = [account EXCEPT ![a] = row] /\ account'[a] = row
    BY DEF Reject, Exists, Rows, Stores, IInv, TypeOK
  <1>2. UNCHANGED <<link, overdue, policy, sessionVars, request, benched, bypassed>>
    BY DEF Reject, historyVars
  <1>3. 1 \in Requests
    BY AccountsAssumption DEF Requests
  <1>4. request' = [request EXCEPT ![1] = request[1]] /\ request'[1] = request[1]
    BY <1>2, <1>3 DEF IInv, TypeOK
  <1>5. ~Settled(a)
    BY <1>1, RowsAre DEF Settled, Reject
  <1>6. TypeOK'
    BY <1>1, <1>2 DEF IInv, TypeOK, sessionVars
  <1> HIDE DEF row
  <1>7. Cleared'
    <2>1. PICK q : q = request[1]
      OBVIOUS
    <2>2. QED BY <1>1, <1>2, <1>3, <1>4, <1>5, <2>1, RowCleared DEF IInv
  <1>8. NobodyStranded'
    <2>1. benched[a] \in BOOLEAN /\ benched' = [benched EXCEPT ![a] = benched[a]]
      BY <1>2 DEF IInv, TypeOK
    <2>2. PICK by \in BOOLEAN : by = benched[a]
      BY <2>1
    <2>3. QED BY <1>1, <2>1, <2>2, RowNotStranded DEF IInv
  <1>9. AdminsKept'
    <2>1. CASE bypassed
      BY <1>2, <2>1 DEF AdminsKept
    <2>2. CASE ~bypassed
      <3>1. a \notin Admins
        BY <1>1, <2>2 DEF IInv, AdminsKept, NoPendingAdmin, Admins
      <3>2. QED BY <1>1, <1>2, <3>1, RowKeepsAdmins DEF IInv
    <2>3. QED BY <2>1, <2>2
  <1>10. QED BY <1>6, <1>7, <1>8, <1>9 DEF IInv

LEMMA DeleteStep ==
    ASSUME IInv, NEW a \in Accounts, NEW b \in Accounts, Delete(b, a)
    PROVE  IInv'
  <1>1. a \in Admins => Admins \ {a} # {}
    BY NotLastLeavesOne DEF Delete, IInv
  <1>2. /\ account' = [account EXCEPT ![a] = Deleted] /\ link' \in [Accounts -> BOOLEAN]
        /\ UNCHANGED <<overdue, policy, sessionVars, request, bypassed>>
    BY DEF Delete, Stores, IInv, TypeOK, historyVars
  <1>3. PICK by \in BOOLEAN : by = benched[a]
    BY DEF IInv, TypeOK
  <1>4. benched' = [benched EXCEPT ![a] = by]
    BY <1>3 DEF Delete, historyVars, IInv, TypeOK
  <1>5. QED BY <1>1, <1>2, <1>4, RowsAre, RowOnlyStep

LEMMA SetPolicyStep ==
    ASSUME IInv, NEW b \in Accounts, NEW p \in Policies, SetPolicy(b, p)
    PROVE  IInv'
  BY OtherStep DEF SetPolicy, sessionVars, historyVars, IInv, TypeOK, SignedIn

-----------------------------------------------------------------------------
LEMMA InitHolds == Init => IInv
  <1> SUFFICES ASSUME Init PROVE IInv
    OBVIOUS
  <1> DEFINE first == Row("active", "approved", TRUE, "admin")
  <1>1. /\ first \in Rows /\ first.status = "active" /\ first.role = "admin"
        /\ first.approval = "approved"
    BY RowsAre DEF Row, Roles
  <1>2. account[Founder] = first /\ \A a \in Accounts : a # Founder => account[a] = NoRow
    BY AccountsAssumption DEF Init
  <1>3. TypeOK
    BY <1>1 DEF Init, TypeOK, RequestStates
  <1>4. Cleared
    BY DEF Init, Cleared, RequestCleared, SignedIn, Idle
  <1>5. \A a \in Accounts : Exists(a) => a = Founder
    BY <1>2, RowsAre
  <1>6. NobodyStranded
    BY <1>1, <1>2, <1>5 DEF NobodyStranded, Active
  <1>7. Founder \in Admins
    BY <1>1, <1>2, AccountsAssumption DEF Admins, Exists, Active
  <1>8. NoPendingAdmin
    BY <1>1, <1>2, <1>5 DEF NoPendingAdmin
  <1>9. QED BY <1>3, <1>4, <1>6, <1>7, <1>8 DEF IInv, AdminsKept

LEMMA StutterStep ==
    ASSUME IInv, UNCHANGED vars
    PROVE  IInv'
  BY OtherStep DEF vars, rowVars, sessionVars, historyVars, IInv, TypeOK, SignedIn

LEMMA IInvStep == IInv /\ [Next]_vars => IInv'
  <1> SUFFICES ASSUME IInv, [Next]_vars PROVE IInv'
    OBVIOUS
  <1>1. ASSUME NEW r \in Requests, Goes(r) PROVE IInv'
    BY <1>1, LoginEndsStep, TokensIssuedStep, RegisterEndsStep, MailedStep, CreateEndsStep DEF Goes
  <1>2. ASSUME NEW r \in Requests, NEW a \in Accounts, Begins(r, a) PROVE IInv'
    BY <1>2, LoginBeginsStep, RefreshBeginsStep, RegisterBeginsStep, VerifyEmailStep,
       CreateBeginsStep DEF Begins
  <1>3. ASSUME NEW a \in Accounts, Time(a) \/ Resend(a) PROVE IInv'
    BY <1>3, TimeStep
  <1>4. ASSUME NEW b \in Accounts, NEW a \in Accounts, Administration(b, a) PROVE IInv'
    BY <1>4, UpdateStep, DeactivateStep, ActivateStep, ApproveStep, RejectStep, DeleteStep
       DEF Administration
  <1>5. ASSUME NEW b \in Accounts, NEW p \in Policies, SetPolicy(b, p) PROVE IInv'
    BY <1>5, SetPolicyStep
  <1>6. CASE UNCHANGED vars
    BY <1>6, StutterStep
  <1>7. QED BY <1>1, <1>2, <1>3, <1>4, <1>5, <1>6 DEF Next

\* The rows, the sessions and the requests of the staff keep their types.
THEOREM AccountsTypeCorrect == Spec => []TypeOK
  <1>1. IInv => TypeOK
    BY DEF IInv
  <1>2. QED BY <1>1, InitHolds, IInvStep, PTL DEF Spec

\* No request, however long it hashed or mailed meanwhile, gives tokens to an
\* account that waits for its approval or was refused (AuthService.login,
\* refresh, the registration and verification routes).
THEOREM PendingHoldsNoToken == Spec => []PendingNeverSignedIn
  <1>1. IInv => PendingNeverSignedIn
    BY RowsAre DEF IInv, Cleared, Settled, PendingNeverSignedIn
  <1>2. QED BY <1>1, InitHolds, IInvStep, PTL DEF Spec

\* Approval and verification activate an account in either order (approve,
\* verifyEmail).
THEOREM ApprovedAndVerifiedIsActive == Spec => []NobodyStranded
  <1>1. IInv => NobodyStranded
    BY DEF IInv
  <1>2. QED BY <1>1, InitHolds, IInvStep, PTL DEF Spec

\* Deactivations and deletions, by any administrators and former ones, leave
\* an administrator (deactivate, delete, countAdmins).
THEOREM AnAdminRemains == Spec => []AdminRemains
  <1>1. IInv => AdminRemains
    BY DEF IInv, AdminsKept, AdminRemains
  <1>2. QED BY <1>1, InitHolds, IInvStep, PTL DEF Spec

-----------------------------------------------------------------------------
(***************************************************************************)
(* The verification links.  A link that works belongs to an account whose  *)
(* email was never verified: the step that verifies it takes the link, and *)
(* none is sent afterwards.                                                *)
(***************************************************************************)
LinkUnspent(a) == link[a] => Exists(a) /\ ~account[a].verified

LinksUnspent == \A a \in Accounts : LinkUnspent(a)

\* At most one account is written, and at most its own link.
LEMMA LinkStep ==
    ASSUME TypeOK, LinksUnspent, NEW a \in Accounts, NEW row, NEW works,
           account' = [account EXCEPT ![a] = row], link' = [link EXCEPT ![a] = works],
           works => row \in Rows /\ ~row.verified
    PROVE  LinksUnspent'
  <1> SUFFICES ASSUME NEW b \in Accounts PROVE LinkUnspent(b)'
    BY DEF LinksUnspent
  <1>1. CASE b = a
    BY <1>1 DEF LinkUnspent, Exists, TypeOK
  <1>2. CASE b # a
    <2>1. account'[b] = account[b] /\ link'[b] = link[b]
      BY <1>2 DEF TypeOK
    <2>2. QED BY <2>1 DEF LinksUnspent, LinkUnspent, Exists
  <1>3. QED BY <1>1, <1>2

\* A row that is no more verified than it was keeps its link.
LEMMA RowKeepsLink ==
    ASSUME TypeOK, LinksUnspent, NEW a \in Accounts, NEW row \in Rows,
           account' = [account EXCEPT ![a] = row], link' = link,
           link[a] => row.verified = account[a].verified
    PROVE  LinksUnspent'
  <1>1. link' = [link EXCEPT ![a] = link[a]]
    BY DEF TypeOK
  <1>2. link[a] => ~row.verified
    BY DEF LinksUnspent, LinkUnspent
  <1>3. QED BY <1>1, <1>2, LinkStep

LEMMA SameRowsKeepLinks ==
    ASSUME LinksUnspent, UNCHANGED account,
           \A a \in Accounts : link'[a] => link[a] \/ (Exists(a) /\ ~account[a].verified)
    PROVE  LinksUnspent'
  BY DEF LinksUnspent, LinkUnspent, Exists

LEMMA RegistrationLinks ==
    ASSUME TypeOK, LinksUnspent, NEW r \in Requests, RegisterEnds(r)
    PROVE  LinksUnspent'
  <1> DEFINE a == request[r].of
             row == Registered(request[r].under)
  <1>1. a \in Accounts
    BY RequestOf DEF RegisterEnds
  <1>2. CASE account[a] # NoRow
    BY <1>2, SameRowsKeepLinks DEF RegisterEnds
  <1>3. CASE account[a] = NoRow
    <2>1. row \in Rows /\ ~row.verified
      BY RowsAre DEF Registered, Row, Roles
    <2>2. /\ account' = [account EXCEPT ![a] = row]
          /\ link' = [link EXCEPT ![a] = TRUE]
      BY <1>3 DEF RegisterEnds
    <2> HIDE DEF a, row
    <2>3. QED BY <1>1, <2>1, <2>2, LinkStep
  <1>4. QED BY <1>2, <1>3

LEMMA CreationLinks ==
    ASSUME TypeOK, LinksUnspent, NEW r \in Requests, CreateEnds(r)
    PROVE  LinksUnspent'
  <1> DEFINE a == request[r].of
             row == Row("active", "approved", TRUE, request[r].role)
  <1>1. a \in Accounts /\ request[r].role \in Roles /\ link' = link
    BY RequestOf DEF CreateEnds
  <1>2. CASE account[a] # NoRow
    BY <1>1, <1>2, SameRowsKeepLinks DEF CreateEnds
  <1>3. CASE account[a] = NoRow
    <2>1. row \in Rows /\ account' = [account EXCEPT ![a] = row]
      BY <1>1, <1>3, RowsAre DEF CreateEnds, Stores
    <2>2. ~link[a]
      BY <1>1, <1>3, RowsAre DEF LinksUnspent, LinkUnspent
    <2> HIDE DEF a, row
    <2>3. QED BY <1>1, <2>1, <2>2, RowKeepsLink
  <1>4. QED BY <1>2, <1>3

LEMMA VerificationLinks ==
    ASSUME TypeOK, LinksUnspent, NEW r \in Requests, NEW a \in Accounts, VerifyEmail(r, a)
    PROVE  LinksUnspent'
  <1>1. /\ account' = [account EXCEPT ![a] = Verified(account[a])]
        /\ link' = [link EXCEPT ![a] = FALSE]
    BY DEF VerifyEmail
  <1>2. QED BY <1>1, LinkStep

LEMMA AdministrationLinks ==
    ASSUME TypeOK, LinksUnspent, NEW a \in Accounts, NEW b \in Accounts, Administration(b, a)
    PROVE  LinksUnspent'
  <1>1. CASE Delete(b, a)
    BY <1>1, LinkStep DEF Delete, Stores
  <1>2. CASE ~Delete(b, a)
    <2>1. PICK row \in Rows : Stores(a, row) /\ link' = link /\ row.verified = account[a].verified
      <3>1. account[a] \in Rows
        BY <1>2 DEF Administration, Update, Deactivate, Activate, Approve, Reject, Exists
      <3>2. /\ \A status \in {"active", "inactive"}, role \in Roles :
                 /\ [account[a] EXCEPT !.status = status, !.role = role] \in Rows
                 /\ [account[a] EXCEPT !.status = status, !.role = role].verified
                       = account[a].verified
            /\ \A status \in {"active", "inactive"} :
                 /\ [account[a] EXCEPT !.status = status] \in Rows
                 /\ [account[a] EXCEPT !.status = status].verified = account[a].verified
        BY <3>1 DEF Rows
      <3>3. Approved(account[a]) \in Rows /\ Approved(account[a]).verified = account[a].verified
        BY <3>1 DEF Approved, Rows
      <3>4. LET row == [account[a] EXCEPT !.approval = "rejected", !.status = "inactive"]
            IN  row \in Rows /\ row.verified = account[a].verified
        BY <3>1 DEF Rows
      <3>5. QED BY <1>2, <3>2, <3>3, <3>4
            DEF Administration, Update, Deactivate, Activate, Approve, Reject
    <2>2. QED BY <2>1, RowKeepsLink DEF Stores
  <1>3. QED BY <1>1, <1>2

LEMMA LinksStep == TypeOK /\ LinksUnspent /\ [Next]_vars => LinksUnspent'
  <1> SUFFICES ASSUME TypeOK, LinksUnspent, [Next]_vars PROVE LinksUnspent'
    OBVIOUS
  <1>1. ASSUME UNCHANGED <<account, link>> PROVE LinksUnspent'
    BY <1>1, SameRowsKeepLinks
  <1>2. ASSUME NEW r \in Requests, Goes(r) PROVE LinksUnspent'
    BY <1>1, <1>2, RegistrationLinks, CreationLinks
       DEF Goes, LoginEnds, TokensIssued, Mailed, rowVars
  <1>3. ASSUME NEW r \in Requests, NEW a \in Accounts, Begins(r, a) PROVE LinksUnspent'
    BY <1>1, <1>3, VerificationLinks
       DEF Begins, LoginBegins, RefreshBegins, RegisterBegins, CreateBegins, rowVars
  <1>4. ASSUME NEW a \in Accounts, Time(a) \/ Resend(a) PROVE LinksUnspent'
    <2>1. CASE Resend(a) \/ LinkExpires(a)
      <3>1. UNCHANGED account /\ \A b \in Accounts : link'[b] => link[b] \/ (b = a /\ Resend(a))
        BY <2>1 DEF Resend, LinkExpires, TypeOK
      <3>2. QED BY <3>1, SameRowsKeepLinks DEF Resend
    <2>2. QED BY <1>1, <1>4, <2>1 DEF Time, AccessExpires, RefreshExpires, GraceEnds, rowVars
  <1>5. ASSUME NEW b \in Accounts, NEW a \in Accounts, Administration(b, a) PROVE LinksUnspent'
    BY <1>5, AdministrationLinks
  <1>6. ASSUME NEW b \in Accounts, NEW p \in Policies, SetPolicy(b, p) PROVE LinksUnspent'
    BY <1>1, <1>6 DEF SetPolicy
  <1>7. CASE UNCHANGED vars
    BY <1>1, <1>7 DEF vars, rowVars
  <1>8. QED BY <1>2, <1>3, <1>4, <1>5, <1>6, <1>7 DEF Next

\* An inactive account becomes active again in one of these ways.
LEMMA ReturnStep ==
    ASSUME TypeOK, LinksUnspent, Next, NEW a \in Accounts,
           Exists(a), ~Active(a), benched[a], Active(a)', benched'[a]
    PROVE  /\ account[a].approval = "approved"
           /\ ~account[a].verified /\ account'[a].verified
  <1>1. account[a] \in Rows /\ account[a] # NoRow /\ account'[a] # account[a]
    BY RowsAre DEF Exists, Active
  <1>2. ASSUME NEW r \in Requests, NEW b \in Accounts, VerifyEmail(r, b)
        PROVE  /\ account[a].approval = "approved"
               /\ ~account[a].verified /\ account'[a].verified
    <2>1. a = b /\ account'[a] = Verified(account[a])
      BY <1>1, <1>2 DEF VerifyEmail, TypeOK
    <2>2. account[a].approval = "approved" /\ account'[a].verified
      BY <1>1, <2>1 DEF Verified, Rows, Active
    <2>3. ~account[a].verified
      BY <1>2, <2>1 DEF VerifyEmail, LinksUnspent, LinkUnspent
    <2>4. QED BY <2>2, <2>3
  <1>3. ASSUME NEW r \in Requests, Goes(r) PROVE FALSE
    <2>1. PICK b, row : account' = [account EXCEPT ![b] = row] /\ account[b] = NoRow
      BY <1>1, <1>3 DEF Goes, LoginEnds, TokensIssued, Mailed, RegisterEnds, CreateEnds,
                        Stores, rowVars
    <2>2. QED BY <1>1, <2>1 DEF TypeOK
  <1>4. ASSUME NEW b \in Accounts, NEW c \in Accounts, Administration(c, b) PROVE FALSE
    <2>1. CASE b # a
      BY <1>1, <1>4, <2>1 DEF Administration, Update, Deactivate, Activate, Approve, Reject, Delete,
                              Stores, TypeOK
    <2>2. CASE b = a
      <3>1. CASE Activate(c, a) \/ Approve(c, a)
        BY <3>1 DEF Activate, Approve, TypeOK
      <3>2. CASE Deactivate(c, a) \/ Reject(c, a) \/ Delete(c, a)
        <4>1. PICK row : /\ account' = [account EXCEPT ![a] = row]
                         /\ row.status \in {"inactive", "deleted"}
          <5>1. [account[a] EXCEPT !.status = "inactive"].status = "inactive"
            BY <1>1 DEF Rows
          <5>2. [account[a] EXCEPT !.approval = "rejected", !.status = "inactive"].status = "inactive"
            BY <1>1 DEF Rows
          <5>3. Deleted.status = "deleted"
            BY DEF Deleted
          <5>4. QED BY <3>2, <5>1, <5>2, <5>3 DEF Deactivate, Reject, Delete, Stores
        <4>2. QED BY <4>1 DEF Active, TypeOK
      <3>3. ASSUME NEW status \in {"active", "inactive"}, NEW role \in Roles,
                   Update(c, a, status, role)
            PROVE  FALSE
        <4>1. account'[a] = [account[a] EXCEPT !.status = status, !.role = role]
          BY <3>3 DEF Update, Stores, TypeOK
        <4>2. status = "active" /\ account[a].status = "inactive"
          BY <1>1, <4>1 DEF Active, Rows
        <4>3. Benches(a, [account[a] EXCEPT !.status = status, !.role = role])
          BY <3>3, <4>2 DEF Update
        <4>4. benched'[a] = FALSE
          BY <1>1, <4>2, <4>3 DEF Benches, Rows, TypeOK
        <4>5. QED BY <4>4
      <3>4. QED BY <1>4, <2>2, <3>1, <3>2, <3>3 DEF Administration
    <2>3. QED BY <2>1, <2>2
  <1>5. ASSUME UNCHANGED account PROVE FALSE
    BY <1>1, <1>5
  <1>6. ASSUME NEW r \in Requests, NEW b \in Accounts, Begins(r, b), ~VerifyEmail(r, b) PROVE FALSE
    BY <1>5, <1>6 DEF Begins, LoginBegins, RefreshBegins, RegisterBegins, CreateBegins, rowVars
  <1>7. ASSUME NEW b \in Accounts, Time(b) \/ Resend(b) PROVE FALSE
    BY <1>5, <1>7 DEF Time, AccessExpires, RefreshExpires, LinkExpires, GraceEnds, Resend, rowVars
  <1>8. ASSUME NEW b \in Accounts, NEW p \in Policies, SetPolicy(b, p) PROVE FALSE
    BY <1>5, <1>8 DEF SetPolicy
  <1>9. QED BY <1>2, <1>3, <1>4, <1>6, <1>7, <1>8 DEF Next

\* A deactivated account comes back without an administrator at most once, by
\* the first verification of its email (verifyEmail, validateToken, markUsed):
\* whoever was verified before stays out.
THEOREM DeactivatedReturnOnce == Spec => OnlyFirstVerificationReturns
  <1>1. Init => LinksUnspent
    BY DEF Init, LinksUnspent, LinkUnspent
  <1>2. TypeOK /\ LinksUnspent /\ [Next]_vars =>
           [\A a \in Accounts :
              /\ Exists(a) /\ ~Active(a) /\ benched[a]
              /\ Active(a)' /\ benched'[a]
              => /\ account[a].approval = "approved"
                 /\ ~account[a].verified /\ account'[a].verified]_vars
    BY ReturnStep
  <1>3. QED BY <1>1, <1>2, AccountsTypeCorrect, LinksStep, PTL
        DEF Spec, OnlyFirstVerificationReturns
=============================================================================
