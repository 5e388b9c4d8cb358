---------------------------- MODULE StaffAccounts ----------------------------
(***************************************************************************)
(* Staff accounts and their sessions: registration, verification of the    *)
(* email, approval, the changes administrators make, and the tokens that   *)
(* are issued meanwhile (src/auth/index.ts, src/services/staff.ts,         *)
(* src/gateway/routes/auth.ts, src/gateway/routes/staff.ts).               *)
(*                                                                         *)
(* A request that hashes or compares a password, sends an email or signs   *)
(* tokens waits; what it read before is what it uses after.  A session is  *)
(* what its tokens claim: no request looks an access token up, and only    *)
(* expiry ends one.  A role is an administrator's, with the wildcard       *)
(* permission, or one that may not manage staff; tokens claim what role    *)
(* and row allow together.  Passwords are not kept.                        *)
(***************************************************************************)
EXTENDS Naturals, FiniteSets

CONSTANTS
    Accounts,
    Founder,       \* the administrator setup created
    Policies,      \* the settings administrators choose among
    MaxRequests

Modes == {"instant", "grace"}

ASSUME AccountsAssumption ==
    /\ IsFiniteSet(Accounts) /\ Founder \in Accounts /\ MaxRequests \in Nat \ {0}
    /\ Policies \subseteq [mode : Modes, approval : BOOLEAN] /\ Policies # {}

VARIABLES
    account,      \* the staff table
    link,         \* a verification link of the account works
    overdue,      \* the grace period of the account is over
    policy,       \* auth settings
    access,       \* what the outstanding access tokens of the account allow
    refreshable,  \* the account holds a refresh token
    request,
    benched,      \* history: an administrator deactivated the account last
    bypassed      \* history: a PATCH took an administrator away, or made one of
                  \* an account that is not approved

rowVars == <<account, link, overdue, policy>>
sessionVars == <<access, refreshable>>
historyVars == <<benched, bypassed>>
vars == <<rowVars, sessionVars, request, historyVars>>

Requests == 1 .. MaxRequests
Roles == {"staff", "admin"}

Rows == [status : {"active", "inactive"}, approval : {"pending", "approved", "rejected"},
         verified : BOOLEAN, role : Roles]
NoRow == [status |-> "none"]
Deleted == [status |-> "deleted"]
Exists(a) == account[a] \in Rows
Active(a) == account[a].status = "active"

Idle == [at |-> "idle"]
Busy(r) == request[r] # Idle

Row(status, approval, verified, role) ==
    [status |-> status, approval |-> approval, verified |-> verified, role |-> role]

Init ==
    /\ account = [a \in Accounts |-> IF a = Founder THEN Row("active", "approved", TRUE, "admin")
                                     ELSE NoRow]
    /\ link = [a \in Accounts |-> FALSE]
    /\ overdue = [a \in Accounts |-> FALSE]
    /\ policy \in Policies
    /\ access = [a \in Accounts |-> {}]
    /\ refreshable = [a \in Accounts |-> FALSE]
    /\ request = [r \in Requests |-> Idle]
    /\ benched = [a \in Accounts |-> FALSE]
    /\ bypassed = FALSE

-----------------------------------------------------------------------------
(***************************************************************************)
(* Signing in.                                                             *)
(***************************************************************************)
\* The row's own permissions: setup gives its administrator the wildcard, create
\* and register give none, and nothing changes them afterwards.
HasWildcard(a) == a = Founder /\ Exists(a)

\* What a token for the account claims: what the role allows, and the row.
Power(a, role) == IF role = "admin" \/ HasWildcard(a) THEN "admin" ELSE "staff"

Signing(a, role) == [at |-> "signing", of |-> a, role |-> role]
Ends(r) == request' = [request EXCEPT ![r] = Idle]

\* The row is read, then the password is compared with it.
LoginBegins(r, a) ==
    /\ ~Busy(r) /\ Exists(a)
    /\ request' = [request EXCEPT ![r] = [at |-> "comparing", of |-> a, saw |-> account[a]]]
    /\ UNCHANGED <<rowVars, sessionVars, historyVars>>

MayLogIn_WithoutApproval(a, row) ==
    /\ row.verified \/ (policy.mode = "grace" /\ ~overdue[a])
    /\ row.status = "active"

MayLogIn(a, row) ==
    /\ row.approval = "approved"
    /\ row.verified \/ (policy.mode = "grace" /\ ~overdue[a])
    /\ row.status = "active"

\* A wrong password ends it as a refusal does.  The role is the one read before
\* the comparison, the row's own permissions are read after it.
LoginEnds(r) ==
    /\ request[r].at = "comparing"
    /\ \/ /\ MayLogIn(request[r].of, request[r].saw)
          /\ request' = [request EXCEPT ![r] = Signing(@.of, Power(@.of, @.saw.role))]
       \/ Ends(r)
    /\ UNCHANGED <<rowVars, sessionVars, historyVars>>

MayRefresh(a) == Exists(a) /\ Active(a)

RefreshBegins_KeepsRole(r, a) ==
    /\ ~Busy(r) /\ refreshable[a] /\ MayRefresh(a)
    /\ \E role \in access[a] \cup {Power(a, account[a].role)} :
           request' = [request EXCEPT ![r] = Signing(a, role)]
    /\ UNCHANGED <<rowVars, sessionVars, historyVars>>

RefreshBegins(r, a) ==
    /\ ~Busy(r) /\ refreshable[a] /\ MayRefresh(a)
    /\ request' = [request EXCEPT ![r] = Signing(a, Power(a, account[a].role))]
    /\ UNCHANGED <<rowVars, sessionVars, historyVars>>

TokensIssued(r) ==
    /\ request[r].at = "signing"
    /\ access' = [access EXCEPT ![request[r].of] = @ \cup {request[r].role}]
    /\ refreshable' = [refreshable EXCEPT ![request[r].of] = TRUE]
    /\ Ends(r)
    /\ UNCHANGED <<rowVars, historyVars>>

AccessExpires(a, role) ==
    /\ role \in access[a]
    /\ access' = [access EXCEPT ![a] = @ \ {role}]
    /\ UNCHANGED <<rowVars, refreshable, request, historyVars>>

RefreshExpires(a) ==
    /\ refreshable[a]
    /\ refreshable' = [refreshable EXCEPT ![a] = FALSE]
    /\ UNCHANGED <<rowVars, access, request, historyVars>>

-----------------------------------------------------------------------------
(***************************************************************************)
(* Registration and verification.                                          *)
(***************************************************************************)
RegisterBegins(r, a) ==
    /\ ~Busy(r) /\ account[a] = NoRow
    /\ request' = [request EXCEPT ![r] = [at |-> "registering", of |-> a, under |-> policy]]
    /\ UNCHANGED <<rowVars, sessionVars, historyVars>>

Registered_Pending(under) ==
    Row(IF under.approval THEN "pending" ELSE "active",
        IF under.approval THEN "pending" ELSE "approved", FALSE, "staff")

Registered(under) ==
    Row(IF under.approval \/ under.mode = "instant" THEN "inactive" ELSE "active",
        IF under.approval THEN "pending" ELSE "approved", FALSE, "staff")

\* The settings are those read before the hash; the email may be taken by now.
RegisterEnds(r) ==
    /\ request[r].at = "registering"
    /\ LET a == request[r].of
           row == Registered(request[r].under)
       IN  IF account[a] = NoRow
           THEN /\ account' = [account EXCEPT ![a] = row]
                /\ link' = [link EXCEPT ![a] = TRUE]
                /\ request' = [request EXCEPT ![r] =
                                  IF row.status = "active" THEN [at |-> "mailing", of |-> a] ELSE Idle]
           ELSE Ends(r) /\ UNCHANGED <<account, link>>
    /\ UNCHANGED <<overdue, policy, sessionVars, historyVars>>

\* The verification email is out, or the request fails with it.
Mailed(r) ==
    /\ request[r].at = "mailing"
    /\ LET a == request[r].of
       IN  \/ /\ Exists(a) /\ Active(a)
              /\ request' = [request EXCEPT ![r] = Signing(a, Power(a, account[a].role))]
           \/ Ends(r)
    /\ UNCHANGED <<rowVars, sessionVars, historyVars>>

Resend(a) ==
    /\ Exists(a) /\ ~account[a].verified
    /\ link' = [link EXCEPT ![a] = TRUE]
    /\ UNCHANGED <<account, overdue, policy, sessionVars, request, historyVars>>

LinkExpires(a) ==
    /\ link[a]
    /\ link' = [link EXCEPT ![a] = FALSE]
    /\ UNCHANGED <<account, overdue, policy, sessionVars, request, historyVars>>

\* verifyEmail: an approved account that is inactive becomes active.
Verified(row) ==
    [row EXCEPT !.verified = TRUE,
                !.status = IF row.approval = "approved" THEN "active" ELSE @]

VerifyEmail_LinkStays(r, a) ==
    /\ ~Busy(r) /\ link[a] /\ Exists(a)
    /\ account' = [account EXCEPT ![a] = Verified(@)]
    /\ request' = [request EXCEPT ![r] =
                      IF account'[a].status = "active" /\ account'[a].approval = "approved"
                      THEN Signing(a, Power(a, account[a].role)) ELSE Idle]
    /\ UNCHANGED <<link, overdue, policy, sessionVars, historyVars>>

VerifyEmail(r, a) ==
    /\ ~Busy(r) /\ link[a] /\ Exists(a)
    /\ account' = [account EXCEPT ![a] = Verified(@)]
    /\ link' = [link EXCEPT ![a] = FALSE]
    /\ request' = [request EXCEPT ![r] =
                      IF account'[a].status = "active" /\ account'[a].approval = "approved"
                      THEN Signing(a, Power(a, account[a].role)) ELSE Idle]
    /\ UNCHANGED <<overdue, policy, sessionVars, historyVars>>

GraceEnds(a) ==
    /\ Exists(a) /\ ~account[a].verified /\ ~overdue[a]
    /\ overdue' = [overdue EXCEPT ![a] = TRUE]
    /\ UNCHANGED <<account, link, policy, sessionVars, request, historyVars>>

-----------------------------------------------------------------------------
(***************************************************************************)
(* What an administrator does, for as long as an access token says that    *)
(* its holder is one.                                                      *)
(***************************************************************************)
Administers(b) == "admin" \in access[b]

Admins == {a \in Accounts : Exists(a) /\ Active(a) /\ account[a].role = "admin"}

Stores(a, row) == account' = [account EXCEPT ![a] = row]
Benches(a, row) ==
    benched' = [benched EXCEPT ![a] = row.status = "inactive"]

SetPolicy(b, p) ==
    /\ Administers(b) /\ p # policy
    /\ policy' = p
    /\ UNCHANGED <<account, link, overdue, sessionVars, request, historyVars>>

CreateBegins(r, b, a, role) ==
    /\ ~Busy(r) /\ Administers(b) /\ account[a] = NoRow
    /\ request' = [request EXCEPT ![r] = [at |-> "creating", of |-> a, role |-> role]]
    /\ UNCHANGED <<rowVars, sessionVars, historyVars>>

CreateEnds(r) ==
    /\ request[r].at = "creating"
    /\ IF account[request[r].of] = NoRow
       THEN Stores(request[r].of, Row("active", "approved", TRUE, request[r].role))
       ELSE UNCHANGED account
    /\ Ends(r)
    /\ UNCHANGED <<link, overdue, policy, sessionVars, historyVars>>

Bypasses(a, row) ==
    \/ a \in Admins /\ (row.status = "inactive" \/ row.role = "staff")
    \/ row.approval = "pending" /\ row.role = "admin"

\* PATCH: status and role are set as asked, except that nobody gives up the
\* administrator's role themselves.
Update(b, a, status, role) ==
    LET row == [account[a] EXCEPT !.status = status, !.role = role]
    IN  /\ Administers(b) /\ Exists(a) /\ row # account[a]
        /\ ~(a = b /\ account[a].role = "admin" /\ role = "staff")
        /\ Stores(a, row)
        /\ IF status # account[a].status THEN Benches(a, row) ELSE UNCHANGED benched
        /\ bypassed' = (bypassed \/ Bypasses(a, row))
        /\ UNCHANGED <<link, overdue, policy, sessionVars, request>>

IsLastAdmin_OffByOne(a) == account[a].role = "admin" /\ Cardinality(Admins) < 1

\* deactivate and delete count the active administrators.
IsLastAdmin(a) == account[a].role = "admin" /\ Cardinality(Admins) <= 1

Deactivate(b, a) ==
    /\ Administers(b) /\ Exists(a) /\ a # b /\ ~IsLastAdmin(a)
    /\ Stores(a, [account[a] EXCEPT !.status = "inactive"])
    /\ benched' = [benched EXCEPT ![a] = TRUE]
    /\ UNCHANGED <<link, overdue, policy, sessionVars, request, bypassed>>

Activate(b, a) ==
    /\ Administers(b) /\ Exists(a)
    /\ Stores(a, [account[a] EXCEPT !.status = "active"])
    /\ benched' = [benched EXCEPT ![a] = FALSE]
    /\ UNCHANGED <<link, overdue, policy, sessionVars, request, bypassed>>

Approved_ByMode(row) ==
    [row EXCEPT !.approval = "approved",
                !.status = IF policy.mode = "grace" THEN "active" ELSE @]

Approved(row) ==
    [row EXCEPT !.approval = "approved",
                !.status = IF row.verified \/ policy.mode = "grace" THEN "active" ELSE @]

Approve(b, a) ==
    /\ Administers(b) /\ Exists(a) /\ account[a].approval = "pending"
    /\ Stores(a, Approved(account[a]))
    /\ benched' = [benched EXCEPT ![a] = FALSE]
    /\ UNCHANGED <<link, overdue, policy, sessionVars, request, bypassed>>

Reject(b, a) ==
    /\ Administers(b) /\ Exists(a) /\ account[a].approval = "pending"
    /\ Stores(a, [account[a] EXCEPT !.approval = "rejected", !.status = "inactive"])
    /\ UNCHANGED <<link, overdue, policy, sessionVars, request, historyVars>>

\* Only an account nothing refers to; its links go with it.
Delete(b, a) ==
    /\ Administers(b) /\ Exists(a) /\ a # b /\ ~IsLastAdmin(a)
    /\ Stores(a, Deleted)
    /\ link' = [link EXCEPT ![a] = FALSE]
    /\ UNCHANGED <<overdue, policy, sessionVars, request, historyVars>>

-----------------------------------------------------------------------------
Administration(b, a) ==
    \/ \E status \in {"active", "inactive"}, role \in Roles : Update(b, a, status, role)
    \/ Deactivate(b, a) \/ Activate(b, a) \/ Approve(b, a) \/ Reject(b, a) \/ Delete(b, a)

Begins(r, a) ==
    \/ LoginBegins(r, a) \/ RefreshBegins(r, a) \/ RegisterBegins(r, a) \/ VerifyEmail(r, a)
    \/ \E b \in Accounts, role \in Roles : CreateBegins(r, b, a, role)

Goes(r) ==
    \/ LoginEnds(r) \/ TokensIssued(r) \/ RegisterEnds(r) \/ Mailed(r) \/ CreateEnds(r)

Time(a) ==
    \/ \E role \in Roles : AccessExpires(a, role)
    \/ RefreshExpires(a) \/ LinkExpires(a) \/ GraceEnds(a)

Next ==
    \/ \E r \in Requests : Goes(r)
    \/ \E r \in Requests, a \in Accounts : Begins(r, a)
    \/ \E a \in Accounts : Time(a) \/ Resend(a)
    \/ \E b \in Accounts, a \in Accounts : Administration(b, a)
    \/ \E b \in Accounts, p \in Policies : SetPolicy(b, p)

Spec == Init /\ [][Next]_vars

\* Requests end and tokens expire: an access token after 15 minutes, a refresh
\* token after a day, or thirty.
FairSpec ==
    /\ Spec
    /\ \A r \in Requests : WF_vars(Goes(r))
    /\ \A a \in Accounts :
          /\ WF_vars(RefreshExpires(a))
          /\ \A role \in Roles : WF_vars(AccessExpires(a, role))

-----------------------------------------------------------------------------
\* Type correctness of the rows, the sessions and the requests.
RequestStates ==
    {Idle} \cup [at : {"comparing"}, of : Accounts, saw : Rows]
           \cup [at : {"signing", "creating"}, of : Accounts, role : Roles]
           \cup [at : {"registering"}, of : Accounts, under : Policies]
           \cup [at : {"mailing"}, of : Accounts]

TypeOK ==
    /\ account \in [Accounts -> Rows \cup {NoRow, Deleted}]
    /\ link \in [Accounts -> BOOLEAN]
    /\ overdue \in [Accounts -> BOOLEAN]
    /\ policy \in Policies
    /\ access \in [Accounts -> SUBSET Roles]
    /\ refreshable \in [Accounts -> BOOLEAN]
    /\ request \in [Requests -> RequestStates]
    /\ benched \in [Accounts -> BOOLEAN]
    /\ bypassed \in BOOLEAN

\* Nobody holds a token before an administrator approved the account, where
\* approval is required, whichever of login, refresh, registration and the
\* verification link issued it, and whatever became of the account since.
SignedIn(a) == access[a] # {} \/ refreshable[a]
PendingNeverSignedIn ==
    \A a \in Accounts : SignedIn(a) /\ Exists(a) => account[a].approval = "approved"

\* An account that is approved and verified, in either order and under
\* settings that changed meanwhile, is active unless an administrator
\* deactivated it (staff.ts approve, verifyEmail, and register's status).
NobodyStranded ==
    \A a \in Accounts :
        Exists(a) /\ account[a].approval = "approved" /\ account[a].verified
            => Active(a) \/ benched[a]

\* "Prevent deactivating last admin" (docs/06-roadmap/004-user-role-
\* management.md:337): two administrators cannot remove each other, even when
\* the removed one still holds a token.  A PATCH is not counted, nor kept from
\* promoting a pending account, which reject then takes away (bypassed).
AdminRemains == bypassed \/ Admins # {}

\* A deactivation stands until an administrator ends it: verification only
\* activates an account "if it was only gated by verification"
\* (src/services/staff.ts:309).
DeactivationSticks == \A a \in Accounts : benched[a] => ~Active(a)

\* An account deactivated by an administrator comes back without one only by
\* the first verification of its email, once: a link that was used, replaced
\* or outlived by another one does not bring it back (validateToken, markUsed,
\* resend-verification, verifyEmail).
OnlyFirstVerificationReturns ==
    [][\A a \in Accounts :
         /\ Exists(a) /\ ~Active(a) /\ benched[a]
         /\ Active(a)' /\ benched'[a]
         => /\ account[a].approval = "approved"
            /\ ~account[a].verified /\ account'[a].verified]_vars

\* A session that claims more than the account is entitled to, because it was
\* deactivated, deleted or demoted, does not last: refresh reads the account
\* again ("in case role changed", src/auth/index.ts:130) and what was issued
\* before expires.  The founder stays entitled: a demotion leaves the wildcard in
\* its row, so every refresh makes it an administrator again.
Entitled(a) == Exists(a) /\ Active(a) /\ Power(a, account[a].role) = "admin"
Outdated(a) == (SignedIn(a) /\ ~Active(a)) \/ (Administers(a) /\ ~Entitled(a))
SessionsCatchUp == \A a \in Accounts : []<>~Outdated(a)
=============================================================================
