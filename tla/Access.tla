--------------------------------- MODULE Access ---------------------------------
(***************************************************************************)
(* Signing in and administering who may: passwords, the second factor,     *)
(* refresh tokens and their revocation, one-time setup links, the account  *)
(* table and the routes it guards.                                         *)
(*                                                                         *)
(* A handler is several calls of PostgreSQL and Valkey, and any other      *)
(* handler may run between two of them: call[c] is the handler that works  *)
(* for client c, its step the call it makes next.  The accounts are those  *)
(* of one tenant, the only one.  Whoever presents a password, a code or a  *)
(* link presents the right one: a wrong one is refused and changes         *)
(* nothing, as does the rate limit.  Time is counted in parts of a second, *)
(* since both the tokens and Valkey's entries are dated in whole ones.     *)
(***************************************************************************)
EXTENDS Integers, FiniteSets, Sequences

CONSTANTS
    Client,        \* requests that run at the same time
    Account,       \* ids of principals, Bootstrap among them
    Bootstrap,     \* <tenant>-bootstrap-admin
    Starts,        \* the account tables to start from
    Seeds,         \* the seeded people of the tenant and their roles
    SeedPassword,  \* whether SIEM_DEV_SEED_PASSWORD is set
    Changes,       \* bodies of POST /users/{id}
    Offered,       \* roles in bodies of POST /invites
    DevSkipMFA,    \* AuthService.DevSkipMFA
    Second,        \* the moments of a second
    AccessTTL, RefreshTTL, ChallengeTTL, InviteTTL,
    Begin,         \* the moment of the first start
    MaxTime,       \* bound of now
    MaxToken,      \* bound on the refresh tokens issued
    MaxInvite      \* bound on the links issued

Role == {"analyst", "engineer", "admin"}
NoRow == [known |-> FALSE, active |-> FALSE, role |-> "analyst", password |-> FALSE,
          secret |-> FALSE, enrolled |-> FALSE]
AccountRow == [known : BOOLEAN, active : BOOLEAN, role : Role, password : BOOLEAN,
               secret : BOOLEAN, enrolled : BOOLEAN]
Change == [active : {"keep", "on", "off"}, role : Role \cup {"keep"}, resetMFA : BOOLEAN]
Keep == [active |-> "keep", role |-> "keep", resetMFA |-> FALSE]

ASSUME AccessAssumption ==
    /\ Bootstrap \in Account
    /\ Starts \subseteq [Account -> AccountRow]
    /\ DOMAIN Seeds \subseteq Account
    /\ Seeds \in [DOMAIN Seeds -> Role]
    /\ {SeedPassword, DevSkipMFA} \subseteq BOOLEAN
    /\ Changes \subseteq Change
    /\ Offered \subseteq Role
    /\ {Second, AccessTTL, RefreshTTL, ChallengeTTL, InviteTTL} \subseteq Nat \ {0}
    /\ {Begin, MaxTime, MaxToken, MaxInvite} \subseteq Nat

\* A table is empty at first, or was left by these statements: the columns of
\* the second factor were added as NULL, and nothing else writes them.
ASSUME StartsAssumption ==
    \A start \in Starts, p \in Account : start[p].enrolled => start[p].secret

\* tenancy.rolePermissions, and which of them a route asks for.
rolePermissions ==
    [analyst  |-> {"view_flows", "run_evaluation"},
     engineer |-> {"view_flows", "view_raw", "run_evaluation", "export"},
     admin    |-> {"view_flows", "view_raw", "view_sensitive", "run_evaluation", "export",
                   "manage_retention", "manage_sources", "view_audit", "manage_users"}]
routes ==
    [me         |-> "view_flows",    search     |-> "view_flows",
     alerts     |-> "view_flows",    profiles   |-> "view_flows",
     evaluate   |-> "run_evaluation", raw       |-> "view_raw",
     sensitive  |-> "view_sensitive", export    |-> "export",
     audit      |-> "view_audit",    storage    |-> "manage_retention",
     feeds      |-> "manage_sources", filters   |-> "manage_sources",
     invites    |-> "manage_users",  users      |-> "manage_users"]
Can(row, perm) == row.active /\ perm \in rolePermissions[row.role]

VARIABLES
    principal,   \* table principal
    invites,     \* table invite: its rows in the order of their insertion
    refresh,     \* the refresh tokens issued, by jti
    access,      \* the access tokens issued
    challenges,  \* the challenge tokens issued
    revoked,     \* the keys auth:revoked:<jti> and when Valkey drops them
    server,      \* what the API server does: a step of its start, or it serves
    call,        \* the handler that works for each client
    now

\* Observation variables.
VARIABLES uses,    \* how often each link has set a password
          gone,    \* the tokens a revocation was ever recorded for
          late,    \* the refreshes begun with such a token a second or more
                   \* before its expiry
          barred   \* the calls whose caller was never entitled while they ran

tables == <<principal, invites>>
tokens == <<refresh, access, challenges, revoked>>
vars == <<tables, tokens, server, call, now, uses, gone, late, barred>>

Idle == [op |-> "none", step |-> "none", who |-> Bootstrap, target |-> Bootstrap,
         token |-> 0, change |-> Keep]
Does(op, step, who) == [Idle EXCEPT !.op = op, !.step = step, !.who = who]

Continue(c, step) == call' = [call EXCEPT ![c].step = step]
End(c) == call' = [call EXCEPT ![c] = Idle]

Init ==
    /\ principal \in Starts
    /\ invites = <<>>
    /\ refresh = <<>>
    /\ access = {}
    /\ challenges = {}
    /\ revoked = {}
    /\ server = "seed"
    /\ call = [c \in Client |-> Idle]
    /\ now = Begin
    /\ uses = [i \in 1 .. MaxInvite |-> 0]
    /\ gone = {}
    /\ late = {}
    /\ barred = {}

-----------------------------------------------------------------------------
(* Tokens (auth/tokens.go over valkey/revocation.go).                      *)

Live(expires) == now < expires

IsRevoked(jti) == \E r \in revoked : r.jti = jti
ParseRefresh(jti) == Live(refresh[jti].expires) /\ ~IsRevoked(jti)

\* A revocation replaces the one that was there (SET).
Enter(jti, life) ==
    revoked' = {r \in revoked : r.jti # jti} \cup {[jti |-> jti, until |-> now + life]}

\* Mutant: the entry lives as long as an access token.
RevokeAsAccess(jti) == Enter(jti, AccessTTL)

\* What is left of a life, and the whole seconds of it that EX can name.
Left(jti) == refresh[jti].expires - now
WholeSeconds(span) == span - (span % Second)

\* SET refuses an expiry of no seconds.
CannotRevoke(jti) == Live(refresh[jti].expires) /\ Left(jti) < Second

\* A token that has expired needs no entry; the others have one for the whole
\* seconds of the rest of their life.
Revoke(jti) ==
    IF Left(jti) < Second
    THEN revoked' = revoked
    ELSE Enter(jti, WholeSeconds(Left(jti)))

\* A token's expiry is a date in whole seconds.
NumericDate(moment) == WholeSeconds(moment)

IssueMFAChallenge(p) ==
    challenges' = challenges \cup
                    {[who |-> p, expires |-> NumericDate(now + ChallengeTTL)]}

IssuePair(p) ==
    /\ Len(refresh) < MaxToken
    /\ refresh' = Append(refresh, [who |-> p, expires |-> NumericDate(now + RefreshTTL)])
    /\ access' = access \cup {[who |-> p, expires |-> NumericDate(now + AccessTTL)]}

-----------------------------------------------------------------------------
(* Signing in (service/authsvc.go over postgres/authrepo.go).              *)

\* The row is read once.  Without an enrolment a secret is minted by a later
\* statement; with one there is nothing left to write.
Login(c, p) ==
    /\ call[c] = Idle
    /\ principal[p].password /\ principal[p].active
    /\ IF DevSkipMFA
       THEN /\ call' = [call EXCEPT ![c] = Does("login", "complete", p)]
            /\ UNCHANGED tokens
       ELSE IF principal[p].enrolled
       THEN /\ IssueMFAChallenge(p)
            /\ UNCHANGED <<refresh, access, revoked, call>>
       ELSE /\ call' = [call EXCEPT ![c] = Does("login", "mint", p)]
            /\ UNCHANGED tokens
    /\ UNCHANGED <<tables, now, uses>>

\* A new secret is never enrolled, whatever the row says by now.
SetMFASecret(c) ==
    /\ call[c].step = "mint"
    /\ principal' = [principal EXCEPT ![call[c].who].secret = TRUE,
                                      ![call[c].who].enrolled = FALSE]
    /\ IssueMFAChallenge(call[c].who)
    /\ End(c)
    /\ UNCHANGED <<invites, refresh, access, revoked, now, uses>>

\* The code is checked against the secret that was read; the enrolment is
\* stamped later, on whatever secret the row then holds.
VerifyMFA(c, challenge) ==
    /\ call[c] = Idle
    /\ Live(challenge.expires)
    /\ LET row == principal[challenge.who]
           step == IF row.enrolled THEN "complete" ELSE "confirm"
       IN  /\ row.active /\ row.secret
           /\ call' = [call EXCEPT ![c] = Does("login", step, challenge.who)]
    /\ UNCHANGED <<tables, tokens, now, uses>>

\* Mutant: the stamp does not ask for a secret.
StampEnrolment(c) ==
    /\ call[c].step = "confirm"
    /\ principal' = [principal EXCEPT ![call[c].who].enrolled = TRUE]
    /\ Continue(c, "complete")
    /\ UNCHANGED <<invites, tokens, now, uses>>

ConfirmMFAEnrolment(c) ==
    /\ call[c].step = "confirm"
    /\ principal' = [principal EXCEPT ![call[c].who].enrolled =
                        @ \/ principal[call[c].who].secret]
    /\ Continue(c, "complete")
    /\ UNCHANGED <<invites, tokens, now, uses>>

CompleteLogin(c) ==
    /\ call[c].step = "complete"
    /\ IssuePair(call[c].who)
    /\ End(c)
    /\ UNCHANGED <<tables, challenges, revoked, now, uses>>

-----------------------------------------------------------------------------
(* The session's life.                                                     *)

\* A tab, a second tab, or a request that is sent again: any token that was
\* ever issued may come.
Refresh(c, jti) ==
    /\ call[c] = Idle
    /\ ParseRefresh(jti)
    /\ call' = [call EXCEPT ![c] =
                    [Does("refresh", "reread", refresh[jti].who) EXCEPT !.token = jti]]
    /\ UNCHANGED <<tables, tokens, now, uses>>

\* Mutant: the account is not looked up again.
TrustClaims(c) ==
    /\ call[c].step = "reread"
    /\ Continue(c, "revoke")
    /\ UNCHANGED <<tables, tokens, now, uses>>

RereadAccount(c) ==
    /\ call[c].step = "reread"
    /\ IF principal[call[c].who].active THEN Continue(c, "revoke") ELSE End(c)
    /\ UNCHANGED <<tables, tokens, now, uses>>

RevokePresented(c) ==
    /\ call[c].step = "revoke"
    /\ Revoke(call[c].token)
    /\ IF CannotRevoke(call[c].token) THEN End(c) ELSE Continue(c, "complete")
    /\ UNCHANGED <<tables, refresh, access, challenges, now, uses>>

\* The answer is the same whether the revocation was recorded or not.
Logout(jti) ==
    /\ Revoke(jti)
    /\ UNCHANGED <<tables, refresh, access, challenges, call, now, uses>>

-----------------------------------------------------------------------------
(* Guarded requests (server/authz_middleware.go, biz/tenancy/context.go,   *)
(* service/usersvc.go, service/invitesvc.go).                              *)

\* The account is read again for each request; what it says then is what the
\* handler goes by, however long it takes.  The routes that only read end here.
Authorise(c, a, route) ==
    /\ call[c] = Idle
    /\ Live(a.expires)
    /\ Can(principal[a.who], routes[route])

UpdateUser(c, a, target, change) ==
    /\ Authorise(c, a, "users")
    /\ change # Keep
    /\ target = a.who => change.active # "off" /\ change.role \in {"keep", "admin"}
    /\ principal[target].known
    /\ call' = [call EXCEPT ![c] = [Does("update", "active", a.who) EXCEPT
                                        !.target = target, !.change = change]]
    /\ UNCHANGED <<tables, tokens, now, uses>>

\* Three statements in this order, each only if the body asks for it.
SetActive(c) ==
    /\ call[c].step = "active"
    /\ principal' = [principal EXCEPT ![call[c].target].active =
                        CASE call[c].change.active = "on" -> TRUE
                          [] call[c].change.active = "off" -> FALSE
                          [] OTHER -> @]
    /\ Continue(c, "role")
    /\ UNCHANGED <<invites, tokens, now, uses>>

SetRole(c) ==
    /\ call[c].step = "role"
    /\ principal' = [principal EXCEPT ![call[c].target].role =
                        IF call[c].change.role = "keep" THEN @ ELSE call[c].change.role]
    /\ Continue(c, "mfa")
    /\ UNCHANGED <<invites, tokens, now, uses>>

ClearMFA(c) ==
    /\ call[c].step = "mfa"
    /\ principal' = [principal EXCEPT ![call[c].target].secret =
                                          @ /\ ~call[c].change.resetMFA,
                                      ![call[c].target].enrolled =
                                          @ /\ ~call[c].change.resetMFA]
    /\ End(c)
    /\ UNCHANGED <<invites, tokens, now, uses>>

-----------------------------------------------------------------------------
(* One-time setup links (service/invitesvc.go, postgres/authrepo.go).      *)

\* The guards of UpdateUser on one's own account are not asked here.
CreateInvite(c, a, target, role) ==
    /\ Authorise(c, a, "invites")
    /\ call' = [call EXCEPT ![c] = [Does("invite", "upsert", a.who) EXCEPT
                                        !.target = target, !.change.role = role]]
    /\ UNCHANGED <<tables, tokens, now, uses>>

Upsert(p, role) ==
    principal' = [principal EXCEPT ![p].known = TRUE, ![p].active = TRUE,
                                   ![p].role = role]

UpsertInvited(c) ==
    /\ call[c].step = "upsert"
    /\ Upsert(call[c].target, call[c].change.role)
    /\ Continue(c, "link")
    /\ UNCHANGED <<invites, tokens, now, uses>>

\* Mutant: the open link is not retired.
InsertOnly(p) ==
    /\ Len(invites) < MaxInvite
    /\ invites' = Append(invites, [who |-> p, open |-> TRUE, expires |-> now + InviteTTL])

\* Retires the open link and inserts the new one, in one transaction.
InsertInvite(p) ==
    /\ Len(invites) < MaxInvite
    /\ invites' = Append([i \in DOMAIN invites |->
                            [invites[i] EXCEPT !.open = @ /\ invites[i].who # p]],
                         [who |-> p, open |-> TRUE, expires |-> now + InviteTTL])

IssueLink(c) ==
    /\ call[c].step = "link"
    /\ InsertInvite(call[c].target)
    /\ End(c)
    /\ UNCHANGED <<principal, tokens, now, uses>>

\* PreviewInvite asks the same and changes nothing.
LoadInvite(i) ==
    /\ invites[i].open
    /\ now <= invites[i].expires
    /\ principal[invites[i].who].active

Redeem(c, i) ==
    /\ call[c] = Idle
    /\ LoadInvite(i)
    /\ call' = [call EXCEPT ![c] =
                    [Does("redeem", "spend", invites[i].who) EXCEPT !.token = i]]
    /\ UNCHANGED <<tables, tokens, now, uses>>

\* Mutant: the link is marked whoever spent it.
SpendAgain(c) ==
    /\ call[c].step = "spend"
    /\ invites' = [invites EXCEPT ![call[c].token].open = FALSE]
    /\ Continue(c, "password")
    /\ UNCHANGED <<principal, tokens, now, uses>>

RedeemInvite(c) ==
    /\ call[c].step = "spend"
    /\ LET invite == invites[call[c].token]
       IN  IF invite.open /\ now < invite.expires
           THEN /\ invites' = [invites EXCEPT ![call[c].token].open = FALSE]
                /\ Continue(c, "password")
           ELSE /\ End(c)
                /\ UNCHANGED invites
    /\ UNCHANGED <<principal, tokens, now, uses>>

SetPassword(c) ==
    /\ call[c].step = "password"
    /\ principal' = [principal EXCEPT ![call[c].who].password = TRUE]
    /\ uses' = [uses EXCEPT ![call[c].token] = @ + 1]
    /\ End(c)
    /\ UNCHANGED <<invites, tokens, now>>

-----------------------------------------------------------------------------
(* The process, the store and the clock.                                   *)

\* A statement fails, Valkey cannot be asked, or the request is given up: what
\* was written stays.
Fails(c) ==
    /\ call[c] # Idle
    /\ End(c)
    /\ UNCHANGED <<tables, tokens, now, uses>>

AnyPasswordSet == \E p \in Account : principal[p].active /\ principal[p].password

\* The API server starts again, also when a statement of its start failed.
Restart ==
    /\ server' = "seed"
    /\ call' = [c \in Client |-> Idle]
    /\ UNCHANGED <<tables, tokens, now, uses>>

\* Whatever became of the seeded people.  Nobody is served before all of the
\* statements went through, and those of a start that failed are repeated.
SeedDev ==
    /\ server = "seed"
    /\ principal' = [p \in Account |->
                        IF p \in DOMAIN Seeds
                        THEN [principal[p] EXCEPT !.known = TRUE, !.active = TRUE,
                                                  !.role = Seeds[p],
                                                  !.password = @ \/ SeedPassword]
                        ELSE principal[p]]
    /\ server' = "bootstrap"
    /\ UNCHANGED <<invites, tokens, call, now, uses>>

\* Somebody is let in if nobody can sign in.
BootstrapAdmin ==
    /\ server = "bootstrap"
    /\ IF AnyPasswordSet
       THEN server' = "serving" /\ UNCHANGED principal
       ELSE server' = "link" /\ Upsert(Bootstrap, "admin")
    /\ UNCHANGED <<invites, tokens, call, now, uses>>

BootstrapLink ==
    /\ server = "link"
    /\ InsertInvite(Bootstrap)
    /\ server' = "serving"
    /\ UNCHANGED <<principal, tokens, call, now, uses>>

\* Valkey drops what has expired; access and challenge tokens that have are as
\* good as gone.
Tick ==
    /\ now < MaxTime
    /\ now' = now + 1
    /\ revoked' = {r \in revoked : r.until > now'}
    /\ access' = {a \in access : a.expires > now'}
    /\ challenges' = {challenge \in challenges : challenge.expires > now'}
    /\ UNCHANGED <<tables, refresh, server, call, uses>>

-----------------------------------------------------------------------------
Requests(c) ==
    \/ \E p \in Account : Login(c, p)
    \/ \E challenge \in challenges : VerifyMFA(c, challenge)
    \/ \E jti \in DOMAIN refresh : Refresh(c, jti)
    \/ \E a \in access, target \in Account :
        \/ \E change \in Changes : UpdateUser(c, a, target, change)
        \/ \E role \in Offered : CreateInvite(c, a, target, role)
    \/ \E i \in DOMAIN invites : Redeem(c, i)

Statements(c) ==
    \/ SetMFASecret(c) \/ ConfirmMFAEnrolment(c) \/ CompleteLogin(c)
    \/ RereadAccount(c) \/ RevokePresented(c)
    \/ SetActive(c) \/ SetRole(c) \/ ClearMFA(c)
    \/ UpsertInvited(c) \/ IssueLink(c) \/ RedeemInvite(c) \/ SetPassword(c)
    \/ Fails(c)

\* What the caller of a request must be for it to be served.
Entitled(rows, request) ==
    CASE request.op = "none" -> TRUE
      [] request.op \in {"update", "invite"} -> Can(rows[request.who], "manage_users")
      [] OTHER -> rows[request.who].active

Observe ==
    /\ gone' = gone \cup {r.jti : r \in revoked'}
    /\ late' = {c \in Client :
                  /\ call'[c].op = "refresh"
                  /\ IF call[c] = Idle
                     THEN call'[c].token \in gone /\ Left(call'[c].token) >= Second
                     ELSE c \in late}
    /\ barred' = {c \in Client : /\ ~Entitled(principal', call'[c])
                                 /\ call[c] = Idle \/ c \in barred}

Serve ==
    /\ server = "serving"
    /\ \/ \E c \in Client : Requests(c) \/ Statements(c)
       \/ \E jti \in DOMAIN refresh : Logout(jti)
    /\ UNCHANGED server

Next ==
    /\ \/ Serve
       \/ Restart \/ SeedDev \/ BootstrapAdmin \/ BootstrapLink
       \/ Tick
    /\ Observe

Spec == Init /\ [][Next]_vars

-----------------------------------------------------------------------------
Step == {"none", "mint", "confirm", "complete", "reread", "revoke",
         "active", "role", "mfa", "upsert", "link", "spend", "password"}
Op == {"none", "login", "refresh", "update", "invite", "redeem"}

AccessTypeOK ==
    /\ principal \in [Account -> AccountRow]
    /\ DOMAIN invites \subseteq 1 .. MaxInvite
    /\ DOMAIN refresh \subseteq 1 .. MaxToken
    /\ revoked \subseteq [jti : DOMAIN refresh, until : Nat]
    /\ access \cup challenges \subseteq [who : Account, expires : Nat]
    /\ server \in {"seed", "bootstrap", "link", "serving"}
    /\ call \in [Client -> [op : Op, step : Step, who : Account, target : Account,
                            token : 0 .. MaxInvite + MaxToken, change : Change]]
    /\ \A p \in Account :
         Cardinality({i \in DOMAIN invites : invites[i].who = p /\ invites[i].open}) <= 1

\* However many holders race, and whatever is issued meanwhile, a setup link
\* sets one password (RedeemInvite before SetPassword).
LinkSetsOnePassword == \A i \in 1 .. MaxInvite : uses[i] <= 1

\* A refresh that begins after its token's revocation was recorded opens no
\* session, until less than a second is left of the token's life: the entry in
\* Valkey is dated in whole seconds of what was left, so it lapses before the
\* token, by less than a second, however often it is written again (Revoke).
RevokedStaysOut == late = {}

\* Nothing is done for a caller who at no moment of the request was an active
\* principal, or an administrator where that is asked: a role or an activation
\* that was taken away before counts at once (ResolveAccess, Refresh), unlike
\* the claims of the token.
CallerWasEntitled == \A c \in barred : call[c].step = "reread"

\* An account whose second factor counts as enrolled has one: otherwise no
\* code could ever verify and no login would mint another (ConfirmMFAEnrolment
\* against a ClearMFA in between).
EnrolledHasSecret == \A p \in Account : principal[p].enrolled => principal[p].secret
=============================================================================
