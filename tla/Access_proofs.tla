----------------------------- MODULE Access_proofs -----------------------------
(***************************************************************************)
(* For any number of clients, accounts, tokens and links: a setup link     *)
(* sets one password, what was revoked stays out, nothing is done for a    *)
(* caller who was never entitled, and who is enrolled has a secret.        *)
(***************************************************************************)
EXTENDS Access, FiniteSetTheorems, SequenceTheorems, TLAPS

Token == [who : Account, expires : Nat]
Link == [who : Account, open : BOOLEAN, expires : Nat]
Call == [op : Op, step : Step, who : Account, target : Account,
         token : 0 .. MaxInvite + MaxToken, change : Change]

CallsTypeOK == call \in [Client -> Call]
TokensTypeOK ==
    /\ now \in Nat
    /\ refresh \in Seq(Token)
    /\ Len(refresh) <= MaxToken
    /\ access \subseteq Token
    /\ challenges \subseteq Token
LinksTypeOK ==
    /\ invites \in Seq(Link)
    /\ Len(invites) <= MaxInvite
    /\ uses \in [1 .. MaxInvite -> Nat]

Redeeming(c) == call[c].step \in {"spend", "password"}

\* A handler that has spent a link is the only one that has, and nobody before it.
SpentByOne ==
    /\ \A i \in 1 .. MaxInvite :
          /\ uses[i] <= 1
          /\ uses[i] = 1 => i \in DOMAIN invites /\ ~invites[i].open
    /\ \A c \in Client : Redeeming(c) => call[c].token \in DOMAIN invites
    /\ \A c \in Client : call[c].step = "password" =>
          ~invites[call[c].token].open /\ uses[call[c].token] = 0
    /\ \A c, d \in Client : /\ call[c].step = "password" /\ call[d].step = "password"
                            /\ call[c].token = call[d].token
                            => c = d

LinkInv == CallsTypeOK /\ TokensTypeOK /\ LinksTypeOK /\ SpentByOne

-----------------------------------------------------------------------------
LEMMA IdleType == Idle \in Call /\ Idle.step = "none"
BY AccessAssumption DEF Idle, Call, Keep, Change, Op, Step, Role

LEMMA DoesType ==
    ASSUME NEW op \in Op, NEW step \in Step, NEW who \in Account
    PROVE  /\ Does(op, step, who) \in Call
           /\ Does(op, step, who).step = step
BY IdleType DEF Does, Call

\* A link and a token are numbered as they were issued.
LEMMA Numbered ==
    ASSUME TokensTypeOK, LinksTypeOK
    PROVE  /\ DOMAIN invites = 1 .. Len(invites) /\ DOMAIN invites \subseteq 1 .. MaxInvite
           /\ DOMAIN refresh = 1 .. Len(refresh) /\ DOMAIN refresh \subseteq 1 .. MaxToken
           /\ \A i \in DOMAIN invites \cup DOMAIN refresh : i \in 0 .. MaxInvite + MaxToken
           /\ \A i \in DOMAIN invites : invites[i] \in Link
           /\ \A j \in DOMAIN refresh : refresh[j] \in Token
<1>1. /\ DOMAIN invites = 1 .. Len(invites) /\ DOMAIN refresh = 1 .. Len(refresh)
      /\ Len(invites) \in Nat /\ Len(refresh) \in Nat
  BY LenProperties DEF TokensTypeOK, LinksTypeOK
<1>2. /\ DOMAIN invites \subseteq 1 .. MaxInvite /\ DOMAIN refresh \subseteq 1 .. MaxToken
      /\ \A i \in DOMAIN invites \cup DOMAIN refresh : i \in 0 .. MaxInvite + MaxToken
  BY <1>1, AccessAssumption DEF TokensTypeOK, LinksTypeOK
<1>. QED
  BY <1>1, <1>2, ElementOfSeq DEF TokensTypeOK, LinksTypeOK

LEMMA InitLinks == Init => LinkInv
<1>. SUFFICES ASSUME Init PROVE LinkInv
  OBVIOUS
<1>1. CallsTypeOK
  BY IdleType DEF Init, CallsTypeOK
<1>2. TokensTypeOK /\ LinksTypeOK
  BY AccessAssumption DEF Init, TokensTypeOK, LinksTypeOK
<1>3. SpentByOne
  BY IdleType DEF Init, SpentByOne, Redeeming
<1>. QED
  BY <1>1, <1>2, <1>3 DEF LinkInv

-----------------------------------------------------------------------------
\* How a handler moves: to its next call, to its end, or from rest.
Moves(c, step) ==
    /\ call' \in [Client -> Call]
    /\ call'[c].step = step
    /\ \A d \in Client \ {c} : call'[d] = call[d]

LEMMA ContinueMoves ==
    ASSUME CallsTypeOK, NEW c \in Client, NEW step \in Step, Continue(c, step)
    PROVE  Moves(c, step) /\ call'[c].token = call[c].token
BY DEF CallsTypeOK, Call, Continue, Moves

LEMMA EndMoves ==
    ASSUME CallsTypeOK, NEW c \in Client, End(c)
    PROVE  Moves(c, "none")
BY IdleType DEF CallsTypeOK, End, Moves

LEMMA BeginMoves ==
    ASSUME CallsTypeOK, NEW c \in Client, NEW request \in Call,
           call' = [call EXCEPT ![c] = request]
    PROVE  Moves(c, request.step) /\ call'[c].token = request.token
BY DEF CallsTypeOK, Moves

\* What no handler of a link does, and what ends, disturbs nothing.
LEMMA QuietStep ==
    ASSUME LinkInv, UNCHANGED <<invites, uses>>, NEW c \in Client, NEW step,
           step \notin {"spend", "password"}, Moves(c, step) \/ call' = call
    PROVE  CallsTypeOK' /\ LinksTypeOK' /\ SpentByOne'
<1>1. CallsTypeOK' /\ LinksTypeOK'
  BY DEF LinkInv, CallsTypeOK, LinksTypeOK, Moves
<1>2. \A d \in Client : call'[d] = call[d] \/ call'[d].step \notin {"spend", "password"}
  BY DEF Moves
<1>3. SpentByOne'
  BY <1>2 DEF LinkInv, SpentByOne, Redeeming
<1>. QED
  BY <1>1, <1>3

-----------------------------------------------------------------------------
\* The tokens, whoever gets them.

LEMMA TokensKept ==
    ASSUME TokensTypeOK, UNCHANGED <<now, refresh, access, challenges>>
    PROVE  TokensTypeOK'
BY DEF TokensTypeOK

\* Taking whole seconds loses less than one.
LEMMA WholeSecondsLose ==
    ASSUME NEW span \in Nat
    PROVE  /\ WholeSeconds(span) \in Nat
           /\ WholeSeconds(span) <= span /\ span < WholeSeconds(span) + Second
           /\ span >= Second => WholeSeconds(span) >= 1
<1>1. Second \in Nat \ {0}
  BY AccessAssumption
<1>2. span % Second \in Nat /\ span % Second < Second
  BY <1>1
<1>3. span % Second <= span
  <2>1. CASE span < Second
    BY <1>1, <2>1
  <2>2. CASE span >= Second
    BY <1>1, <1>2, <2>2
  <2>. QED
    BY <1>1, <2>1, <2>2
<1>. QED
  BY <1>1, <1>2, <1>3 DEF WholeSeconds

LEMMA DatesAreTimes ==
    ASSUME TokensTypeOK, NEW ttl \in Nat
    PROVE  NumericDate(now + ttl) \in Nat
BY WholeSecondsLose DEF TokensTypeOK, NumericDate

LEMMA ChallengeType ==
    ASSUME TokensTypeOK, NEW p \in Account, IssueMFAChallenge(p),
           UNCHANGED <<now, refresh, access>>
    PROVE  TokensTypeOK'
<1>1. [who |-> p, expires |-> NumericDate(now + ChallengeTTL)] \in Token
  BY DatesAreTimes, AccessAssumption DEF Token
<1>. QED
  BY <1>1 DEF TokensTypeOK, IssueMFAChallenge

LEMMA PairType ==
    ASSUME TokensTypeOK, NEW p \in Account, IssuePair(p), UNCHANGED <<now, challenges>>
    PROVE  TokensTypeOK'
<1>1. /\ [who |-> p, expires |-> NumericDate(now + RefreshTTL)] \in Token
      /\ [who |-> p, expires |-> NumericDate(now + AccessTTL)] \in Token
  BY DatesAreTimes, AccessAssumption DEF Token
<1>2. refresh' \in Seq(Token) /\ access' \subseteq Token
  BY <1>1, AppendProperties DEF TokensTypeOK, IssuePair
<1>3. Len(refresh') <= MaxToken
  BY <1>1, AppendProperties, LenProperties, AccessAssumption DEF TokensTypeOK, IssuePair
<1>. QED
  BY <1>2, <1>3 DEF TokensTypeOK

-----------------------------------------------------------------------------
\* Requests that begin, but for the redemption of a link.

LEMMA LoginStep ==
    ASSUME LinkInv, NEW c \in Client, NEW p \in Account, Login(c, p)
    PROVE  LinkInv'
<1>. USE DEF LinkInv
<1>1. /\ Does("login", "complete", p) \in Call /\ Does("login", "complete", p).step = "complete"
      /\ Does("login", "mint", p) \in Call /\ Does("login", "mint", p).step = "mint"
  BY DoesType DEF Op, Step
<1>2. Moves(c, "complete") \/ Moves(c, "mint") \/ call' = call
  BY <1>1, BeginMoves DEF Login
<1>3. CallsTypeOK' /\ LinksTypeOK' /\ SpentByOne'
  BY <1>2, QuietStep DEF Login, tables
<1>4. TokensTypeOK'
  BY TokensKept, ChallengeType DEF Login, tokens
<1>. QED
  BY <1>3, <1>4

LEMMA VerifyMFAStep ==
    ASSUME LinkInv, NEW c \in Client, NEW challenge \in challenges, VerifyMFA(c, challenge)
    PROVE  LinkInv'
<1>. USE DEF LinkInv
<1>1. challenge.who \in Account
  BY DEF TokensTypeOK, Token
<1>2. PICK step \in {"complete", "confirm"} :
        call' = [call EXCEPT ![c] = Does("login", step, challenge.who)]
  BY DEF VerifyMFA
<1>3. Moves(c, step)
  <2>1. Does("login", step, challenge.who) \in Call /\ Does("login", step, challenge.who).step = step
    <3>1. "login" \in Op /\ step \in Step
      BY DEF Op, Step
    <3>. QED
      BY <1>1, <3>1, DoesType
  <2>. QED
    BY <1>2, <2>1, BeginMoves
<1>4. CallsTypeOK' /\ LinksTypeOK' /\ SpentByOne'
  BY <1>2, <1>3, QuietStep DEF VerifyMFA, tables
<1>. QED
  BY <1>4, TokensKept DEF VerifyMFA, tokens

LEMMA RefreshStep ==
    ASSUME LinkInv, NEW c \in Client, NEW jti \in DOMAIN refresh, Refresh(c, jti)
    PROVE  LinkInv'
<1>. USE DEF LinkInv
<1>1. refresh[jti].who \in Account /\ jti \in 0 .. MaxInvite + MaxToken
  BY Numbered DEF Token
<1>2. /\ Does("refresh", "reread", refresh[jti].who) \in Call
      /\ Does("refresh", "reread", refresh[jti].who).step = "reread"
  BY <1>1, DoesType DEF Op, Step
<1>3. Moves(c, "reread")
  <2>. DEFINE request == [Does("refresh", "reread", refresh[jti].who) EXCEPT !.token = jti]
  <2>1. request \in Call /\ request.step = "reread"
    BY <1>1, <1>2 DEF Call
  <2>2. call' = [call EXCEPT ![c] = request]
    BY DEF Refresh
  <2>. QED
    BY <2>1, <2>2, BeginMoves
<1>4. CallsTypeOK' /\ LinksTypeOK' /\ SpentByOne'
  BY <1>3, QuietStep DEF Refresh, tables
<1>. QED
  BY <1>4, TokensKept DEF Refresh, tokens

LEMMA AdminStep ==
    ASSUME LinkInv, NEW c \in Client, NEW a \in access, NEW target \in Account,
           \/ \E change \in Changes : UpdateUser(c, a, target, change)
           \/ \E role \in Offered : CreateInvite(c, a, target, role)
    PROVE  LinkInv'
<1>. USE DEF LinkInv
<1>1. a.who \in Account
  BY DEF TokensTypeOK, Token
<1>2. CASE \E change \in Changes : UpdateUser(c, a, target, change)
  <2>1. PICK change \in Changes : UpdateUser(c, a, target, change)
    BY <1>2
  <2>2. change \in Change
    BY AccessAssumption
  <2>3. /\ Does("update", "active", a.who) \in Call
        /\ Does("update", "active", a.who).step = "active"
    BY <1>1, DoesType DEF Op, Step
  <2>4. Moves(c, "active")
    <3>. DEFINE request == [Does("update", "active", a.who) EXCEPT
                                !.target = target, !.change = change]
    <3>1. request \in Call /\ request.step = "active"
      BY <2>2, <2>3 DEF Call
    <3>2. call' = [call EXCEPT ![c] = request]
      BY <2>1 DEF UpdateUser
    <3>. QED
      BY <3>1, <3>2, BeginMoves
  <2>5. CallsTypeOK' /\ LinksTypeOK' /\ SpentByOne'
    <3>1. UNCHANGED <<invites, uses>>
      BY <2>1 DEF UpdateUser, tables
    <3>. QED
      BY <2>4, <3>1, QuietStep
  <2>. QED
    BY <2>1, <2>5, TokensKept DEF UpdateUser, tokens
<1>3. CASE \E role \in Offered : CreateInvite(c, a, target, role)
  <2>1. PICK role \in Offered : CreateInvite(c, a, target, role)
    BY <1>3
  <2>2. role \in Role
    BY AccessAssumption
  <2>3. /\ Does("invite", "upsert", a.who) \in Call
        /\ Does("invite", "upsert", a.who).step = "upsert"
    BY <1>1, DoesType DEF Op, Step
  <2>4. Moves(c, "upsert")
    <3>. DEFINE request == [Does("invite", "upsert", a.who) EXCEPT
                                !.target = target, !.change.role = role]
    <3>1. Does("invite", "upsert", a.who).change \in Change
      BY <2>3 DEF Call
    <3>2. [Does("invite", "upsert", a.who).change EXCEPT !.role = role] \in Change
      BY <2>2, <3>1 DEF Change
    <3>3. request \in Call /\ request.step = "upsert"
      BY <2>3, <3>2 DEF Call
    <3>4. call' = [call EXCEPT ![c] = request]
      BY <2>1 DEF CreateInvite
    <3>. QED
      BY <3>3, <3>4, BeginMoves
  <2>5. CallsTypeOK' /\ LinksTypeOK' /\ SpentByOne'
    <3>1. UNCHANGED <<invites, uses>>
      BY <2>1 DEF CreateInvite, tables
    <3>. QED
      BY <2>4, <3>1, QuietStep
  <2>. QED
    BY <2>1, <2>5, TokensKept DEF CreateInvite, tokens
<1>. QED
  BY <1>2, <1>3

-----------------------------------------------------------------------------
\* The statements of the other handlers.

LEMMA CallWho ==
    ASSUME CallsTypeOK, NEW c \in Client
    PROVE  call[c].who \in Account /\ call[c].target \in Account
BY DEF CallsTypeOK, Call

LEMMA StatementStep ==
    ASSUME LinkInv, NEW c \in Client,
           \/ SetMFASecret(c) \/ ConfirmMFAEnrolment(c) \/ CompleteLogin(c)
           \/ RereadAccount(c) \/ RevokePresented(c)
           \/ SetActive(c) \/ SetRole(c) \/ ClearMFA(c)
           \/ UpsertInvited(c) \/ Fails(c)
    PROVE  LinkInv'
<1>. USE DEF LinkInv
<1>1. UNCHANGED <<invites, uses>>
  BY DEF SetMFASecret, ConfirmMFAEnrolment, CompleteLogin, RereadAccount, RevokePresented,
     SetActive, SetRole, ClearMFA, UpsertInvited, Fails, tables
<1>2. \/ End(c)
      \/ \E step \in {"complete", "revoke", "role", "mfa", "link"} : Continue(c, step)
  BY DEF SetMFASecret, ConfirmMFAEnrolment, CompleteLogin, RereadAccount, RevokePresented,
     SetActive, SetRole, ClearMFA, UpsertInvited, Fails
<1>3. PICK step \in {"none", "complete", "revoke", "role", "mfa", "link"} : Moves(c, step)
  <2>1. CASE End(c)
    BY <2>1, EndMoves
  <2>2. ASSUME NEW step \in {"complete", "revoke", "role", "mfa", "link"}, Continue(c, step)
        PROVE  Moves(c, step)
    <3>1. step \in Step
      BY DEF Step
    <3>. QED
      BY <2>2, <3>1, ContinueMoves
  <2>. QED
    BY <1>2, <2>1, <2>2
<1>4. CallsTypeOK' /\ LinksTypeOK' /\ SpentByOne'
  <2>1. step \notin {"spend", "password"}
    OBVIOUS
  <2>. QED
    BY <1>1, <1>3, <2>1, QuietStep
<1>5. CASE SetMFASecret(c)
  BY <1>4, <1>5, CallWho, ChallengeType DEF SetMFASecret
<1>6. CASE CompleteLogin(c)
  BY <1>4, <1>6, CallWho, PairType DEF CompleteLogin
<1>7. CASE UNCHANGED <<now, refresh, access, challenges>>
  BY <1>4, <1>7, TokensKept
<1>8. SetMFASecret(c) \/ CompleteLogin(c) \/ UNCHANGED <<now, refresh, access, challenges>>
  BY DEF ConfirmMFAEnrolment, RereadAccount, RevokePresented,
     SetActive, SetRole, ClearMFA, UpsertInvited, Fails, tokens
<1>. QED
  BY <1>5, <1>6, <1>7, <1>8

-----------------------------------------------------------------------------
\* The life of a link.

\* A new link retires the account's open one and reopens none.
LEMMA InsertKeeps ==
    ASSUME TokensTypeOK, LinksTypeOK, NEW p \in Account, InsertInvite(p)
    PROVE  /\ invites' \in Seq(Link)
           /\ Len(invites') <= MaxInvite
           /\ \A i \in DOMAIN invites :
                 i \in DOMAIN invites' /\ (~invites[i].open => ~invites'[i].open)
<1>. DEFINE retired == [i \in DOMAIN invites |->
                           [invites[i] EXCEPT !.open = @ /\ invites[i].who # p]]
            new == [who |-> p, open |-> TRUE, expires |-> now + InviteTTL]
<1>1. new \in Link
  BY AccessAssumption DEF TokensTypeOK, Link
<1>2. \A i \in DOMAIN invites : invites[i] \in Link
  BY ElementOfSeq, LenProperties DEF LinksTypeOK
<1>3. \A i \in DOMAIN invites : /\ retired[i] \in Link
                                /\ ~invites[i].open => ~retired[i].open
  BY <1>2 DEF Link
<1>4. DOMAIN invites = 1 .. Len(invites) /\ Len(invites) \in Nat
  BY LenProperties DEF LinksTypeOK
<1>5. retired \in Seq(Link) /\ Len(retired) = Len(invites)
  <2>1. retired \in [1 .. Len(invites) -> Link]
    BY <1>3, <1>4
  <2>. HIDE DEF retired
  <2>. QED
    BY <1>4, <2>1
<1>6. invites' = Append(retired, new) /\ Len(invites) < MaxInvite
  BY DEF InsertInvite
<1>7. /\ Append(retired, new) \in Seq(Link)
      /\ Len(Append(retired, new)) = Len(retired) + 1
      /\ \A i \in 1 .. Len(retired) : Append(retired, new)[i] = retired[i]
  BY <1>1, <1>5, AppendProperties
<1>8. DOMAIN invites' = 1 .. Len(invites) + 1
  BY <1>5, <1>6, <1>7, LenProperties
<1>9. Len(invites') <= MaxInvite
  BY <1>4, <1>5, <1>6, <1>7, AccessAssumption
<1>. HIDE DEF retired, new
<1>10. \A i \in DOMAIN invites : i \in DOMAIN invites' /\ invites'[i] = retired[i]
  BY <1>4, <1>5, <1>6, <1>7, <1>8
<1>. QED
  BY <1>3, <1>6, <1>7, <1>9, <1>10

\* Retiring more links leaves what was spent spent.
LEMMA SpentAfterInsert ==
    ASSUME LinkInv, NEW p \in Account, InsertInvite(p), uses' = uses,
           \A d \in Client : call'[d] = call[d] \/ call'[d].step \notin {"spend", "password"}
    PROVE  LinksTypeOK' /\ SpentByOne'
<1>1. LinksTypeOK'
  BY InsertKeeps DEF LinkInv, LinksTypeOK
<1>2. \A i \in DOMAIN invites :
         i \in DOMAIN invites' /\ (~invites[i].open => ~invites'[i].open)
  BY InsertKeeps DEF LinkInv
<1>3. SpentByOne'
  BY <1>2 DEF LinkInv, SpentByOne, Redeeming
<1>. QED
  BY <1>1, <1>3

LEMMA IssueLinkStep ==
    ASSUME LinkInv, NEW c \in Client, IssueLink(c)
    PROVE  LinkInv'
<1>. USE DEF LinkInv
<1>1. Moves(c, "none")
  BY EndMoves DEF IssueLink
<1>2. \A d \in Client : call'[d] = call[d] \/ call'[d].step \notin {"spend", "password"}
  BY <1>1 DEF Moves
<1>3. LinksTypeOK' /\ SpentByOne'
  BY <1>2, CallWho, SpentAfterInsert DEF IssueLink
<1>4. CallsTypeOK' /\ TokensTypeOK'
  BY <1>1, TokensKept DEF CallsTypeOK, Moves, IssueLink, tokens
<1>. QED
  BY <1>3, <1>4

LEMMA RedeemStep ==
    ASSUME LinkInv, NEW c \in Client, NEW i \in DOMAIN invites, Redeem(c, i)
    PROVE  LinkInv'
<1>. USE DEF LinkInv
<1>. DEFINE request == [Does("redeem", "spend", invites[i].who) EXCEPT !.token = i]
<1>1. invites[i].who \in Account /\ i \in 0 .. MaxInvite + MaxToken
  BY Numbered DEF Link
<1>2. Does("redeem", "spend", invites[i].who) \in Call
      /\ Does("redeem", "spend", invites[i].who).step = "spend"
  BY <1>1, DoesType DEF Op, Step
<1>3. request \in Call /\ request.step = "spend" /\ request.token = i
  BY <1>1, <1>2 DEF Call
<1>4. call' = [call EXCEPT ![c] = request] /\ UNCHANGED <<invites, uses>>
  BY DEF Redeem, tables
<1>5. Moves(c, "spend") /\ call'[c].token = i
  BY <1>3, <1>4, BeginMoves
<1>6. SpentByOne'
  BY <1>4, <1>5 DEF SpentByOne, Redeeming, Moves
<1>7. CallsTypeOK' /\ LinksTypeOK' /\ TokensTypeOK'
  BY <1>4, <1>5, TokensKept DEF CallsTypeOK, LinksTypeOK, Moves, Redeem, tokens
<1>. QED
  BY <1>6, <1>7

\* An open link has set no password, and no handler is about to set one by it.
LEMMA SpendStep ==
    ASSUME LinkInv, NEW c \in Client, RedeemInvite(c)
    PROVE  LinkInv'
<1>. USE DEF LinkInv
<1>. DEFINE i == call[c].token
<1>1. i \in DOMAIN invites /\ uses' = uses
  BY DEF RedeemInvite, SpentByOne, Redeeming
<1>2. DOMAIN invites = 1 .. Len(invites) /\ Len(invites) \in Nat /\ i \in 1 .. MaxInvite
  BY <1>1, LenProperties, AccessAssumption DEF LinksTypeOK
<1>3. TokensTypeOK'
  BY TokensKept DEF RedeemInvite, tokens
<1>4. CASE invites[i].open /\ Continue(c, "password")
           /\ invites' = [invites EXCEPT ![i].open = FALSE]
  <2>1. Moves(c, "password") /\ call'[c].token = i
    <3>1. "password" \in Step
      BY DEF Step
    <3>. QED
      BY <1>4, <3>1, ContinueMoves
  <2>2. [invites[i] EXCEPT !.open = FALSE] \in Link
    <3>1. invites[i] \in Link
      BY <1>1, <1>2, ElementOfSeq DEF LinksTypeOK
    <3>. QED
      BY <3>1 DEF Link
  <2>3. invites' \in Seq(Link) /\ Len(invites') = Len(invites)
    BY <1>1, <1>2, <1>4, <2>2, ExceptSeq DEF LinksTypeOK
  <2>4. /\ DOMAIN invites' = DOMAIN invites
        /\ ~invites'[i].open
        /\ \A j \in DOMAIN invites : j # i => invites'[j] = invites[j]
    <3>1. invites[i] \in Link
      BY <1>1, <1>2, ElementOfSeq DEF LinksTypeOK
    <3>. QED
      BY <1>1, <1>4, <3>1 DEF Link
  <2>5. uses[i] = 0
    <3>1. uses[i] \in Nat /\ uses[i] <= 1
      BY <1>2 DEF LinksTypeOK, SpentByOne
    <3>2. uses[i] # 1
      BY <1>2, <1>4 DEF SpentByOne
    <3>. QED
      BY <3>1, <3>2
  <2>6. \A d \in Client : call[d].step = "password" => call[d].token # i
    BY <1>4 DEF SpentByOne
  <2>7. SpentByOne'
    BY <1>1, <2>1, <2>4, <2>5, <2>6 DEF SpentByOne, Redeeming, Moves
  <2>8. CallsTypeOK' /\ LinksTypeOK'
    BY <1>1, <2>1, <2>3 DEF CallsTypeOK, LinksTypeOK, Moves
  <2>. QED
    BY <1>3, <2>7, <2>8
<1>5. CASE End(c) /\ invites' = invites
  <2>1. Moves(c, "none")
    BY <1>5, EndMoves
  <2>. QED
    BY <1>1, <1>3, <1>5, <2>1, QuietStep
<1>. QED
  BY <1>4, <1>5 DEF RedeemInvite

LEMMA SetPasswordStep ==
    ASSUME LinkInv, NEW c \in Client, SetPassword(c)
    PROVE  LinkInv'
<1>. USE DEF LinkInv
<1>. DEFINE i == call[c].token
<1>1. /\ call[c].step = "password" /\ invites' = invites
      /\ uses' = [uses EXCEPT ![i] = @ + 1]
  BY DEF SetPassword
<1>2. i \in DOMAIN invites /\ ~invites[i].open /\ uses[i] = 0
  BY <1>1 DEF SpentByOne, Redeeming
<1>3. i \in 1 .. MaxInvite
  <2>1. DOMAIN invites = 1 .. Len(invites) /\ Len(invites) \in Nat
    BY LenProperties DEF LinksTypeOK
  <2>. QED
    BY <1>2, <2>1, AccessAssumption DEF LinksTypeOK
<1>4. Moves(c, "none")
  BY EndMoves DEF SetPassword
<1>5. \A d \in Client \ {c} : call[d].step = "password" => call[d].token # i
  BY <1>1 DEF SpentByOne
<1>6. SpentByOne'
  <2>1. /\ uses'[i] = 1
        /\ \A j : j # i => uses'[j] = uses[j]
    BY <1>1, <1>2, <1>3 DEF LinksTypeOK
  <2>. QED
    BY <1>1, <1>2, <1>4, <1>5, <2>1 DEF SpentByOne, Redeeming, Moves
<1>7. CallsTypeOK' /\ LinksTypeOK'
  BY <1>1, <1>3, <1>4 DEF CallsTypeOK, LinksTypeOK, Moves
<1>8. TokensTypeOK'
  BY TokensKept DEF SetPassword, tokens
<1>. QED
  BY <1>6, <1>7, <1>8

-----------------------------------------------------------------------------
\* Steps of no handler.

LEMMA LogoutStep ==
    ASSUME LinkInv, NEW jti, Logout(jti)
    PROVE  LinkInv'
BY DEF LinkInv, CallsTypeOK, TokensTypeOK, LinksTypeOK, SpentByOne, Redeeming, Logout, tables

\* A handler that the restart ends after it spent a link leaves the link spent.
LEMMA RestartStep ==
    ASSUME LinkInv, Restart
    PROVE  LinkInv'
<1>. USE DEF LinkInv
<1>1. /\ call' \in [Client -> Call]
      /\ \A d \in Client : call'[d].step = "none"
  BY IdleType DEF Restart
<1>2. TokensTypeOK' /\ UNCHANGED <<invites, uses>>
  BY TokensKept DEF Restart, tables, tokens
<1>. QED
  BY <1>1, <1>2 DEF CallsTypeOK, LinksTypeOK, SpentByOne, Redeeming

\* The statements of a start.
LEMMA StartStep ==
    ASSUME LinkInv, SeedDev \/ BootstrapAdmin \/ BootstrapLink
    PROVE  LinkInv'
<1>. USE DEF LinkInv
<1>1. UNCHANGED <<tokens, call, now, uses>>
  BY DEF SeedDev, BootstrapAdmin, BootstrapLink
<1>2. TokensTypeOK' /\ CallsTypeOK'
  BY <1>1, TokensKept DEF tokens, CallsTypeOK
<1>3. CASE invites' = invites
  BY <1>1, <1>2, <1>3 DEF LinksTypeOK, SpentByOne, Redeeming
<1>4. CASE InsertInvite(Bootstrap)
  <2>1. Bootstrap \in Account /\ \A d \in Client : call'[d] = call[d]
    BY <1>1, AccessAssumption
  <2>2. LinksTypeOK' /\ SpentByOne'
    BY <1>1, <1>4, <2>1, SpentAfterInsert
  <2>. QED
    BY <1>2, <2>2
<1>. QED
  BY <1>3, <1>4 DEF SeedDev, BootstrapAdmin, BootstrapLink

LEMMA TickStep ==
    ASSUME LinkInv, Tick
    PROVE  LinkInv'
<1>1. TokensTypeOK'
  BY DEF LinkInv, TokensTypeOK, Tick
<1>2. CallsTypeOK' /\ LinksTypeOK' /\ SpentByOne'
  BY DEF LinkInv, CallsTypeOK, LinksTypeOK, SpentByOne, Redeeming, Tick, tables
<1>. QED
  BY <1>1, <1>2 DEF LinkInv

-----------------------------------------------------------------------------
LEMMA StepLinks == LinkInv /\ [Next]_vars => LinkInv'
<1>. SUFFICES ASSUME LinkInv, [Next]_vars PROVE LinkInv'
  OBVIOUS
<1>1. ASSUME NEW c \in Client, Requests(c)
      PROVE  LinkInv'
  BY <1>1, LoginStep, VerifyMFAStep, RefreshStep, AdminStep, RedeemStep DEF Requests
<1>2. ASSUME NEW c \in Client, Statements(c)
      PROVE  LinkInv'
  BY <1>2, StatementStep, IssueLinkStep, SpendStep, SetPasswordStep DEF Statements
<1>3. CASE \/ Restart \/ SeedDev \/ BootstrapAdmin \/ BootstrapLink \/ Tick
           \/ \E jti \in DOMAIN refresh : Logout(jti)
  BY <1>3, RestartStep, StartStep, TickStep, LogoutStep
<1>4. CASE UNCHANGED vars
  BY <1>4 DEF LinkInv, CallsTypeOK, TokensTypeOK, LinksTypeOK, SpentByOne, Redeeming,
     vars, tables, tokens
<1>. QED
  BY <1>1, <1>2, <1>3, <1>4 DEF Next, Serve

\* However many holders race for a setup link, whatever links are issued and
\* whatever fails meanwhile, the link sets one password: RedeemInvite spends it
\* before SetPassword, in two statements that anything may come between.
THEOREM LinkSetsOnePasswordAlways == Spec => []LinkSetsOnePassword
<1>1. LinkInv => LinkSetsOnePassword
  BY DEF LinkInv, SpentByOne, LinkSetsOnePassword
<1>. QED
  BY InitLinks, StepLinks, <1>1, PTL DEF Spec

-----------------------------------------------------------------------------
(* How a handler moves, whatever it does.                                  *)

\* From one statement to the next; from "reread" only if the account that was
\* looked up is active.
GoesOn(c) ==
    /\ call[c] # Idle
    /\ call'[c].step \notin {"none", "reread", "upsert"}
    /\ call'[c].step = "revoke" => call[c].step = "reread"
    /\ call[c].step = "reread" => principal'[call[c].who].active
    /\ \A field \in {"op", "who", "token"} : call'[c][field] = call[c][field]

\* A request is let in: every one but a refresh on what its row says now.
IsLetIn(c) ==
    /\ call[c] = Idle
    /\ Entitled(principal', call'[c])
    /\ call'[c].op # "refresh"
    /\ call'[c].step \notin {"reread", "revoke"}
    /\ call'[c].step = "upsert" => call'[c].change.role \in Role

StartsRefresh(c) ==
    /\ call[c] = Idle
    /\ call'[c].op = "refresh" /\ call'[c].step = "reread"
    /\ call'[c].token \in DOMAIN refresh
    /\ ParseRefresh(call'[c].token)

Acts(c) == \/ call'[c] = Idle
           \/ GoesOn(c)
           \/ IsLetIn(c)
           \/ StartsRefresh(c)

\* One handler acts, or a restart ends them all.
HandlersMove == \A c \in Client : call'[c] = call[c] \/ Acts(c)

LEMMA ContinueActs ==
    ASSUME CallsTypeOK, NEW c \in Client, NEW step \in Step \ {"none", "reread", "upsert"},
           call[c].step # "none", Continue(c, step),
           step = "revoke" => call[c].step = "reread",
           call[c].step = "reread" => principal'[call[c].who].active
    PROVE  HandlersMove
<1>1. call[c] # Idle
  BY IdleType
<1>2. /\ call'[c].step = step
      /\ \A field \in {"op", "who", "token"} : call'[c][field] = call[c][field]
      /\ \A d \in Client \ {c} : call'[d] = call[d]
  BY DEF CallsTypeOK, Call, Continue
<1>. QED
  BY <1>1, <1>2 DEF HandlersMove, Acts, GoesOn

LEMMA EndActs ==
    ASSUME CallsTypeOK, NEW c \in Client, End(c)
    PROVE  HandlersMove
BY DEF CallsTypeOK, End, HandlersMove, Acts

LEMMA BeginActs ==
    ASSUME CallsTypeOK, NEW c \in Client, NEW request \in Call,
           call' = [call EXCEPT ![c] = request],
           call[c] = Idle, Entitled(principal', request), request.op # "refresh",
           request.step \notin {"reread", "revoke"},
           request.step = "upsert" => request.change.role \in Role
    PROVE  HandlersMove
BY DEF CallsTypeOK, HandlersMove, Acts, IsLetIn

LEMMA DoesFields ==
    ASSUME NEW op \in Op, NEW step \in Step, NEW who \in Account
    PROVE  /\ Does(op, step, who).op = op /\ Does(op, step, who).step = step
           /\ Does(op, step, who).who = who
BY IdleType DEF Does, Call, Idle

LEMMA RequestMoves ==
    ASSUME LinkInv, NEW c \in Client, Requests(c)
    PROVE  HandlersMove
<1>. USE DEF LinkInv
<1>1. ASSUME NEW p \in Account, Login(c, p) PROVE HandlersMove
  <2>1. CASE call' = call
    BY <2>1 DEF HandlersMove
  <2>2. ASSUME NEW step \in {"complete", "mint"},
               call' = [call EXCEPT ![c] = Does("login", step, p)]
        PROVE  HandlersMove
    <3>1. step \in Step /\ "login" \in Op
      BY DEF Step, Op
    <3>2. Does("login", step, p) \in Call
      BY <3>1, DoesType
    <3>3. Entitled(principal', Does("login", step, p))
      BY <1>1, <3>1, DoesFields DEF Login, Entitled, tables
    <3>4. call[c] = Idle
      BY <1>1 DEF Login
    <3>5. /\ Does("login", step, p).op # "refresh"
          /\ Does("login", step, p).step \notin {"reread", "revoke", "upsert"}
      BY <3>1, DoesFields
    <3>. QED
      BY <2>2, <3>2, <3>3, <3>4, <3>5, BeginActs
  <2>. QED
    BY <1>1, <2>1, <2>2 DEF Login
<1>2. ASSUME NEW challenge \in challenges, VerifyMFA(c, challenge) PROVE HandlersMove
  <2>1. challenge.who \in Account
    BY DEF TokensTypeOK, Token
  <2>2. PICK step \in {"complete", "confirm"} :
          call' = [call EXCEPT ![c] = Does("login", step, challenge.who)]
    BY <1>2 DEF VerifyMFA
  <2>3. step \in Step /\ "login" \in Op
    BY DEF Step, Op
  <2>4. Does("login", step, challenge.who) \in Call
    BY <2>1, <2>3, DoesType
  <2>5. Entitled(principal', Does("login", step, challenge.who))
    BY <1>2, <2>1, <2>3, DoesFields DEF VerifyMFA, Entitled, tables
  <2>6. call[c] = Idle
    BY <1>2 DEF VerifyMFA
  <2>7. /\ Does("login", step, challenge.who).op # "refresh"
        /\ Does("login", step, challenge.who).step \notin {"reread", "revoke", "upsert"}
    BY <2>1, <2>3, DoesFields
  <2>. QED
    BY <2>2, <2>4, <2>5, <2>6, <2>7, BeginActs
<1>3. ASSUME NEW jti \in DOMAIN refresh, Refresh(c, jti) PROVE HandlersMove
  <2>. DEFINE request == [Does("refresh", "reread", refresh[jti].who) EXCEPT !.token = jti]
  <2>1. refresh[jti].who \in Account /\ "refresh" \in Op /\ "reread" \in Step
    BY Numbered DEF Token, Op, Step
  <2>2. Does("refresh", "reread", refresh[jti].who) \in Call
    BY <2>1, DoesType
  <2>3. request.op = "refresh" /\ request.step = "reread" /\ request.token = jti
    BY <2>1, <2>2, DoesFields DEF Call
  <2>4. call' = [call EXCEPT ![c] = request] /\ call[c] = Idle /\ ParseRefresh(jti)
    BY <1>3 DEF Refresh
  <2>. HIDE DEF request
  <2>5. StartsRefresh(c) /\ \A d \in Client \ {c} : call'[d] = call[d]
    BY <2>3, <2>4 DEF StartsRefresh, CallsTypeOK
  <2>. QED
    BY <2>5 DEF HandlersMove, Acts
<1>4. ASSUME NEW a \in access, NEW target \in Account, NEW change \in Changes,
             UpdateUser(c, a, target, change)
      PROVE  HandlersMove
  <2>. DEFINE request == [Does("update", "active", a.who) EXCEPT
                                !.target = target, !.change = change]
  <2>1. a.who \in Account /\ "update" \in Op /\ "active" \in Step /\ change \in Change
    BY AccessAssumption DEF TokensTypeOK, Token, Op, Step
  <2>2. /\ Does("update", "active", a.who) \in Call
        /\ Does("update", "active", a.who).op = "update"
        /\ Does("update", "active", a.who).step = "active"
        /\ Does("update", "active", a.who).who = a.who
    BY <2>1, DoesType, DoesFields
  <2>3. /\ request \in Call /\ request.op = "update" /\ request.step = "active"
        /\ request.who = a.who
    BY <2>1, <2>2 DEF Call
  <2>4. /\ call' = [call EXCEPT ![c] = request] /\ call[c] = Idle
        /\ Can(principal'[a.who], "manage_users")
    BY <1>4 DEF UpdateUser, Authorise, routes, tables
  <2>. HIDE DEF request
  <2>5. Entitled(principal', request)
    BY <2>3, <2>4 DEF Entitled
  <2>. QED
    BY <2>3, <2>4, <2>5, BeginActs
<1>5. ASSUME NEW a \in access, NEW target \in Account, NEW role \in Offered,
             CreateInvite(c, a, target, role)
      PROVE  HandlersMove
  <2>. DEFINE request == [Does("invite", "upsert", a.who) EXCEPT
                                !.target = target, !.change.role = role]
  <2>1. a.who \in Account /\ "invite" \in Op /\ "upsert" \in Step /\ role \in Role
    BY AccessAssumption DEF TokensTypeOK, Token, Op, Step
  <2>2. /\ Does("invite", "upsert", a.who) \in Call
        /\ Does("invite", "upsert", a.who).op = "invite"
        /\ Does("invite", "upsert", a.who).step = "upsert"
        /\ Does("invite", "upsert", a.who).who = a.who
    BY <2>1, DoesType, DoesFields
  <2>3. [Does("invite", "upsert", a.who).change EXCEPT !.role = role] \in Change
    BY <2>1, <2>2 DEF Call, Change
  <2>4. /\ request \in Call /\ request.op = "invite" /\ request.step = "upsert"
        /\ request.who = a.who /\ request.change.role \in Role
    BY <2>1, <2>2, <2>3 DEF Call, Change
  <2>5. /\ call' = [call EXCEPT ![c] = request] /\ call[c] = Idle
        /\ Can(principal'[a.who], "manage_users")
    BY <1>5 DEF CreateInvite, Authorise, routes, tables
  <2>. HIDE DEF request
  <2>6. Entitled(principal', request)
    BY <2>4, <2>5 DEF Entitled
  <2>. QED
    BY <2>4, <2>5, <2>6, BeginActs
<1>6. ASSUME NEW i \in DOMAIN invites, Redeem(c, i) PROVE HandlersMove
  <2>. DEFINE request == [Does("redeem", "spend", invites[i].who) EXCEPT !.token = i]
  <2>1. /\ invites[i].who \in Account /\ i \in 0 .. MaxInvite + MaxToken
        /\ "redeem" \in Op /\ "spend" \in Step
    BY Numbered DEF Link, Op, Step
  <2>2. Does("redeem", "spend", invites[i].who) \in Call
    BY <2>1, DoesType
  <2>3. /\ request \in Call /\ request.op = "redeem" /\ request.step = "spend"
        /\ request.who = invites[i].who
    BY <2>1, <2>2, DoesFields DEF Call
  <2>4. /\ call' = [call EXCEPT ![c] = request] /\ call[c] = Idle
        /\ principal'[invites[i].who].active
    BY <1>6 DEF Redeem, LoadInvite, tables
  <2>. HIDE DEF request
  <2>5. Entitled(principal', request)
    BY <2>3, <2>4 DEF Entitled
  <2>. QED
    BY <2>3, <2>4, <2>5, BeginActs
<1>. QED
  BY <1>1, <1>2, <1>3, <1>4, <1>5, <1>6 DEF Requests

LEMMA NextMoves ==
    ASSUME LinkInv, Next
    PROVE  HandlersMove
<1>. USE DEF LinkInv
<1>1. ASSUME NEW c \in Client, Requests(c) PROVE HandlersMove
  BY <1>1, RequestMoves
<1>2. ASSUME NEW c \in Client, Statements(c) PROVE HandlersMove
  <2>1. CASE End(c)
    BY <2>1, EndActs
  <2>2. CASE RereadAccount(c) /\ ~End(c)
    <3>1. /\ call[c].step = "reread" /\ principal'[call[c].who].active
          /\ Continue(c, "revoke") /\ "revoke" \in Step \ {"none", "reread", "upsert"}
      BY <2>2 DEF RereadAccount, tables, Step
    <3>. QED
      BY <3>1, ContinueActs
  <2>3. CASE ~RereadAccount(c) /\ ~End(c)
    <3>1. PICK step \in {"complete", "role", "mfa", "link", "password"} :
            Continue(c, step) /\ call[c].step \notin {"none", "reread"}
      BY <1>2, <2>3 DEF Statements, SetMFASecret, ConfirmMFAEnrolment, CompleteLogin,
         RevokePresented, SetActive, SetRole, ClearMFA, UpsertInvited, IssueLink,
         RedeemInvite, SetPassword, Fails
    <3>2. step \in Step \ {"none", "reread", "upsert"} /\ step # "revoke"
      BY DEF Step
    <3>. QED
      BY <3>1, <3>2, ContinueActs
  <2>. QED
    BY <2>1, <2>2, <2>3
<1>3. CASE Restart
  BY <1>3 DEF Restart, HandlersMove, Acts
<1>4. CASE \/ SeedDev \/ BootstrapAdmin \/ BootstrapLink \/ Tick
           \/ \E jti \in DOMAIN refresh : Logout(jti)
  BY <1>4 DEF SeedDev, BootstrapAdmin, BootstrapLink, Tick, Logout, HandlersMove
<1>. QED
  BY <1>1, <1>2, <1>3, <1>4 DEF Next, Serve

-----------------------------------------------------------------------------
(* Refresh tokens and their revocation.                                    *)

\* A revocation lapses less than a second before its token: nothing that was
\* revoked once and has a second left can be without one.
RevocationsOK ==
    /\ revoked \subseteq [jti : DOMAIN refresh, until : Nat]
    /\ \A r \in revoked : refresh[r.jti].expires < r.until + Second
    /\ \A jti \in gone : /\ jti \in DOMAIN refresh
                         /\ Left(jti) >= Second => IsRevoked(jti)

RefreshersOK ==
    \A c \in Client : call[c].step \in {"reread", "revoke"} =>
        call[c].op = "refresh" /\ call[c].token \in DOMAIN refresh

LEMMA RequestsKeep ==
    ASSUME NEW c \in Client, Requests(c)
    PROVE  UNCHANGED <<refresh, revoked, now, tables>>
<1>1. ASSUME NEW p \in Account, Login(c, p) PROVE UNCHANGED <<refresh, revoked, now, tables>>
  BY <1>1 DEF Login, tokens, tables
<1>2. ASSUME NEW a \in access, NEW target \in Account,
             \/ \E change \in Changes : UpdateUser(c, a, target, change)
             \/ \E role \in Offered : CreateInvite(c, a, target, role)
      PROVE  UNCHANGED <<refresh, revoked, now, tables>>
  BY <1>2 DEF UpdateUser, CreateInvite, tokens
<1>. QED
  BY <1>1, <1>2 DEF Requests, VerifyMFA, Refresh, Redeem, tokens

LEMMA StatementsKeep ==
    ASSUME NEW c \in Client, Statements(c)
    PROVE  /\ UNCHANGED now
           /\ UNCHANGED refresh \/ CompleteLogin(c)
           /\ UNCHANGED revoked \/ RevokePresented(c)
BY DEF Statements, SetMFASecret, ConfirmMFAEnrolment, CompleteLogin, RereadAccount,
   RevokePresented, SetActive, SetRole, ClearMFA, UpsertInvited, IssueLink, RedeemInvite,
   SetPassword, Fails, tokens

LEMMA TokensStay ==
    ASSUME CallsTypeOK, TokensTypeOK, Next
    PROVE  \A jti \in DOMAIN refresh : jti \in DOMAIN refresh' /\ refresh'[jti] = refresh[jti]
<1>1. CASE UNCHANGED refresh
  BY <1>1
<1>2. ASSUME NEW p \in Account, IssuePair(p)
      PROVE  \A jti \in DOMAIN refresh : jti \in DOMAIN refresh' /\ refresh'[jti] = refresh[jti]
  <2>1. [who |-> p, expires |-> NumericDate(now + RefreshTTL)] \in Token
    BY DatesAreTimes, AccessAssumption DEF Token
  <2>. QED
    BY <1>2, <2>1, AppendProperties, LenProperties DEF TokensTypeOK, IssuePair
<1>3. ASSUME NEW c \in Client, CompleteLogin(c)
      PROVE  \E p \in Account : IssuePair(p)
  BY <1>3, CallWho DEF CompleteLogin
<1>4. \/ UNCHANGED refresh
      \/ \E c \in Client : CompleteLogin(c)
  BY RequestsKeep, StatementsKeep DEF Next, Serve, Logout, Restart, SeedDev, BootstrapAdmin,
     BootstrapLink, Tick, tokens
<1>. QED
  BY <1>1, <1>2, <1>3, <1>4

\* Whoever revokes, it is a token that was issued; only the clock takes an entry
\* away.
LEMMA RevokedStep ==
    ASSUME LinkInv, RefreshersOK, Next
    PROVE  \/ revoked' = revoked /\ now' = now
           \/ now' = now /\ \E jti \in DOMAIN refresh : Revoke(jti)
           \/ now' = now + 1 /\ revoked' = {r \in revoked : r.until > now'}
<1>1. ASSUME NEW c \in Client, RevokePresented(c)
      PROVE  now' = now /\ \E jti \in DOMAIN refresh : Revoke(jti)
  BY <1>1 DEF RevokePresented, RefreshersOK
<1>2. \/ \E c \in Client : RevokePresented(c)
      \/ \E jti \in DOMAIN refresh : Logout(jti)
      \/ Tick
      \/ revoked' = revoked /\ now' = now
  BY RequestsKeep, StatementsKeep DEF Next, Serve, Restart, SeedDev, BootstrapAdmin,
     BootstrapLink, tokens
<1>. QED
  BY <1>1, <1>2 DEF Logout, Tick

\* What an entry is and what it leaves of the others.
LEMMA RevokeEnters ==
    ASSUME LinkInv, NEW jti \in DOMAIN refresh, Revoke(jti)
    PROVE  /\ \A r \in revoked' :
                 \/ r \in revoked
                 \/ /\ r.jti = jti /\ r \in [jti : DOMAIN refresh, until : Nat]
                    /\ refresh[jti].expires < r.until + Second
           /\ \A other : IsRevoked(other) => IsRevoked(other)'
<1>1. /\ refresh[jti].expires \in Nat /\ now \in Nat /\ Second \in Nat \ {0}
  BY Numbered, AccessAssumption DEF LinkInv, TokensTypeOK, Token
<1>2. CASE Left(jti) < Second
  BY <1>2 DEF Revoke, IsRevoked
<1>3. CASE Left(jti) >= Second
  <2>. DEFINE life == WholeSeconds(Left(jti))
              entry == [jti |-> jti, until |-> now + life]
  <2>1. Left(jti) \in Nat /\ Left(jti) = refresh[jti].expires - now
    BY <1>1, <1>3 DEF Left
  <2>2. life \in Nat /\ Left(jti) < life + Second
    BY <2>1, WholeSecondsLose
  <2>3. ~(Left(jti) < Second)
    BY <1>1, <1>3, <2>1
  <2>4. revoked' = {r \in revoked : r.jti # jti} \cup {entry}
    BY <2>3 DEF Revoke, Enter
  <2>. HIDE DEF life
  <2>5. /\ entry.jti = jti /\ entry \in [jti : DOMAIN refresh, until : Nat]
        /\ refresh[jti].expires < entry.until + Second
    BY <1>1, <2>1, <2>2
  <2>. HIDE DEF entry
  <2>. QED
    BY <2>4, <2>5 DEF IsRevoked
<1>. QED
  BY <1>1, <1>2, <1>3 DEF Left

LEMMA RevocationsStep ==
    ASSUME LinkInv, RefreshersOK, RevocationsOK, Next
    PROVE  RevocationsOK'
<1>1. /\ \A jti \in DOMAIN refresh : jti \in DOMAIN refresh' /\ refresh'[jti] = refresh[jti]
      /\ \A jti \in DOMAIN refresh : refresh[jti].expires \in Nat
      /\ now \in Nat /\ Second \in Nat \ {0}
  BY TokensStay, Numbered, AccessAssumption DEF LinkInv, TokensTypeOK, Token
<1>2. gone' = gone \cup {r.jti : r \in revoked'}
  BY DEF Next, Observe
<1>3. /\ \A r \in revoked' : /\ r \in [jti : DOMAIN refresh, until : Nat]
                             /\ refresh[r.jti].expires < r.until + Second
      /\ \A jti \in DOMAIN refresh :
            refresh[jti].expires - now' >= Second /\ IsRevoked(jti) => IsRevoked(jti)'
      /\ now' >= now /\ now' \in Nat
  <2>1. CASE revoked' = revoked /\ now' = now
    BY <1>1, <2>1 DEF RevocationsOK, IsRevoked
  <2>2. ASSUME now' = now, NEW jti \in DOMAIN refresh, Revoke(jti)
        PROVE  <1>3!1 /\ <1>3!2 /\ <1>3!3
    BY <1>1, <2>2, RevokeEnters DEF RevocationsOK
  <2>3. CASE now' = now + 1 /\ revoked' = {r \in revoked : r.until > now'}
    <3>1. \A r \in revoked : /\ r \in [jti : DOMAIN refresh, until : Nat]
                            /\ refresh[r.jti].expires < r.until + Second
      BY DEF RevocationsOK
    <3>2. \A r \in revoked :
             refresh[r.jti].expires - now' >= Second => r \in revoked'
      <4>. SUFFICES ASSUME NEW r \in revoked, refresh[r.jti].expires - now' >= Second
                    PROVE  r.until > now'
        BY <2>3
      <4>1. /\ refresh[r.jti].expires \in Nat /\ r.until \in Nat
            /\ refresh[r.jti].expires < r.until + Second
        BY <1>1, <3>1
      <4>. QED
        BY <1>1, <2>3, <4>1
    <3>. QED
      BY <1>1, <2>3, <3>1, <3>2 DEF IsRevoked
  <2>. QED
    BY <2>1, <2>2, <2>3, RevokedStep
<1>4. \A jti \in gone' : /\ jti \in DOMAIN refresh
                         /\ refresh[jti].expires - now' >= Second => IsRevoked(jti)'
  <2>1. ASSUME NEW jti \in gone
        PROVE  /\ jti \in DOMAIN refresh
               /\ refresh[jti].expires - now' >= Second => IsRevoked(jti)'
    <3>1. jti \in DOMAIN refresh /\ (Left(jti) >= Second => IsRevoked(jti))
      BY DEF RevocationsOK
    <3>2. refresh[jti].expires - now' >= Second => Left(jti) >= Second
      BY <1>1, <1>3, <3>1 DEF Left
    <3>. QED
      BY <1>3, <3>1, <3>2
  <2>2. ASSUME NEW r \in revoked'
        PROVE  r.jti \in DOMAIN refresh /\ IsRevoked(r.jti)'
    BY <1>3 DEF IsRevoked
  <2>. QED
    BY <1>2, <2>1, <2>2
<1>5. /\ revoked' \subseteq [jti : DOMAIN refresh', until : Nat]
      /\ \A r \in revoked' : refresh'[r.jti].expires < r.until + Second
  BY <1>1, <1>3
<1>6. \A jti \in gone' : /\ jti \in DOMAIN refresh'
                         /\ Left(jti)' >= Second => IsRevoked(jti)'
  BY <1>1, <1>4 DEF Left
<1>. QED
  BY <1>5, <1>6 DEF RevocationsOK

-----------------------------------------------------------------------------
(* Who is served.                                                          *)

ServedInv ==
    /\ RefreshersOK
    /\ late = {}
    /\ barred \subseteq Client /\ CallerWasEntitled

LEMMA IdleIsEntitled ==
    Entitled(principal, Idle) /\ Entitled(principal', Idle) /\ Idle.op # "refresh"
BY DEF Entitled, Idle

\* A refresh goes on only past RereadAccount, and begins with a token whose
\* revocation was recorded only in the last second of it.
LEMMA ServedStep ==
    ASSUME LinkInv, RevocationsOK, ServedInv, Next
    PROVE  ServedInv'
<1>. USE DEF LinkInv
<1>1. \A c \in Client : call'[c] = call[c] \/ Acts(c)
  BY NextMoves DEF HandlersMove
<1>2. \A jti \in DOMAIN refresh : jti \in DOMAIN refresh'
  BY TokensStay
<1>3. RefreshersOK'
  <2>. SUFFICES ASSUME NEW c \in Client, call'[c].step \in {"reread", "revoke"}
                PROVE  call'[c].op = "refresh" /\ call'[c].token \in DOMAIN refresh'
    BY DEF RefreshersOK
  <2>1. CASE call'[c] = call[c]
    BY <1>2, <2>1 DEF ServedInv, RefreshersOK
  <2>2. CASE GoesOn(c)
    <3>1. call[c].step = "reread"
      BY <2>2 DEF GoesOn
    <3>. QED
      BY <1>2, <2>2, <3>1 DEF ServedInv, RefreshersOK, GoesOn
  <2>3. CASE StartsRefresh(c)
    BY <1>2, <2>3 DEF StartsRefresh
  <2>4. ~IsLetIn(c) /\ call'[c] # Idle
    BY IdleType DEF IsLetIn
  <2>. QED
    BY <1>1, <2>1, <2>2, <2>3, <2>4 DEF Acts
<1>4. late' = {}
  <2>. SUFFICES ASSUME NEW c \in Client, c \in late' PROVE FALSE
    BY DEF Next, Observe
  <2>1. /\ call[c] = Idle /\ call'[c].op = "refresh" /\ call'[c].token \in gone
        /\ Left(call'[c].token) >= Second
    BY DEF Next, Observe, ServedInv
  <2>2. StartsRefresh(c)
    BY <1>1, <2>1, IdleIsEntitled DEF Acts, GoesOn, IsLetIn
  <2>. QED
    BY <2>1, <2>2 DEF StartsRefresh, ParseRefresh, RevocationsOK
<1>5. barred' \subseteq Client
  BY DEF Next, Observe
<1>6. CallerWasEntitled'
  <2>. SUFFICES ASSUME NEW c \in Client, c \in barred' PROVE call'[c].step = "reread"
    BY <1>5 DEF CallerWasEntitled
  <2>1. /\ ~Entitled(principal', call'[c])
        /\ call[c] = Idle \/ c \in barred
    BY DEF Next, Observe
  <2>2. call'[c] # Idle /\ ~IsLetIn(c)
    BY <2>1, IdleIsEntitled DEF IsLetIn
  <2>3. CASE call'[c] = call[c]
    BY <2>1, <2>2, <2>3 DEF ServedInv, CallerWasEntitled
  <2>4. CASE GoesOn(c)
    <3>1. call[c].step = "reread"
      BY <2>1, <2>4 DEF GoesOn, ServedInv, CallerWasEntitled
    <3>2. call'[c].op = "refresh" /\ principal'[call'[c].who].active
      BY <2>4, <3>1 DEF GoesOn, ServedInv, RefreshersOK
    <3>. QED
      BY <2>1, <3>2 DEF Entitled
  <2>5. CASE StartsRefresh(c)
    BY <2>5 DEF StartsRefresh
  <2>. QED
    BY <1>1, <2>2, <2>3, <2>4, <2>5 DEF Acts
<1>. QED
  BY <1>3, <1>4, <1>5, <1>6 DEF ServedInv

-----------------------------------------------------------------------------
(* The account table.                                                      *)

AccountsOK ==
    /\ principal \in [Account -> AccountRow]
    /\ EnrolledHasSecret

\* An invite names a role.
InvitersOK == \A c \in Client : call[c].step = "upsert" => call[c].change.role \in Role

LEMMA InvitersStep ==
    ASSUME LinkInv, InvitersOK, Next
    PROVE  InvitersOK'
BY NextMoves, IdleType DEF HandlersMove, Acts, GoesOn, IsLetIn, StartsRefresh, InvitersOK

\* A statement replaces one row.
LEMMA RowKept ==
    ASSUME AccountsOK, NEW p \in Account, NEW row \in AccountRow, row.enrolled => row.secret,
           principal' = [principal EXCEPT ![p] = row]
    PROVE  AccountsOK'
<1>1. \A q \in Account : principal'[q] = IF q = p THEN row ELSE principal[q]
  BY DEF AccountsOK
<1>2. principal' \in [Account -> AccountRow]
  BY DEF AccountsOK
<1>. QED
  BY <1>1, <1>2 DEF AccountsOK, EnrolledHasSecret

LEMMA UpsertKeeps ==
    ASSUME AccountsOK, NEW p \in Account, NEW role \in Role, Upsert(p, role)
    PROVE  AccountsOK'
<1>. DEFINE row == [principal[p] EXCEPT !.known = TRUE, !.active = TRUE, !.role = role]
<1>1. principal[p] \in AccountRow /\ (principal[p].enrolled => principal[p].secret)
  BY DEF AccountsOK, EnrolledHasSecret
<1>2. principal' = [principal EXCEPT ![p] = row]
  BY DEF AccountsOK, Upsert
<1>3. row \in AccountRow /\ (row.enrolled => row.secret)
  BY <1>1 DEF AccountRow
<1>. HIDE DEF row
<1>. QED
  BY <1>2, <1>3, RowKept

\* The columns of the second factor are written by three statements; each keeps
\* an enrolment with the secret it is of.
LEMMA AccountsStep ==
    ASSUME LinkInv, InvitersOK, AccountsOK, Next
    PROVE  AccountsOK'
<1>. USE DEF LinkInv
<1>1. CASE UNCHANGED principal
  BY <1>1 DEF AccountsOK, EnrolledHasSecret
<1>2. ASSUME NEW c \in Client, Statements(c)
      PROVE  AccountsOK'
  <2>. DEFINE who == call[c].who
              target == call[c].target
              change == call[c].change
  <2>1. /\ who \in Account /\ target \in Account
        /\ change.active \in {"keep", "on", "off"} /\ change.role \in Role \cup {"keep"}
        /\ change.resetMFA \in BOOLEAN
    BY DEF CallsTypeOK, Call, Change
  <2>2. principal[who] \in AccountRow /\ principal[target] \in AccountRow
    BY <2>1 DEF AccountsOK
  <2>. HIDE DEF who, target, change
  <2>3. CASE SetMFASecret(c)
    <3>1. principal' = [principal EXCEPT ![who].secret = TRUE, ![who].enrolled = FALSE]
      BY <2>3 DEF SetMFASecret, who
    <3>. DEFINE row == [principal[who] EXCEPT !.secret = TRUE, !.enrolled = FALSE]
    <3>2. principal' = [principal EXCEPT ![who] = row]
      BY <2>1, <3>1 DEF AccountsOK
    <3>3. row \in AccountRow /\ (row.enrolled => row.secret)
      BY <2>1, <2>2 DEF AccountRow
    <3>. HIDE DEF row
    <3>. QED
      BY <2>1, <3>2, <3>3, RowKept
  <2>4. CASE ConfirmMFAEnrolment(c)
    <3>1. principal' = [principal EXCEPT ![who].enrolled = @ \/ principal[who].secret]
      BY <2>4 DEF ConfirmMFAEnrolment, who
    <3>. DEFINE row == [principal[who] EXCEPT !.enrolled = @ \/ principal[who].secret]
    <3>2. principal' = [principal EXCEPT ![who] = row]
      BY <2>1, <3>1 DEF AccountsOK
    <3>3. row \in AccountRow /\ (row.enrolled => row.secret)
      BY <2>1, <2>2 DEF AccountsOK, EnrolledHasSecret, AccountRow
    <3>. HIDE DEF row
    <3>. QED
      BY <2>1, <3>2, <3>3, RowKept
  <2>5. CASE SetActive(c)
    <3>1. PICK active \in BOOLEAN :
            principal' = [principal EXCEPT ![target].active = active]
      BY <2>1, <2>2, <2>5 DEF SetActive, target, change, AccountRow
    <3>. DEFINE row == [principal[target] EXCEPT !.active = active]
    <3>2. principal' = [principal EXCEPT ![target] = row]
      BY <2>1, <3>1 DEF AccountsOK
    <3>3. row \in AccountRow /\ (row.enrolled => row.secret)
      BY <2>1, <2>2 DEF AccountsOK, EnrolledHasSecret, AccountRow
    <3>. HIDE DEF row
    <3>. QED
      BY <2>1, <3>2, <3>3, RowKept
  <2>6. CASE SetRole(c)
    <3>1. PICK role \in Role : principal' = [principal EXCEPT ![target].role = role]
      BY <2>1, <2>2, <2>6 DEF SetRole, target, change, AccountRow
    <3>. DEFINE row == [principal[target] EXCEPT !.role = role]
    <3>2. principal' = [principal EXCEPT ![target] = row]
      BY <2>1, <3>1 DEF AccountsOK
    <3>3. row \in AccountRow /\ (row.enrolled => row.secret)
      BY <2>1, <2>2 DEF AccountsOK, EnrolledHasSecret, AccountRow
    <3>. HIDE DEF row
    <3>. QED
      BY <2>1, <3>2, <3>3, RowKept
  <2>7. CASE ClearMFA(c)
    <3>1. principal' = [principal EXCEPT ![target].secret = @ /\ ~change.resetMFA,
                                         ![target].enrolled = @ /\ ~change.resetMFA]
      BY <2>7 DEF ClearMFA, target, change
    <3>2. CASE change.resetMFA
      <4>1. principal' = [principal EXCEPT ![target].secret = FALSE,
                                           ![target].enrolled = FALSE]
        BY <2>1, <3>1, <3>2 DEF AccountsOK
      <4>. DEFINE row == [principal[target] EXCEPT !.secret = FALSE, !.enrolled = FALSE]
      <4>2. principal' = [principal EXCEPT ![target] = row]
        BY <2>1, <4>1 DEF AccountsOK
      <4>3. row \in AccountRow /\ (row.enrolled => row.secret)
        BY <2>2 DEF AccountRow
      <4>. HIDE DEF row
      <4>. QED
        BY <2>1, <4>2, <4>3, RowKept
    <3>3. CASE ~change.resetMFA
      <4>1. principal' = principal
        BY <2>1, <2>2, <3>1, <3>3 DEF AccountsOK, AccountRow
      <4>. QED
        BY <4>1, <1>1
    <3>. QED
      BY <3>2, <3>3
  <2>8. CASE UpsertInvited(c)
    <3>1. Upsert(call[c].target, call[c].change.role) /\ call[c].step = "upsert"
      BY <2>8 DEF UpsertInvited
    <3>. QED
      BY <2>1, <3>1, UpsertKeeps DEF target, InvitersOK
  <2>9. CASE SetPassword(c)
    <3>1. principal' = [principal EXCEPT ![who].password = TRUE]
      BY <2>9 DEF SetPassword, who
    <3>. DEFINE row == [principal[who] EXCEPT !.password = TRUE]
    <3>2. principal' = [principal EXCEPT ![who] = row]
      BY <2>1, <3>1 DEF AccountsOK
    <3>3. row \in AccountRow /\ (row.enrolled => row.secret)
      BY <2>1, <2>2 DEF AccountsOK, EnrolledHasSecret, AccountRow
    <3>. HIDE DEF row
    <3>. QED
      BY <2>1, <3>2, <3>3, RowKept
  <2>10. CASE UNCHANGED principal
    BY <2>10, <1>1
  <2>. QED
    BY <1>2, <2>3, <2>4, <2>5, <2>6, <2>7, <2>8, <2>9, <2>10
       DEF Statements, CompleteLogin, RereadAccount, RevokePresented, IssueLink,
       RedeemInvite, Fails, tables
<1>3. CASE BootstrapAdmin
  <2>1. CASE Upsert(Bootstrap, "admin")
    <3>1. Bootstrap \in Account /\ "admin" \in Role
      BY AccessAssumption DEF Role
    <3>. QED
      BY <2>1, <3>1, UpsertKeeps
  <2>. QED
    BY <1>1, <1>3, <2>1 DEF BootstrapAdmin
<1>4. CASE SeedDev
  <2>1. \A p \in Account :
           /\ principal[p] \in AccountRow /\ (principal[p].enrolled => principal[p].secret)
           /\ p \in DOMAIN Seeds => Seeds[p] \in Role
    BY AccessAssumption DEF AccountsOK, EnrolledHasSecret
  <2>2. \A p \in Account :
           /\ principal'[p] \in AccountRow
           /\ principal'[p].enrolled => principal'[p].secret
    <3>. SUFFICES ASSUME NEW p \in Account
                  PROVE  /\ principal'[p] \in AccountRow
                         /\ principal'[p].enrolled => principal'[p].secret
      OBVIOUS
    <3>1. CASE p \in DOMAIN Seeds
      <4>1. principal'[p] = [principal[p] EXCEPT !.known = TRUE, !.active = TRUE,
                                !.role = Seeds[p], !.password = @ \/ SeedPassword]
        BY <1>4, <3>1 DEF SeedDev
      <4>2. SeedPassword \in BOOLEAN /\ Seeds[p] \in Role
        BY <2>1, <3>1, AccessAssumption
      <4>3. principal[p] \in AccountRow /\ (principal[p].enrolled => principal[p].secret)
        BY <2>1
      <4>. QED
        BY <4>1, <4>2, <4>3 DEF AccountRow
    <3>2. CASE p \notin DOMAIN Seeds
      BY <1>4, <2>1, <3>2 DEF SeedDev
    <3>. QED
      BY <3>1, <3>2
  <2>3. principal' \in [Account -> AccountRow]
    BY <1>4, <2>2 DEF SeedDev
  <2>. QED
    BY <2>2, <2>3 DEF AccountsOK, EnrolledHasSecret
<1>. QED
  BY <1>1, <1>2, <1>3, <1>4, RequestsKeep DEF Next, Serve, Logout, Restart, BootstrapLink,
     Tick, tables

-----------------------------------------------------------------------------
(* One open link per account.                                              *)

OneOpenLink ==
    \A i, j \in DOMAIN invites :
        invites[i].open /\ invites[j].open /\ invites[i].who = invites[j].who => i = j

LEMMA InsertOpensOne ==
    ASSUME TokensTypeOK, LinksTypeOK, OneOpenLink, NEW p \in Account, InsertInvite(p)
    PROVE  OneOpenLink'
<1>. DEFINE retired == [i \in DOMAIN invites |->
                           [invites[i] EXCEPT !.open = @ /\ invites[i].who # p]]
            new == [who |-> p, open |-> TRUE, expires |-> now + InviteTTL]
<1>1. new \in Link
  BY AccessAssumption DEF TokensTypeOK, Link
<1>2. \A i \in DOMAIN invites : /\ retired[i] \in Link
                                /\ retired[i].who = invites[i].who
                                /\ retired[i].open => invites[i].open /\ invites[i].who # p
  <2>. SUFFICES ASSUME NEW i \in DOMAIN invites
                PROVE  /\ retired[i] \in Link
                       /\ retired[i].who = invites[i].who
                       /\ retired[i].open => invites[i].open /\ invites[i].who # p
    OBVIOUS
  <2>1. invites[i] \in Link
    BY Numbered
  <2>. QED
    BY <2>1 DEF Link
<1>3. retired \in Seq(Link) /\ DOMAIN retired = DOMAIN invites
  <2>1. DOMAIN invites = 1 .. Len(invites) /\ Len(invites) \in Nat
    BY Numbered DEF LinksTypeOK
  <2>2. retired \in [1 .. Len(invites) -> Link]
    BY <1>2, <2>1
  <2>. QED
    BY <2>1, <2>2
<1>4. invites' = Append(retired, new) /\ new.open /\ new.who = p
  BY DEF InsertInvite
<1>. HIDE DEF retired, new
<1>5. /\ DOMAIN invites' = DOMAIN retired \cup {Len(retired) + 1}
      /\ \A i \in DOMAIN retired : invites'[i] = retired[i]
      /\ invites'[Len(retired) + 1] = new
  BY <1>1, <1>3, <1>4, AppendProperties, LenProperties
<1>. QED
  BY <1>2, <1>3, <1>4, <1>5 DEF OneOpenLink

LEMMA OneOpenLinkStep ==
    ASSUME LinkInv, OneOpenLink, Next
    PROVE  OneOpenLink'
<1>. USE DEF LinkInv
<1>1. CASE UNCHANGED invites
  BY <1>1 DEF OneOpenLink
<1>2. ASSUME NEW p \in Account, InsertInvite(p) PROVE OneOpenLink'
  BY <1>2, InsertOpensOne
<1>3. ASSUME NEW c \in Client, IssueLink(c) PROVE \E p \in Account : InsertInvite(p)
  BY <1>3, CallWho DEF IssueLink
<1>4. ASSUME NEW c \in Client, RedeemInvite(c) PROVE OneOpenLink'
  <2>1. UNCHANGED invites \/ invites' = [invites EXCEPT ![call[c].token].open = FALSE]
    BY <1>4 DEF RedeemInvite
  <2>2. \A i \in DOMAIN invites : invites[i] \in Link
    BY Numbered
  <2>. QED
    BY <1>1, <2>1, <2>2 DEF OneOpenLink, Link
<1>5. CASE BootstrapLink
  BY <1>2, <1>5, AccessAssumption DEF BootstrapLink
<1>6. \/ UNCHANGED invites
      \/ \E c \in Client : IssueLink(c) \/ RedeemInvite(c)
      \/ BootstrapLink
  <2>1. ASSUME NEW c \in Client, Statements(c)
        PROVE  UNCHANGED invites \/ IssueLink(c) \/ RedeemInvite(c)
    BY <2>1 DEF Statements, SetMFASecret, ConfirmMFAEnrolment, CompleteLogin, RereadAccount,
       RevokePresented, SetActive, SetRole, ClearMFA, UpsertInvited, SetPassword, Fails, tables
  <2>. QED
    BY <2>1, RequestsKeep DEF Next, Serve, Logout, Restart, SeedDev, BootstrapAdmin, Tick,
       tables
<1>. QED
  BY <1>1, <1>2, <1>3, <1>4, <1>5, <1>6

-----------------------------------------------------------------------------
(* Together.                                                               *)

ServerOK == server \in {"seed", "bootstrap", "link", "serving"}

AccessInv ==
    /\ LinkInv
    /\ ServerOK
    /\ RevocationsOK
    /\ ServedInv
    /\ InvitersOK /\ AccountsOK
    /\ OneOpenLink

LEMMA InitAccess == Init => AccessInv
<1>. SUFFICES ASSUME Init PROVE AccessInv
  OBVIOUS
<1>1. RevocationsOK /\ ServerOK
  BY DEF Init, RevocationsOK, ServerOK
<1>2. ServedInv /\ InvitersOK
  BY IdleType DEF Init, ServedInv, RefreshersOK, CallerWasEntitled, InvitersOK
<1>3. AccountsOK /\ OneOpenLink
  BY AccessAssumption, StartsAssumption DEF Init, AccountsOK, EnrolledHasSecret, OneOpenLink
<1>. QED
  BY <1>1, <1>2, <1>3, InitLinks DEF AccessInv

LEMMA StepAccess == AccessInv /\ [Next]_vars => AccessInv'
<1>. SUFFICES ASSUME AccessInv, [Next]_vars PROVE AccessInv'
  OBVIOUS
<1>1. LinkInv'
  BY StepLinks DEF AccessInv
<1>2. CASE Next
  <2>1. RevocationsOK' /\ ServedInv'
    BY <1>2, RevocationsStep, ServedStep DEF AccessInv, ServedInv
  <2>2. InvitersOK' /\ AccountsOK' /\ OneOpenLink'
    BY <1>2, InvitersStep, AccountsStep, OneOpenLinkStep DEF AccessInv
  <2>3. ServerOK'
    BY <1>2 DEF AccessInv, ServerOK, Next, Serve, Restart, SeedDev, BootstrapAdmin,
       BootstrapLink, Tick
  <2>. QED
    BY <1>1, <2>1, <2>2, <2>3 DEF AccessInv
<1>3. CASE UNCHANGED vars
  <2>1. RevocationsOK' /\ ServerOK' /\ ServedInv'
    BY <1>3 DEF AccessInv, RevocationsOK, Left, IsRevoked, ServerOK, ServedInv, RefreshersOK,
       CallerWasEntitled, vars, tokens
  <2>2. InvitersOK' /\ AccountsOK' /\ OneOpenLink'
    BY <1>3 DEF AccessInv, InvitersOK, AccountsOK, EnrolledHasSecret, OneOpenLink, vars, tables
  <2>. QED
    BY <1>1, <2>1, <2>2 DEF AccessInv
<1>. QED
  BY <1>2, <1>3

LEMMA AccessAlways == Spec => []AccessInv
BY InitAccess, StepAccess, PTL DEF Spec

LEMMA AccessTyped == AccessInv => AccessTypeOK
<1>. SUFFICES ASSUME AccessInv PROVE AccessTypeOK
  OBVIOUS
<1>. USE DEF AccessInv, LinkInv
<1>1. principal \in [Account -> AccountRow]
  BY DEF AccountsOK
<1>2. DOMAIN invites \subseteq 1 .. MaxInvite /\ DOMAIN refresh \subseteq 1 .. MaxToken
  BY Numbered
<1>3. revoked \subseteq [jti : DOMAIN refresh, until : Nat]
  BY DEF RevocationsOK
<1>4. access \cup challenges \subseteq [who : Account, expires : Nat]
  BY DEF TokensTypeOK, Token
<1>5. call \in [Client -> [op : Op, step : Step, who : Account, target : Account,
                          token : 0 .. MaxInvite + MaxToken, change : Change]]
  BY DEF CallsTypeOK, Call
<1>6. ASSUME NEW p \in Account
      PROVE  Cardinality({i \in DOMAIN invites : invites[i].who = p /\ invites[i].open}) <= 1
  <2>. DEFINE open == {i \in DOMAIN invites : invites[i].who = p /\ invites[i].open}
  <2>1. CASE open = {}
    BY <2>1, FS_EmptySet
  <2>2. CASE open # {}
    <3>1. PICK i \in open : TRUE
      BY <2>2
    <3>2. open = {i}
      BY <3>1 DEF OneOpenLink
    <3>. QED
      BY <3>2, FS_Singleton
  <2>. QED
    BY <2>1, <2>2
<1>. QED
  BY <1>1, <1>2, <1>3, <1>4, <1>5, <1>6 DEF AccessTypeOK, ServerOK

\* The handlers, tokens and tables are what the code makes of them, and an
\* account has one open link at most (InsertInvite retires the one before).
THEOREM AccessTypeOKAlways == Spec => []AccessTypeOK
BY AccessAlways, AccessTyped, PTL

\* A refresh that begins after its token's revocation was recorded is refused,
\* however long afterwards, but in the last second of the token: the entry is
\* dated in whole seconds of what was left (Revoke), is never written for longer
\* and, written again, never lapses a second or more before the token.
THEOREM RevokedStaysOutAlways == Spec => []RevokedStaysOut
<1>1. AccessInv => RevokedStaysOut
  BY DEF AccessInv, ServedInv, RevokedStaysOut
<1>. QED
  BY AccessAlways, <1>1, PTL

\* A request goes past its first statements only for a caller who was entitled
\* to it at some moment since it began (ResolveAccess, Login, VerifyMFA, and the
\* second look of Refresh), whatever the claims of the token say.
THEOREM CallerWasEntitledAlways == Spec => []CallerWasEntitled
<1>1. AccessInv => CallerWasEntitled
  BY DEF AccessInv, ServedInv
<1>. QED
  BY AccessAlways, <1>1, PTL

\* No order of the statements of logins and of an administrator's reset leaves
\* an account enrolled without a secret (ConfirmMFAEnrolment asks for one).
THEOREM EnrolledHasSecretAlways == Spec => []EnrolledHasSecret
<1>1. AccessInv => EnrolledHasSecret
  BY DEF AccessInv, AccountsOK
<1>. QED
  BY AccessAlways, <1>1, PTL
=============================================================================
