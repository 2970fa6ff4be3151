----------------------------- MODULE InviteLogin -----------------------------
(***************************************************************************)
(* How people get in: the invitation that comes with an interview request  *)
(* (create_request in backend/app/scheduling/router.py), the Google        *)
(* callback that redeems it (backend/app/auth/router.py), and the Google   *)
(* tokens a login leaves behind, which are refreshed by whoever uses the   *)
(* calendar and dropped by a disconnect (backend/app/auth/google_oauth.py).*)
(*                                                                         *)
(* Handlers run concurrently; each read and each commit is a step.  An     *)
(* invitation and the configured roles compare addresses without regard to *)
(* case, the users table as they are spelled.  Google is external: a login *)
(* yields a new consent, and revoking a token ends the consent it came     *)
(* from.                                                                   *)
(***************************************************************************)
EXTENDS Integers, FiniteSets

CONSTANTS
    Accounts,     \* Google identities
    Emails,       \* e-mail addresses as they are spelled
    Lower,        \* and in lower case
    EmailOf,      \* the address of each account; a new account may have an old one
    InternalRole, \* ALLOWED_INTERNAL_USERS: what is configured for each lowered address
    Handlers,
    Worlds,       \* sets of conditions; a behaviour lives in one of them
    MaxRequests,  \* bound on the interview requests created
    MaxConsents   \* bound on the consents given at Google

\* "failures": a handler dies or its commit fails;
\* "calendar": stored tokens age, are refreshed and disconnected.
AllConditions == {"failures", "calendar"}

StaffRoles == {"recruiter", "hiring_manager"}

Roles == StaffRoles \cup {"interviewer", "candidate"}

\* "none" for an address that is not listed, "unknown" for a role that is not
\* a UserRole.
ASSUME LoginAssumption ==
    /\ IsFiniteSet(Accounts)
    /\ Lower \in [Emails -> Emails]
    /\ EmailOf \in [Accounts -> Emails]
    /\ InternalRole \in [Emails -> Roles \cup {"none", "unknown"}]
    /\ Worlds \subseteq SUBSET AllConditions
    /\ MaxRequests \in Nat
    /\ MaxConsents \in Nat

VARIABLES
    conditions,  \* the world this behaviour lives in
    requests,    \* number of interview requests created
    addressee,   \* the candidate's address of each
    invite,      \* and its invitation
    users,       \* the role in the users table of each account
    via,         \* the request whose invitation an account was created with
    tokens,      \* the oauth_tokens row of each account
    sessions,    \* accounts with a session cookie
    revoked,     \* consents ended at Google
    consents,    \* number of consents given
    rows,        \* number of oauth_tokens rows made so far
    th           \* what each handler is doing

database == <<requests, addressee, invite, users, via>>

connection == <<tokens, revoked, rows>>

vars == <<conditions, database, connection, sessions, consents, th>>

Requests == 1 .. MaxRequests

Invites == {"none", "unused", "used", "expired"}

\* grant is the consent the refresh token came from, access the one of the
\* access token; id tells a row from a later one of the same account.
Token == [id     : Nat,
          grant  : 0 .. MaxConsents,
          access : 0 .. MaxConsents,
          fresh  : BOOLEAN]

NoToken == [id |-> 0, grant |-> 0, access |-> 0, fresh |-> FALSE]

Steps == {"invite", "consent", "check", "consume", "create", "store", "write",
          "renew", "renewed", "revoke", "forget"}

Idle == [pc |-> "idle", account |-> "nobody", request |-> 0, role |-> "none",
         row |-> 0, grant |-> 0]

Busy == [pc      : Steps,
         account : Accounts,
         request : 0 .. MaxRequests,
         role    : Roles \cup {"none"},
         row     : Nat,
         grant   : 0 .. MaxConsents]

Thread == Busy \cup {Idle}

SameAddress(e, f) == Lower[e] = Lower[f]

ConfiguredRole(a) == InternalRole[Lower[EmailOf[a]]]

Becomes(h, state) == th' = [th EXCEPT ![h] = state]

\* A call on behalf of an account begins.
Begun(pc, account, request, row, grant) ==
    [pc |-> pc, account |-> account, request |-> request, role |-> "none",
     row |-> row, grant |-> grant]

\* The handler answers, with an error or without.
Ends(h) == Becomes(h, Idle)

-----------------------------------------------------------------------------
(* Requests and their invitations                                          *)

\* create_request, by staff: the request is committed ...
CreateRequest(h, a, e) ==
    /\ th[h].pc = "idle"
    /\ a \in sessions /\ users[a] \in StaffRoles
    /\ requests < MaxRequests
    /\ requests' = requests + 1
    /\ addressee' = [addressee EXCEPT ![requests + 1] = e]
    /\ Becomes(h, Begun("invite", a, requests + 1, 0, 0))
    /\ UNCHANGED <<conditions, invite, users, via, connection, sessions, consents>>

\* ... and then its invitation; the link is mailed and part of the answer.
IssueInvite(h) ==
    /\ th[h].pc = "invite"
    /\ invite' = [invite EXCEPT ![th[h].request] = "unused"]
    /\ Ends(h)
    /\ UNCHANGED <<conditions, requests, addressee, users, via, connection, sessions, consents>>

\* Fourteen days pass.
ExpireInvite(r) ==
    /\ invite[r] = "unused"
    /\ invite' = [invite EXCEPT ![r] = "expired"]
    /\ UNCHANGED <<conditions, requests, addressee, users, via, connection, sessions, consents, th>>

-----------------------------------------------------------------------------
(* The login                                                               *)

\* /login signs a state that carries the invitation of a link (0 is none); any
\* account may be chosen at Google.
Login(h, a, r) ==
    /\ th[h].pc = "idle"
    /\ r # 0 => invite[r] # "none"
    /\ Becomes(h, Begun("consent", a, r, 0, 0))
    /\ UNCHANGED <<conditions, database, connection, sessions, consents>>

\* The state expires, or consent is not given.
GiveUp(h) ==
    /\ th[h].pc = "consent"
    /\ Ends(h)
    /\ UNCHANGED <<conditions, database, connection, sessions, consents>>

\* A broken resolve_role_on_first_login that takes any role it finds.
CallbackAnyRole(h) ==
    LET t    == th[h]
        role == ConfiguredRole(t.account)
    IN  /\ t.pc = "consent"
        /\ consents < MaxConsents
        /\ consents' = consents + 1
        /\ \/ /\ users[t.account] # "none"
              /\ Becomes(h, [t EXCEPT !.pc = "store", !.grant = consents + 1])
           \/ /\ users[t.account] = "none" /\ t.request # 0
              /\ Becomes(h, [t EXCEPT !.pc = "check", !.grant = consents + 1])
           \/ /\ users[t.account] = "none" /\ t.request = 0
              /\ IF role # "none"
                 THEN Becomes(h, [t EXCEPT !.pc = "create", !.role = role, !.grant = consents + 1])
                 ELSE Ends(h)
        /\ UNCHANGED <<conditions, database, connection, sessions>>

\* callback: the code is exchanged for a new consent; a known account logs in,
\* an unknown one with an invitation has it looked at, and one without gets the
\* role configured for its address, if any.
Callback(h) ==
    LET t    == th[h]
        role == ConfiguredRole(t.account)
    IN  /\ t.pc = "consent"
        /\ consents < MaxConsents
        /\ consents' = consents + 1
        /\ \/ /\ users[t.account] # "none"
              /\ Becomes(h, [t EXCEPT !.pc = "store", !.grant = consents + 1])
           \/ /\ users[t.account] = "none" /\ t.request # 0
              /\ Becomes(h, [t EXCEPT !.pc = "check", !.grant = consents + 1])
           \/ /\ users[t.account] = "none" /\ t.request = 0
              /\ IF role \in Roles
                 THEN Becomes(h, [t EXCEPT !.pc = "create", !.role = role, !.grant = consents + 1])
                 ELSE Ends(h)
        /\ UNCHANGED <<conditions, database, connection, sessions>>

\* A broken check that lets an invitation in again.
CheckUnexpired(h) ==
    LET r == th[h].request
    IN  /\ th[h].pc = "check"
        /\ IF invite[r] \in {"unused", "used"} /\ SameAddress(addressee[r], EmailOf[th[h].account])
           THEN Becomes(h, [th[h] EXCEPT !.pc = "consume", !.role = "candidate"])
           ELSE Ends(h)
        /\ UNCHANGED <<conditions, database, connection, sessions, consents>>

\* A broken check that does not compare the addresses.
CheckAnyone(h) ==
    /\ th[h].pc = "check"
    /\ IF invite[th[h].request] = "unused"
       THEN Becomes(h, [th[h] EXCEPT !.pc = "consume", !.role = "candidate"])
       ELSE Ends(h)
    /\ UNCHANGED <<conditions, database, connection, sessions, consents>>

\* resolve_role_on_first_login reads the invitation ...
CheckInvite(h) ==
    LET r == th[h].request
    IN  /\ th[h].pc = "check"
        /\ IF invite[r] = "unused" /\ SameAddress(addressee[r], EmailOf[th[h].account])
           THEN Becomes(h, [th[h] EXCEPT !.pc = "consume", !.role = "candidate"])
           ELSE Ends(h)
        /\ UNCHANGED <<conditions, database, connection, sessions, consents>>

\* A broken commit after which a configured role is preferred, and is unknown.
ConsumeForListed(h) ==
    /\ th[h].pc = "consume"
    /\ invite' = [invite EXCEPT ![th[h].request] = "used"]
    /\ IF ConfiguredRole(th[h].account) = "unknown"
       THEN Ends(h)
       ELSE Becomes(h, [th[h] EXCEPT !.pc = "create"])
    /\ UNCHANGED <<conditions, requests, addressee, users, via, connection, sessions, consents>>

\* ... and commits that it is used, whatever became of it in between.
ConsumeInvite(h) ==
    /\ th[h].pc = "consume"
    /\ invite' = [invite EXCEPT ![th[h].request] = "used"]
    /\ Becomes(h, [th[h] EXCEPT !.pc = "create"])
    /\ UNCHANGED <<conditions, requests, addressee, users, via, connection, sessions, consents>>

\* A broken insert that knows an account by its Google identity only.
CreateByIdentity(h) ==
    LET a == th[h].account
    IN  /\ th[h].pc = "create"
        /\ IF users[a] # "none"
           THEN Ends(h) /\ UNCHANGED <<users, via>>
           ELSE /\ users' = [users EXCEPT ![a] = th[h].role]
                /\ via' = [via EXCEPT ![a] = th[h].request]
                /\ Becomes(h, [th[h] EXCEPT !.pc = "store"])
        /\ UNCHANGED <<conditions, requests, addressee, invite, connection, sessions, consents>>

\* google_id and email are unique, the latter letter by letter.
Taken(a) == \E b \in Accounts : users[b] # "none" /\ (b = a \/ EmailOf[b] = EmailOf[a])

\* The insert into users, with the address as Google spells it.
CreateUser(h) ==
    LET a == th[h].account
    IN  /\ th[h].pc = "create"
        /\ IF Taken(a)
           THEN Ends(h) /\ UNCHANGED <<users, via>>
           ELSE /\ users' = [users EXCEPT ![a] = th[h].role]
                /\ via' = [via EXCEPT ![a] = th[h].request]
                /\ Becomes(h, [th[h] EXCEPT !.pc = "store"])
        /\ UNCHANGED <<conditions, requests, addressee, invite, connection, sessions, consents>>

\* store_credentials reads the oauth_tokens row ...
FindToken(h) ==
    /\ th[h].pc = "store"
    /\ Becomes(h, [th[h] EXCEPT !.pc = "write", !.row = tokens[th[h].account].id])
    /\ UNCHANGED <<conditions, database, connection, sessions, consents>>

\* The row a handler has read is still there (0: there is none yet).
Unmoved(h) == tokens[th[h].account].id = th[h].row

\* ... and commits it, inserted if there was none.  If it has been deleted or
\* another one inserted meanwhile, that fails.
WriteToken(h) ==
    LET t  == th[h]
        id == IF t.row = 0 THEN rows + 1 ELSE t.row
    IN  /\ t.pc = "write"
        /\ IF Unmoved(h)
           THEN /\ tokens' = [tokens EXCEPT ![t.account] =
                                [id |-> id, grant |-> t.grant, access |-> t.grant, fresh |-> TRUE]]
                /\ rows' = IF t.row = 0 THEN rows + 1 ELSE rows
                /\ sessions' = sessions \cup {t.account}
           ELSE UNCHANGED <<tokens, rows, sessions>>
        /\ Ends(h)
        /\ UNCHANGED <<conditions, database, revoked, consents>>

\* The session cookie runs out, or is deleted by /logout.
EndSession(a) ==
    /\ a \in sessions
    /\ sessions' = sessions \ {a}
    /\ UNCHANGED <<conditions, database, connection, consents, th>>

-----------------------------------------------------------------------------
(* The Google connection                                                   *)

\* The access token is within a minute of its expiry, or past it.
TokenAges(a) ==
    /\ "calendar" \in conditions
    /\ tokens[a].fresh
    /\ tokens' = [tokens EXCEPT ![a].fresh = FALSE]
    /\ UNCHANGED <<conditions, database, revoked, rows, sessions, consents, th>>

\* get_valid_access_token, for a calendar call on someone's behalf: the row has
\* been read and the access token is too old.
NeedToken(h, a) ==
    /\ "calendar" \in conditions
    /\ th[h].pc = "idle"
    /\ tokens[a] # NoToken /\ ~tokens[a].fresh
    /\ Becomes(h, Begun("renew", a, 0, tokens[a].id, tokens[a].grant))
    /\ UNCHANGED <<conditions, database, connection, sessions, consents>>

\* Google renews it unless the consent has ended.
Renew(h) ==
    /\ th[h].pc = "renew"
    /\ th[h].grant \notin revoked
    /\ Becomes(h, [th[h] EXCEPT !.pc = "renewed"])
    /\ UNCHANGED <<conditions, database, connection, sessions, consents>>

\* ReauthRequired
RenewRefused(h) ==
    /\ th[h].pc = "renew"
    /\ Ends(h)
    /\ UNCHANGED <<conditions, database, connection, sessions, consents>>

\* A broken commit that finds the row by the user instead of its key.
StoreRenewedByUser(h) ==
    LET t == th[h]
    IN  /\ t.pc = "renewed"
        /\ tokens' = IF tokens[t.account] # NoToken
                     THEN [tokens EXCEPT ![t.account].access = t.grant, ![t.account].fresh = TRUE]
                     ELSE tokens
        /\ Ends(h)
        /\ UNCHANGED <<conditions, database, revoked, rows, sessions, consents>>

\* The new access token and its expiry are committed, and nothing else of the
\* row; that fails if the row has been deleted.
StoreRenewed(h) ==
    LET t == th[h]
    IN  /\ t.pc = "renewed"
        /\ tokens' = IF tokens[t.account] # NoToken /\ Unmoved(h)
                     THEN [tokens EXCEPT ![t.account].access = t.grant, ![t.account].fresh = TRUE]
                     ELSE tokens
        /\ Ends(h)
        /\ UNCHANGED <<conditions, database, revoked, rows, sessions, consents>>

\* disconnect reads the row ...
Disconnect(h, a) ==
    /\ "calendar" \in conditions
    /\ th[h].pc = "idle"
    /\ a \in sessions
    /\ tokens[a] # NoToken
    /\ Becomes(h, Begun("revoke", a, 0, tokens[a].id, tokens[a].grant))
    /\ UNCHANGED <<conditions, database, connection, sessions, consents>>

\* ... asks Google to end the consent, and does not mind if that fails ...
Revoke(h) ==
    /\ th[h].pc = "revoke"
    /\ revoked' \in {revoked, revoked \cup {th[h].grant}}
    /\ Becomes(h, [th[h] EXCEPT !.pc = "forget"])
    /\ UNCHANGED <<conditions, database, tokens, rows, sessions, consents>>

\* ... and deletes it.
Forget(h) ==
    /\ th[h].pc = "forget"
    /\ tokens' = IF Unmoved(h) THEN [tokens EXCEPT ![th[h].account] = NoToken] ELSE tokens
    /\ Ends(h)
    /\ UNCHANGED <<conditions, database, revoked, rows, sessions, consents>>

-----------------------------------------------------------------------------
\* A handler dies, or its commit fails.
Fail(h) ==
    /\ "failures" \in conditions
    /\ th[h].pc # "idle"
    /\ Ends(h)
    /\ UNCHANGED <<conditions, database, connection, sessions, consents>>

Init ==
    /\ conditions \in Worlds
    /\ requests = 0
    /\ addressee = [r \in Requests |-> "none"]
    /\ invite = [r \in Requests |-> "none"]
    /\ users = [a \in Accounts |-> "none"]
    /\ via = [a \in Accounts |-> 0]
    /\ tokens = [a \in Accounts |-> NoToken]
    /\ sessions = {}
    /\ revoked = {}
    /\ consents = 0
    /\ rows = 0
    /\ th = [h \in Handlers |-> Idle]

Inviting(h) ==
    \/ \E a \in Accounts, e \in Emails : CreateRequest(h, a, e)
    \/ IssueInvite(h)

LoggingIn(h) ==
    \/ \E a \in Accounts, r \in 0 .. MaxRequests : Login(h, a, r)
    \/ GiveUp(h)
    \/ Callback(h)
    \/ CheckInvite(h)
    \/ ConsumeInvite(h)
    \/ CreateUser(h)
    \/ FindToken(h)
    \/ WriteToken(h)

Connected(h) ==
    \/ \E a \in Accounts : NeedToken(h, a) \/ Disconnect(h, a)
    \/ Renew(h)
    \/ RenewRefused(h)
    \/ StoreRenewed(h)
    \/ Revoke(h)
    \/ Forget(h)

Next ==
    \/ \E h \in Handlers : Inviting(h) \/ LoggingIn(h) \/ Connected(h) \/ Fail(h)
    \/ \E r \in Requests : ExpireInvite(r)
    \/ \E a \in Accounts : EndSession(a) \/ TokenAges(a)

Spec == Init /\ [][Next]_vars

-----------------------------------------------------------------------------
(* Properties                                                              *)

TypeOK ==
    /\ conditions \in Worlds
    /\ requests \in 0 .. MaxRequests
    /\ addressee \in [Requests -> Emails \cup {"none"}]
    /\ invite \in [Requests -> Invites]
    /\ users \in [Accounts -> Roles \cup {"none"}]
    /\ via \in [Accounts -> 0 .. MaxRequests]
    /\ tokens \in [Accounts -> Token]
    /\ sessions \subseteq Accounts
    /\ consents \in 0 .. MaxConsents
    /\ rows \in Nat
    /\ revoked \subseteq 0 .. MaxConsents
    /\ th \in [Handlers -> Thread]

Registered(a) == users[a] # "none"

Quiet == \A h \in Handlers : th[h].pc = "idle"

Redeemers(r) == {a \in Accounts : via[a] = r}

\* An invitation that is used up, and that no callback is still redeeming.
Spent(r) ==
    /\ invite[r] = "used"
    /\ \A h \in Handlers : th[h].request = r => th[h].pc \notin {"consume", "create"}

\* An invitation is single-use but for a race: once the callbacks that found it
\* unused are through, it makes no more users, whoever shows it and whatever
\* else fails, expires or is created; and those callbacks make one user for
\* each spelling of its address.
InviteIsSpent ==
    [][\A r \in Requests :
          /\ Spent(r) => Spent(r)' /\ Redeemers(r)' = Redeemers(r)
          /\ \A a, b \in Redeemers(r)' : EmailOf[a] = EmailOf[b] => a = b]_vars

\* Nobody is in without having been let in: a candidate through a used
\* invitation to their own address, anyone else in the role configured for it,
\* and sessions and tokens are those of users.
EveryoneWasLetIn ==
    \A a \in Accounts :
        /\ Registered(a) =>
              IF via[a] # 0
              THEN /\ users[a] = "candidate"
                   /\ invite[via[a]] = "used"
                   /\ SameAddress(addressee[via[a]], EmailOf[a])
              ELSE users[a] = ConfiguredRole(a)
        /\ a \in sessions \/ tokens[a] # NoToken => Registered(a)

\* Unless a handler fails, nobody is locked out: every request comes to have
\* its invitation, and where one is used up its address has a user.  (The
\* commits of a request and of its invitation, of a used invitation and of the
\* user are separate.  The user may be older than the invitation: a new account
\* at that address uses it up and is refused.)
NobodyLockedOut ==
    "failures" \notin conditions /\ Quiet =>
        \A r \in 1 .. requests :
            /\ invite[r] # "none"
            /\ invite[r] = "used" =>
                  \E a \in Accounts : Registered(a) /\ SameAddress(addressee[r], EmailOf[a])

\* Unless a handler fails, no token is kept whose consent a disconnect has
\* ended, in whatever order disconnects, refreshes and new logins commit.
NoDeadTokens ==
    "failures" \notin conditions /\ Quiet =>
        \A a \in Accounts :
            tokens[a] # NoToken => {tokens[a].grant, tokens[a].access} \cap revoked = {}

=============================================================================
