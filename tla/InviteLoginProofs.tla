-------------------------- MODULE InviteLoginProofs --------------------------
(***************************************************************************)
(* Proofs about InviteLogin: type correctness, and the invariants behind   *)
(* its properties, for every number of accounts, handlers, requests   *)
(* and consents.                                                           *)
(***************************************************************************)
EXTENDS InviteLogin, TLAPS

(***************************************************************************)
(* Types.                                                                  *)
(***************************************************************************)

\* A thread that is not idle has an account, and stays typed as it moves on.
LEMMA MovedOn ==
    ASSUME NEW t \in Thread, t.pc # "idle", NEW pc \in Steps, NEW role \in Roles,
           NEW grant \in 0 .. MaxConsents, NEW row \in Nat
    PROVE  /\ t \in Busy
           /\ [t EXCEPT !.pc = pc] \in Thread
           /\ [t EXCEPT !.pc = pc, !.grant = grant] \in Thread
           /\ [t EXCEPT !.pc = pc, !.role = role] \in Thread
           /\ [t EXCEPT !.pc = pc, !.role = role, !.grant = grant] \in Thread
           /\ [t EXCEPT !.pc = pc, !.row = row] \in Thread
<1>1. t \in Busy
  BY DEF Thread, Idle
<1>2. Roles \subseteq Roles \cup {"none"}
  OBVIOUS
<1> QED
  BY <1>1, <1>2 DEF Thread, Busy

\* So is one that begins.
LEMMA Started ==
    ASSUME NEW pc \in Steps, NEW a \in Accounts, NEW r \in 0 .. MaxRequests,
           NEW row \in Nat, NEW grant \in 0 .. MaxConsents
    PROVE  Begun(pc, a, r, row, grant) \in Thread
BY DEF Begun, Thread, Busy

\* The initial state has the right types.
LEMMA InitTypeOK == Init => TypeOK
<1> SUFFICES ASSUME Init PROVE TypeOK
  OBVIOUS
<1>1. th \in [Handlers -> Thread]
  BY DEF Init, Thread
<1> QED
  BY <1>1, LoginAssumption DEF Init, TypeOK, Requests, Invites, Token, NoToken

\* Every step keeps the types.
LEMMA NextTypeOK == TypeOK /\ [Next]_vars => TypeOK'
<1> SUFFICES ASSUME TypeOK, [Next]_vars PROVE TypeOK'
  OBVIOUS
<1> DEFINE Threads == [Handlers -> Thread]
<1>0. /\ th \in Threads
      /\ \A h \in Handlers : th[h] \in Thread
  BY DEF TypeOK
<1>e. ASSUME NEW h \in Handlers, Ends(h) PROVE th' \in Threads
  BY <1>0, <1>e DEF Ends, Becomes, Thread
<1>b. ASSUME NEW h \in Handlers, NEW t \in Thread, Becomes(h, t) PROVE th' \in Threads
  BY <1>0, <1>b DEF Becomes
<1>m. "candidate" \in Roles
  BY DEF Roles
<1>c. /\ consents \in 0 .. MaxConsents
      /\ revoked \subseteq 0 .. MaxConsents
      /\ MaxConsents \in Nat /\ MaxRequests \in Nat
  BY LoginAssumption DEF TypeOK
<1>t. ASSUME NEW a \in Accounts
      PROVE  /\ tokens[a].id \in Nat
             /\ tokens[a].grant \in 0 .. MaxConsents
             /\ tokens[a].access \in 0 .. MaxConsents
  BY DEF TypeOK, Token
<1>z. 0 \in Nat /\ 0 \in 0 .. MaxConsents /\ 0 \in 0 .. MaxRequests
  BY <1>c
<1>n. NoToken \in Token
  BY <1>c DEF Token, NoToken
<1> HIDE DEF Threads
<1>1. ASSUME NEW h \in Handlers, Inviting(h) PROVE TypeOK'
  <2>1. ASSUME NEW a \in Accounts, NEW e \in Emails, CreateRequest(h, a, e) PROVE TypeOK'
    <3>1. requests + 1 \in Requests /\ requests + 1 \in 0 .. MaxRequests
      BY <2>1, <1>c DEF TypeOK, CreateRequest, Requests
    <3>2. Begun("invite", a, requests + 1, 0, 0) \in Thread
      BY <3>1, <1>c, <1>z, Started DEF Steps
    <3>3. th' \in Threads
      BY <2>1, <3>2, <1>b DEF CreateRequest
    <3> QED BY <2>1, <3>1, <3>3 DEF TypeOK, CreateRequest, connection, Threads
  <2>2. CASE IssueInvite(h)
    BY <2>2, <1>e DEF TypeOK, IssueInvite, Requests, Invites, connection, Threads
  <2> QED BY <1>1, <2>1, <2>2 DEF Inviting
<1>2. ASSUME NEW h \in Handlers, LoggingIn(h) PROVE TypeOK'
  <2>1. ASSUME NEW a \in Accounts, NEW r \in 0 .. MaxRequests, Login(h, a, r) PROVE TypeOK'
    <3>1. Begun("consent", a, r, 0, 0) \in Thread
      BY <1>c, <1>z, Started DEF Steps
    <3>2. th' \in Threads
      BY <2>1, <3>1, <1>b DEF Login
    <3> QED BY <2>1, <3>2 DEF TypeOK, Login, connection, database, Threads
  <2>2. CASE GiveUp(h)
    BY <2>2, <1>e DEF TypeOK, GiveUp, connection, database, Threads
  <2>3. CASE Callback(h)
    <3> DEFINE role == ConfiguredRole(th[h].account)
               move(pc) == [th[h] EXCEPT !.pc = pc, !.grant = consents + 1]
    <3>1. consents + 1 \in 0 .. MaxConsents
      BY <2>3, <1>c DEF Callback
    <3>2. move("store") \in Thread /\ move("check") \in Thread
      BY <2>3, <3>1, <1>0, <1>c, <1>m, MovedOn DEF Callback, Steps
    <3>3. role \in Roles =>
             [th[h] EXCEPT !.pc = "create", !.role = role, !.grant = consents + 1] \in Thread
      BY <2>3, <3>1, <1>0, <1>c, MovedOn DEF Callback, Steps
    <3>4. th' \in Threads
      BY <2>3, <3>2, <3>3, <1>b, <1>e DEF Callback
    <3>5. consents' \in 0 .. MaxConsents
      BY <2>3, <3>1, <1>c DEF Callback, connection
    <3> QED BY <2>3, <3>4, <3>5 DEF TypeOK, Callback, connection, database, Threads
  <2>4. CASE CheckInvite(h)
    <3>1. [th[h] EXCEPT !.pc = "consume", !.role = "candidate"] \in Thread
      BY <2>4, <1>0, <1>c, <1>m, MovedOn DEF CheckInvite, Steps
    <3>2. th' \in Threads
      BY <2>4, <3>1, <1>b, <1>e DEF CheckInvite
    <3> QED BY <2>4, <3>2 DEF TypeOK, CheckInvite, connection, database, Threads
  <2>5. CASE ConsumeInvite(h)
    <3>1. [th[h] EXCEPT !.pc = "create"] \in Thread
      BY <2>5, <1>0, <1>c, <1>m, MovedOn DEF ConsumeInvite, Steps
    <3>2. th' \in Threads
      BY <2>5, <3>1, <1>b DEF ConsumeInvite
    <3> QED BY <2>5, <3>2 DEF TypeOK, ConsumeInvite, Invites, connection, Threads
  <2>6. CASE CreateUser(h)
    <3>1. [th[h] EXCEPT !.pc = "store"] \in Thread
      BY <2>6, <1>0, <1>c, <1>m, MovedOn DEF CreateUser, Steps
    <3>2. th' \in Threads
      BY <2>6, <3>1, <1>b, <1>e DEF CreateUser
    <3>3. th[h] \in Busy
      BY <2>6, <1>0, <1>c, <1>m, MovedOn DEF CreateUser, Steps
    <3> QED BY <2>6, <3>2, <3>3 DEF TypeOK, CreateUser, Busy, connection, Threads
  <2>7. CASE FindToken(h)
    <3>0. th[h].account \in Accounts
      BY <2>7, <1>0 DEF FindToken, Thread, Busy, Idle
    <3>1. [th[h] EXCEPT !.pc = "write", !.row = tokens[th[h].account].id] \in Thread
      BY <2>7, <3>0, <1>0, <1>c, <1>m, <1>t, MovedOn DEF FindToken, Steps
    <3>2. th' \in Threads
      BY <2>7, <3>1, <1>b DEF FindToken
    <3> QED BY <2>7, <3>2 DEF TypeOK, FindToken, connection, database, Threads
  <2>8. CASE WriteToken(h)
    <3>1. th' \in Threads
      BY <2>8, <1>e DEF WriteToken
    <3>2. th[h] \in Busy
      BY <2>8, <1>0, <1>c, <1>m, MovedOn DEF WriteToken, Steps
    <3>3. /\ th[h].account \in Accounts /\ th[h].row \in Nat
          /\ th[h].grant \in 0 .. MaxConsents
      BY <3>2 DEF Busy
    <3>4. rows \in Nat /\ rows + 1 \in Nat
      BY DEF TypeOK
    <3>5. \A n \in Nat : [id |-> n, grant |-> th[h].grant, access |-> th[h].grant, fresh |-> TRUE] \in Token
      BY <3>3 DEF Token
    <3>6. tokens' \in [Accounts -> Token]
      BY <2>8, <3>3, <3>4, <3>5 DEF TypeOK, WriteToken
    <3>7. rows' \in Nat /\ sessions' \subseteq Accounts
      BY <2>8, <3>3, <3>4 DEF TypeOK, WriteToken
    <3> QED BY <2>8, <3>1, <3>6, <3>7 DEF TypeOK, WriteToken, database, Threads
  <2> QED BY <1>2, <2>1, <2>2, <2>3, <2>4, <2>5, <2>6, <2>7, <2>8 DEF LoggingIn
<1>3. ASSUME NEW h \in Handlers, Connected(h) PROVE TypeOK'
  <2>1. ASSUME NEW a \in Accounts, NeedToken(h, a) PROVE TypeOK'
    <3>1. Begun("renew", a, 0, tokens[a].id, tokens[a].grant) \in Thread
      BY <1>z, <1>t, Started DEF Steps
    <3>2. th' \in Threads
      BY <2>1, <1>b, <3>1 DEF NeedToken
    <3> QED BY <2>1, <3>2 DEF TypeOK, NeedToken, connection, database, Threads
  <2>2. ASSUME NEW a \in Accounts, Disconnect(h, a) PROVE TypeOK'
    <3>1. Begun("revoke", a, 0, tokens[a].id, tokens[a].grant) \in Thread
      BY <1>z, <1>t, Started DEF Steps
    <3>2. th' \in Threads
      BY <2>2, <1>b, <3>1 DEF Disconnect
    <3> QED BY <2>2, <3>2 DEF TypeOK, Disconnect, connection, database, Threads
  <2>3. CASE Renew(h)
    <3>1. [th[h] EXCEPT !.pc = "renewed"] \in Thread
      BY <2>3, <1>0, <1>c, <1>m, MovedOn DEF Renew, Steps
    <3> QED BY <2>3, <3>1, <1>b DEF TypeOK, Renew, connection, database, Threads
  <2>4. CASE RenewRefused(h)
    BY <2>4, <1>e DEF TypeOK, RenewRefused, connection, database, Threads
  <2>5. CASE StoreRenewed(h)
    <3>1. th' \in Threads
      BY <2>5, <1>e DEF StoreRenewed
    <3>2. th[h] \in Busy
      BY <2>5, <1>0, <1>c, <1>m, MovedOn DEF StoreRenewed, Steps
    <3> QED BY <2>5, <3>1, <3>2 DEF TypeOK, StoreRenewed, Unmoved, Busy, Token, database, Threads
  <2>6. CASE Revoke(h)
    <3>1. [th[h] EXCEPT !.pc = "forget"] \in Thread
      BY <2>6, <1>0, <1>c, <1>m, MovedOn DEF Revoke, Steps
    <3>2. th[h] \in Busy
      BY <2>6, <1>0, <1>c, <1>m, MovedOn DEF Revoke, Steps
    <3> QED BY <2>6, <3>1, <3>2, <1>b DEF TypeOK, Revoke, Busy, database, Threads
  <2>7. CASE Forget(h)
    BY <2>7, <1>e, <1>n DEF TypeOK, Forget, database, Threads
  <2> QED BY <1>3, <2>1, <2>2, <2>3, <2>4, <2>5, <2>6, <2>7 DEF Connected
<1>4. ASSUME NEW h \in Handlers, Fail(h) PROVE TypeOK'
  BY <1>4, <1>e DEF TypeOK, Fail, connection, database, Threads
<1>5. ASSUME NEW r \in Requests, ExpireInvite(r) PROVE TypeOK'
  BY <1>5 DEF TypeOK, ExpireInvite, Requests, Invites, connection
<1>6. ASSUME NEW a \in Accounts, EndSession(a) PROVE TypeOK'
  BY <1>6 DEF TypeOK, EndSession, connection, database
<1>7. ASSUME NEW a \in Accounts, TokenAges(a) PROVE TypeOK'
  BY <1>7 DEF TypeOK, TokenAges, Token, database
<1>8. CASE UNCHANGED vars
  BY <1>8 DEF TypeOK, vars, connection, database
<1> QED BY <1>1, <1>2, <1>3, <1>4, <1>5, <1>6, <1>7, <1>8 DEF Next

\* The variables always have the types TypeOK gives them.
THEOREM TypeCorrect == Spec => []TypeOK
BY InitTypeOK, NextTypeOK, PTL DEF Spec

(***************************************************************************)
(* Who is let in.                                                          *)
(***************************************************************************)

\* An account may have this role, from this invitation (0: by configuration).
Entitled(a, role, r) ==
    IF r # 0
    THEN /\ role = "candidate"
         /\ r \in 1 .. requests
         /\ invite[r] = "used"
         /\ SameAddress(addressee[r], EmailOf[a])
    ELSE role = ConfiguredRole(a)

\* What a handler has found out so far.
Knows(h) ==
    LET t == th[h]
    IN  /\ t.pc \in {"consent", "check", "consume"} /\ t.request # 0 =>
              t.request \in 1 .. requests /\ invite[t.request] # "none"
        /\ t.pc \in {"check", "consume"} => t.request # 0
        /\ t.pc = "consume" => t.role = "candidate" /\ SameAddress(addressee[t.request], EmailOf[t.account])
        /\ t.pc = "create" => t.role \in Roles /\ Entitled(t.account, t.role, t.request)
        /\ t.pc \in {"store", "write"} => Registered(t.account)

\* The request a handler is about to invite for has no invitation yet.
Invites1(h) ==
    th[h].pc = "invite" =>
        /\ th[h].request \in 1 .. requests
        /\ invite[th[h].request] = "none"
        /\ \A g \in Handlers :
              g # h /\ th[g].pc = "invite" => th[g].request # th[h].request

\* The users table.
UsersInv ==
    /\ \A a \in Accounts :
          /\ Registered(a) => Entitled(a, users[a], via[a])
          /\ ~Registered(a) => via[a] = 0
          /\ a \in sessions \/ tokens[a] # NoToken => Registered(a)
    /\ \A a, b \in Accounts : Registered(a) /\ Registered(b) /\ EmailOf[a] = EmailOf[b] => a = b

LetIn ==
    /\ UsersInv
    /\ \A r \in Requests : invite[r] # "none" => r \in 1 .. requests
    /\ \A h \in Handlers : Knows(h) /\ Invites1(h)

\* What every step does to the database.
Grows ==
    /\ requests <= requests'
    /\ \A r \in 1 .. requests : addressee'[r] = addressee[r]
    /\ \A r \in Requests : /\ invite[r] # "none" => invite'[r] # "none"
                           /\ invite[r] = "used" => invite'[r] = "used"
    /\ \A a \in Accounts : Registered(a) => users'[a] = users[a] /\ via'[a] = via[a]

LEMMA EntitledKept ==
    ASSUME TypeOK, TypeOK', Grows, NEW a, NEW role, NEW r, Entitled(a, role, r)
    PROVE  Entitled(a, role, r)'
BY LoginAssumption DEF TypeOK, Grows, Entitled, Requests

\* A handler's knowledge survives the steps of others.
LEMMA KnowsKept ==
    ASSUME TypeOK, TypeOK', Grows, NEW h \in Handlers, Knows(h), th'[h] = th[h]
    PROVE  Knows(h)'
<1>1. th[h] \in Busy \/ th[h] = Idle
  BY DEF TypeOK, Thread
<1>2. CASE th[h] = Idle
  BY <1>2 DEF Knows, Idle
<1>3. CASE th[h] \in Busy
  <2>1. th[h].account \in Accounts
    BY <1>3 DEF Busy
  <2>2. th[h].pc \in {"store", "write"} => Registered(th[h].account)'
    BY <2>1 DEF Knows, Grows, Registered
  <2>3. th[h].pc = "create" => Entitled(th[h].account, th[h].role, th[h].request)'
    BY EntitledKept DEF Knows
  <2>4. th[h].pc \in {"consent", "check", "consume"} /\ th[h].request # 0 =>
           th[h].request \in 1 .. requests' /\ invite'[th[h].request] # "none"
    BY LoginAssumption DEF Knows, Grows, TypeOK, Requests
  <2>5. th[h].pc = "consume" => SameAddress(addressee'[th[h].request], EmailOf[th[h].account])
    BY DEF Knows, Grows
  <2> QED
    BY <2>2, <2>3, <2>4, <2>5 DEF Knows
<1> QED
  BY <1>1, <1>2, <1>3

\* So does the users table, if nobody is added to it and sessions and tokens
\* come to users only.
LEMMA UsersKept ==
    ASSUME TypeOK, TypeOK', Grows, UsersInv,
           users' = users, via' = via,
           \A a \in Accounts : a \in sessions' \/ tokens'[a] # NoToken => Registered(a)
    PROVE  UsersInv'
<1>1. \A a \in Accounts : Registered(a) => Entitled(a, users[a], via[a])'
  BY EntitledKept DEF UsersInv, Registered
<1> QED
  BY <1>1 DEF UsersInv, Registered, NoToken, Entitled

\* A step that leaves the database alone, gives sessions and tokens to users
\* only and moves one handler on keeps LetIn if that handler does.
LEMMA LetInFrame ==
    ASSUME TypeOK, TypeOK', LetIn, UNCHANGED database,
           \A a \in Accounts : a \in sessions' \/ tokens'[a] # NoToken => Registered(a),
           NEW h \in Handlers,
           \A g \in Handlers : g # h => th'[g] = th[g],
           Knows(h)', th'[h].pc # "invite"
    PROVE  LetIn'
<1>1. Grows
  BY LoginAssumption DEF Grows, database, TypeOK, Requests
<1>2. UsersInv'
  BY <1>1, UsersKept DEF LetIn, database
<1>3. \A g \in Handlers : Knows(g)'
  BY <1>1, KnowsKept DEF LetIn
<1>4. \A g \in Handlers : Invites1(g)'
  BY DEF LetIn, Invites1, database
<1> QED
  BY <1>2, <1>3, <1>4 DEF LetIn, database

\* Initially nobody is in.
LEMMA InitLetIn == Init => LetIn
<1> SUFFICES ASSUME Init PROVE LetIn
  OBVIOUS
<1>1. UsersInv
  BY DEF Init, UsersInv, Registered
<1>2. \A r \in Requests : invite[r] = "none"
  BY DEF Init
<1>3. \A h \in Handlers : th[h].pc = "idle"
  BY DEF Init, Idle
<1>4. \A h \in Handlers : Knows(h) /\ Invites1(h)
  BY <1>3 DEF Knows, Invites1
<1> QED
  BY <1>1, <1>2, <1>4 DEF LetIn

\* Every step keeps it.
LEMMA NextLetIn == TypeOK /\ TypeOK' /\ LetIn /\ [Next]_vars => LetIn'
<1> SUFFICES ASSUME TypeOK, TypeOK', LetIn, [Next]_vars PROVE LetIn'
  OBVIOUS
<1>0. \A a \in Accounts : a \in sessions \/ tokens[a] # NoToken => Registered(a)
  BY DEF LetIn, UsersInv
<1>a. \A h \in Handlers : th[h].pc # "idle" => th[h] \in Busy /\ th[h].account \in Accounts
  BY DEF TypeOK, Thread, Busy, Idle
<1>e. ASSUME NEW h \in Handlers, Ends(h)
      PROVE  /\ Knows(h)' /\ th'[h].pc # "invite"
             /\ \A g \in Handlers : g # h => th'[g] = th[g]
  BY <1>e DEF Ends, Becomes, Idle, Knows, TypeOK
<1>b. ASSUME NEW h \in Handlers, NEW t, Becomes(h, t)
      PROVE  th'[h] = t /\ \A g \in Handlers : g # h => th'[g] = th[g]
  BY <1>b DEF Becomes, TypeOK
<1>u. ASSUME UNCHANGED <<database, sessions, tokens, th>> PROVE LetIn'
  BY <1>u DEF LetIn, UsersInv, Registered, Entitled, Knows, Invites1, database
<1>1. ASSUME NEW h \in Handlers, Inviting(h) PROVE LetIn'
  <2>1. ASSUME NEW a \in Accounts, NEW e \in Emails, CreateRequest(h, a, e) PROVE LetIn'
    <3>0. /\ requests' = requests + 1 /\ requests \in Nat
          /\ requests + 1 \in Requests
          /\ \A r \in 1 .. requests : r \in 1 .. requests' /\ r # requests + 1
      BY <2>1, LoginAssumption DEF CreateRequest, TypeOK, Requests
    <3>1. /\ th'[h] = Begun("invite", a, requests + 1, 0, 0)
          /\ \A g \in Handlers : g # h => th'[g] = th[g]
      BY <2>1, <1>b DEF CreateRequest
    <3>2. Grows
      BY <2>1, <3>0 DEF CreateRequest, Grows, TypeOK, connection
    <3>3. UsersInv'
      BY <2>1, <3>2, <1>0, UsersKept DEF CreateRequest, LetIn, connection
    <3>4. \A r \in Requests : invite'[r] # "none" => r \in 1 .. requests'
      BY <2>1, <3>0 DEF CreateRequest, LetIn
    <3>5. \A g \in Handlers : Knows(g)'
      BY <3>1, <3>2, KnowsKept DEF LetIn, Knows, Begun
    <3>6. /\ th'[h].pc = "invite" /\ th'[h].request = requests + 1
          /\ requests + 1 \in 1 .. requests'
          /\ invite' = invite /\ invite[requests + 1] = "none"
      BY <2>1, <3>0, <3>1 DEF CreateRequest, Begun, LetIn
    <3>7. Invites1(h)'
      <4>1. \A g \in Handlers : g # h /\ th'[g].pc = "invite" => th'[g].request # requests + 1
        BY <3>0, <3>1 DEF LetIn, Invites1
      <4> QED BY <3>6, <4>1 DEF Invites1
    <3>8. ASSUME NEW g \in Handlers, g # h PROVE Invites1(g)'
      BY <3>0, <3>1, <3>6, <3>8 DEF Invites1, LetIn
    <3> QED BY <3>3, <3>4, <3>5, <3>7, <3>8 DEF LetIn
  <2>2. CASE IssueInvite(h)
    <3> DEFINE n == th[h].request
    <3>0. n \in 1 .. requests /\ n \in Requests /\ invite[n] = "none"
      BY <2>2, LoginAssumption DEF IssueInvite, LetIn, Invites1, TypeOK, Requests
    <3>1. /\ invite' = [invite EXCEPT ![n] = "unused"]
          /\ UNCHANGED <<requests, addressee, users, via, tokens, sessions>>
      BY <2>2 DEF IssueInvite, connection
    <3>2. Grows
      BY <3>0, <3>1 DEF Grows, TypeOK
    <3>3. UsersInv'
      BY <3>1, <3>2, <1>0, UsersKept DEF LetIn
    <3>4. \A r \in Requests : invite'[r] # "none" => r \in 1 .. requests'
      BY <3>0, <3>1 DEF LetIn, TypeOK
    <3>5. Knows(h)' /\ th'[h].pc # "invite" /\ \A g \in Handlers : g # h => th'[g] = th[g]
      BY <2>2, <1>e DEF IssueInvite
    <3>6. \A g \in Handlers : Knows(g)'
      BY <3>2, <3>5, KnowsKept DEF LetIn
    <3>7. \A g \in Handlers : Invites1(g)'
      <4> SUFFICES ASSUME NEW g \in Handlers, th'[g].pc = "invite" PROVE Invites1(g)'
        BY DEF Invites1
      <4>1. g # h /\ th'[g] = th[g] /\ Invites1(g) /\ th[h].pc = "invite"
        BY <2>2, <3>5 DEF LetIn, IssueInvite
      <4>2. th[g].request # n /\ th[g].request \in 1 .. requests
        BY <4>1 DEF Invites1
      <4>3. invite'[th[g].request] = "none"
        BY <4>1, <4>2, <3>1, LoginAssumption DEF Invites1, TypeOK, Requests
      <4> QED BY <4>1, <4>2, <4>3, <3>1, <3>5 DEF Invites1
    <3> QED BY <3>3, <3>4, <3>6, <3>7 DEF LetIn
  <2> QED BY <1>1, <2>1, <2>2 DEF Inviting
<1>2. ASSUME NEW h \in Handlers, LoggingIn(h) PROVE LetIn'
  <2>1. ASSUME NEW a \in Accounts, NEW r \in 0 .. MaxRequests, Login(h, a, r) PROVE LetIn'
    <3>1. th'[h] = Begun("consent", a, r, 0, 0)
      BY <2>1, <1>b DEF Login
    <3>2. r # 0 => r \in 1 .. requests' /\ invite'[r] # "none"
      BY <2>1, LoginAssumption DEF Login, LetIn, database, Requests
    <3>3. Knows(h)'
      BY <3>1, <3>2 DEF Knows, Begun
    <3> QED BY <2>1, <3>1, <3>3, <1>0, <1>b, LetInFrame DEF Login, Begun, connection
  <2>2. CASE GiveUp(h)
    BY <2>2, <1>0, <1>e, LetInFrame DEF GiveUp, connection
  <2>3. CASE Callback(h)
    <3> DEFINE t == th[h]
               role == ConfiguredRole(t.account)
    <3>0. /\ t.pc = "consent" /\ t \in Busy /\ t.account \in Accounts
          /\ UNCHANGED <<database, sessions, tokens>> /\ Knows(h)
      BY <2>3, <1>a DEF Callback, LetIn, connection
    <3>1. CASE Ends(h)
      BY <3>0, <3>1, <1>0, <1>e, LetInFrame
    <3>2. CASE /\ users[t.account] # "none"
               /\ Becomes(h, [t EXCEPT !.pc = "store", !.grant = consents + 1])
      <4>0. th'[h] = [t EXCEPT !.pc = "store", !.grant = consents + 1]
        BY <3>2, <1>b
      <4>1. th'[h].pc = "store" /\ th'[h].account = t.account
        BY <3>0, <4>0 DEF Busy
      <4>2. Knows(h)'
        BY <4>1, <3>0, <3>2 DEF Knows, Registered, database
      <4> QED BY <3>0, <3>2, <4>1, <4>2, <1>0, <1>b, LetInFrame
    <3>3. CASE /\ t.request # 0
               /\ Becomes(h, [t EXCEPT !.pc = "check", !.grant = consents + 1])
      <4>0. th'[h] = [t EXCEPT !.pc = "check", !.grant = consents + 1]
        BY <3>3, <1>b
      <4>1. th'[h].pc = "check" /\ th'[h].request = t.request
        BY <3>0, <4>0 DEF Busy
      <4>2. Knows(h)'
        BY <4>1, <3>0, <3>3 DEF Knows, database
      <4> QED BY <3>0, <3>3, <4>1, <4>2, <1>0, <1>b, LetInFrame
    <3>4. CASE /\ t.request = 0 /\ role \in Roles
               /\ Becomes(h, [t EXCEPT !.pc = "create", !.role = role, !.grant = consents + 1])
      <4>0. th'[h] = [t EXCEPT !.pc = "create", !.role = role, !.grant = consents + 1]
        BY <3>4, <1>b
      <4>1. /\ th'[h].pc = "create" /\ th'[h].request = 0 /\ th'[h].role = role
            /\ th'[h].account = t.account
        BY <3>0, <3>4, <4>0 DEF Busy
      <4>2. Knows(h)'
        BY <4>1, <3>0, <3>4 DEF Knows, Entitled
      <4> QED BY <3>0, <3>4, <4>1, <4>2, <1>0, <1>b, LetInFrame
    <3> QED BY <2>3, <3>1, <3>2, <3>3, <3>4 DEF Callback
  <2>4. CASE CheckInvite(h)
    <3>0. /\ th[h].pc = "check" /\ th[h] \in Busy /\ Knows(h)
          /\ UNCHANGED <<database, sessions, tokens>>
      BY <2>4, <1>a DEF CheckInvite, LetIn, connection
    <3>1. CASE Ends(h)
      BY <3>0, <3>1, <1>0, <1>e, LetInFrame
    <3>2. CASE /\ invite[th[h].request] = "unused"
               /\ SameAddress(addressee[th[h].request], EmailOf[th[h].account])
               /\ Becomes(h, [th[h] EXCEPT !.pc = "consume", !.role = "candidate"])
      <4>0. th'[h] = [th[h] EXCEPT !.pc = "consume", !.role = "candidate"]
        BY <3>2, <1>b
      <4>1. /\ th'[h].pc = "consume" /\ th'[h].role = "candidate"
            /\ th'[h].request = th[h].request /\ th'[h].account = th[h].account
        BY <3>0, <4>0 DEF Busy
      <4>2. Knows(h)'
        BY <4>1, <3>0, <3>2 DEF Knows, database
      <4> QED BY <3>0, <3>2, <4>1, <4>2, <1>0, <1>b, LetInFrame
    <3> QED BY <2>4, <3>1, <3>2 DEF CheckInvite
  <2>5. CASE ConsumeInvite(h)
    <3> DEFINE n == th[h].request
    <3>0. /\ th[h].pc = "consume" /\ th[h] \in Busy /\ Knows(h)
          /\ n \in 1 .. requests /\ n \in Requests /\ invite[n] # "none"
          /\ th[h].role = "candidate" /\ SameAddress(addressee[n], EmailOf[th[h].account])
          /\ n # 0
      BY <2>5, <1>a, LoginAssumption DEF ConsumeInvite, LetIn, Knows, TypeOK, Requests
    <3>1. /\ invite' = [invite EXCEPT ![n] = "used"]
          /\ UNCHANGED <<requests, addressee, users, via, tokens, sessions>>
      BY <2>5 DEF ConsumeInvite, connection
    <3>2. Grows
      BY <3>0, <3>1 DEF Grows, TypeOK
    <3>3. UsersInv'
      BY <3>1, <3>2, <1>0, UsersKept DEF LetIn
    <3>4. \A r \in Requests : invite'[r] # "none" => r \in 1 .. requests'
      BY <3>0, <3>1 DEF LetIn, TypeOK
    <3>5. /\ th'[h] = [th[h] EXCEPT !.pc = "create"]
          /\ \A g \in Handlers : g # h => th'[g] = th[g]
      BY <2>5, <1>b DEF ConsumeInvite
    <3>6. /\ th'[h].pc = "create" /\ th'[h].role = "candidate"
          /\ th'[h].request = n /\ th'[h].account = th[h].account
          /\ invite'[n] = "used"
      BY <3>0, <3>1, <3>5 DEF Busy, TypeOK
    <3>7. Knows(h)'
      BY <3>0, <3>1, <3>6 DEF Knows, Entitled, Roles
    <3>8. \A g \in Handlers : Knows(g)'
      BY <3>2, <3>5, <3>7, KnowsKept DEF LetIn
    <3>9. \A g \in Handlers : Invites1(g)'
      <4> SUFFICES ASSUME NEW g \in Handlers, th'[g].pc = "invite" PROVE Invites1(g)'
        BY DEF Invites1
      <4>1. g # h /\ th'[g] = th[g] /\ Invites1(g)
        BY <3>5, <3>6 DEF LetIn
      <4>2. th[g].request # n /\ th[g].request \in 1 .. requests /\ invite[th[g].request] = "none"
        BY <4>1, <3>0 DEF Invites1
      <4>3. invite'[th[g].request] = "none"
        BY <4>2, <3>1, LoginAssumption DEF TypeOK, Requests
      <4> QED BY <4>1, <4>2, <4>3, <3>1, <3>5, <3>6 DEF Invites1
    <3> QED BY <3>3, <3>4, <3>8, <3>9 DEF LetIn
  <2>6. CASE CreateUser(h)
    <3>a. PICK a \in Accounts : a = th[h].account
      BY <2>6, <1>a DEF CreateUser
    <3>0. /\ th[h].pc = "create" /\ th[h] \in Busy /\ Knows(h) /\ a = th[h].account
          /\ UNCHANGED <<requests, addressee, invite, sessions, tokens>>
      BY <2>6, <3>a, <1>a DEF CreateUser, LetIn, connection
    <3>1. CASE Taken(a)
      <4>1. Ends(h) /\ UNCHANGED database
        BY <2>6, <3>1, <3>0 DEF CreateUser, database
      <4> QED BY <3>0, <4>1, <1>0, <1>e, LetInFrame
    <3>2. CASE ~Taken(a)
      <4>1. /\ users' = [users EXCEPT ![a] = th[h].role]
            /\ via' = [via EXCEPT ![a] = th[h].request]
            /\ th'[h] = [th[h] EXCEPT !.pc = "store"]
            /\ \A g \in Handlers : g # h => th'[g] = th[g]
        BY <2>6, <3>0, <3>2, <1>b DEF CreateUser
      <4>2. /\ ~Registered(a)
            /\ \A b \in Accounts : Registered(b) => EmailOf[b] # EmailOf[a]
        BY <3>0, <3>2 DEF Taken, Registered
      <4>3. /\ users'[a] = th[h].role /\ via'[a] = th[h].request
            /\ \A b \in Accounts : b # a => users'[b] = users[b] /\ via'[b] = via[b]
            /\ th[h].role # "none"
        BY <3>0, <4>1 DEF TypeOK, Knows, Roles, StaffRoles
      <4>4. Grows
        BY <3>0, <4>2, <4>3, LoginAssumption DEF Grows, TypeOK
      <4>5. IF th[h].request # 0
            THEN /\ th[h].role = "candidate" /\ th[h].request \in 1 .. requests
                 /\ invite[th[h].request] = "used" /\ SameAddress(addressee[th[h].request], EmailOf[a])
            ELSE th[h].role = ConfiguredRole(a)
        BY <3>0 DEF Knows, Entitled
      <4>6. UsersInv'
        <5>1. ASSUME NEW b \in Accounts, b # a, Registered(b)
              PROVE  Entitled(b, users[b], via[b])'
          BY <5>1, <4>3, <3>0 DEF LetIn, UsersInv, Entitled
        <5>2. \A b \in Accounts : Registered(b)' => Registered(b) \/ b = a
          BY <4>3 DEF Registered
        <5>3. Registered(a)' => Entitled(a, users[a], via[a])'
          BY <3>0, <4>3, <4>5 DEF Entitled
        <5>4. \A b \in Accounts : Registered(b)' => Entitled(b, users[b], via[b])'
          <6> SUFFICES ASSUME NEW b \in Accounts, Registered(b)'
                       PROVE  Entitled(b, users[b], via[b])'
            OBVIOUS
          <6>1. CASE b = a
            BY <5>3, <6>1
          <6>2. CASE b # a
            BY <5>1, <5>2, <6>2
          <6> QED BY <6>1, <6>2
        <5>5. \A b \in Accounts : ~Registered(b)' => via'[b] = 0
          BY <4>3 DEF Registered, LetIn, UsersInv
        <5>6. \A b \in Accounts : b \in sessions' \/ tokens'[b] # NoToken => Registered(b)'
          BY <4>3, <3>0, <1>0 DEF Registered
        <5>7. \A b, c \in Accounts :
                 Registered(b)' /\ Registered(c)' /\ EmailOf[b] = EmailOf[c] => b = c
          BY <5>2, <4>2 DEF LetIn, UsersInv
        <5> QED BY <5>4, <5>5, <5>6, <5>7 DEF UsersInv, NoToken
      <4>7. th'[h].pc = "store" /\ th'[h].account = a
        BY <4>1, <3>0 DEF Busy
      <4>8. Knows(h)'
        BY <4>3, <4>7 DEF Knows, Registered
      <4>9. \A g \in Handlers : Knows(g)'
        BY <4>1, <4>4, <4>8, KnowsKept DEF LetIn
      <4>10. \A g \in Handlers : Invites1(g)'
        <5> SUFFICES ASSUME NEW g \in Handlers, th'[g].pc = "invite" PROVE Invites1(g)'
          BY DEF Invites1
        <5>1. g # h /\ th'[g] = th[g] /\ Invites1(g)
          BY <4>1, <4>7 DEF LetIn
        <5> QED BY <5>1, <4>1, <4>7, <3>0 DEF Invites1
      <4> QED BY <3>0, <4>6, <4>9, <4>10 DEF LetIn
    <3> QED BY <3>1, <3>2
  <2>7. CASE FindToken(h)
    <3>0. /\ th[h].pc = "store" /\ th[h] \in Busy /\ Knows(h)
          /\ UNCHANGED <<database, sessions, tokens>>
      BY <2>7, <1>a DEF FindToken, LetIn, connection
    <3>a. th'[h] = [th[h] EXCEPT !.pc = "write", !.row = tokens[th[h].account].id]
      BY <2>7, <1>b DEF FindToken
    <3>1. th'[h].pc = "write" /\ th'[h].account = th[h].account
      BY <3>0, <3>a DEF Busy
    <3>2. Knows(h)'
      BY <3>0, <3>1 DEF Knows, Registered, database
    <3>3. \A g \in Handlers : g # h => th'[g] = th[g]
      BY <2>7, <1>b DEF FindToken
    <3> QED BY <3>0, <3>1, <3>2, <3>3, <1>0, LetInFrame
  <2>8. CASE WriteToken(h)
    <3>0. /\ th[h].pc = "write" /\ Knows(h) /\ Registered(th[h].account)
          /\ th[h].account \in Accounts /\ Ends(h) /\ UNCHANGED database
      BY <2>8, <1>a DEF WriteToken, LetIn, Knows
    <3>1. \A a \in Accounts : a # th[h].account =>
             tokens'[a] = tokens[a] /\ (a \in sessions' => a \in sessions)
      BY <2>8 DEF WriteToken, TypeOK
    <3>2. \A a \in Accounts : a \in sessions' \/ tokens'[a] # NoToken => Registered(a)
      BY <3>0, <3>1, <1>0
    <3> QED BY <3>0, <3>2, <1>e, LetInFrame
  <2> QED BY <1>2, <2>1, <2>2, <2>3, <2>4, <2>5, <2>6, <2>7, <2>8 DEF LoggingIn
<1>3. ASSUME NEW h \in Handlers, Connected(h) PROVE LetIn'
  <2>1. ASSUME NEW a \in Accounts, NeedToken(h, a) PROVE LetIn'
    <3>1. th'[h] = Begun("renew", a, 0, tokens[a].id, tokens[a].grant)
      BY <2>1, <1>b DEF NeedToken
    <3> QED BY <2>1, <3>1, <1>0, <1>b, LetInFrame DEF NeedToken, Begun, Knows, connection
  <2>2. ASSUME NEW a \in Accounts, Disconnect(h, a) PROVE LetIn'
    <3>1. th'[h] = Begun("revoke", a, 0, tokens[a].id, tokens[a].grant)
      BY <2>2, <1>b DEF Disconnect
    <3> QED BY <2>2, <3>1, <1>0, <1>b, LetInFrame DEF Disconnect, Begun, Knows, connection
  <2>3. CASE Renew(h)
    <3>1. th'[h].pc = "renewed"
      BY <2>3, <1>a, <1>b DEF Renew, Busy
    <3> QED BY <2>3, <3>1, <1>0, <1>b, LetInFrame DEF Renew, Knows, connection
  <2>4. CASE RenewRefused(h)
    BY <2>4, <1>0, <1>e, LetInFrame DEF RenewRefused, connection
  <2>5. CASE StoreRenewed(h)
    <3>1. \A a \in Accounts : tokens'[a] # NoToken => tokens[a] # NoToken
      BY <2>5, <1>a DEF StoreRenewed, TypeOK
    <3> QED BY <2>5, <3>1, <1>0, <1>e, LetInFrame DEF StoreRenewed
  <2>6. CASE Revoke(h)
    <3>1. th'[h].pc = "forget"
      BY <2>6, <1>a, <1>b DEF Revoke, Busy
    <3> QED BY <2>6, <3>1, <1>0, <1>b, LetInFrame DEF Revoke, Knows
  <2>7. CASE Forget(h)
    <3>1. \A a \in Accounts : tokens'[a] # NoToken => tokens[a] # NoToken
      BY <2>7, <1>a DEF Forget, TypeOK
    <3> QED BY <2>7, <3>1, <1>0, <1>e, LetInFrame DEF Forget
  <2> QED BY <1>3, <2>1, <2>2, <2>3, <2>4, <2>5, <2>6, <2>7 DEF Connected
<1>4. ASSUME NEW h \in Handlers, Fail(h) PROVE LetIn'
  BY <1>4, <1>0, <1>e, LetInFrame DEF Fail, connection
<1>5. ASSUME NEW r \in Requests, ExpireInvite(r) PROVE LetIn'
  <2>1. /\ invite[r] = "unused" /\ invite' = [invite EXCEPT ![r] = "expired"]
        /\ UNCHANGED <<requests, addressee, users, via, tokens, sessions, th>>
    BY <1>5 DEF ExpireInvite, connection
  <2>2. Grows
    BY <2>1, LoginAssumption DEF Grows, TypeOK
  <2>3. UsersInv'
    BY <2>1, <2>2, <1>0, UsersKept DEF LetIn
  <2>4. \A g \in Handlers : Knows(g)'
    BY <2>1, <2>2, KnowsKept DEF LetIn
  <2>5. \A g \in Handlers : Invites1(g)'
    BY <2>1, LoginAssumption DEF LetIn, Invites1, TypeOK, Requests
  <2>6. \A q \in Requests : invite'[q] # "none" => q \in 1 .. requests'
    BY <2>1 DEF LetIn, TypeOK
  <2> QED BY <2>3, <2>4, <2>5, <2>6 DEF LetIn
<1>6. ASSUME NEW a \in Accounts, EndSession(a) PROVE LetIn'
  BY <1>6 DEF EndSession, LetIn, UsersInv, Registered, Entitled, Knows, Invites1, database, connection
<1>7. ASSUME NEW a \in Accounts, TokenAges(a) PROVE LetIn'
  <2>1. \A b \in Accounts : tokens'[b] # NoToken => tokens[b] # NoToken
    <3>1. tokens[a] # NoToken
      BY <1>7 DEF TokenAges, NoToken
    <3> QED BY <1>7, <3>1 DEF TokenAges, TypeOK
  <2> QED
    BY <1>7, <2>1 DEF TokenAges, LetIn, UsersInv, Registered, Entitled, Knows, Invites1, database
<1>8. CASE UNCHANGED vars
  BY <1>8, <1>u DEF vars, connection
<1> QED BY <1>1, <1>2, <1>3, <1>4, <1>5, <1>6, <1>7, <1>8 DEF Next

\* Nobody is in without having been let in.
THEOREM AllWereLetIn == Spec => []EveryoneWasLetIn
<1>1. LetIn => EveryoneWasLetIn
  BY DEF LetIn, UsersInv, EveryoneWasLetIn, Entitled
<1> QED
  BY <1>1, InitLetIn, NextLetIn, InitTypeOK, NextTypeOK, PTL DEF Spec

(***************************************************************************)
(* What becomes of an invitation that is used up.                          *)
(***************************************************************************)

\* A request's invitation makes one user for each spelling of its address.
OneForASpelling ==
    \A r \in Requests : \A a, b \in Redeemers(r) : EmailOf[a] = EmailOf[b] => a = b

LEMMA LetInOneForASpelling == LetIn => OneForASpelling
<1> SUFFICES ASSUME LetIn, NEW r \in Requests, NEW a \in Redeemers(r), NEW b \in Redeemers(r),
                    EmailOf[a] = EmailOf[b]
             PROVE  a = b
  BY DEF OneForASpelling
<1>1. /\ a \in Accounts /\ via[a] # 0
      /\ b \in Accounts /\ via[b] # 0
  BY LoginAssumption DEF Redeemers, Requests
<1> QED
  BY <1>1 DEF LetIn, UsersInv

\* A step after which one handler, at most, is elsewhere, and is not redeeming r.
LEMMA SpentFrame ==
    ASSUME NEW r \in Requests, Spent(r), via' = via, invite'[r] = "used",
           NEW h \in Handlers, \A g \in Handlers : g # h => th'[g] = th[g],
           th'[h].request = r => th'[h].pc \notin {"consume", "create"}
    PROVE  Spent(r)' /\ Redeemers(r)' = Redeemers(r)
<1>1. \A g \in Handlers : th'[g].request = r => th'[g].pc \notin {"consume", "create"}
  BY DEF Spent
<1> QED
  BY <1>1 DEF Spent, Redeemers

\* What is used up stays so, and makes no more users.
LEMMA NextSpent ==
    ASSUME TypeOK, LetIn, [Next]_vars, NEW r \in Requests, Spent(r)
    PROVE  Spent(r)' /\ Redeemers(r)' = Redeemers(r)
<1> DEFINE Kept == Spent(r)' /\ Redeemers(r)' = Redeemers(r)
<1>b. ASSUME NEW h \in Handlers, NEW t, Becomes(h, t)
      PROVE  th'[h] = t /\ \A g \in Handlers : g # h => th'[g] = th[g]
  BY <1>b DEF Becomes, TypeOK
<1>a. \A h \in Handlers : th[h].pc # "idle" => th[h] \in Busy /\ th[h].account \in Accounts
  BY DEF TypeOK, Thread, Busy, Idle
<1>u. /\ invite[r] = "used" /\ r # 0
      /\ \A h \in Handlers : th[h].request = r => th[h].pc \notin {"consume", "create"}
  BY LoginAssumption DEF Spent, Requests
<1>f. ASSUME via' = via, invite' = invite, NEW h \in Handlers,
             \A g \in Handlers : g # h => th'[g] = th[g],
             th'[h].pc \notin {"consume", "create"}
      PROVE  Kept
  BY <1>f, <1>u, SpentFrame
<1>e. ASSUME via' = via, invite' = invite, NEW h \in Handlers, Ends(h) PROVE Kept
  <2>1. Becomes(h, Idle) /\ Idle.pc = "idle"
    BY <1>e DEF Ends, Idle
  <2> QED BY <2>1, <1>e, <1>b, <1>f
<1> SUFFICES Kept
  OBVIOUS
<1> HIDE DEF Kept
<1>1. ASSUME NEW h \in Handlers, Inviting(h) PROVE Kept
  <2>1. ASSUME NEW a \in Accounts, NEW e \in Emails, CreateRequest(h, a, e) PROVE Kept
    <3>1. /\ th'[h].pc = "invite" /\ \A g \in Handlers : g # h => th'[g] = th[g]
          /\ via' = via /\ invite' = invite
      BY <2>1, <1>b DEF CreateRequest, Begun
    <3> QED BY <3>1, <1>f
  <2>2. CASE IssueInvite(h)
    <3>1. th[h].request # r
      BY <2>2, <1>u DEF IssueInvite, LetIn, Invites1
    <3>2. invite'[r] = "used" /\ via' = via
      BY <2>2, <3>1, <1>u DEF IssueInvite, TypeOK
    <3>3. th'[h] = Idle /\ \A g \in Handlers : g # h => th'[g] = th[g]
      BY <2>2, <1>b DEF IssueInvite, Ends
    <3> QED BY <3>2, <3>3, SpentFrame DEF Idle, Kept
  <2> QED BY <1>1, <2>1, <2>2 DEF Inviting
<1>2. ASSUME NEW h \in Handlers, LoggingIn(h) PROVE Kept
  <2>1. ASSUME NEW a \in Accounts, NEW q \in 0 .. MaxRequests, Login(h, a, q) PROVE Kept
    <3>1. /\ th'[h].pc = "consent" /\ \A g \in Handlers : g # h => th'[g] = th[g]
          /\ via' = via /\ invite' = invite
      BY <2>1, <1>b DEF Login, Begun, database
    <3> QED BY <3>1, <1>f
  <2>2. CASE GiveUp(h)
    BY <2>2, <1>e DEF GiveUp, database
  <2>3. CASE Callback(h)
    <3> DEFINE role == ConfiguredRole(th[h].account)
    <3>0. /\ via' = via /\ invite' = invite /\ th[h] \in Busy
      BY <2>3, <1>a DEF Callback, database
    <3>1. CASE Ends(h)
      BY <3>0, <3>1, <1>e
    <3>2. ASSUME NEW pc \in {"store", "check"},
                 Becomes(h, [th[h] EXCEPT !.pc = pc, !.grant = consents + 1])
          PROVE  Kept
      <4>0. /\ th'[h] = [th[h] EXCEPT !.pc = pc, !.grant = consents + 1]
            /\ \A g \in Handlers : g # h => th'[g] = th[g]
        BY <3>2, <1>b
      <4>1. th'[h].pc = pc /\ \A g \in Handlers : g # h => th'[g] = th[g]
        BY <3>0, <4>0 DEF Busy
      <4> QED BY <4>1, <3>0, <1>f
    <3>3. CASE /\ th[h].request = 0
               /\ Becomes(h, [th[h] EXCEPT !.pc = "create", !.role = role,
                                           !.grant = consents + 1])
      <4>0. /\ th'[h] = [th[h] EXCEPT !.pc = "create", !.role = role, !.grant = consents + 1]
            /\ \A g \in Handlers : g # h => th'[g] = th[g]
        BY <3>3, <1>b
      <4>1. th'[h].request = 0 /\ \A g \in Handlers : g # h => th'[g] = th[g]
        BY <3>0, <3>3, <4>0 DEF Busy
      <4> QED BY <4>1, <3>0, <1>u, SpentFrame DEF Kept
    <3> QED BY <2>3, <3>1, <3>2, <3>3 DEF Callback
  <2>4. CASE CheckInvite(h)
    <3>0. /\ via' = via /\ invite' = invite /\ th[h] \in Busy
      BY <2>4, <1>a DEF CheckInvite, database
    <3>1. CASE Ends(h)
      BY <3>0, <3>1, <1>e
    <3>2. CASE /\ invite[th[h].request] = "unused"
               /\ Becomes(h, [th[h] EXCEPT !.pc = "consume", !.role = "candidate"])
      <4>0. /\ th'[h] = [th[h] EXCEPT !.pc = "consume", !.role = "candidate"]
            /\ \A g \in Handlers : g # h => th'[g] = th[g]
        BY <3>2, <1>b
      <4>1. /\ th'[h].request # r
            /\ \A g \in Handlers : g # h => th'[g] = th[g]
        BY <3>0, <3>2, <4>0, <1>u DEF Busy
      <4> QED BY <4>1, <3>0, <1>u, SpentFrame DEF Kept
    <3> QED BY <2>4, <3>1, <3>2 DEF CheckInvite
  <2>5. CASE ConsumeInvite(h)
    <3>1. th[h] \in Busy /\ th[h].request # r
      BY <2>5, <1>a, <1>u DEF ConsumeInvite
    <3>2. invite'[r] = "used" /\ via' = via
      BY <2>5, <1>u DEF ConsumeInvite, TypeOK
    <3>3. /\ th'[h].request # r
          /\ \A g \in Handlers : g # h => th'[g] = th[g]
      BY <2>5, <3>1, <1>b DEF ConsumeInvite, Busy
    <3> QED BY <3>2, <3>3, SpentFrame DEF Kept
  <2>6. CASE CreateUser(h)
    <3>0. /\ th[h].pc = "create" /\ th[h] \in Busy /\ th[h].account \in Accounts
          /\ th[h].request # r /\ invite' = invite
      BY <2>6, <1>a, <1>u DEF CreateUser
    <3>1. CASE Ends(h) /\ via' = via
      BY <3>0, <3>1, <1>e
    <3>2. CASE /\ ~Taken(th[h].account)
               /\ via' = [via EXCEPT ![th[h].account] = th[h].request]
               /\ Becomes(h, [th[h] EXCEPT !.pc = "store"])
      <4>1. via[th[h].account] # r
        BY <3>0, <3>2, <1>u DEF Taken, Registered, LetIn, UsersInv
      <4>2. \A a \in Accounts : via'[a] = r <=> via[a] = r
        BY <3>0, <3>2, <4>1 DEF TypeOK
      <4>3. Redeemers(r)' = Redeemers(r)
        BY <4>2 DEF Redeemers
      <4>4. th'[h].pc = "store" /\ \A g \in Handlers : g # h => th'[g] = th[g]
        BY <3>0, <3>2, <1>b DEF Busy
      <4>5. Spent(r)'
        BY <4>4, <3>0, <1>u DEF Spent
      <4> QED BY <4>3, <4>5 DEF Kept
    <3> QED BY <2>6, <3>1, <3>2 DEF CreateUser
  <2>7. CASE FindToken(h)
    <3>0. th[h] \in Busy /\ via' = via /\ invite' = invite
      BY <2>7, <1>a DEF FindToken, database
    <3>1. /\ th'[h] = [th[h] EXCEPT !.pc = "write", !.row = tokens[th[h].account].id]
          /\ \A g \in Handlers : g # h => th'[g] = th[g]
      BY <2>7, <1>b DEF FindToken
    <3>2. th'[h].pc = "write"
      BY <3>0, <3>1 DEF Busy
    <3> QED BY <3>0, <3>1, <3>2, <1>f
  <2>8. CASE WriteToken(h)
    BY <2>8, <1>e DEF WriteToken, database
  <2> QED BY <1>2, <2>1, <2>2, <2>3, <2>4, <2>5, <2>6, <2>7, <2>8 DEF LoggingIn
<1>3. ASSUME NEW h \in Handlers, Connected(h) PROVE Kept
  <2>1. ASSUME NEW a \in Accounts, NeedToken(h, a) \/ Disconnect(h, a) PROVE Kept
    <3>1. /\ th'[h].pc \in {"renew", "revoke"}
          /\ \A g \in Handlers : g # h => th'[g] = th[g]
          /\ via' = via /\ invite' = invite
      BY <2>1, <1>b DEF NeedToken, Disconnect, Begun, database
    <3> QED BY <3>1, <1>f
  <2>2. CASE Renew(h) \/ Revoke(h)
    <3>1. /\ th'[h].pc \in {"renewed", "forget"}
          /\ \A g \in Handlers : g # h => th'[g] = th[g]
          /\ via' = via /\ invite' = invite
      BY <2>2, <1>a, <1>b DEF Renew, Revoke, Busy, database
    <3> QED BY <3>1, <1>f
  <2>3. CASE RenewRefused(h) \/ StoreRenewed(h) \/ Forget(h)
    BY <2>3, <1>e DEF RenewRefused, StoreRenewed, Forget, database
  <2> QED BY <1>3, <2>1, <2>2, <2>3 DEF Connected
<1>4. ASSUME NEW h \in Handlers, Fail(h) PROVE Kept
  BY <1>4, <1>e DEF Fail, database
<1>5. ASSUME NEW q \in Requests, ExpireInvite(q) PROVE Kept
  <2>1. invite'[r] = "used" /\ via' = via /\ th' = th
    BY <1>5, <1>u DEF ExpireInvite, TypeOK
  <2> QED BY <2>1, <1>u DEF Spent, Redeemers, Kept
<1>6. CASE UNCHANGED <<database, th>>
  BY <1>6 DEF Spent, Redeemers, Kept, database
<1>7. ASSUME NEW a \in Accounts, EndSession(a) \/ TokenAges(a) PROVE Kept
  <2>1. UNCHANGED <<database, th>>
    BY <1>7 DEF EndSession, TokenAges
  <2> QED BY <2>1, <1>6
<1>8. CASE UNCHANGED vars
  BY <1>6, <1>8 DEF vars
<1>9. CASE Next
  <2>1. CASE \E h \in Handlers : Inviting(h) \/ LoggingIn(h) \/ Connected(h) \/ Fail(h)
    BY <2>1, <1>1, <1>2, <1>3, <1>4
  <2>2. CASE \E q \in Requests : ExpireInvite(q)
    BY <2>2, <1>5
  <2>3. CASE \E a \in Accounts : EndSession(a) \/ TokenAges(a)
    BY <2>3, <1>7
  <2> QED BY <1>9, <2>1, <2>2, <2>3 DEF Next
<1> QED
  BY <1>8, <1>9

\* Once an invitation is used up and nobody is redeeming it any more, it makes
\* no users, and it has made at most one for each spelling of its address:
\* InviteIsSpent.
THEOREM InviteStaysSpent == Spec => InviteIsSpent
<1> DEFINE Step == \A r \in Requests :
                      /\ Spent(r) => Spent(r)' /\ Redeemers(r)' = Redeemers(r)
                      /\ \A a, b \in Redeemers(r)' : EmailOf[a] = EmailOf[b] => a = b
<1>1. TypeOK /\ LetIn /\ OneForASpelling' /\ [Next]_vars => Step
  <2> SUFFICES ASSUME TypeOK, LetIn, OneForASpelling', [Next]_vars, NEW r \in Requests
               PROVE  /\ Spent(r) => Spent(r)' /\ Redeemers(r)' = Redeemers(r)
                      /\ \A a, b \in Redeemers(r)' : EmailOf[a] = EmailOf[b] => a = b
    OBVIOUS
  <2>1. Spent(r) => Spent(r)' /\ Redeemers(r)' = Redeemers(r)
    BY NextSpent
  <2>2. \A a, b \in Redeemers(r)' : EmailOf[a] = EmailOf[b] => a = b
    BY DEF OneForASpelling, Requests
  <2> QED BY <2>1, <2>2
<1>2. Spec => [][Step]_vars
  <2> HIDE DEF Step
  <2> QED
    BY <1>1, LetInOneForASpelling, InitLetIn, NextLetIn, InitTypeOK, NextTypeOK, PTL DEF Spec
<1> QED
  BY <1>2 DEF InviteIsSpent

(***************************************************************************)
(* Who is not locked out.                                                  *)
(***************************************************************************)

Inviter(r) == \E h \in Handlers : th[h].pc = "invite" /\ th[h].request = r

Creator(r) ==
    \E h \in Handlers : /\ th[h].pc = "create" /\ th[h].request = r
                        /\ SameAddress(addressee[r], EmailOf[th[h].account])

HasUser(r) == \E a \in Accounts : Registered(a) /\ SameAddress(addressee[r], EmailOf[a])

\* What is unfinished has a handler that will finish it.
Underway ==
    "failures" \notin conditions =>
        \A r \in 1 .. requests :
            /\ invite[r] = "none" => Inviter(r)
            /\ invite[r] = "used" => HasUser(r) \/ Creator(r)

\* A step that leaves the tables alone and moves a handler that was neither
\* about to invite nor about to create a user.
LEMMA UnderwayFrame ==
    ASSUME Underway, UNCHANGED <<conditions, requests, addressee, invite, users>>,
           NEW h \in Handlers, th[h].pc \notin {"invite", "create"},
           \A g \in Handlers : g # h => th'[g] = th[g]
    PROVE  Underway'
<1>1. \A r : Inviter(r) => Inviter(r)'
  BY DEF Inviter
<1>2. \A r : Creator(r) => Creator(r)'
  BY DEF Creator
<1>3. \A r : HasUser(r) => HasUser(r)'
  BY DEF HasUser, Registered
<1> QED
  BY <1>1, <1>2, <1>3 DEF Underway

\* Every step keeps it.
LEMMA NextUnderway == TypeOK /\ LetIn /\ Underway /\ [Next]_vars => Underway'
<1> SUFFICES ASSUME TypeOK, LetIn, Underway, [Next]_vars PROVE Underway'
  OBVIOUS
<1>b. ASSUME NEW h \in Handlers, NEW t, Becomes(h, t)
      PROVE  th'[h] = t /\ \A g \in Handlers : g # h => th'[g] = th[g]
  BY <1>b DEF Becomes, TypeOK
<1>a. \A h \in Handlers : th[h].pc # "idle" => th[h] \in Busy /\ th[h].account \in Accounts
  BY DEF TypeOK, Thread, Busy, Idle
<1>e. ASSUME NEW h \in Handlers, Ends(h)
      PROVE  \A g \in Handlers : g # h => th'[g] = th[g]
  BY <1>e DEF Ends, Becomes, TypeOK
<1>f. requests \in Nat /\ \A r \in 1 .. requests : r \in Requests
  BY LoginAssumption DEF TypeOK, Requests
<1>1. ASSUME NEW h \in Handlers, Inviting(h) PROVE Underway'
  <2>1. ASSUME NEW a \in Accounts, NEW e \in Emails, CreateRequest(h, a, e) PROVE Underway'
    <3>1. /\ th[h].pc = "idle" /\ requests' = requests + 1
          /\ addressee' = [addressee EXCEPT ![requests + 1] = e]
          /\ UNCHANGED <<conditions, invite, users>>
          /\ \A g \in Handlers : g # h => th'[g] = th[g]
      BY <2>1, <1>b DEF CreateRequest
    <3>2. th'[h].pc = "invite" /\ th'[h].request = requests + 1
      BY <2>1, <1>b DEF CreateRequest, Begun
    <3>3. \A r \in 1 .. requests : addressee'[r] = addressee[r]
      BY <3>1, <1>f DEF TypeOK
    <3>4. \A r \in 1 .. requests : Inviter(r) => Inviter(r)'
      BY <3>1 DEF Inviter
    <3>5. \A r \in 1 .. requests : Creator(r) => Creator(r)'
      BY <3>1, <3>3 DEF Creator
    <3>6. \A r \in 1 .. requests : HasUser(r) => HasUser(r)'
      BY <3>1, <3>3 DEF HasUser, Registered
    <3>7. \A r \in 1 .. requests' : r \in 1 .. requests \/ r = requests + 1
      BY <3>1, <1>f
    <3>8. \A r \in Requests : invite[r] # "none" => r \in 1 .. requests
      BY DEF LetIn
    <3>9. invite[requests + 1] = "none"
      BY <2>1, <3>8, <1>f, LoginAssumption DEF CreateRequest, Requests, TypeOK
    <3> QED
      <4> SUFFICES ASSUME "failures" \notin conditions, NEW r \in 1 .. requests'
                   PROVE  /\ invite'[r] = "none" => Inviter(r)'
                          /\ invite'[r] = "used" => HasUser(r)' \/ Creator(r)'
        BY <3>1 DEF Underway
      <4>1. CASE r \in 1 .. requests
        BY <4>1, <3>1, <3>4, <3>5, <3>6 DEF Underway
      <4>2. CASE r = requests + 1
        <5>1. \E g \in Handlers : th'[g].pc = "invite" /\ th'[g].request = r
          BY <4>2, <3>2
        <5> QED BY <5>1, <4>2, <3>1, <3>9 DEF Inviter
      <4> QED BY <4>1, <4>2, <3>7
  <2>2. CASE IssueInvite(h)
    <3>1. PICK n \in 1 .. requests : n = th[h].request /\ invite[n] = "none"
      BY <2>2 DEF IssueInvite, LetIn, Invites1
    <3>2. /\ invite' = [invite EXCEPT ![n] = "unused"]
          /\ th[h].pc = "invite" /\ n \in Requests
          /\ UNCHANGED <<conditions, requests, addressee, users>>
          /\ \A g \in Handlers : g # h => th'[g] = th[g]
      BY <2>2, <3>1, <1>e, <1>f DEF IssueInvite
    <3>3. \A r : r # n /\ Inviter(r) => Inviter(r)'
      BY <3>1, <3>2 DEF Inviter
    <3>4. \A r : Creator(r) => Creator(r)'
      BY <3>2 DEF Creator
    <3>5. \A r : HasUser(r) => HasUser(r)'
      BY <3>2 DEF HasUser, Registered
    <3>6. invite'[n] = "unused" /\ \A r \in 1 .. requests : r # n => invite'[r] = invite[r]
      BY <3>2, <1>f DEF TypeOK
    <3> QED BY <3>2, <3>3, <3>4, <3>5, <3>6 DEF Underway
  <2> QED BY <1>1, <2>1, <2>2 DEF Inviting
<1>2. ASSUME NEW h \in Handlers, LoggingIn(h) PROVE Underway'
  <2>1. ASSUME NEW a \in Accounts, NEW r \in 0 .. MaxRequests, Login(h, a, r) PROVE Underway'
    BY <2>1, <1>b, UnderwayFrame DEF Login, database
  <2>2. CASE GiveUp(h)
    BY <2>2, <1>e, UnderwayFrame DEF GiveUp, database
  <2>3. CASE Callback(h)
    <3>1. \A g \in Handlers : g # h => th'[g] = th[g]
      BY <2>3 DEF Callback, Ends, Becomes, TypeOK
    <3> QED BY <2>3, <3>1, UnderwayFrame DEF Callback, database
  <2>4. CASE CheckInvite(h)
    <3>1. \A g \in Handlers : g # h => th'[g] = th[g]
      BY <2>4 DEF CheckInvite, Ends, Becomes, TypeOK
    <3> QED BY <2>4, <3>1, UnderwayFrame DEF CheckInvite, database
  <2>5. CASE ConsumeInvite(h)
    <3>1. PICK n \in 1 .. requests : /\ n = th[h].request
                                     /\ SameAddress(addressee[n], EmailOf[th[h].account])
      BY <2>5 DEF ConsumeInvite, LetIn, Knows
    <3>2. /\ invite' = [invite EXCEPT ![n] = "used"]
          /\ th[h].pc = "consume" /\ th[h] \in Busy
          /\ UNCHANGED <<conditions, requests, addressee, users>>
          /\ th'[h] = [th[h] EXCEPT !.pc = "create"]
          /\ \A g \in Handlers : g # h => th'[g] = th[g]
      BY <2>5, <3>1, <1>b, <1>a DEF ConsumeInvite
    <3>3. /\ th'[h].pc = "create" /\ th'[h].request = n
          /\ th'[h].account = th[h].account
      BY <3>1, <3>2 DEF Busy
    <3>4. Creator(n)'
      BY <3>1, <3>2, <3>3 DEF Creator
    <3>5. \A r : Inviter(r) => Inviter(r)'
      BY <3>2 DEF Inviter
    <3>6. \A r : Creator(r) => Creator(r)'
      BY <3>2 DEF Creator
    <3>7. \A r : HasUser(r) => HasUser(r)'
      BY <3>2 DEF HasUser, Registered
    <3>8. invite'[n] = "used" /\ \A r \in 1 .. requests : r # n => invite'[r] = invite[r]
      BY <3>2, <1>f DEF TypeOK
    <3> QED BY <3>2, <3>4, <3>5, <3>6, <3>7, <3>8 DEF Underway
  <2>6. CASE CreateUser(h)
    <3>1. PICK a \in Accounts : a = th[h].account
      BY <2>6, <1>a DEF CreateUser
    <3>2. /\ th[h].pc = "create"
          /\ UNCHANGED <<conditions, requests, addressee, invite>>
          /\ \A g \in Handlers : g # h => th'[g] = th[g]
      BY <2>6 DEF CreateUser, Ends, Becomes, TypeOK
    <3>3. /\ \A b \in Accounts : Registered(b) => Registered(b)'
          /\ \E b \in Accounts : Registered(b)' /\ EmailOf[b] = EmailOf[a]
      <4>1. CASE Taken(a)
        BY <2>6, <3>1, <4>1 DEF CreateUser, Taken, Registered
      <4>2. CASE ~Taken(a)
        <5>1. users' = [users EXCEPT ![a] = th[h].role] /\ th[h].role # "none"
          BY <2>6, <3>1, <4>2 DEF CreateUser, LetIn, Knows, Roles, StaffRoles
        <5> QED BY <5>1 DEF Registered, TypeOK
      <4> QED BY <4>1, <4>2
    <3>4. \A r : Inviter(r) => Inviter(r)'
      BY <3>2 DEF Inviter
    <3>5. \A r : HasUser(r) => HasUser(r)'
      BY <3>2, <3>3 DEF HasUser
    <3>6. \A r : Creator(r) => Creator(r)' \/ HasUser(r)'
      <4> SUFFICES ASSUME NEW r, NEW g \in Handlers, th[g].pc = "create", th[g].request = r,
                          SameAddress(addressee[r], EmailOf[th[g].account])
                   PROVE  Creator(r)' \/ HasUser(r)'
        BY DEF Creator
      <4>1. CASE g = h
        BY <4>1, <3>1, <3>2, <3>3 DEF HasUser
      <4>2. CASE g # h
        BY <4>2, <3>2 DEF Creator
      <4> QED BY <4>1, <4>2
    <3> QED BY <3>2, <3>4, <3>5, <3>6 DEF Underway
  <2>7. CASE FindToken(h)
    BY <2>7, <1>b, UnderwayFrame DEF FindToken, database
  <2>8. CASE WriteToken(h)
    BY <2>8, <1>e, UnderwayFrame DEF WriteToken, database
  <2> QED BY <1>2, <2>1, <2>2, <2>3, <2>4, <2>5, <2>6, <2>7, <2>8 DEF LoggingIn
<1>3. ASSUME NEW h \in Handlers, Connected(h) PROVE Underway'
  <2>1. ASSUME NEW a \in Accounts, NeedToken(h, a) PROVE Underway'
    BY <2>1, <1>b, UnderwayFrame DEF NeedToken, database
  <2>2. ASSUME NEW a \in Accounts, Disconnect(h, a) PROVE Underway'
    BY <2>2, <1>b, UnderwayFrame DEF Disconnect, database
  <2>3. CASE Renew(h)
    BY <2>3, <1>b, UnderwayFrame DEF Renew, database
  <2>4. CASE RenewRefused(h)
    BY <2>4, <1>e, UnderwayFrame DEF RenewRefused, database
  <2>5. CASE StoreRenewed(h)
    BY <2>5, <1>e, UnderwayFrame DEF StoreRenewed, database
  <2>6. CASE Revoke(h)
    BY <2>6, <1>b, UnderwayFrame DEF Revoke, database
  <2>7. CASE Forget(h)
    BY <2>7, <1>e, UnderwayFrame DEF Forget, database
  <2> QED BY <1>3, <2>1, <2>2, <2>3, <2>4, <2>5, <2>6, <2>7 DEF Connected
<1>4. ASSUME NEW h \in Handlers, Fail(h) PROVE Underway'
  BY <1>4 DEF Fail, Underway
<1>5. ASSUME NEW r \in Requests, ExpireInvite(r) PROVE Underway'
  <2>1. /\ UNCHANGED <<conditions, requests, addressee, users, th>>
        /\ \A q \in 1 .. requests : /\ invite'[q] = "none" => invite[q] = "none"
                                    /\ invite'[q] = "used" => invite[q] = "used"
    BY <1>5, <1>f DEF ExpireInvite, TypeOK
  <2> QED BY <2>1 DEF Underway, Inviter, Creator, HasUser, Registered
<1>6. CASE UNCHANGED <<conditions, database, th>>
  BY <1>6 DEF Underway, Inviter, Creator, HasUser, Registered, database
<1>7. ASSUME NEW a \in Accounts, EndSession(a) \/ TokenAges(a) PROVE Underway'
  BY <1>6, <1>7 DEF EndSession, TokenAges
<1>8. CASE UNCHANGED vars
  BY <1>6, <1>8 DEF vars
<1> QED BY <1>1, <1>2, <1>3, <1>4, <1>5, <1>7, <1>8 DEF Next

\* Unless a handler fails, a request comes to have its invitation and a used
\* one its user: NobodyLockedOut.
THEOREM NobodyIsLockedOut == Spec => []NobodyLockedOut
<1>1. Init => Underway
  <2> SUFFICES ASSUME Init PROVE Underway
    OBVIOUS
  <2>1. requests = 0
    BY DEF Init
  <2> QED BY <2>1 DEF Underway
<1>2. TypeOK /\ LetIn /\ Underway => NobodyLockedOut
  BY DEF Underway, NobodyLockedOut, Quiet, Inviter, Creator, HasUser
<1> QED
  BY <1>1, <1>2, InitLetIn, NextLetIn, NextUnderway, InitTypeOK, NextTypeOK, PTL DEF Spec

(***************************************************************************)
(* Which tokens are dead.                                                  *)
(***************************************************************************)

Has(a) == tokens[a] # NoToken

\* Some account has the row i.
Kept(i) == \E a \in Accounts : Has(a) /\ tokens[a].id = i

\* A handler has read a row and its grant, ...
Holding(h) == th[h].pc \in {"renew", "renewed", "revoke", "forget"}

\* ... or has a consent that it has not stored yet.
Pending(h) == th[h].pc \in {"check", "consume", "create", "store", "write"}

\* The row i has, or a handler may give it, something from the consent g.
Uses(i, g) ==
    \/ \E a \in Accounts : Has(a) /\ tokens[a].id = i /\ g \in {tokens[a].grant, tokens[a].access}
    \/ \E h \in Handlers : Holding(h) /\ th[h].row = i /\ th[h].grant = g

\* A disconnect is about to delete the row i.
Doomed(i) == \E h \in Handlers : th[h].pc = "forget" /\ th[h].row = i

\* Rows and the handlers that have read them.
RowsInv ==
    /\ \A a \in Accounts : Has(a) => /\ tokens[a].id \in 1 .. rows
                                     /\ tokens[a].grant \in 1 .. consents
                                     /\ tokens[a].access \in 1 .. consents
    /\ \A a, b \in Accounts : Has(a) /\ Has(b) /\ tokens[a].id = tokens[b].id => a = b
    /\ \A h \in Handlers : Holding(h) => th[h].row \in 1 .. rows /\ th[h].grant \in 1 .. consents
    /\ \A h \in Handlers : Holding(h) \/ th[h].pc = "write" =>
          /\ th[h].row \in 0 .. rows
          /\ \A a \in Accounts : Has(a) /\ tokens[a].id = th[h].row => a = th[h].account

\* A consent that is not stored yet is nobody else's.
PendingInv ==
    /\ revoked \subseteq 1 .. consents
    /\ \A h \in Handlers : Pending(h) =>
          /\ th[h].grant \in 1 .. consents /\ th[h].grant \notin revoked
          /\ \A i \in Nat : ~Uses(i, th[h].grant)
          /\ \A g \in Handlers : g # h /\ Pending(g) => th[g].grant # th[h].grant

\* A consent is used by one row, ...
OneRowInv == \A i, j, g \in Nat : Uses(i, g) /\ Uses(j, g) => i = j

\* ... and one that has ended by a row that is going to be deleted.
DoomedInv ==
    "failures" \notin conditions =>
        \A i \in Nat, g \in revoked : Uses(i, g) /\ Kept(i) => Doomed(i)

TokensInv == RowsInv /\ PendingInv /\ OneRowInv /\ DoomedInv

\* What is used is a row and a consent.
LEMMA UsesTyped ==
    ASSUME TypeOK, RowsInv, NEW i, NEW g, Uses(i, g)
    PROVE  i \in 1 .. rows /\ g \in 1 .. consents /\ i \in Nat /\ g \in Nat
BY DEF TypeOK, RowsInv, Uses

\* A step in which one handler moves on and may end, add a consent or end one
\* of its own, and what is used does not grow.
LEMMA OneMoves ==
    ASSUME TypeOK, TokensInv, NEW h \in Handlers,
           \A g \in Handlers : g # h => th'[g] = th[g],
           UNCHANGED <<conditions, tokens, rows, revoked, consents>>,
           th[h].pc = "forget" => "failures" \in conditions,
           Pending(h)' => Pending(h) /\ th'[h].grant = th[h].grant,
           NEW i, NEW c, th'[h].row = i, th'[h].grant = c,
           Holding(h)' => Uses(i, c),
           Holding(h)' \/ th'[h].pc = "write" =>
               /\ i \in 0 .. rows
               /\ \A a \in Accounts : Has(a) /\ tokens[a].id = i => a = th'[h].account
    PROVE  TokensInv'
<1>1. ASSUME NEW j, NEW g, Uses(j, g)' PROVE Uses(j, g)
  <2>1. CASE \E a \in Accounts : /\ Has(a) /\ tokens[a].id = j
                                 /\ g \in {tokens[a].grant, tokens[a].access}
    BY <2>1 DEF Uses
  <2>2. CASE \E k \in Handlers : Holding(k)' /\ th'[k].row = j /\ th'[k].grant = g
    <3>1. PICK k \in Handlers : Holding(k)' /\ th'[k].row = j /\ th'[k].grant = g
      BY <2>2
    <3>2. CASE k = h
      BY <3>1, <3>2
    <3>3. CASE k # h
      BY <3>1, <3>3 DEF Uses, Holding
    <3> QED BY <3>2, <3>3
  <2> QED BY <1>1, <2>1, <2>2 DEF Uses, Has
<1>2. RowsInv'
  <2>1. Holding(h)' => i \in 1 .. rows /\ c \in 1 .. consents
    BY UsesTyped DEF TokensInv
  <2> QED BY <2>1 DEF TokensInv, RowsInv, Has, Holding
<1>3. \A g \in Handlers : Pending(g)' => Pending(g) /\ th'[g].grant = th[g].grant
  BY DEF Pending
<1>4. PendingInv'
  BY <1>1, <1>3 DEF TokensInv, PendingInv
<1>5. OneRowInv'
  BY <1>1 DEF TokensInv, OneRowInv
<1>6. "failures" \notin conditions => \A j : Doomed(j) => Doomed(j)'
  BY DEF Doomed
<1>7. \A j : Kept(j)' => Kept(j)
  BY DEF Kept, Has
<1>8. DoomedInv'
  BY <1>1, <1>6, <1>7 DEF TokensInv, DoomedInv
<1> QED
  BY <1>2, <1>4, <1>5, <1>8 DEF TokensInv

\* A handler ends without having been about to delete a row.
LEMMA OneEnds ==
    ASSUME TypeOK, TokensInv, NEW h \in Handlers, Ends(h),
           UNCHANGED <<conditions, tokens, rows, revoked, consents>>,
           th[h].pc = "forget" => "failures" \in conditions
    PROVE  TokensInv'
<1>1. th'[h] = Idle /\ \A g \in Handlers : g # h => th'[g] = th[g]
  BY DEF Ends, Becomes, TypeOK
<1>2. ~Holding(h)' /\ ~Pending(h)' /\ th'[h].pc # "write"
  BY <1>1 DEF Holding, Pending, Idle
<1> QED
  BY <1>1, <1>2, OneMoves

\* A new consent goes to one handler.
LEMMA OneConsents ==
    ASSUME TypeOK, TypeOK', TokensInv, NEW h \in Handlers,
           \A g \in Handlers : g # h => th'[g] = th[g],
           UNCHANGED <<conditions, tokens, rows, revoked>>,
           consents' = consents + 1, th[h].pc = "consent",
           Pending(h)' => th'[h].grant = consents + 1,
           ~Holding(h)', th'[h].pc # "write"
    PROVE  TokensInv'
<1>0. consents \in Nat /\ ~Pending(h) /\ ~Holding(h)
  BY DEF TypeOK, Pending, Holding
<1>1. ASSUME NEW j, NEW g, Uses(j, g)' PROVE Uses(j, g)
  BY <1>1, <1>0 DEF Uses, Has, Holding
<1>2. RowsInv'
  BY <1>0 DEF TokensInv, RowsInv, Has, Holding
<1>3. \A j, g : Uses(j, g) => g \in 1 .. consents
  BY UsesTyped DEF TokensInv
<1>4. PendingInv'
  <2>1. revoked' \subseteq 1 .. consents'
    BY <1>0 DEF TokensInv, PendingInv
  <2> SUFFICES ASSUME NEW k \in Handlers, Pending(k)'
               PROVE  /\ th'[k].grant \in 1 .. consents' /\ th'[k].grant \notin revoked
                      /\ \A i \in Nat : ~Uses(i, th'[k].grant)
                      /\ \A g \in Handlers : g # k /\ Pending(g)' => th'[g].grant # th'[k].grant
    BY <1>1, <2>1 DEF PendingInv
  <2>2. \A g \in Handlers : g # h /\ Pending(g)' =>
           Pending(g) /\ th'[g].grant = th[g].grant /\ th[g].grant \in 1 .. consents
    BY DEF Pending, TokensInv, PendingInv
  <2>3. CASE k = h
    BY <2>2, <2>3, <1>0, <1>3 DEF TokensInv, PendingInv
  <2>4. CASE k # h
    BY <2>2, <2>4, <1>0 DEF TokensInv, PendingInv
  <2> QED BY <2>3, <2>4
<1>5. OneRowInv'
  BY <1>1 DEF TokensInv, OneRowInv
<1>6. \A j : Doomed(j) => Doomed(j)'
  BY DEF Doomed
<1>8. DoomedInv'
  BY <1>1, <1>6 DEF TokensInv, DoomedInv, Kept, Has
<1> QED
  BY <1>2, <1>4, <1>5, <1>8 DEF TokensInv

\* The login is stored: whatever the row was, it now has the new consent only.
LEMMA Written ==
    ASSUME TypeOK, TypeOK', TokensInv, NEW h \in Handlers, WriteToken(h), Unmoved(h)
    PROVE  TokensInv'
<1>0. /\ th'[h] = Idle
      /\ \A g \in Handlers : g # h => th'[g] = th[g]
      /\ UNCHANGED <<conditions, revoked, consents>>
      /\ th[h].pc = "write" /\ th[h] \in Busy
  BY DEF WriteToken, Ends, Becomes, TypeOK, Thread, Idle
<1>1. PICK a \in Accounts, c \in 1 .. consents, id \in 1 .. rows' :
         /\ a = th[h].account /\ c = th[h].grant /\ c \notin revoked
         /\ tokens' = [tokens EXCEPT ![a] = [id |-> id, grant |-> c, access |-> c, fresh |-> TRUE]]
         /\ rows' \in Nat /\ rows \in Nat
         /\ \/ id = rows + 1 /\ rows' = rows + 1
            \/ id \in 1 .. rows /\ rows' = rows /\ id = th[h].row
  <2>1. th[h].account \in Accounts /\ rows \in Nat
    BY <1>0 DEF Busy, TypeOK
  <2>2. th[h].grant \in 1 .. consents /\ th[h].grant \notin revoked /\ th[h].row \in 0 .. rows
    BY <1>0 DEF TokensInv, RowsInv, PendingInv, Pending
  <2>3. CASE th[h].row = 0
    BY <2>1, <2>2, <2>3 DEF WriteToken
  <2>4. CASE th[h].row # 0
    BY <2>1, <2>2, <2>4 DEF WriteToken
  <2> QED BY <2>3, <2>4
<1>2. /\ Has(a)' /\ tokens'[a].id = id /\ tokens'[a].grant = c /\ tokens'[a].access = c
      /\ \A b \in Accounts : b # a => tokens'[b] = tokens[b]
  BY <1>1 DEF Has, NoToken, TypeOK
<1>3. ~Holding(h)' /\ ~Pending(h)' /\ th'[h].pc # "write" /\ th'[h].pc # "forget" /\ ~Holding(h)
  BY <1>0 DEF Holding, Pending, Idle
<1>4. ASSUME NEW j, NEW g, Uses(j, g)' PROVE Uses(j, g) \/ (j = id /\ g = c)
  BY <1>0, <1>2, <1>3, <1>4 DEF Uses, Has, Holding
<1>5. \A b \in Accounts : b # a /\ Has(b) => tokens[b].id # id
  BY <1>0, <1>1 DEF TokensInv, RowsInv
<1>6. RowsInv'
  <2>1. \A b \in Accounts : Has(b)' => /\ tokens'[b].id \in 1 .. rows'
                                       /\ tokens'[b].grant \in 1 .. consents'
                                       /\ tokens'[b].access \in 1 .. consents'
    BY <1>0, <1>1, <1>2 DEF TokensInv, RowsInv, Has
  <2>2. \A b, d \in Accounts :
           Has(b)' /\ Has(d)' /\ tokens'[b].id = tokens'[d].id => b = d
    BY <1>2, <1>5 DEF TokensInv, RowsInv, Has
  <2>3. \A k \in Handlers : Holding(k)' =>
           th'[k].row \in 1 .. rows' /\ th'[k].grant \in 1 .. consents'
    BY <1>0, <1>1, <1>3 DEF TokensInv, RowsInv, Holding
  <2>4. ASSUME NEW k \in Handlers, Holding(k)' \/ th'[k].pc = "write"
        PROVE  /\ th'[k].row \in 0 .. rows'
               /\ \A b \in Accounts : Has(b)' /\ tokens'[b].id = th'[k].row => b = th'[k].account
    <3>1. /\ k # h /\ th'[k] = th[k] /\ th[k].row \in 0 .. rows
          /\ \A b \in Accounts : Has(b) /\ tokens[b].id = th[k].row => b = th[k].account
      BY <2>4, <1>0, <1>3 DEF TokensInv, RowsInv, Holding
    <3>2. th[k].row \in 0 .. rows'
      BY <3>1, <1>1
    <3>3. ASSUME th[k].row = id PROVE a = th[k].account
      <4>1. id \in 1 .. rows /\ id = th[h].row
        BY <3>1, <3>3, <1>1
      <4>2. Has(a) /\ tokens[a].id = id
        BY <4>1, <1>1 DEF Unmoved, Has, NoToken
      <4> QED BY <3>1, <3>3, <4>2
    <3> QED BY <3>1, <3>2, <3>3, <1>2 DEF Has
  <2> QED BY <2>1, <2>2, <2>3, <2>4 DEF RowsInv
<1>7. PendingInv'
  <2>1. \A k \in Handlers : Pending(k)' => Pending(k) /\ th'[k] = th[k] /\ k # h
    BY <1>0, <1>3 DEF Pending
  <2>2. \A k \in Handlers : Pending(k)' => th[k].grant # c
    BY <2>1, <1>0, <1>1 DEF TokensInv, PendingInv, Pending
  <2>3. \A i, g : Uses(i, g)' => Uses(i, g) \/ g = c
    BY <1>4
  <2> QED BY <2>1, <2>2, <2>3, <1>0 DEF TokensInv, PendingInv
<1>8. \A i \in Nat : ~Uses(i, c)
  BY <1>0, <1>1 DEF TokensInv, PendingInv, Pending
<1>9. OneRowInv'
  BY <1>4, <1>8 DEF TokensInv, OneRowInv
<1>10. DoomedInv'
  <2> SUFFICES ASSUME "failures" \notin conditions, NEW i \in Nat, NEW g \in revoked,
                      Uses(i, g)', Kept(i)'
               PROVE  Doomed(i)'
    BY <1>0 DEF DoomedInv
  <2>1. g # c /\ Uses(i, g)
    BY <1>1, <1>4
  <2>2. i \in 1 .. rows
    BY <2>1, UsesTyped DEF TokensInv
  <2>3. Kept(i)
    <3>1. PICK b \in Accounts : Has(b)' /\ tokens'[b].id = i
      BY DEF Kept
    <3>2. CASE b = a
      BY <3>1, <3>2, <2>2, <1>1, <1>2 DEF Unmoved, Kept, Has, NoToken
    <3>3. CASE b # a
      BY <3>1, <3>3, <1>2 DEF Kept, Has
    <3> QED BY <3>2, <3>3
  <2>4. Doomed(i)
    BY <2>1, <2>3 DEF TokensInv, DoomedInv
  <2> QED BY <2>4, <1>0 DEF Doomed
<1> QED
  BY <1>6, <1>7, <1>9, <1>10 DEF TokensInv

\* The tokens shrink: rows go away or change to what already uses them.
LEMMA TokensShrink ==
    ASSUME TypeOK, TypeOK', TokensInv, NEW h \in Handlers, Ends(h),
           UNCHANGED <<conditions, revoked, consents, rows>>,
           \A a \in Accounts : Has(a)' =>
               /\ Has(a) /\ tokens'[a].id = tokens[a].id
               /\ Uses(tokens[a].id, tokens'[a].grant) /\ Uses(tokens[a].id, tokens'[a].access),
           NEW i, i = th[h].row, th[h].pc = "forget" => ~Kept(i)'
    PROVE  TokensInv'
<1>0. /\ \A g \in Handlers : g # h => th'[g] = th[g]
      /\ ~Holding(h)' /\ ~Pending(h)' /\ th'[h].pc # "write"
  BY DEF Ends, Becomes, TypeOK, Idle, Holding, Pending
<1>1. ASSUME NEW j, NEW g, Uses(j, g)' PROVE Uses(j, g)
  <2>1. CASE \E a \in Accounts : /\ Has(a)' /\ tokens'[a].id = j
                                 /\ g \in {tokens'[a].grant, tokens'[a].access}
    BY <2>1
  <2>2. CASE \E k \in Handlers : Holding(k)' /\ th'[k].row = j /\ th'[k].grant = g
    BY <2>2, <1>0 DEF Uses, Holding
  <2> QED BY <1>1, <2>1, <2>2 DEF Uses
<1>2. RowsInv'
  <2>1. \A a \in Accounts : Has(a)' => /\ tokens'[a].id \in 1 .. rows'
                                       /\ tokens'[a].grant \in 1 .. consents'
                                       /\ tokens'[a].access \in 1 .. consents'
    BY UsesTyped DEF TokensInv
  <2>2. \A k \in Handlers : Holding(k)' => Holding(k) /\ th'[k] = th[k]
    BY <1>0 DEF Holding
  <2>3. \A k \in Handlers : th'[k].pc = "write" => th[k].pc = "write" /\ th'[k] = th[k]
    BY <1>0
  <2> QED BY <2>1, <2>2, <2>3 DEF TokensInv, RowsInv
<1>3. \A g \in Handlers : Pending(g)' => Pending(g) /\ th'[g] = th[g]
  BY <1>0 DEF Pending
<1>4. PendingInv'
  BY <1>1, <1>3 DEF TokensInv, PendingInv
<1>5. OneRowInv'
  BY <1>1 DEF TokensInv, OneRowInv
<1>6. \A j : Kept(j)' => Kept(j)
  BY DEF Kept
<1>7. ASSUME NEW j, Doomed(j), Kept(j)' PROVE Doomed(j)'
  <2>1. PICK k \in Handlers : th[k].pc = "forget" /\ th[k].row = j
    BY <1>7 DEF Doomed
  <2>2. k # h
    BY <2>1, <1>7
  <2> QED BY <2>1, <2>2, <1>0 DEF Doomed
<1>8. DoomedInv'
  BY <1>1, <1>6, <1>7 DEF TokensInv, DoomedInv
<1> QED
  BY <1>2, <1>4, <1>5, <1>8 DEF TokensInv

\* A consent ends, and the row that has it is going to be deleted.
LEMMA Revoked ==
    ASSUME TypeOK, TypeOK', TokensInv, NEW h \in Handlers, Revoke(h)
    PROVE  TokensInv'
<1>0. /\ th[h].pc = "revoke" /\ th[h] \in Busy
      /\ th'[h] = [th[h] EXCEPT !.pc = "forget"]
      /\ \A g \in Handlers : g # h => th'[g] = th[g]
      /\ UNCHANGED <<conditions, tokens, rows, consents>>
  BY DEF Revoke, Becomes, TypeOK, Thread, Idle
<1>1. PICK i, c : i = th[h].row /\ c = th[h].grant
  OBVIOUS
<1>2. /\ th'[h].pc = "forget" /\ th'[h].row = i /\ th'[h].grant = c
      /\ th'[h].account = th[h].account
      /\ revoked \subseteq revoked' /\ revoked' \subseteq revoked \cup {c}
  BY <1>0, <1>1 DEF Busy, Revoke
<1>3. Uses(i, c) /\ c \in 1 .. consents
  BY <1>0, <1>1 DEF Uses, Holding, TokensInv, RowsInv
<1>4. ASSUME NEW j, NEW g, Uses(j, g)' PROVE Uses(j, g)
  <2>1. \A k \in Handlers :
           Holding(k)' => Holding(k) /\ th'[k].row = th[k].row /\ th'[k].grant = th[k].grant
    BY <1>0, <1>1, <1>2 DEF Holding
  <2> QED BY <1>0, <1>4, <2>1 DEF Uses, Has
<1>5. RowsInv'
  <2>1. \A k \in Handlers :
           /\ Holding(k)' => Holding(k)
           /\ th'[k].pc = "write" => th[k].pc = "write"
           /\ th'[k].row = th[k].row /\ th'[k].grant = th[k].grant /\ th'[k].account = th[k].account
    BY <1>0, <1>1, <1>2 DEF Holding
  <2> QED BY <1>0, <2>1 DEF TokensInv, RowsInv, Has
<1>6. PendingInv'
  <2>1. \A k \in Handlers : Pending(k)' => Pending(k) /\ th'[k] = th[k]
    BY <1>0, <1>2 DEF Pending
  <2>2. \A k \in Handlers : Pending(k) => th[k].grant # c
    <3>1. i \in Nat
      BY <1>3, UsesTyped DEF TokensInv
    <3> QED BY <1>3, <3>1 DEF TokensInv, PendingInv
  <2>3. revoked' \subseteq 1 .. consents'
    BY <1>0, <1>2, <1>3 DEF TokensInv, PendingInv
  <2> QED BY <1>0, <1>2, <1>4, <2>1, <2>2, <2>3 DEF TokensInv, PendingInv
<1>7. OneRowInv'
  BY <1>4 DEF TokensInv, OneRowInv
<1>8. DoomedInv'
  <2> SUFFICES ASSUME "failures" \notin conditions, NEW j \in Nat, NEW g \in revoked',
                      Uses(j, g), Kept(j)
               PROVE  Doomed(j)'
    BY <1>0, <1>4 DEF DoomedInv, Kept, Has
  <2>1. CASE g \in revoked
    <3>1. Doomed(j)
      BY <2>1 DEF TokensInv, DoomedInv
    <3>2. PICK k \in Handlers : th[k].pc = "forget" /\ th[k].row = j
      BY <3>1 DEF Doomed
    <3> QED BY <3>2, <1>0 DEF Doomed
  <2>2. CASE g = c
    <3>1. j = i
      BY <2>2, <1>3, UsesTyped DEF TokensInv, OneRowInv
    <3> QED BY <3>1, <1>2 DEF Doomed
  <2> QED BY <2>1, <2>2, <1>2
<1> QED
  BY <1>5, <1>6, <1>7, <1>8 DEF TokensInv

\* Every step keeps it.
LEMMA NextTokens == TypeOK /\ TypeOK' /\ TokensInv /\ [Next]_vars => TokensInv'
<1> SUFFICES ASSUME TypeOK, TypeOK', TokensInv, [Next]_vars PROVE TokensInv'
  OBVIOUS
<1>b. ASSUME NEW h \in Handlers, NEW t, Becomes(h, t)
      PROVE  th'[h] = t /\ \A g \in Handlers : g # h => th'[g] = th[g]
  BY <1>b DEF Becomes, TypeOK
<1>a. \A h \in Handlers : th[h].pc # "idle" => th[h] \in Busy /\ th[h].account \in Accounts
  BY DEF TypeOK, Thread, Busy, Idle
<1>m. ASSUME NEW h \in Handlers, NEW pc, th[h] \in Busy, th[h].pc # "forget",
             th'[h].pc = pc, th'[h].grant = th[h].grant, pc \notin {"renew", "revoke", "forget", "write"},
             Pending(h)' => Pending(h), pc = "renewed" => th[h].pc = "renew",
             th'[h].row = th[h].row, th'[h].account = th[h].account,
             \A g \in Handlers : g # h => th'[g] = th[g],
             UNCHANGED <<conditions, connection, consents>>
      PROVE  TokensInv'
  <2>1. Holding(h)' => Holding(h) /\ th[h].pc = "renew"
    BY <1>m DEF Holding
  <2>2. Holding(h)' => /\ Uses(th[h].row, th[h].grant)
                       /\ th[h].row \in 0 .. rows
                       /\ \A a \in Accounts : Has(a) /\ tokens[a].id = th[h].row => a = th[h].account
    BY <2>1 DEF Uses, TokensInv, RowsInv
  <2>3. PICK i, c : i = th[h].row /\ c = th[h].grant
    OBVIOUS
  <2> QED BY <1>m, <2>2, <2>3, OneMoves DEF connection
<1>t. ASSUME NEW h \in Handlers, NEW a \in Accounts, NEW pc \in {"renew", "revoke"}, Has(a),
             Becomes(h, Begun(pc, a, 0, tokens[a].id, tokens[a].grant)), th[h].pc = "idle",
             UNCHANGED <<conditions, connection, consents>>
      PROVE  TokensInv'
  <2>1. /\ th'[h] = Begun(pc, a, 0, tokens[a].id, tokens[a].grant)
        /\ \A g \in Handlers : g # h => th'[g] = th[g]
    BY <1>t, <1>b
  <2>2. PICK i, c : i = tokens[a].id /\ c = tokens[a].grant
    OBVIOUS
  <2>3. /\ th'[h].pc = pc /\ th'[h].row = i /\ th'[h].grant = c /\ th'[h].account = a
        /\ ~Pending(h)'
    BY <2>1, <2>2 DEF Begun, Pending
  <2>4. Uses(i, c) /\ i \in 0 .. rows /\ \A b \in Accounts : Has(b) /\ tokens[b].id = i => b = a
    BY <1>t, <2>2 DEF Uses, TokensInv, RowsInv
  <2> QED BY <1>t, <2>1, <2>3, <2>4, OneMoves DEF connection
<1>s. ASSUME NEW h \in Handlers, NEW pc, NEW a, NEW r, th[h].pc = "idle",
             Becomes(h, Begun(pc, a, r, 0, 0)), pc \in {"invite", "consent"},
             UNCHANGED <<conditions, connection, consents>>
      PROVE  TokensInv'
  <2>1. /\ th'[h] = Begun(pc, a, r, 0, 0)
        /\ \A g \in Handlers : g # h => th'[g] = th[g]
    BY <1>s, <1>b
  <2>2. /\ th'[h].row = 0 /\ th'[h].grant = 0 /\ ~Pending(h)' /\ ~Holding(h)'
        /\ th'[h].pc # "write"
    BY <1>s, <2>1 DEF Begun, Pending, Holding
  <2> QED BY <1>s, <2>1, <2>2, OneMoves DEF connection
<1>1. ASSUME NEW h \in Handlers, Inviting(h) PROVE TokensInv'
  <2>1. ASSUME NEW a \in Accounts, NEW e \in Emails, CreateRequest(h, a, e) PROVE TokensInv'
    BY <2>1, <1>s DEF CreateRequest
  <2>2. CASE IssueInvite(h)
    BY <2>2, OneEnds DEF IssueInvite, connection
  <2> QED BY <1>1, <2>1, <2>2 DEF Inviting
<1>2. ASSUME NEW h \in Handlers, LoggingIn(h) PROVE TokensInv'
  <2>1. ASSUME NEW a \in Accounts, NEW r \in 0 .. MaxRequests, Login(h, a, r) PROVE TokensInv'
    BY <2>1, <1>s DEF Login
  <2>2. CASE GiveUp(h)
    BY <2>2, OneEnds DEF GiveUp, connection
  <2>3. CASE Callback(h)
    <3>0. /\ th[h].pc = "consent" /\ th[h] \in Busy /\ consents' = consents + 1
          /\ UNCHANGED <<conditions, tokens, rows, revoked>>
      BY <2>3, <1>a DEF Callback, connection
    <3>1. PICK t : /\ Becomes(h, t) /\ t.pc \in {"idle", "store", "check", "create"}
                   /\ t.pc # "idle" => t.grant = consents + 1
      <4>1. CASE Ends(h)
        BY <4>1 DEF Ends, Idle
      <4>2. CASE Becomes(h, [th[h] EXCEPT !.pc = "store", !.grant = consents + 1])
        <5> DEFINE u == [th[h] EXCEPT !.pc = "store", !.grant = consents + 1]
        <5>1. u.pc = "store" /\ u.grant = consents + 1
          BY <3>0 DEF Busy
        <5>2. Becomes(h, u)
          BY <4>2
        <5> HIDE DEF u
        <5> QED BY <5>1, <5>2
      <4>3. CASE Becomes(h, [th[h] EXCEPT !.pc = "check", !.grant = consents + 1])
        <5> DEFINE u == [th[h] EXCEPT !.pc = "check", !.grant = consents + 1]
        <5>1. u.pc = "check" /\ u.grant = consents + 1
          BY <3>0 DEF Busy
        <5>2. Becomes(h, u)
          BY <4>3
        <5> HIDE DEF u
        <5> QED BY <5>1, <5>2
      <4>4. CASE Becomes(h, [th[h] EXCEPT !.pc = "create",
                                          !.role = ConfiguredRole(th[h].account),
                                          !.grant = consents + 1])
        <5> DEFINE u == [th[h] EXCEPT !.pc = "create",
                                !.role = ConfiguredRole(th[h].account),
                                !.grant = consents + 1]
        <5>1. u.pc = "create" /\ u.grant = consents + 1
          BY <3>0 DEF Busy
        <5>2. Becomes(h, u)
          BY <4>4
        <5> HIDE DEF u
        <5> QED BY <5>1, <5>2
      <4> QED BY <2>3, <4>1, <4>2, <4>3, <4>4 DEF Callback
    <3>2. th'[h] = t /\ \A g \in Handlers : g # h => th'[g] = th[g]
      BY <3>1, <1>b
    <3>3. /\ Pending(h)' => th'[h].grant = consents + 1
          /\ ~Holding(h)' /\ th'[h].pc # "write"
      BY <3>1, <3>2 DEF Pending, Holding
    <3> QED BY <3>0, <3>2, <3>3, OneConsents
  <2>4. CASE CheckInvite(h)
    <3>1. CASE Ends(h)
      BY <2>4, <3>1, OneEnds DEF CheckInvite, connection
    <3>2. CASE Becomes(h, [th[h] EXCEPT !.pc = "consume", !.role = "candidate"])
      <4>1. th[h] \in Busy /\ th[h].pc = "check"
        BY <2>4, <1>a DEF CheckInvite
      <4>2. /\ th'[h] = [th[h] EXCEPT !.pc = "consume", !.role = "candidate"]
            /\ \A g \in Handlers : g # h => th'[g] = th[g]
        BY <3>2, <1>b
      <4>3. /\ th'[h].pc = "consume" /\ th'[h].grant = th[h].grant
            /\ th'[h].row = th[h].row /\ th'[h].account = th[h].account
        BY <4>1, <4>2 DEF Busy
      <4> QED BY <2>4, <4>1, <4>2, <4>3, <1>m DEF CheckInvite, Pending
    <3> QED BY <2>4, <3>1, <3>2 DEF CheckInvite
  <2>5. CASE ConsumeInvite(h)
    <3>1. /\ th[h] \in Busy /\ th[h].pc = "consume"
          /\ th'[h] = [th[h] EXCEPT !.pc = "create"]
          /\ \A g \in Handlers : g # h => th'[g] = th[g]
      BY <2>5, <1>a, <1>b DEF ConsumeInvite
    <3>2. /\ th'[h].pc = "create" /\ th'[h].grant = th[h].grant
          /\ th'[h].row = th[h].row /\ th'[h].account = th[h].account
      BY <3>1 DEF Busy
    <3> QED BY <2>5, <3>1, <3>2, <1>m DEF ConsumeInvite, Pending
  <2>6. CASE CreateUser(h)
    <3>1. CASE Ends(h)
      BY <2>6, <3>1, OneEnds DEF CreateUser, connection
    <3>2. CASE Becomes(h, [th[h] EXCEPT !.pc = "store"])
      <4>1. /\ th[h] \in Busy /\ th[h].pc = "create"
            /\ th'[h] = [th[h] EXCEPT !.pc = "store"]
            /\ \A g \in Handlers : g # h => th'[g] = th[g]
        BY <2>6, <3>2, <1>a, <1>b DEF CreateUser
      <4>2. /\ th'[h].pc = "store" /\ th'[h].grant = th[h].grant
            /\ th'[h].row = th[h].row /\ th'[h].account = th[h].account
        BY <4>1 DEF Busy
      <4> QED BY <2>6, <4>1, <4>2, <1>m DEF CreateUser, Pending
    <3> QED BY <2>6, <3>1, <3>2 DEF CreateUser
  <2>7. CASE FindToken(h)
    <3>1. PICK a, i, c :
             a \in Accounts /\ a = th[h].account /\ i = tokens[a].id /\ c = th[h].grant
      BY <2>7, <1>a DEF FindToken
    <3>2. /\ th[h] \in Busy /\ th[h].pc = "store"
          /\ th'[h] = [th[h] EXCEPT !.pc = "write", !.row = i]
          /\ \A g \in Handlers : g # h => th'[g] = th[g]
      BY <2>7, <3>1, <1>a, <1>b DEF FindToken
    <3>3. /\ th'[h].pc = "write" /\ th'[h].grant = c /\ th'[h].row = i /\ th'[h].account = a
          /\ Pending(h) /\ ~Holding(h)'
      BY <3>1, <3>2 DEF Busy, Pending, Holding
    <3>4. i \in 0 .. rows /\ \A b \in Accounts : Has(b) /\ tokens[b].id = i => b = a
      <4>1. CASE Has(a)
        BY <3>1, <4>1 DEF TokensInv, RowsInv, TypeOK
      <4>2. CASE ~Has(a)
        BY <3>1, <4>2 DEF TokensInv, RowsInv, TypeOK, Has, NoToken
      <4> QED BY <4>1, <4>2
    <3> QED BY <2>7, <3>1, <3>2, <3>3, <3>4, OneMoves DEF FindToken, connection
  <2>8. CASE WriteToken(h)
    <3>1. CASE Unmoved(h)
      BY <2>8, <3>1, Written
    <3>2. CASE ~Unmoved(h)
      BY <2>8, <3>2, OneEnds DEF WriteToken
    <3> QED BY <3>1, <3>2
  <2> QED BY <1>2, <2>1, <2>2, <2>3, <2>4, <2>5, <2>6, <2>7, <2>8 DEF LoggingIn
<1>3. ASSUME NEW h \in Handlers, Connected(h) PROVE TokensInv'
  <2>1. ASSUME NEW a \in Accounts, NeedToken(h, a) PROVE TokensInv'
    BY <2>1, <1>t DEF NeedToken, Has
  <2>2. ASSUME NEW a \in Accounts, Disconnect(h, a) PROVE TokensInv'
    BY <2>2, <1>t DEF Disconnect, Has
  <2>3. CASE Renew(h)
    <3>1. /\ th[h] \in Busy /\ th[h].pc = "renew"
          /\ th'[h] = [th[h] EXCEPT !.pc = "renewed"]
          /\ \A g \in Handlers : g # h => th'[g] = th[g]
      BY <2>3, <1>a, <1>b DEF Renew
    <3>2. /\ th'[h].pc = "renewed" /\ th'[h].grant = th[h].grant
          /\ th'[h].row = th[h].row /\ th'[h].account = th[h].account
      BY <3>1 DEF Busy
    <3> QED BY <2>3, <3>1, <3>2, <1>m DEF Renew, Pending
  <2>4. CASE RenewRefused(h)
    BY <2>4, OneEnds DEF RenewRefused, connection
  <2>5. CASE StoreRenewed(h)
    <3>1. PICK a, i, c : a \in Accounts /\ a = th[h].account /\ i = th[h].row /\ c = th[h].grant
      BY <2>5, <1>a DEF StoreRenewed
    <3>2. Uses(i, c)
      BY <2>5, <3>1 DEF StoreRenewed, Uses, Holding
    <3>3. ASSUME NEW b \in Accounts, Has(b)'
          PROVE  /\ Has(b) /\ tokens'[b].id = tokens[b].id
                 /\ Uses(tokens[b].id, tokens'[b].grant) /\ Uses(tokens[b].id, tokens'[b].access)
      <4>1. CASE tokens'[b] = tokens[b]
        BY <3>3, <4>1 DEF Has, Uses
      <4>2. CASE tokens'[b] # tokens[b]
        <5>1. /\ b = a /\ Has(a) /\ tokens[a].id = i
              /\ tokens'[a] = [tokens[a] EXCEPT !.access = c, !.fresh = TRUE]
          BY <2>5, <3>1, <4>2 DEF StoreRenewed, Unmoved, Has, TypeOK
        <5>2. tokens'[a].id = i /\ tokens'[a].grant = tokens[a].grant /\ tokens'[a].access = c
          BY <5>1 DEF TypeOK, Token
        <5>3. Uses(i, tokens[a].grant)
          BY <5>1 DEF Uses
        <5> QED BY <5>1, <5>2, <5>3, <3>2
      <4> QED BY <4>1, <4>2
    <3> QED BY <2>5, <3>1, <3>3, TokensShrink DEF StoreRenewed
  <2>6. CASE Revoke(h)
    BY <2>6, Revoked
  <2>7. CASE Forget(h)
    <3>1. PICK a, i : a \in Accounts /\ a = th[h].account /\ i = th[h].row
      BY <2>7, <1>a DEF Forget
    <3>2. \A b \in Accounts : Has(b)' => tokens'[b] = tokens[b] /\ Has(b) /\ tokens[b].id # i
      <4>1. \A b \in Accounts : Has(b) /\ tokens[b].id = i => b = a
        BY <2>7, <3>1 DEF Forget, TokensInv, RowsInv, Holding
      <4>2. CASE Unmoved(h)
        BY <2>7, <3>1, <4>1, <4>2 DEF Forget, Has, TypeOK, Unmoved
      <4>3. CASE ~Unmoved(h)
        BY <2>7, <3>1, <4>1, <4>3 DEF Forget, Has, Unmoved
      <4> QED BY <4>2, <4>3
    <3>3. ~Kept(i)'
      BY <3>2 DEF Kept
    <3>4. \A b \in Accounts : Has(b)' =>
             /\ Has(b) /\ tokens'[b].id = tokens[b].id
             /\ Uses(tokens[b].id, tokens'[b].grant) /\ Uses(tokens[b].id, tokens'[b].access)
      BY <3>2 DEF Uses
    <3> QED BY <2>7, <3>1, <3>3, <3>4, TokensShrink DEF Forget
  <2> QED BY <1>3, <2>1, <2>2, <2>3, <2>4, <2>5, <2>6, <2>7 DEF Connected
<1>4. ASSUME NEW h \in Handlers, Fail(h) PROVE TokensInv'
  BY <1>4, OneEnds DEF Fail, connection
<1>5. ASSUME UNCHANGED <<conditions, connection, consents, th>> PROVE TokensInv'
  BY <1>5 DEF TokensInv, RowsInv, PendingInv, OneRowInv, DoomedInv, Uses, Has, Kept, Doomed,
              Holding, Pending, connection
<1>6. ASSUME NEW r \in Requests, ExpireInvite(r) PROVE TokensInv'
  BY <1>5, <1>6 DEF ExpireInvite
<1>7. ASSUME NEW a \in Accounts, EndSession(a) PROVE TokensInv'
  BY <1>5, <1>7 DEF EndSession
<1>8. ASSUME NEW a \in Accounts, TokenAges(a) PROVE TokensInv'
  <2>1. /\ tokens' = [tokens EXCEPT ![a].fresh = FALSE] /\ tokens[a].fresh
        /\ UNCHANGED <<conditions, revoked, rows, consents, th>>
    BY <1>8 DEF TokenAges
  <2>2. \A b \in Accounts : /\ tokens'[b].id = tokens[b].id
                            /\ tokens'[b].grant = tokens[b].grant
                            /\ tokens'[b].access = tokens[b].access
    BY <2>1 DEF TypeOK, Token
  <2>3. \A b \in Accounts : Has(b)' => Has(b)
    <3>1. Has(a)
      BY <2>1 DEF Has, NoToken
    <3> QED BY <2>1, <3>1 DEF TypeOK, Has
  <2>4. \A i, g : Uses(i, g)' => Uses(i, g)
    BY <2>1, <2>2, <2>3 DEF Uses, Holding
  <2>5. RowsInv'
    BY <2>1, <2>2, <2>3 DEF TokensInv, RowsInv, Holding
  <2>6. PendingInv'
    BY <2>1, <2>4 DEF TokensInv, PendingInv, Pending
  <2>7. OneRowInv'
    BY <2>4 DEF TokensInv, OneRowInv
  <2>8. DoomedInv'
    BY <2>1, <2>2, <2>3, <2>4 DEF TokensInv, DoomedInv, Kept, Doomed
  <2> QED BY <2>5, <2>6, <2>7, <2>8 DEF TokensInv
<1>9. CASE UNCHANGED vars
  BY <1>5, <1>9 DEF vars
<1> QED BY <1>1, <1>2, <1>3, <1>4, <1>6, <1>7, <1>8, <1>9 DEF Next

\* Unless a handler fails, no token outlives its consent: NoDeadTokens.
THEOREM NoTokenIsDead == Spec => []NoDeadTokens
<1>1. Init => TokensInv
  <2> SUFFICES ASSUME Init PROVE TokensInv
    OBVIOUS
  <2>1. /\ \A a \in Accounts : ~Has(a)
        /\ \A h \in Handlers : th[h].pc = "idle"
    BY DEF Init, Has, Idle
  <2>2. \A i, g : ~Uses(i, g)
    BY <2>1 DEF Uses, Holding
  <2>3. RowsInv /\ PendingInv
    BY <2>1, <2>2 DEF RowsInv, PendingInv, Holding, Pending, Init
  <2> QED BY <2>2, <2>3 DEF TokensInv, OneRowInv, DoomedInv
<1>2. TypeOK /\ TokensInv => NoDeadTokens
  <2> SUFFICES ASSUME TypeOK, TokensInv, "failures" \notin conditions, Quiet,
                      NEW a \in Accounts, Has(a),
                      NEW g \in {tokens[a].grant, tokens[a].access}, g \in revoked
               PROVE  FALSE
    BY DEF NoDeadTokens, Has
  <2>1. PICK i : i = tokens[a].id
    OBVIOUS
  <2>2. Uses(i, g) /\ Kept(i) /\ i \in Nat
    BY <2>1 DEF Uses, Kept, TypeOK, Token
  <2>3. Doomed(i)
    BY <2>2 DEF TokensInv, DoomedInv
  <2> QED BY <2>3 DEF Doomed, Quiet
<1> QED
  BY <1>1, <1>2, NextTokens, InitTypeOK, NextTypeOK, PTL DEF Spec
=============================================================================
