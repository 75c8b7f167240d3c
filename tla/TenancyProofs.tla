---------------------------- MODULE TenancyProofs ---------------------------
(***************************************************************************)
(* Proofs about who may do what and what they are told: accounts, sessions *)
(* and API keys (Accounts), then the job requests made with those keys     *)
(* while the pipeline runs (JobApi).  For any number of tenants, users,    *)
(* credentials, jobs, workers and concurrent requests.                     *)
(***************************************************************************)
EXTENDS JobApi, DispatchProofs

(* The prover of a leaf that names none, and its time limit in seconds.    *)
USE ZenonT(30)

-----------------------------------------------------------------------------
(***************************************************************************)
(* Accounts.  What a request may do rests on its context, which was filled *)
(* in an earlier step; Contexts says what of it is still true when it is   *)
(* used.                                                                   *)
(***************************************************************************)
Pairs ==
    /\ DefaultTenant \in tenants
    /\ \A u, v \in DOMAIN users : users[u].email = users[v].email => u = v
    /\ \A u, v \in DOMAIN users : users[u].tenant_id = users[v].tenant_id => u = v
    /\ {users[u].tenant_id : u \in DOMAIN users} = tenants \ {DefaultTenant}

(* Users are never deleted and never change tenant, so the user and tenant *)
(* of a context stay what the middleware found.                            *)
Contexts ==
    \A r \in Requests :
        /\ cx[r].pc = "greet" => cx[r].user \in DOMAIN users
        /\ cx[r].pc = "human" => /\ cx[r].user \in DOMAIN users
                                 /\ cx[r].tenant = users[cx[r].user].tenant_id
                                 /\ cx[r].credential \in Tokens \cap spent

(* No token or key is issued twice, and a token that ended has no row or   *)
(* one that has expired.                                                   *)
Endings ==
    /\ DOMAIN sessions \cup DOMAIN api_keys \subseteq spent
    /\ ended \subseteq spent
    /\ \A t \in ended \cap DOMAIN sessions : sessions[t].left = 0

AccountsInv == AccountsTypeOK /\ Pairs /\ Contexts /\ Endings

-----------------------------------------------------------------------------
LEMMA AccountsInitHasInv == AccountsInit => AccountsInv
  BY SMTT(30), AccountsAssumption
  DEF AccountsInit, AccountsInv, AccountsTypeOK, Pairs, Contexts, Endings, Rows, Context, NoContext

(* A request that ends, or moves to a context that is well founded, keeps  *)
(* the contexts of all requests so, as long as users only grow.            *)
LEMMA ContextStep ==
  ASSUME cx \in [Requests -> Context], Contexts, NEW r \in Requests, NEW c \in Context,
         cx' = [cx EXCEPT ![r] = c],
         DOMAIN users \subseteq DOMAIN users',
         \A u \in DOMAIN users : users'[u] = users[u],
         spent \subseteq spent',
         c.pc = "greet" => c.user \in DOMAIN users',
         c.pc = "human" => /\ c.user \in DOMAIN users'
                           /\ c.tenant = users'[c.user].tenant_id
                           /\ c.credential \in Tokens \cap spent'
  PROVE  cx' \in [Requests -> Context] /\ Contexts'
  <1>1. cx' \in [Requests -> Context] /\ cx'[r] = c
    OBVIOUS
  <1>2. \A q \in Requests \ {r} : cx'[q] = cx[q]
    OBVIOUS
  <1>. QED  BY <1>1, <1>2 DEF Contexts

(* A request that ends keeps everything it does not write.                 *)
LEMMA EndOfRequest ==
  ASSUME AccountsInv, NEW r \in Requests, cx' = [cx EXCEPT ![r] = NoContext],
         UNCHANGED users, spent \subseteq spent'
  PROVE  cx' \in [Requests -> Context] /\ Contexts'
  <1>1. NoContext \in Context /\ NoContext.pc = "idle"
    BY DEF NoContext, Context
  <1>2. cx \in [Requests -> Context] /\ Contexts
    BY DEF AccountsInv, AccountsTypeOK
  <1>. HIDE DEF NoContext
  <1>. QED  BY <1>1, <1>2, ContextStep

LEMMA SignupKeepsInv ==
  ASSUME AccountsInv, NEW r \in Requests, NEW t \in Tenants, NEW u \in Users, NEW email \in Emails,
         signup(r, t, u, email)
  PROVE  AccountsInv'
  <1>. DEFINE row == [tenant_id |-> t, email |-> email]
  <1>1. /\ row \in UserRow /\ row.tenant_id = t /\ row.email = email
        /\ users' = Insert(users, u, row) /\ tenants' = tenants \cup {t}
        /\ t \notin tenants /\ u \notin DOMAIN users /\ ~Taken(email)
    BY DEF signup, CreateAccount, UserRow
  <1>. HIDE DEF row
  <1>2. Rows(users, Users, UserRow)
    BY DEF AccountsInv, AccountsTypeOK
  <1>3. /\ Rows(users', Users, UserRow)
        /\ DOMAIN users' = DOMAIN users \cup {u}
        /\ users'[u] = row
        /\ \A v \in DOMAIN users : users'[v] = users[v]
    BY <1>1, <1>2 DEF Insert, Rows
  <1>. DEFINE c == [NoContext EXCEPT !.pc = "greet", !.user = u]
  <1>4. c \in Context /\ c.pc = "greet" /\ c.user = u /\ cx' = [cx EXCEPT ![r] = c]
    BY DEF signup, Context, NoContext
  <1>. HIDE DEF c
  <1>5. cx' \in [Requests -> Context] /\ Contexts'
    BY <1>3, <1>4, ContextStep DEF AccountsInv, AccountsTypeOK, signup
  <1>6. AccountsTypeOK'
    BY <1>1, <1>3, <1>5 DEF AccountsInv, AccountsTypeOK, signup
  <1>7. Pairs'
    <2>1. \A v \in DOMAIN users : users[v].tenant_id \in tenants /\ users[v].email # email
      BY <1>1 DEF AccountsInv, Pairs, Taken
    <2>2. t # DefaultTenant
      BY <1>1 DEF AccountsInv, Pairs
    <2>3. \A v, w \in DOMAIN users' : users'[v].email = users'[w].email => v = w
      BY SMTT(30), <1>1, <1>3, <2>1 DEF AccountsInv, Pairs
    <2>4. \A v, w \in DOMAIN users' : users'[v].tenant_id = users'[w].tenant_id => v = w
      BY SMTT(30), <1>1, <1>3, <2>1 DEF AccountsInv, Pairs
    <2>5. {users'[v].tenant_id : v \in DOMAIN users'} = tenants' \ {DefaultTenant}
      <3>1. {users'[v].tenant_id : v \in DOMAIN users'}
              = {users[v].tenant_id : v \in DOMAIN users} \cup {t}
        BY SMTT(30), <1>1, <1>3
      <3>. QED  BY <1>1, <2>2, <3>1 DEF AccountsInv, Pairs
    <2>6. DefaultTenant \in tenants'
      BY <1>1 DEF AccountsInv, Pairs
    <2>. QED  BY <2>3, <2>4, <2>5, <2>6 DEF Pairs
  <1>8. Endings'
    BY DEF AccountsInv, Endings, signup
  <1>. QED  BY <1>5, <1>6, <1>7, <1>8 DEF AccountsInv

LEMMA LoginKeepsInv ==
  ASSUME AccountsInv, NEW r \in Requests, NEW email \in Emails, login(r, email)
  PROVE  AccountsInv'
  <1>1. PICK u \in DOMAIN users :
          cx' = [cx EXCEPT ![r] = [NoContext EXCEPT !.pc = "greet", !.user = u]]
    BY DEF login, GetUserByEmail
  <1>. DEFINE c == [NoContext EXCEPT !.pc = "greet", !.user = u]
  <1>2. c \in Context /\ c.pc = "greet" /\ c.user = u
    BY DEF Context, NoContext, AccountsInv, AccountsTypeOK, Rows
  <1>. HIDE DEF c
  <1>3. cx' \in [Requests -> Context] /\ Contexts'
    BY <1>1, <1>2, ContextStep DEF AccountsInv, AccountsTypeOK, login, c
  <1>. QED  BY SMTT(30), <1>3 DEF AccountsInv, AccountsTypeOK, Pairs, Endings, login

LEMMA StartSessionKeepsInv ==
  ASSUME AccountsInv, NEW r \in Requests, NEW token \in Tokens, startSession(r, token)
  PROVE  AccountsInv'
  <1>. DEFINE row == [user_id |-> cx[r].user, left |-> SessionTTL]
  <1>1. cx[r].user \in Users
    BY DEF AccountsInv, Contexts, AccountsTypeOK, Rows, startSession
  <1>2. /\ row \in SessionRow /\ sessions' = Insert(sessions, token, row)
        /\ token \notin spent /\ spent' = spent \cup {token}
    BY SMTT(30), <1>1, AccountsAssumption DEF startSession, CreateSession, SessionRow
  <1>. HIDE DEF row
  <1>3. Rows(sessions, Tokens, SessionRow)
    BY DEF AccountsInv, AccountsTypeOK
  <1>4. /\ Rows(sessions', Tokens, SessionRow)
        /\ DOMAIN sessions' = DOMAIN sessions \cup {token}
        /\ \A t \in DOMAIN sessions \ {token} : sessions'[t] = sessions[t]
    BY <1>2, <1>3 DEF Insert, Rows
  <1>5. cx' \in [Requests -> Context] /\ Contexts'
    BY <1>2, EndOfRequest DEF startSession
  <1>6. AccountsTypeOK'
    BY <1>2, <1>4, <1>5 DEF AccountsInv, AccountsTypeOK, startSession
  <1>7. Endings'
    BY <1>2, <1>4 DEF AccountsInv, Endings, startSession
  <1>. QED  BY <1>5, <1>6, <1>7 DEF AccountsInv, Pairs, startSession

LEMMA RequireSessionKeepsInv ==
  ASSUME AccountsInv, NEW r \in Requests, NEW token \in Tokens, RequireSession(r, token)
  PROVE  AccountsInv' /\ token \notin ended
  <1>1. PICK u \in SessionUser(token) :
          cx' = [cx EXCEPT ![r] = [pc |-> "human", user |-> u,
                                   tenant |-> users[u].tenant_id, credential |-> token]]
    BY DEF RequireSession
  <1>2. u \in DOMAIN users /\ token \in DOMAIN sessions /\ sessions[token].left > 0
    BY <1>1 DEF SessionUser
  <1>3. u \in Users /\ users[u].tenant_id \in Tenants
    BY <1>2 DEF AccountsInv, AccountsTypeOK, Rows, UserRow
  <1>4. token \in spent /\ token \notin ended
    BY SMTT(30), <1>2 DEF AccountsInv, Endings
  <1>. DEFINE c == [pc |-> "human", user |-> u, tenant |-> users[u].tenant_id,
                    credential |-> token]
  <1>5. /\ c \in Context /\ c.pc = "human" /\ c.user = u
        /\ c.tenant = users[u].tenant_id /\ c.credential = token
    BY <1>3 DEF Context
  <1>6. cx' = [cx EXCEPT ![r] = c] /\ UNCHANGED <<users, spent>>
    BY <1>1 DEF RequireSession
  <1>. HIDE DEF c
  <1>7. cx' \in [Requests -> Context] /\ Contexts'
    BY <1>2, <1>4, <1>5, <1>6, ContextStep DEF AccountsInv, AccountsTypeOK
  <1>8. AccountsInv'
    BY SMTT(30), <1>7 DEF AccountsInv, AccountsTypeOK, Pairs, Endings, RequireSession
  <1>. QED  BY <1>4, <1>8

LEMMA LogoutKeepsInv ==
  ASSUME AccountsInv, NEW r \in Requests, logout(r)
  PROVE  AccountsInv'
  <1>. DEFINE token == cx[r].credential
  <1>1. token \in Tokens \cap spent
    BY DEF AccountsInv, Contexts, logout
  <1>2. sessions' = Delete(sessions, token) /\ ended' = ended \cup {token}
    BY DEF logout, DeleteSession
  <1>. HIDE DEF token
  <1>3. Rows(sessions, Tokens, SessionRow)
    BY DEF AccountsInv, AccountsTypeOK
  <1>4. /\ Rows(sessions', Tokens, SessionRow)
        /\ DOMAIN sessions' = DOMAIN sessions \ {token}
        /\ \A t \in DOMAIN sessions' : sessions'[t] = sessions[t]
    BY <1>2, <1>3 DEF Delete, Rows
  <1>5. cx' \in [Requests -> Context] /\ Contexts'
    BY EndOfRequest DEF logout
  <1>6. AccountsTypeOK'
    BY <1>1, <1>2, <1>4, <1>5 DEF AccountsInv, AccountsTypeOK, logout
  <1>7. Endings'
    BY <1>1, <1>2, <1>4 DEF AccountsInv, Endings, logout
  <1>. QED  BY <1>5, <1>6, <1>7 DEF AccountsInv, Pairs, logout

(* The tenant a handler behind a session acts for is its user's.           *)
LEMMA HumanTenant ==
  ASSUME AccountsInv, NEW r \in Requests, cx[r].pc = "human"
  PROVE  /\ tenantID(r) = users[cx[r].user].tenant_id
         /\ tenantID(r) \in Tenants
  BY DEF AccountsInv, Contexts, AccountsTypeOK, Rows, UserRow, tenantID

(* What a step may do to api_keys: nothing but a change of one tenant's    *)
(* keys by a request of a user of that tenant.                             *)
KeysStep ==
    \A k \in Keys, t \in Tenants :
        (k \in DOMAIN api_keys /\ api_keys[k].tenant_id = t)
          # (k \in DOMAIN api_keys /\ api_keys[k].tenant_id = t)'
        => \E r \in Requests : cx[r].pc = "human" /\ users[cx[r].user].tenant_id = t

LEMMA CreateKeyKeepsInv ==
  ASSUME AccountsInv, NEW r \in Requests, NEW key \in Keys, createKey(r, key)
  PROVE  AccountsInv' /\ KeysStep
  <1>. DEFINE row == [tenant_id |-> tenantID(r), used |-> FALSE]
  <1>1. cx[r].pc = "human" /\ tenantID(r) \in Tenants
        /\ tenantID(r) = users[cx[r].user].tenant_id
    BY HumanTenant DEF createKey
  <1>2. /\ row \in KeyRow /\ row.tenant_id = tenantID(r)
        /\ api_keys' = Insert(api_keys, key, row)
        /\ spent' = spent \cup {key}
    BY <1>1 DEF createKey, CreateAPIKey, KeyRow
  <1>. HIDE DEF row
  <1>3. Rows(api_keys, Keys, KeyRow)
    BY DEF AccountsInv, AccountsTypeOK
  <1>4. /\ Rows(api_keys', Keys, KeyRow)
        /\ DOMAIN api_keys' = DOMAIN api_keys \cup {key}
        /\ api_keys'[key] = row
        /\ \A k \in DOMAIN api_keys \ {key} : api_keys'[k] = api_keys[k]
    BY <1>2, <1>3 DEF Insert, Rows
  <1>5. cx' \in [Requests -> Context] /\ Contexts'
    BY <1>2, EndOfRequest DEF createKey
  <1>6. AccountsTypeOK'
    BY <1>2, <1>4, <1>5 DEF AccountsInv, AccountsTypeOK, createKey
  <1>7. Endings'
    BY <1>2, <1>4 DEF AccountsInv, Endings, createKey
  <1>8. AccountsInv'
    BY <1>5, <1>6, <1>7 DEF AccountsInv, Pairs, createKey
  <1>9. KeysStep
    <2>0. key \notin DOMAIN api_keys
      BY DEF createKey, CreateAPIKey, AccountsInv, Endings
    <2>1. \A k \in Keys \ {key} : /\ k \in DOMAIN api_keys' <=> k \in DOMAIN api_keys
                                  /\ k \in DOMAIN api_keys => api_keys'[k] = api_keys[k]
      BY <1>4
    <2>. QED  BY <1>1, <1>2, <1>4, <2>0, <2>1 DEF KeysStep
  <1>. QED  BY <1>8, <1>9

LEMMA DeleteKeyKeepsInv ==
  ASSUME AccountsInv, NEW r \in Requests, NEW key \in Keys, deleteKey(r, key)
  PROVE  AccountsInv' /\ KeysStep
  <1>1. cx[r].pc = "human" /\ tenantID(r) = users[cx[r].user].tenant_id
    BY HumanTenant DEF deleteKey
  <1>2. api_keys' = Delete(api_keys, key) /\ api_keys[key].tenant_id = tenantID(r)
    BY DEF deleteKey, DeleteAPIKey
  <1>3. Rows(api_keys, Keys, KeyRow)
    BY DEF AccountsInv, AccountsTypeOK
  <1>4. /\ Rows(api_keys', Keys, KeyRow)
        /\ DOMAIN api_keys' = DOMAIN api_keys \ {key}
        /\ \A k \in DOMAIN api_keys' : api_keys'[k] = api_keys[k]
    BY <1>2, <1>3 DEF Delete, Rows
  <1>5. cx' \in [Requests -> Context] /\ Contexts'
    BY EndOfRequest DEF deleteKey
  <1>6. AccountsTypeOK'
    BY <1>4, <1>5 DEF AccountsInv, AccountsTypeOK, deleteKey
  <1>7. Endings'
    BY <1>4 DEF AccountsInv, Endings, deleteKey
  <1>8. AccountsInv'
    BY <1>5, <1>6, <1>7 DEF AccountsInv, Pairs, deleteKey
  <1>9. KeysStep
    BY <1>1, <1>2, <1>4 DEF KeysStep
  <1>. QED  BY <1>8, <1>9

LEMMA RequireAPIKeyKeepsInv ==
  ASSUME AccountsInv, NEW r \in Requests, NEW key \in Keys, RequireAPIKey(r, key)
  PROVE  AccountsInv'
  <1>1. PICK t \in Tenants :
          cx' = [cx EXCEPT ![r] = [pc |-> "touch", user |-> None, tenant |-> t,
                                   credential |-> key]]
    BY DEF RequireAPIKey, AuthenticateAPIKey
  <1>. DEFINE c == [pc |-> "touch", user |-> None, tenant |-> t, credential |-> key]
  <1>2. c \in Context /\ c.pc = "touch" /\ cx' = [cx EXCEPT ![r] = c]
    BY <1>1 DEF Context
  <1>. HIDE DEF c
  <1>3. cx' \in [Requests -> Context] /\ Contexts'
    BY <1>2, ContextStep DEF AccountsInv, AccountsTypeOK, RequireAPIKey
  <1>. QED  BY SMTT(30), <1>3 DEF AccountsInv, AccountsTypeOK, Pairs, Endings, RequireAPIKey

LEMMA TouchKeepsInv ==
  ASSUME AccountsInv, NEW r \in Requests, touch(r)
  PROVE  AccountsInv' /\ KeysStep
  <1>1. Rows(api_keys, Keys, KeyRow)
    BY DEF AccountsInv, AccountsTypeOK
  <1>2. /\ Rows(api_keys', Keys, KeyRow)
        /\ DOMAIN api_keys' = DOMAIN api_keys
        /\ \A k \in DOMAIN api_keys : api_keys'[k].tenant_id = api_keys[k].tenant_id
    <2>. DEFINE key == cx[r].credential
    <2>1. CASE UNCHANGED api_keys
      BY <1>1, <2>1
    <2>2. CASE key \in DOMAIN api_keys /\ api_keys' = [api_keys EXCEPT ![key].used = TRUE]
      <3>. HIDE DEF key
      <3>1. \A k \in DOMAIN api_keys : api_keys[k] \in KeyRow
        BY <1>1 DEF Rows
      <3>2. \A k \in DOMAIN api_keys :
              /\ api_keys'[k] \in KeyRow
              /\ api_keys'[k].tenant_id = api_keys[k].tenant_id
        BY <2>2, <3>1 DEF KeyRow
      <3>3. api_keys' = [k \in DOMAIN api_keys |-> api_keys'[k]]
        BY <2>2
      <3>. QED  BY <1>1, <3>2, <3>3 DEF Rows
    <2>. QED  BY <2>1, <2>2 DEF touch, TouchAPIKey
  <1>. DEFINE c == [cx[r] EXCEPT !.pc = "program"]
  <1>3. c \in Context /\ c.pc = "program" /\ cx' = [cx EXCEPT ![r] = c]
    BY DEF touch, AccountsInv, AccountsTypeOK, Context
  <1>. HIDE DEF c
  <1>4. cx' \in [Requests -> Context] /\ Contexts'
    BY <1>3, ContextStep DEF AccountsInv, AccountsTypeOK, touch
  <1>5. AccountsInv'
    BY SMTT(30), <1>2, <1>4 DEF AccountsInv, AccountsTypeOK, Pairs, Endings, touch
  <1>6. KeysStep
    BY <1>2 DEF KeysStep
  <1>. QED  BY <1>5, <1>6

LEMMA AgeKeepsInv ==
  ASSUME AccountsInv, Age
  PROVE  AccountsInv'
  <1>1. Rows(sessions, Tokens, SessionRow)
    BY DEF AccountsInv, AccountsTypeOK
  <1>2. /\ Rows(sessions', Tokens, SessionRow)
        /\ DOMAIN sessions' = DOMAIN sessions
        /\ \A t \in DOMAIN sessions :
              sessions'[t].left = IF sessions[t].left = 0 THEN 0 ELSE sessions[t].left - 1
    <2>1. ASSUME NEW t \in DOMAIN sessions
          PROVE  /\ sessions'[t] \in SessionRow
                 /\ sessions'[t].left = IF sessions[t].left = 0 THEN 0 ELSE sessions[t].left - 1
      <3>. DEFINE left == IF sessions[t].left = 0 THEN 0 ELSE sessions[t].left - 1
      <3>1. sessions[t] \in SessionRow
        BY <1>1 DEF Rows
      <3>2. left \in 0..SessionTTL
        BY SMTT(30), <3>1, AccountsAssumption DEF SessionRow
      <3>3. sessions'[t] = [sessions[t] EXCEPT !.left = left]
        BY DEF Age
      <3>. HIDE DEF left
      <3>4. sessions'[t] \in SessionRow /\ sessions'[t].left = left
        BY <3>1, <3>2, <3>3 DEF SessionRow
      <3>. QED  BY <3>4 DEF left
    <2>2. sessions' = [t \in DOMAIN sessions |-> sessions'[t]]
      BY DEF Age
    <2>. QED  BY <1>1, <2>1, <2>2 DEF Rows
  <1>3. AccountsTypeOK'
    BY <1>1, <1>2 DEF AccountsInv, AccountsTypeOK, Age, Rows
  <1>4. Endings'
    <2>1. \A t \in DOMAIN sessions : sessions[t].left \in Nat
      BY SMTT(30), <1>1 DEF Rows, SessionRow
    <2>2. \A t \in DOMAIN sessions : sessions[t].left <= 1 => sessions'[t].left = 0
      BY SMTT(30), <1>2, <2>1
    <2>3. ended' = ended \cup {t \in DOMAIN sessions : sessions[t].left <= 1}
      BY DEF Age
    <2>4. \A t \in ended \cap DOMAIN sessions : sessions'[t].left = 0
      BY <1>2 DEF AccountsInv, Endings
    <2>. QED  BY <1>2, <2>2, <2>3, <2>4 DEF AccountsInv, Endings, Age
  <1>. QED  BY <1>3, <1>4 DEF AccountsInv, Pairs, Contexts, Age

(* What a step may do to requests: none gets past RequireSession with a    *)
(* token that has ended.                                                   *)
AdmissionStep ==
    \A r \in Requests :
        cx[r].pc = "idle" /\ cx'[r].pc = "human" => cx'[r].credential \notin ended

(* A step that moves only request r, not into a session, admits nobody.    *)
LEMMA AdmitsNobody ==
  ASSUME AccountsInv, NEW r \in Requests, NEW c, cx' = [cx EXCEPT ![r] = c],
         cx[r].pc # "idle" \/ c.pc # "human"
  PROVE  AdmissionStep
  BY DEF AdmissionStep, AccountsInv, AccountsTypeOK

LEMMA AccountsStepKeepsInv ==
  ASSUME AccountsInv, [AccountsNext]_accountVars
  PROVE  AccountsInv' /\ KeysStep /\ AdmissionStep
  <1>k. UNCHANGED api_keys => KeysStep
    BY DEF KeysStep
  <1>1. ASSUME NEW r \in Requests, NEW t \in Tenants, NEW u \in Users, NEW email \in Emails,
               signup(r, t, u, email)
        PROVE  AccountsInv' /\ KeysStep /\ AdmissionStep
    BY <1>1, <1>k, SignupKeepsInv, AdmitsNobody DEF signup, NoContext
  <1>2. ASSUME NEW r \in Requests, NEW email \in Emails, login(r, email)
        PROVE  AccountsInv' /\ KeysStep /\ AdmissionStep
    BY <1>2, <1>k, LoginKeepsInv, AdmitsNobody DEF login, NoContext
  <1>3. ASSUME NEW r \in Requests, NEW token \in Tokens, startSession(r, token)
        PROVE  AccountsInv' /\ KeysStep /\ AdmissionStep
    BY <1>3, <1>k, StartSessionKeepsInv, AdmitsNobody DEF startSession, NoContext
  <1>4. ASSUME NEW r \in Requests, NEW token \in Tokens, RequireSession(r, token)
        PROVE  AccountsInv' /\ KeysStep /\ AdmissionStep
    <2>1. AccountsInv' /\ token \notin ended
      BY <1>4, RequireSessionKeepsInv
    <2>2. AdmissionStep
      BY SMTT(30), <1>4, <2>1 DEF AdmissionStep, RequireSession, AccountsInv, AccountsTypeOK
    <2>. QED  BY <1>4, <1>k, <2>1, <2>2 DEF RequireSession
  <1>5. ASSUME NEW r \in Requests, NEW key \in Keys, createKey(r, key)
        PROVE  AccountsInv' /\ KeysStep /\ AdmissionStep
    BY <1>5, CreateKeyKeepsInv, AdmitsNobody DEF createKey, NoContext
  <1>6. ASSUME NEW r \in Requests, NEW key \in Keys, deleteKey(r, key)
        PROVE  AccountsInv' /\ KeysStep /\ AdmissionStep
    BY <1>6, DeleteKeyKeepsInv, AdmitsNobody DEF deleteKey, NoContext
  <1>7. ASSUME NEW r \in Requests, NEW key \in Keys, RequireAPIKey(r, key)
        PROVE  AccountsInv' /\ KeysStep /\ AdmissionStep
    BY <1>7, <1>k, RequireAPIKeyKeepsInv, AdmitsNobody DEF RequireAPIKey
  <1>8. ASSUME NEW r \in Requests, logout(r)
        PROVE  AccountsInv' /\ KeysStep /\ AdmissionStep
    BY <1>8, <1>k, LogoutKeepsInv, AdmitsNobody DEF logout, NoContext
  <1>9. ASSUME NEW r \in Requests, serve(r) \/ abort(r)
        PROVE  AccountsInv' /\ KeysStep /\ AdmissionStep
    <2>1. cx' \in [Requests -> Context] /\ Contexts'
      BY <1>9, EndOfRequest DEF serve, abort
    <2>2. AccountsInv'
      BY SMTT(30), <1>9, <2>1 DEF AccountsInv, AccountsTypeOK, Pairs, Endings, serve, abort
    <2>. QED  BY <1>9, <1>k, <2>2, AdmitsNobody DEF serve, abort, NoContext
  <1>10. ASSUME NEW r \in Requests, touch(r)
         PROVE  AccountsInv' /\ KeysStep /\ AdmissionStep
    <2>1. AdmissionStep
      BY <1>10 DEF AdmissionStep, touch, AccountsInv, AccountsTypeOK, Context
    <2>. QED  BY <1>10, <2>1, TouchKeepsInv
  <1>11. CASE Age
    <2>1. AdmissionStep
      BY <1>11 DEF AdmissionStep, Age
    <2>. QED  BY <1>11, <1>k, <2>1, AgeKeepsInv DEF Age
  <1>12. CASE UNCHANGED accountVars
    BY SMTT(30), <1>12 DEF accountVars, AccountsInv, AccountsTypeOK, Pairs, Contexts, Endings, KeysStep, AdmissionStep
  <1>. QED
    BY <1>1, <1>2, <1>3, <1>4, <1>5, <1>6, <1>7, <1>8, <1>9, <1>10, <1>11, <1>12 DEF AccountsNext

LEMMA AccountsInvHolds == AccountsSpec => []AccountsInv
  <1>1. AccountsInv /\ [AccountsNext]_accountVars => AccountsInv'
    BY AccountsStepKeepsInv
  <1>. QED  BY <1>1, AccountsInitHasInv, PTL DEF AccountsSpec

(* "All-or-nothing": however signups race, users and tenants pair up one   *)
(* to one and no email has two accounts (CreateAccount's transaction).     *)
THEOREM AccountsAlwaysPairUp == AccountsSpec => []AccountsPairUp
  <1>1. AccountsInv => AccountsPairUp
    BY DEF AccountsInv, Pairs, AccountsPairUp
  <1>. QED  BY <1>1, AccountsInvHolds, PTL

(* A tenant's keys come and go only through requests of its own users,     *)
(* although the tenant a handler acts for was looked up earlier            *)
(* (RequireSession, then createKey or deleteKey).                          *)
THEOREM OwnersChangeKeys == AccountsSpec => KeysChangeByOwner
  <1>1. AccountsInv /\ [AccountsNext]_accountVars => [KeysStep]_accountVars
    BY AccountsStepKeepsInv
  <1>2. [KeysStep]_accountVars <=>
          [\A k \in Keys, t \in Tenants :
             (k \in DOMAIN api_keys /\ api_keys[k].tenant_id = t)
               # (k \in DOMAIN api_keys /\ api_keys[k].tenant_id = t)'
             => \E r \in Requests : cx[r].pc = "human" /\ users[cx[r].user].tenant_id = t]_accountVars
    BY DEF KeysStep
  <1>. QED  BY <1>1, <1>2, AccountsInvHolds, PTL DEF AccountsSpec, KeysChangeByOwner

(* "Revocation is immediate": a token that was logged out or has expired   *)
(* gets no request past RequireSession, whatever logins, logouts and       *)
(* requests are under way (DeleteSession, expires_at > now()).             *)
THEOREM EndedSessionsAreRefused == AccountsSpec => EndedSessionRefused
  <1>1. AccountsInv /\ [AccountsNext]_accountVars => [AdmissionStep]_accountVars
    BY AccountsStepKeepsInv
  <1>2. [AdmissionStep]_accountVars <=>
          [\A r \in Requests :
             cx[r].pc = "idle" /\ cx'[r].pc = "human" => cx'[r].credential \notin ended]_accountVars
    BY DEF AdmissionStep
  <1>. QED  BY <1>1, <1>2, AccountsInvHolds, PTL DEF AccountsSpec, EndedSessionRefused

-----------------------------------------------------------------------------
(***************************************************************************)
(* Job requests from their API key to their answer, for any number of      *)
(* accounts, keys, jobs and requests.                                      *)
(***************************************************************************)
(* A key in the table is its creator's.                                    *)
KeysOwned ==
    /\ users = Account
    /\ DOMAIN api_keys \subseteq Keys
    /\ api_keys \in [DOMAIN api_keys -> KeyRow]
    /\ \A k \in DOMAIN api_keys : api_keys[k].tenant_id = Account[Owner[k]].tenant_id

(* What request r carries belongs together: the context of its API key     *)
(* and the operation that it names, and the write it is about to make.     *)
Bound(r) ==
    /\ rq[r].pc # "idle" => cx[r].pc = "program"
    /\ cx[r].pc \in {"touch", "program"} <=> ask[r].op # "none"
    /\ ask[r].op # "none" =>
          /\ ask[r].key \in Keys
          /\ cx[r].credential = ask[r].key
          /\ cx[r].tenant = Account[Owner[ask[r].key]].tenant_id
    /\ rq[r].pc = "push" => ask[r].op \in {"enqueue", "retry"}
    /\ rq[r].pc \in {"lrem", "zrem"} => ask[r].op = "cancel"

(* What request r has seen of its job: what is there now; and the status   *)
(* that let its write pass, or made the UPDATE of CancelJob miss.  A job   *)
(* that the sender could not see stays out of sight.                       *)
Told(r) ==
    IF ask[r].op = "none" THEN seen[r] = {}
    ELSE
        /\ ask[r].id \in DOMAIN jobs \cup {NoId}
        /\ View(r) \in seen[r]
        /\ "missing" \in seen[r] => View(r) = "missing"
        /\ rq[r].pc = "push" /\ ask[r].op = "retry" => "failed" \in seen[r]
        /\ rq[r].pc \in {"lrem", "zrem"} => "pending" \in seen[r]
        /\ ask[r].op = "exists" => \E st \in seen[r] : st # "pending"

ApiTypes ==
    /\ ask \in [Requests -> Asked]
    /\ seen \in [Requests -> SUBSET (Status \cup {"missing"})]
    /\ cx \in [Requests -> Context]

JobApiInv ==
    /\ TypeOK /\ ExclusiveRun /\ KeysOwned /\ ApiTypes
    /\ \A r \in Requests : Bound(r) /\ Told(r)

LEMMA JobApiInitInv == ApiStart => JobApiInv
  <1>. SUFFICES ASSUME ApiStart PROVE JobApiInv
    OBVIOUS
  <1>1. TypeOK /\ ExclusiveRun
    <2>1. Init
      BY DEF ApiStart
    <2>2. ExclusiveRun
      BY <2>1 DEF Idle, Init, WorkerInit, ExclusiveRun, Runs
    <2>. QED  BY <2>1, <2>2, InitTypes
  <1>2. KeysOwned
    <2>1. \A k \in Keys : Account[Owner[k]].tenant_id \in Tenants
      BY JobApiAssumption DEF UserRow
    <2>2. /\ users = Account
          /\ api_keys = [k \in Keys |-> [tenant_id |-> Account[Owner[k]].tenant_id, used |-> TRUE]]
      BY DEF ApiStart
    <2>. QED  BY <2>1, <2>2 DEF KeysOwned, KeyRow
  <1>3. ApiTypes
    BY DEF ApiStart, ApiTypes, Asked, NotAsked, Context, NoContext
  <1>4. \A r \in Requests : Bound(r) /\ Told(r)
    BY DEF ApiStart, Init, ApiInit, NoRequest, NoContext, NotAsked, Bound, Told
  <1>. QED  BY <1>1, <1>2, <1>3, <1>4 DEF JobApiInv

(* A job keeps its row and its owner.                                      *)
LEMMA OwnerStays ==
  ASSUME StoreTypeOK, StoreNext \/ UNCHANGED storeVars
  PROVE  \A id \in DOMAIN jobs :
            id \in DOMAIN jobs' /\ jobs'[id].tenant_id = jobs[id].tenant_id
  <1>. USE DEF StoreTypeOK, Row, HasStatus
  <1>1. ASSUME NEW id \in Ids, Statement(id), NEW j \in DOMAIN jobs
        PROVE  j \in DOMAIN jobs' /\ jobs'[j].tenant_id = jobs[j].tenant_id
    <2>1. CASE \E t \in Tenants, q \in QueueNames, b \in Budgets :
                  CreateJob(id, NewRow(t, q, b))
      BY <2>1 DEF CreateJob
    <2>2. CASE ClaimJob(id) \/ MarkCompleted(id)
      BY SMTT(30), <2>2 DEF ClaimJob, MarkCompleted
    <2>3. CASE \/ MarkForRetry(id, jobs[id].retry_count + 1)
               \/ DeadLetter(id, jobs[id].retry_count + 1)
      BY SMTT(30), <2>3 DEF MarkForRetry, DeadLetter
    <2>4. CASE \E t \in Tenants : RetryJob(t, id) \/ CancelJob(t, id)
      BY SMTT(30), <2>4 DEF RetryJob, Reset, CancelJob
    <2>. QED  BY <1>1, <2>1, <2>2, <2>3, <2>4 DEF Statement
  <1>2. CASE UNCHANGED storeVars
    BY <1>2 DEF storeVars
  <1>. HIDE DEF StoreTypeOK, Row, HasStatus
  <1>. QED  BY <1>1, <1>2 DEF StoreNext

-----------------------------------------------------------------------------
(* A request that goes on with the same job sees what becomes of it, and   *)
(* a job that was out of its sender's sight stays so.                      *)
LEMMA SightStays ==
  ASSUME JobApiInv, [Next]_vars, Watch, NEW r \in Requests,
         ask[r].op # "none", ask'[r].op # "none",
         ask'[r].id = ask[r].id, ask'[r].key = ask[r].key
  PROVE  /\ ask'[r].id \in DOMAIN jobs' \cup {NoId}
         /\ View(r)' \in seen'[r]
         /\ "missing" \in seen'[r] => View(r)' = "missing"
         /\ seen[r] \subseteq seen'[r]
  <1>1. TypeOK /\ ExclusiveRun /\ StoreTypeOK /\ TypeOK'
    BY NextTypes DEF JobApiInv, TypeOK
  <1>2. \A id \in DOMAIN jobs : id \in DOMAIN jobs' /\ jobs'[id].tenant_id = jobs[id].tenant_id
    BY <1>1, StoreSteps, OwnerStays
  <1>3. NoId \notin DOMAIN jobs'
    BY <1>1, NoIdAssumption DEF TypeOK, StoreTypeOK
  <1>4. Told(r) /\ ask[r].key \in Keys
    BY DEF JobApiInv, Bound
  <1>5. seen'[r] = seen[r] \cup {View(r)'}
    BY DEF Watch
  <1>6. View(r) = "missing" => View(r)' = "missing"
    BY <1>2, <1>3, <1>4, <1>1 DEF View, Told, StoreTypeOK, Row, Status, Terminal
  <1>. QED  BY <1>2, <1>4, <1>5, <1>6 DEF Told

(* A step that leaves request s where it is keeps what is known of it.     *)
LEMMA OthersStay ==
  ASSUME JobApiInv, [Next]_vars, Watch, NEW s \in Requests,
         cx'[s] = cx[s], ask'[s] = ask[s], rq'[s] = rq[s]
  PROVE  Bound(s)' /\ Told(s)'
  <1>1. Bound(s) /\ Told(s)
    BY DEF JobApiInv
  <1>2. Bound(s)'
    BY <1>1 DEF Bound
  <1>3. CASE ask[s].op = "none"
    BY <1>2, <1>3 DEF Told, Watch
  <1>4. CASE ask[s].op # "none"
    <2>1. /\ ask'[s].id \in DOMAIN jobs' \cup {NoId}
          /\ View(s)' \in seen'[s]
          /\ "missing" \in seen'[s] => View(s)' = "missing"
          /\ seen[s] \subseteq seen'[s]
      BY <1>4, SightStays
    <2>. QED  BY <1>1, <1>2, <1>4, <2>1 DEF Told
  <1>. QED  BY <1>3, <1>4

(* So a step of request r need only be looked at where r is concerned.     *)
LEMMA RequestMoves ==
  ASSUME JobApiInv, [Next]_vars, Watch, NEW r \in Requests,
         cx' \in [Requests -> Context], ask' \in [Requests -> Asked],
         \A s \in Requests \ {r} : cx'[s] = cx[s] /\ ask'[s] = ask[s] /\ rq'[s] = rq[s],
         KeysOwned', Bound(r)', Told(r)'
  PROVE  JobApiInv'
  <1>1. TypeOK' /\ ExclusiveRun'
    BY NextTypes, NextExclusive DEF JobApiInv
  <1>2. \A s \in Requests : View(s)' \in Status \cup {"missing"}
    BY <1>1 DEF View, TypeOK, StoreTypeOK, Row
  <1>3. ApiTypes'
    BY <1>2 DEF ApiTypes, JobApiInv, Watch
  <1>4. \A s \in Requests \ {r} : Bound(s)' /\ Told(s)'
    BY OthersStay
  <1>. QED  BY <1>1, <1>3, <1>4 DEF JobApiInv

-----------------------------------------------------------------------------
(* A job request acts for the tenant of its key.                           *)
LEMMA RequestTenant ==
  ASSUME JobApiInv, NEW r \in Requests, ask[r].op # "none"
  PROVE  /\ ask[r].key \in Keys
         /\ cx[r].credential = ask[r].key
         /\ tenantID(r) = Account[Owner[ask[r].key]].tenant_id
         /\ tenantID(r) \in Tenants
  <1>1. Bound(r)
    BY DEF JobApiInv
  <1>2. \A k \in Keys : Account[Owner[k]].tenant_id \in Tenants
    BY JobApiAssumption DEF UserRow
  <1>. QED  BY <1>1, <1>2 DEF Bound, tenantID

(* To the pipeline, a step of the api is one of Dispatch, or nothing.      *)
LEMMA ApiDispatches ==
  ASSUME JobApiInv, [ApiNext]_apiVars
  PROVE  [Next]_vars
  <1>u. UNCHANGED <<storeVars, queueVars, rq, faultVars, wk>> => UNCHANGED vars
    BY DEF storeVars, queueVars, faultVars, vars
  <1>d. DOMAIN jobs \subseteq Ids
    BY DEF JobApiInv, TypeOK, StoreTypeOK
  <1>n. ASSUME NEW r \in Requests, RequestNext(r) PROVE Next
    BY <1>n DEF Next
  <1>1. ASSUME NEW r \in Requests, NEW id \in Ids, NEW queue \in QueueNames, NEW budget \in Budgets,
               enqueueJob(r, id, queue, budget)
        PROVE  Next
    <2>1. tenantID(r) \in Tenants
      BY <1>1, RequestTenant DEF enqueueJob, Handling
    <2>. QED  BY <1>1, <1>n, <2>1 DEF enqueueJob, RequestNext, RequestBegin
  <1>2. ASSUME NEW r \in Requests, retryOrRefuse(r) PROVE [Next]_vars
    <2>1. tenantID(r) \in Tenants /\ UNCHANGED wk
      BY <1>2, RequestTenant DEF retryOrRefuse, Handling
    <2>2. CASE retryJob(r, ask[r].id, tenantID(r))
      <3>1. ask[r].id \in Ids
        BY <1>d, <2>2 DEF retryJob, RetryJob, HasStatus
      <3>. QED  BY <1>n, <2>1, <2>2, <3>1 DEF RequestNext, RequestBegin
    <2>3. CASE UNCHANGED <<storeVars, queueVars, rq, faultVars>>
      BY <1>u, <2>1, <2>3
    <2>. QED  BY <1>2, <2>2, <2>3 DEF retryOrRefuse
  <1>3. ASSUME NEW r \in Requests, cancelOrMiss(r) PROVE [Next]_vars
    <2>1. tenantID(r) \in Tenants /\ UNCHANGED wk
      BY <1>3, RequestTenant DEF cancelOrMiss, Handling
    <2>2. CASE cancelJob(r, ask[r].id, tenantID(r))
      <3>1. ask[r].id \in Ids
        BY <1>d, <2>2 DEF cancelJob, CancelJob, HasStatus
      <3>. QED  BY <1>n, <2>1, <2>2, <3>1 DEF RequestNext, RequestBegin
    <2>3. CASE UNCHANGED <<storeVars, queueVars, rq, faultVars>>
      BY <1>u, <2>1, <2>3
    <2>. QED  BY <1>3, <2>2, <2>3 DEF cancelOrMiss
  <1>4. ASSUME NEW r \in Requests, finish(r) PROVE Next
    BY <1>4, <1>n DEF finish, RequestNext, RequestStep
  <1>5. ASSUME NEW r \in Requests, hangUp(r) PROVE [Next]_vars
    BY <1>5, <1>n, <1>u DEF hangUp, RequestNext
  <1>6. ASSUME pipeline PROVE Next
    BY <1>6 DEF pipeline, Next
  <1>7. ASSUME NEW r \in Requests, stamp(r) \/ refuseCancel(r) \/ getJob(r) \/ manageKeys(r)
        PROVE  UNCHANGED vars
    BY <1>7 DEF stamp, refuseCancel, getJob, manageKeys
  <1>8. ASSUME NEW r \in Requests, NEW key \in Keys, NEW op \in Operations, NEW id \in Ids \cup {NoId},
               arrive(r, key, op, id)
        PROVE  UNCHANGED vars
    BY <1>8 DEF arrive
  <1>9. CASE UNCHANGED apiVars
    BY <1>9 DEF apiVars
  <1>. QED  BY <1>1, <1>2, <1>3, <1>4, <1>5, <1>6, <1>7, <1>8, <1>9 DEF ApiNext

-----------------------------------------------------------------------------
LEMMA NothingAsked == NoContext \in Context /\ NotAsked \in Asked
  BY DEF NoContext, Context, NotAsked, Asked

(* A request that ends leaves its slot empty.                              *)
LEMMA EndKeeps ==
  ASSUME JobApiInv, [Next]_vars, Watch, NEW r \in Requests,
         cx' = [cx EXCEPT ![r] = NoContext], ask' = [ask EXCEPT ![r] = NotAsked],
         \A s \in Requests \ {r} : rq'[s] = rq[s], rq'[r].pc = "idle",
         UNCHANGED <<users, api_keys>>
  PROVE  JobApiInv'
  <1>1. /\ cx' \in [Requests -> Context] /\ cx'[r] = NoContext
        /\ ask' \in [Requests -> Asked] /\ ask'[r] = NotAsked
        /\ \A s \in Requests \ {r} : cx'[s] = cx[s] /\ ask'[s] = ask[s]
    BY NothingAsked DEF JobApiInv, ApiTypes
  <1>2. KeysOwned'
    BY DEF JobApiInv, KeysOwned
  <1>3. Bound(r)' /\ Told(r)'
    BY <1>1 DEF Bound, Told, NoContext, NotAsked, Watch
  <1>. QED  BY <1>1, <1>2, <1>3, RequestMoves

(* A request that makes its write goes on with the same job, which it has  *)
(* seen in the status that let the write pass.                             *)
LEMMA WriteKeeps ==
  ASSUME JobApiInv, [Next]_vars, Watch, NEW r \in Requests, UNCHANGED <<accountVars, ask>>,
         \A s \in Requests \ {r} : rq'[s] = rq[s],
         cx[r].pc = "program",
         rq'[r].pc = "push" => ask[r].op \in {"enqueue", "retry"},
         rq'[r].pc \in {"lrem", "zrem"} => ask[r].op = "cancel" /\ "pending" \in seen[r],
         rq'[r].pc = "push" /\ ask[r].op = "retry" => "failed" \in seen[r]
  PROVE  JobApiInv'
  <1>0. cx' = cx /\ ask' = ask /\ users' = users /\ api_keys' = api_keys
    BY DEF accountVars
  <1>1. Bound(r) /\ Told(r) /\ ask[r].op # "none"
    BY DEF JobApiInv, Bound
  <1>2. KeysOwned'
    BY <1>0 DEF JobApiInv, KeysOwned
  <1>3. cx' \in [Requests -> Context] /\ ask' \in [Requests -> Asked]
    BY <1>0 DEF JobApiInv, ApiTypes
  <1>4. Bound(r)'
    BY <1>0, <1>1 DEF Bound
  <1>5. /\ ask'[r].id \in DOMAIN jobs' \cup {NoId}
        /\ View(r)' \in seen'[r]
        /\ "missing" \in seen'[r] => View(r)' = "missing"
        /\ seen[r] \subseteq seen'[r]
    BY <1>0, <1>1, SightStays
  <1>6. Told(r)'
    BY <1>0, <1>1, <1>5 DEF Told
  <1>. QED  BY <1>0, <1>2, <1>3, <1>4, <1>6, RequestMoves

(* What the tenant of a request can see of its job.                        *)
LEMMA ViewIsRow ==
  ASSUME JobApiInv, NEW r \in Requests, ask[r].op # "none"
  PROVE  /\ jobExists(tenantID(r), ask[r].id) => View(r) = jobs[ask[r].id].status /\ View(r) \in Status
         /\ ~jobExists(tenantID(r), ask[r].id) => View(r) = "missing"
         /\ View(r) \in seen[r]
         /\ "missing" \in seen[r] => View(r) = "missing"
  <1>1. Told(r)
    BY DEF JobApiInv
  <1>2. \A id \in DOMAIN jobs : jobs[id].status \in Status
    BY DEF JobApiInv, TypeOK, StoreTypeOK, Row
  <1>. QED  BY <1>1, <1>2, RequestTenant DEF Told, View, jobExists

LEMMA ArriveKeeps ==
  ASSUME JobApiInv, [Next]_vars, Watch, NEW r \in Requests, NEW key \in Keys, NEW op \in Operations,
         NEW id \in Ids \cup {NoId}, arrive(r, key, op, id)
  PROVE  JobApiInv'
  <1>0. /\ cx[r].pc = "idle" /\ id \in DOMAIN jobs \cup {NoId}
        /\ jobs' = jobs /\ rq' = rq /\ users' = users /\ api_keys' = api_keys
    BY DEF arrive, RequireAPIKey, vars
  <1>1. PICK t \in AuthenticateAPIKey(key) :
          cx' = [cx EXCEPT ![r] = [pc |-> "touch", user |-> None, tenant |-> t, credential |-> key]]
    BY DEF arrive, RequireAPIKey
  <1>2. t \in Tenants /\ t = Account[Owner[key]].tenant_id
    BY DEF AuthenticateAPIKey, JobApiInv, KeysOwned
  <1>3. /\ cx' \in [Requests -> Context]
        /\ cx'[r] = [pc |-> "touch", user |-> None, tenant |-> t, credential |-> key]
        /\ \A s \in Requests \ {r} : cx'[s] = cx[s]
    BY <1>1, <1>2 DEF JobApiInv, ApiTypes, Context
  <1>4. /\ ask' \in [Requests -> Asked]
        /\ ask'[r] = [op |-> op, id |-> id, key |-> key]
        /\ \A s \in Requests \ {r} : ask'[s] = ask[s]
    BY DEF arrive, JobApiInv, ApiTypes, Asked
  <1>5. Bound(r) /\ Told(r)
    BY DEF JobApiInv
  <1>6. rq[r].pc = "idle" /\ seen[r] = {}
    <2>1. rq[r].pc = "idle" /\ ask[r].op = "none"
      BY <1>0, <1>5 DEF Bound
    <2>. QED  BY <1>5, <2>1 DEF Told
  <1>7. op # "none" /\ op # "exists"
    BY DEF Operations
  <1>8. Bound(r)'
    BY SMTT(30), <1>0, <1>2, <1>3, <1>4, <1>6, <1>7 DEF Bound
  <1>9. seen'[r] = {View(r)'}
    BY SMTT(30), <1>4, <1>6, <1>7 DEF Watch
  <1>10. Told(r)'
    BY SMTT(30), <1>0, <1>4, <1>6, <1>7, <1>9 DEF Told
  <1>11. KeysOwned'
    BY <1>0 DEF JobApiInv, KeysOwned
  <1>. QED  BY <1>0, <1>3, <1>4, <1>8, <1>10, <1>11, RequestMoves

LEMMA StampKeeps ==
  ASSUME JobApiInv, [Next]_vars, Watch, NEW r \in Requests, stamp(r)
  PROVE  JobApiInv'
  <1>0. /\ cx[r].pc = "touch" /\ rq' = rq /\ ask' = ask /\ users' = users
        /\ cx' = [cx EXCEPT ![r].pc = "program"]
        /\ TouchAPIKey(cx[r].credential) \/ UNCHANGED api_keys
    BY DEF stamp, touch, vars
  <1>1. /\ cx' \in [Requests -> Context] /\ ask' \in [Requests -> Asked]
        /\ \A s \in Requests \ {r} : cx'[s] = cx[s]
        /\ cx'[r].pc = "program" /\ cx'[r].tenant = cx[r].tenant
        /\ cx'[r].credential = cx[r].credential
    BY <1>0 DEF JobApiInv, ApiTypes, Context
  <1>2. KeysOwned'
    <2>1. CASE UNCHANGED api_keys
      BY <1>0, <2>1 DEF JobApiInv, KeysOwned
    <2>2. ASSUME NEW k \in DOMAIN api_keys, api_keys' = [api_keys EXCEPT ![k].used = TRUE]
          PROVE  KeysOwned'
      <3>1. KeysOwned
        BY DEF JobApiInv
      <3>2. \A j \in DOMAIN api_keys : api_keys[j] \in KeyRow
        BY <3>1 DEF KeysOwned
      <3>3. \A j \in DOMAIN api_keys :
              api_keys'[j] \in KeyRow /\ api_keys'[j].tenant_id = api_keys[j].tenant_id
        BY <2>2, <3>2 DEF KeyRow
      <3>4. api_keys' = [j \in DOMAIN api_keys |-> api_keys'[j]]
        BY <2>2
      <3>. QED  BY <1>0, <3>1, <3>3, <3>4 DEF KeysOwned
    <2>. QED  BY <1>0, <2>1, <2>2 DEF TouchAPIKey
  <1>3. Bound(r) /\ Told(r) /\ ask[r].op # "none" /\ rq[r].pc = "idle"
    BY <1>0 DEF JobApiInv, Bound
  <1>4. Bound(r)'
    BY <1>0, <1>1, <1>3 DEF Bound
  <1>5. /\ ask'[r].id \in DOMAIN jobs' \cup {NoId}
        /\ View(r)' \in seen'[r]
        /\ "missing" \in seen'[r] => View(r)' = "missing"
        /\ seen[r] \subseteq seen'[r]
    BY <1>0, <1>3, SightStays
  <1>6. Told(r)'
    BY <1>0, <1>3, <1>5 DEF Told
  <1>. QED  BY <1>0, <1>1, <1>2, <1>4, <1>6, RequestMoves

LEMMA ManageKeysKeeps ==
  ASSUME JobApiInv, [Next]_vars, Watch, NEW r \in Requests, manageKeys(r)
  PROVE  JobApiInv'
  <1>0. rq' = rq /\ ask' = ask /\ Bound(r) /\ Told(r) /\ cx[r] \in Context
    BY DEF manageKeys, vars, JobApiInv, ApiTypes
  <1>1. ASSUME NEW token \in Tokens, RequireSession(r, token)
        PROVE  JobApiInv'
    <2>1. /\ cx[r].pc = "idle" /\ users' = users /\ api_keys' = api_keys
          /\ users \in [Users -> UserRow]
      BY <1>1, JobApiAssumption DEF RequireSession, JobApiInv, KeysOwned
    <2>2. PICK u \in SessionUser(token) :
            cx' = [cx EXCEPT ![r] = [pc |-> "human", user |-> u, tenant |-> users[u].tenant_id,
                                     credential |-> token]]
      BY <1>1 DEF RequireSession
    <2>3. u \in Users /\ users[u].tenant_id \in Tenants
      BY <2>1 DEF SessionUser, UserRow
    <2>4. /\ cx' \in [Requests -> Context] /\ ask' \in [Requests -> Asked]
          /\ cx'[r].pc = "human"
          /\ \A s \in Requests \ {r} : cx'[s] = cx[s]
      BY <1>0, <2>2, <2>3 DEF JobApiInv, ApiTypes, Context
    <2>5. KeysOwned'
      BY <2>1 DEF JobApiInv, KeysOwned
    <2>6. Bound(r)' /\ Told(r)'
      BY <1>0, <2>1, <2>4 DEF Bound, Told, Watch
    <2>. QED  BY <1>0, <2>4, <2>5, <2>6, RequestMoves
  <1>2. ASSUME NEW key \in Keys, deleteKey(r, key)
        PROVE  JobApiInv'
    <2>1. /\ cx[r].pc = "human" /\ users' = users /\ api_keys' = Delete(api_keys, key)
          /\ cx' = [cx EXCEPT ![r] = NoContext]
      BY <1>2 DEF deleteKey, DeleteAPIKey
    <2>2. /\ cx' \in [Requests -> Context] /\ ask' \in [Requests -> Asked]
          /\ cx'[r].pc = "idle"
          /\ \A s \in Requests \ {r} : cx'[s] = cx[s]
      BY <1>0, <2>1, NothingAsked DEF JobApiInv, ApiTypes, NoContext
    <2>3. KeysOwned'
      BY <2>1 DEF JobApiInv, KeysOwned, Delete
    <2>4. Bound(r)' /\ Told(r)'
      BY <1>0, <2>1, <2>2 DEF Bound, Told, Watch
    <2>. QED  BY <1>0, <2>2, <2>3, <2>4, RequestMoves
  <1>. QED  BY <1>1, <1>2 DEF manageKeys

LEMMA PipelineKeeps ==
  ASSUME JobApiInv, [Next]_vars, Watch, pipeline
  PROVE  JobApiInv'
  <1>1. /\ rq' = rq /\ ask' = ask /\ cx' = cx /\ users' = users /\ api_keys' = api_keys
    BY DEF pipeline, GoesOn, accountVars, WorkerNext, Poll, Tick
  <1>2. \A s \in Requests : Bound(s)' /\ Told(s)'
    BY <1>1, OthersStay
  <1>3. TypeOK' /\ ExclusiveRun'
    BY NextTypes, NextExclusive DEF JobApiInv
  <1>4. KeysOwned'
    BY <1>1 DEF JobApiInv, KeysOwned
  <1>5. \A s \in Requests : View(s)' \in Status \cup {"missing"}
    BY <1>3 DEF View, TypeOK, StoreTypeOK, Row
  <1>6. ApiTypes'
    BY <1>1, <1>5 DEF ApiTypes, JobApiInv, Watch
  <1>. QED  BY <1>2, <1>3, <1>4, <1>6 DEF JobApiInv

-----------------------------------------------------------------------------
(* The handlers that write, refuse or answer.                              *)
LEMMA EnqueueKeeps ==
  ASSUME JobApiInv, [Next]_vars, Watch, NEW r \in Requests, NEW id \in Ids,
         NEW queue \in QueueNames, NEW budget \in Budgets, enqueueJob(r, id, queue, budget)
  PROVE  JobApiInv'
  <1>1. rq \in [Requests -> RequestState]
    BY DEF JobApiInv, TypeOK, ApiTypeOK
  <1>2. /\ UNCHANGED <<accountVars, ask>> /\ cx[r].pc = "program" /\ ask[r].op = "enqueue"
        /\ rq' = [rq EXCEPT ![r] = [pc |-> "push", id |-> id]]
    BY DEF enqueueJob, Handling, GoesOn, Submit
  <1>3. rq'[r].pc = "push" /\ \A s \in Requests \ {r} : rq'[s] = rq[s]
    BY <1>1, <1>2
  <1>. QED  BY <1>2, <1>3, WriteKeeps

(* What the statement of RetryJob or CancelJob read, the request has seen. *)
LEMMA GrantedView ==
  ASSUME JobApiInv, NEW r \in Requests, ask[r].op # "none"
  PROVE  /\ RetryJob(tenantID(r), ask[r].id) => "failed" \in seen[r]
         /\ CancelJob(tenantID(r), ask[r].id) => "pending" \in seen[r]
  BY ViewIsRow DEF RetryJob, CancelJob, HasStatus, jobExists

LEMMA AnswerKeeps ==
  ASSUME JobApiInv, [Next]_vars, Watch, NEW r \in Requests, NEW op, NEW code,
         Answer(r, op, code), rq' = rq, rq[r].pc = "idle"
  PROVE  JobApiInv'
  <1>1. /\ cx' = [cx EXCEPT ![r] = NoContext] /\ ask' = [ask EXCEPT ![r] = NotAsked]
        /\ UNCHANGED <<users, api_keys>>
    BY DEF Answer
  <1>. QED  BY <1>1, EndKeeps

LEMMA RetryKeeps ==
  ASSUME JobApiInv, [Next]_vars, Watch, NEW r \in Requests, retryOrRefuse(r)
  PROVE  JobApiInv'
  <1>1. rq \in [Requests -> RequestState]
    BY DEF JobApiInv, TypeOK, ApiTypeOK
  <1>2. cx[r].pc = "program" /\ ask[r].op = "retry" /\ rq[r].pc = "idle"
    BY DEF retryOrRefuse, Handling
  <1>3. CASE retryJob(r, ask[r].id, tenantID(r)) /\ GoesOn
    <2>1. /\ rq'[r].pc = "push" /\ \A s \in Requests \ {r} : rq'[s] = rq[s]
          /\ UNCHANGED <<accountVars, ask>> /\ RetryJob(tenantID(r), ask[r].id)
      BY <1>1, <1>3 DEF retryJob, GoesOn
    <2>2. "failed" \in seen[r]
      BY <1>2, <2>1, GrantedView
    <2>. QED  BY <1>2, <2>1, <2>2, WriteKeeps
  <1>4. ASSUME NEW code, rq' = rq, Answer(r, "retry", code)
        PROVE  JobApiInv'
    BY <1>2, <1>4, AnswerKeeps
  <1>. QED  BY <1>3, <1>4 DEF retryOrRefuse

LEMMA CancelKeeps ==
  ASSUME JobApiInv, [Next]_vars, Watch, NEW r \in Requests, cancelOrMiss(r)
  PROVE  JobApiInv'
  <1>1. rq \in [Requests -> RequestState]
    BY DEF JobApiInv, TypeOK, ApiTypeOK
  <1>2. cx[r].pc = "program" /\ ask[r].op = "cancel" /\ rq[r].pc = "idle"
    BY DEF cancelOrMiss, Handling
  <1>3. CASE cancelJob(r, ask[r].id, tenantID(r)) /\ GoesOn
    <2>1. /\ rq'[r].pc = "lrem" /\ \A s \in Requests \ {r} : rq'[s] = rq[s]
          /\ UNCHANGED <<accountVars, ask>> /\ CancelJob(tenantID(r), ask[r].id)
      BY <1>1, <1>3 DEF cancelJob, GoesOn
    <2>2. "pending" \in seen[r]
      BY <1>2, <2>1, GrantedView
    <2>. QED  BY <1>2, <2>1, <2>2, WriteKeeps
  <1>4. ASSUME ~(jobExists(tenantID(r), ask[r].id) /\ HasStatus(ask[r].id, "pending")),
               ask' = [ask EXCEPT ![r].op = "exists"], rq' = rq, UNCHANGED accountVars
        PROVE  JobApiInv'
    <2>1. /\ cx' = cx /\ users' = users /\ api_keys' = api_keys
          /\ cx' \in [Requests -> Context]
      BY <1>4 DEF accountVars, JobApiInv, ApiTypes
    <2>2. /\ ask' \in [Requests -> Asked] /\ ask'[r].op = "exists"
          /\ ask'[r].id = ask[r].id /\ ask'[r].key = ask[r].key
          /\ \A s \in Requests \ {r} : ask'[s] = ask[s]
      BY <1>4 DEF JobApiInv, ApiTypes, Asked
    <2>3. KeysOwned' /\ Bound(r) /\ Told(r)
      BY <2>1 DEF JobApiInv, KeysOwned
    <2>4. Bound(r)'
      BY <1>2, <1>4, <2>1, <2>2, <2>3 DEF Bound
    <2>5. /\ ask'[r].id \in DOMAIN jobs' \cup {NoId}
          /\ View(r)' \in seen'[r]
          /\ "missing" \in seen'[r] => View(r)' = "missing"
          /\ seen[r] \subseteq seen'[r]
      BY <1>2, <2>2, SightStays
    <2>6. View(r) # "pending" /\ View(r) \in seen[r]
      BY <1>2, <1>4, ViewIsRow DEF jobExists, HasStatus
    <2>7. Told(r)'
      BY <1>2, <1>4, <2>2, <2>5, <2>6 DEF Told
    <2>. QED  BY <1>4, <2>1, <2>2, <2>3, <2>4, <2>7, RequestMoves
  <1>. QED  BY <1>3, <1>4 DEF cancelOrMiss

LEMMA FinishKeeps ==
  ASSUME JobApiInv, [Next]_vars, Watch, NEW r \in Requests, finish(r)
  PROVE  JobApiInv'
  <1>1. rq \in [Requests -> RequestState] /\ Bound(r) /\ Told(r)
    BY DEF JobApiInv, TypeOK, ApiTypeOK
  <1>2. ASSUME rq' = [rq EXCEPT ![r] = NoRequest], Answer(r, ask[r].op, "ok")
        PROVE  JobApiInv'
    <2>1. rq'[r].pc = "idle" /\ \A s \in Requests \ {r} : rq'[s] = rq[s]
      BY <1>1, <1>2 DEF NoRequest
    <2>2. /\ cx' = [cx EXCEPT ![r] = NoContext] /\ ask' = [ask EXCEPT ![r] = NotAsked]
          /\ UNCHANGED <<users, api_keys>>
      BY <1>2 DEF Answer
    <2>. QED  BY <2>1, <2>2, EndKeeps
  <1>3. CASE RemoveLrem(r) /\ GoesOn
    <2>1. /\ rq[r].pc = "lrem" /\ rq'[r].pc = "zrem"
          /\ \A s \in Requests \ {r} : rq'[s] = rq[s]
          /\ UNCHANGED <<accountVars, ask>>
      BY <1>1, <1>3 DEF RemoveLrem, GoesOn, RequestState
    <2>2. cx[r].pc = "program" /\ ask[r].op = "cancel" /\ "pending" \in seen[r]
      BY <1>1, <2>1 DEF Bound, Told
    <2>. QED  BY <2>1, <2>2, WriteKeeps
  <1>. QED  BY <1>2, <1>3 DEF finish, Push, RemoveZrem, RequestAbort

LEMMA HangUpKeeps ==
  ASSUME JobApiInv, [Next]_vars, Watch, NEW r \in Requests, hangUp(r)
  PROVE  JobApiInv'
  <1>1. rq \in [Requests -> RequestState]
    BY DEF JobApiInv, TypeOK, ApiTypeOK
  <1>2. rq'[r].pc = "idle" /\ \A s \in Requests \ {r} : rq'[s] = rq[s]
    BY SMTT(30), <1>1 DEF hangUp, RequestAbort, NoRequest
  <1>3. /\ cx' = [cx EXCEPT ![r] = NoContext] /\ ask' = [ask EXCEPT ![r] = NotAsked]
        /\ UNCHANGED <<users, api_keys>>
    BY DEF hangUp, abort
  <1>. QED  BY <1>2, <1>3, EndKeeps

LEMMA JobApiStep == JobApiInv /\ [ApiNext]_apiVars => JobApiInv'
  <1>. SUFFICES ASSUME JobApiInv, [ApiNext]_apiVars PROVE JobApiInv'
    OBVIOUS
  <1>1. [Next]_vars
    BY ApiDispatches
  <1>2. CASE ApiNext
    <2>1. Watch
      BY <1>2 DEF ApiNext
    <2>2. ASSUME NEW r \in Requests, refuseCancel(r) \/ getJob(r) PROVE JobApiInv'
      BY <1>1, <2>1, <2>2, AnswerKeeps DEF refuseCancel, getJob, Handling, vars
    <2>. QED
      BY <1>1, <1>2, <2>1, <2>2, ArriveKeeps, StampKeeps, EnqueueKeeps, RetryKeeps,
         CancelKeeps, FinishKeeps, HangUpKeeps, ManageKeysKeeps, PipelineKeeps DEF ApiNext
  <1>3. CASE UNCHANGED apiVars
    BY <1>1, <1>3, NextTypes, NextExclusive
    DEF apiVars, accountVars, vars, JobApiInv, KeysOwned, ApiTypes, Bound, Told, View
  <1>. QED  BY <1>2, <1>3

-----------------------------------------------------------------------------
(* What an answer must have had in sight.                                  *)
Deserved(op, code, sight) ==
    \/ op = "enqueue"
    \/ code = "not found" /\ "missing" \in sight
    \/ code = "conflict" /\ op = "retry" /\ sight \ {"missing", "failed"} # {}
    \/ code = "conflict" /\ op = "cancel" /\ sight \ {"missing", "pending"} # {}
    \/ code = "ok" /\ op = "retry" /\ "failed" \in sight
    \/ code = "ok" /\ op = "cancel" /\ "pending" \in sight
    \/ code = "ok" /\ op = "get" /\ sight # {"missing"}

LEMMA SilenceIsTrue ==
  /\ JobApiInv /\ reply = NoReply => AnswersWereTrue
  /\ JobApiInv' /\ Silent => AnswersWereTrue'
  <1>1. JobApiInv /\ reply = NoReply => AnswersWereTrue
    BY DEF JobApiInv, ApiTypes, Bound, ApiOK, AnswersWereTrue
  <1>2. JobApiInv' /\ reply' = NoReply => AnswersWereTrue'
    BY DEF JobApiInv, ApiTypes, Bound, ApiOK, AnswersWereTrue, NoReply
  <1>. QED  BY <1>1, <1>2 DEF Silent, NoReply

LEMMA ReplyIsTrue ==
  ASSUME JobApiInv', reply' \in Reply, Deserved(reply.op, reply.code, reply.seen)'
  PROVE  AnswersWereTrue'
  <1>1. ApiOK'
    BY DEF JobApiInv, ApiTypes, Bound, ApiOK
  <1>2. CASE reply'.op = "enqueue"
    BY <1>1, <1>2 DEF AnswersWereTrue
  <1>3. CASE reply'.code = "not found" /\ "missing" \in reply'.seen
    BY <1>1, <1>3 DEF AnswersWereTrue
  <1>4. CASE reply'.code = "conflict" /\ reply'.op = "retry" /\ reply'.seen \ {"missing", "failed"} # {}
    BY <1>1, <1>4 DEF AnswersWereTrue
  <1>5. CASE reply'.code = "conflict" /\ reply'.op = "cancel" /\ reply'.seen \ {"missing", "pending"} # {}
    BY <1>1, <1>5 DEF AnswersWereTrue
  <1>6. CASE reply'.code = "ok" /\ reply'.op = "retry" /\ "failed" \in reply'.seen
    BY <1>1, <1>6 DEF AnswersWereTrue
  <1>7. CASE reply'.code = "ok" /\ reply'.op = "cancel" /\ "pending" \in reply'.seen
    BY <1>1, <1>7 DEF AnswersWereTrue
  <1>8. CASE reply'.code = "ok" /\ reply'.op = "get" /\ reply'.seen # {"missing"}
    BY <1>1, <1>8 DEF AnswersWereTrue
  <1>. QED  BY <1>2, <1>3, <1>4, <1>5, <1>6, <1>7, <1>8 DEF Deserved

(* The answer to request r is put together from what it has seen.          *)
LEMMA AnswerHolds ==
  ASSUME JobApiInv, NEW r \in Requests, ask[r].op # "none",
         NEW op \in Operations, NEW code \in {"ok", "not found", "conflict"}, Answer(r, op, code)
  PROVE  reply' \in Reply /\ reply'.op = op /\ reply'.code = code /\ reply'.seen = seen[r]
  <1>1. seen[r] \cup {View(r)} = seen[r]
    BY ViewIsRow
  <1>2. /\ ask[r].id \in Ids \cup {NoId} /\ ask[r].key \in Keys
        /\ seen[r] \in SUBSET (Status \cup {"missing"})
    BY RequestTenant DEF JobApiInv, ApiTypes, Asked
  <1>3. reply' = [op |-> op, id |-> ask[r].id, key |-> ask[r].key, code |-> code, seen |-> seen[r]]
    BY <1>1 DEF Answer
  <1>. QED  BY <1>2, <1>3 DEF Reply

LEMMA AnswerIsTrue ==
  ASSUME JobApiInv, JobApiInv', NEW r \in Requests, ask[r].op # "none",
         NEW op \in Operations, NEW code \in {"ok", "not found", "conflict"},
         Answer(r, op, code), Deserved(op, code, seen[r])
  PROVE  AnswersWereTrue'
  <1>1. reply' \in Reply /\ reply'.op = op /\ reply'.code = code /\ reply'.seen = seen[r]
    BY AnswerHolds
  <1>2. Deserved(reply.op, reply.code, reply.seen)'
    BY <1>1 DEF Deserved
  <1>. QED  BY <1>1, <1>2, ReplyIsTrue

LEMMA RetryAnswers ==
  ASSUME JobApiInv, JobApiInv', NEW r \in Requests, retryOrRefuse(r)
  PROVE  AnswersWereTrue'
  <1>1. ask[r].op # "none"
    BY DEF retryOrRefuse, Handling
  <1>2. CASE GoesOn
    BY <1>2, SilenceIsTrue DEF GoesOn
  <1>3. ASSUME ~jobExists(tenantID(r), ask[r].id), Answer(r, "retry", "not found")
        PROVE  AnswersWereTrue'
    <2>1. "missing" \in seen[r]
      BY <1>1, <1>3, ViewIsRow
    <2>2. Deserved("retry", "not found", seen[r])
      BY <2>1 DEF Deserved
    <2>. QED  BY <1>1, <1>3, <2>2, AnswerIsTrue DEF Operations
  <1>4. ASSUME jobExists(tenantID(r), ask[r].id), ~HasStatus(ask[r].id, "failed"),
               Answer(r, "retry", "conflict")
        PROVE  AnswersWereTrue'
    <2>1. View(r) \in seen[r] /\ View(r) \notin {"missing", "failed"}
      BY <1>1, <1>4, ViewIsRow DEF jobExists, HasStatus, Status, Terminal
    <2>2. Deserved("retry", "conflict", seen[r])
      BY <2>1 DEF Deserved
    <2>. QED  BY <1>1, <1>4, <2>2, AnswerIsTrue DEF Operations
  <1>. QED  BY <1>2, <1>3, <1>4 DEF retryOrRefuse

(* A conflict from CancelJob's second query: the job is there now, so it   *)
(* has been all along, and it was not pending when the UPDATE missed it.   *)
LEMMA RefuseAnswers ==
  ASSUME JobApiInv, JobApiInv', NEW r \in Requests, refuseCancel(r)
  PROVE  AnswersWereTrue'
  <1>1. ask[r].op = "exists" /\ Told(r)
    BY DEF refuseCancel, Handling, JobApiInv
  <1>2. ASSUME ~jobExists(tenantID(r), ask[r].id), Answer(r, "cancel", "not found")
        PROVE  AnswersWereTrue'
    <2>1. "missing" \in seen[r]
      BY <1>1, <1>2, ViewIsRow
    <2>2. Deserved("cancel", "not found", seen[r])
      BY <2>1 DEF Deserved
    <2>. QED  BY <1>1, <1>2, <2>2, AnswerIsTrue DEF Operations
  <1>3. ASSUME jobExists(tenantID(r), ask[r].id), Answer(r, "cancel", "conflict")
        PROVE  AnswersWereTrue'
    <2>1. "missing" \notin seen[r]
      BY <1>1, <1>3, ViewIsRow DEF Status, Terminal
    <2>2. \E st \in seen[r] : st # "pending"
      BY <1>1 DEF Told
    <2>3. Deserved("cancel", "conflict", seen[r])
      BY <2>1, <2>2 DEF Deserved
    <2>. QED  BY <1>1, <1>3, <2>3, AnswerIsTrue DEF Operations
  <1>. QED  BY <1>2, <1>3 DEF refuseCancel

LEMMA GetAnswers ==
  ASSUME JobApiInv, JobApiInv', NEW r \in Requests, getJob(r)
  PROVE  AnswersWereTrue'
  <1>1. ask[r].op # "none"
    BY DEF getJob, Handling
  <1>2. ASSUME ~jobExists(tenantID(r), ask[r].id), Answer(r, "get", "not found")
        PROVE  AnswersWereTrue'
    <2>1. "missing" \in seen[r]
      BY <1>1, <1>2, ViewIsRow
    <2>2. Deserved("get", "not found", seen[r])
      BY <2>1 DEF Deserved
    <2>. QED  BY <1>1, <1>2, <2>2, AnswerIsTrue DEF Operations
  <1>3. ASSUME jobExists(tenantID(r), ask[r].id), Answer(r, "get", "ok")
        PROVE  AnswersWereTrue'
    <2>1. seen[r] # {"missing"}
      BY <1>1, <1>3, ViewIsRow DEF Status, Terminal
    <2>2. Deserved("get", "ok", seen[r])
      BY <2>1 DEF Deserved
    <2>. QED  BY <1>1, <1>3, <2>2, AnswerIsTrue DEF Operations
  <1>. QED  BY <1>2, <1>3 DEF getJob

LEMMA FinishAnswers ==
  ASSUME JobApiInv, JobApiInv', NEW r \in Requests, finish(r)
  PROVE  AnswersWereTrue'
  <1>1. Bound(r) /\ Told(r)
    BY DEF JobApiInv
  <1>2. CASE GoesOn
    BY <1>2, SilenceIsTrue DEF GoesOn
  <1>3. ASSUME rq[r].pc \in {"push", "lrem", "zrem"}, Answer(r, ask[r].op, "ok")
        PROVE  AnswersWereTrue'
    <2>1. /\ ask[r].op \in Operations /\ ask[r].op # "none"
          /\ \/ ask[r].op = "enqueue"
             \/ ask[r].op = "retry" /\ "failed" \in seen[r]
             \/ ask[r].op = "cancel" /\ "pending" \in seen[r]
      BY <1>1, <1>3 DEF Bound, Told, Operations
    <2>2. Deserved(ask[r].op, "ok", seen[r])
      BY <2>1 DEF Deserved
    <2>. QED  BY <1>3, <2>1, <2>2, AnswerIsTrue
  <1>. QED  BY <1>2, <1>3 DEF finish, Push, RemoveZrem

LEMMA AnswersStep ==
  ASSUME JobApiInv, AnswersWereTrue, [ApiNext]_apiVars
  PROVE  AnswersWereTrue'
  <1>1. JobApiInv'
    BY JobApiStep
  <1>2. ASSUME Silent PROVE AnswersWereTrue'
    BY <1>1, <1>2, SilenceIsTrue
  <1>3. ASSUME NEW r \in Requests,
               \/ \E key \in Keys, op \in Operations, id \in Ids \cup {NoId} : arrive(r, key, op, id)
               \/ \E id \in Ids, queue \in QueueNames, budget \in Budgets :
                     enqueueJob(r, id, queue, budget)
               \/ stamp(r) \/ cancelOrMiss(r) \/ hangUp(r) \/ manageKeys(r)
        PROVE  Silent
    BY <1>3 DEF arrive, enqueueJob, stamp, cancelOrMiss, hangUp, manageKeys, GoesOn
  <1>4. ASSUME pipeline PROVE Silent
    BY <1>4 DEF pipeline, GoesOn
  <1>5. CASE ApiNext
    BY <1>1, <1>2, <1>3, <1>4, <1>5, RetryAnswers, RefuseAnswers, GetAnswers, FinishAnswers
    DEF ApiNext
  <1>6. CASE UNCHANGED apiVars
    BY <1>1, <1>6 DEF apiVars, accountVars, vars, AnswersWereTrue, ApiOK
  <1>. QED  BY <1>5, <1>6

LEMMA JobApiHolds == ApiSpec => [](JobApiInv /\ AnswersWereTrue)
  <1>1. ApiStart => JobApiInv /\ AnswersWereTrue
    BY JobApiInitInv, SilenceIsTrue DEF ApiStart
  <1>2. JobApiInv /\ AnswersWereTrue /\ [ApiNext]_apiVars => (JobApiInv /\ AnswersWereTrue)'
    BY JobApiStep, AnswersStep
  <1>. QED  BY <1>1, <1>2, PTL DEF ApiSpec

(* Whatever the pipeline and other callers do meanwhile, an answer was     *)
(* true for its tenant at some moment of the request: 404, 409 and success *)
(* of getJob, retryJob and cancelJob, CancelJob's second query included.   *)
THEOREM AnswersAreTrue == ApiSpec => []AnswersWereTrue
  BY JobApiHolds, PTL

-----------------------------------------------------------------------------
(* What only a caller does to a row: create, retry or cancel it.           *)
CallersMove(id) ==
    \/ id \notin DOMAIN jobs /\ id \in DOMAIN jobs'
    \/ HasStatus(id, "failed") /\ HasStatus(id, "pending")'
    \/ HasStatus(id, "pending") /\ HasStatus(id, "cancelled")'

OwnerStep ==
    \A id \in Ids :
        CallersMove(id) => \E r \in Requests :
                              /\ cx[r].pc = "program"
                              /\ jobs'[id].tenant_id = Account[Owner[cx[r].credential]].tenant_id

LEMMA NobodyMoves == UNCHANGED jobs => OwnerStep
  BY DEF OwnerStep, CallersMove, HasStatus

(* A worker never makes such a move, as the row it settles is processing.  *)
LEMMA WorkersMoveNone ==
  ASSUME JobApiInv, NEW w \in Workers, WorkerNext(w)
  PROVE  OwnerStep
  <1>. DEFINE held == wk[w].id
  <1>1. StoreTypeOK
    BY DEF JobApiInv, TypeOK
  <1>2. wk[w].pc = "running" => HasStatus(held, "processing")
    BY DEF JobApiInv, TypeOK, HoldsRow, StoreTypeOK, ExclusiveRun, Runs, HasStatus
  <1>. HIDE DEF held
  <1>3. ASSUME DOMAIN jobs' = DOMAIN jobs,
               \A id \in DOMAIN jobs \ {held} : jobs'[id] = jobs[id],
               \/ HasStatus(held, "processing")
               \/ jobs'[held].status = "processing" /\ held \in DOMAIN jobs
        PROVE  OwnerStep
    <2>1. ASSUME NEW id \in Ids, id = held PROVE ~CallersMove(id)
      BY <1>3, <2>1 DEF CallersMove, HasStatus
    <2>2. ASSUME NEW id \in Ids \ {held} PROVE ~CallersMove(id)
      BY <1>3, <2>2 DEF CallersMove, HasStatus
    <2>. QED  BY <2>1, <2>2 DEF OwnerStep
  <1>4. ASSUME NEW id, ClaimJob(id) PROVE /\ DOMAIN jobs' = DOMAIN jobs
                                          /\ \A j \in DOMAIN jobs \ {id} : jobs'[j] = jobs[j]
                                          /\ jobs'[id].status = "processing" /\ id \in DOMAIN jobs
    BY <1>1, <1>4 DEF ClaimJob, HasStatus, StoreTypeOK, Row
  <1>5. ASSUME NEW id, NEW n, MarkCompleted(id) \/ MarkForRetry(id, n) \/ DeadLetter(id, n)
        PROVE  /\ DOMAIN jobs' = DOMAIN jobs
               /\ \A j \in DOMAIN jobs \ {id} : jobs'[j] = jobs[j]
    BY <1>1, <1>5 DEF MarkCompleted, MarkForRetry, DeadLetter, StoreTypeOK, Row
  <1>6. CASE Claim(w)
    <2>1. ClaimJob(held)
      BY <1>6 DEF Claim, held
    <2>. QED  BY <1>3, <1>4, <2>1
  <1>7. CASE Complete(w) \/ ScheduleRetry(w) \/ GiveUp(w)
    BY <1>2, <1>3, <1>5, <1>7 DEF Complete, ScheduleRetry, GiveUp, held
  <1>8. CASE Dequeue(w) \/ Skip(w) \/ Park(w) \/ ParkResend(w) \/ WorkerCrash(w)
    BY <1>8, NobodyMoves DEF Dequeue, Skip, Park, ParkResend, WorkerCrash, storeVars
  <1>. QED  BY <1>6, <1>7, <1>8 DEF WorkerNext, WorkerStep

(* A request that writes one row, of the tenant it acts for, moves no row  *)
(* of anybody else.                                                        *)
LEMMA OwnerMoves ==
  ASSUME JobApiInv, NEW r \in Requests, cx[r].pc = "program", ask[r].op # "none", NEW id \in Ids,
         \A j \in Ids \ {id} : /\ j \in DOMAIN jobs' <=> j \in DOMAIN jobs
                               /\ j \in DOMAIN jobs => jobs'[j] = jobs[j],
         jobs'[id].tenant_id = tenantID(r)
  PROVE  OwnerStep
  <1>1. jobs'[id].tenant_id = Account[Owner[cx[r].credential]].tenant_id
    BY RequestTenant
  <1>2. ASSUME NEW j \in Ids \ {id} PROVE ~CallersMove(j)
    BY <1>2 DEF CallersMove, HasStatus
  <1>. QED  BY <1>1, <1>2 DEF OwnerStep

LEMMA CallersMoveOwn ==
  ASSUME JobApiInv, [ApiNext]_apiVars
  PROVE  OwnerStep
  <1>1. jobs \in [DOMAIN jobs -> Row] /\ DOMAIN jobs \subseteq Ids
    BY DEF JobApiInv, TypeOK, StoreTypeOK
  <1>2. ASSUME NEW r \in Requests, NEW id \in Ids, NEW queue \in QueueNames, NEW budget \in Budgets,
               enqueueJob(r, id, queue, budget)
        PROVE  OwnerStep
    <2>1. /\ cx[r].pc = "program" /\ ask[r].op # "none"
          /\ CreateJob(id, NewRow(tenantID(r), queue, budget))
      BY <1>2 DEF enqueueJob, Handling, Submit
    <2>2. /\ \A j \in Ids \ {id} : /\ j \in DOMAIN jobs' <=> j \in DOMAIN jobs
                                   /\ j \in DOMAIN jobs => jobs'[j] = jobs[j]
          /\ jobs'[id].tenant_id = tenantID(r)
      BY <2>1 DEF CreateJob, NewRow
    <2>. QED  BY <2>1, <2>2, OwnerMoves
  <1>3. ASSUME NEW r \in Requests, cx[r].pc = "program", ask[r].op # "none",
               RetryJob(tenantID(r), ask[r].id) \/ CancelJob(tenantID(r), ask[r].id)
        PROVE  OwnerStep
    <2>. DEFINE id == ask[r].id
    <2>1. id \in Ids /\ id \in DOMAIN jobs /\ jobs[id].tenant_id = tenantID(r)
      BY <1>1, <1>3 DEF RetryJob, CancelJob, HasStatus
    <2>2. /\ \A j \in Ids \ {id} : /\ j \in DOMAIN jobs' <=> j \in DOMAIN jobs
                                   /\ j \in DOMAIN jobs => jobs'[j] = jobs[j]
          /\ jobs'[id].tenant_id = tenantID(r)
      BY SMTT(30), <1>1, <1>3, <2>1 DEF RetryJob, Reset, CancelJob, Row
    <2>. HIDE DEF id
    <2>. QED  BY <1>3, <2>1, <2>2, OwnerMoves
  <1>4. ASSUME NEW r \in Requests, retryOrRefuse(r) PROVE OwnerStep
    BY <1>3, <1>4, NobodyMoves DEF retryOrRefuse, retryJob, Handling, storeVars
  <1>5. ASSUME NEW r \in Requests, cancelOrMiss(r) PROVE OwnerStep
    BY <1>3, <1>5, NobodyMoves DEF cancelOrMiss, cancelJob, Handling, storeVars
  <1>6. ASSUME NEW r \in Requests,
               \/ \E key \in Keys, op \in Operations, id \in Ids \cup {NoId} : arrive(r, key, op, id)
               \/ stamp(r) \/ refuseCancel(r) \/ getJob(r) \/ manageKeys(r)
        PROVE  OwnerStep
    BY <1>6, NobodyMoves
    DEF arrive, stamp, refuseCancel, getJob, manageKeys, vars
  <1>7. ASSUME NEW r \in Requests, finish(r) \/ hangUp(r) PROVE OwnerStep
    BY <1>7, NobodyMoves
    DEF finish, Push, RemoveLrem, RemoveZrem, hangUp, RequestAbort, storeVars
  <1>8. CASE pipeline
    BY <1>8, WorkersMoveNone, NobodyMoves DEF pipeline, Poll, Tick, storeVars
  <1>9. CASE UNCHANGED apiVars
    BY <1>9, NobodyMoves DEF apiVars, vars
  <1>. QED  BY <1>2, <1>4, <1>5, <1>6, <1>7, <1>8, <1>9 DEF ApiNext

(* However keys are deleted and requests overtake each other, a job is     *)
(* created, retried or cancelled only by a request with a key of the       *)
(* job's own tenant (RequireAPIKey, tenantID, the WHERE clauses).          *)
THEOREM OwnersMoveJobs == ApiSpec => OnlyOwnersMoveJobs
  <1>1. JobApiInv /\ [ApiNext]_apiVars => [OwnerStep]_apiVars
    BY CallersMoveOwn
  <1>2. [OwnerStep]_apiVars <=>
          [\A id \in Ids :
             \/ id \notin DOMAIN jobs /\ id \in DOMAIN jobs'
             \/ HasStatus(id, "failed") /\ HasStatus(id, "pending")'
             \/ HasStatus(id, "pending") /\ HasStatus(id, "cancelled")'
             => \E r \in Requests :
                   /\ cx[r].pc = "program"
                   /\ jobs'[id].tenant_id = Account[Owner[cx[r].credential]].tenant_id]_apiVars
    BY DEF OwnerStep, CallersMove
  <1>. QED  BY <1>1, <1>2, JobApiHolds, PTL DEF ApiSpec, OnlyOwnersMoveJobs

(* With credentials, refusals and answers around it the pipeline is still  *)
(* that of Dispatch, so what is proved of it holds here too (the routes    *)
(* behind RequireAPIKey, and processOne).                                  *)
THEOREM ApiRunsPipeline == ApiSpec => Spec
  <1>1. ApiStart => Init
    BY DEF ApiStart
  <1>2. JobApiInv /\ [ApiNext]_apiVars => [Next]_vars
    BY ApiDispatches
  <1>. QED  BY <1>1, <1>2, JobApiHolds, PTL DEF ApiSpec, Spec
=============================================================================
