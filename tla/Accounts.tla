------------------------------ MODULE Accounts ------------------------------
(***************************************************************************)
(* Who may act for which tenant: signup, login, logout, API keys, and the  *)
(* two middlewares that resolve a credential to the tenant a request is    *)
(* scoped to.  Each call to Postgres is a step, so a credential may be     *)
(* revoked between the check and the handler that relies on it.            *)
(*                                                                         *)
(* An email stands for its normalised form (trim, lower case), a token or  *)
(* key for its hash; the generators never repeat one.  A request that is   *)
(* refused (400, 401, 404, 409) writes nothing.                            *)
(***************************************************************************)
EXTENDS Integers, FiniteSets, Callers

CONSTANTS
    DefaultTenant,   \* migration 0005 seeds it
    Users, Emails, Tokens, Keys,
    None,        \* what a request has not (yet) got
    SessionTTL   \* DefaultSessionTTL

ASSUME AccountsAssumption ==
    /\ DefaultTenant \in Tenants
    /\ None \notin Tenants \cup Users \cup Tokens \cup Keys
    /\ SessionTTL \in Nat \ {0}

VARIABLES
    tenants,     \* the tenants rows
    users,       \* users: tenant_id and email by id
    sessions,    \* sessions: user_id and time to live by token
    api_keys,    \* api_keys: tenant_id and whether it was ever used, by key
    cx,          \* each request with what its context carries
    spent,       \* history: the tokens and keys that were generated
    ended        \* history: the tokens that were logged out or expired

accountVars == <<tenants, users, sessions, api_keys, cx, spent, ended>>

UserRow == [tenant_id: Tenants, email: Emails]

SessionRow == [user_id: Users, left: 0..SessionTTL]

KeyRow == [tenant_id: Tenants, used: BOOLEAN]

(* greet: about to start a session for user; human: past RequireSession;   *)
(* touch, program: past AuthenticateAPIKey, and past TouchAPIKey.          *)
Context == [pc: {"idle", "greet", "human", "touch", "program"},
            user: Users \cup {None}, tenant: Tenants \cup {None},
            credential: Tokens \cup Keys \cup {None}]

NoContext == [pc |-> "idle", user |-> None, tenant |-> None, credential |-> None]

Rows(f, D, R) == DOMAIN f \subseteq D /\ f \in [DOMAIN f -> R]

(* Tables and requests have their types.                                   *)
AccountsTypeOK ==
    /\ tenants \subseteq Tenants
    /\ Rows(users, Users, UserRow)
    /\ Rows(sessions, Tokens, SessionRow)
    /\ Rows(api_keys, Keys, KeyRow)
    /\ cx \in [Requests -> Context]
    /\ spent \subseteq Tokens \cup Keys
    /\ ended \subseteq Tokens

AccountsInit ==
    /\ tenants = {DefaultTenant}
    /\ users = [u \in {} |-> {}]
    /\ sessions = [t \in {} |-> {}]
    /\ api_keys = [k \in {} |-> {}]
    /\ cx = [r \in Requests |-> NoContext]
    /\ spent = {}
    /\ ended = {}

Insert(f, x, row) == [y \in DOMAIN f \cup {x} |-> IF y = x THEN row ELSE f[y]]

Delete(f, x) == [y \in DOMAIN f \ {x} |-> f[y]]

-----------------------------------------------------------------------------
Taken(email) == \E u \in DOMAIN users : users[u].email = email

(* Mutant of CreateAccount: a refused signup leaves its tenant behind.     *)
CreateAccount_NoRollback(t, u, email) ==
    /\ t \notin tenants /\ u \notin DOMAIN users
    /\ tenants' = tenants \cup {t}
    /\ users' = IF Taken(email) THEN users
                ELSE Insert(users, u, [tenant_id |-> t, email |-> email])

(* One transaction; unique(lower(email)) refuses a second account.         *)
CreateAccount(t, u, email) ==
    /\ t \notin tenants /\ u \notin DOMAIN users
    /\ ~Taken(email)
    /\ tenants' = tenants \cup {t}
    /\ users' = Insert(users, u, [tenant_id |-> t, email |-> email])

signup(r, t, u, email) ==
    /\ cx[r].pc = "idle"
    /\ CreateAccount(t, u, email)
    /\ cx' = [cx EXCEPT ![r] = [NoContext EXCEPT !.pc = "greet", !.user = u]]
    /\ UNCHANGED <<sessions, api_keys, spent, ended>>

GetUserByEmail(email) == {u \in DOMAIN users : users[u].email = email}

(* The email is known and the password matches.                            *)
login(r, email) ==
    /\ cx[r].pc = "idle"
    /\ \E u \in GetUserByEmail(email) :
          cx' = [cx EXCEPT ![r] = [NoContext EXCEPT !.pc = "greet", !.user = u]]
    /\ UNCHANGED <<tenants, users, sessions, api_keys, spent, ended>>

CreateSession(user, token) ==
    /\ token \notin spent
    /\ spent' = spent \cup {token}
    /\ sessions' = Insert(sessions, token, [user_id |-> user, left |-> SessionTTL])

startSession(r, token) ==
    /\ cx[r].pc = "greet"
    /\ CreateSession(cx[r].user, token)
    /\ cx' = [cx EXCEPT ![r] = NoContext]
    /\ UNCHANGED <<tenants, users, api_keys, ended>>

(* Mutant of SessionUser: expires_at is not compared.                      *)
SessionUser_IgnoresExpiry(token) ==
    {u \in DOMAIN users : token \in DOMAIN sessions /\ sessions[token].user_id = u}

(* The user of a session that is there and has not expired.                *)
SessionUser(token) ==
    {u \in DOMAIN users : /\ token \in DOMAIN sessions
                          /\ sessions[token].user_id = u
                          /\ sessions[token].left > 0}

RequireSession(r, token) ==
    /\ cx[r].pc = "idle"
    /\ \E u \in SessionUser(token) :
          cx' = [cx EXCEPT ![r] = [pc |-> "human", user |-> u,
                                   tenant |-> users[u].tenant_id, credential |-> token]]
    /\ UNCHANGED <<tenants, users, sessions, api_keys, spent, ended>>

(* The row may be gone already; that is no error.                          *)
DeleteSession(token) ==
    /\ sessions' = Delete(sessions, token)
    /\ ended' = ended \cup {token}

logout(r) ==
    /\ cx[r].pc = "human"
    /\ DeleteSession(cx[r].credential)
    /\ cx' = [cx EXCEPT ![r] = NoContext]
    /\ UNCHANGED <<tenants, users, api_keys, spent>>

(* What a handler acts for: the tenant the middleware put in the context.  *)
tenantID(r) == cx[r].tenant

CreateAPIKey(tenant, key) ==
    /\ key \notin spent
    /\ spent' = spent \cup {key}
    /\ api_keys' = Insert(api_keys, key, [tenant_id |-> tenant, used |-> FALSE])

createKey(r, key) ==
    /\ cx[r].pc = "human"
    /\ CreateAPIKey(tenantID(r), key)
    /\ cx' = [cx EXCEPT ![r] = NoContext]
    /\ UNCHANGED <<tenants, users, sessions, ended>>

(* Mutant of DeleteAPIKey: tenant_id is not in the WHERE.                  *)
DeleteAPIKey_AnyTenant(tenant, key) ==
    /\ key \in DOMAIN api_keys
    /\ api_keys' = Delete(api_keys, key)

DeleteAPIKey(tenant, key) ==
    /\ key \in DOMAIN api_keys
    /\ api_keys[key].tenant_id = tenant
    /\ api_keys' = Delete(api_keys, key)

deleteKey(r, key) ==
    /\ cx[r].pc = "human"
    /\ DeleteAPIKey(tenantID(r), key)
    /\ cx' = [cx EXCEPT ![r] = NoContext]
    /\ UNCHANGED <<tenants, users, sessions, spent, ended>>

(* Every other handler behind a credential: it reads, or works on jobs.    *)
serve(r) ==
    /\ cx[r].pc \in {"human", "program"}
    /\ cx' = [cx EXCEPT ![r] = NoContext]
    /\ UNCHANGED <<tenants, users, sessions, api_keys, spent, ended>>

(* The tenant of a key, if there is such a key.                            *)
AuthenticateAPIKey(key) ==
    {t \in Tenants : key \in DOMAIN api_keys /\ api_keys[key].tenant_id = t}

RequireAPIKey(r, key) ==
    /\ cx[r].pc = "idle"
    /\ \E t \in AuthenticateAPIKey(key) :
          cx' = [cx EXCEPT ![r] = [pc |-> "touch", user |-> None, tenant |-> t,
                                   credential |-> key]]
    /\ UNCHANGED <<tenants, users, sessions, api_keys, spent, ended>>

(* UPDATE ... WHERE id = $1, which may match no row any more.              *)
TouchAPIKey(key) ==
    IF key \in DOMAIN api_keys
    THEN api_keys' = [api_keys EXCEPT ![key].used = TRUE]
    ELSE UNCHANGED api_keys

(* The stamp is best-effort: the request goes on when it fails.            *)
touch(r) ==
    /\ cx[r].pc = "touch"
    /\ TouchAPIKey(cx[r].credential) \/ UNCHANGED api_keys
    /\ cx' = [cx EXCEPT ![r].pc = "program"]
    /\ UNCHANGED <<tenants, users, sessions, spent, ended>>

(* A call fails, the client goes away or the api stops.                    *)
abort(r) ==
    /\ cx[r].pc # "idle"
    /\ cx' = [cx EXCEPT ![r] = NoContext]
    /\ UNCHANGED <<tenants, users, sessions, api_keys, spent, ended>>

(* Sessions grow older; rows that expired stay in the table.               *)
Age ==
    /\ \E t \in DOMAIN sessions : sessions[t].left > 0
    /\ sessions' = [t \in DOMAIN sessions |->
                      [sessions[t] EXCEPT !.left = IF @ = 0 THEN 0 ELSE @ - 1]]
    /\ ended' = ended \cup {t \in DOMAIN sessions : sessions[t].left <= 1}
    /\ UNCHANGED <<tenants, users, api_keys, cx, spent>>

AccountsNext ==
    \/ \E r \in Requests :
          \/ \E t \in Tenants, u \in Users, email \in Emails : signup(r, t, u, email)
          \/ \E email \in Emails : login(r, email)
          \/ \E token \in Tokens : startSession(r, token) \/ RequireSession(r, token)
          \/ \E key \in Keys : createKey(r, key) \/ deleteKey(r, key) \/ RequireAPIKey(r, key)
          \/ logout(r) \/ serve(r) \/ touch(r) \/ abort(r)
    \/ Age

AccountsSpec == AccountsInit /\ [][AccountsNext]_accountVars

-----------------------------------------------------------------------------
(* Types are kept, an email belongs to one user at most, and users and     *)
(* tenants pair up one to one, the seeded default tenant apart: signup is  *)
(* "all-or-nothing -- we never end up with a tenant that has no user"      *)
(* (CreateAccount).                                                        *)
AccountsPairUp ==
    /\ AccountsTypeOK
    /\ \A u, v \in DOMAIN users : users[u].email = users[v].email => u = v
    /\ \A u, v \in DOMAIN users : users[u].tenant_id = users[v].tenant_id => u = v
    /\ {users[u].tenant_id : u \in DOMAIN users} = tenants \ {DefaultTenant}

(* A key appears, disappears or changes hands only through a request that  *)
(* passed RequireSession as a user of the key's own tenant: a deleted one  *)
(* is not brought back by a program that authenticated with it before      *)
(* (TouchAPIKey after DeleteAPIKey).                                       *)
KeysChangeByOwner ==
    [][\A k \in Keys, t \in Tenants :
          (k \in DOMAIN api_keys /\ api_keys[k].tenant_id = t)
            # (k \in DOMAIN api_keys /\ api_keys[k].tenant_id = t)'
          => \E r \in Requests : cx[r].pc = "human" /\ users[cx[r].user].tenant_id = t]_accountVars

(* No request gets past RequireSession with a token that was logged out,   *)
(* by whichever request, or has expired ("revocation is immediate").       *)
EndedSessionRefused ==
    [][\A r \in Requests :
          cx[r].pc = "idle" /\ cx'[r].pc = "human" => cx'[r].credential \notin ended]_accountVars
=============================================================================
