------------------------------ MODULE Accounts ------------------------------
(***************************************************************************)
(* Accounts, sessions and password links: auth.service.ts,                 *)
(* admin-account.service.ts and the two guards of the authenticated routes.*)
(*                                                                         *)
(* A session is a pair of signed tokens.  The service keeps no list of the *)
(* tokens it signed, only, in Redis, of the refresh tokens it no longer    *)
(* takes.  A token carries the user (with the address and role of then,    *)
(* which nothing modelled here reads) and the second it was signed in, but *)
(* no jti: two tokens of one user and second are the same.                 *)
(* A step is one statement on the database or on Redis.                    *)
(***************************************************************************)
EXTENDS Naturals, FiniteSets

CONSTANTS
    Users,        \* ids of accounts, in use or not
    Admins,       \* those seeded as administrators
    Emails,
    ResetKeys,    \* links of forgotten passwords, each used for one request
    Requests,     \* requests served at one time
    RefreshTTL,   \* JWT_REFRESH_EXPIRES_IN, in seconds
    AccessTTL,    \* JWT_EXPIRES_IN
    ResetTTL,     \* lifetime of a link: 15 minutes
    MaxTime,      \* bound of the clock
    MaxTokens,    \* bound: different pairs of tokens signed
    None

ASSUME AccountsAssumption ==
    /\ None \notin Users \cup Emails \cup ResetKeys
    /\ Admins \subseteq Users
    /\ {RefreshTTL, AccessTTL, ResetTTL, MaxTime, MaxTokens} \subseteq Nat

VARIABLES
    now,          \* the clock, in seconds
    account,      \* the rows of users
    issued,       \* pairs of tokens, as their refresh tokens
    listed,       \* blacklist:refresh:<token>: the second its key expires
    link,         \* reset:password:<key>
    req,          \* local variables of the requests
    revoked,      \* history: tokens rotated or logged out
    answered      \* history: links whose reset was answered with success

tables == <<account, issued, listed, link>>
vars == <<now, tables, req, revoked, answered>>

Token == [sub: Users, iat: 0..MaxTime]

Account ==
    [email: Emails \cup {None},      \* None: there is no such row
     known: BOOLEAN,                 \* somebody knows the password
     active: BOOLEAN]

Link == [user: Users \cup {None}, until: Nat, deleted: BOOLEAN]

Request ==
    [pc: {"idle", "create", "adopt", "sign", "user", "revoke", "store",
          "password", "delete", "email", "write"},
     user: Users \cup {None}, email: Emails \cup {None},
     password: BOOLEAN,   \* it came with a (new) password
     token: Token \cup {None}, key: ResetKeys \cup {None},
     late: BOOLEAN]       \* history: token or link was spent when it began

NoAccount == [email |-> None, known |-> FALSE, active |-> TRUE]
NoLink == [user |-> None, until |-> 0, deleted |-> FALSE]
Idle == [pc |-> "idle", user |-> None, email |-> None, password |-> FALSE,
         token |-> None, key |-> None, late |-> FALSE]

AccountsTypeOK ==
    /\ now \in 0..MaxTime
    /\ account \in [Users -> Account]
    /\ issued \subseteq Token
    /\ listed \in [Token -> Nat]
    /\ link \in [ResetKeys -> Link]
    /\ req \in [Requests -> Request]
    /\ revoked \subseteq Token
    /\ answered \subseteq ResetKeys

Exists(u) == account[u].email # None
Taken(e) == \E u \in Users : account[u].email = e
TakenByOther(u, e) == \E v \in Users \ {u} : account[v].email = e

\* Administrators are seeded, each with an address of its own.
Init ==
    /\ now = 0
    /\ account \in [Users -> Account]
    /\ \A u \in Users : account[u].active
    /\ \A u \in Admins : Exists(u) /\ account[u].known
    /\ \A u \in Users \ Admins : account[u] = NoAccount
    /\ \A u, v \in Admins : account[u].email = account[v].email => u = v
    /\ issued = {}
    /\ listed = [t \in Token |-> 0]
    /\ link = [k \in ResetKeys |-> NoLink]
    /\ req = [r \in Requests |-> Idle]
    /\ revoked = {}
    /\ answered = {}

Set(r, state) == req' = [req EXCEPT ![r] = state]

-----------------------------------------------------------------------------
(* Registration and login.                                                 *)

Register(r, e) ==
    /\ req[r].pc = "idle"
    /\ ~Taken(e)
    /\ Set(r, [Idle EXCEPT !.pc = "create", !.email = e, !.password = TRUE])
    /\ UNCHANGED <<now, tables, revoked, answered>>

\* The address is the one that Google names; that it is unverified is logged.
GoogleLogin(r, e) ==
    /\ req[r].pc = "idle"
    /\ \/ /\ ~Taken(e)
          /\ Set(r, [Idle EXCEPT !.pc = "adopt", !.email = e])
       \/ \E u \in Users :
            /\ account[u].email = e
            /\ account[u].active
            /\ Set(r, [Idle EXCEPT !.pc = "sign", !.user = u])
    /\ UNCHANGED <<now, tables, revoked, answered>>

\* Mutant of UserCreate: only the look-up keeps the addresses apart.
UserCreateUnconstrained(r) ==
    /\ req[r].pc \in {"create", "adopt"}
    /\ \E u \in Users :
          /\ ~Exists(u)
          /\ account' = [account EXCEPT ![u] =
               [email |-> req[r].email, known |-> req[r].password, active |-> TRUE]]
          /\ Set(r, IF req[r].pc = "adopt"
                    THEN [Idle EXCEPT !.pc = "sign", !.user = u] ELSE Idle)
    /\ UNCHANGED <<now, issued, listed, link, revoked, answered>>

\* Mutant of UserCreate: the tokens are signed for the user looked up before.
UserCreateSignsLookup(r) ==
    /\ req[r].pc \in {"create", "adopt"}
    /\ \E u \in Users :
          /\ ~Exists(u) /\ ~Taken(req[r].email)
          /\ account' = [account EXCEPT ![u] =
               [email |-> req[r].email, known |-> req[r].password, active |-> TRUE]]
          /\ Set(r, IF req[r].pc = "adopt" THEN [req[r] EXCEPT !.pc = "sign"] ELSE Idle)
    /\ UNCHANGED <<now, issued, listed, link, revoked, answered>>

\* user.create: the address is unique, the second of two creations throws.
UserCreate(r) ==
    /\ req[r].pc \in {"create", "adopt"}
    /\ IF Taken(req[r].email)
         THEN Set(r, Idle) /\ UNCHANGED account
         ELSE \E u \in Users :
                /\ ~Exists(u)
                /\ account' = [account EXCEPT ![u] =
                     [email |-> req[r].email, known |-> req[r].password, active |-> TRUE]]
                /\ Set(r, IF req[r].pc = "adopt"
                          THEN [Idle EXCEPT !.pc = "sign", !.user = u] ELSE Idle)
    /\ UNCHANGED <<now, issued, listed, link, revoked, answered>>

\* With the address and the password of an active account.
Login(r, u) ==
    /\ req[r].pc = "idle"
    /\ Exists(u) /\ account[u].active /\ account[u].known
    /\ Set(r, [Idle EXCEPT !.pc = "sign", !.user = u])
    /\ UNCHANGED <<now, tables, revoked, answered>>

\* signTokens: nothing but the user and the second tells tokens apart.
SignTokens(r) ==
    LET t == [sub |-> req[r].user, iat |-> now]
    IN  /\ req[r].pc = "sign"
        /\ Cardinality(issued \cup {t}) <= MaxTokens
        /\ issued' = issued \cup {t}
        /\ Set(r, Idle)
        /\ UNCHANGED <<now, account, listed, link, revoked, answered>>

-----------------------------------------------------------------------------
(* Refresh tokens.                                                         *)

Expired(t) == now >= t.iat + RefreshTTL
Blacklisted(t) == now < listed[t]

RefreshCheck(r, t) ==
    /\ req[r].pc = "idle"
    /\ t \in issued
    /\ ~Blacklisted(t)
    /\ Set(r, [Idle EXCEPT !.pc = "user", !.token = t,
                           !.late = t \in revoked \/ ~account[t.sub].active])
    /\ UNCHANGED <<now, tables, revoked, answered>>

\* The signature and its expiry are verified, then the user is read.
RefreshUser(r) ==
    LET t == req[r].token
    IN  /\ req[r].pc = "user"
        /\ Set(r, IF Expired(t) \/ ~account[t.sub].active THEN Idle
                  ELSE [req[r] EXCEPT !.pc = "revoke", !.user = t.sub])
        /\ UNCHANGED <<now, tables, revoked, answered>>

\* Mutant of Blacklist: the lifetime of the access token.
BlacklistShortly(t) ==
    /\ listed' = [listed EXCEPT ![t] = now + AccessTTL]
    /\ revoked' = revoked \cup {t}

\* redis.set with the lifetime that the token had when it was signed.
Blacklist(t) ==
    /\ listed' = [listed EXCEPT ![t] = now + RefreshTTL]
    /\ revoked' = revoked \cup {t}

RefreshRevoke(r) ==
    /\ req[r].pc = "revoke"
    /\ Blacklist(req[r].token)
    /\ Set(r, [Idle EXCEPT !.pc = "sign", !.user = req[r].user, !.late = req[r].late])
    /\ UNCHANGED <<now, account, issued, link, answered>>

Logout(t) ==
    /\ t \in issued
    /\ ~Expired(t)
    /\ Blacklist(t)
    /\ UNCHANGED <<now, account, issued, link, req, answered>>

-----------------------------------------------------------------------------
(* Forgotten passwords.                                                    *)

ForgotPassword(r, u) ==
    /\ req[r].pc = "idle"
    /\ Exists(u)
    /\ Set(r, [Idle EXCEPT !.pc = "store", !.user = u])
    /\ UNCHANGED <<now, tables, revoked, answered>>

ForgotStore(r, k) ==
    /\ req[r].pc = "store"
    /\ link[k] = NoLink                      \* a fresh random key
    /\ link' = [link EXCEPT ![k] = [user |-> req[r].user, until |-> now + ResetTTL,
                                    deleted |-> FALSE]]
    /\ Set(r, Idle)
    /\ UNCHANGED <<now, account, issued, listed, revoked, answered>>

LinkWorks(k) == link[k].user # None /\ now < link[k].until

ResetPassword(r, k) ==
    /\ req[r].pc = "idle"
    /\ LinkWorks(k)
    /\ Set(r, [Idle EXCEPT !.pc = "password", !.user = link[k].user, !.key = k,
                           !.late = k \in answered])
    /\ UNCHANGED <<now, tables, revoked, answered>>

ResetWrite(r) ==
    /\ req[r].pc = "password"
    /\ account' = [account EXCEPT ![req[r].user].known = TRUE]
    /\ Set(r, [Idle EXCEPT !.pc = "delete", !.key = req[r].key, !.late = req[r].late])
    /\ UNCHANGED <<now, issued, listed, link, revoked, answered>>

\* Mutant of ResetDelete: del of the token of the mail, which is no key.
ResetDeleteNothing(r) ==
    /\ req[r].pc = "delete"
    /\ answered' = answered \cup {req[r].key}
    /\ Set(r, Idle)
    /\ UNCHANGED <<now, tables, revoked>>

ResetDelete(r) ==
    /\ req[r].pc = "delete"
    /\ link' = [link EXCEPT ![req[r].key] = [NoLink EXCEPT !.deleted = TRUE]]
    /\ answered' = answered \cup {req[r].key}
    /\ Set(r, Idle)
    /\ UNCHANGED <<now, account, issued, listed, revoked>>

-----------------------------------------------------------------------------
(* The profile, and the account page of an administrator.                  *)

\* JwtAuthGuard: the access token of a pair; the account is not looked at.
Authenticated(u) == \E t \in issued : t.sub = u /\ now < t.iat + AccessTTL

UpdateProfile(r, u, e) ==
    /\ req[r].pc = "idle"
    /\ Authenticated(u)
    /\ ~TakenByOther(u, e)
    /\ Set(r, [Idle EXCEPT !.pc = "write", !.user = u, !.email = e])
    /\ UNCHANGED <<now, tables, revoked, answered>>

\* The current password was given and is right, the new one is another.
UpdateAccount(r, u, e, new) ==
    /\ req[r].pc = "idle"
    /\ Authenticated(u)
    /\ new => account[u].known
    /\ e # None \/ new
    /\ Set(r, [Idle EXCEPT !.pc = IF e \in {None, account[u].email} THEN "write"
                                                                    ELSE "email",
                           !.user = u, !.email = e, !.password = new])
    /\ UNCHANGED <<now, tables, revoked, answered>>

UpdateAccountEmail(r) ==
    /\ req[r].pc = "email"
    /\ Set(r, IF TakenByOther(req[r].user, req[r].email) THEN Idle
              ELSE [req[r] EXCEPT !.pc = "write"])
    /\ UNCHANGED <<now, tables, revoked, answered>>

\* user.update of what was given; a taken address violates the unique key.
UserUpdate(r) ==
    LET u == req[r].user
        old == account[u]
        e == IF req[r].email = None THEN old.email ELSE req[r].email
    IN  /\ req[r].pc = "write"
        /\ IF TakenByOther(u, e) THEN UNCHANGED account
           ELSE account' = [account EXCEPT ![u] =
                              [email |-> e, known |-> old.known \/ req[r].password,
                               active |-> old.active]]
        /\ Set(r, Idle)
        /\ UNCHANGED <<now, issued, listed, link, revoked, answered>>

\* No route writes isActive: somebody does it in the database.
Deactivate(u) ==
    /\ Exists(u) /\ account[u].active
    /\ account' = [account EXCEPT ![u] = [account[u] EXCEPT !.active = FALSE]]
    /\ UNCHANGED <<now, issued, listed, link, req, revoked, answered>>

\* A request ends at an await: an error, or the process restarts.
Die(r) ==
    /\ req[r].pc # "idle"
    /\ Set(r, Idle)
    /\ UNCHANGED <<now, tables, revoked, answered>>

Tick ==
    /\ now < MaxTime
    /\ now' = now + 1
    /\ UNCHANGED <<tables, req, revoked, answered>>

-----------------------------------------------------------------------------
LoginRoutes(r) ==
    \/ \E e \in Emails : Register(r, e) \/ GoogleLogin(r, e)
    \/ \E u \in Users : Login(r, u)

PasswordRoutes(r) ==
    \/ \E u \in Users : ForgotPassword(r, u)
    \/ \E k \in ResetKeys : ResetPassword(r, k)

ProfileRoutes(r) == \E u \in Users, e \in Emails : UpdateProfile(r, u, e)

AccountRoutes(r) ==
    \E u \in Admins, e \in Emails \cup {None}, new \in BOOLEAN :
        UpdateAccount(r, u, e, new)

Begin(r) ==
    \/ LoginRoutes(r)
    \/ \E t \in issued : RefreshCheck(r, t)
    \/ PasswordRoutes(r)
    \/ ProfileRoutes(r)
    \/ AccountRoutes(r)

Continue(r) ==
    \/ UserCreate(r)
    \/ SignTokens(r)
    \/ RefreshUser(r)
    \/ RefreshRevoke(r)
    \/ \E k \in ResetKeys : ForgotStore(r, k)
    \/ ResetWrite(r)
    \/ ResetDelete(r)
    \/ UpdateAccountEmail(r)
    \/ UserUpdate(r)

Next ==
    \/ \E r \in Requests : Begin(r) \/ Continue(r) \/ Die(r)
    \/ \E t \in issued : Logout(t)
    \/ \E u \in Users : Deactivate(u)
    \/ Tick

Spec == Init /\ [][Next]_vars

-----------------------------------------------------------------------------
(* Properties that hold.                                                   *)

\* A refresh that began after its token was rotated or logged out, or after
\* the account was deactivated, gets no tokens, whatever else runs and
\* however late: the key on the blacklist outlives the token
\* (auth.service.ts:296-323, 353), though it does expire.
RevokedGetsNothing ==
    \A r \in Requests : req[r].pc \in {"revoke", "sign"} => ~req[r].late

\* A link that has set a password and said so does not set another one, also
\* when several links, resets and account changes run at one time
\* (auth.service.ts:402-428).
LinkWorksOnce ==
    \A r \in Requests : req[r].pc \in {"password", "delete"} => ~req[r].late

\* No address belongs to two accounts, although registration, Google login,
\* profile and account page each look first and write later
\* (auth.service.ts:82-102, 245-258, 494-513; admin-account.service.ts:77-101).
EmailsUnique ==
    \A u, v \in Users :
        Exists(u) /\ account[u].email = account[v].email => u = v
=============================================================================
