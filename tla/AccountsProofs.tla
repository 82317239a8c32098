--------------------------- MODULE AccountsProofs ---------------------------
(* Theorems about Accounts.tla, for every value of its constants.          *)
EXTENDS Accounts, TLAPS

-----------------------------------------------------------------------------
(* The inductive invariant: what the tables say, and what each request     *)
(* under way may rely on.  The second part names the state it is about, so *)
(* that a step can compare it before and after.                            *)

Tables ==
    /\ now \in 0..MaxTime
    /\ account \in [Users -> Account]
    /\ issued \subseteq Token
    /\ listed \in [Token -> Nat]
    /\ link \in [ResetKeys -> Link]
    /\ revoked \subseteq Token
    /\ answered \subseteq ResetKeys

\* Tokens are of accounts, and none of them is of the future.
Signed == \A t \in issued : Exists(t.sub) /\ t.iat <= now

\* The key on the blacklist outlives the token.
Outlived == \A t \in revoked : listed[t] >= t.iat + RefreshTTL

\* A link that was answered is gone for ever.
Gone == \A k \in answered : link[k].user = None /\ link[k].deleted

Fits(q, acc, iss, n) ==
    /\ q.pc \in {"create", "adopt"} => q.email \in Emails
    /\ q.pc \in {"sign", "revoke", "email", "write"} =>
         q.user \in Users /\ acc[q.user].email # None
    /\ q.pc \in {"store", "password"} => q.user \in Users
    /\ q.pc \in {"user", "revoke"} => q.token \in iss
    /\ q.pc = "user" /\ q.late =>
         n >= q.token.iat + RefreshTTL \/ ~acc[q.token.sub].active
    /\ q.pc \in {"password", "delete"} => q.key \in ResetKeys
    /\ q.pc \in {"revoke", "sign", "password", "delete"} => ~q.late

AllFit ==
    /\ req \in [Requests -> Request]
    /\ \A r \in Requests : Fits(req[r], account, issued, now)

Inv == Tables /\ Signed /\ Outlived /\ Gone /\ EmailsUnique /\ AllFit

\* What no step undoes.
Grown(acc, acc2, iss, iss2, n, n2) ==
    /\ \A u \in Users : acc[u].email # None =>
         acc2[u].email # None /\ (acc2[u].active => acc[u].active)
    /\ iss \subseteq iss2
    /\ n <= n2

LEMMA IdleFits ==
  /\ Idle \in Request
  /\ \A acc, iss, n : Fits(Idle, acc, iss, n)
  BY DEF Idle, Request, Fits

LEMMA InitInv == Init => Inv
<1> SUFFICES ASSUME Init PROVE Inv
  OBVIOUS
<1>1. Tables
  <2>1. now \in 0..MaxTime
    BY AccountsAssumption DEF Init
  <2>2. link \in [ResetKeys -> Link]
    BY DEF Init, Link, NoLink
  <2> QED  BY <2>1, <2>2 DEF Init, Tables
<1>2. Signed /\ Outlived /\ Gone
  BY DEF Init, Signed, Outlived, Gone
<1>3. EmailsUnique
  BY DEF Init, EmailsUnique, Exists, NoAccount
<1>4. AllFit
  BY IdleFits DEF Init, AllFit
<1> QED  BY <1>1, <1>2, <1>3, <1>4 DEF Inv

\* A request may rely on as much after a step as before.
LEMMA FitsGrown ==
  ASSUME Inv, NEW acc2, NEW iss2, NEW n2 \in Nat, NEW q \in Request,
         Grown(account, acc2, issued, iss2, now, n2),
         Fits(q, account, issued, now)
  PROVE  Fits(q, acc2, iss2, n2)
<1>1. q.pc = "user" => q.token.sub \in Users /\ q.token.iat \in Nat
                       /\ account[q.token.sub].email # None
  BY DEF Fits, Inv, Tables, Signed, Token, Exists
<1>2. now \in Nat /\ RefreshTTL \in Nat
  BY AccountsAssumption DEF Inv, Tables
<1> QED  BY <1>1, <1>2 DEF Fits, Grown

\* A step of one request: the others still fit, its own state has to.
LEMMA StepFits ==
  ASSUME Inv, NEW r \in Requests, NEW q \in Request,
         req' = [req EXCEPT ![r] = q],
         Fits(q, account', issued', now'), now' \in Nat,
         Grown(account, account', issued, issued', now, now')
  PROVE  AllFit'
<1>1. req' \in [Requests -> Request]
  BY DEF Inv, AllFit
<1>2. ASSUME NEW x \in Requests
      PROVE  Fits(req'[x], account', issued', now')
  <2>1. CASE x = r
    BY <2>1 DEF Inv, AllFit
  <2>2. CASE x # r
    <3>1. req'[x] = req[x] /\ req[x] \in Request /\ Fits(req[x], account, issued, now)
      BY <2>2 DEF Inv, AllFit
    <3> QED  BY <3>1, FitsGrown
  <2> QED  BY <2>1, <2>2
<1> QED  BY <1>1, <1>2 DEF AllFit

\* Nothing but the requests changes.
LEMMA LocalStep ==
  ASSUME Inv, NEW r \in Requests, NEW q \in Request, Set(r, q),
         Fits(q, account, issued, now),
         UNCHANGED <<now, tables, revoked, answered>>
  PROVE  Inv'
<1>1. Grown(account, account', issued, issued', now, now') /\ now' \in Nat
  BY AccountsAssumption DEF tables, Grown, Inv, Tables
<1>2. AllFit'
  <2>1. Fits(q, account', issued', now')
    BY DEF tables
  <2> QED  BY <1>1, <2>1, StepFits DEF Set
<1> QED  BY <1>2 DEF Inv, Tables, Signed, Outlived, Gone, EmailsUnique, Exists, tables

-----------------------------------------------------------------------------
(* The first statements of the routes.                                     *)

LEMMA LoginInv ==
  ASSUME Inv, NEW r \in Requests, LoginRoutes(r)
  PROVE  Inv'
<1>1. ASSUME NEW e \in Emails, Register(r, e)
      PROVE  Inv'
  <2> DEFINE q == [Idle EXCEPT !.pc = "create", !.email = e, !.password = TRUE]
  <2>1. q \in Request /\ Fits(q, account, issued, now)
    BY DEF Idle, Request, Fits
  <2> HIDE DEF q
  <2>2. Set(r, q) /\ UNCHANGED <<now, tables, revoked, answered>>
    BY <1>1 DEF Register, q
  <2> QED  BY <2>1, <2>2, LocalStep
<1>2. ASSUME NEW e \in Emails, GoogleLogin(r, e)
      PROVE  Inv'
  <2>1. CASE Set(r, [Idle EXCEPT !.pc = "adopt", !.email = e])
    <3> DEFINE q == [Idle EXCEPT !.pc = "adopt", !.email = e]
    <3>1. q \in Request /\ Fits(q, account, issued, now)
      BY DEF Idle, Request, Fits
    <3> HIDE DEF q
    <3>2. Set(r, q) /\ UNCHANGED <<now, tables, revoked, answered>>
      BY <1>2, <2>1 DEF GoogleLogin, q
    <3> QED  BY <3>1, <3>2, LocalStep
  <2>2. ASSUME NEW u \in Users, account[u].email = e,
               Set(r, [Idle EXCEPT !.pc = "sign", !.user = u])
        PROVE  Inv'
    <3> DEFINE q == [Idle EXCEPT !.pc = "sign", !.user = u]
    <3>1. q \in Request /\ Fits(q, account, issued, now)
      BY <2>2, AccountsAssumption DEF Idle, Request, Fits
    <3> HIDE DEF q
    <3>2. Set(r, q) /\ UNCHANGED <<now, tables, revoked, answered>>
      BY <1>2, <2>2 DEF GoogleLogin, q
    <3> QED  BY <3>1, <3>2, LocalStep
  <2> QED  BY <1>2, <2>1, <2>2 DEF GoogleLogin
<1>3. ASSUME NEW u \in Users, Login(r, u)
      PROVE  Inv'
  <2> DEFINE q == [Idle EXCEPT !.pc = "sign", !.user = u]
  <2>1. q \in Request /\ Fits(q, account, issued, now)
    BY <1>3 DEF Login, Exists, Idle, Request, Fits
  <2> HIDE DEF q
  <2>2. Set(r, q) /\ UNCHANGED <<now, tables, revoked, answered>>
    BY <1>3 DEF Login, q
  <2> QED  BY <2>1, <2>2, LocalStep
<1> QED  BY <1>1, <1>2, <1>3 DEF LoginRoutes

LEMMA PasswordInv ==
  ASSUME Inv, NEW r \in Requests, PasswordRoutes(r)
  PROVE  Inv'
<1>1. ASSUME NEW u \in Users, ForgotPassword(r, u)
      PROVE  Inv'
  <2> DEFINE q == [Idle EXCEPT !.pc = "store", !.user = u]
  <2>1. q \in Request /\ Fits(q, account, issued, now)
    BY DEF Idle, Request, Fits
  <2> HIDE DEF q
  <2>2. Set(r, q) /\ UNCHANGED <<now, tables, revoked, answered>>
    BY <1>1 DEF ForgotPassword, q
  <2> QED  BY <2>1, <2>2, LocalStep
<1>2. ASSUME NEW k \in ResetKeys, ResetPassword(r, k)
      PROVE  Inv'
  <2> DEFINE q == [Idle EXCEPT !.pc = "password", !.user = link[k].user, !.key = k,
                               !.late = k \in answered]
  <2>1. link[k].user \in Users /\ k \notin answered
    BY <1>2 DEF ResetPassword, LinkWorks, Inv, Tables, Link, Gone
  <2>3. q \in Request /\ Fits(q, account, issued, now)
    <3> DEFINE u == link[k].user
               late == k \in answered
    <3>1. u \in Users /\ late \in BOOLEAN /\ ~late
      BY <2>1
    <3>2. q = [Idle EXCEPT !.pc = "password", !.user = u, !.key = k, !.late = late]
      OBVIOUS
    <3> HIDE DEF u, late, q
    <3> QED  BY <3>1, <3>2 DEF Idle, Request, Fits
  <2> HIDE DEF q
  <2>4. Set(r, q) /\ UNCHANGED <<now, tables, revoked, answered>>
    BY <1>2 DEF ResetPassword, q
  <2> QED  BY <2>3, <2>4, LocalStep
<1> QED  BY <1>1, <1>2 DEF PasswordRoutes

LEMMA AccountInv ==
  ASSUME Inv, NEW r \in Requests, ProfileRoutes(r) \/ AccountRoutes(r)
  PROVE  Inv'
<1>1. ASSUME NEW u \in Users, Authenticated(u)
      PROVE  account[u].email # None
  BY <1>1 DEF Authenticated, Inv, Signed, Exists
<1>2. ASSUME NEW u \in Users, NEW e \in Emails, UpdateProfile(r, u, e)
      PROVE  Inv'
  <2> DEFINE q == [Idle EXCEPT !.pc = "write", !.user = u, !.email = e]
  <2>1. q \in Request /\ Fits(q, account, issued, now)
    BY <1>1, <1>2 DEF UpdateProfile, Idle, Request, Fits
  <2> HIDE DEF q
  <2>2. Set(r, q) /\ UNCHANGED <<now, tables, revoked, answered>>
    BY <1>2 DEF UpdateProfile, q
  <2> QED  BY <2>1, <2>2, LocalStep
<1>3. ASSUME NEW u \in Admins, NEW e \in Emails \cup {None}, NEW new \in BOOLEAN,
             UpdateAccount(r, u, e, new)
      PROVE  Inv'
  <2> DEFINE pc == IF e \in {None, account[u].email} THEN "write" ELSE "email"
             q == [Idle EXCEPT !.pc = pc, !.user = u, !.email = e, !.password = new]
  <2>1. u \in Users
    BY AccountsAssumption
  <2>2. q \in Request /\ Fits(q, account, issued, now)
    <3>1. pc \in {"write", "email"}
      OBVIOUS
    <3> HIDE DEF pc
    <3> QED  BY <1>1, <1>3, <2>1, <3>1 DEF UpdateAccount, Idle, Request, Fits
  <2>3. Set(r, q) /\ UNCHANGED <<now, tables, revoked, answered>>
    BY <1>3 DEF UpdateAccount
  <2> HIDE DEF q
  <2> QED  BY <2>2, <2>3, LocalStep
<1> QED  BY <1>2, <1>3 DEF ProfileRoutes, AccountRoutes

LEMMA RefreshCheckInv ==
  ASSUME Inv, NEW r \in Requests, NEW t \in issued, RefreshCheck(r, t)
  PROVE  Inv'
<1> DEFINE spent == t \in revoked \/ ~account[t.sub].active
           q == [Idle EXCEPT !.pc = "user", !.token = t, !.late = spent]
<1>1. t \in Token /\ t.iat \in Nat /\ now \in Nat /\ RefreshTTL \in Nat /\ listed[t] \in Nat
  <2>1. t \in Token /\ now \in Nat
    BY DEF Inv, Tables
  <2>2. t.iat \in Nat
    BY <2>1 DEF Token
  <2>3. listed[t] \in Nat
    BY <2>1 DEF Inv, Tables
  <2> QED  BY <2>1, <2>2, <2>3, AccountsAssumption
<1>2. t \in revoked => now >= t.iat + RefreshTTL
  BY <1>1 DEF RefreshCheck, Blacklisted, Inv, Outlived
<1>3. q \in Request /\ Fits(q, account, issued, now)
  <2>1. spent \in BOOLEAN /\ (spent => now >= t.iat + RefreshTTL \/ ~account[t.sub].active)
    BY <1>2
  <2> HIDE DEF spent
  <2> QED  BY <1>1, <2>1 DEF Idle, Request, Fits
<1>4. Set(r, q) /\ UNCHANGED <<now, tables, revoked, answered>>
  BY DEF RefreshCheck
<1> HIDE DEF q
<1> QED  BY <1>3, <1>4, LocalStep

LEMMA BeginInv ==
  ASSUME Inv, NEW r \in Requests, Begin(r)
  PROVE  Inv'
  BY LoginInv, PasswordInv, AccountInv, RefreshCheckInv DEF Begin

-----------------------------------------------------------------------------
(* The further statements.                                                 *)

\* An account that is written: the address is nobody else's.
LEMMA AccountWrite ==
  ASSUME Inv, NEW r \in Requests, NEW q \in Request, Set(r, q),
         NEW u \in Users, NEW a \in Account, account' = [account EXCEPT ![u] = a],
         a.email # None, ~TakenByOther(u, a.email),
         account[u].email # None => (a.active => account[u].active),
         Fits(q, account', issued, now),
         UNCHANGED <<now, issued, listed, link, revoked, answered>>
  PROVE  Inv'
<1>1. account' \in [Users -> Account]
  BY DEF Inv, Tables
<1>2. /\ account'[u] = a
      /\ \A v \in Users \ {u} : account'[v] = account[v]
  BY DEF Inv, Tables
<1>3. Grown(account, account', issued, issued', now, now') /\ now' \in Nat
  BY <1>2 DEF Grown, Inv, Tables
<1>4. AllFit'
  BY <1>3, StepFits DEF Set
<1>5. Signed'
  <2>1. \A t \in issued : t.sub \in Users
    BY DEF Inv, Tables, Token
  <2> QED  BY <1>3, <2>1 DEF Grown, Inv, Signed, Exists
<1>6. EmailsUnique'
  BY <1>2 DEF Inv, EmailsUnique, Exists, TakenByOther
<1> QED  BY <1>1, <1>4, <1>5, <1>6 DEF Inv, Tables, Outlived, Gone

LEMMA UserCreateInv ==
  ASSUME Inv, NEW r \in Requests, UserCreate(r)
  PROVE  Inv'
<1>1. CASE Taken(req[r].email)
  BY <1>1, IdleFits, LocalStep DEF UserCreate, tables
<1>2. CASE ~Taken(req[r].email)
  <2>1. PICK u \in Users :
          /\ ~Exists(u)
          /\ account' = [account EXCEPT ![u] =
               [email |-> req[r].email, known |-> req[r].password, active |-> TRUE]]
          /\ Set(r, IF req[r].pc = "adopt"
                    THEN [Idle EXCEPT !.pc = "sign", !.user = u] ELSE Idle)
    BY <1>2 DEF UserCreate
  <2> DEFINE e == req[r].email
             a == [email |-> e, known |-> req[r].password, active |-> TRUE]
             q == IF req[r].pc = "adopt" THEN [Idle EXCEPT !.pc = "sign", !.user = u]
                  ELSE Idle
  <2>2. e \in Emails /\ req[r].password \in BOOLEAN
    BY DEF UserCreate, Inv, AllFit, Fits, Request
  <2>3. a \in Account /\ a.email # None
    BY <2>2, AccountsAssumption DEF Account
  <2>4. ~TakenByOther(u, a.email)
    BY <1>2 DEF Taken, TakenByOther
  <2>5. account[u].email = None
    BY <2>1 DEF Exists
  <2>6. account'[u].email # None
    BY <2>1, <2>3 DEF Inv, Tables
  <2>7. q \in Request /\ Fits(q, account', issued, now)
    BY <2>6, IdleFits DEF Idle, Request, Fits
  <2>8. Set(r, q) /\ account' = [account EXCEPT ![u] = a]
        /\ UNCHANGED <<now, issued, listed, link, revoked, answered>>
    BY <2>1 DEF UserCreate
  <2> HIDE DEF q, a
  <2> QED  BY <2>3, <2>4, <2>5, <2>7, <2>8, AccountWrite
<1> QED  BY <1>1, <1>2

LEMMA UserUpdateInv ==
  ASSUME Inv, NEW r \in Requests, UserUpdate(r)
  PROVE  Inv'
<1> DEFINE u == req[r].user
           old == account[u]
           e == IF req[r].email = None THEN old.email ELSE req[r].email
           a == [email |-> e, known |-> old.known \/ req[r].password, active |-> old.active]
<1>1. u \in Users /\ old.email # None /\ req[r] \in Request
  BY DEF UserUpdate, Inv, AllFit, Fits
<1>2. old \in Account
  BY <1>1 DEF Inv, Tables
<1>3. e \in Emails \cup {None} /\ e # None
  BY <1>1, <1>2 DEF Request, Account
<1>4. CASE TakenByOther(u, e)
  BY <1>4, IdleFits, LocalStep DEF UserUpdate, tables
<1>5. CASE ~TakenByOther(u, e)
  <2>1. account' = [account EXCEPT ![u] = a] /\ Set(r, Idle)
        /\ UNCHANGED <<now, issued, listed, link, revoked, answered>>
    BY <1>5 DEF UserUpdate
  <2>2. a \in Account
    <3> DEFINE k == old.known \/ req[r].password
    <3>1. k \in BOOLEAN /\ old.active \in BOOLEAN
      BY <1>2 DEF Account
    <3> HIDE DEF k, e, old
    <3> QED  BY <1>3, <3>1 DEF Account, k
  <2>3. a.email = e /\ a.active = old.active
    OBVIOUS
  <2>4. a.email # None /\ ~TakenByOther(u, a.email) /\ (a.active => account[u].active)
    BY <1>3, <1>5, <2>3
  <2> HIDE DEF a, e, u, old
  <2>5. u \in Users
    BY <1>1
  <2> QED  BY <2>1, <2>2, <2>4, <2>5, IdleFits, AccountWrite
<1> QED  BY <1>4, <1>5

LEMMA SignInv ==
  ASSUME Inv, NEW r \in Requests, SignTokens(r)
  PROVE  Inv'
<1> DEFINE t == [sub |-> req[r].user, iat |-> now]
<1>1. req[r].user \in Users /\ account[req[r].user].email # None
  BY DEF SignTokens, Inv, AllFit, Fits
<1>2. t \in Token
  BY <1>1 DEF Token, Inv, Tables
<1>3. issued' = issued \cup {t} /\ Set(r, Idle)
      /\ UNCHANGED <<now, account, listed, link, revoked, answered>>
  BY DEF SignTokens
<1>4. t.sub = req[r].user /\ t.iat = now
  OBVIOUS
<1> HIDE DEF t
<1>5. Grown(account, account', issued, issued', now, now') /\ now' \in Nat
  BY <1>3 DEF Grown, Inv, Tables
<1>6. AllFit'
  BY <1>3, <1>5, IdleFits, StepFits DEF Set
<1>7. Signed'
  BY <1>1, <1>3, <1>4 DEF Inv, Tables, Signed, Exists
<1> QED  BY <1>2, <1>3, <1>6, <1>7 DEF Inv, Tables, Outlived, Gone, EmailsUnique, Exists

LEMMA BlacklistLasts ==
  ASSUME Inv, NEW t \in issued, Blacklist(t), UNCHANGED now
  PROVE  revoked' \subseteq Token /\ listed' \in [Token -> Nat] /\ Outlived'
<1>1. t \in Token /\ t.iat <= now /\ t.iat \in Nat /\ now \in Nat
  BY DEF Inv, Tables, Signed, Token
<1>2. RefreshTTL \in Nat
  BY AccountsAssumption
<1>3. listed' \in [Token -> Nat] /\ listed'[t] = now + RefreshTTL
      /\ \A s \in Token \ {t} : listed'[s] = listed[s]
  BY <1>1, <1>2 DEF Blacklist, Inv, Tables
<1>4. revoked' \subseteq Token
  BY <1>1 DEF Blacklist, Inv, Tables
<1>5. ASSUME NEW s \in revoked'
      PROVE  listed'[s] >= s.iat + RefreshTTL
  <2>1. CASE s = t
    BY <1>1, <1>2, <1>3, <2>1
  <2>2. CASE s # t
    BY <1>3, <1>4, <2>2 DEF Blacklist, Inv, Outlived
  <2> QED  BY <2>1, <2>2
<1> QED  BY <1>3, <1>4, <1>5 DEF Outlived

LEMMA RefreshInv ==
  ASSUME Inv, NEW r \in Requests, RefreshUser(r) \/ RefreshRevoke(r)
  PROVE  Inv'
<1> DEFINE t == req[r].token
<1>1. t \in issued /\ t \in Token /\ t.sub \in Users /\ account[t.sub].email # None
      /\ req[r] \in Request
  BY DEF RefreshUser, RefreshRevoke, Inv, Tables, AllFit, Fits, Signed, Exists, Token
<1>2. CASE RefreshUser(r)
  <2>1. CASE Expired(t) \/ ~account[t.sub].active
    BY <1>2, <2>1, IdleFits, LocalStep DEF RefreshUser
  <2>2. CASE ~(Expired(t) \/ ~account[t.sub].active)
    <3> DEFINE old == req[r]
               q == [old EXCEPT !.pc = "revoke", !.user = t.sub]
    <3>1. ~old.late
      BY <1>2, <2>2 DEF RefreshUser, Inv, AllFit, Fits, Expired
    <3>2. q \in Request /\ q.pc = "revoke" /\ q.user = t.sub /\ q.token = t /\ ~q.late
      <4>1. old \in Request /\ old.token = t
        BY <1>1
      <4> HIDE DEF old, t
      <4> QED  BY <1>1, <3>1, <4>1 DEF Request
    <3>3. Set(r, q) /\ UNCHANGED <<now, tables, revoked, answered>>
      BY <1>2, <2>2 DEF RefreshUser
    <3> HIDE DEF q
    <3>4. Fits(q, account, issued, now)
      BY <1>1, <3>2 DEF Fits
    <3> QED  BY <3>2, <3>3, <3>4, LocalStep
  <2> QED  BY <2>1, <2>2
<1>3. CASE RefreshRevoke(r)
  <2> DEFINE u == req[r].user
             late == req[r].late
             q == [Idle EXCEPT !.pc = "sign", !.user = u, !.late = late]
  <2>1. u \in Users /\ account[u].email # None /\ late \in BOOLEAN /\ ~late
    BY <1>1, <1>3 DEF RefreshRevoke, Inv, AllFit, Fits, Request
  <2>2. Set(r, q) /\ Blacklist(t) /\ UNCHANGED <<now, account, issued, link, answered>>
    BY <1>3 DEF RefreshRevoke
  <2>3. q \in Request /\ Fits(q, account', issued', now')
    <3>1. account' = account
      BY <2>2
    <3> HIDE DEF u, late
    <3> QED  BY <2>1, <3>1 DEF Idle, Request, Fits
  <2> HIDE DEF q
  <2>4. Grown(account, account', issued, issued', now, now') /\ now' \in Nat
    BY <2>2 DEF Grown, Inv, Tables
  <2>5. AllFit'
    BY <2>2, <2>3, <2>4, StepFits DEF Set
  <2>6. revoked' \subseteq Token /\ listed' \in [Token -> Nat] /\ Outlived'
    BY <1>1, <2>2, BlacklistLasts
  <2> QED  BY <2>2, <2>5, <2>6 DEF Inv, Tables, Signed, Gone, EmailsUnique, Exists
<1> QED  BY <1>2, <1>3

LEMMA LinkInv ==
  ASSUME Inv, NEW r \in Requests,
         ResetWrite(r) \/ ResetDelete(r) \/ \E k \in ResetKeys : ForgotStore(r, k)
  PROVE  Inv'
<1>1. CASE ResetWrite(r)
  <2> DEFINE u == req[r].user
             old == account[u]
             a == [old EXCEPT !.known = TRUE]
             k == req[r].key
             late == req[r].late
             q == [Idle EXCEPT !.pc = "delete", !.key = k, !.late = late]
  <2>1. u \in Users /\ k \in ResetKeys /\ late \in BOOLEAN /\ ~late /\ old \in Account
    BY <1>1 DEF ResetWrite, Inv, Tables, AllFit, Fits, Request
  <2>2. a \in Account /\ a.email = old.email /\ a.active = old.active
    <3> HIDE DEF old
    <3> QED  BY <2>1 DEF Account
  <2>3. account' = [account EXCEPT ![u] = a] /\ Set(r, q)
        /\ UNCHANGED <<now, issued, listed, link, revoked, answered>>
    BY <1>1 DEF ResetWrite
  <2>4. \A acc : q \in Request /\ Fits(q, acc, issued, now)
    <3> HIDE DEF k, late
    <3> QED  BY <2>1 DEF Idle, Request, Fits
  <2>5. old = account[u]
    OBVIOUS
  <2> HIDE DEF q, a, u, old
  <2>6. account' \in [Users -> Account]
        /\ \A v \in Users : /\ account'[v].email = account[v].email
                            /\ account'[v].active = account[v].active
    BY <2>1, <2>2, <2>3, <2>5 DEF Inv, Tables
  <2>7. Grown(account, account', issued, issued', now, now') /\ now' \in Nat
    BY <2>3, <2>6 DEF Grown, Inv, Tables
  <2>8. AllFit'
    BY <2>3, <2>4, <2>7, StepFits DEF Set
  <2>9. Signed' /\ EmailsUnique'
    BY <2>3, <2>6 DEF Inv, Tables, Signed, EmailsUnique, Exists, Token
  <2> QED  BY <2>3, <2>6, <2>8, <2>9 DEF Inv, Tables, Outlived, Gone
<1>2. CASE ResetDelete(r)
  <2> DEFINE k == req[r].key
             gone == [NoLink EXCEPT !.deleted = TRUE]
  <2>1. k \in ResetKeys
    BY <1>2 DEF ResetDelete, Inv, AllFit, Fits
  <2>2. gone \in Link /\ gone.user = None /\ gone.deleted
    BY DEF NoLink, Link
  <2>3. link' = [link EXCEPT ![k] = gone] /\ answered' = answered \cup {k} /\ Set(r, Idle)
        /\ UNCHANGED <<now, account, issued, listed, revoked>>
    BY <1>2 DEF ResetDelete
  <2> HIDE DEF gone, k
  <2>4. link' \in [ResetKeys -> Link] /\ answered' \subseteq ResetKeys /\ Gone'
    BY <2>1, <2>2, <2>3 DEF Inv, Tables, Gone
  <2>5. Grown(account, account', issued, issued', now, now') /\ now' \in Nat
    BY <2>3 DEF Grown, Inv, Tables
  <2>6. AllFit'
    BY <2>3, <2>5, IdleFits, StepFits DEF Set
  <2> QED  BY <2>3, <2>4, <2>6 DEF Inv, Tables, Signed, Outlived, EmailsUnique, Exists
<1>3. ASSUME NEW k \in ResetKeys, ForgotStore(r, k)
      PROVE  Inv'
  <2> DEFINE u == req[r].user
             new == [user |-> u, until |-> now + ResetTTL, deleted |-> FALSE]
  <2>1. u \in Users
    BY <1>3 DEF ForgotStore, Inv, AllFit, Fits
  <2>2. new \in Link
    BY <2>1, AccountsAssumption DEF Link, Inv, Tables
  <2>3. k \notin answered
    BY <1>3 DEF ForgotStore, NoLink, Inv, Gone
  <2>4. link' = [link EXCEPT ![k] = new] /\ Set(r, Idle)
        /\ UNCHANGED <<now, account, issued, listed, revoked, answered>>
    BY <1>3 DEF ForgotStore
  <2> HIDE DEF new, u
  <2>5. link' \in [ResetKeys -> Link] /\ Gone'
    BY <2>2, <2>3, <2>4 DEF Inv, Tables, Gone
  <2>6. Grown(account, account', issued, issued', now, now') /\ now' \in Nat
    BY <2>4 DEF Grown, Inv, Tables
  <2>7. AllFit'
    BY <2>4, <2>6, IdleFits, StepFits DEF Set
  <2> QED  BY <2>4, <2>5, <2>7 DEF Inv, Tables, Signed, Outlived, EmailsUnique, Exists
<1> QED  BY <1>1, <1>2, <1>3

LEMMA EmailCheckInv ==
  ASSUME Inv, NEW r \in Requests, UpdateAccountEmail(r)
  PROVE  Inv'
<1> DEFINE old == req[r]
           q == [old EXCEPT !.pc = "write"]
<1>1. old \in Request /\ old.user \in Users /\ account[old.user].email # None
  BY DEF UpdateAccountEmail, Inv, AllFit, Fits
<1>2. q \in Request /\ q.pc = "write" /\ q.user = old.user
  <2> HIDE DEF old
  <2> QED  BY <1>1 DEF Request
<1>3. Set(r, Idle) \/ Set(r, q)
  BY DEF UpdateAccountEmail
<1>4. UNCHANGED <<now, tables, revoked, answered>>
  BY DEF UpdateAccountEmail
<1> HIDE DEF q
<1>5. Fits(q, account, issued, now)
  BY <1>1, <1>2 DEF Fits
<1> QED  BY <1>2, <1>3, <1>4, <1>5, IdleFits, LocalStep

LEMMA ContinueInv ==
  ASSUME Inv, NEW r \in Requests, Continue(r)
  PROVE  Inv'
  BY UserCreateInv, SignInv, RefreshInv, LinkInv, EmailCheckInv, UserUpdateInv DEF Continue

-----------------------------------------------------------------------------
(* Steps of nobody's request.                                              *)

LEMMA OtherInv ==
  ASSUME Inv, (\E t \in issued : Logout(t)) \/ (\E u \in Users : Deactivate(u)) \/ Tick
  PROVE  Inv'
<1>1. ASSUME NEW t \in issued, Logout(t)
      PROVE  Inv'
  <2>1. Blacklist(t) /\ UNCHANGED <<now, account, issued, link, req, answered>>
    BY <1>1 DEF Logout
  <2>2. revoked' \subseteq Token /\ listed' \in [Token -> Nat] /\ Outlived'
    BY <2>1, BlacklistLasts
  <2> QED  BY <2>1, <2>2 DEF Inv, Tables, Signed, Gone, EmailsUnique, Exists, AllFit
<1>2. ASSUME NEW u \in Users, Deactivate(u)
      PROVE  Inv'
  <2> DEFINE old == account[u]
             a == [old EXCEPT !.active = FALSE]
  <2>1. old \in Account
    BY DEF Inv, Tables
  <2>2. a \in Account /\ a.email = old.email /\ ~a.active
    <3> HIDE DEF old
    <3> QED  BY <2>1 DEF Account
  <2>3. account' = [account EXCEPT ![u] = a]
        /\ UNCHANGED <<now, issued, listed, link, req, revoked, answered>>
    BY <1>2 DEF Deactivate
  <2>4. old = account[u]
    OBVIOUS
  <2> HIDE DEF a, old
  <2>5. account' \in [Users -> Account]
        /\ \A v \in Users : /\ account'[v].email = account[v].email
                            /\ account'[v].active => account[v].active
    BY <2>2, <2>3, <2>4 DEF Inv, Tables
  <2>6. Grown(account, account', issued, issued', now, now') /\ now' \in Nat
    BY <2>3, <2>5 DEF Grown, Inv, Tables
  <2>7. \A x \in Requests : Fits(req[x], account', issued', now')
    BY <2>6, FitsGrown DEF Inv, AllFit
  <2>8. Signed' /\ EmailsUnique'
    BY <2>3, <2>5 DEF Inv, Tables, Signed, EmailsUnique, Exists, Token
  <2> QED  BY <2>3, <2>5, <2>7, <2>8 DEF Inv, Tables, Outlived, Gone, AllFit
<1>3. CASE Tick
  <2>1. now' \in 0..MaxTime /\ now <= now' /\ now \in Nat /\ now' \in Nat
    BY <1>3, AccountsAssumption DEF Tick, Inv, Tables
  <2>2. UNCHANGED <<account, issued, listed, link, req, revoked, answered>>
    BY <1>3 DEF Tick, tables
  <2>3. Grown(account, account', issued, issued', now, now')
    BY <2>1, <2>2 DEF Grown
  <2>4. \A x \in Requests : Fits(req[x], account', issued', now')
    BY <2>1, <2>3, FitsGrown DEF Inv, AllFit
  <2>5. Signed'
    <3>1. \A t \in issued : t.iat \in Nat
      BY DEF Inv, Tables, Token
    <3> QED  BY <2>1, <2>2, <3>1 DEF Inv, Signed, Exists
  <2> QED  BY <2>1, <2>2, <2>4, <2>5 DEF Inv, Tables, Outlived, Gone, EmailsUnique, Exists, AllFit
<1> QED  BY <1>1, <1>2, <1>3

LEMMA NextInv ==
  ASSUME Inv, [Next]_vars
  PROVE  Inv'
<1>1. ASSUME NEW r \in Requests, Die(r)
      PROVE  Inv'
  BY <1>1, IdleFits, LocalStep DEF Die
<1>2. CASE UNCHANGED vars
  BY <1>2 DEF vars, tables, Inv, Tables, Signed, Outlived, Gone, EmailsUnique, Exists, AllFit
<1> QED  BY <1>1, <1>2, BeginInv, ContinueInv, OtherInv DEF Next

\* Every reachable state satisfies the inductive invariant, which the theorems
\* below read off.
THEOREM Invariant == Spec => []Inv
<1>1. Init => Inv
  BY InitInv
<1>2. Inv /\ [Next]_vars => Inv'
  BY NextInv
<1> QED  BY <1>1, <1>2, PTL DEF Spec

-----------------------------------------------------------------------------
(* What follows.                                                           *)

\* Accounts, tokens, links and requests are well typed
\* (auth.service.ts, admin-account.service.ts).
THEOREM AccountsTyped == Spec => []AccountsTypeOK
<1>1. Inv => AccountsTypeOK
  BY DEF Inv, Tables, AllFit, AccountsTypeOK
<1> QED  BY <1>1, Invariant, PTL

\* For any number of requests and any lifetimes, no refresh that began after
\* its token was rotated or logged out, or its account deactivated, gets
\* tokens (auth.service.ts:291-349).
THEOREM RevokedTokensGetNothing == Spec => []RevokedGetsNothing
<1>1. Inv => RevokedGetsNothing
  BY DEF Inv, AllFit, Fits, RevokedGetsNothing
<1> QED  BY <1>1, Invariant, PTL

\* A link that has set a password sets no other one
\* (auth.service.ts:356-431).
THEOREM LinksWorkOnce == Spec => []LinkWorksOnce
<1>1. Inv => LinkWorksOnce
  BY DEF Inv, AllFit, Fits, LinkWorksOnce
<1> QED  BY <1>1, Invariant, PTL

\* No address ever belongs to two accounts, whoever registers or changes it
\* at one time (auth.service.ts:74-106, 240-278, 491-519;
\* admin-account.service.ts:83-107).
THEOREM EmailsStayUnique == Spec => []EmailsUnique
<1>1. Inv => EmailsUnique
  BY DEF Inv
<1> QED  BY <1>1, Invariant, PTL
=============================================================================
