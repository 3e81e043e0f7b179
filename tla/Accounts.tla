-------------------------------- MODULE Accounts --------------------------------
(***************************************************************************)
(* Accounts: registration, verification codes, passwords, the change of    *)
(* e-mail address, marketing consent and deletion, as requests that        *)
(* overlap.                                                                *)
(*                                                                         *)
(* A request reads a row, decides, and commits.  A save writes the whole   *)
(* row as the request read it and changed it, whatever another request     *)
(* committed in between: the repositories merge a row no session holds any *)
(* more.  A change of address writes three tables in one transaction;      *)
(* Stripe is told after it.                                                *)
(***************************************************************************)
EXTENDS Integers, FiniteSets

CONSTANTS
    Users,      \* accounts, once registered
    Addresses,  \* e-mail addresses
    Passwords,
    Requests,   \* requests that can be under way at once
    MaxTries,   \* MAX_VERIFICATION_ATTEMPTS (5)
    MaxCodes,   \* bound: codes to one address that still matter
    Long        \* bound: may a request overlap more than one other?

ASSUME AccountsAssumption == {MaxTries, MaxCodes} \subseteq Nat \ {0}  /\ Long \in BOOLEAN

NoAddress == "no address"
\* A code is known by the address it was sent to and a number.
Codes     == Addresses \X (1..MaxCodes)
NoCode    == <<NoAddress, 0>>
SentTo(c) == c[1]

\* auth_users: the columns a request here reads or writes.
Auth == [email : Addresses, password : Passwords, verified : BOOLEAN, opted_out : BOOLEAN,
         code : Codes \union {NoCode}, tries : 0..MaxTries,
         pending : Addresses \union {NoAddress}]

\* The address in users and in user_subscriptions.
Mail == [email : Addresses]

VARIABLES
    auth,      \* auth_users, by account
    users,     \* users, by account
    subs,      \* user_subscriptions, by account
    stripe,    \* the address Stripe has, by account
    session,   \* accounts whose holder has a token
    req,       \* the requests under way
    expired,   \* the codes past their time
    proven,    \* history: the addresses of an account that a code proved
    refused,   \* history: accounts of which Stripe refused the last change, or has an older one
    restored,  \* history: accounts in which a save brought back an address it had read before
    undone     \* history: accounts whose verification a save took back, and the deleted

vars == <<auth, users, subs, stripe, session, req, expired,
          proven, refused, restored, undone>>

Known  == DOMAIN auth
Owner(e) == {u \in Known : auth[u].email = e}
InUse(e) == Owner(e) # {} \/ \E u \in DOMAIN users : users[u].email = e   \* _email_in_use

Put(f, u, x) == [v \in DOMAIN f \union {u} |-> IF v = u THEN x ELSE f[v]]
Drop(f, u)   == [v \in DOMAIN f \ {u} |-> f[v]]
Nobody       == [v \in {} |-> 0]

Init ==
    /\ auth = Nobody  /\ users = Nobody  /\ subs = Nobody  /\ stripe = Nobody
    /\ session = {}  /\ req = Nobody
    /\ expired = {}
    /\ proven = {}  /\ refused = {}  /\ restored = {}  /\ undone = {}

-----------------------------------------------------------------------------
(* The entity.                                                             *)

NewAuth(e, p, c) ==
    [email |-> e, password |-> p, verified |-> FALSE, opted_out |-> FALSE,
     code |-> c, tries |-> 0, pending |-> NoAddress]

ClearCode(a)       == [a EXCEPT !.code = NoCode, !.tries = 0]
SetCode(a, c)      == [a EXCEPT !.code = c, !.tries = 0]
MarkVerified(a)    == [ClearCode(a) EXCEPT !.verified = TRUE]
ChangeCode(a, e, c) == [SetCode(a, c) EXCEPT !.pending = e]
ClearChange(a)     == [ClearCode(a) EXCEPT !.pending = NoAddress]
ApplyChange(a)     == [ClearChange(a) EXCEPT !.email = a.pending]

\* As if a row without a code had one in time.
HasCodeInTime(a) == a.code \notin expired
HasCode(a)  == a.code # NoCode /\ a.code \notin expired
Exceeded(a) == a.tries >= MaxTries

\* What entering a code does to the row: cleared when the tries are used up, before
\* or after this one, and accepted for the code on record.
Enter(a, c, cleared, accepted) ==
    LET tried == [a EXCEPT !.tries = @ + 1]
    IN  IF Exceeded(a) THEN cleared
        ELSE IF c = a.code THEN accepted
        ELSE IF Exceeded(tried) THEN cleared ELSE tried

-----------------------------------------------------------------------------
(* Requests.  The row one read, the rows it will save, by their tables, and *)
(* the code it was given.                                                  *)

Running(u) == {q \in DOMAIN req : req[q].user = u}

Start(q, kind, u, seen, write, entered) ==
    /\ q \notin DOMAIN req
    /\ Long \/ \A r \in DOMAIN req : ~req[r].met
    /\ req' = Put([r \in DOMAIN req |-> [req[r] EXCEPT !.met = req[r].kind # "sync"]], q,
                  [kind |-> kind, user |-> u, seen |-> seen, write |-> write,
                   entered |-> entered, met |-> DOMAIN req # {}])

\* The codes a row or a request holds, and those that can be issued.
CodesOf(r) == IF "auth" \in DOMAIN r.write THEN {r.seen.code, r.write.auth.code} ELSE {}
Held == {auth[u].code : u \in Known} \union UNION {CodesOf(req[q]) : q \in DOMAIN req}
Fresh(e) == LET free == {c \in Codes \ Held : SentTo(c) = e}
            IN  {c \in free : \A d \in free : c[2] <= d[2]}

Stored == <<auth, users, subs, stripe, proven, refused, restored, undone>>

\* Rate limits: the key of an account or of an address outlives the request that set
\* it, and goes by itself: at any time after the request, it may be there or gone.
Holds(key, r) == \/ req[r].kind = "request" /\ req[r].user = key
                 \/ req[r].kind = "resend" /\ req[r].seen.email = key
Acquire(key)  == \A r \in DOMAIN req : ~Holds(key, r)

\* A request on the row to sign in with.
OnAuth(q, kind, u, want, entered) ==
    /\ Start(q, kind, u, auth[u], [auth |-> want], entered)
    /\ UNCHANGED <<Stored, session>>

\* The id of an account is new.
Register(q) == \E u \in Users \ (Known \union DOMAIN users), e \in Addresses, p \in Passwords :
    /\ Owner(e) = {}  /\ Running(u) = {}
    /\ \E c \in Fresh(e) :
          LET a == NewAuth(e, p, c)
              m == [email |-> e]
          IN  /\ Start(q, "register", u, a, [auth |-> a, users |-> m, subs |-> m], NoCode)
              /\ expired' = expired \ {c}
    /\ UNCHANGED <<Stored, session>>

Login(q) == \E u \in Known :
    /\ auth[u].verified
    /\ OnAuth(q, "login", u, auth[u], NoCode)
    /\ UNCHANGED expired

\* By the token of a reset e-mail, or by the old password.
NewPassword(q, u) ==
    /\ \E p \in Passwords : OnAuth(q, "password", u, [auth[u] EXCEPT !.password = p], NoCode)
    /\ UNCHANGED expired
ResetPassword(q)  == \E u \in Known : NewPassword(q, u)
ChangePassword(q) == \E u \in Known \intersect session : NewPassword(q, u)

VerifyCode(q) == \E u \in Known : \E c \in {auth[u].code, NoCode} :
    /\ ~auth[u].verified  /\ HasCode(auth[u])
    /\ OnAuth(q, "verify", u, Enter(auth[u], c, ClearCode(auth[u]), MarkVerified(auth[u])), c)
    /\ UNCHANGED expired

Resend(q) == \E u \in Known :
    /\ Acquire(auth[u].email)  /\ ~auth[u].verified
    /\ \E c \in Fresh(auth[u].email) :
          /\ OnAuth(q, "resend", u, SetCode(auth[u], c), NoCode)
          /\ expired' = expired \ {c}

RequestEmailChange(q) == \E u \in Known \intersect session, e \in Addresses :
    /\ Acquire(u)
    /\ e # auth[u].email  /\ ~InUse(e)
    /\ \E c \in Fresh(e) :
          /\ OnAuth(q, "request", u, ChangeCode(auth[u], e, c), NoCode)
          /\ expired' = expired \ {c}

\* As if the profile were forgotten.
ForgetsProfile(u, a) ==
    [t \in {"auth"} \union (IF u \in DOMAIN subs THEN {"subs"} ELSE {}) |->
        IF t = "auth" THEN a ELSE [email |-> a.email]]
\* The code that was accepted writes the address to every table that has the account.
Everywhere(u, a) ==
    [t \in {"auth", "users"} \union (IF u \in DOMAIN subs THEN {"subs"} ELSE {}) |->
        IF t = "auth" THEN a ELSE [email |-> a.email]]
ConfirmEmailChange(q) == \E u \in Known \intersect session : \E c \in {auth[u].code, NoCode} :
    /\ auth[u].pending # NoAddress  /\ HasCode(auth[u])
    /\ LET want == Enter(auth[u], c, ClearChange(auth[u]), ApplyChange(auth[u]))
       IN  IF want.email = auth[u].email THEN OnAuth(q, "confirm", u, want, c)
           ELSE /\ ~InUse(want.email)
                /\ Start(q, "confirm", u, auth[u], Everywhere(u, want), c)
                /\ UNCHANGED <<Stored, session>>
    /\ UNCHANGED expired

Unsubscribe(q) == \E u \in Known :
    /\ OnAuth(q, "unsubscribe", u, [auth[u] EXCEPT !.opted_out = TRUE], NoCode)
    /\ UNCHANGED expired

\* A résumé is uploaded between the read of the user and the save; a webhook of
\* Stripe saves the subscription. Both keep the address they read.
UploadResume(q) == \E u \in DOMAIN users :
    /\ Start(q, "resume", u, users[u], [users |-> users[u]], NoCode)
    /\ UNCHANGED <<Stored, session, expired>>
SaveSubscription(q) == \E u \in DOMAIN subs :
    /\ Start(q, "subscription", u, subs[u], [subs |-> subs[u]], NoCode)
    /\ UNCHANGED <<Stored, session, expired>>

-----------------------------------------------------------------------------
(* Commits.                                                                *)

\* As if the entity were read without the consent.
ForgetsConsent(t, name, r) ==
    IF name = "auth" /\ name \in DOMAIN r.write
      THEN Put(t, r.user, [r.write.auth EXCEPT !.opted_out = r.kind = "unsubscribe"])
    ELSE IF name \in DOMAIN r.write THEN Put(t, r.user, r.write[name]) ELSE t
\* session.merge: the whole row, inserted when it is gone.
Merge(t, name, r) == IF name \in DOMAIN r.write THEN Put(t, r.user, r.write[name]) ELSE t

\* The unique addresses of auth_users and users, and the keys that refer to users.
Constrained ==
    /\ \A t \in {auth', users'} : \A u, v \in DOMAIN t : t[u].email = t[v].email => u = v
    /\ DOMAIN auth' \subseteq DOMAIN users'  /\ DOMAIN subs' \subseteq DOMAIN users'

\* Codes nothing holds any more need no date.
Forget    == expired' = expired \intersect Held'
Finish(q) == req' = Drop(req, q)  /\ Forget

CommitRegister(q) == LET r == req[q]  u == r.user IN
    /\ r.kind = "register"
    /\ auth' = Merge(auth, "auth", r)  /\ users' = Merge(users, "users", r)
    /\ subs' = Merge(subs, "subs", r)  /\ stripe' = Put(stripe, u, r.write.subs)
    /\ Constrained
    /\ session' = session \ {u}  /\ refused' = refused \ {u}
    /\ restored' = restored \ {u}  /\ undone' = undone \ {u}
    /\ proven' = {x \in proven : x[1] # u}
    /\ Finish(q)

Accepted(r)  == r.entered # NoCode /\ r.entered = r.seen.code /\ ~Exceeded(r.seen)
Moves(r)     == r.kind = "confirm" /\ r.write.auth.email # r.seen.email
\* The save keeps the address it read, and the row has another one or is gone.
BringsBack(t, name, r) ==
    /\ name \in DOMAIN r.write
    /\ r.user \in DOMAIN t => t[r.user].email # r.seen.email
TakesBack(r) ==
    /\ "auth" \in DOMAIN r.write
    /\ r.user \in Known => auth[r.user].verified /\ ~r.write.auth.verified

\* A change of address finds the user's row, or fails, and mends what was brought
\* back; without a subscription it mends all but that.
CommitOther(q) == LET r == req[q]  u == r.user IN
    /\ r.kind \notin {"register", "sync"}
    /\ Moves(r) => u \in DOMAIN users
    /\ auth' = Merge(auth, "auth", r)  /\ users' = Merge(users, "users", r)
    /\ subs' = Merge(subs, "subs", r)
    /\ Constrained
    /\ restored' = IF Moves(r) /\ "subs" \in DOMAIN r.write THEN restored \ {u}
                   ELSE IF \/ Moves(r)
                           \/ BringsBack(auth, "auth", r) \/ BringsBack(users, "users", r)
                           \/ BringsBack(subs, "subs", r)
                   THEN restored \union {u} ELSE restored
    /\ undone' = IF TakesBack(r) THEN undone \union {u} ELSE undone
    /\ proven' = IF Accepted(r) THEN proven \union {<<u, SentTo(r.entered)>>} ELSE proven
    /\ session' = IF r.kind = "login" \/ (r.kind = "verify" /\ r.write.auth.verified)
                  THEN session \union {u} ELSE session
    /\ IF Moves(r)
       THEN req' = [req EXCEPT ![q] = [@ EXCEPT !.kind = "sync", !.met = FALSE,
                                       !.write = [stripe |-> [email |-> r.write.auth.email]]]] /\ Forget
       ELSE Finish(q)
    /\ UNCHANGED <<stripe, refused>>

\* update_customer_email, after the commit: a failure is logged, a process that
\* stops before it says nothing. Syncs may come in another order than their commits.
SyncStripe(q) == LET u == req[q].user
                     told == req[q].write.stripe
                 IN
    /\ req[q].kind = "sync"
    /\ \/ /\ stripe' = Put(stripe, u, told)
          /\ refused' = IF u \in Known /\ auth[u].email # told.email
                        THEN refused \union {u} ELSE refused \ {u}
       \/ stripe' = stripe  /\ refused' = refused \union {u}
    /\ UNCHANGED <<auth, users, subs, session, proven, restored, undone>>
    /\ Finish(q)

\* A constraint, a row that is gone, or the connection.
Rollback(q) ==
    /\ req[q].kind # "sync"
    /\ UNCHANGED <<Stored, session>>
    /\ Finish(q)

Logout == \E u \in session :
    /\ session' = session \ {u}
    /\ UNCHANGED <<Stored, req, expired>>

\* The user's row goes, and the others with it; the token stays good. What was known of
\* the account ends, and a save that brings it back does so unproved.
DeleteUser == \E u \in DOMAIN users \intersect session :
    /\ auth' = Drop(auth, u)  /\ users' = Drop(users, u)  /\ subs' = Drop(subs, u)
    /\ proven' = {x \in proven : x[1] # u}  /\ undone' = undone \union {u}
    /\ refused' = refused \ {u}  /\ restored' = restored \ {u}
    /\ UNCHANGED <<stripe, session, req>>
    /\ Forget

Expire == \E c \in Held \ (expired \union {NoCode}) :
    /\ expired' = expired \union {c}
    /\ UNCHANGED <<Stored, session, req>>

Next ==
    \/ \E q \in Requests :
          \/ Register(q) \/ Login(q) \/ ResetPassword(q) \/ ChangePassword(q)
          \/ VerifyCode(q) \/ Resend(q)
          \/ RequestEmailChange(q) \/ ConfirmEmailChange(q) \/ Unsubscribe(q)
          \/ UploadResume(q) \/ SaveSubscription(q)
    \/ \E q \in DOMAIN req :
          CommitRegister(q) \/ CommitOther(q) \/ SyncStripe(q) \/ Rollback(q)
    \/ Logout \/ DeleteUser \/ Expire

Spec == Init /\ [][Next]_vars

-----------------------------------------------------------------------------
(* Properties.                                                             *)

TypeOK ==
    /\ Known \subseteq DOMAIN users  /\ DOMAIN users \subseteq Users
    /\ DOMAIN subs \subseteq DOMAIN users  /\ DOMAIN users \subseteq DOMAIN stripe
    /\ \A u \in Known : auth[u] \in Auth
    /\ \A t \in {users, subs, stripe} : \A u \in DOMAIN t : t[u] \in Mail
    /\ session \subseteq Users  /\ DOMAIN req \subseteq Requests

\* "users.email, auth_users.email and user_subscriptions.email": the three tables
\* agree on an account's address, and Stripe once it was told and did not refuse,
\* but where a save brought back an address it had read before it was changed. The
\* next change of address mends that.
EmailsAgree ==
    \A u \in Known \ restored :
        /\ u \in DOMAIN subs
        /\ users[u].email = auth[u].email  /\ subs[u].email = auth[u].email
        /\ (\A q \in Running(u) : req[q].kind # "sync") /\ u \notin refused
              => stripe[u].email = auth[u].email

\* A verified account's address is one to which a code was sent that its holder
\* entered, although registrations and address changes share the code's columns, and
\* whatever saves overlap: but for accounts whose verification a save took back, or that
\* a save brought back after they were deleted.
AddressIsProven ==
    \A u \in Known \ undone : auth[u].verified => <<u, auth[u].email>> \in proven

\* The columns each kind of request is for.
Columns(kind) ==
    CASE kind = "password"    -> {"password"}
      [] kind = "verify"      -> {"verified", "code", "tries"}
      [] kind = "resend"      -> {"code", "tries"}
      [] kind = "request"     -> {"pending", "code", "tries"}
      [] kind = "confirm"     -> {"email", "pending", "code", "tries"}
      [] kind = "unsubscribe" -> {"opted_out"}
      [] OTHER                -> {}

\* Only a save that read the row before it was changed undoes what another request
\* committed: a column that is not the request's own is carried through the entity
\* and back (auth_repo_db.py:44 "omit this and the next password change re-subscribes
\* someone who unsubscribed").
OnlyStaleSavesUndo ==
    [][\A u \in Known \intersect DOMAIN auth' :
          \A c \in DOMAIN auth[u] : auth'[u][c] # auth[u][c] =>
              \E q \in Running(u) :
                  /\ q \notin DOMAIN req' \/ req'[q].kind # req[q].kind
                  /\ c \in Columns(req[q].kind) \/ req[q].seen # auth[u]]_vars

(* What the text says and overlapping saves do not keep (checked by hand):   *)
(* user_use_cases.py:762 "`user_subscriptions.email` always mirrors them";   *)
(* auth_user.py:117 "the two states are mutually exclusive", of a change of  *)
(* address and the verification of a registration.                           *)
AddressesMirror ==
    \A u \in Known : u \in DOMAIN subs /\ users[u].email = auth[u].email /\ subs[u].email = auth[u].email
StatesExclude == \A u \in Known : auth[u].pending # NoAddress => auth[u].verified
================================================================================
