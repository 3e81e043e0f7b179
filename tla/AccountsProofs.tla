----------------------------- MODULE AccountsProofs -----------------------------
(***************************************************************************)
(* Theorems about Accounts, for any accounts, addresses, codes and number  *)
(* of overlapping requests, whose saves write whole rows: where the three  *)
(* tables and Stripe agree on an address, whose address a code has proved, *)
(* and which saves undo another's.                                         *)
(*                                                                         *)
(* What a request will save follows from what it read and from its kind    *)
(* (Shaped), a registration is alone with its account (RegisterApart), and *)
(* a row to sign in with, stored or about to be, is verified only with a   *)
(* proved address (Proved): these are the inductive invariants.            *)
(*                                                                         *)
(* And, in a second part that shares no state with the first, the theorem  *)
(* about Personas: the device a user is given on a board does not change,  *)
(* for any pool, users and boards, where no two assignments overlap.       *)
(***************************************************************************)
EXTENDS Accounts, Personas, FiniteSetTheorems, WellFoundedInduction, TLAPS

-------------------------------------------------------------------------------
(* Part 1: Accounts. *)

OnAuthKinds == {"login", "password", "verify", "resend", "request", "confirm", "unsubscribe"}
Kinds == OnAuthKinds \union {"register", "resume", "subscription", "sync"}
Tables == {"auth", "users", "subs"}

\* What a request will save, whatever it has read.
OfType(r) ==
    /\ DOMAIN r = {"kind", "user", "seen", "write", "entered", "met"}
    /\ r.kind \in Kinds  /\ r.user \in Users  /\ r.entered \in Codes \union {NoCode}
    /\ "auth" \in DOMAIN r.write => r.seen \in Auth /\ r.write["auth"] \in Auth
    /\ \A t \in DOMAIN r.write \ {"auth"} : r.write[t] \in Mail

RegisterShape(r) ==
    /\ DOMAIN r.write = Tables
    /\ \A t \in Tables : r.write[t].email = r.write["auth"].email
    /\ ~r.write["auth"].verified  /\ r.write["auth"].pending = NoAddress
    /\ r.write["auth"].code # NoCode => SentTo(r.write["auth"].code) = r.write["auth"].email

\* A change of address writes it to every table; all others keep what they have read.
SaveShape(r) ==
    /\ DOMAIN r.write \subseteq Tables  /\ ("auth" \in DOMAIN r.write <=> r.kind \in OnAuthKinds)
    /\ IF Moves(r) THEN /\ {"auth", "users"} \subseteq DOMAIN r.write
                        /\ \A t \in DOMAIN r.write : r.write[t].email = r.write["auth"].email
       ELSE \A t \in DOMAIN r.write : r.write[t].email = r.seen.email
    /\ "auth" \in DOMAIN r.write =>
          \A c \in DOMAIN r.write["auth"] : r.write["auth"][c] # r.seen[c] => c \in Columns(r.kind)
    /\ r.kind = "login" => r.write["auth"].verified

Shaped(r) ==
    /\ OfType(r)
    /\ r.kind = "register" => RegisterShape(r)
    /\ r.kind = "sync" => DOMAIN r.write = {"stripe"}
    /\ r.kind \notin {"register", "sync"} => SaveShape(r)

\* A registration is the only request of its account, which is nowhere yet.
RegisterApart ==
    \A q, r \in DOMAIN req : req[q].kind = "register" =>
        req[q].user \notin DOMAIN users /\ (r # q => req[r].user # req[q].user)

Paying == \A q \in DOMAIN req : req[q].kind # "register" => req[q].user \in DOMAIN stripe

TypeInv ==
    /\ TypeOK  /\ \A q \in DOMAIN req : Shaped(req[q])
    /\ RegisterApart  /\ Paying

\* A row is verified only with a proved address, and until then has no change pending;
\* its code was sent to the address it is for.
RowIn(u, a, P) ==
    /\ a.verified => <<u, a.email>> \in P
    /\ a.verified /\ a.code # NoCode => SentTo(a.code) = a.pending
    /\ ~a.verified => a.pending = NoAddress
    /\ ~a.verified /\ a.code # NoCode => SentTo(a.code) = a.email

\* What the commit of a request proves.
Proves(r) == IF Accepted(r) THEN {<<r.user, SentTo(r.entered)>>} ELSE {}

Proved ==
    /\ \A u \in Known \ undone : RowIn(u, auth[u], proven) /\ (u \in session => auth[u].verified)
    /\ \A q \in DOMAIN req : req[q].kind \in OnAuthKinds /\ req[q].user \notin undone =>
          RowIn(req[q].user, req[q].write["auth"], proven \union Proves(req[q]))

-----------------------------------------------------------------------------
(* Operators.                                                              *)

LEMMA PutIs ==
    ASSUME NEW f, NEW u, NEW x
    PROVE  /\ DOMAIN Put(f, u, x) = DOMAIN f \union {u}  /\ Put(f, u, x)[u] = x
           /\ \A v \in DOMAIN f : v # u => Put(f, u, x)[v] = f[v]
BY DEF Put

LEMMA DropIs ==
    ASSUME NEW f, NEW u
    PROVE  /\ DOMAIN Drop(f, u) = DOMAIN f \ {u}
           /\ \A v \in DOMAIN f \ {u} : Drop(f, u)[v] = f[v]
BY DEF Drop

\* Entering a code clears the row, takes the code on record while a try is left, or
\* leaves one try less.
LEMMA EnterIs ==
    ASSUME NEW a \in Auth, NEW c \in Codes \union {NoCode}, NEW cleared, NEW accepted
    PROVE  \/ Enter(a, c, cleared, accepted) = cleared
           \/ Enter(a, c, cleared, accepted) = accepted /\ c = a.code /\ ~Exceeded(a)
           \/ /\ Enter(a, c, cleared, accepted) = [a EXCEPT !.tries = @ + 1]
              /\ [a EXCEPT !.tries = @ + 1] \in Auth
<1>1. ~Exceeded(a) => [a EXCEPT !.tries = @ + 1] \in Auth
  BY AccountsAssumption DEF Exceeded, Auth
<1> QED
  BY <1>1 DEF Enter

LEMMA NoCodeIs == NoCode \in Codes \union {NoCode} /\ 0 \in 0..MaxTries
BY AccountsAssumption

\* Requests that differ at most in what they have met.
Like(x, y) ==
    /\ DOMAIN x = DOMAIN y
    /\ x.kind = y.kind  /\ x.user = y.user  /\ x.seen = y.seen
    /\ x.write = y.write  /\ x.entered = y.entered

LEMMA LikeIs ==
    ASSUME NEW x, NEW y, Like(x, y)
    PROVE  /\ x.kind = y.kind  /\ x.user = y.user  /\ x.write = y.write
           /\ Proves(x) = Proves(y)
           /\ Shaped(y) => Shaped(x)
<1>1. OfType(y) => OfType(x)
  BY DEF Like, OfType
<1>2. Moves(x) = Moves(y) /\ Accepted(x) = Accepted(y)
  BY DEF Like, Moves, Accepted
<1> QED
  BY <1>1, <1>2 DEF Like, Shaped, RegisterShape, SaveShape, Proves

-----------------------------------------------------------------------------
(* How a request begins.                                                   *)

Asked(kind, u, seen, write, entered) ==
    [kind |-> kind, user |-> u, seen |-> seen, write |-> write, entered |-> entered,
     met |-> DOMAIN req # {}]

\* x joins the requests under way.
Joins(q, x) ==
    /\ q \notin DOMAIN req  /\ DOMAIN req' = DOMAIN req \union {q}  /\ req'[q] = x
    /\ \A r \in DOMAIN req : Like(req'[r], req[r])

LEMMA StartIs ==
    ASSUME TypeInv, NEW q, NEW kind, NEW u, NEW seen, NEW write, NEW entered,
           Start(q, kind, u, seen, write, entered)
    PROVE  Joins(q, Asked(kind, u, seen, write, entered))
<1> DEFINE others == [r \in DOMAIN req |-> [req[r] EXCEPT !.met = req[r].kind # "sync"]]
           x == Asked(kind, u, seen, write, entered)
<1>1. q \notin DOMAIN req /\ req' = Put(others, q, x)
  BY DEF Start, Asked
<1>2. DOMAIN others = DOMAIN req
  OBVIOUS
<1>3. ASSUME NEW r \in DOMAIN req PROVE Like(others[r], req[r])
  <2>1. DOMAIN req[r] = {"kind", "user", "seen", "write", "entered", "met"}
    BY DEF TypeInv, Shaped, OfType
  <2> QED
    BY <2>1 DEF Like
<1> HIDE DEF others, x
<1>4. /\ DOMAIN req' = DOMAIN others \union {q}  /\ req'[q] = x
      /\ \A r \in DOMAIN others : r # q => req'[r] = others[r]
  <2>1. /\ DOMAIN Put(others, q, x) = DOMAIN others \union {q}  /\ Put(others, q, x)[q] = x
        /\ \A v \in DOMAIN others : v # q => Put(others, q, x)[v] = others[v]
    BY DEF Put
  <2> QED
    BY <1>1, <2>1
<1> QED
  BY <1>1, <1>2, <1>3, <1>4 DEF Joins, x

\* What a request is when it begins.
Fresher(x) ==
    /\ Shaped(x)  /\ x.kind # "sync"
    /\ IF x.kind = "register" THEN x.user \notin DOMAIN users /\ Running(x.user) = {}
       ELSE x.user \in DOMAIN users

\* What it will save to the row to sign in with comes from the row it reads.
ReadWell(x) ==
    x.kind \in OnAuthKinds =>
        /\ x.user \in Known
        /\ RowIn(x.user, auth[x.user], proven) /\ (x.user \in session => auth[x.user].verified) =>
              RowIn(x.user, x.write["auth"], proven \union Proves(x))

Begins(q) ==
    /\ UNCHANGED <<Stored, session>>
    /\ \E x : Joins(q, x) /\ Fresher(x) /\ ReadWell(x)

LEMMA KnownTypes ==
    ASSUME TypeInv, NEW u \in Known
    PROVE  /\ u \in Users  /\ u \in DOMAIN users  /\ auth[u] \in Auth
           /\ auth[u].code \in Codes \union {NoCode}  /\ auth[u].email \in Addresses
BY DEF TypeInv, TypeOK, Auth

\* On the row to sign in with: what is left to show is what the kind writes.
LEMMA OnAuthBegins ==
    ASSUME TypeInv, NEW q, NEW kind \in OnAuthKinds, NEW u \in Known, NEW want \in Auth,
           NEW write, NEW entered \in Codes \union {NoCode},
           Start(q, kind, u, auth[u], write, entered),
           UNCHANGED <<Stored, session>>,
           "auth" \in DOMAIN write  /\ DOMAIN write \subseteq Tables  /\ write["auth"] = want,
           \A t \in DOMAIN write \ {"auth"} : write[t] \in Mail,
           \A t \in DOMAIN write : write[t].email = want.email,
           want.email # auth[u].email => kind = "confirm" /\ "users" \in DOMAIN write,
           \A c \in DOMAIN want : want[c] # auth[u][c] => c \in Columns(kind),
           kind = "login" => want.verified,
           RowIn(u, auth[u], proven) /\ (u \in session => auth[u].verified) =>
              RowIn(u, want, proven \union
                IF entered # NoCode /\ entered = auth[u].code /\ ~Exceeded(auth[u])
                THEN {<<u, SentTo(entered)>>} ELSE {})
    PROVE  Begins(q)
<1> DEFINE x == Asked(kind, u, auth[u], write, entered)
<1>1. /\ DOMAIN x = {"kind", "user", "seen", "write", "entered", "met"}
      /\ x.kind = kind  /\ x.user = u  /\ x.seen = auth[u]  /\ x.write = write
      /\ x.entered = entered
  BY DEF Asked
<1>2. Joins(q, x)
  BY StartIs
<1> HIDE DEF x
<1>3. auth[u] \in Auth /\ u \in Users /\ u \in DOMAIN users
  BY KnownTypes
<1>4. OfType(x)
  BY <1>1, <1>3 DEF OfType, Kinds
<1>5. Moves(x) <=> kind = "confirm" /\ want.email # auth[u].email
  BY <1>1 DEF Moves
<1>6. SaveShape(x)
  BY <1>1, <1>5 DEF SaveShape
<1>7. x.kind # "sync" /\ x.kind # "register"
  BY <1>1 DEF OnAuthKinds
<1>8. Fresher(x)
  BY <1>1, <1>3, <1>4, <1>6, <1>7 DEF Fresher, Shaped
<1>9. Proves(x) = IF entered # NoCode /\ entered = auth[u].code /\ ~Exceeded(auth[u])
                  THEN {<<u, SentTo(entered)>>} ELSE {}
  BY <1>1 DEF Proves, Accepted
<1>10. ReadWell(x)
  BY <1>1, <1>9 DEF ReadWell
<1> QED
  BY <1>2, <1>8, <1>10 DEF Begins

\* The same for the row alone.
LEMMA OnRowBegins ==
    ASSUME TypeInv, NEW q, NEW kind \in OnAuthKinds, NEW u \in Known, NEW want \in Auth,
           NEW entered \in Codes \union {NoCode},
           OnAuth(q, kind, u, want, entered),  want.email = auth[u].email,
           \A c \in DOMAIN want : want[c] # auth[u][c] => c \in Columns(kind),
           kind = "login" => want.verified,
           RowIn(u, auth[u], proven) /\ (u \in session => auth[u].verified) =>
              RowIn(u, want, proven \union
                IF entered # NoCode /\ entered = auth[u].code /\ ~Exceeded(auth[u])
                THEN {<<u, SentTo(entered)>>} ELSE {})
    PROVE  Begins(q)
<1> DEFINE write == [auth |-> want]
<1>1. DOMAIN write = {"auth"} /\ write["auth"] = want
  OBVIOUS
<1>2. Start(q, kind, u, auth[u], write, entered) /\ UNCHANGED <<Stored, session>>
  BY DEF OnAuth
<1> HIDE DEF write
<1> QED
  BY <1>1, <1>2, OnAuthBegins DEF Tables

LEMMA PlainBegins ==
    ASSUME TypeInv, NEW q, Login(q) \/ ResetPassword(q) \/ ChangePassword(q) \/ Unsubscribe(q)
    PROVE  Begins(q)
<1>0. {"login", "password", "unsubscribe"} \subseteq OnAuthKinds /\ NoCode \in Codes \union {NoCode}
  BY DEF OnAuthKinds
<1>1. CASE Login(q)
  <2>1. PICK u \in Known : auth[u].verified /\ OnAuth(q, "login", u, auth[u], NoCode)
    BY <1>1 DEF Login
  <2>2. auth[u] \in Auth
    BY KnownTypes
  <2> QED
    BY <1>0, <2>1, <2>2, OnRowBegins DEF RowIn
<1>2. CASE Unsubscribe(q)
  <2>1. PICK u \in Known : OnAuth(q, "unsubscribe", u, [auth[u] EXCEPT !.opted_out = TRUE], NoCode)
    BY <1>2 DEF Unsubscribe
  <2> DEFINE w == [auth[u] EXCEPT !.opted_out = TRUE]
  <2>2. /\ w \in Auth  /\ w.email = auth[u].email  /\ w.verified = auth[u].verified
        /\ w.code = auth[u].code  /\ w.pending = auth[u].pending
        /\ \A c \in DOMAIN w : w[c] # auth[u][c] => c \in Columns("unsubscribe")
    BY KnownTypes DEF Auth, Columns
  <2> HIDE DEF w
  <2>3. OnAuth(q, "unsubscribe", u, w, NoCode)
    BY <2>1 DEF w
  <2>4. RowIn(u, auth[u], proven) => \A P : RowIn(u, w, proven \union P)
    BY <2>2 DEF RowIn
  <2> QED
    BY <1>0, <2>2, <2>3, <2>4, OnRowBegins
<1>3. ASSUME NEW u \in Known, NewPassword(q, u) PROVE Begins(q)
  <2>1. PICK p \in Passwords : OnAuth(q, "password", u, [auth[u] EXCEPT !.password = p], NoCode)
    BY <1>3 DEF NewPassword
  <2> DEFINE w == [auth[u] EXCEPT !.password = p]
  <2>2. /\ w \in Auth  /\ w.email = auth[u].email  /\ w.verified = auth[u].verified
        /\ w.code = auth[u].code  /\ w.pending = auth[u].pending
        /\ \A c \in DOMAIN w : w[c] # auth[u][c] => c \in Columns("password")
    BY KnownTypes DEF Auth, Columns
  <2> HIDE DEF w
  <2>3. OnAuth(q, "password", u, w, NoCode)
    BY <2>1 DEF w
  <2>4. RowIn(u, auth[u], proven) => \A P : RowIn(u, w, proven \union P)
    BY <2>2 DEF RowIn
  <2> QED
    BY <1>0, <2>2, <2>3, <2>4, OnRowBegins
<1> QED
  BY <1>1, <1>2, <1>3 DEF ResetPassword, ChangePassword

LEMMA VerifyBegins == ASSUME TypeInv, NEW q, VerifyCode(q) PROVE Begins(q)
<1> DEFINE W(u, c) == Enter(auth[u], c, ClearCode(auth[u]), MarkVerified(auth[u]))
<1>1. PICK u \in Known, c \in Codes \union {NoCode} :
          /\ ~auth[u].verified  /\ auth[u].code # NoCode  /\ c \in {auth[u].code, NoCode}
          /\ OnAuth(q, "verify", u, W(u, c), c)
  BY KnownTypes DEF VerifyCode, HasCode
<1> DEFINE a == auth[u]
           w == W(u, c)
<1>2. a \in Auth
  BY KnownTypes
<1>3. ClearCode(a) \in Auth /\ MarkVerified(a) \in Auth
  BY <1>2, NoCodeIs DEF ClearCode, MarkVerified, Auth
<1>4. \/ w = ClearCode(a)
      \/ w = MarkVerified(a) /\ c = a.code /\ ~Exceeded(a)
      \/ w = [a EXCEPT !.tries = @ + 1] /\ w \in Auth
  BY <1>2, EnterIs
<1> HIDE DEF W, w, a
<1>5. /\ w \in Auth  /\ w.email = a.email  /\ w.pending = a.pending
      /\ w.code \in {a.code, NoCode}
      /\ w.verified # a.verified => c = a.code /\ ~Exceeded(a) /\ w.code = NoCode
      /\ \A f \in DOMAIN w : w[f] # a[f] => f \in Columns("verify")
  BY <1>2, <1>3, <1>4 DEF ClearCode, MarkVerified, Auth, Columns
<1>6. /\ OnAuth(q, "verify", u, w, c)  /\ ~a.verified  /\ a.code # NoCode
  BY <1>1 DEF w, a
<1>7. RowIn(u, a, proven) =>
         RowIn(u, w, proven \union IF c # NoCode /\ c = a.code /\ ~Exceeded(a)
                                   THEN {<<u, SentTo(c)>>} ELSE {})
  <2>1. CASE w.verified
    <3>1. c = a.code /\ ~Exceeded(a) /\ w.code = NoCode
      BY <1>5, <1>6, <2>1
    <3> QED
      BY <1>5, <1>6, <2>1, <3>1 DEF RowIn
  <2>2. CASE ~w.verified
    BY <1>5, <1>6, <2>2 DEF RowIn
  <2> QED
    BY <2>1, <2>2
<1> QED
  BY <1>2, <1>5, <1>6, <1>7, OnRowBegins DEF a, OnAuthKinds

LEMMA ResendBegins == ASSUME TypeInv, NEW q, Resend(q) PROVE Begins(q)
<1>1. PICK u \in Known, c \in Codes :
          /\ ~auth[u].verified  /\ SentTo(c) = auth[u].email
          /\ OnAuth(q, "resend", u, SetCode(auth[u], c), NoCode)
  BY DEF Resend, Fresh
<1> DEFINE w == SetCode(auth[u], c)
<1>2. /\ w \in Auth  /\ w.email = auth[u].email  /\ w.code = c  /\ ~w.verified
      /\ w.pending = auth[u].pending
      /\ \A f \in DOMAIN w : w[f] # auth[u][f] => f \in Columns("resend")
  BY <1>1, KnownTypes, NoCodeIs DEF SetCode, Auth, Columns
<1> HIDE DEF w
<1>3. OnAuth(q, "resend", u, w, NoCode)
  BY <1>1 DEF w
<1>4. RowIn(u, auth[u], proven) => \A P : RowIn(u, w, P)
  BY <1>1, <1>2 DEF RowIn
<1> QED
  BY <1>2, <1>3, <1>4, NoCodeIs, OnRowBegins DEF OnAuthKinds

LEMMA RequestBegins == ASSUME TypeInv, NEW q, RequestEmailChange(q) PROVE Begins(q)
<1>1. PICK u \in Known \intersect session, e \in Addresses, c \in Codes :
          /\ SentTo(c) = e
          /\ OnAuth(q, "request", u, ChangeCode(auth[u], e, c), NoCode)
  BY DEF RequestEmailChange, Fresh
<1> DEFINE w == ChangeCode(auth[u], e, c)
<1>2. /\ w \in Auth  /\ w.email = auth[u].email  /\ w.code = c  /\ w.pending = e
      /\ w.verified = auth[u].verified
      /\ \A f \in DOMAIN w : w[f] # auth[u][f] => f \in Columns("request")
  BY KnownTypes, NoCodeIs DEF ChangeCode, SetCode, Auth, Columns
<1> HIDE DEF w
<1>3. OnAuth(q, "request", u, w, NoCode)
  BY <1>1 DEF w
<1>4. RowIn(u, auth[u], proven) /\ (u \in session => auth[u].verified)
         => \A P : RowIn(u, w, proven \union P)
  BY <1>1, <1>2 DEF RowIn
<1>5. u \in Known /\ "request" \in OnAuthKinds /\ NoCode \in Codes \union {NoCode}
  BY <1>1 DEF OnAuthKinds
<1> QED
  BY <1>2, <1>3, <1>4, <1>5, OnRowBegins

LEMMA ConfirmBegins == ASSUME TypeInv, NEW q, ConfirmEmailChange(q) PROVE Begins(q)
<1> DEFINE W(u, c) == Enter(auth[u], c, ClearChange(auth[u]), ApplyChange(auth[u]))
<1>1. PICK u \in Known, c \in Codes \union {NoCode} :
          /\ auth[u].pending # NoAddress  /\ auth[u].code # NoCode  /\ c \in {auth[u].code, NoCode}
          /\ IF W(u, c).email = auth[u].email THEN OnAuth(q, "confirm", u, W(u, c), c)
             ELSE /\ Start(q, "confirm", u, auth[u], Everywhere(u, W(u, c)), c)
                  /\ UNCHANGED <<Stored, session>>
  BY KnownTypes DEF ConfirmEmailChange, HasCode
<1> DEFINE a == auth[u]
           w == W(u, c)
<1>2. a \in Auth
  BY KnownTypes
<1>3. ClearChange(a) \in Auth /\ ApplyChange(a) \in Auth
  BY <1>1, <1>2, NoCodeIs DEF ClearChange, ApplyChange, ClearCode, Auth
<1>4. \/ w = ClearChange(a)
      \/ w = ApplyChange(a) /\ c = a.code /\ ~Exceeded(a)
      \/ w = [a EXCEPT !.tries = @ + 1] /\ w \in Auth
  BY <1>2, EnterIs
<1>5. /\ a.pending # NoAddress  /\ a.code # NoCode
      /\ IF w.email = a.email THEN OnAuth(q, "confirm", u, w, c)
         ELSE /\ Start(q, "confirm", u, auth[u], Everywhere(u, w), c)
              /\ UNCHANGED <<Stored, session>>
  BY <1>1
<1> HIDE DEF W, w, a
<1>6. /\ w \in Auth  /\ w.verified = a.verified
      /\ \/ w.email = a.email  /\ w.code = NoCode /\ w.pending = NoAddress
         \/ w.email = a.email  /\ w.code = a.code /\ w.pending = a.pending
         \/ w.email = a.pending /\ w.code = NoCode /\ c = a.code /\ ~Exceeded(a)
      /\ \A f \in DOMAIN w : w[f] # a[f] => f \in Columns("confirm")
  BY <1>2, <1>3, <1>4 DEF ClearChange, ApplyChange, ClearCode, Auth, Columns
<1>7. RowIn(u, a, proven) =>
         RowIn(u, w, proven \union IF c # NoCode /\ c = a.code /\ ~Exceeded(a)
                                   THEN {<<u, SentTo(c)>>} ELSE {})
  <2> SUFFICES ASSUME RowIn(u, a, proven)
               PROVE  RowIn(u, w, proven \union IF c # NoCode /\ c = a.code /\ ~Exceeded(a)
                                   THEN {<<u, SentTo(c)>>} ELSE {})
    OBVIOUS
  <2>1. a.verified /\ w.verified /\ SentTo(a.code) = a.pending /\ <<u, a.email>> \in proven
    BY <1>5, <1>6 DEF RowIn
  <2>2. CASE w.email = a.email /\ w.code = NoCode
    BY <2>1, <2>2 DEF RowIn
  <2>3. CASE w.email = a.email /\ w.code = a.code /\ w.pending = a.pending
    BY <2>1, <2>3 DEF RowIn
  <2>4. CASE w.email = a.pending /\ w.code = NoCode /\ c = a.code /\ ~Exceeded(a)
    BY <1>5, <2>1, <2>4 DEF RowIn
  <2> QED
    BY <1>6, <2>2, <2>3, <2>4
<1>8. CASE w.email = a.email
  <2>1. OnAuth(q, "confirm", u, w, c) /\ "confirm" \in OnAuthKinds
    BY <1>5, <1>8 DEF OnAuthKinds
  <2> QED
    BY <1>2, <1>6, <1>7, <1>8, <2>1, OnRowBegins DEF a
<1>9. CASE w.email # a.email
  <2> DEFINE write == Everywhere(u, w)
  <2>1. /\ DOMAIN write = {"auth", "users"} \union (IF u \in DOMAIN subs THEN {"subs"} ELSE {})
        /\ write["auth"] = w
        /\ \A t \in DOMAIN write \ {"auth"} : write[t] = [email |-> w.email]
    BY DEF Everywhere
  <2>2. /\ Start(q, "confirm", u, auth[u], write, c)
        /\ UNCHANGED <<Stored, session>>
    BY <1>5, <1>9
  <2> HIDE DEF write
  <2>3. /\ DOMAIN write \subseteq Tables  /\ "auth" \in DOMAIN write  /\ "users" \in DOMAIN write
        /\ \A t \in DOMAIN write \ {"auth"} : write[t] \in Mail
        /\ \A t \in DOMAIN write : write[t].email = w.email
    <3>1. w.email \in Addresses
      BY <1>6 DEF Auth
    <3>2. [email |-> w.email] \in Mail /\ [email |-> w.email].email = w.email
      BY <3>1 DEF Mail
    <3> QED
      BY <2>1, <3>2 DEF Tables
  <2>4. "confirm" \in OnAuthKinds /\ "confirm" # "login"
    BY DEF OnAuthKinds
  <2>5. \A f \in DOMAIN w : w[f] # auth[u][f] => f \in Columns("confirm")
    BY <1>6 DEF a
  <2>6. RowIn(u, auth[u], proven) /\ (u \in session => auth[u].verified) =>
           RowIn(u, w, proven \union IF c # NoCode /\ c = auth[u].code /\ ~Exceeded(auth[u])
                                     THEN {<<u, SentTo(c)>>} ELSE {})
    BY <1>7 DEF a
  <2>7. w \in Auth
    BY <1>6
  <2> QED
    BY <2>1, <2>2, <2>3, <2>4, <2>5, <2>6, <2>7, OnAuthBegins
<1> QED
  BY <1>8, <1>9

LEMMA RegisterBegins == ASSUME TypeInv, NEW q, Register(q) PROVE Begins(q)
<1>1. PICK u \in Users \ (Known \union DOMAIN users), e \in Addresses, p \in Passwords, c \in Codes :
          /\ Running(u) = {}  /\ SentTo(c) = e
          /\ Start(q, "register", u, NewAuth(e, p, c),
                   [auth |-> NewAuth(e, p, c), users |-> [email |-> e], subs |-> [email |-> e]],
                   NoCode)
          /\ UNCHANGED <<Stored, session>>
  BY DEF Register, Fresh
<1> DEFINE a == NewAuth(e, p, c)
           m == [email |-> e]
           write == [auth |-> a, users |-> m, subs |-> m]
           x == Asked("register", u, a, write, NoCode)
<1>2. /\ a \in Auth  /\ a.email = e  /\ ~a.verified  /\ a.pending = NoAddress  /\ a.code = c
      /\ m \in Mail  /\ m.email = e
  BY NoCodeIs DEF NewAuth, Auth, Mail
<1>3. /\ DOMAIN write = {"auth", "users", "subs"}
      /\ write["auth"] = a  /\ write["users"] = m  /\ write["subs"] = m
  OBVIOUS
<1>4. Joins(q, x)
  BY <1>1, StartIs
<1> HIDE DEF a, m, write
<1>5. /\ DOMAIN x = {"kind", "user", "seen", "write", "entered", "met"}
      /\ x.kind = "register"  /\ x.user = u  /\ x.seen = a  /\ x.write = write
      /\ x.entered = NoCode
  BY DEF Asked
<1> HIDE DEF x
<1>6. OfType(x)
  BY <1>2, <1>3, <1>5 DEF OfType, Kinds
<1>7. RegisterShape(x)
  BY <1>1, <1>2, <1>3, <1>5 DEF RegisterShape, Tables
<1>8. Fresher(x)
  BY <1>1, <1>5, <1>6, <1>7 DEF Fresher, Shaped
<1>9. ReadWell(x)
  BY <1>5 DEF ReadWell, OnAuthKinds
<1> QED
  BY <1>1, <1>4, <1>8, <1>9 DEF Begins

\* A save of one table that keeps the address it read.
LEMMA OneTableBegins ==
    ASSUME TypeInv, NEW q, NEW kind \in {"resume", "subscription"}, NEW name \in {"users", "subs"},
           NEW u \in DOMAIN users, NEW m \in Mail, NEW write,
           DOMAIN write = {name}, write[name] = m,
           Start(q, kind, u, m, write, NoCode),
           UNCHANGED <<Stored, session>>
    PROVE  Begins(q)
<1> DEFINE x == Asked(kind, u, m, write, NoCode)
<1>2. /\ DOMAIN x = {"kind", "user", "seen", "write", "entered", "met"}
      /\ x.kind = kind  /\ x.user = u  /\ x.seen = m  /\ x.write = write  /\ x.entered = NoCode
  BY DEF Asked
<1>3. Joins(q, x)
  BY StartIs
<1> HIDE DEF x
<1>4. u \in Users
  BY DEF TypeInv, TypeOK
<1>5. OfType(x)
  BY <1>2, <1>4 DEF OfType, Kinds
<1>6. ~Moves(x)
  BY <1>2 DEF Moves
<1>7. SaveShape(x)
  BY <1>2, <1>6 DEF SaveShape, Tables, OnAuthKinds
<1>8. Fresher(x)
  BY <1>2, <1>5, <1>7 DEF Fresher, Shaped
<1>9. ReadWell(x)
  BY <1>2 DEF ReadWell, OnAuthKinds
<1> QED
  BY <1>3, <1>8, <1>9 DEF Begins

LEMMA MailBegins ==
    ASSUME TypeInv, NEW q, UploadResume(q) \/ SaveSubscription(q) PROVE Begins(q)
<1>1. CASE UploadResume(q)
  <2>1. PICK u \in DOMAIN users : /\ Start(q, "resume", u, users[u], [users |-> users[u]], NoCode)
                                  /\ UNCHANGED <<Stored, session>>
    BY <1>1 DEF UploadResume
  <2>2. users[u] \in Mail
    BY DEF TypeInv, TypeOK
  <2> DEFINE write == [users |-> users[u]]
  <2>3. DOMAIN write = {"users"} /\ write["users"] = users[u]
    OBVIOUS
  <2>4. Start(q, "resume", u, users[u], write, NoCode)
    BY <2>1
  <2> HIDE DEF write
  <2> QED
    BY <2>1, <2>2, <2>3, <2>4, OneTableBegins
<1>2. CASE SaveSubscription(q)
  <2>1. PICK u \in DOMAIN subs : /\ Start(q, "subscription", u, subs[u], [subs |-> subs[u]], NoCode)
                                 /\ UNCHANGED <<Stored, session>>
    BY <1>2 DEF SaveSubscription
  <2>2. subs[u] \in Mail /\ u \in DOMAIN users
    BY DEF TypeInv, TypeOK
  <2> DEFINE write == [subs |-> subs[u]]
  <2>3. DOMAIN write = {"subs"} /\ write["subs"] = subs[u]
    OBVIOUS
  <2>4. Start(q, "subscription", u, subs[u], write, NoCode)
    BY <2>1
  <2> HIDE DEF write
  <2> QED
    BY <2>1, <2>2, <2>3, <2>4, OneTableBegins
<1> QED
  BY <1>1, <1>2

-----------------------------------------------------------------------------
(* Steps.                                                                  *)

Begun(q) ==
    \/ Register(q) \/ Login(q) \/ ResetPassword(q) \/ ChangePassword(q)
    \/ VerifyCode(q) \/ Resend(q) \/ RequestEmailChange(q) \/ ConfirmEmailChange(q)
    \/ Unsubscribe(q) \/ UploadResume(q) \/ SaveSubscription(q)

LEMMA AllBegin == ASSUME TypeInv, NEW q, Begun(q) PROVE Begins(q)
BY PlainBegins, VerifyBegins, ResendBegins, RequestBegins, ConfirmBegins, RegisterBegins,
   MailBegins DEF Begun

Quiet == UNCHANGED <<Stored, req>> /\ session' \subseteq session

LEMMA NextIs ==
    ASSUME [Next]_vars
    PROVE  \/ \E q \in Requests : Begun(q)
           \/ \E q \in DOMAIN req : CommitRegister(q) \/ CommitOther(q) \/ SyncStripe(q) \/ Rollback(q)
           \/ DeleteUser
           \/ Quiet
<1>1. Logout => Quiet
  BY DEF Logout, Quiet
<1>2. Expire => Quiet
  BY DEF Expire, Quiet
<1>3. UNCHANGED vars => Quiet
  BY DEF vars, Quiet, Stored
<1> QED
  BY <1>1, <1>2, <1>3 DEF Next, Begun

LEMMA FinishIs ==
    ASSUME NEW q \in DOMAIN req, Finish(q)
    PROVE  /\ DOMAIN req' = DOMAIN req \ {q}
           /\ \A r \in DOMAIN req' : req'[r] = req[r]
BY DEF Finish, Drop

\* A table after a commit has the other accounts as it had them, and the row that was
\* to be saved.
Saved(now, t, name, r) ==
    /\ DOMAIN t \subseteq DOMAIN now  /\ DOMAIN now \subseteq DOMAIN t \union {r.user}
    /\ \A v \in DOMAIN t : v # r.user => now[v] = t[v]
    /\ IF name \in DOMAIN r.write THEN r.user \in DOMAIN now /\ now[r.user] = r.write[name]
       ELSE now = t

LEMMA SavedIs == ASSUME NEW t, NEW name, NEW r PROVE Saved(Merge(t, name, r), t, name, r)
<1> DEFINE m == Put(t, r.user, r.write[name])
<1>1. CASE name \in DOMAIN r.write
  <2>1. Merge(t, name, r) = m
    BY <1>1 DEF Merge
  <2>2. /\ DOMAIN m = DOMAIN t \union {r.user}  /\ m[r.user] = r.write[name]
        /\ \A v \in DOMAIN t : v # r.user => m[v] = t[v]
    BY DEF Put
  <2> HIDE DEF m
  <2> QED
    BY <1>1, <2>1, <2>2 DEF Saved
<1>2. CASE name \notin DOMAIN r.write
  BY <1>2 DEF Merge, Saved
<1> QED
  BY <1>1, <1>2

\* What is left of the requests after a commit.
LEMMA CommitIs ==
    ASSUME TypeInv, NEW q \in DOMAIN req, CommitOther(q)
    PROVE  /\ req[q].kind \notin {"register", "sync"}  /\ SaveShape(req[q])  /\ OfType(req[q])
           /\ req[q].user \in DOMAIN stripe
           /\ Saved(auth', auth, "auth", req[q])  /\ Saved(users', users, "users", req[q])
           /\ Saved(subs', subs, "subs", req[q])
           /\ DOMAIN auth' \subseteq DOMAIN users'  /\ DOMAIN subs' \subseteq DOMAIN users'
           /\ DOMAIN req' \subseteq DOMAIN req
           /\ \A s \in DOMAIN req' : s # q => req'[s] = req[s]
           /\ q \in DOMAIN req' <=> Moves(req[q])
           /\ \A s \in DOMAIN req : s # q => s \in DOMAIN req'
           /\ Moves(req[q]) =>
                 req'[q].kind = "sync" /\ req'[q].user = req[q].user /\ Shaped(req'[q])
<1> DEFINE r == req[q]
<1>1. r.kind \notin {"register", "sync"} /\ Shaped(r)
  BY DEF CommitOther, TypeInv
<1>2. SaveShape(r) /\ OfType(r) /\ r.user \in DOMAIN stripe
  BY <1>1 DEF Shaped, TypeInv, Paying
<1>3. Saved(auth', auth, "auth", r) /\ Saved(users', users, "users", r) /\ Saved(subs', subs, "subs", r)
  BY SavedIs DEF CommitOther
<1>4. DOMAIN auth' \subseteq DOMAIN users' /\ DOMAIN subs' \subseteq DOMAIN users'
  BY DEF CommitOther, Constrained
<1>5. CASE Moves(r)
  <2> DEFINE w == [stripe |-> [email |-> r.write.auth.email]]
             y == [r EXCEPT !.kind = "sync", !.met = FALSE, !.write = w]
  <2>1. req' = [req EXCEPT ![q] = y]
    BY <1>5 DEF CommitOther
  <2>2. DOMAIN r = {"kind", "user", "seen", "write", "entered", "met"}
    BY <1>2 DEF OfType
  <2>3. "auth" \in DOMAIN r.write /\ r.write["auth"].email \in Addresses
    BY <1>2, <1>5 DEF SaveShape, OfType, Auth
  <2>4. DOMAIN w = {"stripe"} /\ w["stripe"] \in Mail
    BY <2>3 DEF Mail
  <2> HIDE DEF w
  <2>5. /\ DOMAIN y = {"kind", "user", "seen", "write", "entered", "met"}
        /\ y.kind = "sync"  /\ y.user = r.user  /\ y.write = w  /\ y.entered = r.entered
    BY <2>2
  <2> HIDE DEF y
  <2>6. Shaped(y)
    BY <1>2, <2>4, <2>5 DEF Shaped, OfType, Kinds
  <2> QED
    BY <1>1, <1>2, <1>3, <1>4, <1>5, <2>1, <2>5, <2>6
<1>6. CASE ~Moves(r)
  <2>1. Finish(q)
    BY <1>6 DEF CommitOther
  <2> QED
    BY <1>1, <1>2, <1>3, <1>4, <1>6, <2>1, FinishIs
<1> QED
  BY <1>5, <1>6

LEMMA RegisterIs ==
    ASSUME TypeInv, NEW q \in DOMAIN req, CommitRegister(q)
    PROVE  /\ req[q].kind = "register"  /\ RegisterShape(req[q])  /\ OfType(req[q])
           /\ Saved(auth', auth, "auth", req[q])  /\ Saved(users', users, "users", req[q])
           /\ Saved(subs', subs, "subs", req[q])
           /\ DOMAIN auth' \subseteq DOMAIN users'  /\ DOMAIN subs' \subseteq DOMAIN users'
           /\ DOMAIN stripe' = DOMAIN stripe \union {req[q].user}
           /\ stripe'[req[q].user] = req[q].write["subs"]
           /\ \A v \in DOMAIN stripe : v # req[q].user => stripe'[v] = stripe[v]
           /\ DOMAIN req' = DOMAIN req \ {q}  /\ \A s \in DOMAIN req' : req'[s] = req[s]
           /\ \A s \in DOMAIN req' : req[s].user # req[q].user
           /\ req[q].user \notin DOMAIN users
<1>1. req[q].kind = "register" /\ Shaped(req[q])
  BY DEF CommitRegister, TypeInv
<1>2. RegisterShape(req[q]) /\ OfType(req[q])
  BY <1>1 DEF Shaped
<1>3. /\ Saved(auth', auth, "auth", req[q])  /\ Saved(users', users, "users", req[q])
      /\ Saved(subs', subs, "subs", req[q])
  BY SavedIs DEF CommitRegister
<1>4. DOMAIN auth' \subseteq DOMAIN users' /\ DOMAIN subs' \subseteq DOMAIN users'
  BY DEF CommitRegister, Constrained
<1>5. /\ DOMAIN stripe' = DOMAIN stripe \union {req[q].user}
      /\ stripe'[req[q].user] = req[q].write["subs"]
      /\ \A v \in DOMAIN stripe : v # req[q].user => stripe'[v] = stripe[v]
  <2>1. stripe' = Put(stripe, req[q].user, req[q].write["subs"])
    BY DEF CommitRegister
  <2> QED
    BY <2>1 DEF Put
<1>6. DOMAIN req' = DOMAIN req \ {q} /\ \A s \in DOMAIN req' : req'[s] = req[s]
  BY FinishIs DEF CommitRegister
<1>7. /\ \A s \in DOMAIN req' : req[s].user # req[q].user
      /\ req[q].user \notin DOMAIN users
  BY <1>1, <1>6 DEF TypeInv, RegisterApart
<1> QED
  BY <1>1, <1>2, <1>3, <1>4, <1>5, <1>6, <1>7

LEMMA SyncIs ==
    ASSUME TypeInv, NEW q \in DOMAIN req, SyncStripe(q)
    PROVE  /\ UNCHANGED <<auth, users, subs, session, proven, restored, undone>>
           /\ DOMAIN stripe' = DOMAIN stripe
           /\ \A v \in DOMAIN stripe : v # req[q].user => stripe'[v] = stripe[v]
           /\ stripe'[req[q].user] \in Mail
           /\ \A v : v # req[q].user => (v \in refused' <=> v \in refused)
           /\ req[q].user \notin refused' /\ req[q].user \in Known =>
                 stripe'[req[q].user].email = auth[req[q].user].email
           /\ DOMAIN req' = DOMAIN req \ {q}  /\ \A s \in DOMAIN req' : req'[s] = req[s]
<1> DEFINE u == req[q].user
           told == req[q].write.stripe
<1>1. /\ req[q].kind = "sync"  /\ Shaped(req[q])
      /\ UNCHANGED <<auth, users, subs, session, proven, restored, undone>>
  BY DEF SyncStripe, TypeInv
<1>2. req[q].write["stripe"] \in Mail /\ u \in DOMAIN stripe /\ stripe[u] \in Mail
  BY <1>1 DEF Shaped, OfType, TypeInv, Paying, TypeOK
<1>3. DOMAIN req' = DOMAIN req \ {q} /\ \A s \in DOMAIN req' : req'[s] = req[s]
  BY FinishIs DEF SyncStripe
<1>4. \/ /\ stripe' = Put(stripe, u, told)
         /\ refused' = IF u \in Known /\ auth[u].email # told.email
                       THEN refused \union {u} ELSE refused \ {u}
      \/ stripe' = stripe  /\ refused' = refused \union {u}
  BY DEF SyncStripe
<1>5. CASE /\ stripe' = Put(stripe, u, told)
           /\ refused' = IF u \in Known /\ auth[u].email # told.email
                         THEN refused \union {u} ELSE refused \ {u}
  <2>1. /\ DOMAIN stripe' = DOMAIN stripe \union {u}  /\ stripe'[u] = told
        /\ \A v \in DOMAIN stripe : v # u => stripe'[v] = stripe[v]
    BY <1>5 DEF Put
  <2> QED
    BY <1>1, <1>2, <1>3, <1>5, <2>1
<1>6. CASE stripe' = stripe /\ refused' = refused \union {u}
  BY <1>1, <1>2, <1>3, <1>6
<1> QED
  BY <1>4, <1>5, <1>6

\* The history of a deleted account.
Forgets(u) ==
    /\ proven' = {x \in proven : x[1] # u}  /\ undone' = undone \union {u}
    /\ refused' = refused \ {u}  /\ restored' = restored \ {u}

LEMMA DeleteIs ==
    ASSUME TypeInv, DeleteUser
    PROVE  \E u \in DOMAIN users :
              /\ DOMAIN auth' = DOMAIN auth \ {u}  /\ DOMAIN users' = DOMAIN users \ {u}
              /\ DOMAIN subs' = DOMAIN subs \ {u}
              /\ \A v \in DOMAIN auth' : auth'[v] = auth[v]
              /\ \A v \in DOMAIN users' : users'[v] = users[v]
              /\ \A v \in DOMAIN subs' : subs'[v] = subs[v]
              /\ Forgets(u)  /\ UNCHANGED <<stripe, session, req>>
<1>1. PICK u \in DOMAIN users :
          /\ auth' = Drop(auth, u)  /\ users' = Drop(users, u)  /\ subs' = Drop(subs, u)
          /\ Forgets(u)  /\ UNCHANGED <<stripe, session, req>>
  BY DEF DeleteUser, Forgets
<1>2. /\ DOMAIN auth' = DOMAIN auth \ {u}  /\ \A v \in DOMAIN auth \ {u} : auth'[v] = auth[v]
  BY <1>1, DropIs
<1>3. /\ DOMAIN users' = DOMAIN users \ {u}  /\ \A v \in DOMAIN users \ {u} : users'[v] = users[v]
  BY <1>1, DropIs
<1>4. /\ DOMAIN subs' = DOMAIN subs \ {u}  /\ \A v \in DOMAIN subs \ {u} : subs'[v] = subs[v]
  BY <1>1, DropIs
<1> QED
  BY <1>1, <1>2, <1>3, <1>4

-----------------------------------------------------------------------------
(* What requests save follows from what they read.                         *)

LEMMA BeginsTyped ==
    ASSUME TypeInv, NEW q \in Requests, Begins(q) PROVE TypeInv'
<1>1. UNCHANGED <<auth, users, subs, stripe, session>>
  BY DEF Begins, Stored
<1>2. PICK x : Joins(q, x) /\ Fresher(x)
  BY DEF Begins
<1>3. TypeOK'
  BY <1>1, <1>2 DEF TypeInv, TypeOK, Joins, Known
<1>4. ASSUME NEW r \in DOMAIN req' PROVE Shaped(req'[r])
  <2>1. CASE r = q
    BY <1>2, <2>1 DEF Joins, Fresher
  <2>2. CASE r \in DOMAIN req
    <3>1. Like(req'[r], req[r]) /\ Shaped(req[r])
      BY <1>2, <2>2 DEF TypeInv, Joins
    <3> QED
      BY <3>1, LikeIs
  <2> QED
    BY <1>2, <2>1, <2>2 DEF Joins
<1>5. /\ \A r \in DOMAIN req : req'[r].kind = req[r].kind /\ req'[r].user = req[r].user
      /\ req'[q] = x  /\ DOMAIN req' = DOMAIN req \union {q}  /\ q \notin DOMAIN req
  BY <1>2 DEF Joins, Like
<1>6. \A r \in DOMAIN req : x.kind = "register" => req[r].user # x.user
  BY <1>2 DEF Fresher, Running
<1>7. IF x.kind = "register" THEN x.user \notin DOMAIN users ELSE x.user \in DOMAIN users
  BY <1>2 DEF Fresher
<1>8. RegisterApart'
  BY <1>1, <1>5, <1>6, <1>7 DEF TypeInv, RegisterApart
<1>9. Paying'
  BY <1>1, <1>5, <1>7 DEF TypeInv, Paying, TypeOK
<1> QED
  BY <1>3, <1>4, <1>8, <1>9 DEF TypeInv

LEMMA CommitTyped ==
    ASSUME TypeInv, NEW q \in DOMAIN req, CommitOther(q) PROVE TypeInv'
<1> DEFINE r == req[q]
<1>1. /\ r.kind \notin {"register", "sync"}  /\ OfType(r)  /\ r.user \in DOMAIN stripe
      /\ Saved(auth', auth, "auth", r)  /\ Saved(users', users, "users", r)
      /\ Saved(subs', subs, "subs", r)
      /\ DOMAIN auth' \subseteq DOMAIN users'  /\ DOMAIN subs' \subseteq DOMAIN users'
  BY CommitIs
<1>2. /\ DOMAIN req' \subseteq DOMAIN req
      /\ \A s \in DOMAIN req' : s # q => req'[s] = req[s]
      /\ q \in DOMAIN req' => req'[q].kind = "sync" /\ req'[q].user = r.user /\ Shaped(req'[q])
  BY CommitIs
<1>3. stripe' = stripe /\ session' \subseteq session \union {r.user}
  BY DEF CommitOther
<1>4. r.user \in Users
  BY <1>1 DEF OfType
<1>5. TypeOK'
  <2>1. \A u \in DOMAIN auth' : auth'[u] \in Auth
    BY <1>1 DEF Saved, OfType, TypeInv, TypeOK, Known
  <2>2. \A u \in DOMAIN users' : users'[u] \in Mail
    BY <1>1 DEF Saved, OfType, TypeInv, TypeOK
  <2>3. \A u \in DOMAIN subs' : subs'[u] \in Mail
    BY <1>1 DEF Saved, OfType, TypeInv, TypeOK
  <2>4. DOMAIN users' \subseteq Users /\ DOMAIN users' \subseteq DOMAIN stripe
    BY <1>1, <1>4 DEF Saved, TypeInv, TypeOK
  <2>5. session' \subseteq Users /\ DOMAIN req' \subseteq Requests
    BY <1>2, <1>3, <1>4 DEF TypeInv, TypeOK
  <2>6. \A u \in DOMAIN stripe' : stripe'[u] \in Mail
    BY <1>3 DEF TypeInv, TypeOK
  <2> QED
    BY <1>1, <1>3, <2>1, <2>2, <2>3, <2>4, <2>5, <2>6 DEF TypeOK, Known
<1>6. \A s \in DOMAIN req' : Shaped(req'[s])
  BY <1>2 DEF TypeInv
<1>7. RegisterApart'
  <2> SUFFICES ASSUME NEW s \in DOMAIN req', req'[s].kind = "register", NEW o \in DOMAIN req'
               PROVE  req'[s].user \notin DOMAIN users' /\ (o # s => req'[o].user # req'[s].user)
    BY DEF RegisterApart
  <2>1. s # q /\ req'[s] = req[s] /\ s \in DOMAIN req /\ req[s].kind = "register"
    BY <1>2
  <2>2. req[s].user \notin DOMAIN users /\ \A p \in DOMAIN req : p # s => req[p].user # req[s].user
    BY <2>1 DEF TypeInv, RegisterApart
  <2>3. req[s].user \notin DOMAIN users'
    BY <1>1, <2>1, <2>2 DEF Saved
  <2>4. req'[o].user = req[o].user /\ o \in DOMAIN req
    BY <1>2
  <2> QED
    BY <2>1, <2>2, <2>3, <2>4
<1>8. Paying'
  BY <1>1, <1>2, <1>3 DEF TypeInv, Paying
<1> QED
  BY <1>5, <1>6, <1>7, <1>8 DEF TypeInv

LEMMA RegisterTyped ==
    ASSUME TypeInv, NEW q \in DOMAIN req, CommitRegister(q) PROVE TypeInv'
<1> DEFINE r == req[q]
<1>1. /\ RegisterShape(r)  /\ OfType(r)
      /\ Saved(auth', auth, "auth", r)  /\ Saved(users', users, "users", r)
      /\ Saved(subs', subs, "subs", r)
      /\ DOMAIN auth' \subseteq DOMAIN users'  /\ DOMAIN subs' \subseteq DOMAIN users'
  BY RegisterIs
<1>2. /\ DOMAIN req' = DOMAIN req \ {q}  /\ \A s \in DOMAIN req' : req'[s] = req[s]
      /\ \A s \in DOMAIN req' : req[s].user # r.user
  BY RegisterIs
<1>3. /\ DOMAIN stripe' = DOMAIN stripe \union {r.user}  /\ stripe'[r.user] = r.write["subs"]
      /\ \A v \in DOMAIN stripe : v # r.user => stripe'[v] = stripe[v]
  BY RegisterIs
<1>4. r.user \in Users /\ session' \subseteq session
  BY <1>1 DEF OfType, CommitRegister
<1>5. TypeOK'
  <2>1. \A u \in DOMAIN auth' : auth'[u] \in Auth
    BY <1>1 DEF Saved, OfType, TypeInv, TypeOK, Known
  <2>2. \A u \in DOMAIN users' : users'[u] \in Mail
    BY <1>1 DEF Saved, OfType, TypeInv, TypeOK
  <2>3. \A u \in DOMAIN subs' : subs'[u] \in Mail
    BY <1>1 DEF Saved, OfType, TypeInv, TypeOK
  <2>4. DOMAIN users' \subseteq Users /\ DOMAIN users' \subseteq DOMAIN stripe'
    BY <1>1, <1>3, <1>4 DEF Saved, TypeInv, TypeOK
  <2>5. session' \subseteq Users /\ DOMAIN req' \subseteq Requests
    BY <1>2, <1>4 DEF TypeInv, TypeOK
  <2>6. \A u \in DOMAIN stripe' : stripe'[u] \in Mail
    <3>1. r.write["subs"] \in Mail
      BY <1>1 DEF RegisterShape, OfType, Tables
    <3> QED
      BY <1>3, <3>1 DEF TypeInv, TypeOK
  <2> QED
    BY <1>1, <2>1, <2>2, <2>3, <2>4, <2>5, <2>6 DEF TypeOK, Known
<1>6. \A s \in DOMAIN req' : Shaped(req'[s])
  BY <1>2 DEF TypeInv
<1>7. RegisterApart'
  BY <1>1, <1>2 DEF TypeInv, RegisterApart, Saved
<1>8. Paying'
  BY <1>2, <1>3 DEF TypeInv, Paying
<1> QED
  BY <1>5, <1>6, <1>7, <1>8 DEF TypeInv

LEMMA TypeStep == ASSUME TypeInv, [Next]_vars PROVE TypeInv'
<1>1. ASSUME NEW q \in Requests, Begun(q) PROVE TypeInv'
  BY <1>1, AllBegin, BeginsTyped
<1>2. ASSUME NEW q \in DOMAIN req, SyncStripe(q) PROVE TypeInv'
  <2>1. /\ UNCHANGED <<auth, users, subs, session>>
        /\ DOMAIN stripe' = DOMAIN stripe  /\ \A v \in DOMAIN stripe' : stripe'[v] \in Mail
        /\ DOMAIN req' = DOMAIN req \ {q}  /\ \A s \in DOMAIN req' : req'[s] = req[s]
    BY <1>2, SyncIs DEF TypeInv, TypeOK
  <2>2. TypeOK'
    BY <2>1 DEF TypeInv, TypeOK, Known
  <2>3. RegisterApart' /\ Paying'
    BY <2>1 DEF TypeInv, RegisterApart, Paying
  <2> QED
    BY <2>1, <2>2, <2>3 DEF TypeInv
<1>3. ASSUME NEW q \in DOMAIN req, Rollback(q) PROVE TypeInv'
  <2>1. /\ UNCHANGED <<auth, users, subs, stripe, session>>
        /\ DOMAIN req' = DOMAIN req \ {q}  /\ \A s \in DOMAIN req' : req'[s] = req[s]
    BY <1>3, FinishIs DEF Rollback, Stored
  <2>2. TypeOK'
    BY <2>1 DEF TypeInv, TypeOK, Known
  <2>3. RegisterApart' /\ Paying'
    BY <2>1 DEF TypeInv, RegisterApart, Paying
  <2> QED
    BY <2>1, <2>2, <2>3 DEF TypeInv
<1>4. CASE DeleteUser
  <2>1. PICK u \in DOMAIN users :
            /\ DOMAIN auth' = DOMAIN auth \ {u}  /\ DOMAIN users' = DOMAIN users \ {u}
            /\ DOMAIN subs' = DOMAIN subs \ {u}
            /\ \A v \in DOMAIN auth' : auth'[v] = auth[v]
            /\ \A v \in DOMAIN users' : users'[v] = users[v]
            /\ \A v \in DOMAIN subs' : subs'[v] = subs[v]
            /\ UNCHANGED <<stripe, session, req>>
    BY <1>4, DeleteIs
  <2>2. TypeOK'
    BY <2>1 DEF TypeInv, TypeOK, Known
  <2>3. RegisterApart' /\ Paying'
    BY <2>1 DEF TypeInv, RegisterApart, Paying
  <2> QED
    BY <2>1, <2>2, <2>3 DEF TypeInv
<1>5. CASE Quiet
  BY <1>5 DEF Quiet, Stored, TypeInv, TypeOK, Known, RegisterApart, Paying
<1> QED
  BY <1>1, <1>2, <1>3, <1>4, <1>5, NextIs, CommitTyped, RegisterTyped

\* Whatever overlaps, a request saves what follows from the row it read and its kind, and a
\* registration is alone with its account.
THEOREM RequestsAreShaped == Spec => []TypeInv
<1>1. Init => TypeInv
  BY DEF Init, Nobody, TypeInv, TypeOK, Known, RegisterApart, Paying
<1> QED
  BY <1>1, TypeStep, PTL DEF Spec

\* The rows are of their types, an account has the rows the keys between the tables ask
\* for, and a session is of an account.
THEOREM AccountTypes == Spec => []TypeOK
<1>1. TypeInv => TypeOK
  BY DEF TypeInv
<1> QED
  BY <1>1, RequestsAreShaped, PTL

-----------------------------------------------------------------------------
(* Verified addresses.                                                     *)

LEMMA RowInMore ==
    ASSUME NEW u, NEW a, NEW P, NEW Q, P \subseteq Q, RowIn(u, a, P) PROVE RowIn(u, a, Q)
BY DEF RowIn

LEMMA BeginsProved ==
    ASSUME TypeInv, Proved, NEW q \in Requests, Begins(q) PROVE Proved'
<1>1. UNCHANGED <<auth, session, proven, undone>>
  BY DEF Begins, Stored
<1>2. PICK x : Joins(q, x) /\ ReadWell(x)
  BY DEF Begins
<1>3. \A u \in Known' \ undone' : RowIn(u, auth'[u], proven') /\ (u \in session' => auth'[u].verified)
  BY <1>1 DEF Proved, Known
<1>4. ASSUME NEW r \in DOMAIN req', req'[r].kind \in OnAuthKinds, req'[r].user \notin undone'
      PROVE  RowIn(req'[r].user, req'[r].write["auth"], proven' \union Proves(req'[r]))
  <2>1. CASE r = q
    <3>1. req'[r] = x
      BY <1>2, <2>1 DEF Joins
    <3>2. x.user \in Known /\ RowIn(x.user, auth[x.user], proven)
          /\ (x.user \in session => auth[x.user].verified)
      BY <1>1, <1>2, <1>4, <3>1 DEF ReadWell, Proved
    <3> QED
      BY <1>1, <1>2, <1>4, <3>1, <3>2 DEF ReadWell
  <2>2. CASE r \in DOMAIN req
    <3>1. Like(req'[r], req[r])
      BY <1>2, <2>2 DEF Joins
    <3>2. /\ req'[r].kind = req[r].kind  /\ req'[r].user = req[r].user
          /\ req'[r].write = req[r].write  /\ Proves(req'[r]) = Proves(req[r])
      BY <3>1, LikeIs
    <3>3. RowIn(req[r].user, req[r].write["auth"], proven \union Proves(req[r]))
      BY <1>1, <1>4, <2>2, <3>2 DEF Proved
    <3> QED
      BY <1>1, <3>2, <3>3
  <2> QED
    BY <1>2, <2>1, <2>2 DEF Joins
<1> QED
  BY <1>3, <1>4 DEF Proved

LEMMA CommitProved ==
    ASSUME TypeInv, Proved, NEW q \in DOMAIN req, CommitOther(q) PROVE Proved'
<1> DEFINE r == req[q]
           w == req[q].write["auth"]
<1>1. /\ r.kind \notin {"register", "sync"}  /\ SaveShape(r)
      /\ Saved(auth', auth, "auth", r)
  BY CommitIs
<1>2. /\ DOMAIN req' \subseteq DOMAIN req
      /\ \A s \in DOMAIN req' : s # q => req'[s] = req[s]
      /\ q \in DOMAIN req' => req'[q].kind = "sync"
  BY CommitIs
<1>3. /\ undone' = IF TakesBack(r) THEN undone \union {r.user} ELSE undone
      /\ session' \subseteq session \union {r.user}
      /\ r.user \in session' => r.user \in session \/ r.kind = "login"
                                \/ (r.kind = "verify" /\ w.verified)
  BY DEF CommitOther
<1>4. proven' = proven \union Proves(r)
  BY DEF CommitOther, Proves
<1>5. "auth" \in DOMAIN r.write <=> r.kind \in OnAuthKinds
  BY <1>1 DEF SaveShape
<1>6. undone \subseteq undone' /\ proven \subseteq proven'
  BY <1>3, <1>4
<1> HIDE DEF r, w
<1>7. ASSUME NEW u \in Known' \ undone'
      PROVE  RowIn(u, auth'[u], proven') /\ (u \in session' => auth'[u].verified)
  <2>1. CASE u # r.user \/ r.kind \notin OnAuthKinds
    <3>1. u \in Known /\ auth'[u] = auth[u]
      BY <1>1, <1>5, <2>1 DEF Saved, Known
    <3>2. RowIn(u, auth[u], proven) /\ (u \in session => auth[u].verified)
      BY <1>6, <3>1, <1>7 DEF Proved
    <3>3. u \in session' => u \in session
      BY <1>3, <2>1 DEF OnAuthKinds
    <3> QED
      BY <1>6, <3>1, <3>2, <3>3, RowInMore
  <2>2. CASE u = r.user /\ r.kind \in OnAuthKinds
    <3>1. auth'[u] = w /\ "auth" \in DOMAIN r.write
      BY <1>1, <1>5, <2>2 DEF Saved, r, w
    <3>2. u \notin undone /\ ~TakesBack(r)
      BY <1>3, <1>7, <2>2
    <3>3. u \in Known /\ (auth[u].verified => w.verified)
      BY <2>2, <3>1, <3>2 DEF TakesBack, r, w
    <3>4. RowIn(u, w, proven')
      BY <1>4, <2>2, <3>2 DEF Proved, r, w
    <3>5. u \in session => auth[u].verified
      BY <3>2, <3>3 DEF Proved
    <3>6. r.kind = "login" => w.verified
      BY <1>1, <3>1 DEF SaveShape, r, w
    <3> QED
      BY <1>3, <2>2, <3>1, <3>3, <3>4, <3>5, <3>6
  <2> QED
    BY <2>1, <2>2
<1>8. ASSUME NEW s \in DOMAIN req', req'[s].kind \in OnAuthKinds, req'[s].user \notin undone'
      PROVE  RowIn(req'[s].user, req'[s].write["auth"], proven' \union Proves(req'[s]))
  <2>1. s # q /\ req'[s] = req[s] /\ s \in DOMAIN req
    BY <1>2, <1>8 DEF OnAuthKinds
  <2>2. RowIn(req[s].user, req[s].write["auth"], proven \union Proves(req[s]))
    BY <1>6, <1>8, <2>1 DEF Proved
  <2>3. proven \union Proves(req[s]) \subseteq proven' \union Proves(req[s])
    BY <1>6
  <2> QED
    BY <2>1, <2>2, <2>3, RowInMore
<1> QED
  BY <1>7, <1>8 DEF Proved

LEMMA RegisterProved ==
    ASSUME TypeInv, Proved, NEW q \in DOMAIN req, CommitRegister(q) PROVE Proved'
<1> DEFINE r == req[q]
           w == req[q].write["auth"]
<1>1. RegisterShape(r) /\ Saved(auth', auth, "auth", r)
  BY RegisterIs
<1>2. /\ DOMAIN req' = DOMAIN req \ {q}  /\ \A s \in DOMAIN req' : req'[s] = req[s]
      /\ \A s \in DOMAIN req' : req[s].user # r.user
  BY RegisterIs
<1>3. /\ undone' = undone \ {r.user}  /\ session' = session \ {r.user}
      /\ proven' = {x \in proven : x[1] # r.user}
  BY DEF CommitRegister
<1> HIDE DEF r, w
<1>4. ASSUME NEW u, NEW a, NEW P, u # r.user, RowIn(u, a, proven \union P)
      PROVE  RowIn(u, a, proven' \union P)
  BY <1>3, <1>4 DEF RowIn
<1>5. ASSUME NEW u \in Known' \ undone'
      PROVE  RowIn(u, auth'[u], proven') /\ (u \in session' => auth'[u].verified)
  <2>1. CASE u # r.user
    <3>1. u \in Known \ undone /\ auth'[u] = auth[u]
      BY <1>1, <1>3, <1>5, <2>1 DEF Saved, Known
    <3>2. RowIn(u, auth[u], proven \union {})
      BY <3>1, RowInMore DEF Proved
    <3>3. RowIn(u, auth[u], proven' \union {})
      BY <1>4, <2>1, <3>2
    <3> QED
      BY <1>3, <3>1, <3>3, RowInMore DEF Proved
  <2>2. CASE u = r.user
    <3>1. auth'[u] = w
      BY <1>1, <2>2 DEF Saved, RegisterShape, Tables, r, w
    <3>2. RowIn(u, w, proven')
      BY <1>1 DEF RegisterShape, RowIn, r, w
    <3> QED
      BY <1>3, <2>2, <3>1, <3>2
  <2> QED
    BY <2>1, <2>2
<1>6. ASSUME NEW s \in DOMAIN req', req'[s].kind \in OnAuthKinds, req'[s].user \notin undone'
      PROVE  RowIn(req'[s].user, req'[s].write["auth"], proven' \union Proves(req'[s]))
  <2>1. req'[s] = req[s] /\ s \in DOMAIN req /\ req[s].user # r.user
    BY <1>2
  <2>2. RowIn(req[s].user, req[s].write["auth"], proven \union Proves(req[s]))
    BY <1>3, <1>6, <2>1 DEF Proved
  <2> QED
    BY <1>4, <2>1, <2>2
<1> QED
  BY <1>5, <1>6 DEF Proved

LEMMA ProvedStep == ASSUME TypeInv, Proved, [Next]_vars PROVE Proved'
<1>1. ASSUME NEW q \in Requests, Begun(q) PROVE Proved'
  BY <1>1, AllBegin, BeginsProved
<1>2. ASSUME NEW q \in DOMAIN req, SyncStripe(q) \/ Rollback(q) PROVE Proved'
  <2>1. /\ UNCHANGED <<auth, session, proven, undone>>
        /\ DOMAIN req' = DOMAIN req \ {q}  /\ \A s \in DOMAIN req' : req'[s] = req[s]
    BY <1>2, SyncIs, FinishIs DEF Rollback, Stored
  <2> QED
    BY <2>1 DEF Proved, Known
<1>3. CASE DeleteUser
  <2>1. PICK u : /\ DOMAIN auth' = DOMAIN auth \ {u}  /\ \A v \in DOMAIN auth' : auth'[v] = auth[v]
                 /\ UNCHANGED <<session, req>>
                 /\ proven' = {x \in proven : x[1] # u}  /\ undone' = undone \union {u}
    BY <1>3, DeleteIs DEF Forgets
  <2>2. ASSUME NEW v, NEW a, NEW P, v # u, RowIn(v, a, proven \union P)
        PROVE  RowIn(v, a, proven' \union P)
    BY <2>1, <2>2 DEF RowIn
  <2>3. ASSUME NEW v \in Known' \ undone'
        PROVE  RowIn(v, auth'[v], proven') /\ (v \in session' => auth'[v].verified)
    <3>1. v # u /\ v \in Known \ undone /\ auth'[v] = auth[v]
      BY <2>1 DEF Known
    <3>2. RowIn(v, auth[v], proven \union {})
      BY <3>1, RowInMore DEF Proved
    <3>3. RowIn(v, auth[v], proven' \union {})
      BY <2>2, <3>1, <3>2
    <3> QED
      BY <2>1, <3>1, <3>3, RowInMore DEF Proved
  <2>4. ASSUME NEW s \in DOMAIN req', req'[s].kind \in OnAuthKinds, req'[s].user \notin undone'
        PROVE  RowIn(req'[s].user, req'[s].write["auth"], proven' \union Proves(req'[s]))
    <3>1. req[s].user # u /\ req[s].user \notin undone
      BY <2>1, <2>4
    <3>2. RowIn(req[s].user, req[s].write["auth"], proven \union Proves(req[s]))
      BY <2>1, <2>4, <3>1 DEF Proved
    <3> QED
      BY <2>1, <2>2, <3>1, <3>2
  <2> QED
    BY <2>3, <2>4 DEF Proved
<1>4. CASE Quiet
  BY <1>4 DEF Quiet, Stored, Proved, Known
<1> QED
  BY <1>1, <1>2, <1>3, <1>4, NextIs, CommitProved, RegisterProved

\* A verified account's address is one whose code its holder entered, for any number of
\* overlapping requests, where no save has taken a verification back or revived the account.
THEOREM VerifiedIsProven == Spec => []AddressIsProven
<1>1. Init => Proved
  BY DEF Init, Nobody, Proved, Known
<1>2. Proved => AddressIsProven
  BY DEF Proved, RowIn, AddressIsProven
<1> QED
  BY <1>1, <1>2, ProvedStep, RequestsAreShaped, PTL DEF Spec

-----------------------------------------------------------------------------
(* The address in three tables and at Stripe.                              *)

LEMMA CommitAgrees ==
    ASSUME TypeInv, EmailsAgree, NEW q \in DOMAIN req, CommitOther(q) PROVE EmailsAgree'
<1> DEFINE r == req[q]
<1>1. /\ r.kind \notin {"register", "sync"}  /\ SaveShape(r)
      /\ Saved(auth', auth, "auth", r)  /\ Saved(users', users, "users", r)
      /\ Saved(subs', subs, "subs", r)
      /\ DOMAIN auth' \subseteq DOMAIN users'
  BY CommitIs
<1>2. /\ \A s \in DOMAIN req : s # q => s \in DOMAIN req' /\ req'[s] = req[s]
      /\ Moves(r) => q \in DOMAIN req' /\ req'[q].kind = "sync" /\ req'[q].user = r.user
  BY CommitIs
<1>3. /\ UNCHANGED <<stripe, refused>>
      /\ restored' = IF Moves(r) /\ "subs" \in DOMAIN r.write THEN restored \ {r.user}
                     ELSE IF \/ Moves(r)
                             \/ BringsBack(auth, "auth", r) \/ BringsBack(users, "users", r)
                             \/ BringsBack(subs, "subs", r)
                     THEN restored \union {r.user} ELSE restored
  BY DEF CommitOther
<1> HIDE DEF r
<1> SUFFICES ASSUME NEW u \in Known' \ restored'
             PROVE  /\ u \in DOMAIN subs'
                    /\ users'[u].email = auth'[u].email  /\ subs'[u].email = auth'[u].email
                    /\ (\A s \in Running(u)' : req'[s].kind # "sync") /\ u \notin refused'
                          => stripe'[u].email = auth'[u].email
  BY DEF EmailsAgree
<1>4. CASE u = r.user /\ Moves(r)
  <2>1. {"auth", "users", "subs"} \subseteq DOMAIN r.write
    BY <1>1, <1>3, <1>4 DEF SaveShape
  <2>2. /\ u \in DOMAIN subs'  /\ auth'[u] = r.write["auth"]
        /\ users'[u] = r.write["users"]  /\ subs'[u] = r.write["subs"]
    BY <1>1, <1>4, <2>1 DEF Saved
  <2>3. r.write["users"].email = r.write["auth"].email /\ r.write["subs"].email = r.write["auth"].email
    BY <1>1, <1>4, <2>1 DEF SaveShape
  <2>4. q \in Running(u)' /\ req'[q].kind = "sync"
    BY <1>2, <1>4 DEF Running
  <2> QED
    BY <2>2, <2>3, <2>4
<1>5. CASE u # r.user \/ ~Moves(r)
  <2>1. /\ u \in Known \ restored  /\ auth'[u].email = auth[u].email
        /\ users'[u].email = users[u].email  /\ (u \in DOMAIN subs => u \in DOMAIN subs')
        /\ u \in DOMAIN subs => subs'[u].email = subs[u].email
    <3>1. CASE u # r.user
      BY <1>1, <1>3, <3>1 DEF Saved, Known, TypeInv, TypeOK
    <3>2. CASE u = r.user
      <4>1. /\ ~Moves(r)  /\ u \notin restored
            /\ ~BringsBack(auth, "auth", r)  /\ ~BringsBack(users, "users", r)
            /\ ~BringsBack(subs, "subs", r)
        BY <1>3, <1>5, <3>2
      <4>2. /\ "auth" \in DOMAIN r.write => u \in Known /\ auth[u].email = r.write["auth"].email
            /\ "users" \in DOMAIN r.write => u \in DOMAIN users /\ users[u].email = r.write["users"].email
            /\ "subs" \in DOMAIN r.write => u \in DOMAIN subs /\ subs[u].email = r.write["subs"].email
        BY <1>1, <3>2, <4>1 DEF SaveShape, BringsBack, Known
      <4>3. u \in Known /\ auth'[u].email = auth[u].email
        BY <1>1, <3>2, <4>2 DEF Saved, Known
      <4>4. users'[u].email = users[u].email
        BY <1>1, <3>2, <4>2, <4>3 DEF Saved
      <4>5. u \in DOMAIN subs => u \in DOMAIN subs' /\ subs'[u].email = subs[u].email
        BY <1>1, <3>2, <4>2 DEF Saved
      <4> QED
        BY <4>1, <4>3, <4>4, <4>5
    <3> QED
      BY <3>1, <3>2
  <2>2. (\A s \in Running(u)' : req'[s].kind # "sync") => \A s \in Running(u) : req[s].kind # "sync"
    BY <1>1, <1>2 DEF Running, r
  <2> QED
    BY <1>3, <2>1, <2>2 DEF EmailsAgree
<1> QED
  BY <1>4, <1>5

LEMMA RegisterAgrees ==
    ASSUME TypeInv, EmailsAgree, NEW q \in DOMAIN req, CommitRegister(q) PROVE EmailsAgree'
<1> DEFINE r == req[q]
<1>1. /\ RegisterShape(r)
      /\ Saved(auth', auth, "auth", r)  /\ Saved(users', users, "users", r)
      /\ Saved(subs', subs, "subs", r)
  BY RegisterIs
<1>2. /\ DOMAIN req' = DOMAIN req \ {q}  /\ \A s \in DOMAIN req' : req'[s] = req[s]
      /\ stripe'[r.user] = r.write["subs"]
      /\ \A v \in DOMAIN stripe : v # r.user => stripe'[v] = stripe[v]
  BY RegisterIs
<1>3. restored' = restored \ {r.user} /\ refused' = refused \ {r.user}
  BY DEF CommitRegister
<1> HIDE DEF r
<1> SUFFICES ASSUME NEW u \in Known' \ restored'
             PROVE  /\ u \in DOMAIN subs'
                    /\ users'[u].email = auth'[u].email  /\ subs'[u].email = auth'[u].email
                    /\ (\A s \in Running(u)' : req'[s].kind # "sync") /\ u \notin refused'
                          => stripe'[u].email = auth'[u].email
  BY DEF EmailsAgree
<1>4. CASE u = r.user
  <2>1. /\ u \in DOMAIN subs'  /\ auth'[u] = r.write["auth"]
        /\ users'[u] = r.write["users"]  /\ subs'[u] = r.write["subs"]
    BY <1>1, <1>4 DEF Saved, RegisterShape, Tables
  <2>2. r.write["users"].email = r.write["auth"].email /\ r.write["subs"].email = r.write["auth"].email
    BY <1>1 DEF RegisterShape, Tables
  <2> QED
    BY <1>2, <1>4, <2>1, <2>2
<1>5. CASE u # r.user
  <2>1. /\ u \in Known \ restored  /\ auth'[u] = auth[u]
        /\ u \in DOMAIN users  /\ users'[u] = users[u]  /\ stripe'[u] = stripe[u]
    BY <1>1, <1>2, <1>3, <1>5 DEF Saved, Known, TypeInv, TypeOK
  <2>2. u \in DOMAIN subs => u \in DOMAIN subs' /\ subs'[u] = subs[u]
    BY <1>1, <1>5 DEF Saved
  <2>3. Running(u)' = Running(u) /\ \A s \in Running(u) : req'[s] = req[s]
    BY <1>2, <1>5 DEF Running, r
  <2>4. u \in refused' <=> u \in refused
    BY <1>3, <1>5
  <2> QED
    BY <2>1, <2>2, <2>3, <2>4 DEF EmailsAgree
<1> QED
  BY <1>4, <1>5

LEMMA AgreeStep == ASSUME TypeInv, EmailsAgree, [Next]_vars PROVE EmailsAgree'
<1>1. ASSUME NEW q \in Requests, Begun(q) PROVE EmailsAgree'
  <2>1. Begins(q)
    BY <1>1, AllBegin
  <2>2. UNCHANGED <<auth, users, subs, stripe, refused, restored>>
    BY <2>1 DEF Begins, Stored
  <2>3. \A r \in DOMAIN req : r \in DOMAIN req' /\ req'[r].kind = req[r].kind /\ req'[r].user = req[r].user
    BY <2>1 DEF Begins, Joins, Like
  <2> QED
    BY <2>2, <2>3 DEF EmailsAgree, Running, Known
<1>2. ASSUME NEW q \in DOMAIN req, SyncStripe(q) PROVE EmailsAgree'
  <2>1. /\ UNCHANGED <<auth, users, subs, restored>>
        /\ \A v \in DOMAIN stripe : v # req[q].user => stripe'[v] = stripe[v]
        /\ \A v : v # req[q].user => (v \in refused' <=> v \in refused)
        /\ req[q].user \notin refused' /\ req[q].user \in Known =>
              stripe'[req[q].user].email = auth[req[q].user].email
        /\ DOMAIN req' = DOMAIN req \ {q}  /\ \A s \in DOMAIN req' : req'[s] = req[s]
    BY <1>2, SyncIs
  <2>2. ASSUME NEW u \in Known, u # req[q].user
        PROVE  /\ Running(u)' = Running(u) /\ \A s \in Running(u) : req'[s] = req[s]
               /\ u \in DOMAIN stripe
    BY <2>1, <2>2 DEF Running, TypeInv, TypeOK
  <2> QED
    BY <2>1, <2>2 DEF EmailsAgree, Known
<1>3. ASSUME NEW q \in DOMAIN req, Rollback(q) PROVE EmailsAgree'
  <2>1. /\ UNCHANGED <<auth, users, subs, stripe, refused, restored>>  /\ req[q].kind # "sync"
        /\ DOMAIN req' = DOMAIN req \ {q}  /\ \A s \in DOMAIN req' : req'[s] = req[s]
    BY <1>3, FinishIs DEF Rollback, Stored
  <2> QED
    BY <2>1 DEF EmailsAgree, Known, Running
<1>4. CASE DeleteUser
  <2>1. PICK u \in DOMAIN users :
            /\ DOMAIN auth' = DOMAIN auth \ {u}  /\ DOMAIN users' = DOMAIN users \ {u}
            /\ DOMAIN subs' = DOMAIN subs \ {u}
            /\ \A v \in DOMAIN auth' : auth'[v] = auth[v]
            /\ \A v \in DOMAIN users' : users'[v] = users[v]
            /\ \A v \in DOMAIN subs' : subs'[v] = subs[v]
            /\ UNCHANGED <<stripe, req>>
            /\ refused' = refused \ {u}  /\ restored' = restored \ {u}
    BY <1>4, DeleteIs DEF Forgets
  <2> QED
    BY <2>1 DEF EmailsAgree, Known, Running, TypeInv, TypeOK
<1>5. CASE Quiet
  BY <1>5 DEF Quiet, Stored, EmailsAgree, Known, Running
<1> QED
  BY <1>1, <1>2, <1>3, <1>4, <1>5, NextIs, CommitAgrees, RegisterAgrees

\* The three tables agree on every account's address, and Stripe agrees with them once
\* it was told and did not refuse, for any number of overlapping requests, but where a
\* save has brought back an address it had read before.
THEOREM AddressesAgree == Spec => []EmailsAgree
<1>1. Init => EmailsAgree
  BY DEF Init, Nobody, EmailsAgree, Known
<1> QED
  BY <1>1, AgreeStep, RequestsAreShaped, PTL DEF Spec

-----------------------------------------------------------------------------
(* What a save undoes.                                                     *)

\* A save that read the row as it is changes only the columns its request is for, so
\* that only a stale one undoes what another request committed.
THEOREM StaleSavesAlone == Spec => OnlyStaleSavesUndo
<1> DEFINE A == \A u \in Known \intersect DOMAIN auth' :
                   \A c \in DOMAIN auth[u] : auth'[u][c] # auth[u][c] =>
                       \E q \in Running(u) :
                           /\ q \notin DOMAIN req' \/ req'[q].kind # req[q].kind
                           /\ c \in Columns(req[q].kind) \/ req[q].seen # auth[u]
<1>1. ASSUME TypeInv, [Next]_vars PROVE A
  <2> SUFFICES ASSUME NEW u \in Known \intersect DOMAIN auth', NEW c \in DOMAIN auth[u],
                      auth'[u][c] # auth[u][c]
               PROVE  \E q \in Running(u) :
                          /\ q \notin DOMAIN req' \/ req'[q].kind # req[q].kind
                          /\ c \in Columns(req[q].kind) \/ req[q].seen # auth[u]
    OBVIOUS
  <2>1. \E q \in DOMAIN req : CommitOther(q) /\ req[q].user = u
    <3>1. ASSUME NEW q \in Requests, Begun(q) PROVE FALSE
      BY <3>1, <1>1, AllBegin DEF Begins, Stored
    <3>2. ASSUME NEW q \in DOMAIN req, SyncStripe(q) \/ Rollback(q) PROVE FALSE
      BY <3>2 DEF SyncStripe, Rollback, Stored
    <3>3. ASSUME DeleteUser PROVE FALSE
      BY <1>1, <3>3, DeleteIs
    <3>4. ASSUME NEW q \in DOMAIN req, CommitRegister(q) PROVE FALSE
      <4>1. Saved(auth', auth, "auth", req[q]) /\ req[q].user \notin DOMAIN users
        BY <1>1, <3>4, RegisterIs
      <4> QED
        BY <1>1, <4>1 DEF Saved, TypeInv, TypeOK, Known
    <3>5. ASSUME NEW q \in DOMAIN req, CommitOther(q) PROVE req[q].user = u
      <4>1. Saved(auth', auth, "auth", req[q])
        BY <1>1, <3>5, CommitIs
      <4> QED
        BY <4>1 DEF Saved, Known
    <3>6. ~Quiet
      BY DEF Quiet, Stored
    <3> QED
      BY <1>1, <3>1, <3>2, <3>3, <3>4, <3>5, <3>6, NextIs
  <2>2. PICK q \in DOMAIN req : CommitOther(q) /\ req[q].user = u
    BY <2>1
  <2>3. /\ req[q].kind \notin {"register", "sync"}  /\ SaveShape(req[q])  /\ OfType(req[q])
        /\ Saved(auth', auth, "auth", req[q])
        /\ q \in DOMAIN req' => req'[q].kind = "sync"
    BY <1>1, <2>2, CommitIs
  <2>4. auth'[u] = req[q].write["auth"] /\ "auth" \in DOMAIN req[q].write
    BY <2>2, <2>3 DEF Saved, Known
  <2>5. CASE req[q].seen # auth[u]
    BY <2>2, <2>3, <2>5 DEF Running
  <2>6. CASE req[q].seen = auth[u]
    <3>1. DOMAIN auth[u] = DOMAIN req[q].write["auth"]
      BY <1>1, <2>3, <2>4 DEF OfType, Auth, TypeInv, TypeOK
    <3>2. c \in Columns(req[q].kind)
      BY <2>3, <2>4, <2>6, <3>1 DEF SaveShape
    <3> QED
      BY <2>2, <2>3, <3>2 DEF Running
  <2> QED
    BY <2>5, <2>6
<1>2. OnlyStaleSavesUndo <=> [][A]_vars
  BY DEF OnlyStaleSavesUndo
<1> HIDE DEF A
<1>3. TypeInv /\ [Next]_vars => [A]_vars
  BY <1>1
<1> QED
  BY <1>2, <1>3, RequestsAreShaped, PTL DEF Spec

-------------------------------------------------------------------------------
(* Part 2: Personas. *)

(***************************************************************************)
(* The least and the greatest of a finite set.                             *)
(***************************************************************************)

LEMMA LeastExists ==
    ASSUME NEW S, IsFiniteSet(S), S # {}, NEW v \in [S -> Int]
    PROVE  \E s \in S : \A x \in S : v[s] <= v[x]
<1> DEFINE Below(s) == {x \in S : v[x] < v[s]}
           T == {Below(s) : s \in S}
<1>1. T \subseteq FiniteSubsetsOf(S)
  <2> SUFFICES ASSUME NEW s \in S PROVE Below(s) \in SUBSET S /\ IsFiniteSet(Below(s))
    BY DEF FiniteSubsetsOf
  <2>1. Below(s) \subseteq S
    OBVIOUS
  <2> QED
    BY <2>1, FS_Subset
<1>2. T # {}
  <2>1. PICK s \in S : TRUE
    OBVIOUS
  <2>2. Below(s) \in T
    OBVIOUS
  <2> QED
    BY <2>2
<1>3. PICK t \in T : \A u \in T : ~(<<u, t>> \in StrictSubsetOrdering(S))
  <2> HIDE DEF T
  <2>1. IsWellFoundedOn(StrictSubsetOrdering(S), FiniteSubsetsOf(S))
    BY FS_StrictSubsetOrderingWellFounded
  <2> QED
    BY <1>1, <1>2, <2>1, WFMin
<1>4. PICK s \in S : t = Below(s)
  OBVIOUS
<1>5. ASSUME NEW x \in S, v[x] < v[s] PROVE FALSE
  <2>1. Below(x) \in T /\ Below(x) \subseteq S /\ Below(s) \subseteq S
    OBVIOUS
  <2>2. Below(x) \subseteq Below(s)
    BY <1>5
  <2>3. x \in Below(s) /\ x \notin Below(x)
    BY <1>5
  <2>4. <<Below(x), Below(s)>> \in StrictSubsetOrdering(S)
    BY <2>1, <2>2, <2>3 DEF StrictSubsetOrdering
  <2> QED
    BY <1>3, <1>4, <2>1, <2>4
<1> QED
  BY <1>5

LEMMA MinIsLeast ==
    ASSUME NEW S, IsFiniteSet(S), S # {}, S \subseteq Int
    PROVE  Min(S) \in S /\ \A x \in S : Min(S) <= x
<1> DEFINE v == [s \in S |-> s]
<1>1. v \in [S -> Int]
  OBVIOUS
<1>2. \E s \in S : \A x \in S : v[s] <= v[x]
  <2> HIDE DEF v
  <2> QED
    BY <1>1, LeastExists
<1>3. \E s \in S : \A x \in S : s <= x
  BY <1>2
<1> QED
  BY <1>3 DEF Min

LEMMA MaxIsGreatest ==
    ASSUME NEW S, IsFiniteSet(S), S # {}, S \subseteq Int
    PROVE  Max(S) \in S /\ \A x \in S : x <= Max(S)
<1> DEFINE v == [s \in S |-> -s]
<1>1. v \in [S -> Int]
  OBVIOUS
<1>2. PICK s \in S : \A x \in S : v[s] <= v[x]
  <2> HIDE DEF v
  <2> QED
    BY <1>1, LeastExists
<1>3. \A x \in S : s >= x
  BY <1>2
<1>4. \E y \in S : \A x \in S : y >= x
  BY <1>3
<1>5. Max(S) \in S /\ \A x \in S : Max(S) >= x
  BY <1>4 DEF Max
<1> QED
  BY <1>5

(***************************************************************************)
(* The invariant: an id is the name of its device, no two rows have the    *)
(* same one, and the run that resolves has a number of its own and has     *)
(* read the table as it is.                                                *)
(***************************************************************************)

Table == /\ rows \in [DOMAIN rows -> PersonaRow]
         /\ IsFiniteSet(DOMAIN rows)  /\ DOMAIN rows \subseteq Nat

IdIsDevice == \A s \in DOMAIN rows : rows[s].id = rows[s].device

IdsApart == \A s, x \in DOMAIN rows : rows[s].id = rows[x].id => s = x

Busy(r) == step[r] # "idle"

OneBusy == \A r, q \in Runs : Busy(r) /\ Busy(q) => r = q

\* The ids are of resolutions past, the one under way not among them.
IdsArePast ==
    /\ \A s \in DOMAIN rows : rows[s].id[1] <= clock
    /\ \A r \in Runs : Busy(r) =>
          /\ number[r] = clock
          /\ \A s \in DOMAIN rows : rows[s].id[1] < number[r]

ReadIsTrue ==
    \A r \in Runs :
        /\ Busy(r) => mine[r] = Restrict(rows, ActiveSlots(rows)) /\ board[r] \in Boards
        /\ step[r] = "write" => all[r] = DOMAIN rows

Fields ==
    /\ clock \in 0 .. MaxResolves
    /\ step \in [Runs -> {"idle", "read", "write"}]
    /\ board \in [Runs -> Boards \union {NoBoard}]
    /\ number \in [Runs -> 0 .. MaxResolves]
    /\ \A r \in Runs : Busy(r) => number[r] # 0
    /\ mine = [r \in Runs |-> mine[r]]
    /\ all = [r \in Runs |-> all[r]]

PersonasInv ==
    Table /\ IdIsDevice /\ IdsApart /\ OneBusy /\ IdsArePast /\ ReadIsTrue /\ Fields

LEMMA PersonasInvInit == PersonasInit => PersonasInv
<1> SUFFICES ASSUME PersonasInit PROVE PersonasInv
  OBVIOUS
<1>1. DOMAIN rows = {}
  BY DEF PersonasInit, NoSlot
<1>2. Table
  <2>1. rows = [s \in DOMAIN rows |-> rows[s]]
    BY DEF PersonasInit, NoSlot
  <2> QED
    BY <1>1, <2>1, FS_EmptySet DEF Table
<1>3. IdIsDevice /\ IdsApart
  BY <1>1 DEF IdIsDevice, IdsApart
<1>4. \A r \in Runs : ~Busy(r)
  BY DEF PersonasInit, Busy
<1>5. OneBusy /\ IdsArePast /\ ReadIsTrue
  BY <1>1, <1>4 DEF OneBusy, IdsArePast, ReadIsTrue, Busy
<1>6. Fields
  <2>1. MaxResolves \in Nat
    BY PersonasAssumption
  <2> QED
    BY <1>4, <2>1 DEF PersonasInit, Fields
<1> QED
  BY <1>2, <1>3, <1>5, <1>6 DEF PersonasInv

(***************************************************************************)
(* What a resolution makes of the table, write after write: the rows there *)
(* keep their ids, and a new one is named by its number and its place.     *)
(***************************************************************************)

Extends(t, r) ==
    /\ t \in [DOMAIN t -> PersonaRow]
    /\ IsFiniteSet(DOMAIN t)  /\ DOMAIN t \subseteq Nat
    /\ \A s \in DOMAIN t :
          /\ t[s].id = t[s].device
          /\ s \in DOMAIN rows => t[s].id = rows[s].id
          /\ s \notin DOMAIN rows =>
                \E n \in 1 .. PoolSize : s = NextSlot(r, n) /\ t[s].id = <<number[r], n>>

LEMMA RetireExtends ==
    ASSUME NEW r, NEW t, Extends(t, r), NEW slots
    PROVE  Extends(Retire(t, slots), r) /\ DOMAIN Retire(t, slots) = DOMAIN t
<1> DEFINE u == Retire(t, slots)
<1>1. DOMAIN u = DOMAIN t /\ u = [s \in DOMAIN t |-> u[s]]
  BY DEF Retire
<1>2. ASSUME NEW s \in DOMAIN t
      PROVE  u[s] \in PersonaRow /\ u[s].id = t[s].id /\ u[s].device = t[s].device
  <2>1. t[s] \in PersonaRow
    BY DEF Extends
  <2>2. u[s] = IF s \in slots /\ ~t[s].retired THEN Retired(t[s]) ELSE t[s]
    BY DEF Retire
  <2> QED
    BY <2>1, <2>2 DEF Retired, PersonaRow
<1> HIDE DEF u
<1> QED
  BY <1>1, <1>2 DEF Extends, u

LEMMA TouchExtends ==
    ASSUME NEW r, NEW t, Extends(t, r), NEW id, clock \in 0 .. MaxResolves
    PROVE  Extends(Touch(t, id), r) /\ DOMAIN Touch(t, id) = DOMAIN t
<1> DEFINE u == Touch(t, id)
<1>1. DOMAIN u = DOMAIN t /\ u = [s \in DOMAIN t |-> u[s]]
  BY DEF Touch
<1>2. ASSUME NEW s \in DOMAIN t
      PROVE  u[s] \in PersonaRow /\ u[s].id = t[s].id /\ u[s].device = t[s].device
  <2>1. t[s] \in PersonaRow
    BY DEF Extends
  <2>2. u[s] = IF t[s].id = id THEN [t[s] EXCEPT !.count = t[s].count + 1, !.used = clock]
               ELSE t[s]
    BY DEF Touch
  <2>3. t[s].count + 1 \in Nat
    <3>1. t[s].count \in Nat
      BY <2>1 DEF PersonaRow
    <3> QED
      BY <3>1
  <2> QED
    BY <2>1, <2>2, <2>3 DEF PersonaRow
<1> HIDE DEF u
<1> QED
  BY <1>1, <1>2 DEF Extends, u

LEMMA RestrictExtends ==
    ASSUME NEW r, NEW t, Extends(t, r), NEW D \in SUBSET DOMAIN t
    PROVE  Extends(Restrict(t, D), r)
<1>1. /\ DOMAIN Restrict(t, D) = D /\ Restrict(t, D) = [s \in D |-> Restrict(t, D)[s]]
      /\ \A s \in D : Restrict(t, D)[s] = t[s]
  BY DEF Restrict
<1>2. IsFiniteSet(D)
  BY FS_Subset DEF Extends
<1> QED
  BY <1>1, <1>2 DEF Extends

\* An upsert of a device under a slot and an id that go together.
LEMMA SaveExtends ==
    ASSUME NEW r, NEW t, Extends(t, r), NEW s \in Nat, NEW row \in PersonaRow,
           s \in DOMAIN t => row.device = t[s].device,
           s \notin DOMAIN t =>
              /\ s \notin DOMAIN rows  /\ row.id = row.device
              /\ \E n \in 1 .. PoolSize : s = NextSlot(r, n) /\ row.id = <<number[r], n>>
    PROVE  Extends(Save(t, s, row), r) /\ DOMAIN Save(t, s, row) = DOMAIN t \union {s}
<1> DEFINE u == Save(t, s, row)
<1>1. DOMAIN u = DOMAIN t \union {s} /\ u = [x \in DOMAIN t \union {s} |-> u[x]]
  BY DEF Save
<1>2. \A x \in DOMAIN t \union {s} :
         u[x] = IF x # s THEN t[x]
                ELSE IF s \in DOMAIN t THEN [row EXCEPT !.id = t[s].id] ELSE row
  BY DEF Save
<1>3. s \in DOMAIN t => /\ [row EXCEPT !.id = t[s].id] \in PersonaRow
                        /\ [row EXCEPT !.id = t[s].id].id = t[s].id
                        /\ [row EXCEPT !.id = t[s].id].device = t[s].device
  <2>1. s \in DOMAIN t => t[s] \in PersonaRow
    BY DEF Extends
  <2> QED
    BY <2>1 DEF PersonaRow
<1>4. IsFiniteSet(DOMAIN t \union {s})
  BY FS_AddElement DEF Extends
<1> HIDE DEF u
<1>5. \A x \in DOMAIN u :
         /\ u[x] \in PersonaRow
         /\ u[x].id = u[x].device
         /\ x \in DOMAIN rows => u[x].id = rows[x].id
         /\ x \notin DOMAIN rows =>
               \E n \in 1 .. PoolSize : x = NextSlot(r, n) /\ u[x].id = <<number[r], n>>
  <2> SUFFICES ASSUME NEW x \in DOMAIN u
               PROVE  /\ u[x] \in PersonaRow
                      /\ u[x].id = u[x].device
                      /\ x \in DOMAIN rows => u[x].id = rows[x].id
                      /\ x \notin DOMAIN rows =>
                            \E n \in 1 .. PoolSize : x = NextSlot(r, n) /\ u[x].id = <<number[r], n>>
    OBVIOUS
  <2>1. CASE x # s
    <3>1. x \in DOMAIN t /\ u[x] = t[x]
      BY <1>1, <1>2, <2>1
    <3> QED
      BY <3>1 DEF Extends
  <2>2. CASE x = s /\ s \in DOMAIN t
    BY <1>1, <1>2, <1>3, <2>2 DEF Extends
  <2>3. CASE x = s /\ s \notin DOMAIN t
    BY <1>1, <1>2, <2>3
  <2> QED
    BY <2>1, <2>2, <2>3
<1>6. u \in [DOMAIN u -> PersonaRow] /\ DOMAIN u \subseteq Nat
  BY <1>1, <1>5 DEF Extends
<1> QED
  BY <1>1, <1>4, <1>5, <1>6 DEF Extends, u

(***************************************************************************)
(* The two modes.                                                          *)
(***************************************************************************)

LEMMA RowsExtend == ASSUME PersonasInv, NEW r PROVE Extends(rows, r)
BY DEF PersonasInv, Table, IdIsDevice, Extends

\* The slots of new devices follow those that are there.
LEMMA SlotsAreNew ==
    ASSUME PersonasInv, NEW r \in Runs, step[r] = "write"
    PROVE  \E base \in Nat : /\ \A n \in Nat : NextSlot(r, n) = n - 1 + base
                            /\ \A s \in DOMAIN rows : s < base
<1>1. all[r] = DOMAIN rows /\ IsFiniteSet(all[r]) /\ all[r] \subseteq Nat
  BY DEF PersonasInv, ReadIsTrue, Table
<1>2. CASE all[r] = {}
  <2>1. \A n \in Nat : NextSlot(r, n) = n - 1 + 0
    BY <1>2 DEF NextSlot
  <2> QED
    BY <1>1, <1>2, <2>1
<1>3. CASE all[r] # {}
  <2>1. Max(all[r]) \in all[r] /\ \A s \in all[r] : s <= Max(all[r])
    <3>1. all[r] \subseteq Int
      BY <1>1
    <3> QED
      BY <1>1, <1>3, <3>1, MaxIsGreatest
  <2>2. PICK top \in Nat : top = Max(all[r])
    BY <1>1, <2>1
  <2>3. \A n \in Nat : NextSlot(r, n) = n - 1 + (top + 1)
    BY <1>3, <2>2 DEF NextSlot
  <2>4. \A s \in DOMAIN rows : s < top + 1
    <3> SUFFICES ASSUME NEW s \in DOMAIN rows PROVE s < top + 1
      OBVIOUS
    <3>1. s \in Nat /\ s <= top
      BY <1>1, <2>1, <2>2
    <3> QED
      BY <3>1
  <2> QED
    BY <2>3, <2>4
<1> QED
  BY <1>2, <1>3

\* A new device, by its number and its place.
LEMMA DeviceIsNamed ==
    ASSUME PersonasInv, NEW r \in Runs, Busy(r), NEW n \in 1 .. PoolSize
    PROVE  /\ Device(r, n) \in PersonaRow
           /\ Device(r, n).id = <<number[r], n>> /\ Device(r, n).device = <<number[r], n>>
<1>1. number[r] \in 1 .. MaxResolves
  <2>1. number[r] \in 0 .. MaxResolves /\ number[r] # 0
    BY DEF PersonasInv, Fields
  <2>2. MaxResolves \in Nat
    BY PersonasAssumption
  <2> QED
    BY <2>1, <2>2
<1>2. <<number[r], n>> \in Devices
  BY <1>1 DEF Devices
<1>3. 0 \in 0 .. MaxResolves
  BY PersonasAssumption
<1> QED
  BY <1>2, <1>3 DEF Device, PersonaRow

LEMMA PerRunExtends ==
    ASSUME PersonasInv, NEW r \in Runs, step[r] = "write"
    PROVE  Extends(PerRun(r).table, r)
<1> DEFINE slot == NextSlot(r, 1)
           row == [Device(r, 1) EXCEPT !.board = board[r]]
           kept == Retire(rows, PinnedTo(mine[r], board[r]))
<1>1. Extends(kept, r) /\ DOMAIN kept = DOMAIN rows
  BY RowsExtend, RetireExtends
<1>2. slot \in Nat /\ slot \notin DOMAIN rows
  <2>1. PICK base \in Nat : /\ \A n \in Nat : NextSlot(r, n) = n - 1 + base
                           /\ \A s \in DOMAIN rows : s < base
    BY SlotsAreNew
  <2>2. slot = base
    BY <2>1
  <2> HIDE DEF slot
  <2> QED
    BY <2>1, <2>2
<1>3. 1 \in 1 .. PoolSize
  <2>1. PoolSize \in Nat \ {0}
    BY PersonasAssumption
  <2> QED
    BY <2>1
<1>4. row \in PersonaRow /\ row.id = <<number[r], 1>> /\ row.device = <<number[r], 1>>
  <2>1. Busy(r)
    BY DEF Busy
  <2>2. /\ Device(r, 1) \in PersonaRow
        /\ Device(r, 1).id = <<number[r], 1>> /\ Device(r, 1).device = <<number[r], 1>>
    BY <1>3, <2>1, DeviceIsNamed
  <2>3. board[r] \in Boards \union {NoBoard}
    BY DEF PersonasInv, Fields
  <2> QED
    BY <2>2, <2>3 DEF PersonaRow
<1>5. PerRun(r).table = Save(kept, slot, row)
  BY DEF PerRun
<1> HIDE DEF row, kept
<1>6. \E n \in 1 .. PoolSize : slot = NextSlot(r, n) /\ row.id = <<number[r], n>>
  BY <1>3, <1>4
<1> HIDE DEF slot
<1> QED
  <2>1. slot \in DOMAIN kept => row.device = kept[slot].device
    BY <1>1, <1>2
  <2>2. slot \notin DOMAIN kept =>
           /\ slot \notin DOMAIN rows  /\ row.id = row.device
           /\ \E n \in 1 .. PoolSize : slot = NextSlot(r, n) /\ row.id = <<number[r], n>>
    BY <1>2, <1>4, <1>6
  <2>3. Extends(Save(kept, slot, row), r)
    BY <1>1, <1>2, <1>4, <2>1, <2>2, SaveExtends
  <2> QED
    BY <1>5, <2>3

\* The devices that fill the pool up.
NewDevice(s, row, r) ==
    /\ row \in PersonaRow  /\ row.id = row.device
    /\ \E n \in 1 .. PoolSize : s = NextSlot(r, n) /\ row.id = <<number[r], n>>

LEMMA SaveAllExtends ==
    ASSUME NEW r, NEW t, Extends(t, r), DOMAIN t = DOMAIN rows, NEW new,
           IsFiniteSet(DOMAIN new), DOMAIN new \subseteq Nat \ DOMAIN rows,
           \A s \in DOMAIN new : NewDevice(s, new[s], r)
    PROVE  /\ Extends(SaveAll(t, new), r)
           /\ DOMAIN SaveAll(t, new) = DOMAIN rows \union DOMAIN new
           /\ \A s \in DOMAIN new : SaveAll(t, new)[s] = new[s]
<1> DEFINE u == SaveAll(t, new)
<1>1. /\ DOMAIN u = DOMAIN rows \union DOMAIN new
      /\ u = [x \in DOMAIN u |-> u[x]]
      /\ \A x \in DOMAIN rows : u[x] = t[x]
      /\ \A x \in DOMAIN new : u[x] = new[x]
  BY DEF SaveAll
<1>2. IsFiniteSet(DOMAIN rows \union DOMAIN new)
  BY FS_Union DEF Extends
<1> HIDE DEF u
<1>3. u \in [DOMAIN u -> PersonaRow] /\ DOMAIN u \subseteq Nat
  BY <1>1 DEF Extends, NewDevice
<1> QED
  BY <1>1, <1>2, <1>3 DEF Extends, NewDevice, u

LEMMA LackingDevices ==
    ASSUME NEW c \in Nat
    PROVE  LET lacks == Max({0, PoolSize - c})
           IN  /\ lacks \in 0 .. PoolSize
               /\ c = 0 => lacks # 0
<1> DEFINE S == {0, PoolSize - c}
<1>1. PoolSize \in Nat \ {0}
  BY PersonasAssumption
<1>2. PoolSize - c \in Int
  BY <1>1
<1>3. IsFiniteSet(S) /\ S # {} /\ S \subseteq Int
  <2>1. IsFiniteSet({0} \union {PoolSize - c})
    BY FS_Singleton, FS_AddElement
  <2>2. S = {0} \union {PoolSize - c}
    OBVIOUS
  <2> QED
    BY <1>2, <2>1, <2>2
<1>4. Max(S) \in S /\ \A x \in S : x <= Max(S)
  <2> HIDE DEF S
  <2> QED
    BY <1>3, MaxIsGreatest
<1>5. PICK m : m = Max(S)
  OBVIOUS
<1>6. (m = 0 \/ m = PoolSize - c) /\ 0 <= m /\ PoolSize - c <= m
  BY <1>4, <1>5
<1>7. m \in 0 .. PoolSize /\ (c = 0 => m # 0)
  BY <1>1, <1>6
<1> QED
  BY <1>5, <1>7

\* A board gets a persona of the pool.
LEMMA ClaimIsOfThePool ==
    ASSUME NEW pool, pool \in [DOMAIN pool -> PersonaRow], IsFiniteSet(DOMAIN pool),
           DOMAIN pool # {}, DOMAIN pool \subseteq Nat
    PROVE  Claim(pool) \in DOMAIN pool
<1>1. ASSUME NEW S \in SUBSET DOMAIN pool, S # {} PROVE Min(S) \in DOMAIN pool
  <2>1. IsFiniteSet(S) /\ S \subseteq Int
    BY FS_Subset
  <2> QED
    BY <1>1, <2>1, MinIsLeast
<1>2. LeastRecent(pool) # {}
  <2> DEFINE v == [s \in DOMAIN pool |-> pool[s].used]
  <2>1. v \in [DOMAIN pool -> Int]
    <3>1. MaxResolves \in Nat
      BY PersonasAssumption
    <3>2. \A s \in DOMAIN pool : pool[s].used \in 0 .. MaxResolves
      BY DEF PersonaRow
    <3> QED
      BY <3>1, <3>2
  <2>2. \E s \in DOMAIN pool : \A x \in DOMAIN pool : v[s] <= v[x]
    <3> HIDE DEF v
    <3> QED
      BY <2>1, LeastExists
  <2> QED
    BY <2>2 DEF LeastRecent
<1> DEFINE unpinned == {s \in DOMAIN pool : pool[s].board = NoBoard}
<1>3. unpinned \subseteq DOMAIN pool /\ LeastRecent(pool) \subseteq DOMAIN pool
  BY DEF LeastRecent
<1>4. CASE unpinned # {}
  <2>1. Claim(pool) = Min(unpinned)
    BY <1>4 DEF Claim
  <2> HIDE DEF unpinned
  <2> QED
    BY <1>1, <1>3, <1>4, <2>1
<1>5. CASE unpinned = {}
  <2>1. Claim(pool) = Min(LeastRecent(pool))
    BY <1>5 DEF Claim
  <2> QED
    BY <1>1, <1>2, <1>3, <2>1
<1> QED
  BY <1>4, <1>5

LEMMA PooledExtends ==
    ASSUME PersonasInv, NEW r \in Runs, step[r] = "write"
    PROVE  Extends(Pooled(r).table, r)
<1> DEFINE worn   == {s \in DOMAIN mine[r] : WornOut(mine[r][s])}
           kept   == Restrict(mine[r], DOMAIN mine[r] \ worn)
           lacks  == Max({0, PoolSize - Cardinality(DOMAIN kept)})
           fresh  == [s \in {NextSlot(r, n) : n \in 1..lacks} |->
                         CHOOSE row \in {Device(r, n) : n \in 1..lacks} :
                             \E n \in 1..lacks : s = NextSlot(r, n) /\ row = Device(r, n)]
           filled == SaveAll(Retire(rows, worn), fresh)
           pool   == [s \in DOMAIN kept \union DOMAIN fresh |->
                         IF s \in DOMAIN fresh THEN filled[s] ELSE kept[s]]
           pinned == PinnedTo(pool, board[r])
           slot   == IF pinned # {} THEN Min(pinned) ELSE Claim(pool)
<1>1. Pooled(r).table = IF pinned # {} THEN filled
                        ELSE Save(filled, slot, [pool[slot] EXCEPT !.board = board[r]])
  BY DEF Pooled
<1>2. Busy(r) /\ Table /\ IdIsDevice /\ board[r] \in Boards \union {NoBoard}
      /\ mine[r] = Restrict(rows, ActiveSlots(rows))
  BY DEF Busy, PersonasInv, ReadIsTrue, Fields
<1>3. DOMAIN mine[r] \subseteq DOMAIN rows /\ \A s \in DOMAIN mine[r] : mine[r][s] = rows[s]
  BY <1>2 DEF Restrict, ActiveSlots
<1>4. DOMAIN kept \subseteq DOMAIN rows /\ \A s \in DOMAIN kept : kept[s] = rows[s]
  BY <1>3 DEF Restrict
<1>5. Extends(Retire(rows, worn), r) /\ DOMAIN Retire(rows, worn) = DOMAIN rows
  <2> HIDE DEF worn
  <2> QED
    BY RowsExtend, RetireExtends
<1> HIDE DEF kept, worn
<1>6. IsFiniteSet(DOMAIN kept)
  BY <1>2, <1>4, FS_Subset DEF Table
<1>7. lacks \in 0 .. PoolSize /\ (DOMAIN kept = {} => lacks # 0)
  <2>1. Cardinality(DOMAIN kept) \in Nat /\ (DOMAIN kept = {} => Cardinality(DOMAIN kept) = 0)
    BY <1>6, FS_CardinalityType, FS_EmptySet
  <2> QED
    BY <2>1, LackingDevices
<1> HIDE DEF lacks
<1>8. PICK base \in Nat : /\ \A n \in Nat : NextSlot(r, n) = n - 1 + base
                         /\ \A s \in DOMAIN rows : s < base
  BY SlotsAreNew
<1>9. PoolSize \in Nat \ {0}
  BY PersonasAssumption
<1>10. DOMAIN fresh = {NextSlot(r, n) : n \in 1..lacks}
  OBVIOUS
<1>11. \A s \in DOMAIN fresh : \E n \in 1 .. PoolSize :
          s = NextSlot(r, n) /\ fresh[s] = Device(r, n)
  <2> SUFFICES ASSUME NEW s \in DOMAIN fresh
               PROVE  \E n \in 1 .. PoolSize : s = NextSlot(r, n) /\ fresh[s] = Device(r, n)
    OBVIOUS
  <2>1. PICK n \in 1 .. lacks : s = NextSlot(r, n)
    BY <1>10
  <2>2. \E row \in {Device(r, k) : k \in 1 .. lacks} :
           \E k \in 1 .. lacks : s = NextSlot(r, k) /\ row = Device(r, k)
    BY <2>1
  <2>3. \E k \in 1 .. lacks : s = NextSlot(r, k) /\ fresh[s] = Device(r, k)
    BY <2>2
  <2>4. 1 .. lacks \subseteq 1 .. PoolSize
    BY <1>7, <1>9
  <2> QED
    BY <2>3, <2>4
<1> HIDE DEF fresh
<1>12. DOMAIN fresh \subseteq Nat \ DOMAIN rows /\ DOMAIN fresh \subseteq base .. base + PoolSize
  <2> SUFFICES ASSUME NEW s \in DOMAIN fresh
               PROVE  s \in Nat /\ s \notin DOMAIN rows /\ s \in base .. base + PoolSize
    OBVIOUS
  <2>1. PICK n \in 1 .. PoolSize : s = NextSlot(r, n)
    BY <1>11
  <2>2. s = n - 1 + base
    BY <1>8, <2>1
  <2>3. s \in Nat /\ s \in base .. base + PoolSize /\ ~(s < base)
    BY <1>9, <2>2
  <2> QED
    BY <1>8, <2>3
<1>13. IsFiniteSet(DOMAIN fresh)
  <2>1. IsFiniteSet(base .. base + PoolSize)
    BY <1>9, FS_Interval
  <2> QED
    BY <1>12, <2>1, FS_Subset
<1>14. \A s \in DOMAIN fresh : NewDevice(s, fresh[s], r)
  <2>1. \A n \in 1 .. PoolSize : /\ Device(r, n) \in PersonaRow
                                /\ Device(r, n).id = <<number[r], n>>
                                /\ Device(r, n).device = <<number[r], n>>
    BY <1>2, DeviceIsNamed
  <2> QED
    BY <1>11, <2>1 DEF NewDevice
<1>15. /\ Extends(filled, r)
       /\ DOMAIN filled = DOMAIN rows \union DOMAIN fresh
       /\ \A s \in DOMAIN fresh : filled[s] = fresh[s]
  <2>1. DOMAIN fresh \subseteq Nat \ DOMAIN rows
    BY <1>12
  <2> DEFINE t == Retire(rows, worn)
  <2>2. Extends(t, r) /\ DOMAIN t = DOMAIN rows
    BY <1>5
  <2> HIDE DEF t
  <2>3. /\ Extends(SaveAll(t, fresh), r)
        /\ DOMAIN SaveAll(t, fresh) = DOMAIN rows \union DOMAIN fresh
        /\ \A s \in DOMAIN fresh : SaveAll(t, fresh)[s] = fresh[s]
    BY <1>13, <1>14, <2>1, <2>2, SaveAllExtends
  <2> QED
    BY <2>3 DEF t
<1> HIDE DEF filled
<1>16. /\ DOMAIN pool = DOMAIN kept \union DOMAIN fresh
       /\ pool = [s \in DOMAIN pool |-> pool[s]]
       /\ \A s \in DOMAIN pool : pool[s] = IF s \in DOMAIN fresh THEN filled[s] ELSE kept[s]
  OBVIOUS
<1> HIDE DEF pool
<1>17. \A s \in DOMAIN pool : /\ s \in DOMAIN filled
                             /\ pool[s] \in PersonaRow
                             /\ pool[s].device = filled[s].device
  <2> SUFFICES ASSUME NEW s \in DOMAIN pool
               PROVE  /\ s \in DOMAIN filled  /\ pool[s] \in PersonaRow
                      /\ pool[s].device = filled[s].device
    OBVIOUS
  <2>1. CASE s \in DOMAIN fresh
    BY <1>15, <1>16, <2>1 DEF Extends
  <2>2. CASE s \notin DOMAIN fresh
    <3>1. pool[s] = rows[s] /\ s \in DOMAIN rows
      BY <1>4, <1>16, <2>2
    <3>2. rows[s] \in PersonaRow /\ rows[s].id = rows[s].device
      BY <1>2, <3>1 DEF Table, IdIsDevice
    <3>3. filled[s].id = rows[s].id /\ filled[s].id = filled[s].device
      BY <1>15, <3>1 DEF Extends
    <3> QED
      BY <1>15, <3>1, <3>2, <3>3
  <2> QED
    BY <2>1, <2>2
<1>18. CASE pinned # {}
  BY <1>1, <1>15, <1>18
<1>19. CASE pinned = {}
  <2>1. pool \in [DOMAIN pool -> PersonaRow]
    BY <1>16, <1>17
  <2>2. IsFiniteSet(DOMAIN pool) /\ DOMAIN pool \subseteq Nat
    <3>1. DOMAIN pool \subseteq DOMAIN filled /\ IsFiniteSet(DOMAIN filled)
          /\ DOMAIN filled \subseteq Nat
      BY <1>15, <1>17 DEF Extends
    <3> QED
      BY <3>1, FS_Subset
  <2>3. DOMAIN pool # {}
    <3>1. CASE DOMAIN kept # {}
      BY <1>16, <3>1
    <3>2. CASE DOMAIN kept = {}
      <4>1. 1 \in 1 .. lacks
        BY <1>7, <1>9, <3>2
      <4>2. NextSlot(r, 1) \in DOMAIN fresh
        BY <1>10, <4>1
      <4> QED
        BY <1>16, <4>2
    <3> QED
      BY <3>1, <3>2
  <2>4. slot = Claim(pool) /\ slot \in DOMAIN pool
    BY <1>19, <2>1, <2>2, <2>3, ClaimIsOfThePool
  <2>5. Pooled(r).table = Save(filled, slot, [pool[slot] EXCEPT !.board = board[r]])
    BY <1>1, <1>19
  <2> HIDE DEF slot
  <2>6. [pool[slot] EXCEPT !.board = board[r]] \in PersonaRow
        /\ [pool[slot] EXCEPT !.board = board[r]].device = filled[slot].device
    BY <1>2, <1>17, <2>4 DEF PersonaRow
  <2>7. slot \in Nat /\ slot \in DOMAIN filled
    BY <1>17, <2>2, <2>4
  <2> QED
    <3> DEFINE row == [pool[slot] EXCEPT !.board = board[r]]
    <3> HIDE DEF row
    <3>1. row \in PersonaRow /\ row.device = filled[slot].device
      BY <2>6 DEF row
    <3>2. Extends(Save(filled, slot, row), r)
      BY <1>15, <2>7, <3>1, SaveExtends
    <3> QED
      BY <2>5, <3>2 DEF row
<1> QED
  BY <1>18, <1>19

(***************************************************************************)
(* The steps, when no two runs resolve at once.                            *)
(***************************************************************************)

\* What the rows of a commit are.
LEMMA CommitExtends ==
    ASSUME PersonasInv, NEW r \in Runs, Commit(r)
    PROVE  /\ Busy(r) /\ step[r] = "write"
           /\ rows' \in [DOMAIN rows' -> PersonaRow]
           /\ IsFiniteSet(DOMAIN rows')  /\ DOMAIN rows' \subseteq Nat
           /\ \A s \in DOMAIN rows' :
                 /\ rows'[s].id = rows'[s].device
                 /\ s \in DOMAIN rows => rows'[s].id = rows[s].id
                 /\ s \notin DOMAIN rows =>
                       \E n \in 1 .. PoolSize : s = NextSlot(r, n) /\ rows'[s].id = <<number[r], n>>
<1> DEFINE chosen == IF how[r] = "per_run" THEN PerRun(r) ELSE Pooled(r)
           id == chosen.table[chosen.slot].id
           touched == Touch(chosen.table, id)
<1>1. step[r] = "write" /\ Busy(r) /\ rows' = Purge(touched)
  BY DEF Commit, Busy
<1>2. Extends(chosen.table, r)
  BY <1>1, PerRunExtends, PooledExtends
<1>3. Extends(touched, r)
  <2>1. clock \in 0 .. MaxResolves
    BY DEF PersonasInv, Fields
  <2> HIDE DEF chosen, id
  <2> QED
    BY <1>2, <2>1, TouchExtends
<1> HIDE DEF touched
<1>4. Extends(Purge(touched), r)
  <2> DEFINE gone == {s \in DOMAIN touched : touched[s].retired
                        /\ Cardinality({x \in DOMAIN touched : touched[x].retired /\ x > s})
                             >= KeepRetired}
             D == DOMAIN touched \ gone
  <2>1. D \in SUBSET DOMAIN touched /\ Purge(touched) = Restrict(touched, D)
    BY DEF Purge
  <2> HIDE DEF D
  <2> QED
    BY <1>3, <2>1, RestrictExtends
<1> QED
  BY <1>1, <1>4 DEF Extends

\* The rows of a commit against the rows before it.
LEMMA CommitIsStable ==
    ASSUME PersonasInv, NEW r \in Runs, Commit(r)
    PROVE  /\ IdsApart'
           /\ \A s \in DOMAIN rows' : rows'[s].id[1] <= number[r]
           /\ \A s \in DOMAIN rows, x \in DOMAIN rows' :
                 rows[s].id = rows'[x].id => s = x /\ rows[s].device = rows'[x].device
<1>1. /\ Busy(r) /\ step[r] = "write"
      /\ \A s \in DOMAIN rows' :
            /\ rows'[s].id = rows'[s].device
            /\ s \in DOMAIN rows => rows'[s].id = rows[s].id
            /\ s \notin DOMAIN rows =>
                  \E n \in 1 .. PoolSize : s = NextSlot(r, n) /\ rows'[s].id = <<number[r], n>>
  BY CommitExtends
<1>2. IdIsDevice /\ IdsApart /\ IdsArePast /\ Fields /\ Table
  BY DEF PersonasInv
<1>3. PICK num \in Nat : num = number[r]
  <2>1. MaxResolves \in Nat
    BY PersonasAssumption
  <2> QED
    BY <1>2, <2>1 DEF Fields
<1>4. \A s \in DOMAIN rows : rows[s].id[1] < num /\ rows[s].id[1] \in Nat
  <2> SUFFICES ASSUME NEW s \in DOMAIN rows
               PROVE  rows[s].id[1] < num /\ rows[s].id[1] \in Nat
    OBVIOUS
  <2>1. rows[s].id \in Devices
    BY <1>2 DEF Table, PersonaRow
  <2>2. rows[s].id[1] \in 1 .. MaxResolves
    BY <2>1 DEF Devices
  <2>3. MaxResolves \in Nat
    BY PersonasAssumption
  <2> QED
    BY <1>1, <1>2, <1>3, <2>2, <2>3 DEF IdsArePast
<1>5. \A s \in DOMAIN rows' \ DOMAIN rows : rows'[s].id[1] = num
  BY <1>1, <1>3
<1>6. \A s, x \in DOMAIN rows' : s \notin DOMAIN rows /\ rows'[s].id = rows'[x].id => s = x
  <2> SUFFICES ASSUME NEW s \in DOMAIN rows', NEW x \in DOMAIN rows', s \notin DOMAIN rows,
                      rows'[s].id = rows'[x].id
               PROVE  s = x
    OBVIOUS
  <2>1. x \notin DOMAIN rows
    BY <1>1, <1>4, <1>5
  <2>2. PICK n \in 1 .. PoolSize : s = NextSlot(r, n) /\ rows'[s].id = <<number[r], n>>
    BY <1>1
  <2>3. PICK m \in 1 .. PoolSize : x = NextSlot(r, m) /\ rows'[x].id = <<number[r], m>>
    BY <1>1, <2>1
  <2>4. n = m
    BY <2>2, <2>3
  <2> QED
    BY <2>2, <2>3, <2>4
<1>7. IdsApart'
  <2> SUFFICES ASSUME NEW s \in DOMAIN rows', NEW x \in DOMAIN rows', rows'[s].id = rows'[x].id
               PROVE  s = x
    BY DEF IdsApart
  <2>1. CASE s \in DOMAIN rows /\ x \in DOMAIN rows
    BY <1>1, <1>2, <2>1 DEF IdsApart
  <2>2. CASE ~(s \in DOMAIN rows /\ x \in DOMAIN rows)
    BY <1>6, <2>2
  <2> QED
    BY <2>1, <2>2
<1>8. ASSUME NEW s \in DOMAIN rows, NEW x \in DOMAIN rows', rows[s].id = rows'[x].id
      PROVE  s = x /\ rows[s].device = rows'[x].device
  <2>1. x \in DOMAIN rows
    BY <1>4, <1>5, <1>8
  <2>2. rows[s].id = rows[x].id
    BY <1>1, <1>8, <2>1
  <2>3. s = x
    BY <1>2, <2>1, <2>2 DEF IdsApart
  <2> QED
    BY <1>1, <1>2, <1>8, <2>3 DEF IdIsDevice
<1>9. ASSUME NEW s \in DOMAIN rows' PROVE rows'[s].id[1] <= num
  <2>1. CASE s \in DOMAIN rows
    BY <1>1, <1>4, <2>1
  <2>2. CASE s \notin DOMAIN rows
    BY <1>5, <2>2
  <2> QED
    BY <2>1, <2>2
<1> QED
  BY <1>3, <1>7, <1>8, <1>9

LEMMA PersonasInvStep ==
    ASSUME ~Concurrent, PersonasInv, [PersonasNext]_personaVars
    PROVE  PersonasInv'
<1>1. Table /\ IdIsDevice /\ IdsApart /\ OneBusy /\ IdsArePast /\ ReadIsTrue /\ Fields
  BY DEF PersonasInv
<1>2. CASE UNCHANGED <<rows, clock, step, board, mine, all, number>>
  BY <1>1, <1>2 DEF PersonasInv, Table, IdIsDevice, IdsApart, OneBusy, IdsArePast, ReadIsTrue,
                    Fields, Busy, ActiveSlots
<1>3. ASSUME NEW r \in Runs, NEW b \in Boards, Begin(r, b) PROVE PersonasInv'
  <2>1. /\ \A q \in Runs : step[q] = "idle"
        /\ clock < MaxResolves /\ clock' = clock + 1
        /\ step' = [step EXCEPT ![r] = "read"] /\ board' = [board EXCEPT ![r] = b]
        /\ number' = [number EXCEPT ![r] = clock + 1]
        /\ mine' = [mine EXCEPT ![r] = Restrict(rows, ActiveSlots(rows))]
        /\ UNCHANGED <<rows, all>>
    BY <1>3 DEF Begin
  <2>2. PICK c \in Nat : c = clock /\ c < MaxResolves
    <3>1. MaxResolves \in Nat
      BY PersonasAssumption
    <3> QED
      BY <1>1, <2>1, <3>1 DEF Fields
  <2>3. /\ step'[r] = "read" /\ board'[r] = b /\ number'[r] = c + 1
        /\ mine'[r] = Restrict(rows, ActiveSlots(rows))
        /\ \A q \in Runs \ {r} : step'[q] = "idle"
    BY <1>1, <2>1, <2>2 DEF Fields
  <2>4. c + 1 \in 0 .. MaxResolves /\ c + 1 # 0
    <3>1. MaxResolves \in Nat
      BY PersonasAssumption
    <3> QED
      BY <2>2, <3>1
  <2>5. Fields'
    <3>1. step' \in [Runs -> {"idle", "read", "write"}]
      BY <1>1, <2>1 DEF Fields
    <3>2. board' \in [Runs -> Boards \union {NoBoard}]
      BY <1>1, <2>1 DEF Fields
    <3>3. number' \in [Runs -> 0 .. MaxResolves] /\ clock' \in 0 .. MaxResolves
      BY <1>1, <2>1, <2>2, <2>4 DEF Fields
    <3>4. \A q \in Runs : Busy(q)' => number'[q] # 0
      BY <2>3, <2>4 DEF Busy
    <3>5. mine' = [q \in Runs |-> mine'[q]] /\ all' = [q \in Runs |-> all'[q]]
      BY <1>1, <2>1 DEF Fields
    <3> QED
      BY <3>1, <3>2, <3>3, <3>4, <3>5 DEF Fields
  <2>6. Table' /\ IdIsDevice' /\ IdsApart'
    BY <1>1, <2>1 DEF Table, IdIsDevice, IdsApart
  <2>7. OneBusy'
    BY <2>3 DEF OneBusy, Busy
  <2>8. \A s \in DOMAIN rows : rows[s].id[1] < c + 1 /\ rows[s].id[1] <= c + 1
    <3> SUFFICES ASSUME NEW s \in DOMAIN rows
                 PROVE  rows[s].id[1] < c + 1 /\ rows[s].id[1] <= c + 1
      OBVIOUS
    <3>1. rows[s].id \in Devices
      BY <1>1 DEF Table, PersonaRow
    <3>2. rows[s].id[1] \in 1 .. MaxResolves /\ MaxResolves \in Nat
      BY <3>1, PersonasAssumption DEF Devices
    <3>3. rows[s].id[1] <= c
      BY <1>1, <2>2 DEF IdsArePast
    <3> QED
      BY <2>2, <3>2, <3>3
  <2>9. IdsArePast'
    <3>1. \A q \in Runs : Busy(q)' => q = r
      BY <2>3 DEF Busy
    <3> QED
      BY <2>1, <2>2, <2>3, <2>8, <3>1 DEF IdsArePast
  <2>10. ReadIsTrue'
    BY <2>1, <2>3 DEF ReadIsTrue, Busy, ActiveSlots
  <2> QED
    BY <2>5, <2>6, <2>7, <2>9, <2>10 DEF PersonasInv
<1>4. ASSUME NEW r \in Runs, ReadAll(r) PROVE PersonasInv'
  <2>1. /\ step[r] = "read" /\ step' = [step EXCEPT ![r] = "write"]
        /\ all' = [all EXCEPT ![r] = DOMAIN rows]
        /\ UNCHANGED <<rows, clock, board, mine, number>>
    BY <1>4 DEF ReadAll
  <2>2. /\ step'[r] = "write" /\ all'[r] = DOMAIN rows
        /\ \A q \in Runs \ {r} : step'[q] = step[q] /\ all'[q] = all[q]
        /\ step' \in [Runs -> {"idle", "read", "write"}]
        /\ all' = [q \in Runs |-> all'[q]]
    BY <1>1, <2>1 DEF Fields
  <2>3. \A q \in Runs : Busy(q)' <=> Busy(q)
    BY <2>1, <2>2 DEF Busy
  <2>4. Table' /\ IdIsDevice' /\ IdsApart'
    BY <1>1, <2>1 DEF Table, IdIsDevice, IdsApart
  <2>5. OneBusy' /\ IdsArePast' /\ Fields'
    BY <1>1, <2>1, <2>2, <2>3 DEF OneBusy, IdsArePast, Fields
  <2>6. ReadIsTrue'
    BY <1>1, <2>1, <2>2, <2>3 DEF ReadIsTrue, ActiveSlots
  <2> QED
    BY <2>4, <2>5, <2>6 DEF PersonasInv
<1>5. ASSUME NEW r \in Runs, Rest(r), Table', IdIsDevice', IdsApart', Busy(r),
             \A s \in DOMAIN rows' : rows'[s].id[1] <= number[r]
      PROVE  PersonasInv'
  <2>1. /\ step'[r] = "idle"  /\ \A q \in Runs \ {r} : step'[q] = step[q]
        /\ step' \in [Runs -> {"idle", "read", "write"}]
        /\ board' \in [Runs -> Boards \union {NoBoard}]
        /\ number' \in [Runs -> 0 .. MaxResolves]
        /\ mine' = [q \in Runs |-> mine'[q]] /\ all' = [q \in Runs |-> all'[q]]
        /\ clock' = clock
    <3>1. 0 \in 0 .. MaxResolves
      BY PersonasAssumption
    <3> QED
      BY <1>1, <1>5, <3>1 DEF Rest, Fields
  <2>2. \A q \in Runs : ~Busy(q)'
    BY <1>1, <1>5, <2>1 DEF OneBusy, Busy
  <2>3. OneBusy' /\ ReadIsTrue'
    BY <2>2 DEF OneBusy, ReadIsTrue, Busy
  <2>4. Fields'
    BY <1>1, <2>1, <2>2 DEF Fields
  <2>5. IdsArePast'
    <3>1. number[r] = clock'
      BY <1>1, <1>5, <2>1 DEF IdsArePast
    <3> QED
      BY <1>5, <2>2, <3>1 DEF IdsArePast
  <2> QED
    BY <1>5, <2>3, <2>4, <2>5 DEF PersonasInv
<1>6. ASSUME NEW r \in Runs, Commit(r) PROVE PersonasInv'
  <2>1. Table' /\ IdIsDevice' /\ Busy(r)
    BY <1>6, CommitExtends DEF Table, IdIsDevice
  <2>2. IdsApart' /\ \A s \in DOMAIN rows' : rows'[s].id[1] <= number[r]
    BY <1>6, CommitIsStable
  <2>3. Rest(r)
    BY <1>6 DEF Commit
  <2> QED
    BY <1>5, <2>1, <2>2, <2>3
<1>7. ASSUME NEW r \in Runs, Fail(r) PROVE PersonasInv'
  <2>1. Rest(r) /\ rows' = rows /\ Busy(r)
    BY <1>7 DEF Fail, Busy
  <2>2. \A s \in DOMAIN rows : rows[s].id[1] <= number[r]
    BY <1>1, <2>1 DEF IdsArePast
  <2>3. Table' /\ IdIsDevice' /\ IdsApart'
    BY <1>1, <2>1 DEF Table, IdIsDevice, IdsApart
  <2> QED
    BY <1>5, <2>1, <2>2, <2>3
<1>8. CASE Age \/ SwitchMode
  BY <1>2, <1>8 DEF Age, SwitchMode
<1>9. CASE UNCHANGED personaVars
  BY <1>2, <1>9 DEF personaVars
<1> QED
  BY <1>3, <1>4, <1>6, <1>7, <1>8, <1>9 DEF PersonasNext

(* Where no two runs of a user resolve their personas at once, the id that   *)
(* cookie jars and exit IPs are keyed on stands for one device and one row,  *)
(* for as long as it is in the table, in both modes and whatever is switched *)
(* or fails in between.                                                      *)
THEOREM DevicesAreStable == ASSUME ~Concurrent PROVE PersonasSpec => DeviceStable
<1> DEFINE Same == \A s \in DOMAIN rows, x \in DOMAIN rows' :
                      rows[s].id = rows'[x].id => s = x /\ rows[s].device = rows'[x].device
<1>1. PersonasInit => PersonasInv
  BY PersonasInvInit
<1>2. PersonasInv /\ [PersonasNext]_personaVars => PersonasInv'
  BY PersonasInvStep
<1>3. PersonasInv /\ [PersonasNext]_personaVars => [Same]_personaVars
  <2> SUFFICES ASSUME PersonasInv, PersonasNext PROVE Same
    OBVIOUS
  <2>1. CASE rows' = rows
    BY <2>1 DEF PersonasInv, IdsApart
  <2>2. ASSUME NEW r \in Runs, Commit(r) PROVE Same
    BY <2>2, CommitIsStable
  <2>3. rows' # rows => \E r \in Runs : Commit(r)
    BY DEF PersonasNext, Begin, ReadAll, Fail, Age, SwitchMode
  <2> QED
    BY <2>1, <2>2, <2>3
<1>4. DeviceStable <=> [][Same]_personaVars
  BY DEF DeviceStable
<1> QED
  BY <1>1, <1>2, <1>3, <1>4, PTL DEF PersonasSpec

===============================================================================
