------------------------------ MODULE Accounts ------------------------------
(***************************************************************************)
(* Accounts and tokens: the users collection with its unique indexes, and  *)
(* the three requests of auth.service, as the tabs of one browser have     *)
(* them outstanding.                                                       *)
(*                                                                         *)
(* A signup is two steps, the look for an existing account and, after the  *)
(* password is hashed, the creation; a tab that lost its request or was    *)
(* reloaded leaves the signup running.  Login and me write nothing and are *)
(* one step each.  A token is what verifyToken reads in it.  The user id   *)
(* is the username, which is unique and never changes.                     *)
(***************************************************************************)
EXTENDS Naturals

CONSTANTS
    Tabs,       \* tabs of one browser
    Forms,      \* what may be typed: [username, email, password]
    LowerCase,  \* the email as the schema's lowercase setter stores it
    Lifetime,   \* JWT_EXPIRES_IN
    MaxNow,     \* bound: the clock
    None        \* no token, no caller, no request

Usernames == {f.username : f \in Forms}
Emails == {f.email : f \in Forms}
Passwords == {f.password : f \in Forms}

Tokens == [username : Usernames, exp : Nat]

(* A request carries the form, or the token to check. *)
Calls == [kind : {"login", "signup"}, form : Forms] \cup [kind : {"me"}, token : Tokens]

Replies == [status : {200, 201, 401, 404, 409, 500},
            token : Tokens \cup {None}, field : {"email", "username", None}]

ASSUME AccountsAssumption ==
    /\ Forms \subseteq [username : Usernames, email : Emails, password : Passwords]
    /\ LowerCase \in [Emails -> Emails]
    /\ Lifetime \in Nat \ {0}
    /\ MaxNow \in Nat
    /\ None \notin Tabs \cup Usernames \cup Tokens \cup Calls \cup Replies

VARIABLES
    accounts,   \* the users collection
    hashing,    \* signups that found no existing account, and whose they are
    now,        \* the server's clock
    call,       \* the request each tab awaits
    reply       \* its answer, on the way back

accountVars == <<accounts, hashing, now, call, reply>>

Set(fun, t, val) == [fun EXCEPT ![t] = val]

SignTokenFor(username) == [username |-> username, exp |-> now + Lifetime]

(* jwt.verify throws at the second of expiry. *)
VerifyToken(tk) == now < tk.exp

Answer(t, status, tk, field) ==
    reply' = Set(reply, t, [status |-> status, token |-> tk, field |-> field])

(* The request of t is on its way to the server. *)
Sent(t, kind) ==
    /\ call[t] # None
    /\ call[t].kind = kind
    /\ reply[t] = None
    /\ \A h \in hashing : h.caller # t

(* Signups nobody waits for any more go on. *)
Abandoned(t) ==
    {IF h.caller = t THEN [h EXCEPT !.caller = None] ELSE h : h \in hashing}

AccountsInit ==
    /\ accounts = {}
    /\ hashing = {}
    /\ now = 0
    /\ call = [t \in Tabs |-> None]
    /\ reply = [t \in Tabs |-> None]

(* Queries lower-case the email too: setters run on filters. *)
Existing(f) ==
    {a \in accounts : a.email = LowerCase[f.email] \/ a.username = f.username}

(* A slip the runs catch: the two fields are swapped. *)
OtherConflictField(a, f) == IF a.username = f.username THEN "email" ELSE "username"

(* The comparison is with the email as typed. *)
ConflictField(a, f) == IF a.email = f.email THEN "email" ELSE "username"

(* findOne of signup: a conflict, or on to the hash. *)
SignupChecks(t) ==
    /\ Sent(t, "signup")
    /\ LET f == call[t].form IN
       \/ /\ \E a \in Existing(f) : Answer(t, 409, None, ConflictField(a, f))
          /\ UNCHANGED hashing
       \/ /\ Existing(f) = {}
          /\ hashing' = hashing \cup {[caller |-> t, form |-> f]}
          /\ UNCHANGED reply
    /\ UNCHANGED <<accounts, now, call>>

Tell(h, status, tk) ==
    IF h.caller = None THEN UNCHANGED reply ELSE Answer(h.caller, status, tk, None)

(* A slip the runs catch: the schema has no lowercase setter. *)
NewAccountAsTyped(f) == f

NewAccount(f) ==
    [username |-> f.username, email |-> LowerCase[f.email], password |-> f.password]

(* A slip the runs catch: the collection without its unique indexes. *)
SignupCreatesUnindexed(h) ==
    /\ hashing' = hashing \ {h}
    /\ accounts' = accounts \cup {NewAccount(h.form)}
    /\ Tell(h, 201, SignTokenFor(h.form.username))
    /\ UNCHANGED <<now, call>>

(* User.create: a duplicate key error becomes a 500. *)
SignupCreates(h) ==
    /\ hashing' = hashing \ {h}
    /\ IF Existing(h.form) = {}
       THEN /\ accounts' = accounts \cup {NewAccount(h.form)}
            /\ Tell(h, 201, SignTokenFor(h.form.username))
       ELSE Tell(h, 500, None) /\ UNCHANGED accounts
    /\ UNCHANGED <<now, call>>

(* bcrypt.hash or User.create rejects. *)
SignupFails(h) ==
    /\ hashing' = hashing \ {h}
    /\ Tell(h, 500, None)
    /\ UNCHANGED <<accounts, now, call>>

(* login: the account of the email, if the password is its. *)
LoginAnswered(t) ==
    /\ Sent(t, "login")
    /\ LET f == call[t].form
           found == {a \in accounts : /\ a.email = LowerCase[f.email]
                                      /\ a.password = f.password}
       IN  \/ \E a \in found : Answer(t, 200, SignTokenFor(a.username), None)
           \/ found = {} /\ Answer(t, 401, None, None)
    /\ UNCHANGED <<accounts, hashing, now, call>>

GetProfile(username) == {a \in accounts : a.username = username}

(* authMiddleware, then the profile of the token's user. *)
MeAnswered(t) ==
    /\ Sent(t, "me")
    /\ LET tk == call[t].token IN
       \/ ~VerifyToken(tk) /\ Answer(t, 401, None, None)
       \/ /\ VerifyToken(tk)
          /\ IF GetProfile(tk.username) # {}
             THEN Answer(t, 200, tk, None)
             ELSE Answer(t, 404, None, None)
    /\ UNCHANGED <<accounts, hashing, now, call>>

(* The network, the rate limiter or a query fails the request: to the tab  *)
(* all of these are an error, and a signup under way goes on.              *)
CallFails(t) ==
    /\ call[t] # None
    /\ reply[t] = None
    /\ Answer(t, 500, None, None)
    /\ hashing' = Abandoned(t)
    /\ UNCHANGED <<accounts, now, call>>

Tick ==
    /\ now < MaxNow
    /\ now' = now + 1
    /\ UNCHANGED <<accounts, hashing, call, reply>>

(* The server, or the network, brings the request of t further. *)
Served(t) ==
    \/ SignupChecks(t) \/ LoginAnswered(t) \/ MeAnswered(t) \/ CallFails(t)
    \/ \E h \in hashing : h.caller = t /\ (SignupCreates(h) \/ SignupFails(h))

(* So it does with a signup nobody waits for. *)
ServedAlone ==
    \E h \in hashing : h.caller = None /\ (SignupCreates(h) \/ SignupFails(h))

-----------------------------------------------------------------------------
(* Properties *)

(* Types of the server's state and of the requests; emails are stored in   *)
(* lower case.                                                             *)
AccountsTypeOK ==
    /\ accounts \subseteq
          [username : Usernames, email : {LowerCase[e] : e \in Emails}, password : Passwords]
    /\ hashing \subseteq [caller : Tabs \cup {None}, form : Forms]
    /\ now \in Nat
    /\ call \in [Tabs -> Calls \cup {None}]
    /\ reply \in [Tabs -> Replies \cup {None}]

(* A conflict names a field that another account really holds, unless the  *)
(* email was typed in another case than it is stored in.                   *)
ConflictNamesField ==
    \A t \in Tabs : reply[t] # None /\ reply[t].status = 409 =>
        LET f == call[t].form IN
        \/ LowerCase[f.email] # f.email
        \/ \E a \in accounts : a[reply[t].field] = f[reply[t].field]

-----------------------------------------------------------------------------
(* What docs and comments say and the code does not do *)

(* auth.service.ts:22, "An account with this ${conflictField} already      *)
(* exists": an email typed in another case is called a taken username.     *)
ConflictIsNamed ==
    \A t \in Tabs : reply[t] # None /\ reply[t].status = 409 =>
        \E a \in accounts :
            IF reply[t].field = "email"
            THEN a.email = LowerCase[call[t].form.email]
            ELSE a.username = call[t].form.username

(* APIDoc.md:116, "409: Email or username already registered": the loser   *)
(* of two signups is told 500.                                             *)
DuplicateIsConflict ==
    [][\A h \in hashing :
          SignupCreates(h) /\ h.caller # None /\ Existing(h.form) # {} =>
              reply'[h.caller].status = 409]_accountVars
=============================================================================
