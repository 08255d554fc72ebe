--------------------------- MODULE SessionProofs ----------------------------
(***************************************************************************)
(* For any number of tabs and accounts: sessions, storage and sockets      *)
(* agree, and accounts and tokens are those of UniqueRegistry.             *)
(***************************************************************************)
EXTENDS Session, TLAPS

(* A tab has a request outstanding only while nobody is signed in, the     *)
(* request to restore checks the token the tab has, and an answer with a   *)
(* token for it is about that token.                                       *)
CallHolds(t) ==
    /\ reply[t] # None => call[t] # None
    /\ call[t] # None => user[t] = None
    /\ call[t] # None /\ call[t].kind = "me" =>
          /\ call[t].token = token[t]
          /\ reply[t] # None /\ reply[t].token # None => reply[t].token = token[t]

(* A signup that is being hashed for a tab is the one the tab awaits. *)
HashHolds(h) ==
    h.caller # None =>
        /\ call[h.caller] # None
        /\ call[h.caller].kind = "signup"
        /\ call[h.caller].form = h.form
        /\ reply[h.caller] = None

SessionHolds(t) ==
    /\ user[t] = None => socket[t] = None
    /\ user[t] # None =>
          /\ token[t] # None
          /\ token[t].username = user[t]
          /\ socket[t] # None
          /\ socket[t].token = token[t]
          /\ socket[t].state = "refused" => ~VerifyToken(token[t])

CallsHold == \A t \in Tabs : CallHolds(t) /\ SessionHolds(t)
HashesHold == \A h \in hashing : HashHolds(h)

IInv == TypeOK /\ CallsHold /\ HashesHold

(* The constants, as the leaves need them. *)
LEMMA NoneIsApart ==
    /\ None \notin Tabs /\ None \notin Usernames /\ None \notin Tokens
    /\ None \notin Calls /\ None \notin Replies /\ None \notin Sockets
BY AccountsAssumption, SocketsAssumption

(* What may be typed, as a record. *)
LEMMA FormFields ==
    \A f \in Forms : /\ f.username \in Usernames
                     /\ f.email \in Emails
                     /\ f.password \in Passwords
                     /\ LowerCase[f.email] \in Emails
BY AccountsAssumption DEF Usernames, Emails, Passwords

(* A token that the server signs is a token. *)
LEMMA SignedIsToken ==
    ASSUME now \in Nat, NEW n \in Usernames
    PROVE  SignTokenFor(n) \in Tokens /\ SignTokenFor(n) # None
                                      /\ SignTokenFor(n).username = n
<1>1. now + Lifetime \in Nat
  BY AccountsAssumption
<1>2. QED BY <1>1, NoneIsApart DEF SignTokenFor, Tokens

(* Initially nobody is signed in and nothing is on its way. *)
LEMMA InitHolds == Init => IInv
BY AccountsAssumption DEF Init, AccountsInit, IInv, TypeOK, AccountsTypeOK, CallsHold,
   HashesHold, CallHolds, SessionHolds

(* Changing what one tab has. *)
LEMMA SetTyped ==
    ASSUME NEW S, NEW f \in [Tabs -> S], NEW t \in Tabs, NEW v \in S
    PROVE  /\ Set(f, t, v) \in [Tabs -> S]
           /\ Set(f, t, v)[t] = v
           /\ \A u \in Tabs : u # t => Set(f, t, v)[u] = f[u]
BY DEF Set

(* An abandoned signup keeps its form and has no caller. *)
LEMMA AbandonedHolds ==
    ASSUME AccountsTypeOK, NEW t \in Tabs
    PROVE  /\ Abandoned(t) \subseteq [caller : Tabs \cup {None}, form : Forms]
           /\ \A h \in Abandoned(t) : h.caller # t
           /\ \A h \in Abandoned(t) : h.caller # None => h \in hashing
<1> SUFFICES ASSUME NEW g \in Abandoned(t)
             PROVE  /\ g \in [caller : Tabs \cup {None}, form : Forms]
                    /\ g.caller # t
                    /\ g.caller # None => g \in hashing
  OBVIOUS
<1>1. PICK h \in hashing :
        g = IF h.caller = t THEN [h EXCEPT !.caller = None] ELSE h
  BY DEF Abandoned
<1>2. h \in [caller : Tabs \cup {None}, form : Forms]
  BY DEF AccountsTypeOK
<1>3. CASE h.caller = t
  <2>1. g = [h EXCEPT !.caller = None]
    BY <1>1, <1>3
  <2>2. g.caller = None /\ g.form = h.form /\ g \in [caller : Tabs \cup {None}, form : Forms]
    BY <1>2, <2>1
  <2>3. QED BY <2>2, NoneIsApart
<1>4. CASE h.caller # t
  BY <1>1, <1>2, <1>4
<1>5. QED BY <1>3, <1>4

(* What a reply to one tab leaves the others. *)
ReplyIs(t, r) ==
    /\ reply' \in [Tabs -> Replies \cup {None}]
    /\ reply'[t] = r
    /\ r # None
    /\ \A u \in Tabs : u # t => reply'[u] = reply[u]

LEMMA ReplyTyped ==
    ASSUME AccountsTypeOK, NEW t \in Tabs, NEW r \in Replies, reply' = Set(reply, t, r)
    PROVE  ReplyIs(t, r)
BY NoneIsApart DEF AccountsTypeOK, Set, ReplyIs

(* What the server needs to know of a call it works on. *)
LEMMA CallTyped ==
    ASSUME AccountsTypeOK, NEW t \in Tabs, call[t] # None
    PROVE  /\ call[t] \in Calls
           /\ call[t].kind \in {"login", "signup", "me"}
           /\ call[t].kind # "me" => call[t].form \in Forms
           /\ call[t].kind = "me" => call[t].token \in Tokens
<1>1. call[t] \in Calls
  BY DEF AccountsTypeOK
<1>2. QED BY <1>1 DEF Calls

(* What a step of the server may do: a request of a tab gets its answer,   *)
(* and the answer to a request to restore has no other token.              *)
Replying ==
    \/ reply' = reply
    \/ \E t \in Tabs, r \in Replies :
          /\ call[t] # None /\ reply[t] = None
          /\ ReplyIs(t, r)
          /\ call[t].kind = "me" => r.token \in {None, call[t].token}

ServerDoes ==
    /\ AccountsTypeOK' /\ HashesHold' /\ Replying
    /\ call' = call /\ now <= now'

LEMMA ReplyingFor ==
    ASSUME NEW t \in Tabs, NEW r \in Replies, call[t] # None, reply[t] = None,
           ReplyIs(t, r), call[t].kind = "me" => r.token \in {None, call[t].token}
    PROVE  Replying
BY DEF Replying

(* Signups whose tabs are untouched stay what they were. *)
LEMMA HashKeeps ==
    ASSUME HashesHold, call' = call, NEW t \in Tabs,
           \A u \in Tabs : u # t => reply'[u] = reply[u],
           \A h \in hashing' : h.caller \in Tabs \cup {None} /\ h.caller # t,
           \A h \in hashing' : h.caller # None => h \in hashing
    PROVE  HashesHold'
<1> SUFFICES ASSUME NEW h \in hashing', h.caller # None PROVE HashHolds(h)'
  BY DEF HashesHold, HashHolds
<1>1. h \in hashing /\ h.caller \in Tabs /\ h.caller # t
  OBVIOUS
<1>2. HashHolds(h)
  BY <1>1 DEF HashesHold
<1>3. reply'[h.caller] = reply[h.caller]
  BY <1>1
<1>4. QED BY <1>2, <1>3 DEF HashHolds

(* Requests that one step answers. *)
LEMMA AnsweredAtOnce ==
    ASSUME IInv, NEW t \in Tabs, LoginAnswered(t) \/ MeAnswered(t) \/ CallFails(t)
    PROVE  ServerDoes
<1> USE DEF IInv, TypeOK
<1>1. call[t] # None /\ reply[t] = None
  BY DEF LoginAnswered, MeAnswered, CallFails, Sent
<1>2. call[t] \in Calls /\ call[t].kind \in {"login", "signup", "me"}
      /\ (call[t].kind = "me" => call[t].token \in Tokens)
  BY <1>1, CallTyped
<1>3. \E tk \in Tokens \cup {None} :
         \E st \in {200, 201, 401, 404, 409, 500} :
            /\ Answer(t, st, tk, None)
            /\ call[t].kind = "me" => tk \in {None, call[t].token}
  <2>1. CASE LoginAnswered(t)
    <3>1. call[t].kind # "me"
      BY <2>1 DEF LoginAnswered, Sent
    <3>2. \A a \in accounts : SignTokenFor(a.username) \in Tokens
      <4>1. \A a \in accounts : a.username \in Usernames
        BY DEF AccountsTypeOK
      <4>2. QED BY <4>1, SignedIsToken DEF AccountsTypeOK
    <3>3. QED BY <2>1, <3>1, <3>2 DEF LoginAnswered
  <2>2. CASE MeAnswered(t)
    BY <1>2, <2>2 DEF MeAnswered, Sent
  <2>3. CASE CallFails(t)
    BY <2>3 DEF CallFails
  <2>4. QED BY <2>1, <2>2, <2>3
<1>4. PICK tk \in Tokens \cup {None}, st \in {200, 201, 401, 404, 409, 500} :
            /\ Answer(t, st, tk, None)
            /\ call[t].kind = "me" => tk \in {None, call[t].token}
  BY <1>3
<1> DEFINE r == [status |-> st, token |-> tk, field |-> None]
<1>5. r \in Replies /\ r.token = tk
  BY DEF Replies
<1>6. ReplyIs(t, r)
  <2>1. reply' = Set(reply, t, r)
    BY <1>4 DEF Answer
  <2> HIDE DEF r
  <2>2. QED BY <1>5, <2>1, ReplyTyped
<1> HIDE DEF r
<1>7. Replying
  BY <1>1, <1>4, <1>5, <1>6, ReplyingFor
<1>8. /\ hashing' \subseteq [caller : Tabs \cup {None}, form : Forms]
      /\ \A h \in hashing' : h.caller # t
      /\ \A h \in hashing' : h.caller # None => h \in hashing
  <2>1. CASE hashing' = hashing /\ \A h \in hashing : h.caller # t
    BY <2>1 DEF AccountsTypeOK
  <2>2. CASE hashing' = Abandoned(t)
    BY <2>2, AbandonedHolds
  <2>3. QED BY <2>1, <2>2 DEF LoginAnswered, MeAnswered, CallFails, Sent
<1>9. call' = call /\ now' = now /\ accounts' = accounts
  BY DEF LoginAnswered, MeAnswered, CallFails
<1>10. AccountsTypeOK'
  BY <1>6, <1>8, <1>9 DEF AccountsTypeOK, ReplyIs
<1>11. HashesHold'
  BY <1>6, <1>8, <1>9, HashKeeps DEF ReplyIs
<1>12. QED BY <1>7, <1>9, <1>10, <1>11 DEF ServerDoes, AccountsTypeOK

(* The look for an existing account. *)
LEMMA ChecksDo ==
    ASSUME IInv, NEW t \in Tabs, SignupChecks(t)
    PROVE  ServerDoes
<1> DEFINE f == call[t].form
<1>1. call[t] # None /\ call[t].kind = "signup" /\ reply[t] = None
      /\ \A h \in hashing : h.caller # t
  BY DEF SignupChecks, Sent
<1>2. f \in Forms /\ AccountsTypeOK /\ HashesHold
  BY <1>1, CallTyped DEF IInv, TypeOK
<1>3. CASE /\ \E a \in Existing(f) : Answer(t, 409, None, ConflictField(a, f))
           /\ hashing' = hashing
  <2>1. PICK a \in Existing(f) : Answer(t, 409, None, ConflictField(a, f))
    BY <1>3
  <2> DEFINE r == [status |-> 409, token |-> None, field |-> ConflictField(a, f)]
  <2>2. reply' = Set(reply, t, r)
    BY <2>1 DEF Answer
  <2>3. r \in Replies /\ r.token = None
    BY DEF Replies, ConflictField
  <2> HIDE DEF r
  <2>4. ReplyIs(t, r)
    BY <1>2, <2>2, <2>3, ReplyTyped
  <2>5. Replying
    BY <1>1, <2>3, <2>4, ReplyingFor
  <2>6. call' = call /\ now' = now /\ accounts' = accounts
    BY DEF SignupChecks
  <2>7. \A h \in hashing' : h.caller \in Tabs \cup {None} /\ h.caller # t
    BY <1>1, <1>2, <1>3 DEF AccountsTypeOK
  <2>8. \A u \in Tabs : u # t => reply'[u] = reply[u]
    BY <2>4 DEF ReplyIs
  <2>9. HashesHold'
    <3>1. \A h \in hashing : HashHolds(h)'
      BY <1>1, <1>2, <1>3, <2>6, <2>7, <2>8 DEF HashesHold, HashHolds
    <3>2. QED BY <1>3, <3>1 DEF HashesHold
  <2>10. QED BY <1>2, <1>3, <2>4, <2>5, <2>6, <2>9 DEF ServerDoes, AccountsTypeOK, ReplyIs
<1>4. CASE hashing' = hashing \cup {[caller |-> t, form |-> f]} /\ reply' = reply
  <2>1. call' = call /\ now' = now /\ accounts' = accounts
    BY DEF SignupChecks
  <2>2. ASSUME NEW h \in hashing' PROVE HashHolds(h)'
    <3>1. CASE h \in hashing
      BY <1>2, <1>4, <2>1, <3>1 DEF HashesHold, HashHolds
    <3>2. CASE h = [caller |-> t, form |-> f]
      BY <1>1, <1>4, <2>1, <3>2 DEF HashHolds
    <3>3. QED BY <1>4, <3>1, <3>2
  <2>4. HashesHold'
    BY <2>2 DEF HashesHold
  <2>5. QED BY <1>2, <1>4, <2>1, <2>4 DEF ServerDoes, Replying, AccountsTypeOK
<1>5. QED BY <1>3, <1>4 DEF SignupChecks

(* A signup that ends tells the tab that awaits it, and nobody else. *)
LEMMA SignupTold ==
    ASSUME IInv, NEW h \in hashing, NEW st \in {201, 500},
           NEW tk \in Tokens \cup {None}, Tell(h, st, tk),
           hashing' = hashing \ {h}, call' = call
    PROVE  /\ reply' \in [Tabs -> Replies \cup {None}]
           /\ HashesHold' /\ Replying
<1>1. AccountsTypeOK /\ HashesHold
  BY DEF IInv, TypeOK
<1>2. CASE h.caller = None /\ reply' = reply
  <2>1. \A g \in hashing : HashHolds(g)'
    BY <1>1, <1>2 DEF HashesHold, HashHolds
  <2>2. QED BY <1>1, <1>2, <2>1 DEF HashesHold, Replying, AccountsTypeOK
<1>3. CASE h.caller # None
  <2> DEFINE r == [status |-> st, token |-> tk, field |-> None]
             c == h.caller
  <2>1. c \in Tabs /\ reply' = Set(reply, c, r)
    BY <1>1, <1>3 DEF Tell, Answer, AccountsTypeOK
  <2>2. r \in Replies
    BY DEF Replies
  <2>3. /\ call[c] # None /\ call[c].kind = "signup" /\ reply[c] = None
        /\ call[c].form = h.form
    BY <1>1, <1>3 DEF HashesHold, HashHolds
  <2>4. \A g \in hashing' : g.caller \in Tabs \cup {None} /\ g.caller # c
    <3>1. SUFFICES ASSUME NEW g \in hashing, g.caller = c, g # h PROVE FALSE
      BY <1>1 DEF AccountsTypeOK
    <3>2. g.form = call[c].form
      BY <1>1, <1>3, <3>1 DEF HashesHold, HashHolds
    <3>3. g \in [caller : Tabs \cup {None}, form : Forms]
          /\ h \in [caller : Tabs \cup {None}, form : Forms]
      BY <1>1 DEF AccountsTypeOK
    <3>4. QED BY <2>3, <3>1, <3>2, <3>3
  <2> HIDE DEF r, c
  <2>5. ReplyIs(c, r)
    BY <1>1, <2>1, <2>2, ReplyTyped
  <2>6. Replying
    BY <2>1, <2>2, <2>3, <2>5, ReplyingFor
  <2>7. \A u \in Tabs : u # c => reply'[u] = reply[u]
    BY <2>5 DEF ReplyIs
  <2>8. HashesHold'
    BY <1>1, <2>1, <2>4, <2>7, HashKeeps
  <2>9. QED BY <2>5, <2>6, <2>8 DEF ReplyIs
<1>4. QED BY <1>2, <1>3 DEF Tell

(* The end of a signup, well or badly. *)
LEMMA CreatesDo ==
    ASSUME IInv, NEW h \in hashing, SignupCreates(h) \/ SignupFails(h)
    PROVE  ServerDoes
<1> USE DEF IInv, TypeOK
<1>1. hashing' = hashing \ {h} /\ call' = call /\ now' = now
  BY DEF SignupCreates, SignupFails
<1>2. h.form \in Forms
  BY DEF AccountsTypeOK
<1>3. NewAccount(h.form) \in
        [username : Usernames, email : {LowerCase[e] : e \in Emails}, password : Passwords]
  <2>1. \A f \in Forms : LowerCase[f.email] \in {LowerCase[e] : e \in Emails}
    BY FormFields
  <2>2. QED BY <1>2, <2>1, FormFields DEF NewAccount
<1>4. accounts' \subseteq
        [username : Usernames, email : {LowerCase[e] : e \in Emails}, password : Passwords]
  BY <1>3 DEF SignupCreates, SignupFails, AccountsTypeOK
<1>5. SignTokenFor(h.form.username) \in Tokens
  <2>1. h.form.username \in Usernames
    BY <1>2, FormFields
  <2>2. QED BY <2>1, SignedIsToken DEF AccountsTypeOK
<1>6. \E st \in {201, 500}, tk \in Tokens \cup {None} : Tell(h, st, tk)
  BY <1>5 DEF SignupCreates, SignupFails
<1>7. reply' \in [Tabs -> Replies \cup {None}] /\ HashesHold' /\ Replying
  BY <1>1, <1>6, SignupTold
<1>8. QED BY <1>1, <1>4, <1>7 DEF ServerDoes, AccountsTypeOK

(* Time passes. *)
LEMMA TickDoes == ASSUME IInv, Tick PROVE ServerDoes
BY DEF IInv, TypeOK, Tick, ServerDoes, AccountsTypeOK, HashesHold, HashHolds, Replying

LEMMA ServedDoes == ASSUME IInv, (\E t \in Tabs : Served(t)) \/ ServedAlone \/ Tick
                    PROVE  ServerDoes
BY ChecksDo, AnsweredAtOnce, CreatesDo, TickDoes DEF Served, ServedAlone

(* What the server does keeps the invariant. *)
LEMMA ServerKeeps == ASSUME IInv, ServerDoes, UNCHANGED sessionVars PROVE IInv'
<1>1. TypeOK'
  BY DEF IInv, TypeOK, ServerDoes, sessionVars
<1>2. ASSUME NEW t \in Tabs PROVE CallHolds(t)'
  <2>1. CallHolds(t) /\ call' = call /\ user' = user /\ token' = token
    BY DEF IInv, CallsHold, ServerDoes, sessionVars
  <2>2. CASE reply'[t] = reply[t]
    BY <2>1, <2>2 DEF CallHolds
  <2>3. CASE reply'[t] # reply[t]
    <3>1. PICK r \in Replies : /\ call[t] # None /\ reply'[t] = r
                               /\ call[t].kind = "me" => r.token \in {None, call[t].token}
      BY <2>3 DEF ServerDoes, Replying, ReplyIs
    <3>2. QED BY <2>1, <3>1 DEF CallHolds
  <2>4. QED BY <2>2, <2>3
<1>3. ASSUME NEW t \in Tabs PROVE SessionHolds(t)'
  <2>1. SessionHolds(t) /\ UNCHANGED <<user, token, socket>> /\ now <= now'
    BY DEF IInv, CallsHold, ServerDoes, sessionVars
  <2>2. user[t] # None => token[t].exp \in Nat
    BY <2>1, NoneIsApart DEF IInv, TypeOK, SessionHolds, Tokens
  <2>3. now \in Nat /\ now' \in Nat
    BY DEF IInv, TypeOK, AccountsTypeOK, ServerDoes
  <2>4. user[t] # None /\ ~VerifyToken(token[t]) => ~(now' < token[t].exp)
    BY <2>1, <2>2, <2>3 DEF VerifyToken
  <2>5. QED BY <2>1, <2>4 DEF SessionHolds, VerifyToken
<1>4. CallsHold'
  BY <1>2, <1>3 DEF CallsHold
<1>5. QED BY <1>1, <1>4 DEF IInv, ServerDoes

(* The tabs a step does not concern keep what holds of them. *)
LEMMA OthersHold ==
    ASSUME IInv, NEW t \in Tabs, now' = now,
           reply'[t] = reply[t], call'[t] = call[t], user'[t] = user[t],
           token'[t] = token[t], socket'[t] = socket[t]
    PROVE  CallHolds(t)' /\ SessionHolds(t)'
BY DEF IInv, CallsHold, CallHolds, SessionHolds, VerifyToken

(* Opening the chat, or the form, anew. *)
LEMMA ReloadKeeps == ASSUME IInv, NEW t \in Tabs, Reload(t) PROVE IInv'
<1> DEFINE c == IF stored = None THEN None ELSE [kind |-> "me", token |-> stored]
<1>1. TypeOK /\ CallsHold /\ HashesHold
  BY DEF IInv
<1>2. c \in Calls \cup {None} /\ (c # None => c.kind = "me" /\ c.token = stored)
  BY <1>1 DEF TypeOK, Calls
<1>3. call' = Set(call, t, c) /\ now' = now /\ accounts' = accounts /\ stored' = stored
  BY DEF Reload
<1> HIDE DEF c
<1>4. /\ call' \in [Tabs -> Calls \cup {None}] /\ call'[t] = c
      /\ \A u \in Tabs : u # t => call'[u] = call[u]
  BY <1>1, <1>2, <1>3 DEF TypeOK, AccountsTypeOK, Set
<1>5. /\ reply' \in [Tabs -> Replies \cup {None}] /\ reply'[t] = None
      /\ token' \in [Tabs -> Tokens \cup {None}] /\ token'[t] = stored
      /\ user' \in [Tabs -> Usernames \cup {None}] /\ user'[t] = None
      /\ socket' \in [Tabs -> Sockets \cup {None}] /\ socket'[t] = None
      /\ \A u \in Tabs : u # t => /\ reply'[u] = reply[u] /\ token'[u] = token[u]
                                 /\ user'[u] = user[u] /\ socket'[u] = socket[u]
  BY <1>1 DEF Reload, TypeOK, AccountsTypeOK, Set
<1>6. TypeOK'
  BY <1>1, <1>3, <1>4, <1>5, AbandonedHolds DEF Reload, TypeOK, AccountsTypeOK
<1>7. \A u \in Tabs : u # t => CallHolds(u)' /\ SessionHolds(u)'
  BY <1>3, <1>4, <1>5, OthersHold
<1>8. CallHolds(t)' /\ SessionHolds(t)'
  BY <1>2, <1>4, <1>5 DEF CallHolds, SessionHolds
<1>9. HashesHold'
  <2>1. SUFFICES ASSUME NEW h \in hashing', h.caller # None PROVE HashHolds(h)'
    BY DEF HashesHold, HashHolds
  <2>2. h \in hashing /\ h.caller # t /\ h.caller \in Tabs
    BY <1>1, <2>1, AbandonedHolds DEF Reload, TypeOK, AccountsTypeOK
  <2>3. QED BY <1>1, <1>4, <1>5, <2>2 DEF HashesHold, HashHolds
<1>10. QED BY <1>6, <1>7, <1>8, <1>9 DEF IInv, CallsHold

(* Sending the form. *)
LEMMA SubmitKeeps ==
    ASSUME IInv, NEW t \in Tabs, NEW kind \in {"login", "signup"}, NEW f \in Forms,
           Submit(t, kind, f)
    PROVE  IInv'
<1> DEFINE c == [kind |-> kind, form |-> f]
<1>1. TypeOK /\ CallsHold /\ HashesHold
  BY DEF IInv
<1>2. c \in Calls /\ c.kind # "me"
  BY DEF Calls
<1>3. /\ call' = Set(call, t, c) /\ call[t] = None /\ user[t] = None
      /\ UNCHANGED <<accounts, hashing, now, reply, stored, token, user, socket, foreign>>
  BY DEF Submit, sessionVars
<1> HIDE DEF c
<1>4. /\ call' \in [Tabs -> Calls \cup {None}] /\ call'[t] = c
      /\ \A u \in Tabs : u # t => call'[u] = call[u]
  BY <1>1, <1>2, <1>3 DEF TypeOK, AccountsTypeOK, Set
<1>5. TypeOK'
  BY <1>1, <1>3, <1>4 DEF TypeOK, AccountsTypeOK
<1>6. \A u \in Tabs : u # t => CallHolds(u)' /\ SessionHolds(u)'
  BY <1>3, <1>4, OthersHold
<1>7. CallHolds(t)' /\ SessionHolds(t)'
  BY <1>1, <1>2, <1>3, <1>4, NoneIsApart DEF CallHolds, SessionHolds, CallsHold
<1>8. HashesHold'
  BY <1>1, <1>3, <1>4, NoneIsApart DEF HashesHold, HashHolds, TypeOK, AccountsTypeOK
<1>9. QED BY <1>5, <1>6, <1>7, <1>8 DEF IInv, CallsHold

(* The answer to a request of t is taken out of the network. *)
LEMMA ReceivedHolds ==
    ASSUME IInv, NEW t \in Tabs, Received(t)
    PROVE  /\ AccountsTypeOK' /\ HashesHold' /\ now' = now
           /\ reply[t] \in Replies /\ reply[t].token \in Tokens \cup {None}
           /\ call[t] # None /\ user[t] = None /\ socket[t] = None
           /\ reply'[t] = None /\ call'[t] = None
           /\ \A u \in Tabs : u # t => reply'[u] = reply[u] /\ call'[u] = call[u]
<1>1. TypeOK /\ CallsHold /\ HashesHold /\ AccountsTypeOK
  BY DEF IInv, TypeOK
<1>2. /\ reply' \in [Tabs -> Replies \cup {None}] /\ reply'[t] = None
      /\ call' \in [Tabs -> Calls \cup {None}] /\ call'[t] = None
      /\ \A u \in Tabs : u # t => reply'[u] = reply[u] /\ call'[u] = call[u]
  BY <1>1 DEF Received, Set, AccountsTypeOK
<1>3. reply[t] \in Replies /\ reply[t].token \in Tokens \cup {None}
  BY <1>1 DEF Received, AccountsTypeOK, Replies
<1>4. call[t] # None /\ user[t] = None /\ socket[t] = None
  BY <1>1 DEF Received, CallsHold, CallHolds, SessionHolds
<1>5. HashesHold'
  <2>1. ASSUME NEW h \in hashing, h.caller # None PROVE h.caller \in Tabs /\ h.caller # t
    BY <1>1, <2>1 DEF HashesHold, HashHolds, Received, AccountsTypeOK
  <2>2. QED BY <1>1, <1>2, <2>1 DEF HashesHold, HashHolds, Received
<1>6. QED BY <1>1, <1>2, <1>3, <1>4, <1>5 DEF Received, AccountsTypeOK

(* A tab that gets a session gets it whole. *)
LEMMA SignsIn ==
    ASSUME IInv, NEW t \in Tabs, Received(t), NEW tk \in Tokens,
           token' \in [Tabs -> Tokens \cup {None}],
           token'[t] = tk, \A u \in Tabs : u # t => token'[u] = token[u],
           user' = Set(user, t, tk.username), ConnectSocket(t, tk),
           stored' \in Tokens \cup {None}, foreign' \subseteq Tabs
    PROVE  IInv'
<1> DEFINE k == [token |-> tk, state |-> "connecting"]
           n == tk.username
<1>1. TypeOK
  BY DEF IInv
<1>2. k \in Sockets /\ k # None /\ k.token = tk /\ k.state = "connecting"
  BY NoneIsApart DEF Sockets
<1>3. n \in Usernames /\ n # None
  BY NoneIsApart DEF Tokens
<1>4. socket' = Set(socket, t, k) /\ user' = Set(user, t, n)
  BY DEF ConnectSocket
<1> HIDE DEF k
<1>5. /\ socket' \in [Tabs -> Sockets \cup {None}] /\ socket'[t] = k
      /\ \A u \in Tabs : u # t => socket'[u] = socket[u]
  BY <1>1, <1>2, <1>4 DEF TypeOK, Set
<1>6. /\ user' \in [Tabs -> Usernames \cup {None}] /\ user'[t] = n
      /\ \A u \in Tabs : u # t => user'[u] = user[u]
  BY <1>1, <1>3, <1>4 DEF TypeOK, Set
<1>7. TypeOK' /\ HashesHold'
  BY <1>5, <1>6, ReceivedHolds DEF TypeOK
<1>8. \A u \in Tabs : u # t => CallHolds(u)' /\ SessionHolds(u)'
  BY <1>5, <1>6, ReceivedHolds, OthersHold
<1>9. CallHolds(t)'
  BY ReceivedHolds DEF CallHolds
<1>10. SessionHolds(t)'
  BY <1>2, <1>3, <1>5, <1>6, NoneIsApart DEF SessionHolds
<1>11. QED BY <1>7, <1>8, <1>9, <1>10 DEF IInv, CallsHold

(* What a tab writes into the storage. *)
LEMMA StoreTyped ==
    ASSUME TypeOK, NEW t \in Tabs, NEW tk \in Tokens \cup {None}, Store(t, tk)
    PROVE  stored' \in Tokens \cup {None} /\ foreign' \subseteq Tabs
BY DEF TypeOK, Store

(* The answer to a request. *)
LEMMA DeliverKeeps == ASSUME IInv, NEW t \in Tabs, Deliver(t) PROVE IInv'
<1>1. TypeOK /\ CallsHold /\ Received(t)
  BY DEF IInv, Deliver, PersistSession, SubmitRejected, Restored, RestoreFails
<1>2. reply[t].token \in Tokens \cup {None}
  BY <1>1, ReceivedHolds
<1>3. CASE PersistSession(t)
  <2> DEFINE tk == reply[t].token
  <2>1. tk \in Tokens /\ Store(t, tk)
    BY <1>2, <1>3 DEF PersistSession
  <2>2. /\ token' = Set(token, t, tk) /\ user' = Set(user, t, tk.username)
        /\ ConnectSocket(t, tk)
    BY <1>3 DEF PersistSession
  <2> HIDE DEF tk
  <2>3. /\ token' \in [Tabs -> Tokens \cup {None}] /\ token'[t] = tk
        /\ \A u \in Tabs : u # t => token'[u] = token[u]
    BY <1>1, <2>1, <2>2 DEF TypeOK, Set
  <2>4. stored' \in Tokens \cup {None} /\ foreign' \subseteq Tabs
    BY <1>1, <2>1, StoreTyped
  <2>5. QED BY <1>1, <2>1, <2>2, <2>3, <2>4, SignsIn
<1>4. CASE SubmitRejected(t)
  <2>1. UNCHANGED <<stored, token, user, socket, foreign>>
    BY <1>4 DEF SubmitRejected, sessionVars
  <2>2. TypeOK' /\ HashesHold'
    BY <1>1, <2>1, ReceivedHolds DEF TypeOK
  <2>3. \A u \in Tabs : u # t => CallHolds(u)' /\ SessionHolds(u)'
    BY <1>1, <2>1, ReceivedHolds, OthersHold
  <2>4. CallHolds(t)' /\ SessionHolds(t)'
    BY <1>1, <2>1, ReceivedHolds DEF CallHolds, SessionHolds
  <2>5. QED BY <2>2, <2>3, <2>4 DEF IInv, CallsHold
<1>5. CASE Restored(t)
  <2> DEFINE tk == token[t]
  <2>1. reply[t].token = tk /\ tk \in Tokens
    BY <1>1, <1>2, <1>5, ReceivedHolds DEF Restored, Received, CallsHold, CallHolds
  <2>2. /\ user' = Set(user, t, tk.username) /\ ConnectSocket(t, tk)
        /\ UNCHANGED <<stored, token, foreign>>
    BY <1>5, <2>1 DEF Restored
  <2>3. /\ token' \in [Tabs -> Tokens \cup {None}] /\ token'[t] = tk
        /\ stored' \in Tokens \cup {None} /\ foreign' \subseteq Tabs
        /\ \A u \in Tabs : u # t => token'[u] = token[u]
    BY <1>1, <2>2 DEF TypeOK
  <2> HIDE DEF tk
  <2>4. QED BY <1>1, <2>1, <2>2, <2>3, SignsIn
<1>6. CASE RestoreFails(t)
  <2>1. Store(t, None) /\ token' = Set(token, t, None) /\ UNCHANGED <<user, socket>>
    BY <1>6 DEF RestoreFails
  <2>2. /\ token' \in [Tabs -> Tokens \cup {None}]
        /\ \A u \in Tabs : u # t => token'[u] = token[u]
    BY <1>1, <2>1 DEF TypeOK, Set
  <2>3. stored' \in Tokens \cup {None} /\ foreign' \subseteq Tabs
    BY <1>1, <2>1, StoreTyped
  <2>4. TypeOK' /\ HashesHold'
    BY <1>1, <2>1, <2>2, <2>3, ReceivedHolds DEF TypeOK
  <2>5. \A u \in Tabs : u # t => CallHolds(u)' /\ SessionHolds(u)'
    BY <1>1, <2>1, <2>2, ReceivedHolds, OthersHold
  <2>6. CallHolds(t)' /\ SessionHolds(t)'
    BY <1>1, <2>1, ReceivedHolds DEF CallHolds, SessionHolds
  <2>7. QED BY <2>4, <2>5, <2>6 DEF IInv, CallsHold
<1>7. QED BY <1>3, <1>4, <1>5, <1>6 DEF Deliver

(* Leaving. *)
LEMMA LogoutKeeps == ASSUME IInv, NEW t \in Tabs, Logout(t) PROVE IInv'
<1>1. TypeOK /\ CallsHold /\ HashesHold
  BY DEF IInv
<1>2. /\ token' \in [Tabs -> Tokens \cup {None}]
      /\ user' \in [Tabs -> Usernames \cup {None}] /\ user'[t] = None
      /\ socket' \in [Tabs -> Sockets \cup {None}] /\ socket'[t] = None
      /\ \A u \in Tabs : u # t =>
            token'[u] = token[u] /\ user'[u] = user[u] /\ socket'[u] = socket[u]
  BY <1>1 DEF Logout, TypeOK, Set
<1>3. UNCHANGED <<accounts, hashing, now, call, reply>> /\ Store(t, None)
  BY DEF Logout, accountVars
<1>4. stored' \in Tokens \cup {None} /\ foreign' \subseteq Tabs
  BY <1>1, <1>3, StoreTyped
<1>5. TypeOK'
  BY <1>1, <1>2, <1>3, <1>4 DEF TypeOK, AccountsTypeOK
<1>6. HashesHold'
  BY <1>1, <1>3 DEF HashesHold, HashHolds
<1>7. \A u \in Tabs : u # t => CallHolds(u)' /\ SessionHolds(u)'
  BY <1>2, <1>3, OthersHold
<1>8. CallHolds(t)' /\ SessionHolds(t)'
  BY <1>1, <1>2, <1>3 DEF CallHolds, SessionHolds, CallsHold, Logout
<1>9. QED BY <1>5, <1>6, <1>7, <1>8 DEF IInv, CallsHold

(* The connection of a tab is accepted, refused or lost. *)
LEMMA SocketKeeps == ASSUME IInv, NEW t \in Tabs, Handshake(t) \/ Drop(t) PROVE IInv'
<1>1. TypeOK /\ CallsHold /\ HashesHold
  BY DEF IInv
<1>2. socket[t] # None /\ socket[t] \in Sockets
  BY <1>1 DEF Handshake, Drop, TypeOK
<1>3. /\ user[t] # None /\ token[t] # None /\ token[t].username = user[t]
      /\ socket[t].token = token[t]
  BY <1>1, <1>2 DEF CallsHold, SessionHolds
<1>4. PICK st \in {"connecting", "connected", "refused"} :
        /\ socket' = Set(socket, t, [token |-> token[t], state |-> st])
        /\ st = "refused" => ~VerifyToken(token[t])
  <2>1. CASE Drop(t)
    BY <1>3, <2>1 DEF Drop, ConnectSocket
  <2>2. CASE Handshake(t)
    <3>1. PICK st \in {"connected", "refused"} :
            /\ socket' = Set(socket, t, [socket[t] EXCEPT !.state = st])
            /\ st = "refused" => ~VerifyToken(token[t])
      BY <1>3, <2>2 DEF Handshake
    <3>2. [socket[t] EXCEPT !.state = st] = [token |-> token[t], state |-> st]
      BY <1>2, <1>3 DEF Sockets
    <3>3. QED BY <3>1, <3>2
  <2>3. QED BY <2>1, <2>2
<1> DEFINE k == [token |-> token[t], state |-> st]
<1>5. k \in Sockets /\ k # None /\ k.token = token[t] /\ k.state = st
  BY <1>1, NoneIsApart DEF Sockets, TypeOK
<1>6. socket' = Set(socket, t, k)
  BY <1>4
<1> HIDE DEF k
<1>7. /\ socket' \in [Tabs -> Sockets \cup {None}] /\ socket'[t] = k
      /\ \A u \in Tabs : u # t => socket'[u] = socket[u]
  BY <1>1, <1>5, <1>6 DEF TypeOK, Set
<1>8. UNCHANGED <<accounts, hashing, now, call, reply, stored, token, user, foreign>>
  BY DEF Handshake, Drop, accountVars
<1>9. TypeOK' /\ HashesHold'
  BY <1>1, <1>7, <1>8 DEF TypeOK, AccountsTypeOK, HashesHold, HashHolds
<1>10. \A u \in Tabs : u # t => CallHolds(u)' /\ SessionHolds(u)'
  BY <1>7, <1>8, OthersHold
<1>11. CallHolds(t)'
  BY <1>1, <1>8 DEF CallsHold, CallHolds
<1>12. SessionHolds(t)'
  BY <1>3, <1>4, <1>5, <1>7, <1>8 DEF SessionHolds, VerifyToken
<1>13. QED BY <1>9, <1>10, <1>11, <1>12 DEF IInv, CallsHold

(* Every step keeps the invariant. *)
LEMMA NextKeeps == ASSUME IInv, [Next]_vars PROVE IInv'
<1>1. CASE UNCHANGED vars
  BY <1>1 DEF vars, accountVars, sessionVars, IInv, TypeOK, AccountsTypeOK, CallsHold,
     HashesHold, CallHolds, SessionHolds, HashHolds, VerifyToken
<1>2. CASE Next
  BY <1>2, ReloadKeeps, SubmitKeeps, DeliverKeeps, LogoutKeeps, SocketKeeps,
     ServedDoes, ServerKeeps DEF Next
<1>3. QED BY <1>1, <1>2

(* The types of every variable, for any tabs, forms and lifetime. *)
THEOREM TypeCorrect == Spec => []TypeOK
<1>1. Init => IInv
  BY InitHolds
<1>2. IInv /\ [Next]_vars => IInv'
  BY NextKeeps
<1>3. IInv => TypeOK
  BY DEF IInv
<1>4. QED BY <1>1, <1>2, <1>3, PTL DEF Spec

LEMMA Invariant == Spec => []IInv
BY InitHolds, NextKeeps, PTL DEF Spec

(* User, token and socket of a tab always agree, and a refused socket has  *)
(* presented an expired token.                                             *)
THEOREM SessionTheorem == Spec => []SessionAgrees
<1>1. IInv => SessionAgrees
  BY DEF IInv, CallsHold, SessionHolds, SessionAgrees
<1>2. QED BY <1>1, Invariant, PTL

(* A tab that writes what it keeps leaves the storage in agreement. *)
LEMMA StoreAgrees ==
    ASSUME StorageAgrees, NEW t \in Tabs, NEW tk, Store(t, tk), token'[t] = tk,
           \A u \in Tabs : u # t => token'[u] = token[u]
    PROVE  StorageAgrees'
BY DEF StorageAgrees, Store

LEMMA StorageKeeps ==
    ASSUME IInv, StorageAgrees, [Next]_vars
    PROVE  StorageAgrees'
<1>1. token \in [Tabs -> Tokens \cup {None}]
  BY DEF IInv, TypeOK
<1>2. ASSUME UNCHANGED <<stored, token, foreign>> PROVE StorageAgrees'
  BY <1>2 DEF StorageAgrees
<1>3. ASSUME NEW t \in Tabs, Reload(t) PROVE StorageAgrees'
  <2>1. /\ token'[t] = stored /\ stored' = stored /\ foreign' = foreign \ {t}
        /\ \A u \in Tabs : u # t => token'[u] = token[u]
    BY <1>1, <1>3 DEF Reload, Set
  <2>2. QED BY <2>1 DEF StorageAgrees
<1>4. ASSUME NEW t \in Tabs, PersistSession(t) PROVE StorageAgrees'
  <2> DEFINE tk == reply[t].token
  <2>1. /\ Store(t, tk) /\ token'[t] = tk
        /\ \A u \in Tabs : u # t => token'[u] = token[u]
    BY <1>1, <1>4 DEF PersistSession, Set
  <2> HIDE DEF tk
  <2>2. QED BY <2>1, StoreAgrees
<1>5. ASSUME NEW t \in Tabs, RestoreFails(t) \/ Logout(t) PROVE StorageAgrees'
  <2>1. /\ Store(t, None) /\ token'[t] = None
        /\ \A u \in Tabs : u # t => token'[u] = token[u]
    BY <1>1, <1>5 DEF RestoreFails, Logout, Set
  <2>2. QED BY <2>1, StoreAgrees
<1>6. ASSUME NEW t \in Tabs, SubmitRejected(t) \/ Restored(t) \/ Handshake(t) \/ Drop(t)
      PROVE  StorageAgrees'
  BY <1>2, <1>6 DEF SubmitRejected, Restored, Handshake, Drop, sessionVars
<1>7. ASSUME NEW t \in Tabs, NEW kind, NEW f, Submit(t, kind, f) PROVE StorageAgrees'
  BY <1>2, <1>7 DEF Submit, sessionVars
<1>8. CASE UNCHANGED sessionVars \/ UNCHANGED vars
  BY <1>2, <1>8 DEF sessionVars, vars
<1>9. QED BY <1>3, <1>4, <1>5, <1>6, <1>7, <1>8 DEF Next, Deliver

(* The storage and the tabs agree about the session, as far as a tab knows *)
(* what other tabs did; nothing is left in the storage when all have left. *)
THEOREM StorageTheorem == Spec => []StorageAgrees
<1>1. Init => StorageAgrees
  BY DEF Init, StorageAgrees
<1>2. QED BY <1>1, StorageKeeps, Invariant, PTL DEF Spec

-----------------------------------------------------------------------------
(* A conflict names a field that is taken. *)

ConflictHolds(t) ==
    reply[t] # None /\ reply[t].status = 409 =>
        LET f == call[t].form IN
        \/ LowerCase[f.email] # f.email
        \/ \E a \in accounts : a[reply[t].field] = f[reply[t].field]

(* A reply is new only from an answer, and is 409 only from a check. *)
LEMMA ServedReplies ==
    ASSUME IInv, (\E t \in Tabs : Served(t)) \/ ServedAlone \/ Tick, NEW t \in Tabs
    PROVE  /\ call' = call /\ accounts \subseteq accounts'
           /\ \/ reply'[t] = reply[t]
              \/ reply'[t].status # 409
              \/ SignupChecks(t)
<1>1. reply \in [Tabs -> Replies \cup {None}] /\ hashing \subseteq [caller : Tabs \cup {None}, form : Forms]
  BY DEF IInv, TypeOK, AccountsTypeOK
<1>2. ASSUME NEW u \in Tabs, LoginAnswered(u) \/ MeAnswered(u) \/ CallFails(u)
      PROVE  /\ call' = call /\ accounts' = accounts
             /\ \/ reply'[t] = reply[t]
                \/ reply'[t].status # 409
  <2>1. \E st \in {200, 401, 404, 500} : \E tk : Answer(u, st, tk, None)
    BY <1>2 DEF LoginAnswered, MeAnswered, CallFails
  <2>2. QED BY <1>1, <1>2, <2>1 DEF Answer, Set, LoginAnswered, MeAnswered, CallFails
<1>3. ASSUME NEW h \in hashing, SignupCreates(h) \/ SignupFails(h)
      PROVE  /\ call' = call /\ accounts \subseteq accounts'
             /\ \/ reply'[t] = reply[t]
                \/ reply'[t].status # 409
  <2>1. \E st \in {201, 500} : \E tk : Tell(h, st, tk)
    BY <1>3 DEF SignupCreates, SignupFails
  <2>2. QED BY <1>1, <1>3, <2>1 DEF Tell, Answer, Set, SignupCreates, SignupFails
<1>4. ASSUME NEW u \in Tabs, SignupChecks(u)
      PROVE  /\ call' = call /\ accounts' = accounts
             /\ reply'[t] = reply[t] \/ SignupChecks(t)
  BY <1>1, <1>4 DEF SignupChecks, Answer, Set
<1>5. CASE Tick
  BY <1>5 DEF Tick
<1>6. QED BY <1>2, <1>3, <1>4, <1>5 DEF Served, ServedAlone

(* The field that a check names is taken by the account it found. *)
LEMMA CheckNames ==
    ASSUME IInv, NEW t \in Tabs, SignupChecks(t), reply'[t] # reply[t]
    PROVE  ConflictHolds(t)'
<1> DEFINE f == call[t].form
<1>1. reply \in [Tabs -> Replies \cup {None}] /\ call' = call /\ accounts' = accounts
  BY DEF IInv, TypeOK, AccountsTypeOK, SignupChecks
<1>2. PICK a \in Existing(f) : Answer(t, 409, None, ConflictField(a, f))
  BY DEF SignupChecks
<1>3. reply'[t].field = ConflictField(a, f)
  BY <1>1, <1>2 DEF Answer, Set
<1>4. a \in accounts /\ (a.email = LowerCase[f.email] \/ a.username = f.username)
  BY <1>2 DEF Existing
<1>5. CASE a.email = f.email
  <2>1. reply'[t].field = "email"
    BY <1>3, <1>5 DEF ConflictField
  <2>2. QED BY <1>1, <1>4, <1>5, <2>1 DEF ConflictHolds
<1>6. CASE a.email # f.email
  <2>1. reply'[t].field = "username"
    BY <1>3, <1>6 DEF ConflictField
  <2>2. LowerCase[f.email] # f.email \/ a.username = f.username
    BY <1>4, <1>6
  <2>3. QED BY <1>1, <1>4, <2>1, <2>2 DEF ConflictHolds
<1>7. QED BY <1>5, <1>6

LEMMA ConflictKeeps ==
    ASSUME IInv, \A t \in Tabs : ConflictHolds(t), [Next]_vars, NEW t \in Tabs
    PROVE  ConflictHolds(t)'
<1>1. ASSUME reply'[t] = reply[t], call'[t] = call[t] \/ reply'[t] = None,
             accounts \subseteq accounts'
      PROVE  ConflictHolds(t)'
  BY <1>1 DEF ConflictHolds
<1>2. reply \in [Tabs -> Replies \cup {None}] /\ call \in [Tabs -> Calls \cup {None}]
  BY DEF IInv, TypeOK, AccountsTypeOK
<1>3. ASSUME NEW u \in Tabs, Reload(u) \/ Received(u) PROVE ConflictHolds(t)'
  <2>1. accounts' = accounts
    BY <1>3 DEF Reload, Received
  <2>2. reply'[t] = None \/ (reply'[t] = reply[t] /\ call'[t] = call[t])
    BY <1>2, <1>3 DEF Reload, Received, Set
  <2>3. QED BY <1>1, <2>1, <2>2 DEF ConflictHolds
<1>4. ASSUME NEW u \in Tabs, NEW kind, NEW f, Submit(u, kind, f) PROVE ConflictHolds(t)'
  <2>1. accounts' = accounts /\ reply' = reply
    BY <1>4 DEF Submit
  <2>2. reply[t] = None \/ call'[t] = call[t]
    BY <1>2, <1>4 DEF Submit, Set, IInv, CallsHold, CallHolds
  <2>3. QED BY <1>1, <2>1, <2>2
<1>5. CASE (\E u \in Tabs : Served(u)) \/ ServedAlone \/ Tick
  BY <1>1, <1>5, ServedReplies, CheckNames DEF ConflictHolds
<1>6. CASE UNCHANGED accountVars
  BY <1>1, <1>6 DEF accountVars
<1>7. ASSUME NEW u \in Tabs, Deliver(u) PROVE Received(u)
  BY <1>7 DEF Deliver, PersistSession, SubmitRejected, Restored, RestoreFails
<1>8. ASSUME NEW u \in Tabs, Logout(u) \/ Handshake(u) \/ Drop(u)
      PROVE  UNCHANGED accountVars
  BY <1>8 DEF Logout, Handshake, Drop
<1>9. QED BY <1>3, <1>4, <1>5, <1>6, <1>7, <1>8 DEF Next, vars

(* A refused signup is told a field that is taken, but for the case of the *)
(* email.                                                                  *)
THEOREM ConflictTheorem == Spec => []ConflictNamesField
<1> DEFINE All == \A t \in Tabs : ConflictHolds(t)
<1>1. Init => All
  BY DEF Init, AccountsInit, ConflictHolds
<1>2. IInv /\ All /\ [Next]_vars => All'
  BY ConflictKeeps
<1>3. All => ConflictNamesField
  BY DEF ConflictHolds, ConflictNamesField
<1> HIDE DEF All
<1>4. QED BY <1>1, <1>2, <1>3, Invariant, PTL DEF Spec

-----------------------------------------------------------------------------
(* The session implements UniqueRegistry. *)

LEMMA HeldIs ==
    \A tk : tk \in Held <=>
        /\ tk # None
        /\ \/ tk = stored
           \/ \E t \in Tabs : token[t] = tk
           \/ \E t \in Tabs : reply[t] # None /\ reply[t].token = tk
BY DEF Held

(* An answer brings at most the token it carries. *)
LEMMA AnswerHeld ==
    ASSUME IInv, UNCHANGED sessionVars, NEW t \in Tabs, NEW tk, NEW st, NEW fl,
           Answer(t, st, tk, fl)
    PROVE  Held' \subseteq Held \cup ({tk} \ {None})
<1>1. reply' = [reply EXCEPT ![t] = [status |-> st, token |-> tk, field |-> fl]]
  BY DEF Answer, Set
<1>2. reply \in [Tabs -> Replies \cup {None}]
  BY DEF IInv, TypeOK, AccountsTypeOK
<1>3. \A u \in Tabs : reply'[u] = reply[u] \/ reply'[u].token = tk
  BY <1>1, <1>2
<1>4. SUFFICES ASSUME NEW x \in Held', x # tk PROVE x \in Held
  BY DEF Held
<1>5. /\ x # None
      /\ \/ x = stored \/ \E u \in Tabs : token[u] = x
         \/ \E u \in Tabs : reply'[u] # None /\ reply'[u].token = x
  BY <1>4 DEF Held, sessionVars
<1>6. QED BY <1>3, <1>4, <1>5, HeldIs

LEMMA NothingHeld ==
    ASSUME UNCHANGED sessionVars, reply' = reply PROVE Held' \subseteq Held
BY DEF Held, sessionVars

(* So does what a signup tells. *)
LEMMA TellHeld ==
    ASSUME IInv, UNCHANGED sessionVars, NEW h \in hashing, NEW tk, NEW st,
           Tell(h, st, tk)
    PROVE  Held' \subseteq Held \cup ({tk} \ {None})
<1>1. h.caller \in Tabs \cup {None}
  BY DEF IInv, TypeOK, AccountsTypeOK
<1>2. CASE h.caller = None
  BY <1>2, NothingHeld DEF Tell
<1>3. CASE h.caller # None
  <2>1. \A t \in Tabs : Answer(t, st, tk, None) => Held' \subseteq Held \cup ({tk} \ {None})
    BY AnswerHeld
  <2>2. QED BY <1>1, <1>3, <2>1 DEF Tell
<1>4. QED BY <1>2, <1>3

(* A signed token of an account is a grant. *)
LEMMA SignedGrants ==
    ASSUME NEW tk, Held' \subseteq Held \cup {tk},
           \E a \in accounts' : a.username = tk.username
    PROVE  Registry!Forget \/ \E x \in Held' : Registry!Grant(x)
BY DEF Registry!Forget, Registry!Grant

(* The server's steps. *)
LEMMA ServerImplements ==
    ASSUME IInv, UNCHANGED sessionVars,
           (\E t \in Tabs : Served(t)) \/ ServedAlone \/ Tick
    PROVE  Registry!Next
<1>1. ASSUME NEW t \in Tabs, SignupChecks(t) PROVE Registry!Next
  <2>1. (\E fl : Answer(t, 409, None, fl)) \/ reply' = reply
    BY <1>1 DEF SignupChecks
  <2>2. Held' \subseteq Held
    BY <2>1, AnswerHeld, NothingHeld
  <2>3. accounts' = accounts
    BY <1>1 DEF SignupChecks
  <2>4. QED BY <2>2, <2>3 DEF Registry!Next, Registry!Forget
<1>2. ASSUME NEW t \in Tabs, CallFails(t) PROVE Registry!Next
  <2>1. Held' \subseteq Held /\ accounts' = accounts
    BY <1>2, AnswerHeld DEF CallFails
  <2>2. QED BY <2>1 DEF Registry!Next, Registry!Forget
<1>3. ASSUME NEW t \in Tabs, LoginAnswered(t) PROVE Registry!Next
  <2>1. accounts' = accounts
    BY <1>3 DEF LoginAnswered
  <2>2. \/ Answer(t, 401, None, None)
        \/ \E a \in accounts : Answer(t, 200, SignTokenFor(a.username), None)
    BY <1>3 DEF LoginAnswered
  <2>3. CASE Answer(t, 401, None, None)
    <3>1. Held' \subseteq Held
      BY <2>3, AnswerHeld
    <3>2. QED BY <2>1, <3>1 DEF Registry!Next, Registry!Forget
  <2>4. ASSUME NEW a \in accounts, Answer(t, 200, SignTokenFor(a.username), None)
        PROVE  Registry!Next
    <3> DEFINE tk == SignTokenFor(a.username)
    <3>1. Held' \subseteq Held \cup {tk}
      BY <2>4, AnswerHeld
    <3>2. \E b \in accounts' : b.username = tk.username
      BY <2>1 DEF SignTokenFor
    <3> HIDE DEF tk
    <3>3. QED BY <2>1, <3>1, <3>2, SignedGrants DEF Registry!Next
  <2>5. QED BY <2>2, <2>3, <2>4
<1>4. ASSUME NEW t \in Tabs, MeAnswered(t) PROVE Registry!Next
  <2> DEFINE tk == call[t].token
  <2>1. accounts' = accounts
    BY <1>4 DEF MeAnswered
  <2>2. \E st : Answer(t, st, None, None) \/ Answer(t, st, tk, None)
    BY <1>4 DEF MeAnswered
  <2>3. tk = token[t]
    BY <1>4 DEF MeAnswered, Sent, IInv, CallsHold, CallHolds
  <2>4. tk # None => tk \in Held
    BY <2>3, HeldIs
  <2> HIDE DEF tk
  <2>5. Held' \subseteq Held
    BY <2>2, <2>4, AnswerHeld
  <2>6. QED BY <2>1, <2>5 DEF Registry!Next, Registry!Forget
<1>5. ASSUME NEW h \in hashing, SignupCreates(h) \/ SignupFails(h) PROVE Registry!Next
  <2> DEFINE tk == SignTokenFor(h.form.username)
  <2>1. CASE accounts' = accounts /\ Tell(h, 500, None)
    <3>1. Held' \subseteq Held
      BY <2>1, TellHeld
    <3>2. QED BY <2>1, <3>1 DEF Registry!Next, Registry!Forget
  <2>2. CASE /\ Existing(h.form) = {}
             /\ accounts' = accounts \cup {NewAccount(h.form)}
             /\ Tell(h, 201, tk)
    <3>1. Held' \subseteq Held \cup {tk}
      BY <2>2, TellHeld
    <3>2. \E a \in accounts' : a.username = tk.username
      <4>1. NewAccount(h.form) \in accounts'
        BY <2>2
      <4>2. NewAccount(h.form).username = h.form.username
        BY DEF NewAccount
      <4>3. tk.username = h.form.username
        BY DEF SignTokenFor
      <4> HIDE DEF tk
      <4>4. QED BY <4>1, <4>2, <4>3
    <3>3. Registry!Register(NewAccount(h.form))
      BY <2>2 DEF Registry!Register, Existing, NewAccount
    <3> HIDE DEF tk
    <3>4. QED BY <2>2, <3>1, <3>2, <3>3, SignedGrants DEF Registry!Next
  <2>3. QED BY <1>5, <2>1, <2>2 DEF SignupCreates, SignupFails
<1>6. CASE Tick
  BY <1>6 DEF Tick, Held, sessionVars, Registry!Next, Registry!Forget
<1>7. QED BY <1>1, <1>2, <1>3, <1>4, <1>5, <1>6 DEF Served, ServedAlone

(* The browser's steps bring no token that was not there. *)
LEMMA BrowserImplements ==
    ASSUME IInv, NEW t \in Tabs,
           \/ Reload(t) \/ Deliver(t) \/ Logout(t) \/ Handshake(t) \/ Drop(t)
           \/ \E kind, f : Submit(t, kind, f)
    PROVE  Registry!Next
<1>1. /\ token \in [Tabs -> Tokens \cup {None}]
      /\ reply \in [Tabs -> Replies \cup {None}]
  BY DEF IInv, TypeOK, AccountsTypeOK
<1>2. accounts' = accounts
  BY DEF Reload, Deliver, PersistSession, SubmitRejected, Restored, RestoreFails,
     Received, Logout, Handshake, Drop, Submit, accountVars
<1>3. \A u \in Tabs : reply'[u] = None \/ reply'[u] = reply[u]
  BY <1>1 DEF Reload, Deliver, PersistSession, SubmitRejected, Restored, RestoreFails,
     Received, Logout, Handshake, Drop, Submit, accountVars, Set
<1>4. /\ stored' = stored \/ stored' \in Held \cup {None}
      /\ \A u \in Tabs : token'[u] = token[u] \/ token'[u] \in Held \cup {None}
  <2>1. CASE Reload(t)
    BY <1>1, <2>1, HeldIs DEF Reload, Set
  <2>2. CASE PersistSession(t)
    <3> DEFINE tk == reply[t].token
    <3>1. tk \in Held
      BY <2>2, HeldIs DEF PersistSession, Received
    <3>2. stored' = tk /\ token' = [token EXCEPT ![t] = tk]
      BY <2>2 DEF PersistSession, Store, Set
    <3> HIDE DEF tk
    <3>3. QED BY <1>1, <3>1, <3>2
  <2>3. CASE RestoreFails(t) \/ Logout(t)
    BY <1>1, <2>3 DEF RestoreFails, Logout, Store, Set
  <2>4. CASE UNCHANGED <<stored, token>>
    BY <2>4
  <2>5. QED BY <2>1, <2>2, <2>3, <2>4 DEF Deliver, SubmitRejected, Restored, Handshake,
            Drop, Submit, sessionVars
<1>5. Held' \subseteq Held
  <2>1. SUFFICES ASSUME NEW x \in Held' PROVE x \in Held
    OBVIOUS
  <2>2. /\ x # None
        /\ \/ x = stored' \/ \E u \in Tabs : token'[u] = x
           \/ \E u \in Tabs : reply'[u] # None /\ reply'[u].token = x
    BY <2>1 DEF Held
  <2>3. QED BY <1>3, <1>4, <2>2, HeldIs
<1>6. QED BY <1>2, <1>5 DEF Registry!Next, Registry!Forget

LEMMA StepImplements == ASSUME IInv, [Next]_vars PROVE [Registry!Next]_(Registry!vars)
<1>1. CASE UNCHANGED vars
  BY <1>1 DEF vars, accountVars, sessionVars, Held, Registry!vars
<1>2. CASE Next
  BY <1>2, ServerImplements, BrowserImplements DEF Next
<1>3. QED BY <1>1, <1>2

(* However signups race, and whatever requests are lost, the session       *)
(* implements UniqueRegistry.                                              *)
THEOREM RegistryTheorem == Spec => IsRegistry
<1>1. Init => Registry!Init
  BY DEF Init, AccountsInit, Registry!Init, Held
<1>2. IInv /\ [Next]_vars => [Registry!Next]_(Registry!vars)
  BY StepImplements
<1>3. QED BY <1>1, <1>2, Invariant, PTL DEF Spec, IsRegistry, Registry!Spec

(* So no two accounts share a username or an email, and every token that a *)
(* tab, the storage or an answer has is of a registered account.           *)
THEOREM PromiseTheorem == Spec => []Registry!Promise
<1>1. Registry!Init => Registry!Promise
  BY DEF Registry!Init, Registry!Promise
<1>2. Registry!Promise /\ [Registry!Next]_(Registry!vars) => Registry!Promise'
  <2>1. SUFFICES ASSUME Registry!Promise, [Registry!Next]_(Registry!vars)
                 PROVE  Registry!Promise'
    OBVIOUS
  <2>2. CASE UNCHANGED Registry!vars
    BY <2>1, <2>2 DEF Registry!vars, Registry!Promise
  <2>3. CASE Registry!Next
    BY <2>1, <2>3 DEF Registry!Next, Registry!Register, Registry!Forget, Registry!Grant,
       Registry!Promise
  <2>4. QED BY <2>1, <2>2, <2>3
<1>3. QED BY <1>1, <1>2, RegistryTheorem, PTL DEF IsRegistry, Registry!Spec
=============================================================================
