------------------------------ MODULE Session -------------------------------
(***************************************************************************)
(* Sessions of a browser: AuthContext in each tab, the token it keeps in   *)
(* the localStorage that all tabs share, and the socket it opens with that *)
(* token.  A tab shows the loading page while it restores a session, the   *)
(* form while it has no user, and the chat otherwise.                      *)
(*                                                                         *)
(* A server that restarts is a connection that drops; the token outlives   *)
(* it, for the signing secret is configuration.                            *)
(***************************************************************************)
EXTENDS Accounts

Sockets == [token : Tokens \cup {None},
            state : {"connecting", "connected", "refused"}]

ASSUME SocketsAssumption == None \notin Sockets

VARIABLES
    stored,     \* localStorage's chat_token
    token,      \* state of AuthContext, per tab
    user,       \* whom the tab is signed in as
    socket,     \* lib/socket's socket, with the token it presents
    foreign     \* history: tabs behind whose back the storage was written

sessionVars == <<stored, token, user, socket, foreign>>
vars == <<accountVars, sessionVars>>

Init ==
    /\ AccountsInit
    /\ stored = None
    /\ token = [t \in Tabs |-> None]
    /\ user = [t \in Tabs |-> None]
    /\ socket = [t \in Tabs |-> None]
    /\ foreign = {}

(* setItem or removeItem by tab t. *)
Store(t, tk) ==
    /\ stored' = tk
    /\ foreign' = IF tk = stored THEN foreign \ {t} ELSE Tabs \ {t}

ConnectSocket(t, tk) ==
    socket' = Set(socket, t, [token |-> tk, state |-> "connecting"])

(* AuthProvider mounts: a stored token is checked before it is used. *)
Reload(t) ==
    /\ token' = Set(token, t, stored)
    /\ user' = Set(user, t, None)
    /\ socket' = Set(socket, t, None)
    /\ call' = Set(call, t, IF stored = None THEN None
                            ELSE [kind |-> "me", token |-> stored])
    /\ reply' = Set(reply, t, None)
    /\ hashing' = Abandoned(t)
    /\ foreign' = foreign \ {t}
    /\ UNCHANGED <<accounts, now, stored>>

(* handleSubmit of AuthPage, whose button is disabled while submitting. *)
Submit(t, kind, f) ==
    /\ user[t] = None
    /\ call[t] = None
    /\ call' = Set(call, t, [kind |-> kind, form |-> f])
    /\ UNCHANGED <<accounts, hashing, now, reply, sessionVars>>

Received(t) ==
    /\ reply[t] # None
    /\ call' = Set(call, t, None)
    /\ reply' = Set(reply, t, None)
    /\ UNCHANGED <<accounts, hashing, now>>

(* A slip the runs catch: the socket presents the token of the last render. *)
PersistSessionStale(t) ==
    /\ Received(t)
    /\ reply[t].token # None
    /\ call[t].kind # "me"
    /\ Store(t, reply[t].token)
    /\ token' = Set(token, t, reply[t].token)
    /\ user' = Set(user, t, reply[t].token.username)
    /\ ConnectSocket(t, token[t])

(* persistSession, after a login or a signup. *)
PersistSession(t) ==
    /\ Received(t)
    /\ reply[t].token # None
    /\ call[t].kind # "me"
    /\ Store(t, reply[t].token)
    /\ token' = Set(token, t, reply[t].token)
    /\ user' = Set(user, t, reply[t].token.username)
    /\ ConnectSocket(t, reply[t].token)

(* login or signup throws: the form shows the error. *)
SubmitRejected(t) ==
    /\ Received(t)
    /\ reply[t].token = None
    /\ call[t].kind # "me"
    /\ UNCHANGED sessionVars

(* restoreSession gets its user. *)
Restored(t) ==
    /\ Received(t)
    /\ reply[t].token # None
    /\ call[t].kind = "me"
    /\ user' = Set(user, t, reply[t].token.username)
    /\ ConnectSocket(t, token[t])
    /\ UNCHANGED <<stored, token, foreign>>

(* A slip the runs catch: only the state is cleared. *)
RestoreFailsKeeping(t) ==
    /\ Received(t)
    /\ reply[t].token = None
    /\ call[t].kind = "me"
    /\ token' = Set(token, t, None)
    /\ UNCHANGED <<stored, user, socket, foreign>>

(* restoreSession fails, for whatever reason: the token that is stored by  *)
(* now is removed, whoever stored it.                                      *)
RestoreFails(t) ==
    /\ Received(t)
    /\ reply[t].token = None
    /\ call[t].kind = "me"
    /\ Store(t, None)
    /\ token' = Set(token, t, None)
    /\ UNCHANGED <<user, socket>>

(* A slip the runs catch: the connection outlives the session. *)
LogoutConnected(t) ==
    /\ user[t] # None
    /\ Store(t, None)
    /\ token' = Set(token, t, None)
    /\ user' = Set(user, t, None)
    /\ UNCHANGED <<accountVars, socket>>

Logout(t) ==
    /\ user[t] # None
    /\ Store(t, None)
    /\ socket' = Set(socket, t, None)
    /\ token' = Set(token, t, None)
    /\ user' = Set(user, t, None)
    /\ UNCHANGED accountVars

(* socketAuthMiddleware.  A client that is refused does not try again. *)
Handshake(t) ==
    /\ socket[t] # None
    /\ socket[t].state = "connecting"
    /\ socket' = Set(socket, t,
          [socket[t] EXCEPT !.state =
              IF socket[t].token # None /\ VerifyToken(socket[t].token)
              THEN "connected" ELSE "refused"])
    /\ UNCHANGED <<accountVars, stored, token, user, foreign>>

(* The transport goes; socket.io-client reconnects with the same token. *)
Drop(t) ==
    /\ socket[t] # None
    /\ socket[t].state = "connected"
    /\ ConnectSocket(t, socket[t].token)
    /\ UNCHANGED <<accountVars, stored, token, user, foreign>>

Deliver(t) ==
    PersistSession(t) \/ SubmitRejected(t) \/ Restored(t) \/ RestoreFails(t)

Next ==
    \/ \E t \in Tabs, kind \in {"login", "signup"}, f \in Forms : Submit(t, kind, f)
    \/ \E t \in Tabs : Reload(t) \/ Deliver(t) \/ Logout(t) \/ Handshake(t) \/ Drop(t)
    \/ (\E t \in Tabs : Served(t)) /\ UNCHANGED sessionVars
    \/ (ServedAlone \/ Tick) /\ UNCHANGED sessionVars

Spec == Init /\ [][Next]_vars

(* Requests are answered or fail, answers arrive, handshakes are decided;  *)
(* nothing is assumed of users, of the clock or of connections.            *)
FairSpec ==
    /\ Spec
    /\ \A t \in Tabs :
          /\ WF_vars(Served(t) /\ UNCHANGED sessionVars)
          /\ WF_vars(Deliver(t))
          /\ WF_vars(Handshake(t))

-----------------------------------------------------------------------------
(* Properties *)

(* Types of the session's state. *)
TypeOK ==
    /\ AccountsTypeOK
    /\ stored \in Tokens \cup {None}
    /\ token \in [Tabs -> Tokens \cup {None}]
    /\ user \in [Tabs -> Usernames \cup {None}]
    /\ socket \in [Tabs -> Sockets \cup {None}]
    /\ foreign \subseteq Tabs

(* A signed-in tab, its token and its socket are of one account, and only  *)
(* a signed-in tab has a socket.  It is without a connection for good only *)
(* once its token has expired.                                             *)
SessionAgrees ==
    \A t \in Tabs :
        /\ user[t] = None => socket[t] = None
        /\ user[t] # None =>
              /\ token[t] # None
              /\ token[t].username = user[t]
              /\ socket[t] # None
              /\ socket[t].token = token[t]
              /\ socket[t].state = "refused" => ~VerifyToken(token[t])

(* The storage holds the token of every tab behind whose back no other tab *)
(* has written it, and what it holds is some tab's: when the last tab that *)
(* has a session leaves it, none is left behind.                           *)
StorageAgrees ==
    /\ \A t \in Tabs : stored = token[t] \/ t \in foreign
    /\ stored # None => \E t \in Tabs : token[t] = stored

(* Tokens that a tab, the storage or an answer has. *)
Held ==
    ({stored} \cup {token[t] : t \in Tabs}
              \cup {reply[t].token : t \in {u \in Tabs : reply[u] # None}}) \ {None}

Registry == INSTANCE UniqueRegistry WITH accounts <- accounts, tokens <- Held

(* Whatever signups race and whatever is lost, usernames and emails stay   *)
(* unique, and a token is only ever of a registered account.               *)
IsRegistry == Registry!Spec

Connected(t) == socket[t] # None /\ socket[t].state = "connected"

(* Nothing is awaited, and who is signed in is connected or has expired.   *)
Settled(t) ==
    /\ call[t] = None
    /\ user[t] = None \/ Connected(t) \/ ~VerifyToken(token[t])

(* Unless the user reloads for ever, no tab stays on the loading page or   *)
(* on "Please wait", and one that is signed in gets connected.             *)
SessionSettles == \A t \in Tabs : <>[][~Reload(t)]_vars => []<>Settled(t)
=============================================================================
