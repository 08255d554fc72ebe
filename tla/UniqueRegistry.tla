--------------------------- MODULE UniqueRegistry ---------------------------
(***************************************************************************)
(* What accounts promise, without requests, hashing, tabs or storage: an   *)
(* account is registered in one step, which finds its username and email   *)
(* free, accounts are kept for good, and a token appears one at a time and *)
(* only for a registered account.                                          *)
(***************************************************************************)
VARIABLES
    accounts,   \* registered accounts
    tokens      \* tokens somebody holds

vars == <<accounts, tokens>>

Init == accounts = {} /\ tokens = {}

Register(a) ==
    /\ \A b \in accounts : b.username # a.username /\ b.email # a.email
    /\ accounts' = accounts \cup {a}

(* Tokens are forgotten, and one is granted for a registered account.      *)
Grant(tk) ==
    /\ \E a \in accounts' : a.username = tk.username
    /\ tokens' \subseteq tokens \cup {tk}

Forget == tokens' \subseteq tokens

Next ==
    /\ \/ UNCHANGED accounts
       \/ \E a \in accounts' : Register(a)
    /\ \/ Forget
       \/ \E tk \in tokens' : Grant(tk)

Spec == Init /\ [][Next]_vars

(* What follows: no two accounts share a username or an email, and every   *)
(* token names one of them.                                                *)
Promise ==
    /\ \A a, b \in accounts : a # b => a.username # b.username /\ a.email # b.email
    /\ \A tk \in tokens : \E a \in accounts : a.username = tk.username
=============================================================================
