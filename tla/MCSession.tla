----------------------------- MODULE MCSession ------------------------------
EXTENDS Session, TLC

CONSTANTS ann, bob, x, X, y, p, q, t1, t2

Form(n, e, w) == [username |-> n, email |-> e, password |-> w]

(* X is x in another case: the first two conflict in the email only, the   *)
(* last two in the username only.                                          *)
MCForms == {Form(ann, x, p), Form(bob, X, q), Form(bob, y, p)}

MCLowerCase == [e \in {x, X, y} |-> IF e = X THEN x ELSE e]
=============================================================================
