----------------------------- MODULE MCAccounts -----------------------------
(***************************************************************************)
(* Small instances of Accounts for TLC.                                    *)
(***************************************************************************)
EXTENDS Accounts

CONSTANTS c1, c2, h1, h2, n1, n2, p1, p2, w1, w2

TwoConns == {c1, c2}
TwoHandles == {h1, h2}
InOrder == <<h1, h2>>
OneName == {n1}
TwoNames == {n1, n2}
TwoPasswords == {p1, p2}
TwoWorkers == {w1, w2}

NoRows == <<>>
OneRow == <<[name |-> n1, passwd |-> p1]>>
=============================================================================
