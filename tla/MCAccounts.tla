----------------------------- MODULE MCAccounts -----------------------------
(* Two tabs of anna, and bert, who also tries to register anna's address.  *)
EXTENDS Accounts, TLC

CONSTANTS tab1, tab2, bert, anna_email, right, wrong, demo_email, demo_password,
          s1

MCEmail == [c \in Clients |-> anna_email]
MCPassword == [c \in Clients |-> IF c = bert THEN wrong ELSE right]
=============================================================================
