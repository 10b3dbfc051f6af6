------------------------------ MODULE MCLongPoll ------------------------------
(* Small instances of LongPoll.  Clients do not see one another, so one    *)
(* client of either kind stands for any number of them.                    *)
EXTENDS LongPoll, TLC

CONSTANTS c1

OneClient == {c1}
=============================================================================
