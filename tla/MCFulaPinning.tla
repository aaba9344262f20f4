--------------------------- MODULE MCFulaPinning ---------------------------
(* Small instances of FulaPinning: one user whose token is refreshed, and    *)
(* two users, each with a token, the device is paired to in turn.            *)
EXTENDS FulaPinning

CONSTANTS t1, t2

MCTokens     == {t1, t2}
MCOneToken   == {t1}
MCRefreshed  == [t \in Tokens |-> "user"]
MCTwoUsers   == [t \in Tokens |-> IF t = t1 THEN "user1" ELSE "user2"]
=============================================================================
