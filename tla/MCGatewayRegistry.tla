-------------------------- MODULE MCGatewayRegistry --------------------------
(* Small instances of GatewayRegistry.                                        *)
EXTENDS GatewayRegistry

CONSTANTS b1, b2, r1, r2, r3

\* Two requests change one bucket, the third another.
MCTwoBuckets    == {b1, b2}
MCThreeRequests == {r1, r2, r3}
MCInBucket      == [r \in MCThreeRequests |-> IF r = r3 THEN b2 ELSE b1]
=============================================================================
