--------------------------- MODULE MCRoundRobin ----------------------------
(* Four objects, three of them configured, two addresses, two callers.     *)
EXTENDS RoundRobin, TLC

CONSTANTS b1, b2, b3, b4, u1, u2

MCBoot == <<b1, b2, b3>>
MCBootUrl == [b \in Backend |-> IF b = b1 THEN u1 ELSE u2]
MCBootLimit == [b \in Backend |-> 1]
=============================================================================
