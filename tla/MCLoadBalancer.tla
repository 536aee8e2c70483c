--------------------------- MODULE MCLoadBalancer ---------------------------
(***************************************************************************)
(* Instances of the balancer for TLC.  The configured pool is a prefix of  *)
(* <<b1, b2, b3>>, one address each; u1x is another spelling of u1, which  *)
(* url.Parse turns into u1, and bad does not parse.                        *)
(***************************************************************************)
EXTENDS LoadBalancer, TLC

CONSTANTS b1, b2, b3, u1, u2, u3, u1x, bad

Boot1 == <<b1>>
Boot2 == <<b1, b2>>
Boot3 == <<b1, b2, b3>>

MCBootUrl == [b \in Backend |-> CASE b = b1 -> u1 [] b = b2 -> u2 [] OTHER -> u3]

Limit1 == [b \in Backend |-> 1]

MCParsed == [u \in Url |-> CASE u = u1x -> u1 [] u = bad -> NoUrl [] OTHER -> u]

SymRequests == Permutations(Request)
SymAdmins == Permutations(Admin)
SymCallers == SymRequests \cup SymAdmins
=============================================================================
