---------------------------- MODULE SharedCache ----------------------------
(***************************************************************************)
(* What a client may rely on, whatever the cache does inside: a request is *)
(* answered by a backend, by what backends have answered before to the     *)
(* same address and may be kept, or by the balancer itself; one that wants *)
(* nothing but the cache is never put to a backend.  How long an answer is *)
(* kept, and whether at all, is left open.                                 *)
(***************************************************************************)
EXTENDS Naturals, Sequences

CONSTANTS
    Client,     \* the requests
    Address,    \* what may be asked for
    Piece,      \* the pieces a body comes in
    Silent      \* nothing has been asked yet

VARIABLES
    asked,      \* what each request is for
    given,      \* the answers the backends have given, in order
    said        \* what each request has been answered

Wish == [address : Address, cacheOnly : BOOLEAN]

Nothing == [from |-> "nobody", body |-> <<>>]

OwnAnswer == [from |-> "balancer", body |-> <<>>]

Answer == [address : Address, keep : BOOLEAN]

\* The answers that may be used again for what is asked at a
Kept(a) == {v \in DOMAIN given : given[v].address = a /\ given[v].keep}

Init ==
    /\ asked = [c \in Client |-> Silent]
    /\ given = <<>>
    /\ said = [c \in Client |-> Nothing]

Ask(c) ==
    /\ asked[c] = Silent
    /\ \E q \in Wish : asked' = [asked EXCEPT ![c] = q]
    /\ UNCHANGED <<given, said>>

Waits(c) == asked[c] # Silent /\ said[c] = Nothing

Tell(c, answer) == said' = [said EXCEPT ![c] = answer]

Fetch(c) ==
    /\ Waits(c)
    /\ ~asked[c].cacheOnly
    /\ \E keep \in BOOLEAN :
           given' = Append(given, [address |-> asked[c].address, keep |-> keep])
    /\ Tell(c, [from |-> "backend", body |-> [i \in Piece |-> Len(given')]])
    /\ UNCHANGED asked

Reuse(c) ==
    /\ Waits(c)
    /\ \E body \in [Piece -> Kept(asked[c].address)] :
           Tell(c, [from |-> "cache", body |-> body])
    /\ UNCHANGED <<asked, given>>

Refuse(c) ==
    /\ Waits(c)
    /\ Tell(c, OwnAnswer)
    /\ UNCHANGED <<asked, given>>

Next == \E c \in Client : Ask(c) \/ Fetch(c) \/ Reuse(c) \/ Refuse(c)

Spec == Init /\ [][Next]_<<asked, given, said>>
=============================================================================
