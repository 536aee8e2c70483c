------------------------------ MODULE MCProxy ------------------------------
(***************************************************************************)
(* Instances of the proxy for TLC: the questions and the offers.  A tick   *)
(* is a second, so a max-stale, which is taken for ticks of a nanosecond,  *)
(* is 0.                                                                   *)
(***************************************************************************)
EXTENDS Proxy, TLC

Say(name) == <<Word(name)>>

Let(name, n) == <<[name |-> name, arg |-> n]>>

\* One line with these parts, no line if there are none
Line(parts) == IF parts = <<>> THEN <<>> ELSE <<parts>>

Ask(method, parts) == [method |-> method, header |-> Line(parts)]

Answer(status, parts) == [status |-> status, header |-> Line(parts)]

Questions == {Ask("GET", <<>>), Ask("GET", <<Say("only-if-cached")>>),
              Ask("GET", <<Say("no-store")>>)}

Offers == {Answer(200, <<Let("max-age", 1)>>),
           Answer(200, <<Let("max-age", 1), Say("private")>>)}

-----------------------------------------------------------------------------
(* The reading of headers against what their directives mean, for every    *)
(* header of at most three of these, separated as the code expects.        *)
SomeDirectives ==
    {Say("no-store"), Say("private"), Say("must-revalidate")}
        \cup {Let("max-age", n) : n \in {0, 2}} \cup {Let("s-maxage", n) : n \in {0, 3}}

Lines == UNION {[1 .. n -> SomeDirectives] : n \in 0 .. 3}

\* The argument of the last directive of that name, if there is one
Meant(h, name) ==
    {h[i][1].arg : i \in {j \in DOMAIN h : h[j][1].name = name /\
                            \A k \in j + 1 .. Len(h) : h[k][1].name # name}}

ASSUME HeadersReadAsMeant ==
    \A h \in Lines :
        LET read == ResponseDirectives(Line(h), 0) IN
        /\ read.noStore = Has(Line(h), "no-store")
        /\ read.private = Has(Line(h), "private")
        /\ Deadline(read) =
              IF Meant(h, "s-maxage") = {3} THEN 3 * Second
              ELSE IF Meant(h, "max-age") = {2} THEN 2 * Second
              ELSE Infinity

SymProxy == Permutations(Request) \cup Permutations(Inode) \cup Permutations(Url)
=============================================================================
