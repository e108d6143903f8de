------------------------------- MODULE MCSpf -------------------------------
(* Three names: every policy of up to two terms at one, of one at another. *)
EXTENDS Spf

CONSTANTS PrefixLengths

na == <<"a">>
nb == <<"b", "a">>
nc == <<"c">>

Name(n) == [letter |-> "", reverse |-> FALSE, keep |-> 0, rest |-> n]
Macro(l, r, k) == [letter |-> l, reverse |-> r, keep |-> k, rest |-> <<>>]

client == [v |-> 4, n |-> 2, ptr |-> <<nc, nb>>]
near == [v |-> 4, n |-> 3]
far == [v |-> 6, n |-> 2]

Term(modifier, sign, mech, spec, prefix) ==
    [modifier |-> modifier, sign |-> sign, mech |-> mech, spec |-> spec,
     net |-> IF mech = "ip" THEN near ELSE NoNet, cidr |-> (4 :> prefix @@ 6 :> 2)]
Directive(sign, mech, spec, prefix) == Term(FALSE, sign, mech, spec, prefix)
Modifier(name, spec) == Term(TRUE, "none", name, spec, 0)

Terms ==
    {Directive("none", "ip", NoSpec, p) : p \in PrefixLengths}
    \cup {Directive("minus", "all", NoSpec, 0),
          Directive("tilde", "a", NoSpec, 1),
          Directive("none", "mx", Name(nc), 2),
          Directive("none", "exists", Macro("o", TRUE, 0), 0),
          Directive("none", "ptr", Name(na), 0),
          Directive("none", "a", Name(<<"x">>), 0),
          Directive("none", "include", Name(na), 0),
          Directive("mark", "include", Macro("d", FALSE, 1), 0),
          Directive("none", "include", Name(nc), 0),
          Modifier("redirect", Name(nb)),
          Modifier("redirect", Macro("z", FALSE, 0))}

Txt(terms) == [spf |-> TRUE, terms |-> terms]
Short == {<<>>} \cup {<<Txt(<<t>>)>> : t \in Terms}
Policies == Short
            \cup {<<[spf |-> FALSE, terms |-> <<>>], Txt(<<s, t>>)>> : s, t \in Terms}
Others == {<<Txt(<<>>), Txt(<<>>)>>, <<Txt(<<Directive("plus", "a", NoSpec, 3), Modifier("exp", Name(na))>>)>>,
           <<Txt(<<Directive("none", "include", Name(nb), 0), Directive("none", "all", NoSpec, 0)>>)>>}

MCZones ==
    {na :> [txt |-> p, a |-> {near}, mx |-> <<>>]
     @@ nb :> [txt |-> q, a |-> {far, [v |-> 4, n |-> 2]}, mx |-> <<na>>]
     @@ nc :> [txt |-> r, a |-> {}, mx |-> <<na, nb>>] : p \in Policies, q \in Short, r \in Others}

MCIdentities ==
    {[ip |-> client, helo |-> na, local |-> <<"u">>, sender |-> s] : s \in {<<>>, nb}}
    \cup {[ip |-> [client EXCEPT !.ptr = <<>>], helo |-> <<>>, local |-> <<"u">>, sender |-> <<>>]}

MCBits == 4 :> 2 @@ 6 :> 2
=============================================================================
