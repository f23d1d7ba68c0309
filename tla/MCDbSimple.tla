----------------------------- MODULE MCDbSimple -----------------------------
(* Instances of DbSimple: policies, zones that refer to a policy, keys of an  *)
(* HSM that are in an array of a policy, and an application that may add a    *)
(* policy.                                                                    *)
EXTENDS DbSimple, TLC

CONSTANTS s1, s2, c1, c2, zone, policy, hsmkey, z1, p1, p2, h1, noz, nop, noh, new, a, b

Types == (z1 :> zone) @@ (noz :> zone) @@ (p1 :> policy) @@ (p2 :> policy)
         @@ (nop :> policy) @@ (new :> policy) @@ (h1 :> hsmkey) @@ (noh :> hsmkey)
Minus == (zone :> noz) @@ (policy :> nop) @@ (hsmkey :> noh)
Refers == (zone :> policy) @@ (policy :> NULL) @@ (hsmkey :> NULL)
Backs == (zone :> policy) @@ (policy :> NULL) @@ (hsmkey :> policy)
\* A zone and a policy may have one name.
Tables == (z1 :> [rev |-> 1, val |-> NULL, name |-> a, ref |-> p1])
          @@ (p1 :> [rev |-> 1, val |-> NULL, name |-> a, ref |-> NULL])
          @@ (h1 :> [rev |-> 1, val |-> NULL, name |-> a, ref |-> p1])
          @@ [i \in {p2, noz, nop, noh} |-> NULL]

Own == (s1 :> c1) @@ (s2 :> c2)
Shared == (s1 :> c1) @@ (s2 :> c1)
\* A policy may be added, and may take the name of another one.
Plain == [order |-> <<policy, zone>>, conn |-> Own, explicit |-> {}, auto |-> {},
          names |-> {a, b}, fetches |-> 2, ops |-> 2]
\* What is there is changed and fetched once more.
Again == [Plain EXCEPT !.names = {}, !.fetches = 3]
Forward == [Plain EXCEPT !.order = <<zone, policy>>, !.names = {b}, !.fetches = 1, !.ops = 1]
\* The order of the definitions of the example.
Default == [Forward EXCEPT !.order = <<hsmkey, policy, zone>>]
OneConnection == [Plain EXCEPT !.conn = Shared, !.names = {b}]
Flags == [Plain EXCEPT !.explicit = {policy}, !.auto = {zone}, !.names = {b}]
\* Long enough to mark a new object twice and make a zone refer to it.
Twice == [Plain EXCEPT !.names = {b}, !.fetches = 1, !.ops = 4]
AllSetups == {Plain, Again, Forward, Default, OneConnection, Flags, Twice}
=============================================================================
