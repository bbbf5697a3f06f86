--------------------------- MODULE MC_GatewaySync ---------------------------
(* Two ingresses for one service: an https rule, and stream rules on one      *)
(* address of the node, on one port or on two.                                *)
EXTENDS GatewaySync, TLC

CONSTANTS k1, k2, s1, a1, c1

Https == [kind |-> "l7", tls |-> TRUE, hosted |-> FALSE, listen |-> "https"]
Stream(port) == [kind |-> "l4", tls |-> FALSE, hosted |-> TRUE, listen |-> port]
MCRules == {Https, Stream("tcp"), Stream("tcp2")}
MCListens == {"https", "tcp", "tcp2"}

Boot(i1, i2, e, c, n, f) ==
    [ing |-> (k1 :> i1) @@ (k2 :> i2), ep |-> (s1 :> e), sec |-> (k1 :> c) @@ (k2 :> None),
     hostUp |-> TRUE, changes |-> n, faults |-> f]

\* The gateway starts with an https ingress whose service has no endpoint yet,
\* with two stream ingresses on one port, or with one, when the ingresses change
\* twice and no call fails.
MCBoots == {Boot(Https, None, None, c1, <<Sorts>>, 1),
            Boot(Stream("tcp"), Stream("tcp"), a1, None, <<{"ing", "ip"}>>, 1),
            Boot(Stream("tcp"), None, a1, None, <<{"ing"}, {"ing"}>>, 0)}
MCServiceOf == [k \in Keys |-> s1]
=============================================================================
