----------------------------- MODULE MCDecoding -----------------------------
(* An instance of Decoding: four families, rules on both sides of the      *)
(* length at which their encoding changes, nested prefixes with and        *)
(* without stray bits.                                                     *)
EXTENDS Decoding

Hop4 == <<10, 0, 0, 1>>
OtherHop4 == <<10, 0, 0, 2>>
Hop6 == <<32, 1, 13, 184, 0, 0, 0, 0, 0, 0, 0, 0, 0, 0, 0, 1>>

P(octets, length, pad) == [bits |-> [k \in 1..length |-> Bit(octets, k)], pad |-> pad]

Nested == <<P(<<10, 128>>, 9, 1), P(<<10>>, 8, 0), P(<< >>, 0, 0),
            P(<<10, 192, 0, 1>>, 32, 0)>>
InstanceBodyLists == {<< >>, Nested}

V(symbol, number) == [symbol |-> symbol, number |-> number]
Protocol == [kind |-> 3, values |-> <<V(1, 6)>>]
Flags == [kind |-> 9, values |-> <<V(1, 258), V(2, 16)>>]
Destination == [kind |-> 1, prefix |-> P(<<10, 128>>, 9, 0)]
Destination6 == [kind |-> 1, prefix |-> P(<<32, 1, 13, 184>>, 32, 0)]
Ports(n, last) ==
    [kind |-> 5, values |-> Append([i \in 1..(n - 1) |-> V(1 + (i % 7), i)], V(1, last))]

(* Rules of 239, 240 and 241 octets.                                       *)
LongRules == <<<<Ports(119, 80)>>, <<Ports(119, 8080)>>, <<Ports(120, 80)>>>>
Rule == <<Destination, Protocol, Flags>>

Reach(family, hop, routes) ==
    [kind |-> "reach", code |-> 14, family |-> family, hop |-> hop, routes |-> routes]
Unreach(family, routes) ==
    [kind |-> "unreach", code |-> 15, family |-> family, routes |-> routes]
Actionlist(code, communities) ==
    [kind |-> "actions", code |-> code, communities |-> communities]
Junk(code, data) == [kind |-> "junk", code |-> code, data |-> data]
C(octets, open) == [octets |-> octets, open |-> open]

InstanceParts ==
    {[kind |-> "next_hop", code |-> 3, hop |-> Hop4],
     Reach(<<1, 1>>, OtherHop4, <<P(<<10, 128>>, 10, 1)>>),
     Reach(<<1, 133>>, << >>, <<Rule>>),
     Reach(<<1, 133>>, OtherHop4, LongRules),
     Reach(<<2, 1>>, Hop6, <<P(<<32, 1, 13, 184, 128>>, 33, 1), P(<< >>, 0, 0)>>),
     Reach(<<2, 133>>, << >>, <<<<Destination6, Protocol>>, <<Flags>>>>),
     Unreach(<<1, 133>>, <<Rule>>),
     Unreach(<<2, 1>>, <<P(Hop6, 128, 0)>>),
     Actionlist(16, <<C(<<128, 6, 0, 0, 0, 0, 0, 0>>, FALSE),
                      C(<<1, 12, 0, 0, 0, 0, 0, 1>>, TRUE)>>),
     Actionlist(25, <<C(<<0, 12>> \o Zeros(16) \o <<0, 0>>, TRUE),
                      C(<<0, 12>> \o Hop6 \o <<0, 0>>, FALSE)>>),
     [kind |-> "path", code |-> 2],
     [kind |-> "as4", code |-> 17, covers |-> 2],
     [kind |-> "as4", code |-> 17, covers |-> 4],
     Junk(16, <<1, 2, 3>>),
     Junk(14, <<0, 1, 128, 0, 0, 9>>)}

InstanceTrails == {<<<<0, 65001>>, <<1, 5>>, <<0, 7>>>>}

Router == <<192, 0, 2, 1>>
InstanceConfigs == {[asn |-> asn, hold |-> 180, router |-> Router, peer_as |-> peer] :
                       asn, peer \in {<<0, 64512>>, <<1, 5>>}}
InstancePeers ==
    {[asn |-> asn, hold |-> hold, router |-> Router, wide |-> wideAsn, layout |-> layout] :
        asn \in {<<0, 64512>>, <<1, 5>>}, hold \in {0, 2, 3}, wideAsn \in BOOLEAN,
        layout \in {"bare", "one", "each", "behind another"}}

InstanceAddresses == {<<10, 192, 0, 1>>, <<10, 129, 0, 0>>, <<10, 127, 255, 255>>, <<11, 0, 0, 0>>, Hop6}

=============================================================================
