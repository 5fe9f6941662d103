------------------------------- MODULE MCRib -------------------------------
(* A small instance of Rib: three identities, one of each family and one   *)
(* more address version, and UPDATEs that replace, withdraw, repeat, mix   *)
(* and do nothing.                                                         *)
EXTENDS Rib

MCAfi == {"ipv4-flowspec", "ipv4-unicast", "ipv6-unicast"}
MCUnicastAfi == {"ipv4-unicast", "ipv6-unicast"}
MCIpv6Afi == {"ipv6-unicast"}
MCLabel == {"64500", "64501", "64502", "c", "h1", "h2", "/24", "/64",
            "drop", "=6", "=80"}

Unicast(afi, key, length, next_hop) ==
    [afi |-> afi, key |-> key, next_hop |-> next_hop, length |-> length,
     protocols |-> << >>, ports |-> << >>]
P(next_hop) == Unicast("ipv4-unicast", "p", "/24", next_hop)
Q(next_hop) == Unicast("ipv6-unicast", "q", "/64", next_hop)
(* A rule whose source and destination ports are the same. *)
R == [afi |-> "ipv4-flowspec", key |-> "r", next_hop |-> None,
      length |-> "/24", protocols |-> <<"=6">>, ports |-> <<"=80", "=80">>]

Message(announce, withdraw) ==
    [NoUpdate EXCEPT !.announce = announce, !.withdraw = withdraw]
Plain == [NoUpdate EXCEPT !.as_path = <<"64500", "64501">>,
                          !.communities = <<"c">>]

MCUpdates ==
    { [Plain EXCEPT !.announce = <<P("h1")>>],
      \* an AS4_PATH, a community twice, the prefix twice in one message
      [NoUpdate EXCEPT !.as_path = <<"64500">>, !.as4_path = <<"64502">>,
                       !.communities = <<"c", "c">>,
                       !.announce = <<P("h2"), P("h2")>>],
      \* both families in one message
      [Plain EXCEPT !.actions = <<"drop">>, !.announce = <<R, Q("h1")>>],
      Message(<< >>, <<P(None)>>),
      Message(<< >>, <<R, Q(None)>>),
      \* announced and withdrawn by the same message, another one withdrawn
      [Plain EXCEPT !.announce = <<P("h1")>>,
                    !.withdraw = <<P(None), Q(None)>>],
      NoUpdate }

=============================================================================
