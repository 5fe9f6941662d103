------------------------------ MODULE Decoding ------------------------------
(***************************************************************************)
(* What a peer says and what the receiver makes of it: the wire format of  *)
(* module Wire against a sender that encodes OPEN and UPDATE as the RFCs   *)
(* say, and the answers of /routes/search from the decoded prefixes.       *)
(*                                                                         *)
(* The sender knows prefixes as bits, paths as AS numbers and rules as     *)
(* components; it is the reference, and shares no definition with the      *)
(* decoder.  It puts the attributes in any order and in one message or     *)
(* several, and may be a speaker with AS numbers of two octets.            *)
(* It departs from the RFCs in one place: IPv6 FlowSpec prefixes are sent  *)
(* as the decoder reads them, without the offset octet of RFC 8956         *)
(* (README.md:186), so that of a conforming peer nothing is said there.    *)
(***************************************************************************)
EXTENDS Wire

CONSTANTS
    Configs,        \* configurations of the receiver: [asn, hold, router, peer_as]
    Peers,          \* what peers announce: [asn, hold, router, wide, layout]
    Trails,         \* AS paths of the routes
    Parts,          \* attributes a sender may put, see Encoded
    BodyLists,      \* lists of IPv4 prefixes in the body of an UPDATE
    Addresses,      \* addresses looked up
    MaxParts        \* bound: attributes in a message

-----------------------------------------------------------------------------
(* What a sender knows.                                                    *)

Half == 0..65535
Asn == Half \X Half

SentPrefixes(afi) ==
    {p \in [bits : Seq({0, 1}), pad : {0, 1}] : Len(p.bits) <= (IF afi = 2 THEN 128 ELSE 32)}

(* Numbers that are shown in full, and symbols without the AND bit.        *)
SentValues(kind) ==
    [symbol : 0..(IF kind \in {9, 12} THEN 3 ELSE 7),
     number : CASE kind = 9 -> 0..511
                [] kind = 11 -> 0..63
                [] kind = 12 -> 0..15
                [] OTHER -> Half]

(* The bits beyond the prefix of a rule are kept (wire_helpers.rs:36), so  *)
(* a sender has to clear them.                                             *)
IsComponent(c, afi) ==
    IF c.kind \in {1, 2} THEN c.prefix \in SentPrefixes(afi) /\ c.prefix.pad = 0
    ELSE c.kind \in 3..255 /\ c.values \in Seq(SentValues(c.kind)) \ {<< >>}

IsRule(rule, afi) ==
    /\ rule \in Seq(Range(rule))
    /\ \A i \in DOMAIN rule : IsComponent(rule[i], afi)
    /\ \A i, j \in DOMAIN rule : rule[i].kind = rule[j].kind => i = j

AreRoutes(routes, family) ==
    IF family[2] = 133
    THEN routes \in Seq(Range(routes)) /\ \A i \in DOMAIN routes : IsRule(routes[i], family[1])
    ELSE routes \in Seq(SentPrefixes(family[1]))

(* Communities that ask for the next hop: a redirect or copy to the        *)
(* address zero, IPv4 or IPv6, and two kinds that name no address.         *)
AsksNextHop(octets) ==
    LET zero(from, to) == (\A i \in from..(to - 1) : octets[i] = 0) /\ octets[to] \in {0, 1}
    IN  IF Len(octets) = 8
        THEN \/ octets[1] = 8
             \/ octets[1] = 128 /\ octets[2] = 11
             \/ octets[1] = 1 /\ octets[2] = 12 /\ zero(3, 8)
        ELSE octets[1] = 0 /\ octets[2] = 12 /\ zero(3, 20)
AreCommunities(list, size) ==
    /\ list \in Seq([octets : [1..size -> Octet], open : BOOLEAN])
    /\ \A i \in DOMAIN list : list[i].open <=> AsksNextHop(list[i].octets)

(* Attributes that are not well formed or say nothing.                     *)
IsJunk(code, data) ==
    /\ code \in Octet
    /\ data \in Seq(Octet)
    /\ code \in {2, 17} => Len(data) = 1
    /\ code = 3 => Len(data) # 4
    /\ code = 16 => Len(data) % 8 # 0
    /\ code = 25 => Len(data) % 20 # 0
    /\ code \in {14, 15} =>
           /\ Len(data) >= (IF code = 14 THEN 5 ELSE 3)
           /\ code = 14 => Len(data) >= 5 + data[4]
           /\ <<U16(data), data[3]>> \notin Families

IsPart(part) ==
    LET is(kind, codes) == part.kind = kind /\ part.code \in codes
    IN  \/ is("next_hop", {3}) /\ part.hop \in [1..4 -> Octet]
        \/ /\ is("reach", {14}) \/ is("unreach", {15})
           /\ part.family \in Families
           /\ AreRoutes(part.routes, part.family)
           /\ part.kind = "reach" => part.hop \in Seq(Octet) /\ Len(part.hop) < 256
        \/ is("actions", {16}) /\ AreCommunities(part.communities, 8)
        \/ is("actions", {25}) /\ AreCommunities(part.communities, 20)
        \/ is("path", {2})
        \/ is("as4", {17}) /\ part.covers \in Nat
        \/ is("junk", Octet) /\ IsJunk(part.code, part.data)

(* Of a longer list than the path a sender has these in front.             *)
Stale == <<<<1, 1>>, <<1, 2>>, <<1, 3>>>>

ASSUME ConfigsAssumption ==
    \A c \in Configs : /\ c.asn \in Asn
                       /\ c.hold \in Half \ {1, 2}      \* session.rs:66
                       /\ c.router \in [1..4 -> Octet]
ASSUME PeersAssumption ==
    Peers \subseteq [asn : Asn, hold : Half, router : [1..4 -> Octet], wide : BOOLEAN,
                    layout : {"bare", "one", "each", "behind another"}]
ASSUME PartsAssumption == \A part \in Parts : IsPart(part)
ASSUME TrailsAssumption ==
    /\ Trails \subseteq Seq(Asn)
    /\ \A trail \in Trails, part \in Parts :
          part.kind = "as4" => part.covers <= Len(trail) + Len(Stale)
ASSUME BodyListsAssumption == BodyLists \subseteq Seq(SentPrefixes(1))
ASSUME AddressesAssumption == Addresses \subseteq [1..4 -> Octet] \cup [1..16 -> Octet]

-----------------------------------------------------------------------------
VARIABLES
    stage,      \* "idle", "open", "composing", "decoded" or "searched"
    wide,       \* AS numbers of the session have four octets
    sent,       \* the last message of the peer, as the sender knows it
    received,   \* the same, decoded
    lookup      \* the last search: [ip, prefix]

vars == <<stage, wide, sent, received, lookup>>

-----------------------------------------------------------------------------
(* The sender.                                                             *)

ToOctets(bits, pad) ==
    LET bit(i) == IF i <= Len(bits) THEN bits[i] ELSE pad
    IN  [k \in 1..((Len(bits) + 7) \div 8) |->
            128 * bit(8 * k - 7) + 64 * bit(8 * k - 6) + 32 * bit(8 * k - 5)
              + 16 * bit(8 * k - 4) + 8 * bit(8 * k - 3) + 4 * bit(8 * k - 2)
              + 2 * bit(8 * k - 1) + bit(8 * k)]

(* The bits beyond the prefix are irrelevant (RFC 4271, 4.3), `pad` here.  *)
EncodedPrefix(p) == <<Len(p.bits)>> \o ToOctets(p.bits, p.pad)
EncodedPrefixes(list) == FlattenSeq([i \in DOMAIN list |-> EncodedPrefix(list[i])])

(* A value of a component takes one octet or two.                          *)
EncodedValues(values) ==
    FlattenSeq([i \in DOMAIN values |->
        LET op == values[i].symbol + (IF i = Len(values) THEN 128 ELSE 0)
        IN  IF values[i].number < 256 THEN <<op, values[i].number>>
            ELSE <<op + 16>> \o AsU16(values[i].number)])

EncodedComponent(c) ==
    <<c.kind>> \o (IF c.kind \in {1, 2} THEN EncodedPrefix(c.prefix) ELSE EncodedValues(c.values))

EncodedRule(rule) ==
    LET body == FlattenSeq([i \in DOMAIN rule |-> EncodedComponent(rule[i])])
    IN  (IF Len(body) < 240 THEN <<Len(body)>>
         ELSE <<240 + Len(body) \div 256, Len(body) % 256>>) \o body

EncodedRoutes(family, routes) ==
    IF family[2] = 133
    THEN FlattenSeq([i \in DOMAIN routes |-> EncodedRule(routes[i])])
    ELSE EncodedPrefixes(routes)

(* A path as segments of at most two AS numbers; one that does not fit is  *)
(* sent as AS_TRANS.                                                       *)
EncodedTrail(trail, octets) ==
    FlattenSeq([k \in 1..((Len(trail) + 1) \div 2) |->
        LET segment == SubSeq(trail, 2 * k - 1, IF 2 * k <= Len(trail) THEN 2 * k ELSE Len(trail))
        IN  <<2, Len(segment)>>
              \o FlattenSeq([i \in DOMAIN segment |->
                     IF octets = 4 THEN AsU16(segment[i][1]) \o AsU16(segment[i][2])
                     ELSE AsU16(IF segment[i][1] = 0 THEN segment[i][2] ELSE 23456)])])

(* The last n AS numbers of a path.                                        *)
Tail4(trail, n) == LET all == Stale \o trail IN SubSeq(all, Len(all) - n + 1, Len(all))

Encoded(part) ==
    LET data ==
            CASE part.kind = "next_hop" -> part.hop
              [] part.kind = "reach" ->
                     AsU16(part.family[1]) \o <<part.family[2], Len(part.hop)>> \o part.hop
                       \o <<0>> \o EncodedRoutes(part.family, part.routes)
              [] part.kind = "unreach" ->
                     AsU16(part.family[1]) \o <<part.family[2]>>
                       \o EncodedRoutes(part.family, part.routes)
              [] part.kind = "actions" -> FlattenSeq([i \in DOMAIN part.communities |-> part.communities[i].octets])
              [] part.kind = "path" -> EncodedTrail(sent.trail, IF wide THEN 4 ELSE 2)
              [] part.kind = "as4" -> EncodedTrail(Tail4(sent.trail, part.covers), 4)
              [] OTHER -> part.data
    IN  (IF Len(data) > 255 THEN <<144, part.code>> \o AsU16(Len(data))
         ELSE <<128, part.code, Len(data)>>) \o data

EncodedUpdate ==
    LET withdrawn == EncodedPrefixes(sent.withdrawn)
        attributes == FlattenSeq([i \in DOMAIN sent.parts |-> Encoded(sent.parts[i])])
    IN  AsU16(Len(withdrawn)) \o withdrawn \o AsU16(Len(attributes)) \o attributes
          \o EncodedPrefixes(sent.nlri)

(* Capability 65 may share a parameter with others, stand in one of its    *)
(* own, or follow a parameter of another type.                             *)
EncodedOpen(peer) ==
    LET four == IF peer.wide THEN <<65, 4>> \o AsU16(peer.asn[1]) \o AsU16(peer.asn[2]) ELSE << >>
        family == <<1, 4, 0, 1, 0, 1>>
        Parameter(kind, value) == <<kind, Len(value)>> \o value
        params == CASE peer.layout = "bare" -> << >>
                    [] peer.layout = "one" -> Parameter(2, family \o four \o <<2, 0>>)
                    [] peer.layout = "each" -> Parameter(2, four) \o Parameter(2, family)
                    [] OTHER -> Parameter(1, <<65, 4, 9, 9, 9, 9>>) \o Parameter(2, family \o four)
    IN  <<4>> \o AsU16(IF peer.asn[1] = 0 THEN peer.asn[2] ELSE 23456)
          \o AsU16(peer.hold) \o peer.router \o <<Len(params)>> \o params

-----------------------------------------------------------------------------
(* Messages.                                                               *)

Init ==
    /\ stage = "idle"
    /\ wide = FALSE
    /\ sent = << >>
    /\ received = << >>
    /\ lookup = << >>

(* An OPEN that is refused, or is not the configured peer's, ends the      *)
(* connection; the peer tries again.                                       *)
Refused == received.peer.ok => received.peer.asn # sent.config.peer_as

(* Both OPENs are read: the peer's by wire::open, the receiver's own by    *)
(* a reader of the same format.                                            *)
SendOpen ==
    /\ stage = "idle" \/ (stage = "open" /\ Refused)
    /\ stage' = "open"
    /\ \E peer \in Peers, config \in Configs :
          LET body == EncodedOpen(peer)
              own == BuildOpen(config.asn, config.hold, config.router)
          IN  /\ sent' = [peer |-> peer, config |-> config]
              /\ received' = [header |-> Header(First(Message(1, body), 19)),
                              size |-> Len(body),
                              peer |-> Open(body),
                              own |-> Open(own), two |-> U16(After(own, 1))]
              /\ wide' = (Open(body).ok /\ Open(body).as4)
    /\ UNCHANGED lookup

BeginUpdate ==
    /\ \/ stage = "open" /\ ~Refused
       \/ stage \in {"decoded", "searched"} /\ received.ok
    /\ stage' = "composing"
    /\ \E trail \in Trails, nlri \in BodyLists, withdrawn \in BodyLists :
          sent' = [trail |-> trail, parts |-> << >>, nlri |-> nlri, withdrawn |-> withdrawn]
    /\ received' = << >>
    /\ lookup' = << >>
    /\ UNCHANGED wide

(* An attribute appears once (RFC 4271, 5), but for MP_REACH and MP_UNREACH*)
(* here; AS4_PATH is for speakers of two octets and goes with an AS_PATH.  *)
PutPart ==
    /\ stage = "composing"
    /\ Len(sent.parts) < MaxParts
    /\ \E part \in Parts :
          /\ \A i \in DOMAIN sent.parts :
                sent.parts[i].code = part.code => part.code \in {14, 15}
          /\ part.kind = "as4" => ~wide
          /\ sent' = [sent EXCEPT !.parts = Append(@, part)]
    /\ UNCHANGED <<stage, wide, received, lookup>>

(* A message has at most 4096 octets, its header included.                 *)
SendUpdate ==
    /\ stage = "composing"
    /\ stage' = "decoded"
    /\ LET body == EncodedUpdate
       IN  /\ Len(body) <= 4096 - 19
           /\ received' = Update(body, IF wide THEN 4 ELSE 2)
    /\ UNCHANGED <<wide, sent, lookup>>

(* /routes/search, on the unicast routes of one message.                   *)
Announced(family) ==
    IF family \in DOMAIN received.announce
    THEN [i \in DOMAIN received.announce[family] |-> received.announce[family][i].prefix]
    ELSE << >>

Lookup ==
    /\ stage = "decoded"
    /\ received.ok
    /\ stage' = "searched"
    /\ \E ip \in Addresses :
          lookup' = [ip |-> ip,
                     prefix |-> Search(Announced(<<1, 1>>) \o Announced(<<2, 1>>), ip)]
    /\ UNCHANGED <<wide, sent, received>>

Next ==
    \/ SendOpen
    \/ BeginUpdate
    \/ PutPart
    \/ SendUpdate
    \/ Lookup

Spec == Init /\ [][Next]_vars

-----------------------------------------------------------------------------
(* What the sender meant.                                                  *)

Bit(octets, k) == (octets[(k + 7) \div 8] \div 2 ^ (7 - ((k - 1) % 8))) % 2

SamePrefix(prefix, p, width) ==
    /\ prefix.length = Len(p.bits)
    /\ 8 * Len(prefix.net) = width
    /\ \A k \in 1..width :
          Bit(prefix.net, k) = IF k <= Len(p.bits) THEN p.bits[k] ELSE 0

SameRule(decoded, rule, width) ==
    /\ DOMAIN decoded = {rule[i].kind : i \in DOMAIN rule}
    /\ \A i \in DOMAIN rule :
          LET c == rule[i]
          IN  IF c.kind \in {1, 2} THEN SamePrefix(decoded[c.kind], c.prefix, width)
              ELSE decoded[c.kind] =
                       [k \in DOMAIN c.values |-> <<c.values[k].symbol, c.values[k].number>>]

SameRoutes(decoded, routes, family, hop) ==
    LET width == IF family[1] = 2 THEN 128 ELSE 32
    IN  /\ Len(decoded) = Len(routes)
        /\ \A i \in DOMAIN routes :
              IF family[2] = 133 THEN SameRule(decoded[i], routes[i], width)
              ELSE /\ SamePrefix(decoded[i].prefix, routes[i], width)
                   /\ decoded[i].next_hop = hop

(* The lists of a message: those of its attributes and that of its body.   *)
Placed(kind) == {i \in DOMAIN sent.parts : sent.parts[i].kind = kind}
The(kind) == sent.parts[CHOOSE i \in Placed(kind) : TRUE]
Hop == IF Placed("next_hop") = {} THEN << >> ELSE The("next_hop").hop
Lists(kind, body, hop) ==
    {[at |-> i, family |-> sent.parts[i].family, routes |-> sent.parts[i].routes,
      hop |-> IF kind = "reach" THEN sent.parts[i].hop ELSE << >>] : i \in Placed(kind)}
      \cup IF body = << >> THEN {}
           ELSE {[at |-> 0, family |-> <<1, 1>>, routes |-> body, hop |-> hop]}

(* A family with two lists in one message is left with the last one.       *)
SameLists(decoded, lists) ==
    /\ DOMAIN decoded = {list.family : list \in lists}
    /\ \A list \in lists :
          (\A other \in lists : other.family = list.family => other.at = list.at)
            => SameRoutes(decoded[list.family], list.routes, list.family, list.hop)

Asked == FlattenSeq([i \in DOMAIN sent.parts |->
             IF sent.parts[i].kind = "actions" THEN sent.parts[i].communities ELSE << >>])
FlowHops == {sent.parts[i].hop : i \in {k \in DOMAIN sent.parts :
                sent.parts[k].kind = "reach" /\ sent.parts[k].family[2] = 133}} \ {<< >>}

SameActions(actions) ==
    /\ Len(actions) = Len(Asked)
    /\ \A i \in DOMAIN Asked :
          /\ actions[i].community = Asked[i].octets
          /\ IF ~Asked[i].open THEN actions[i].to = "given"
             ELSE IF FlowHops = {} THEN actions[i].to = "next hop"
             ELSE actions[i].to \in FlowHops

(* With two octets a path comes back as far as AS4_PATH covers it.         *)
Covered == IF wide THEN Len(sent.trail)
           ELSE IF Placed("as4") = {} THEN 0 ELSE The("as4").covers
SamePath(path) ==
    path = [i \in DOMAIN sent.trail |->
               IF sent.trail[i][1] = 0 \/ i > Len(sent.trail) - Covered
               THEN sent.trail[i] ELSE <<0, 23456>>]

-----------------------------------------------------------------------------
(* Properties.                                                             *)

(* An UPDATE is decoded as it was meant, in whatever order its attributes  *)
(* stand and with attributes among them that are not well formed: every    *)
(* list with its next hop, FlowSpec rules across the lengths at which the  *)
(* encoding changes, prefixes without the bits beyond them, redirects to   *)
(* the next hop of the rules, the path restored from AS4_PATH (README.md:  *)
(* 182).  Excepted are a family with two lists (SameLists; wire.rs:365)    *)
(* and an AS4_PATH longer than the AS_PATH, which RFC 6793 (4.2.3) ignores *)
(* and app.rs:366 takes for the path.                                      *)
DecodedAsSent ==
    stage \in {"decoded", "searched"} =>
        /\ received.ok
        /\ SameLists(received.announce, Lists("reach", sent.nlri, Hop))
        /\ SameLists(received.withdraw, Lists("unreach", sent.withdrawn, << >>))
        /\ SameActions(received.actions)
        /\ Placed("path") # {} /\ Covered <= Len(sent.trail) => SamePath(received.path)

(* A search finds a prefix the address is in, bit by bit, and none of the  *)
(* others it is in is longer; it finds nothing only if it is in none       *)
(* (prefix_match_len and max_by_key, app.rs:718-754).                      *)
LongestMatch ==
    stage = "searched" =>
        LET all == Announced(<<1, 1>>) \o Announced(<<2, 1>>)
            Inside(p) == /\ Len(p.net) = Len(lookup.ip)
                         /\ \A k \in 1..p.length : Bit(p.net, k) = Bit(lookup.ip, k)
            inside == {all[i] : i \in {k \in DOMAIN all : Inside(all[k])}}
        IN  IF inside = {} THEN lookup.prefix = Malformed
            ELSE /\ lookup.prefix \in inside
                 /\ \A p \in inside : p.length <= lookup.prefix.length

(* The two sides agree on AS numbers, hold time and width whatever the     *)
(* number and the arrangement of the parameters (wire.rs:40-87): the       *)
(* peer's number in full if it says so, AS_TRANS in the two octets of the  *)
(* receiver's own if its number does not fit, and a hold time of one or    *)
(* two seconds refused.  `session` takes the width of AS_PATH from this.   *)
OpenAgreed ==
    stage = "open" =>
        LET peer == sent.peer  config == sent.config
            full == peer.wide /\ peer.layout # "bare"
            Two(asn) == IF asn[1] = 0 THEN asn[2] ELSE 23456
        IN  /\ received.header = [ok |-> TRUE, kind |-> 1, length |-> received.size]
            /\ received.two = Two(config.asn)
            /\ received.own = [ok |-> TRUE, asn |-> config.asn, hold |-> config.hold,
                               router |-> config.router, as4 |-> TRUE]
            /\ received.peer =
                 IF peer.hold \in {1, 2} THEN Malformed
                 ELSE [ok |-> TRUE, asn |-> IF full THEN peer.asn ELSE <<0, Two(peer.asn)>>,
                       hold |-> peer.hold, router |-> peer.router, as4 |-> full]

=============================================================================
