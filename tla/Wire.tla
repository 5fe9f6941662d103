-------------------------------- MODULE Wire --------------------------------
(***************************************************************************)
(* The BGP wire format: src/wire.rs and src/wire_helpers.rs, from octets   *)
(* to the decoded OPEN and UPDATE, and the longest-prefix match of         *)
(* /routes/search on what was decoded.                                     *)
(*                                                                         *)
(* Octets are 0..255, a message body is a sequence of them.  Names and     *)
(* renderings are left out where they tell apart what the octets tell      *)
(* apart; where they do not (masked bits, unknown flags, next hops filled  *)
(* in later) they are modelled.  An AS number of four octets is a pair of  *)
(* halves, for TLC's integers are narrower than a u32.                     *)
(*                                                                         *)
(* A decoder returns a record whose field `ok` is FALSE for an error.      *)
(***************************************************************************)
EXTENDS Naturals, SequencesExt, AsPath

Malformed == [ok |-> FALSE]

Octet == 0..255
First(data, n) == SubSeq(data, 1, n)
After(data, n) == SubSeq(data, n + 1, Len(data))
U16(data) == 256 * data[1] + data[2]
AsU16(n) == <<n \div 256, n % 256>>

(* `take`: what there is not enough of is an error.                        *)
Short(data, n) == Len(data) < n

-----------------------------------------------------------------------------
(* Lists: every `while !data.is_empty()` of the code takes one item after  *)
(* the other.                                                              *)

Data == Seq(Octet) \ {<< >>}

(* The whole items data begins with, up to the first that is in `last`.    *)
(* `size` gives the octets of the item that begins some data; those of an  *)
(* item that is not well formed are more than there are.                   *)
Items(data, size, last) ==
    LET items[p \in 0..Len(data)] ==
            LET rest == After(data, p)
                item == First(rest, size[rest])
            IN  IF rest = << >> \/ Short(rest, size[rest]) THEN << >>
                ELSE <<item>> \o IF item \in last THEN << >> ELSE items[p + size[rest]]
    IN  items[0]

Split(data, size) ==
    LET items == Items(data, size, {})
    IN  [ok |-> FlattenSeq(items) = data, items |-> items]

(* A type, a number of entries of that many octets, the entries.           *)
SegmentSize(width) ==
    [data \in Data |-> IF Short(data, 2) THEN 2 ELSE 2 + width * data[2]]

-----------------------------------------------------------------------------
(* Framing and OPEN.                                                       *)

Marker == [i \in 1..16 |-> 255]

Header(data) ==
    IF \/ Len(data) # 19
       \/ First(data, 16) # Marker
       \/ U16(After(data, 16)) \notin 19..4096
    THEN Malformed
    ELSE [ok |-> TRUE, kind |-> data[19], length |-> U16(After(data, 16)) - 19]

Message(kind, body) == Marker \o AsU16(Len(body) + 19) \o <<kind>> \o body

(* An AS number that does not fit is announced as AS_TRANS and, in full,   *)
(* in capability 65.                                                       *)
FoldedLow(asn) == asn[2]                                       \* bug
Folded(asn) == IF asn[1] > 0 THEN 23456 ELSE asn[2]
Families == {<<1, 1>>, <<1, 133>>, <<2, 1>>, <<2, 133>>}
Multiprotocol(family) == <<1, 4, 0, family[1], 0, family[2]>>
OwnCapabilities(asn) ==
    FlattenSeq(<<Multiprotocol(<<1, 1>>), Multiprotocol(<<1, 133>>),
                 Multiprotocol(<<2, 1>>), Multiprotocol(<<2, 133>>),
                 <<65, 4>> \o AsU16(asn[1]) \o AsU16(asn[2])>>)

BuildOpen(asn, hold, router) ==
    LET caps == OwnCapabilities(asn)
    IN  <<4>> \o AsU16(Folded(asn)) \o AsU16(hold) \o router
          \o <<Len(caps) + 2, 2, Len(caps)>> \o caps

(* The capabilities of a parameter, which are entries like the parameters. *)
Capabilities(parameter) ==
    IF parameter[1] = 2 THEN Split(After(parameter, 2), SegmentSize(1))
    ELSE [ok |-> TRUE, items |-> << >>]

(* What follows the announced parameters is not looked at.  Of several AS  *)
(* numbers in full the last is taken.                                      *)
Open(body) ==
    LET params == Split(First(After(body, 10), body[10]), SegmentSize(1))
        lists == [i \in DOMAIN params.items |-> Capabilities(params.items[i])]
        caps == FlattenSeq([i \in DOMAIN lists |-> lists[i].items])
        full == {i \in DOMAIN caps : First(caps[i], 2) = <<65, 4>>}
        asn == After(caps[Max(full)], 2)
    IN  IF Short(body, 10) \/ body[1] # 4 \/ U16(After(body, 3)) \in {1, 2}
             \/ Short(body, 10 + body[10])
        THEN Malformed
        ELSE IF ~params.ok \/ \E i \in DOMAIN lists : ~lists[i].ok THEN Malformed
        ELSE [ok |-> TRUE, hold |-> U16(After(body, 3)), router |-> First(After(body, 5), 4),
              as4 |-> full # {},
              asn |-> IF full = {} THEN <<0, U16(After(body, 1))>>
                      ELSE <<U16(asn), U16(After(asn, 2))>>]

-----------------------------------------------------------------------------
(* Prefixes.                                                               *)

Width(afi) == IF afi = 2 THEN 128 ELSE 32
OctetsFor(bits) == (bits + 7) \div 8

(* The leading bits of an octet, the others cleared.                       *)
MaskRounded(octet, bits) == IF bits <= 0 THEN 0 ELSE octet     \* bug
Mask(octet, bits) ==
    IF bits >= 8 THEN octet
    ELSE IF bits <= 0 THEN 0
    ELSE octet - (octet % 2^(8 - bits))

(* Unicast prefixes are masked, those of FlowSpec rules are not.           *)
Prefix(raw, bits, afi, masked) ==
    [length |-> bits,
     net |-> [k \in 1..OctetsFor(Width(afi)) |->
                 IF k > Len(raw) THEN 0
                 ELSE IF masked THEN Mask(raw[k], bits - 8 * (k - 1))
                 ELSE raw[k]]]

PrefixSize(afi) ==
    [data \in Data |-> IF data[1] > Width(afi) THEN Len(data) + 1
                       ELSE 1 + OctetsFor(data[1])]

Unicast(data, afi, nextHop) ==
    LET list == Split(data, PrefixSize(afi))
        Route(item) == [prefix |-> Prefix(Tail(item), item[1], afi, TRUE), next_hop |-> nextHop]
    IN  [ok |-> list.ok, routes |-> [i \in DOMAIN list.items |-> Route(list.items[i])]]

-----------------------------------------------------------------------------
(* FlowSpec.                                                               *)

Size(op) == 2 ^ ((op \div 16) % 4)
Bitmask(kind) == kind \in {9, 12}

U32(data) == 65536 * U16(data) + U16(After(data, 2))
BigEndian(data) ==
    CASE Len(data) = 1 -> data[1]
      [] Len(data) = 2 -> U16(data)
      [] Len(data) = 4 -> U32(data)
      [] OTHER -> 2^32 * U32(data) + U32(After(data, 4))

(* Unknown flags beside known ones are not shown, nor the upper bits of a  *)
(* DSCP; of the operator, the AND bit (64) is not.                         *)
Shown(kind, value) ==
    LET flags == value % (IF kind = 9 THEN 512 ELSE 16)
    IN  IF kind = 11 THEN value % 64
        ELSE IF Bitmask(kind) /\ flags # 0 THEN flags
        ELSE value
Symbol(kind, op) == op % (IF Bitmask(kind) THEN 4 ELSE 8)

(* The values of a component go up to the one with the end bit.            *)
ValueSize == [data \in Data |-> 1 + Size(data[1])]
Ending == {item \in Data : item[1] >= 128}
Values(data) == Items(data, ValueSize, Ending)

ComponentSize(afi) ==
    [data \in Data |->
        LET rest == Tail(data)
            values == Values(rest)
        IN  IF data[1] \in {1, 2}
            THEN IF rest = << >> THEN 2 ELSE 1 + PrefixSize(afi)[rest]
            ELSE IF values # << >> /\ Last(values) \in Ending
                 THEN 1 + Len(FlattenSeq(values))
                 ELSE Len(data) + 1]

Component(item, afi) ==
    LET kind == item[1]
        values == Values(Tail(item))
    IN  IF kind \in {1, 2} THEN Prefix(After(item, 2), item[2], afi, FALSE)
        ELSE [i \in DOMAIN values |->
                 <<Symbol(kind, values[i][1]), Shown(kind, BigEndian(Tail(values[i])))>>]

(* A component given twice replaces the first.                             *)
Gathered(list, afi) ==
    LET Given(kind) == {i \in DOMAIN list.items : list.items[i][1] = kind}
    IN  [ok |-> list.ok,
         rule |-> [kind \in {list.items[i][1] : i \in DOMAIN list.items} |->
                      Component(list.items[Max(Given(kind))], afi)]]
Components(data, afi) == Gathered(Split(data, ComponentSize(afi)), afi)

(* The length of a rule takes two octets from 240 on.                      *)
RuleLength(data) ==
    IF data[1] < 240 THEN [length |-> data[1], size |-> 1]
    ELSE IF Short(data, 2) THEN [length |-> 0, size |-> 2]
    ELSE [length |-> 256 * (data[1] % 16) + data[2], size |-> 2]
RuleSize == [data \in Data |-> RuleLength(data).size + RuleLength(data).length]

Rules(list, rules) ==
    [ok |-> list.ok /\ \A i \in DOMAIN rules : rules[i].ok,
     routes |-> [i \in DOMAIN rules |-> rules[i].rule]]
FlowSpec(data, afi) ==
    LET list == Split(data, RuleSize)
        Rule(item) == Components(After(item, RuleLength(item).size), afi)
    IN  Rules(list, [i \in DOMAIN list.items |-> Rule(list.items[i])])

-----------------------------------------------------------------------------
(* Attributes.                                                             *)

ShortHeader(data) == 3                                    \* bug: never extended

(* An extended length takes two octets.                                    *)
AttributeHeader(data) == IF (data[1] \div 16) % 2 = 1 THEN 4 ELSE 3
AttributeSize ==
    [data \in Data |->
        LET size == AttributeHeader(data)
        IN  IF Short(data, size) THEN size
            ELSE size + IF size = 4 THEN U16(After(data, 2)) ELSE data[3]]
Attribute(item) == [code |-> item[2], data |-> After(item, AttributeHeader(item))]

(* The segments of an AS path, flattened as App::apply_update does.        *)
Path(data, width) ==
    LET list == Split(data, SegmentSize(width))
        Asn(octets) == IF width = 2 THEN <<0, U16(octets)>>
                       ELSE <<U16(octets), U16(After(octets, 2))>>
        Asns(item) == [i \in 1..item[2] |-> Asn(After(item, 2 + width * (i - 1)))]
    IN  [ok |-> list.ok,
         path |-> FlattenSeq([i \in DOMAIN list.items |-> Asns(list.items[i])])]

(* Of the extended communities (16 and, for IPv6, 25) only what a next hop *)
(* completes later is told apart: a redirect or copy to the address zero   *)
(* without other flags.                                                    *)
Zeros(n) == [i \in 1..n |-> 0]
WantsNextHop(c) ==
    \/ \E n \in {4, 16}, flag \in {0, 1} :
          c = (IF n = 4 THEN <<1, 12>> ELSE <<0, 12>>) \o Zeros(n) \o <<0, flag>>
    \/ Len(c) = 8 /\ (c[1] = 8 \/ First(c, 2) = <<128, 11>>)

Actions(data, size) ==
    [i \in 1..(Len(data) \div size) |->
        LET c == SubSeq(data, size * (i - 1) + 1, size * i)
        IN  [community |-> c, to |-> IF WantsNextHop(c) THEN "next hop" ELSE "given"]]

(* MP_REACH and MP_UNREACH: a family, for the first a next hop, then the   *)
(* list.  An unknown family is no error and no list.                       *)
MpList(code, data) ==
    LET fixed == IF code = 14 THEN 4 ELSE 3
        start == IF code = 14 THEN 5 + data[4] ELSE 3
        family == <<U16(data), data[3]>>
        nextHop == IF code = 14 THEN First(After(data, 4), data[4]) ELSE << >>
        list == IF family[2] = 133 THEN FlowSpec(After(data, start), family[1])
                ELSE Unicast(After(data, start), family[1], nextHop)
    IN  IF Short(data, fixed) \/ Short(data, start) THEN Malformed
        ELSE [ok |-> family \in Families => list.ok, family |-> family,
              next_hop |-> nextHop, routes |-> list.routes]

-----------------------------------------------------------------------------
(* UPDATE.                                                                 *)

Put(map, key, value) == [k \in DOMAIN map \cup {key} |-> IF k = key THEN value ELSE map[k]]

(* The last attribute of a code that is well formed is the path.           *)
PathOf(attrs, code, width) ==
    LET paths == {i \in DOMAIN attrs : attrs[i].code = code /\ Path(attrs[i].data, width).ok}
    IN  IF paths = {} THEN << >> ELSE Path(attrs[Max(paths)].data, width).path

ActionsOf(attr) ==
    LET size == IF attr.code = 16 THEN 8 ELSE 20
    IN  IF attr.code \in {16, 25} /\ Len(attr.data) % size = 0
        THEN Actions(attr.data, size) ELSE << >>

NextHopOf(attrs) ==
    LET hops == {i \in DOMAIN attrs : attrs[i].code = 3}
        data == attrs[Max(hops)].data
    IN  IF hops = {} \/ Len(data) # 4 THEN << >> ELSE data

(* The lists of MP_REACH or MP_UNREACH: the last one of each family.       *)
RoutesOf(attrs, lists, code) ==
    LET Given(family) == {i \in DOMAIN lists : attrs[i].code = code /\ lists[i].family = family}
    IN  [family \in {f \in Families : Given(f) # {}} |-> lists[Max(Given(family))].routes]

(* A next hop of a FlowSpec list completes the actions wherever it stood.  *)
Completed(actions, lists) ==
    LET hops == {i \in DOMAIN lists : /\ lists[i].family \in {<<1, 133>>, <<2, 133>>}
                                      /\ lists[i].next_hop # << >>}
    IN  [i \in DOMAIN actions |->
            IF actions[i].to = "next hop" /\ hops # {}
            THEN [actions[i] EXCEPT !.to = lists[Max(hops)].next_hop]
            ELSE actions[i]]

(* An attribute that is not well formed is kept raw and has no effect,     *)
(* except MP_REACH and MP_UNREACH, which fail.  Withdrawn routes and NLRI  *)
(* are lists of their own.                                                 *)
Collected(attrs, asnLen, withdrawn, nlri) ==
    LET lists == [i \in {k \in DOMAIN attrs : attrs[k].code \in {14, 15}} |->
                     MpList(attrs[i].code, attrs[i].data)]
        gone == Unicast(withdrawn, 1, << >>)
        new == Unicast(nlri, 1, NextHopOf(attrs))
        announce == RoutesOf(attrs, lists, 14)
        withdraw == RoutesOf(attrs, lists, 15)
        actions == FlattenSeq([i \in DOMAIN attrs |-> ActionsOf(attrs[i])])
    IN  IF (\E i \in DOMAIN lists : ~lists[i].ok) \/ ~gone.ok \/ ~new.ok THEN Malformed
        ELSE [ok |-> TRUE,
              announce |-> IF nlri = << >> THEN announce ELSE Put(announce, <<1, 1>>, new.routes),
              withdraw |-> IF withdrawn = << >> THEN withdraw
                           ELSE Put(withdraw, <<1, 1>>, gone.routes),
              actions |-> Completed(actions, lists),
              path |-> MergedPath(PathOf(attrs, 2, asnLen), PathOf(attrs, 17, 4))]

Update(body, asnLen) ==
    LET rest == After(body, 2 + U16(body))
        attrs == Split(First(After(rest, 2), U16(rest)), AttributeSize)
    IN  IF Short(body, 2) \/ Short(body, 4 + U16(body)) \/ Short(rest, 2 + U16(rest))
             \/ ~attrs.ok
        THEN Malformed
        ELSE Collected([i \in DOMAIN attrs.items |-> Attribute(attrs.items[i])], asnLen,
                       First(After(body, 2), U16(body)), After(rest, 2 + U16(rest)))

-----------------------------------------------------------------------------
(* /routes/search.                                                         *)

Masked(net, length) == [k \in DOMAIN net |-> Mask(net[k], length - 8 * (k - 1))]

(* Only an address of the same family is inside a prefix.                  *)
Matches(prefix, ip) ==
    Len(prefix.net) = Len(ip) /\ Masked(prefix.net, prefix.length) = Masked(ip, prefix.length)

(* max_by_key: the last of the longest.                                    *)
Search(prefixes, ip) ==
    LET inside == {i \in DOMAIN prefixes : Matches(prefixes[i], ip)}
    IN  IF inside = {} THEN Malformed
        ELSE prefixes[CHOOSE i \in inside : \A j \in inside :
                 \/ prefixes[j].length < prefixes[i].length
                 \/ prefixes[j].length = prefixes[i].length /\ j <= i]

=============================================================================
