------------------------------ MODULE RibSpec ------------------------------
(***************************************************************************)
(* What the routing table promises, with no index, no sequence number and  *)
(* no UPDATE: a map from identities to routes together with the order in   *)
(* which the routes now in it were received.  A route that is announced    *)
(* again becomes the newest one; nothing else changes places.              *)
(***************************************************************************)
CONSTANTS Id, Route

VARIABLES rib, newer

ribVars == <<rib, newer>>

Without(id) == {pair \in newer : pair[1] # id /\ pair[2] # id}

Announce(id, route) ==
    LET others == DOMAIN rib \ {id}
    IN  /\ rib' = [i \in others \cup {id} |-> IF i = id THEN route ELSE rib[i]]
        /\ newer' = Without(id) \cup ({id} \X others)

Withdraw(id) ==
    /\ id \in DOMAIN rib
    /\ rib' = [i \in DOMAIN rib \ {id} |-> rib[i]]
    /\ newer' = Without(id)

Clear ==
    /\ rib' = << >>
    /\ newer' = {}

Init == rib = << >> /\ newer = {}

(* Any route may be announced: the one found in the table afterwards.      *)
AnnounceSome(id) ==
    /\ id \in DOMAIN rib'
    /\ rib'[id] \in Route
    /\ Announce(id, rib'[id])

Next ==
    \/ \E id \in Id : AnnounceSome(id)
    \/ \E id \in Id : Withdraw(id)
    \/ Clear

Spec == Init /\ [][Next]_ribVars

=============================================================================
