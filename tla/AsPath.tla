------------------------------ MODULE AsPath -------------------------------
(* The merge of AS_PATH and AS4_PATH, flattened to sequences of AS numbers *)
(* (App::apply_update).                                                    *)
EXTENDS Naturals, Sequences

(* The AS4_PATH replaces the tail of the AS_PATH, all of it when it is the *)
(* longer one (saturating_sub).                                            *)
MergedPath(path, as4) ==
    IF as4 = << >> THEN path
    ELSE SubSeq(path, 1, IF Len(as4) > Len(path) THEN 0
                         ELSE Len(path) - Len(as4)) \o as4

=============================================================================
