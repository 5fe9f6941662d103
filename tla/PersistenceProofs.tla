------------------------- MODULE PersistenceProofs -------------------------
(***************************************************************************)
(* Theorems about Persistence, for any finite sets of routes and paths and *)
(* any number of errors and crashes.                                       *)
(*                                                                         *)
(* The file in place is safe because nobody has it open for writing,       *)
(* unless two writers overlapped: that is about names and inodes (Names),  *)
(* about a writer that is alone (Solo) and about the files in place        *)
(* (Intact).  What the data remember of it is in Remembered.               *)
(***************************************************************************)
EXTENDS Persistence, FiniteSetTheorems, SequenceTheorems, TLAPS

(* With a copy of the table, and with a file open.                         *)
Flushing(w) == place[w] \in {"create", "write", "rename", "mark"}
Opened(w) == place[w] \in {"write", "rename", "mark"}

Pieces == (SUBSET Routes) \X Nat
Longest == Cardinality(Routes) + 1
Types ==
    /\ TypeOK
    /\ pieces \in [Inode -> Seq(Pieces)]
    /\ synced \in [Inode -> Seq(Pieces)]
    /\ \A n \in Inode : Len(synced[n]) <= Longest
    /\ alone \in [Writers -> BOOLEAN]
    /\ missed \in [Writers -> BOOLEAN]
    /\ overlapped \in [Paths -> BOOLEAN]
    /\ forgot \in BOOLEAN
    /\ pristine \in BOOLEAN

(* What a flush has at each of its places; whoever holds `control` flushes *)
(* between its own steps only.                                             *)
Stands ==
    /\ \A w \in Writers :
          /\ Flushing(w) => copy[w].path \in Paths
          /\ Opened(w) <=> fd[w] # None
          /\ ~Opened(w) => offset[w] = 0
          /\ place[w] = "write" => offset[w] <= Cardinality(copy[w].routes)
          /\ place[w] = "rename" => offset[w] = Cardinality(copy[w].routes) + 1
    /\ goal = "none" <=> step = "none"
    /\ step \in {"none", "joined"} => place["control"] = "idle"

(* An inode has one name at most, and whoever has it open opened it for    *)
(* the path whose name it has.                                             *)
Names ==
    /\ \A p, q \in Paths :
          /\ tmp[p] = tmp[q] /\ tmp[p] # None => p = q
          /\ final[p] = final[q] /\ final[p] # None => p = q
          /\ tmp[p] # None => tmp[p] # final[q]
    /\ \A w \in Writers, q \in Paths :
          fd[w] # None /\ q # copy[w].path => fd[w] # tmp[q] /\ fd[w] # final[q]
    /\ \A v, w \in Writers :
          fd[w] # None /\ fd[v] = fd[w] => copy[v].path = copy[w].path

(* A writer that is alone writes a beginning of its image to the file that *)
(* has the temporary name.                                                 *)
Beginning(routes, n) == [i \in 1..n |-> <<routes, i>>]
Solo ==
    \A w \in Writers, p \in Paths :
        alone[w] /\ Writing(w, p) =>
            /\ \A v \in Writers : Writing(v, p) => v = w
            /\ tmp[p] = fd[w]
            /\ pieces[fd[w]] = Beginning(copy[w].routes, offset[w])

(* Unless flushes overlapped, the file in place is whole, a crash leaves   *)
(* it so, and nobody writes to it.                                         *)
Intact ==
    \A p \in Paths :
        final[p] # None /\ ~overlapped[p] =>
            /\ \E routes \in SUBSET Routes : pieces[final[p]] = Image(routes)
            /\ synced[final[p]] = pieces[final[p]]
            /\ \A w \in Writers : place[w] \in {"write", "rename"} => fd[w] # final[p]

(* A flush that missed nothing has the table, and the path as well, unless *)
(* that was replaced and the new one never written to; what was renamed or *)
(* marked as saved is in place.                                            *)
Untouched == pristine /\ table = {}
Excused == forgot \/ (output \in Paths /\ overlapped[output])
Remembered ==
    /\ \A w \in Writers :
          /\ Flushing(w) /\ ~missed[w] =>
                copy[w].routes = table /\ (copy[w].path = output \/ Untouched)
          /\ place[w] = "mark" /\ ~missed[w] /\ copy[w].path = output /\ ~Untouched =>
                Saved \/ Excused
    /\ dirty = "clean" /\ output # None /\ ~pristine => Saved \/ Excused

Files == Types /\ Stands /\ Names /\ Solo /\ Intact
Inv == Files /\ Remembered

-----------------------------------------------------------------------------
(* The helpers.                                                            *)

LEMMA Sizes ==
  /\ Cardinality(Routes) \in Nat
  /\ \A routes \in SUBSET Routes :
        /\ Cardinality(routes) \in Nat
        /\ Cardinality(routes) <= Cardinality(Routes)
BY RoutesAssumption, FS_Subset, FS_CardinalityType

LEMMA TwoWriters ==
  \A w \in Writers :
     /\ Other(w) \in Writers /\ Other(w) # w
     /\ \A v \in Writers : v = w \/ v = Other(w)
<1> TAKE w \in Writers
<1>1. \E v \in Writers : v # w
  BY DEF Writers
<1>2. Other(w) \in Writers /\ Other(w) # w
  BY <1>1 DEF Other
<1> QED BY <1>2 DEF Writers

LEMMA FewNames ==
  ASSUME NEW S, NEW f \in [Paths -> S]
  PROVE  /\ IsFiniteSet({f[p] : p \in Paths})
         /\ Cardinality({f[p] : p \in Paths}) \in Nat
         /\ Cardinality({f[p] : p \in Paths}) <= Cardinality(Paths)
<1>1. f \in Surjection(Paths, {f[p] : p \in Paths})
  BY DEF Surjection
<1> QED BY <1>1, PathsAssumption, FS_Surjection, FS_CardinalityType

(* There is a free inode whenever File::create needs one.                  *)
LEMMA FreeInode ==
  ASSUME Types, NEW p \in Paths, tmp[p] = None
  PROVE  \E n \in Inode : n \notin Used
<1> DEFINE A == {final[q] : q \in Paths}
           B == {tmp[q] : q \in Paths}
           C == {fd[w] : w \in Writers}
<1>1. /\ IsFiniteSet(A) /\ Cardinality(A) \in Nat /\ Cardinality(A) <= Cardinality(Paths)
      /\ IsFiniteSet(B) /\ Cardinality(B) \in Nat /\ Cardinality(B) <= Cardinality(Paths)
  <2>1. final \in [Paths -> Inode \cup {None}] /\ tmp \in [Paths -> Inode \cup {None}]
    BY DEF Types, TypeOK
  <2>2. IsFiniteSet(A) /\ Cardinality(A) \in Nat /\ Cardinality(A) <= Cardinality(Paths)
    BY <2>1, FewNames
  <2>3. IsFiniteSet(B) /\ Cardinality(B) \in Nat /\ Cardinality(B) <= Cardinality(Paths)
    BY <2>1, FewNames, ZenonT(60)
  <2> QED BY <2>2, <2>3
<1>2. IsFiniteSet(C) /\ Cardinality(C) \in Nat /\ Cardinality(C) <= 2
  <2>1. C = {fd["worker"]} \cup {fd["control"]}
    BY DEF Writers
  <2>2. IsFiniteSet({fd["worker"]}) /\ Cardinality({fd["worker"]}) = 1
    BY FS_Singleton
  <2>3. /\ IsFiniteSet({fd["worker"]} \cup {fd["control"]})
        /\ Cardinality({fd["worker"]} \cup {fd["control"]}) \in {1, 2}
    BY <2>2, FS_AddElement
  <2> QED BY <2>1, <2>3
<1> HIDE DEF A, B, C
<1>3. /\ IsFiniteSet(A \cup B) /\ Cardinality(A \cup B) \in Nat
      /\ Cardinality(A \cup B) <= 2 * Cardinality(Paths)
  <2>1. /\ IsFiniteSet(A \cup B)
        /\ Cardinality(A \cup B) = Cardinality(A) + Cardinality(B) - Cardinality(A \cap B)
    BY <1>1, FS_Union
  <2>2. Cardinality(A \cap B) \in Nat /\ Cardinality(Paths) \in Nat
    BY <1>1, PathsAssumption, FS_Intersection, FS_CardinalityType
  <2>3. Cardinality(A \cup B) \in Nat
    BY <2>1, FS_CardinalityType
  <2> QED BY <1>1, <2>1, <2>2, <2>3
<1>4. /\ IsFiniteSet((A \cup B) \cup C) /\ Cardinality((A \cup B) \cup C) \in Nat
      /\ Cardinality((A \cup B) \cup C) <= 2 * Cardinality(Paths) + 2
  <2>1. /\ IsFiniteSet((A \cup B) \cup C)
        /\ Cardinality((A \cup B) \cup C)
             = Cardinality(A \cup B) + Cardinality(C) - Cardinality((A \cup B) \cap C)
    BY <1>2, <1>3, FS_Union
  <2>2. Cardinality((A \cup B) \cap C) \in Nat /\ Cardinality(Paths) \in Nat
    BY <1>3, PathsAssumption, FS_Intersection, FS_CardinalityType
  <2>3. Cardinality((A \cup B) \cup C) \in Nat
    BY <2>1, FS_CardinalityType
  <2> QED BY <1>2, <1>3, <2>1, <2>2, <2>3
<1>5. Used = (A \cup B) \cup C
  BY DEF Used, A, B, C
<1>6. None \in Used
  BY DEF Used
<1>7. /\ IsFiniteSet(Used \ {None})
      /\ Cardinality(Used \ {None}) < 2 * Cardinality(Paths) + 2
  <2>1. /\ IsFiniteSet(Used \ {None})
        /\ Cardinality(Used \ {None}) = Cardinality(Used) - 1
    BY <1>4, <1>5, <1>6, FS_RemoveElement
  <2> QED BY <1>4, <1>5, <2>1, PathsAssumption, FS_CardinalityType
<1>8. SUFFICES ASSUME Inode \subseteq Used PROVE FALSE
  OBVIOUS
<1>9. Inode \in SUBSET (Used \ {None})
  BY <1>8, PathsAssumption
<1>10. Cardinality(Inode) <= Cardinality(Used \ {None})
  BY <1>7, <1>9, FS_Subset
<1> QED BY <1>7, <1>10, InodeAssumption, PathsAssumption, FS_CardinalityType

(* What File::create does: the inode is that of the name, or a free one.   *)
LEMMA Created ==
  ASSUME Types, Stands, NEW w \in Writers, Create(w)
  PROVE  /\ copy[w].path \in Paths
         /\ \E n \in Inode :
               /\ \/ n = tmp[copy[w].path]
                  \/ tmp[copy[w].path] = None /\ n \notin Used
               /\ tmp' = [tmp EXCEPT ![copy[w].path] = n]
               /\ pieces' = [pieces EXCEPT ![n] = << >>]
               /\ synced' = IF n \in Used THEN synced
                            ELSE [synced EXCEPT ![n] = << >>]
               /\ fd' = [fd EXCEPT ![w] = n]
<1>1. copy[w].path \in Paths
  BY DEF Stands, Create, Flushing
<1> DEFINE n == IF tmp[copy[w].path] # None THEN tmp[copy[w].path]
                ELSE CHOOSE free \in Inode : free \notin Used
<1>2. /\ tmp' = [tmp EXCEPT ![copy[w].path] = n]
      /\ pieces' = [pieces EXCEPT ![n] = << >>]
      /\ synced' = IF n \in Used THEN synced ELSE [synced EXCEPT ![n] = << >>]
      /\ fd' = [fd EXCEPT ![w] = n]
  BY DEF Create
<1>3. /\ n \in Inode
      /\ \/ n = tmp[copy[w].path]
         \/ tmp[copy[w].path] = None /\ n \notin Used
  <2>1. CASE tmp[copy[w].path] # None
    BY <1>1, <2>1 DEF Types, TypeOK
  <2>2. CASE tmp[copy[w].path] = None
    BY <1>1, <2>2, FreeInode
  <2> QED BY <2>1, <2>2
<1> HIDE DEF n
<1> QED BY <1>1, <1>2, <1>3

(* What a write leaves in the file.                                        *)
LEMMA WrittenSeq ==
  ASSUME NEW old \in Seq(Pieces), NEW at \in Nat \ {0}, NEW piece \in Pieces
  PROVE  /\ Written(old, at, piece) \in Seq(Pieces)
         /\ Len(Written(old, at, piece)) = IF at > Len(old) THEN at ELSE Len(old)
<1> DEFINE m == IF at > Len(old) THEN at ELSE Len(old)
           elt(i) == IF i = at THEN piece ELSE IF i <= Len(old) THEN old[i] ELSE <<{}, 0>>
<1>1. Len(old) \in Nat /\ m \in Nat
  OBVIOUS
<1>2. \A i \in 1..m : elt(i) \in Pieces
  <2>1. <<{}, 0>> \in Pieces
    BY DEF Pieces
  <2>2. \A i \in 1..m : i <= Len(old) => old[i] \in Pieces
    BY <1>1
  <2> QED BY <2>1, <2>2
<1>3. Written(old, at, piece) = [i \in 1..m |-> elt(i)]
  BY DEF Written
<1> HIDE DEF m, elt
<1>4. [i \in 1..m |-> elt(i)] \in Seq(Pieces) /\ Len([i \in 1..m |-> elt(i)]) = m
  BY <1>1, <1>2
<1> QED BY <1>3, <1>4 DEF m

-----------------------------------------------------------------------------
(* The types, and what a flush has at each of its places.                  *)

LEMMA MissingType == ASSUME Missing PROVE missed' \in [Writers -> BOOLEAN]
<1>1. \A w \in Writers : (missed[w] \/ (place[w] # "idle" /\ table' # table)) \in BOOLEAN
  BY Zenon
<1> QED BY <1>1, Zenon DEF Missing

LEMMA ReturnTypes ==
  ASSUME Types, NEW w \in Writers, NEW error \in BOOLEAN, Return(w, error)
  PROVE  /\ goal' \in Goals /\ step' \in Steps /\ failed' \in BOOLEAN
         /\ place' \in [Writers -> Places]
         /\ copy' \in [Writers -> [path : Paths \cup {None}, routes : SUBSET Routes]]
         /\ fd' \in [Writers -> Inode \cup {None}]
         /\ offset' \in [Writers -> 0..Longest]
         /\ alone' \in [Writers -> BOOLEAN]
         /\ missed' \in [Writers -> BOOLEAN]
<1>1. failed' \in BOOLEAN
  <2>1. CASE w = "control"
    BY <2>1 DEF Return
  <2>2. CASE w # "control"
    BY <2>2 DEF Return, Types, TypeOK
  <2> QED BY <2>1, <2>2
<1>2. alone' \in [Writers -> BOOLEAN]
  <2>1. alone \in [Writers -> BOOLEAN] /\ alone' = [alone EXCEPT ![w] = TRUE]
    BY DEF Return, Types
  <2> QED BY <2>1, Zenon
<1>3. missed' \in [Writers -> BOOLEAN]
  <2>1. missed \in [Writers -> BOOLEAN] /\ missed' = [missed EXCEPT ![w] = FALSE]
    BY DEF Return, Types
  <2> QED BY <2>1, Zenon
<1>4. offset' \in [Writers -> 0..Longest]
  BY Sizes DEF Return, Types, TypeOK, Longest
<1>5. /\ goal' \in Goals /\ step' \in Steps
      /\ place' \in [Writers -> Places]
      /\ fd' \in [Writers -> Inode \cup {None}]
  BY DEF Return, Goto, Types, TypeOK, Places
<1>6. copy' \in [Writers -> [path : Paths \cup {None}, routes : SUBSET Routes]]
  <2>1. NoCopy \in [path : Paths \cup {None}, routes : SUBSET Routes]
    BY DEF NoCopy
  <2> QED BY <2>1 DEF Return, Types, TypeOK
<1> QED BY <1>1, <1>2, <1>3, <1>4, <1>5, <1>6

LEMMA CopyTypes ==
  ASSUME Types, NEW w \in Writers, Copy(w)
  PROVE  /\ place' \in [Writers -> Places]
         /\ copy' \in [Writers -> [path : Paths \cup {None}, routes : SUBSET Routes]]
         /\ missed' \in [Writers -> BOOLEAN]
<1>1. missed \in [Writers -> BOOLEAN] /\ missed' = [missed EXCEPT ![w] = FALSE]
  BY DEF Copy, Types
<1>2. missed' \in [Writers -> BOOLEAN]
  BY <1>1, Zenon
<1> QED BY <1>2 DEF Copy, Goto, Types, TypeOK, Places

(* The number of the next piece, and the piece.                            *)
LEMMA NextPiece ==
  ASSUME Types, Stands, NEW w \in Writers, place[w] = "write"
  PROVE  /\ copy[w].routes \in SUBSET Routes
         /\ Cardinality(copy[w].routes) \in Nat
         /\ fd[w] \in Inode
         /\ offset[w] \in Nat
         /\ offset[w] + 1 \in 1..(Cardinality(copy[w].routes) + 1)
         /\ offset[w] + 1 <= Longest
         /\ Len(Image(copy[w].routes)) = Cardinality(copy[w].routes) + 1
         /\ Image(copy[w].routes)[offset[w] + 1] = <<copy[w].routes, offset[w] + 1>>
         /\ Image(copy[w].routes)[offset[w] + 1] \in Pieces
<1>1. copy[w].routes \in SUBSET Routes /\ offset[w] \in 0..Longest
  BY DEF Types, TypeOK, Longest
<1>2. /\ Cardinality(copy[w].routes) \in Nat
      /\ Cardinality(copy[w].routes) <= Cardinality(Routes)
      /\ Cardinality(Routes) \in Nat
  BY <1>1, Sizes
<1>3. fd[w] \in Inode
  BY DEF Types, TypeOK, Stands, Opened
<1>4. offset[w] <= Cardinality(copy[w].routes)
  BY DEF Stands
<1>5. offset[w] \in Nat
  BY <1>1, <1>2 DEF Longest
<1>6. offset[w] + 1 \in 1..(Cardinality(copy[w].routes) + 1) /\ offset[w] + 1 <= Longest
  BY <1>2, <1>4, <1>5 DEF Longest
<1>7. Image(copy[w].routes)[offset[w] + 1] = <<copy[w].routes, offset[w] + 1>>
  BY <1>6 DEF Image
<1>8. <<copy[w].routes, offset[w] + 1>> \in Pieces
  BY <1>1, <1>5 DEF Pieces
<1>9. Len(Image(copy[w].routes)) = Cardinality(copy[w].routes) + 1
  BY <1>2 DEF Image
<1> QED BY <1>1, <1>2, <1>3, <1>5, <1>6, <1>7, <1>8, <1>9

LEMMA NextTypes ==
  ASSUME Types, Stands, [Next]_vars
  PROVE  Types'
<1> USE DEF Types, TypeOK, Goals, Steps, Places
<1>1. CASE UNCHANGED vars
  BY <1>1 DEF vars, dataVars, controlVars, writerVars, fileVars, boundVars, historyVars
<1>2. CASE ApplyUpdate
  <2>1. /\ table' \subseteq Routes /\ dirty' = "young" /\ pristine' = FALSE
        /\ missed' \in [Writers -> BOOLEAN]
    BY <1>2, MissingType DEF ApplyUpdate, Change
  <2> QED BY <1>2, <2>1
          DEF ApplyUpdate, controlVars, writerVars, fileVars, boundVars
<1>3. ASSUME Emptied
      PROVE  /\ table' \subseteq Routes /\ dirty' \in {"clean", "young", "ripe"}
             /\ pristine' \in BOOLEAN /\ missed' \in [Writers -> BOOLEAN]
  <2>1. pristine' \in BOOLEAN
    BY <1>3, Zenon DEF Emptied
  <2> QED BY <1>3, <2>1, MissingType DEF Emptied
<1>4. CASE LoseConnection
  BY <1>3, <1>4 DEF LoseConnection, controlVars, writerVars, fileVars, boundVars
<1>5. CASE Ripen
  BY <1>5 DEF Ripen, controlVars, writerVars, fileVars, boundVars, historyVars
<1>6. CASE Tick
  <2>1. Copy("worker") /\ "worker" \in Writers
    BY <1>6 DEF Tick, Writers
  <2> QED BY <1>6, <2>1, CopyTypes, SMTT(60) DEF Tick, dataVars, controlVars, fileVars, boundVars
<1>7. ASSUME NEW w \in Writers, Create(w)
      PROVE  Types'
  <2>1. PICK n \in Inode :
          /\ tmp' = [tmp EXCEPT ![copy[w].path] = n]
          /\ pieces' = [pieces EXCEPT ![n] = << >>]
          /\ synced' = IF n \in Used THEN synced ELSE [synced EXCEPT ![n] = << >>]
          /\ fd' = [fd EXCEPT ![w] = n]
    BY <1>7, Created
  <2>2. << >> \in Seq(Pieces) /\ Len(<< >>) <= Longest
    BY Sizes DEF Longest
  <2>3. pieces' \in [Inode -> Seq(Pieces)] /\ synced' \in [Inode -> Seq(Pieces)]
    BY <2>1, <2>2
  <2>4. \A m \in Inode : Len(pieces'[m]) <= Longest /\ Len(synced'[m]) <= Longest
    BY <2>1, <2>2 DEF Longest
  <2>5. alone' \in [Writers -> BOOLEAN]
    <3> DEFINE contended == Writing(Other(w), copy[w].path)
    <3>1. alone' = [v \in Writers |-> IF v = w THEN ~contended ELSE alone[v] /\ ~contended]
      BY <1>7 DEF Create
    <3> HIDE DEF contended
    <3>2. \A v \in Writers :
            (IF v = w THEN ~contended ELSE alone[v] /\ ~contended) \in BOOLEAN
      BY Zenon
    <3> QED BY <3>1, <3>2, Zenon
  <2>6. /\ tmp' \in [Paths -> Inode \cup {None}]
        /\ fd' \in [Writers -> Inode \cup {None}]
        /\ place' \in [Writers -> Places]
    <3>1. tmp' \in [Paths -> Inode \cup {None}]
      BY <2>1
    <3>2. fd' \in [Writers -> Inode \cup {None}]
      BY <2>1
    <3> QED BY <1>7, <3>1, <3>2 DEF Create, Goto
  <2> QED BY <1>7, <2>3, <2>4, <2>5, <2>6, SMTT(60)
          DEF Create, dataVars, controlVars, boundVars, Longest
<1>8. ASSUME NEW w \in Writers, Write(w)
      PROVE  Types'
  <2>0. place[w] = "write"
    BY <1>8 DEF Write
  <2> DEFINE next == offset[w] + 1
             new == Written(pieces[fd[w]], next, Image(copy[w].routes)[next])
  <2>1. next \in Nat \ {0} /\ next <= Longest /\ fd[w] \in Inode
    BY <2>0, NextPiece, SMTT(60)
  <2>2. /\ new \in Seq(Pieces)
        /\ Len(new) = IF next > Len(pieces[fd[w]]) THEN next ELSE Len(pieces[fd[w]])
    BY <2>0, <2>1, NextPiece, WrittenSeq, ZenonT(60)
  <2>3. Len(new) <= Longest
    BY <2>1, <2>2 DEF Longest
  <2>4. pieces' = [pieces EXCEPT ![fd[w]] = new] /\ offset' = [offset EXCEPT ![w] = next]
    BY <1>8 DEF Write
  <2> HIDE DEF new
  <2>5. pieces' \in [Inode -> Seq(Pieces)] /\ \A n \in Inode : Len(pieces'[n]) <= Longest
    BY <2>1, <2>2, <2>3, <2>4 DEF Longest
  <2>6. offset' \in [Writers -> 0..Longest]
    BY <2>1, <2>4, Sizes DEF Longest
  <2>7. place' \in [Writers -> Places]
    BY <1>8, ZenonT(60) DEF Write, Goto
  <2> QED BY <1>8, <2>5, <2>6, <2>7
          DEF Write, dataVars, controlVars, boundVars, historyVars, Longest
<1>9. ASSUME NEW w \in Writers, Rename(w)
      PROVE  Types'
  <2> DEFINE p == copy[w].path
             durable == [synced EXCEPT ![fd[w]] = pieces[fd[w]]]
  <2>1. p \in Paths /\ fd[w] \in Inode
    BY <1>9 DEF Rename, Stands, Flushing, Opened
  <2>2. << >> \in Seq(Pieces) /\ Len(<< >>) <= Longest
    BY Sizes DEF Longest
  <2>3. durable \in [Inode -> Seq(Pieces)] /\ \A n \in Inode : Len(durable[n]) <= Longest
    BY <2>1 DEF Longest
  <2> HIDE DEF durable
  <2>4. ASSUME NEW contents \in [Inode -> Seq(Pieces)], NEW n,
               \A m \in Inode : Len(contents[m]) <= Longest
        PROVE  /\ Freed(contents, n) \in [Inode -> Seq(Pieces)]
               /\ \A m \in Inode : Len(Freed(contents, n)[m]) <= Longest
    BY <2>2, <2>4 DEF Freed
  <2>5. CASE tmp[p] = None
    <3>1. Return(w, TRUE) /\ synced' = durable /\ UNCHANGED <<final, tmp, pieces, overlapped, forgot>>
      BY <1>9, <2>5 DEF Rename, durable
    <3> QED BY <1>9, <2>3, <3>1, ReturnTypes DEF Rename, dataVars, boundVars, Longest
  <2>6. CASE tmp[p] # None
    <3>1. /\ synced' = Freed(durable, final[p])
          /\ pieces' = Freed(pieces, final[p])
          /\ final' = [final EXCEPT ![p] = tmp[p]]
          /\ tmp' = [tmp EXCEPT ![p] = None]
          /\ overlapped' = [overlapped EXCEPT ![p] = ~alone[w]]
          /\ forgot' = missed[w]
          /\ Goto(w, "mark")
          /\ UNCHANGED <<controlVars, copy, fd, offset, alone, missed>>
      BY <1>9, <2>6 DEF Rename, durable
    <3>2. /\ synced' \in [Inode -> Seq(Pieces)]
          /\ pieces' \in [Inode -> Seq(Pieces)]
          /\ \A n \in Inode : Len(pieces'[n]) <= Longest /\ Len(synced'[n]) <= Longest
      BY <2>3, <2>4, <3>1 DEF Longest
    <3>3. /\ final' \in [Paths -> Inode \cup {None}]
          /\ tmp' \in [Paths -> Inode \cup {None}]
          /\ place' \in [Writers -> Places]
      BY <2>1, <3>1 DEF Goto
    <3>4. overlapped' \in [Paths -> BOOLEAN]
      <4>1. overlapped \in [Paths -> BOOLEAN] /\ (~alone[w]) \in BOOLEAN
        OBVIOUS
      <4> QED BY <3>1, <4>1, Zenon
    <3>5. forgot' \in BOOLEAN
      BY <3>1
    <3> QED BY <1>9, <3>1, <3>2, <3>3, <3>4, <3>5
            DEF Rename, dataVars, controlVars, boundVars, Longest
  <2> QED BY <2>5, <2>6
<1>10. ASSUME NEW w \in Writers, Mark(w)
       PROVE  Types'
  <2>1. forgot' \in BOOLEAN
    BY <1>10, Zenon DEF Mark
  <2> QED BY <1>10, <2>1, ReturnTypes DEF Mark, fileVars, boundVars, Longest
<1>11. ASSUME NEW w \in Writers, Fail(w)
       PROVE  Types'
  <2>1. faults' \in 0..MaxFaults
    BY <1>11, BoundAssumption DEF Fail
  <2> QED BY <1>11, <2>1, ReturnTypes DEF Fail, dataVars, fileVars, Longest
<1>12. ASSUME NEW what \in {"start", "stop"}, Request(what)
       PROVE  Types'
  <2>1. "control" \in Writers
    BY DEF Writers
  <2>2. CASE session
    BY <1>3, <1>12, <2>1, <2>2 DEF Request, Goto, fileVars, boundVars
  <2>3. CASE ~session
    BY <1>12, <2>3 DEF Request, fileVars, boundVars
  <2> QED BY <2>2, <2>3
<1>13. CASE SessionEnded
  BY <1>13 DEF SessionEnded, dataVars, writerVars, fileVars, boundVars, historyVars
<1>14. CASE HandlerFlush
  <2>1. CASE goal = "stop"
    BY <1>3, <1>14, <2>1 DEF HandlerFlush, Goto, fileVars, boundVars
  <2>2. CASE goal # "stop"
    BY <1>14, <2>2, ZenonT(60) DEF HandlerFlush, Goto, fileVars, boundVars
  <2> QED BY <2>1, <2>2
<1>15. CASE Forced
  <2>1. "control" \in Writers
    BY DEF Writers
  <2>2. CASE output = None
    BY <1>15, <2>1, <2>2, ZenonT(60) DEF Forced, Goto, dataVars, fileVars, boundVars
  <2>3. CASE output # None
    BY <1>15, <2>1, <2>3, CopyTypes, ZenonT(60) DEF Forced, dataVars, fileVars, boundVars
  <2> QED BY <2>2, <2>3
<1>16. CASE Finish
  <2>1. CASE goal = "stop" \/ failed
    BY <1>16, <2>1 DEF Finish, dataVars, writerVars, fileVars, boundVars
  <2>2. CASE ~(goal = "stop" \/ failed)
    <3>1. /\ output' \in Paths \cup {None} /\ session' = TRUE /\ table' = {}
          /\ dirty' = IF table = {} THEN dirty ELSE "young"
          /\ pristine' = (table = {} /\ (pristine \/ output' # output))
          /\ Missing
      BY <1>16, <2>2 DEF Finish
    <3>2. pristine' \in BOOLEAN
      BY <3>1, Zenon
    <3> QED BY <1>16, <3>1, <3>2, MissingType DEF Finish, writerVars, fileVars, boundVars
  <2> QED BY <2>1, <2>2
<1>17. CASE Crash
  <2>1. crashes' \in 0..MaxCrashes
    BY <1>17, BoundAssumption DEF Crash
  <2>2. NoCopy \in [path : Paths \cup {None}, routes : SUBSET Routes]
    BY DEF NoCopy
  <2>3. /\ alone' \in [Writers -> BOOLEAN] /\ missed' \in [Writers -> BOOLEAN]
    BY <1>17, Zenon DEF Crash
  <2>4. /\ place' \in [Writers -> Places]
        /\ copy' \in [Writers -> [path : Paths \cup {None}, routes : SUBSET Routes]]
        /\ fd' \in [Writers -> Inode \cup {None}]
        /\ offset' \in [Writers -> 0..Longest]
    BY <1>17, <2>2, Sizes DEF Crash, Longest
  <2>5. /\ pieces' \in [Inode -> Seq(Pieces)]
        /\ \A n \in Inode : Len(pieces'[n]) <= Longest
    BY <1>17 DEF Crash, Longest
  <2> QED BY <1>17, <2>1, <2>3, <2>4, <2>5 DEF Crash, Longest
<1> QED BY <1>1, <1>2, <1>4, <1>5, <1>6, <1>7, <1>8, <1>9, <1>10, <1>11, <1>12, <1>13,
           <1>14, <1>15, <1>16, <1>17 DEF Next, Flush

(* What a step leaves alone: the changes to the table and the requests     *)
(* keep out of the files, and out of the flushes but for their beginning.  *)
Outside ==
    \/ ApplyUpdate \/ LoseConnection \/ Ripen
    \/ \E what \in {"start", "stop"} : Request(what)
    \/ SessionEnded \/ HandlerFlush \/ Finish
    \/ UNCHANGED vars

LEMMA OutsideFrame ==
  ASSUME Types, Stands, Outside
  PROVE  /\ UNCHANGED <<copy, fd, offset, fileVars, boundVars, alone, overlapped, forgot>>
         /\ \/ UNCHANGED place
            \/ /\ place["control"] = "idle"
               /\ place' = [place EXCEPT !["control"] = "decide"]
         /\ goal' = "none" <=> step' = "none"
         /\ step' \in {"none", "joined"} => place'["control"] = "idle"
<1> USE DEF Types, TypeOK, Stands, Goals, Steps, Places, Goto, Writers
<1>1. CASE ApplyUpdate
  BY <1>1 DEF ApplyUpdate, writerVars, controlVars
<1>2. CASE LoseConnection
  BY <1>2 DEF LoseConnection, writerVars, controlVars
<1>3. CASE Ripen
  BY <1>3 DEF Ripen, writerVars, controlVars, historyVars
<1>4. ASSUME NEW what \in {"start", "stop"}, Request(what)
      PROVE  /\ UNCHANGED <<copy, fd, offset, fileVars, boundVars, alone, overlapped, forgot>>
             /\ \/ UNCHANGED place
                \/ /\ place["control"] = "idle"
                   /\ place' = [place EXCEPT !["control"] = "decide"]
             /\ goal' = "none" <=> step' = "none"
             /\ step' \in {"none", "joined"} => place'["control"] = "idle"
  <2>1. UNCHANGED <<copy, fd, offset, fileVars, boundVars, alone, overlapped, forgot>>
    BY <1>4 DEF Request
  <2>2. place["control"] = "idle" /\ goal' # "none" /\ step' # "none"
    BY <1>4 DEF Request
  <2>3. CASE session
    <3>1. place' = [place EXCEPT !["control"] = "decide"] /\ step' = "ending"
      BY <1>4, <2>3 DEF Request
    <3> QED BY <2>1, <2>2, <3>1
  <2>4. CASE ~session
    <3>1. UNCHANGED place
      BY <1>4, <2>4 DEF Request
    <3> QED BY <2>1, <2>2, <3>1
  <2> QED BY <2>3, <2>4
<1>5. CASE SessionEnded
  BY <1>5 DEF SessionEnded, writerVars, historyVars
<1>6. CASE HandlerFlush
  BY <1>6 DEF HandlerFlush
<1>7. CASE Finish
  BY <1>7 DEF Finish, writerVars
<1>8. CASE UNCHANGED vars
  BY <1>8 DEF vars, controlVars, writerVars, historyVars
<1> QED BY <1>1, <1>2, <1>3, <1>4, <1>5, <1>6, <1>7, <1>8 DEF Outside

(* A flush begins: the worker's, or a forced one that finds an output.     *)
Begins(w) ==
    /\ IF w = "worker" THEN place[w] = "idle" ELSE place[w] = "decide"
    /\ output # None
    /\ Copy(w)
    /\ UNCHANGED <<dataVars, goal, step, fd, offset, fileVars, alone, overlapped,
                   forgot, pristine>>

(* A flush ends without having touched a name: it has nothing to do, fails *)
(* or is over.                                                             *)
Ends(w) ==
    /\ Goto(w, "idle")
    /\ UNCHANGED <<goal, step>>
    /\ \A v \in Writers \ {w} :
          /\ copy'[v] = copy[v] /\ fd'[v] = fd[v] /\ offset'[v] = offset[v]
          /\ alone'[v] = alone[v] /\ missed'[v] = missed[v]
    /\ fd'[w] = None /\ offset'[w] = 0

LEMMA Returned ==
  ASSUME Types, NEW w \in Writers, NEW error, Return(w, error)
  PROVE  Ends(w)
BY DEF Types, TypeOK, Return, Ends

LEMMA StepsOf ==
  ASSUME Types, Stands, [Next]_vars
  PROVE  \/ Outside \/ Crash
         \/ \E w \in Writers :
               \/ Begins(w) \/ Create(w) \/ Write(w) \/ Rename(w) \/ Mark(w) \/ Fail(w)
               \/ Ends(w) /\ UNCHANGED <<dataVars, copy, fileVars, overlapped, forgot,
                                         pristine, missed>>
<1>1. CASE Tick
  BY <1>1 DEF Tick, Begins, Writers, controlVars
<1>2. CASE Forced
  <2>1. "control" \in Writers
    BY DEF Writers
  <2>2. CASE output = None
    <3>1. Goto("control", "idle") /\ place["control"] = "decide"
          /\ UNCHANGED <<goal, step, copy, fd, offset, alone, missed, dataVars, fileVars,
                         overlapped, forgot, pristine>>
      BY <1>2, <2>2 DEF Forced
    <3>2. fd["control"] = None /\ offset["control"] = 0
      BY <2>1, <3>1 DEF Stands, Opened
    <3>3. Ends("control")
      BY <3>1, <3>2 DEF Ends
    <3> QED BY <2>1, <3>1, <3>3
  <2>3. CASE output # None
    <3>1. Begins("control")
      BY <1>2, <2>3 DEF Forced, Begins
    <3> QED BY <2>1, <3>1
  <2> QED BY <2>2, <2>3
<1> QED BY <1>1, <1>2 DEF Next, Flush, Outside

LEMMA NextStands ==
  ASSUME Types, Stands, [Next]_vars
  PROVE  Stands'
<1> USE DEF Types, TypeOK, Stands, Flushing, Opened
<1>1. CASE Outside
  <2>1. /\ UNCHANGED <<copy, fd, offset>>
        /\ goal' = "none" <=> step' = "none"
        /\ step' \in {"none", "joined"} => place'["control"] = "idle"
        /\ \A w \in Writers :
              \/ place'[w] = place[w]
              \/ place[w] = "idle" /\ place'[w] = "decide"
    BY <1>1, OutsideFrame
  <2> QED BY <2>1, SMTT(60) DEF Writers
<1>2. CASE Crash
  BY <1>2 DEF Crash, Writers
<1>3. ASSUME NEW w \in Writers, Begins(w)
      PROVE  Stands'
  BY <1>3 DEF Begins, Copy, Goto, Writers
<1>4. ASSUME NEW w \in Writers, Ends(w), \A v \in Writers \ {w} : copy'[v] = copy[v]
      PROVE  Stands'
  <2>1. \A v \in Writers : place'[v] = IF v = w THEN "idle" ELSE place[v]
    BY <1>4 DEF Ends, Goto
  <2> QED BY <1>4, <2>1, SMTT(60) DEF Ends, Writers
<1>5. ASSUME NEW w \in Writers, Create(w)
      PROVE  Stands'
  <2>1. PICK n \in Inode : fd' = [fd EXCEPT ![w] = n]
    BY <1>5, Created
  <2>2. /\ \A v \in Writers : place'[v] = IF v = w THEN "write" ELSE place[v]
        /\ \A v \in Writers : fd'[v] = IF v = w THEN n ELSE fd[v]
        /\ UNCHANGED <<copy, offset, goal, step>> /\ n # None /\ place[w] = "create"
    BY <1>5, <2>1, PathsAssumption DEF Create, Goto, controlVars
  <2>3. 0 <= Cardinality(copy[w].routes)
    BY Sizes
  <2> QED BY <2>2, <2>3 DEF Writers
<1>6. ASSUME NEW w \in Writers, Write(w)
      PROVE  Stands'
  <2>1. /\ place[w] = "write"
        /\ \A v \in Writers : offset'[v] = IF v = w THEN offset[v] + 1 ELSE offset[v]
        /\ UNCHANGED <<copy, fd, goal, step>>
    BY <1>6 DEF Write, controlVars
  <2>2. /\ Len(Image(copy[w].routes)) = Cardinality(copy[w].routes) + 1
        /\ Cardinality(copy[w].routes) \in Nat /\ offset[w] \in Nat
    BY <2>1, NextPiece
  <2>3. \A v \in Writers :
          place'[v] = IF v = w /\ offset[w] = Cardinality(copy[w].routes)
                      THEN "rename" ELSE place[v]
    BY <1>6, <2>1, <2>2 DEF Write, Goto
  <2> QED BY <2>1, <2>2, <2>3, SMTT(60) DEF Writers
<1>7. ASSUME NEW w \in Writers, Rename(w)
      PROVE  Stands'
  <2>1. CASE tmp[copy[w].path] = None
    BY <1>4, <1>7, <2>1, Returned, ZenonT(60) DEF Rename, Ends, Return
  <2>2. CASE tmp[copy[w].path] # None
    <3>1. /\ place[w] = "rename"
          /\ \A v \in Writers : place'[v] = IF v = w THEN "mark" ELSE place[v]
          /\ UNCHANGED <<copy, fd, offset, goal, step>>
      BY <1>7, <2>2 DEF Rename, Goto, controlVars
    <3> QED BY <3>1 DEF Writers
  <2> QED BY <2>1, <2>2
<1>8. ASSUME NEW w \in Writers, Mark(w) \/ Fail(w)
      PROVE  Stands'
  BY <1>4, <1>8, Returned, ZenonT(60) DEF Mark, Fail, Ends
<1> QED BY <1>1, <1>2, <1>3, <1>4, <1>5, <1>6, <1>7, <1>8, StepsOf

-----------------------------------------------------------------------------
(* The names and the files.                                                *)

LEMMA NextNames ==
  ASSUME Types, Stands, Names, [Next]_vars
  PROVE  Names'
<1>0. ASSUME UNCHANGED <<tmp, final>>,
             \A v \in Writers : fd'[v] # None => fd'[v] = fd[v] /\ copy'[v] = copy[v]
      PROVE  Names'
  BY <1>0 DEF Names
<1>1. CASE Outside
  BY <1>0, <1>1, OutsideFrame DEF fileVars
<1>2. CASE Crash
  BY <1>0, <1>2 DEF Crash
<1>3. ASSUME NEW w \in Writers, Begins(w)
      PROVE  Names'
  <2>1. fd[w] = None
    BY <1>3 DEF Begins, Stands, Opened
  <2>2. UNCHANGED <<fd, tmp, final>> /\ \A v \in Writers : v # w => copy'[v] = copy[v]
    BY <1>3 DEF Begins, Copy, fileVars
  <2> QED BY <1>0, <2>1, <2>2
<1>4. ASSUME NEW w \in Writers, Ends(w), UNCHANGED <<tmp, final>>,
             \A v \in Writers \ {w} : copy'[v] = copy[v]
      PROVE  Names'
  BY <1>0, <1>4 DEF Ends
<1>5. ASSUME NEW w \in Writers, Create(w)
      PROVE  Names'
  <2> DEFINE p == copy[w].path
  <2>1. PICK n \in Inode :
          /\ p \in Paths
          /\ n = tmp[p] \/ (tmp[p] = None /\ n \notin Used)
          /\ tmp' = [tmp EXCEPT ![p] = n]
          /\ fd' = [fd EXCEPT ![w] = n]
    BY <1>5, Created
  <2>2. UNCHANGED <<copy, final>> /\ n # None
    BY <1>5, PathsAssumption DEF Create
  <2>3. \A q \in Paths : (q # p => n # tmp[q]) /\ n # final[q]
    BY <2>1, <2>2 DEF Used, Names
  <2>4. \A v \in Writers : fd[v] = n => copy[v].path = p
    BY <2>1, <2>2 DEF Used, Names
  <2>5. \A q \in Paths : tmp'[q] = IF q = p THEN n ELSE tmp[q]
    BY <2>1 DEF Types, TypeOK
  <2>6. \A v \in Writers : fd'[v] = IF v = w THEN n ELSE fd[v]
    BY <2>1 DEF Types, TypeOK
  <2> HIDE DEF p
  <2>7. /\ \A q, r \in Paths :
              /\ tmp'[q] = tmp'[r] /\ tmp'[q] # None => q = r
              /\ tmp'[q] # None => tmp'[q] # final'[r]
    BY <2>2, <2>3, <2>5 DEF Names
  <2>8. \A v \in Writers, q \in Paths :
          fd'[v] # None /\ q # copy'[v].path => fd'[v] # tmp'[q] /\ fd'[v] # final'[q]
    BY <2>2, <2>3, <2>4, <2>5, <2>6 DEF p, Names
  <2>9. \A u, v \in Writers : fd'[v] # None /\ fd'[u] = fd'[v] => copy'[u].path = copy'[v].path
    <3> TAKE u, v \in Writers
    <3>1. HAVE fd'[v] # None /\ fd'[u] = fd'[v]
    <3>2. CASE u # w /\ v # w
      BY <2>2, <2>6, <3>1, <3>2 DEF Names
    <3>3. CASE u = w \/ v = w
      BY <2>2, <2>4, <2>6, <3>1, <3>3 DEF p
    <3> QED BY <3>2, <3>3
  <2> QED BY <2>2, <2>7, <2>8, <2>9 DEF Names
<1>6. ASSUME NEW w \in Writers, Write(w)
      PROVE  Names'
  BY <1>0, <1>6 DEF Write
<1>7. ASSUME NEW w \in Writers, Rename(w)
      PROVE  Names'
  <2> DEFINE p == copy[w].path
  <2>1. CASE tmp[p] = None
    BY <1>4, <1>7, <2>1, Returned DEF Rename, Ends
  <2>2. CASE tmp[p] # None
    <3>1. /\ final' = [final EXCEPT ![p] = tmp[p]]
          /\ tmp' = [tmp EXCEPT ![p] = None]
          /\ UNCHANGED <<copy, fd>>
      BY <1>7, <2>2 DEF Rename
    <3>2. p \in Paths
      BY <1>7 DEF Rename, Stands, Flushing
    <3>3. \A q \in Paths : /\ final'[q] = IF q = p THEN tmp[p] ELSE final[q]
                           /\ tmp'[q] = IF q = p THEN None ELSE tmp[q]
      BY <3>1, <3>2 DEF Types, TypeOK
    <3> HIDE DEF p
    <3>4. \A q, r \in Paths :
            /\ tmp'[q] = tmp'[r] /\ tmp'[q] # None => q = r
            /\ final'[q] = final'[r] /\ final'[q] # None => q = r
            /\ tmp'[q] # None => tmp'[q] # final'[r]
      BY <3>2, <3>3 DEF Names
    <3>5. \A v \in Writers, q \in Paths :
            fd'[v] # None /\ q # copy'[v].path => fd'[v] # tmp'[q] /\ fd'[v] # final'[q]
      BY <3>1, <3>2, <3>3 DEF Names
    <3> QED BY <3>1, <3>4, <3>5 DEF Names
  <2> QED BY <2>1, <2>2
<1>8. ASSUME NEW w \in Writers, Mark(w) \/ Fail(w)
      PROVE  Names'
  BY <1>4, <1>8, Returned DEF Mark, Fail, Ends, fileVars
<1> QED BY <1>1, <1>2, <1>3, <1>4, <1>5, <1>6, <1>7, <1>8, StepsOf DEF fileVars

(* A write at the end of a beginning makes a longer one, the last write    *)
(* the image.                                                              *)
LEMMA Longer ==
  ASSUME NEW routes \in SUBSET Routes, NEW n \in Nat, n <= Cardinality(routes)
  PROVE  Written(Beginning(routes, n), n + 1, Image(routes)[n + 1])
           = Beginning(routes, n + 1)
<1>1. Cardinality(routes) \in Nat
  BY Sizes
<1>2. n + 1 \in 1..(Cardinality(routes) + 1)
  BY <1>1
<1>3. Image(routes)[n + 1] = <<routes, n + 1>>
  BY <1>2 DEF Image
<1> DEFINE b == Beginning(routes, n)
<1>4. Len(b) = n /\ \A i \in 1..n : b[i] = <<routes, i>>
  BY DEF Beginning
<1> HIDE DEF b
<1>5. Written(b, n + 1, <<routes, n + 1>>)
        = [i \in 1..(n + 1) |-> IF i = n + 1 THEN <<routes, n + 1>>
                                ELSE IF i <= n THEN b[i] ELSE <<{}, 0>>]
  BY <1>4 DEF Written
<1>6. \A i \in 1..(n + 1) :
        (IF i = n + 1 THEN <<routes, n + 1>>
         ELSE IF i <= n THEN b[i] ELSE <<{}, 0>>) = <<routes, i>>
  <2> TAKE i \in 1..(n + 1)
  <2>1. CASE i = n + 1
    BY <2>1
  <2>2. CASE i # n + 1
    <3>1. i \in 1..n
      BY <2>2
    <3> QED BY <1>4, <2>2, <3>1
  <2> QED BY <2>1, <2>2
<1>7. Written(b, n + 1, <<routes, n + 1>>) = [i \in 1..(n + 1) |-> <<routes, i>>]
  BY <1>5, <1>6
<1> QED BY <1>3, <1>7 DEF b, Beginning

LEMMA Complete ==
  \A routes : Beginning(routes, Cardinality(routes) + 1) = Image(routes)
BY DEF Beginning, Image

LEMMA NextSolo ==
  ASSUME Types, Stands, Names, Solo, [Next]_vars
  PROVE  Solo'
<1> USE DEF Writing
<1>1. ASSUME \A v \in Writers, p \in Paths :
               Writing(v, p)' => /\ Writing(v, p) /\ alone'[v] = alone[v]
                                 /\ copy'[v] = copy[v] /\ fd'[v] = fd[v]
                                 /\ offset'[v] = offset[v],
             UNCHANGED tmp,
             \A w \in Writers, p \in Paths :
                alone[w] /\ Writing(w, p) /\ Writing(w, p)' => pieces'[fd[w]] = pieces[fd[w]]
      PROVE  Solo'
  BY <1>1 DEF Solo
<1>2. CASE Outside
  <2>1. /\ UNCHANGED <<copy, fd, offset, tmp, pieces, alone>>
        /\ \A v \in Writers : place'[v] = place[v] \/ place'[v] = "decide"
    BY <1>2, OutsideFrame DEF fileVars, Types, TypeOK
  <2> QED BY <1>1, <2>1
<1>3. CASE Crash
  BY <1>3 DEF Crash, Solo
<1>4. ASSUME NEW w \in Writers, Begins(w)
      PROVE  Solo'
  <2>1. /\ UNCHANGED <<fd, offset, tmp, pieces, alone>>
        /\ place'[w] = "create"
        /\ \A v \in Writers : v # w => place'[v] = place[v] /\ copy'[v] = copy[v]
    BY <1>4 DEF Begins, Copy, Goto, fileVars, Types, TypeOK
  <2> QED BY <1>1, <2>1
<1>5. ASSUME NEW w \in Writers, Ends(w), UNCHANGED <<tmp, pieces>>
      PROVE  Solo'
  <2>1. /\ place'[w] = "idle"
        /\ \A v \in Writers : v # w =>
              /\ place'[v] = place[v] /\ copy'[v] = copy[v] /\ fd'[v] = fd[v]
              /\ offset'[v] = offset[v] /\ alone'[v] = alone[v]
    BY <1>5 DEF Ends, Goto, Types, TypeOK
  <2> QED BY <1>1, <1>5, <2>1
<1>6. ASSUME NEW w \in Writers, Create(w)
      PROVE  Solo'
  <2> DEFINE p == copy[w].path
             contended == Writing(Other(w), p)
  <2>1. PICK n \in Inode :
          /\ p \in Paths
          /\ n = tmp[p] \/ (tmp[p] = None /\ n \notin Used)
          /\ tmp' = [tmp EXCEPT ![p] = n]
          /\ pieces' = [pieces EXCEPT ![n] = << >>]
          /\ fd' = [fd EXCEPT ![w] = n]
    BY <1>6, Created
  <2>2. /\ place[w] = "create" /\ place'[w] = "write"
        /\ \A v \in Writers : v # w => place'[v] = place[v]
        /\ UNCHANGED <<copy, offset>>
        /\ alone' = [v \in Writers |-> IF v = w THEN ~contended ELSE alone[v] /\ ~contended]
    BY <1>6 DEF Create, Goto, Types, TypeOK
  <2>3. Other(w) \in Writers /\ \A v \in Writers : v = w \/ v = Other(w)
    BY TwoWriters
  <2>4. offset[w] = 0
    BY <2>2 DEF Stands, Opened
  <2>5. n # None
    BY PathsAssumption
  <2>6. ASSUME NEW q \in Paths, alone'[w], Writing(w, q)'
        PROVE  /\ \A v \in Writers : Writing(v, q)' => v = w
               /\ tmp'[q] = fd'[w]
               /\ pieces'[fd'[w]] = Beginning(copy'[w].routes, offset'[w])
    <3>1. q = p /\ ~contended
      BY <2>2, <2>6
    <3>2. \A v \in Writers : Writing(v, q)' => v = w
      BY <2>2, <2>3, <3>1
    <3>3. tmp'[q] = n /\ fd'[w] = n /\ pieces'[n] = << >>
      BY <2>1, <3>1 DEF Types, TypeOK
    <3>4. Beginning(copy'[w].routes, offset'[w]) = << >>
      BY <2>2, <2>4 DEF Beginning
    <3> QED BY <3>2, <3>3, <3>4
  <2>7. ASSUME NEW v \in Writers, v # w, NEW q \in Paths, alone'[v], Writing(v, q)'
        PROVE  /\ \A u \in Writers : Writing(u, q)' => u = v
               /\ tmp'[q] = fd'[v]
               /\ pieces'[fd'[v]] = Beginning(copy'[v].routes, offset'[v])
    <3>1. alone[v] /\ ~contended /\ Writing(v, q) /\ v = Other(w)
      BY <2>2, <2>3, <2>7
    <3>2. q # p
      BY <3>1
    <3>3. \A u \in Writers : Writing(u, q)' => u = v
      BY <2>2, <2>3, <2>7, <3>2
    <3>4. tmp'[q] = tmp[q] /\ fd'[v] = fd[v]
      BY <2>1, <2>7, <3>2 DEF Types, TypeOK
    <3>5. fd[v] # n /\ fd[v] \in Inode
      <4>1. fd[v] # None
        BY <3>1 DEF Stands, Opened
      <4>2. copy[v].path = q
        BY <3>1
      <4> QED BY <2>1, <2>5, <3>2, <4>1, <4>2 DEF Names, Used, Types, TypeOK
    <3>6. pieces'[fd[v]] = pieces[fd[v]]
      BY <2>1, <3>5 DEF Types, TypeOK
    <3> QED BY <2>2, <3>1, <3>3, <3>4, <3>6 DEF Solo
  <2> QED BY <2>6, <2>7 DEF Solo
<1>7. ASSUME NEW w \in Writers, Write(w)
      PROVE  Solo'
  <2>1. /\ place[w] = "write"
        /\ \A v \in Writers : v # w => offset'[v] = offset[v] /\ place'[v] = place[v]
        /\ place'[w] \in {"write", "rename"} /\ offset'[w] = offset[w] + 1
        /\ UNCHANGED <<copy, fd, tmp, alone>>
        /\ pieces' = [pieces EXCEPT ![fd[w]] =
              Written(pieces[fd[w]], offset[w] + 1, Image(copy[w].routes)[offset[w] + 1])]
    <3>1. /\ place[w] = "write"
          /\ offset' = [offset EXCEPT ![w] = offset[w] + 1]
          /\ UNCHANGED <<copy, fd, tmp, alone>>
          /\ pieces' = [pieces EXCEPT ![fd[w]] =
                Written(pieces[fd[w]], offset[w] + 1, Image(copy[w].routes)[offset[w] + 1])]
      BY <1>7 DEF Write, historyVars
    <3>2. \/ UNCHANGED place
          \/ place' = [place EXCEPT ![w] = "rename"]
      BY <1>7 DEF Write, Goto
    <3>3. /\ \A v \in Writers : v # w => offset'[v] = offset[v] /\ place'[v] = place[v]
          /\ place'[w] \in {"write", "rename"} /\ offset'[w] = offset[w] + 1
      BY <3>1, <3>2 DEF Types, TypeOK
    <3> QED BY <3>1, <3>3
  <2>2. /\ fd[w] \in Inode /\ offset[w] \in Nat /\ copy[w].routes \in SUBSET Routes
        /\ offset[w] <= Cardinality(copy[w].routes)
    BY <2>1, NextPiece DEF Stands
  <2>3. \A v \in Writers, q \in Paths : Writing(v, q)' <=> Writing(v, q)
    BY <2>1
  <2>4. ASSUME NEW q \in Paths, alone[w], Writing(w, q)
        PROVE  pieces'[fd[w]] = Beginning(copy[w].routes, offset'[w])
    <3>1. pieces[fd[w]] = Beginning(copy[w].routes, offset[w])
      BY <2>4 DEF Solo
    <3>2. pieces'[fd[w]] = Written(pieces[fd[w]], offset[w] + 1,
                                   Image(copy[w].routes)[offset[w] + 1])
      BY <2>1, <2>2 DEF Types
    <3> QED BY <2>1, <2>2, <3>1, <3>2, Longer
  <2>5. ASSUME NEW v \in Writers, v # w, NEW q \in Paths, alone[v], Writing(v, q)
        PROVE  pieces'[fd[v]] = pieces[fd[v]]
    <3>1. ~Writing(w, q)
      BY <2>5 DEF Solo
    <3>2. copy[w].path # copy[v].path
      BY <2>1, <2>5, <3>1
    <3>3. fd[v] # fd[w]
      BY <2>2, <3>2, PathsAssumption DEF Names
    <3>4. fd[v] \in Inode
      BY <2>5 DEF Stands, Opened, Types, TypeOK
    <3> QED BY <2>1, <3>3, <3>4 DEF Types
  <2> QED BY <2>1, <2>3, <2>4, <2>5 DEF Solo
<1>8. ASSUME NEW w \in Writers, Rename(w)
      PROVE  Solo'
  <2> DEFINE p == copy[w].path
  <2>1. CASE tmp[p] = None
    <3>1. Return(w, TRUE) /\ UNCHANGED <<tmp, pieces>>
      BY <1>8, <2>1 DEF Rename
    <3> QED BY <1>5, <3>1, Returned
  <2>2. CASE tmp[p] # None
    <3>1. /\ place[w] = "rename" /\ place'[w] = "mark"
          /\ \A v \in Writers : v # w => place'[v] = place[v]
          /\ tmp' = [tmp EXCEPT ![p] = None]
          /\ pieces' = Freed(pieces, final[p])
          /\ UNCHANGED <<copy, fd, offset, alone>>
      BY <1>8, <2>2 DEF Rename, Goto, Types, TypeOK
    <3>2. \A n \in Inode : n \in {fd[v] : v \in Writers} => pieces'[n] = pieces[n]
      BY <3>1 DEF Freed, Types
    <3>3. ASSUME NEW v \in Writers, NEW q \in Paths, alone[v], Writing(v, q)'
          PROVE  /\ \A u \in Writers : Writing(u, q)' => u = v
                 /\ tmp'[q] = fd[v]
                 /\ pieces'[fd[v]] = Beginning(copy[v].routes, offset[v])
      <4>1. v # w /\ Writing(v, q)
        BY <3>1, <3>3
      <4>2. q # p
        BY <3>1, <3>3, <4>1 DEF Solo
      <4>3. fd[v] \in Inode
        BY <4>1 DEF Stands, Opened, Types, TypeOK
      <4>4. /\ \A u \in Writers : Writing(u, q) => u = v
            /\ tmp[q] = fd[v]
            /\ pieces[fd[v]] = Beginning(copy[v].routes, offset[v])
        BY <3>3, <4>1 DEF Solo
      <4>5. \A u \in Writers : Writing(u, q)' => u = v
        BY <3>1, <4>4
      <4>6. tmp'[q] = tmp[q]
        BY <3>1, <4>2 DEF Types, TypeOK
      <4> QED BY <3>2, <4>3, <4>4, <4>5, <4>6
    <3> QED BY <3>1, <3>3 DEF Solo
  <2> QED BY <2>1, <2>2
<1>9. ASSUME NEW w \in Writers, Mark(w) \/ Fail(w)
      PROVE  Solo'
  BY <1>5, <1>9, Returned DEF Mark, Fail, fileVars
<1> QED BY <1>2, <1>3, <1>4, <1>5, <1>6, <1>7, <1>8, <1>9, StepsOf DEF fileVars

(* A renaming that finds something to rename.                              *)
Moves(w) == Rename(w) /\ tmp[copy[w].path] # None

LEMMA Moved ==
  ASSUME Files, NEW w \in Writers, Moves(w)
  PROVE  LET p == copy[w].path
         IN  /\ p \in Paths
             /\ \A q \in Paths : final'[q] = IF q = p THEN tmp[p] ELSE final[q]
             /\ \A q \in Paths : overlapped'[q] <=> IF q = p THEN ~alone[w] ELSE overlapped[q]
             /\ forgot' = missed[w]
             /\ \A v \in Writers : place'[v] = IF v = w THEN "mark" ELSE place[v]
             /\ UNCHANGED <<copy, fd, missed, table, output, dirty, pristine>>
             /\ alone[w] =>
                   /\ pieces'[tmp[p]] = Image(copy[w].routes)
                   /\ synced'[tmp[p]] = Image(copy[w].routes)
                   /\ \A v \in Writers :
                         place'[v] \in {"write", "rename"} => fd[v] # tmp[p]
<1> DEFINE p == copy[w].path
           durable == [synced EXCEPT ![fd[w]] = pieces[fd[w]]]
<1>1. /\ place[w] = "rename"
      /\ synced' = Freed(durable, final[p])
      /\ pieces' = Freed(pieces, final[p])
      /\ final' = [final EXCEPT ![p] = tmp[p]]
      /\ overlapped' = [overlapped EXCEPT ![p] = ~alone[w]]
      /\ forgot' = missed[w]
      /\ Goto(w, "mark")
      /\ UNCHANGED <<copy, fd, missed, table, output, dirty, pristine>>
  BY DEF Moves, Rename, dataVars
<1>2. p \in Paths /\ fd[w] \in Inode /\ fd[w] # None
  BY <1>1 DEF Files, Stands, Flushing, Opened, Types, TypeOK
<1>3. /\ \A q \in Paths : final'[q] = IF q = p THEN tmp[p] ELSE final[q]
      /\ \A q \in Paths : overlapped'[q] <=> IF q = p THEN ~alone[w] ELSE overlapped[q]
      /\ \A v \in Writers : place'[v] = IF v = w THEN "mark" ELSE place[v]
  BY <1>1, <1>2 DEF Goto, Files, Types, TypeOK
<1>4. ASSUME alone[w]
      PROVE  /\ pieces'[tmp[p]] = Image(copy[w].routes)
             /\ synced'[tmp[p]] = Image(copy[w].routes)
             /\ \A v \in Writers : place'[v] \in {"write", "rename"} => fd[v] # tmp[p]
  <2>1. Writing(w, p)
    BY <1>1 DEF Writing
  <2>2. /\ \A v \in Writers : Writing(v, p) => v = w
        /\ tmp[p] = fd[w]
        /\ pieces[fd[w]] = Beginning(copy[w].routes, offset[w])
    BY <1>2, <1>4, <2>1 DEF Files, Solo
  <2>3. pieces[fd[w]] = Image(copy[w].routes)
    BY <1>1, <2>2, Complete DEF Files, Stands
  <2>4. /\ pieces'[fd[w]] = pieces[fd[w]]
        /\ synced'[fd[w]] = pieces[fd[w]]
    <3>1. fd[w] # final[p]
      BY <1>2, <2>2 DEF Files, Names
    <3> QED BY <1>1, <1>2, <3>1 DEF Freed, Files, Types
  <2>5. ASSUME NEW v \in Writers, place'[v] \in {"write", "rename"}
        PROVE  fd[v] # tmp[p]
    <3>1. v # w /\ place[v] \in {"write", "rename"}
      BY <1>3, <2>5
    <3>2. copy[v].path # p
      BY <2>2, <3>1 DEF Writing
    <3> QED BY <1>2, <2>2, <3>2 DEF Files, Names
  <2> QED BY <2>2, <2>3, <2>4, <2>5
<1> QED BY <1>1, <1>2, <1>3, <1>4

(* A file in place that no overlap has damaged stays as it is until the    *)
(* next one comes in its place, or the process dies.                       *)
LEMMA StaysInPlace ==
  ASSUME Files, [Next]_vars, ~Crash,
         NEW p \in Paths, final[p] # None, ~overlapped[p],
         \A w \in Writers : Moves(w) => copy[w].path # p
  PROVE  /\ final'[p] = final[p]
         /\ ~overlapped'[p]
         /\ pieces'[final[p]] = pieces[final[p]]
         /\ synced'[final[p]] = synced[final[p]]
<1> DEFINE f == final[p]
<1>1. /\ f \in Inode
      /\ \A w \in Writers : place[w] \in {"write", "rename"} => fd[w] # f
      /\ \A q \in Paths : tmp[q] # f /\ (q # p => final[q] # f)
  BY DEF Files, Types, TypeOK, Names, Intact
<1>2. CASE Outside
  BY <1>2, OutsideFrame DEF fileVars, Files
<1>3. ASSUME NEW w \in Writers, Begins(w) \/ Mark(w) \/ Fail(w)
      PROVE  UNCHANGED <<fileVars, overlapped>>
  BY <1>3 DEF Begins, Mark, Fail
<1>4. ASSUME NEW w \in Writers, Create(w)
      PROVE  /\ final'[p] = f /\ ~overlapped'[p]
             /\ pieces'[f] = pieces[f] /\ synced'[f] = synced[f]
  <2>1. PICK n \in Inode :
          /\ copy[w].path \in Paths
          /\ n = tmp[copy[w].path] \/ n \notin Used
          /\ pieces' = [pieces EXCEPT ![n] = << >>]
          /\ synced' = IF n \in Used THEN synced ELSE [synced EXCEPT ![n] = << >>]
    BY <1>4, Created DEF Files
  <2>2. n # f
    BY <1>1, <2>1 DEF Used
  <2> QED BY <1>1, <1>4, <2>1, <2>2 DEF Create, Files, Types
<1>5. ASSUME NEW w \in Writers, Write(w)
      PROVE  /\ final'[p] = f /\ ~overlapped'[p]
             /\ pieces'[f] = pieces[f] /\ synced'[f] = synced[f]
  <2>1. fd[w] # f
    BY <1>1, <1>5 DEF Write
  <2>2. \E new : pieces' = [pieces EXCEPT ![fd[w]] = new]
    BY <1>5 DEF Write
  <2> QED BY <1>1, <1>5, <2>1, <2>2 DEF Write, historyVars, Files, Types
<1>6. ASSUME NEW w \in Writers, Rename(w)
      PROVE  /\ final'[p] = f /\ ~overlapped'[p]
             /\ pieces'[f] = pieces[f] /\ synced'[f] = synced[f]
  <2> DEFINE durable == [synced EXCEPT ![fd[w]] = pieces[fd[w]]]
  <2>1. durable[f] = synced[f] /\ DOMAIN durable = Inode
    BY <1>1, <1>6 DEF Rename, Files, Types
  <2>2. CASE tmp[copy[w].path] = None
    <3>1. synced' = durable /\ UNCHANGED <<final, pieces, overlapped>>
      BY <1>6, <2>2 DEF Rename
    <3> QED BY <2>1, <3>1
  <2>3. CASE tmp[copy[w].path] # None
    <3>1. copy[w].path # p
      BY <1>6, <2>3 DEF Moves
    <3>2. /\ synced' = Freed(durable, final[copy[w].path])
          /\ pieces' = Freed(pieces, final[copy[w].path])
      BY <1>6, <2>3 DEF Rename
    <3>3. copy[w].path \in Paths /\ final'[p] = final[p] /\ ~overlapped'[p]
      BY <1>6, <2>3, <3>1, Moved DEF Moves
    <3>4. final[copy[w].path] # f
      BY <1>1, <3>1, <3>3
    <3> HIDE DEF durable
    <3> QED BY <1>1, <2>1, <3>2, <3>3, <3>4 DEF Freed, Files, Types
  <2> QED BY <2>2, <2>3
<1> QED BY <1>2, <1>3, <1>4, <1>5, <1>6, StepsOf DEF Files, fileVars

LEMMA NextIntact ==
  ASSUME Files, [Next]_vars
  PROVE  Intact'
<1> SUFFICES ASSUME NEW p \in Paths, final'[p] # None, ~overlapped'[p]
             PROVE  /\ \E routes \in SUBSET Routes : pieces'[final'[p]] = Image(routes)
                    /\ synced'[final'[p]] = pieces'[final'[p]]
                    /\ \A w \in Writers :
                          place'[w] \in {"write", "rename"} => fd'[w] # final'[p]
  BY DEF Intact
<1>1. CASE Crash
  BY <1>1 DEF Crash, Files, Intact
<1>2. ASSUME NEW w \in Writers, Moves(w), copy[w].path = p
      PROVE  /\ \E routes \in SUBSET Routes : pieces'[final'[p]] = Image(routes)
             /\ synced'[final'[p]] = pieces'[final'[p]]
             /\ \A v \in Writers : place'[v] \in {"write", "rename"} => fd'[v] # final'[p]
  <2>1. copy[w].routes \in SUBSET Routes
    BY DEF Files, Types, TypeOK
  <2>2. alone[w] /\ final'[p] = tmp[p]
    BY <1>2, Moved
  <2>3. /\ pieces'[tmp[p]] = Image(copy[w].routes) /\ synced'[tmp[p]] = Image(copy[w].routes)
        /\ \A v \in Writers : place'[v] \in {"write", "rename"} => fd[v] # tmp[p]
        /\ UNCHANGED fd
    BY <1>2, <2>2, Moved
  <2> QED BY <2>1, <2>2, <2>3
<1>3. ASSUME ~Crash, \A w \in Writers : Moves(w) => copy[w].path # p
      PROVE  /\ \E routes \in SUBSET Routes : pieces'[final'[p]] = Image(routes)
             /\ synced'[final'[p]] = pieces'[final'[p]]
             /\ \A w \in Writers : place'[w] \in {"write", "rename"} => fd'[w] # final'[p]
  <2>1. final[p] # None /\ ~overlapped[p]
    <3>1. CASE \E w \in Writers : Moves(w)
      BY <1>3, <3>1, Moved
    <3>2. CASE \A w \in Writers : ~Moves(w)
      <4>1. UNCHANGED <<final, overlapped>>
        <5>1. Outside => UNCHANGED <<final, overlapped>>
          BY OutsideFrame DEF fileVars, Files
        <5>2. \A w \in Writers :
                Begins(w) \/ Create(w) \/ Write(w) \/ Rename(w) \/ Mark(w) \/ Fail(w)
                  => UNCHANGED <<final, overlapped>>
          BY <3>2, ZenonT(60) DEF Begins, Create, Write, Rename, Moves, Mark, Fail, fileVars, historyVars
        <5> QED BY <1>3, <5>1, <5>2, StepsOf DEF fileVars, Files
      <4> QED BY <4>1
    <3> QED BY <3>1, <3>2
  <2>2. /\ final'[p] = final[p]
        /\ pieces'[final[p]] = pieces[final[p]]
        /\ synced'[final[p]] = synced[final[p]]
    BY <1>3, <2>1, StaysInPlace
  <2>3. /\ \E routes \in SUBSET Routes : pieces[final[p]] = Image(routes)
        /\ synced[final[p]] = pieces[final[p]]
        /\ \A w \in Writers : place[w] \in {"write", "rename"} => fd[w] # final[p]
    BY <2>1 DEF Files, Intact
  <2>4. ASSUME NEW w \in Writers, place'[w] \in {"write", "rename"}
        PROVE  fd'[w] # final[p]
    <3>1. CASE place[w] \in {"write", "rename"} /\ fd'[w] = fd[w]
      BY <2>3, <3>1
    <3>2. CASE Create(w)
      <4>1. PICK n \in Inode :
              /\ copy[w].path \in Paths
              /\ n = tmp[copy[w].path] \/ n \notin Used
              /\ fd' = [fd EXCEPT ![w] = n]
        BY <3>2, Created DEF Files
      <4>2. fd'[w] = n
        BY <4>1 DEF Files, Types, TypeOK
      <4> QED BY <2>1, <4>1, <4>2 DEF Used, Files, Names
    <3>3. Create(w) \/ (place[w] \in {"write", "rename"} /\ fd'[w] = fd[w])
      <4>1. CASE Outside
        BY <2>4, <4>1, OutsideFrame DEF Files, Types, TypeOK
      <4>2. ASSUME NEW v \in Writers, Begins(v)
            PROVE  place[w] \in {"write", "rename"} /\ fd'[w] = fd[w]
        BY <2>4, <4>2 DEF Begins, Copy, Goto, Files, Types, TypeOK
      <4>3. ASSUME NEW v \in Writers, Ends(v)
            PROVE  place[w] \in {"write", "rename"} /\ fd'[w] = fd[w]
        BY <2>4, <4>3 DEF Ends, Goto, Files, Types, TypeOK
      <4>4. ASSUME NEW v \in Writers, Mark(v) \/ Fail(v) \/ (Rename(v) /\ ~Moves(v))
            PROVE  Ends(v)
        BY <4>4, Returned DEF Mark, Fail, Rename, Moves, Files
      <4>5. ASSUME NEW v \in Writers, Moves(v)
            PROVE  place[w] \in {"write", "rename"} /\ fd'[w] = fd[w]
        BY <2>4, <4>5, Moved
      <4>6. ASSUME NEW v \in Writers, Create(v), v # w
            PROVE  place[w] \in {"write", "rename"} /\ fd'[w] = fd[w]
        BY <2>4, <4>6 DEF Create, Goto, Files, Types, TypeOK
      <4>7. ASSUME NEW v \in Writers, Write(v)
            PROVE  place[w] \in {"write", "rename"} /\ fd'[w] = fd[w]
        BY <2>4, <4>7 DEF Write, Goto, Files, Types, TypeOK
      <4> QED BY <1>3, <4>1, <4>2, <4>3, <4>4, <4>5, <4>6, <4>7, StepsOf DEF Files
    <3> QED BY <3>1, <3>2, <3>3
  <2> QED BY <2>2, <2>3, <2>4
<1> QED BY <1>1, <1>2, <1>3

-----------------------------------------------------------------------------
(* What the data remember of the file.                                     *)

(* How a step outside the flushes changes the data: a change is missed by  *)
(* the flushes under way, a new output has nothing to save yet, and data   *)
(* that are clean have not changed.                                        *)
LEMMA DataStep ==
  ASSUME Types, Outside
  PROVE  /\ \A w \in Writers : Flushing(w) /\ ~missed'[w] => ~missed[w] /\ table' = table
         /\ table' = table /\ Untouched => Untouched'
         /\ output' # output => table' = {} /\ (table = {} => pristine')
         /\ dirty' = "clean" => /\ dirty = "clean" /\ table' = table
                                /\ ~pristine' => ~pristine /\ output' = output
<1> DEFINE Goal ==
      /\ \A w \in Writers : Flushing(w) /\ ~missed'[w] => ~missed[w] /\ table' = table
      /\ table' = table /\ Untouched => Untouched'
      /\ output' # output => table' = {} /\ (table = {} => pristine')
      /\ dirty' = "clean" => /\ dirty = "clean" /\ table' = table
                             /\ ~pristine' => ~pristine /\ output' = output
<1>1. Missing => \A w \in Writers :
                    Flushing(w) /\ ~missed'[w] => ~missed[w] /\ table' = table
  <2> SUFFICES ASSUME Missing, NEW w \in Writers, Flushing(w), ~missed'[w]
               PROVE  ~missed[w] /\ table' = table
    OBVIOUS
  <2>1. place[w] # "idle"
    BY DEF Flushing
  <2>2. missed'[w] <=> (missed[w] \/ (place[w] # "idle" /\ table' # table))
    BY Zenon DEF Missing
  <2> QED BY <2>1, <2>2
<1>2. UNCHANGED <<table, dirty, output, missed, pristine>> => Goal
  BY DEF Untouched
<1>3. Emptied /\ output' = output => Goal
  <2> SUFFICES ASSUME Emptied, output' = output PROVE Goal
    OBVIOUS
  <2>1. /\ table' = {} /\ dirty' = (IF table = {} THEN dirty ELSE "young")
        /\ pristine' = (pristine /\ table = {}) /\ Missing
    BY DEF Emptied
  <2> QED BY <1>1, <2>1 DEF Untouched
<1>4. CASE ApplyUpdate
  <2>1. PICK r \in Routes : Change(table \cup {r}) \/ (r \in table /\ Change(table \ {r}))
    BY <1>4 DEF ApplyUpdate
  <2>2. /\ dirty' = "young" /\ Missing
        /\ table # {} \/ table' # table
    BY <2>1 DEF Change
  <2>3. output' = output
    BY <1>4 DEF ApplyUpdate
  <2> QED BY <1>1, <2>2, <2>3 DEF Untouched
<1>5. CASE LoseConnection
  BY <1>3, <1>5 DEF LoseConnection
<1>6. CASE Ripen
  <2>1. dirty' = "ripe" /\ UNCHANGED <<table, output, missed, pristine>>
    BY <1>6 DEF Ripen, historyVars
  <2> QED BY <2>1 DEF Untouched
<1>7. ASSUME NEW what \in {"start", "stop"}, Request(what)
      PROVE  Goal
  BY <1>2, <1>3, <1>7 DEF Request
<1>8. CASE SessionEnded
  BY <1>2, <1>8 DEF SessionEnded, dataVars, historyVars
<1>9. CASE HandlerFlush
  BY <1>2, <1>3, <1>9 DEF HandlerFlush
<1>10. CASE Finish
  <2>1. CASE goal = "stop" \/ failed
    BY <1>2, <1>10, <2>1 DEF Finish, dataVars
  <2>2. CASE ~(goal = "stop" \/ failed)
    <3>1. /\ table' = {} /\ dirty' = (IF table = {} THEN dirty ELSE "young")
          /\ pristine' = (table = {} /\ (pristine \/ output' # output)) /\ Missing
      BY <1>10, <2>2 DEF Finish
    <3> QED BY <1>1, <3>1 DEF Untouched
  <2> QED BY <2>1, <2>2
<1>11. CASE UNCHANGED vars
  BY <1>2, <1>11 DEF vars, dataVars, historyVars
<1> QED BY <1>4, <1>5, <1>6, <1>7, <1>8, <1>9, <1>10, <1>11 DEF Outside

(* What is saved stays saved while the data stay and nothing is renamed to *)
(* the output.                                                             *)
LEMMA StaysSaved ==
  ASSUME Files, [Next]_vars, ~Crash, Saved \/ Excused, output \in Paths,
         UNCHANGED <<table, output>>, forgot => forgot',
         overlapped[output] => overlapped'[output],
         \A w \in Writers : Moves(w) => copy[w].path # output
  PROVE  Saved' \/ Excused'
<1>1. CASE Excused
  BY <1>1 DEF Excused
<1>2. CASE Saved /\ ~Excused
  <2>1. final[output] # None /\ ~overlapped[output] /\ pieces[final[output]] = Image(table)
    BY <1>2 DEF Saved, Excused
  <2>2. final'[output] = final[output] /\ pieces'[final[output]] = pieces[final[output]]
    BY <2>1, StaysInPlace
  <2> QED BY <2>1, <2>2 DEF Saved
<1> QED BY <1>1, <1>2

LEMMA NextRemembered ==
  ASSUME Inv, [Next]_vars
  PROVE  Remembered'
<1> USE DEF Inv
<1>1. CASE Outside
  <2>1. /\ UNCHANGED <<copy, final, pieces, overlapped, forgot>>
        /\ \A w \in Writers : Flushing(w)' => Flushing(w) /\ place'[w] = place[w]
    <3>1. \A w \in Writers : \/ place'[w] = place[w]
                             \/ place'[w] = "decide"
      BY <1>1, OutsideFrame DEF Files, Types, TypeOK
    <3> QED BY <1>1, <3>1, OutsideFrame DEF Files, fileVars, Flushing
  <2>2. ASSUME output' = output, table' = table
        PROVE  (Saved' <=> Saved) /\ (Excused' <=> Excused)
    BY <2>1, <2>2 DEF Saved, Excused
  <2>3. ASSUME NEW w \in Writers, Flushing(w)', ~missed'[w]
        PROVE  /\ copy'[w].routes = table' /\ (copy'[w].path = output' \/ Untouched')
               /\ place'[w] = "mark" /\ copy'[w].path = output' /\ ~Untouched' =>
                     Saved' \/ Excused'
    <3>1. ~missed[w] /\ table' = table /\ Flushing(w) /\ place'[w] = place[w]
      BY <1>1, <2>1, <2>3, DataStep DEF Files
    <3>2. copy[w].routes = table /\ (copy[w].path = output \/ Untouched)
      BY <3>1 DEF Remembered
    <3>3. Untouched => Untouched'
      BY <1>1, <3>1, DataStep DEF Files
    <3>4. CASE output' = output
      <4>1. place[w] = "mark" /\ copy[w].path = output /\ ~Untouched => Saved \/ Excused
        BY <3>1 DEF Remembered
      <4> QED BY <2>1, <2>2, <3>1, <3>2, <3>3, <3>4, <4>1
    <3>5. CASE output' # output
      <4>1. Untouched'
        BY <1>1, <3>1, <3>5, DataStep DEF Files, Untouched
      <4> QED BY <2>1, <3>1, <3>2, <4>1
    <3> QED BY <3>4, <3>5
  <2>4. ASSUME dirty' = "clean", output' # None, ~pristine'
        PROVE  Saved' \/ Excused'
    <3>1. dirty = "clean" /\ table' = table /\ ~pristine /\ output' = output
      BY <1>1, <2>4, DataStep DEF Files
    <3> QED BY <2>2, <2>4, <3>1 DEF Remembered
  <2>5. \A w \in Writers : place'[w] = "mark" => Flushing(w)'
    BY DEF Flushing
  <2> QED BY <2>3, <2>4, <2>5 DEF Remembered
<1>2. CASE Crash
  BY <1>2 DEF Crash, Remembered, Flushing
<1>3. ASSUME NEW w \in Writers, Begins(w)
      PROVE  Remembered'
  <2>1. /\ UNCHANGED <<table, dirty, output, final, pieces, overlapped, forgot, pristine>>
        /\ \A v \in Writers : v # w =>
              copy'[v] = copy[v] /\ missed'[v] = missed[v] /\ place'[v] = place[v]
        /\ copy'[w].path = output /\ copy'[w].routes = table /\ place'[w] = "create"
    BY <1>3 DEF Begins, Copy, Goto, dataVars, fileVars, Files, Types, TypeOK
  <2>2. (Saved' <=> Saved) /\ (Excused' <=> Excused) /\ (Untouched' <=> Untouched)
    BY <2>1 DEF Saved, Excused, Untouched
  <2> QED BY <2>1, <2>2 DEF Remembered, Flushing
<1>4. ASSUME NEW w \in Writers, Ends(w), UNCHANGED <<dataVars, fileVars, overlapped,
                                                     forgot, pristine>>
      PROVE  Remembered'
  <2>1. /\ UNCHANGED <<table, dirty, output, final, pieces>>
        /\ place'[w] = "idle"
        /\ \A v \in Writers : v # w =>
              copy'[v] = copy[v] /\ missed'[v] = missed[v] /\ place'[v] = place[v]
    BY <1>4 DEF Ends, Goto, dataVars, fileVars, Files, Types, TypeOK
  <2>2. (Saved' <=> Saved) /\ (Excused' <=> Excused) /\ (Untouched' <=> Untouched)
    BY <1>4, <2>1 DEF Saved, Excused, Untouched
  <2> QED BY <1>4, <2>1, <2>2 DEF Remembered, Flushing
<1>5. ASSUME NEW w \in Writers, Create(w) \/ Write(w)
      PROVE  Remembered'
  <2>1. /\ UNCHANGED <<table, dirty, output, copy, missed, overlapped, forgot, pristine>>
        /\ place[w] \in {"create", "write"} /\ place'[w] \in {"write", "rename"}
        /\ \A v \in Writers : v # w => place'[v] = place[v]
    BY <1>5 DEF Create, Write, Goto, dataVars, historyVars, Files, Types, TypeOK
  <2>2. /\ ~Crash
        /\ \A v \in Writers : ~Moves(v)
    <3>1. Crash => place'[w] = "idle"
      BY DEF Crash
    <3>2. \A v \in Writers : Rename(v) => place[v] = "rename"
      BY DEF Rename
    <3>3. \A v \in Writers : Moves(v) => place[v] = "rename" /\ place'[v] = "mark"
      BY <3>2, Moved DEF Moves
    <3> QED BY <2>1, <3>1, <3>3
  <2>3. output # None /\ (Saved \/ Excused) => Saved' \/ Excused'
    BY <2>1, <2>2, StaysSaved DEF Files, Types, TypeOK
  <2>4. Untouched' <=> Untouched
    BY <2>1 DEF Untouched
  <2>5. \A v \in Writers : copy[v].path = output /\ place[v] = "mark" => output # None
    BY PathsAssumption DEF Files, Stands, Flushing
  <2> QED BY <2>1, <2>3, <2>4, <2>5 DEF Remembered, Flushing
<1>6. ASSUME NEW w \in Writers, Moves(w)
      PROVE  Remembered'
  <2>1. /\ UNCHANGED <<copy, missed, table, output, dirty, pristine>>
        /\ place[w] = "rename" /\ place'[w] = "mark"
        /\ \A v \in Writers : v # w => place'[v] = place[v]
        /\ forgot' = missed[w]
    <3>1. place[w] = "rename"
      BY <1>6 DEF Moves, Rename
    <3> QED BY <1>6, <3>1, Moved
  <2>2. Untouched' <=> Untouched
    BY <2>1 DEF Untouched
  <2>3. ASSUME ~Untouched, output # None
        PROVE  Saved' \/ Excused'
    <3>1. CASE missed[w]
      BY <2>1, <3>1 DEF Excused
    <3>2. CASE ~missed[w]
      <4>1. copy[w].routes = table /\ copy[w].path = output
        BY <2>1, <2>3, <3>2 DEF Remembered, Flushing
      <4>2. /\ output \in Paths /\ final'[output] = tmp[output]
            /\ overlapped'[output] <=> ~alone[w]
            /\ alone[w] => pieces'[tmp[output]] = Image(table)
        BY <1>6, <4>1, Moved
      <4>3. tmp[output] # None
        BY <1>6, <4>1 DEF Moves
      <4> QED BY <2>1, <4>2, <4>3 DEF Saved, Excused
    <3> QED BY <3>1, <3>2
  <2>4. \A v \in Writers : place'[v] = "mark" /\ copy[v].path = output => output # None
    BY <2>1, PathsAssumption DEF Files, Stands, Flushing
  <2>5. ~pristine => ~Untouched
    BY DEF Untouched
  <2>6. \A v \in Writers : Flushing(v)' <=> Flushing(v)
    BY <2>1 DEF Flushing
  <2> QED BY <2>1, <2>2, <2>3, <2>4, <2>5, <2>6 DEF Remembered
<1>7. ASSUME NEW w \in Writers, Mark(w)
      PROVE  Remembered'
  <2>1. /\ UNCHANGED <<table, output, final, pieces, overlapped, pristine>>
        /\ place[w] = "mark" /\ place'[w] = "idle"
        /\ \A v \in Writers : v # w =>
              copy'[v] = copy[v] /\ missed'[v] = missed[v] /\ place'[v] = place[v]
        /\ forgot' <=> forgot \/ missed[w]
    BY <1>7 DEF Mark, Return, Goto, fileVars, Files, Types, TypeOK
  <2>2. /\ Saved' <=> Saved
        /\ Excused' <=> Excused \/ missed[w]
        /\ Untouched' <=> Untouched
    BY <2>1 DEF Saved, Excused, Untouched
  <2>3. ASSUME ~pristine
        PROVE  Saved' \/ Excused'
    <3>1. CASE missed[w]
      BY <2>2, <3>1
    <3>2. CASE ~missed[w]
      <4>1. copy[w].path = output /\ ~Untouched
        BY <2>1, <2>3, <3>2 DEF Remembered, Flushing, Untouched
      <4> QED BY <2>1, <2>2, <3>2, <4>1 DEF Remembered
    <3> QED BY <3>1, <3>2
  <2> QED BY <2>1, <2>2, <2>3 DEF Remembered, Flushing
<1>8. ASSUME NEW w \in Writers, Fail(w)
      PROVE  Remembered'
  BY <1>4, <1>8, Returned DEF Fail, Files
<1>9. ASSUME NEW w \in Writers, Rename(w), ~Moves(w)
      PROVE  Remembered'
  <2>1. Return(w, TRUE) /\ UNCHANGED <<final, tmp, pieces, overlapped, forgot>>
        /\ UNCHANGED <<dataVars, pristine>>
    BY <1>9 DEF Rename, Moves
  <2>2. Ends(w)
    BY <2>1, Returned DEF Files
  <2>3. /\ UNCHANGED <<table, dirty, output, final, pieces>>
        /\ place'[w] = "idle"
        /\ \A v \in Writers : v # w =>
              copy'[v] = copy[v] /\ missed'[v] = missed[v] /\ place'[v] = place[v]
    BY <2>1, <2>2 DEF Ends, Goto, dataVars, Files, Types, TypeOK
  <2>4. (Saved' <=> Saved) /\ (Excused' <=> Excused) /\ (Untouched' <=> Untouched)
    BY <2>1, <2>3 DEF Saved, Excused, Untouched
  <2> QED BY <2>1, <2>3, <2>4 DEF Remembered, Flushing
<1> QED BY <1>1, <1>2, <1>3, <1>4, <1>5, <1>6, <1>7, <1>8, <1>9, StepsOf DEF Files

-----------------------------------------------------------------------------
(* The invariant, and what it says.                                        *)

LEMMA InitInv == Init => Inv
<1> SUFFICES ASSUME Init PROVE Inv
  OBVIOUS
<1>1. Types
  <2>1. /\ alone \in [Writers -> BOOLEAN] /\ missed \in [Writers -> BOOLEAN]
        /\ overlapped \in [Paths -> BOOLEAN]
        /\ forgot \in BOOLEAN /\ pristine \in BOOLEAN
        /\ session \in BOOLEAN /\ failed \in BOOLEAN
    BY Zenon DEF Init
  <2>2. NoCopy \in [path : Paths \cup {None}, routes : SUBSET Routes]
    BY DEF NoCopy
  <2>3. \A n \in Inode : Len(pieces[n]) = 0 /\ Len(synced[n]) = 0
    BY DEF Init
  <2> QED BY <2>1, <2>2, <2>3, Sizes, BoundAssumption
          DEF Init, Types, TypeOK, Goals, Steps, Places, Longest
<1>2. Stands
  BY DEF Init, Stands, Flushing, Opened, Writers
<1>3. Names
  BY DEF Init, Names
<1>4. Solo
  BY DEF Init, Solo, Writing
<1>5. Intact
  BY DEF Init, Intact
<1>6. Remembered
  BY DEF Init, Remembered, Flushing
<1> QED BY <1>1, <1>2, <1>3, <1>4, <1>5, <1>6 DEF Inv, Files

LEMMA NextInv == Inv /\ [Next]_vars => Inv'
<1> SUFFICES ASSUME Inv, [Next]_vars PROVE Inv'
  OBVIOUS
<1>1. Types' BY NextTypes DEF Inv, Files
<1>2. Stands' BY NextStands DEF Inv, Files
<1>3. Names' BY NextNames DEF Inv, Files
<1>4. Solo' BY NextSolo DEF Inv, Files
<1>5. Intact' BY NextIntact DEF Inv
<1>6. Remembered' BY NextRemembered
<1> QED BY <1>1, <1>2, <1>3, <1>4, <1>5, <1>6 DEF Inv, Files

LEMMA Invariance == Spec => []Inv
BY InitInv, NextInv, PTL DEF Spec

(* Every variable has its type; no file is longer than the longest export  *)
(* (app.rs:585-640).                                                       *)
THEOREM Typing == Spec => []TypeOK
<1>1. Inv => TypeOK
  BY DEF Inv, Files, Types
<1> QED BY <1>1, Invariance, PTL

(* Whatever fails and whenever the process dies, the file in place is one  *)
(* whole export, unless two flushes of its path overlapped ("debounced     *)
(* atomic replacement", INSTALL.md:76).                                    *)
THEOREM KeptWhole == Spec => []WholeUnlessOverlapped
<1>1. Inv => WholeUnlessOverlapped
  BY DEF Inv, Files, Intact, WholeUnlessOverlapped, Whole
<1> QED BY <1>1, Invariance, PTL

(* With no flush under way, clean data are in the file, unless a change    *)
(* fell into a flush or two flushes overlapped ("after each change burst", *)
(* README.md:76).                                                          *)
THEOREM KeptSaved == Spec => []SavedUnlessForgotten
<1>1. Inv => SavedUnlessForgotten
  <2> SUFFICES ASSUME Inv, dirty = "clean", output # None, ~pristine
               PROVE  Saved \/ forgot \/ overlapped[output]
    BY DEF SavedUnlessForgotten, SavedWhenClean
  <2> QED BY DEF Inv, Remembered, Excused
<1> QED BY <1>1, Invariance, PTL

=============================================================================
