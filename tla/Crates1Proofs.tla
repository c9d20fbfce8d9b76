----------------------------- MODULE Crates1Proofs -----------------------------
(***************************************************************************)
(* Proofs about Crates1, for every number of crates, playlists, titles and *)
(* tracks: CrateParentList and CrateHierarchy stay in step, for a caller   *)
(* who neither moves a crate that has others below it nor removes one that *)
(* others or other tables refer to; and calls do what is promised, for one *)
(* who also renames no row of List whose id and title another row has, and *)
(* paths stay right if no crate with grandchildren is renamed.             *)
(*                                                                         *)
(* Such a caller only ever changes the tree at its leaves: a crate comes,  *)
(* or goes, or goes and comes back elsewhere.  So there are two lemmas     *)
(* about trees, LeafPut and LeafTaken, and what is left is that statements *)
(* of the calls amount to that.                                            *)
(***************************************************************************)
EXTENDS Crates1, RowProofs, TLAPS

(* The parent of i, and all that is above i, in tables P and H.            *)
Par(P, i) == {P[k].parent : k \in {k \in DOMAIN P : P[k].origin = i}} \ {i}
Abv(H, i) == {H[k].crate : k \in {k \in DOMAIN H : H[k].child = i}}

(* Rowids are bounded, whatever the bound. *)
Bounded(T) == \E N \in Nat : DOMAIN T \subseteq 1 .. N

(* Each crate of O has its row in P, which tells a parent in K, and P has  *)
(* no other row.                                                           *)
OneRowEach(P, O, K) ==
  /\ Bounded(P) /\ \A k \in DOMAIN P : P[k] \in [origin : O, parent : K]
  /\ \A j, k \in DOMAIN P : P[j].origin = P[k].origin => j = k
  /\ \A i \in O : \E k \in DOMAIN P : P[k].origin = i

(* H is about crates of K, and tells nothing twice. *)
NoRowTwice(H, K) ==
  /\ Bounded(H) /\ \A k \in DOMAIN H : H[k] \in [crate : K, child : K]
  /\ \A j, k \in DOMAIN H : H[j] = H[k] => j = k

(* H is the closure of P.  What is above i and has nothing of that below   *)
(* itself is the parent of i: the last line, without which a crate could be*)
(* above others and have no child.                                         *)
Closed(P, H, K) ==
  \A i \in K :
    /\ Abv(H, i) = Par(P, i) \cup UNION {Abv(H, p) : p \in Par(P, i)}
    /\ i \notin Abv(H, i)
    /\ \A a \in Abv(H, i) : \E x \in {i} \cup Abv(H, i) : a \in Par(P, x)

SoundTree(P, H, K) == OneRowEach(P, K, K) /\ NoRowTwice(H, K) /\ Closed(P, H, K)

Leaf(H, i) == \A k \in DOMAIN H : H[k].crate # i

-----------------------------------------------------------------------------
(* Trees. *)

(* What is above a crate of K is a crate of K, and so is its parent.       *)
LEMMA TreeIsOfCrates ==
  ASSUME NEW K, NEW P, NEW H, SoundTree(P, H, K), NEW i
  PROVE  Abv(H, i) \subseteq K /\ Par(P, i) \subseteq K
<1>1. Abv(H, i) \subseteq K
  BY DEF SoundTree, NoRowTwice, Abv
<1>2. Par(P, i) \subseteq K
  BY DEF SoundTree, OneRowEach, Par
<1>3. QED
  BY <1>1, <1>2

(* A new leaf i below p, or at the root, leaves a closure.                 *)
LEMMA LeafPut ==
  ASSUME NEW K, NEW P, NEW H, SoundTree(P, H, K), NEW i, i \notin K, NoCrate \notin K,
         NEW p \in K \cup {NoCrate}, NEW P2, NEW H2,
         \A j \in K : Par(P2, j) = Par(P, j) /\ Abv(H2, j) = Abv(H, j),
         Par(P2, i) = {p} \ {NoCrate},
         Abv(H2, i) = IF p = NoCrate THEN {} ELSE {p} \cup Abv(H, p)
  PROVE  Closed(P2, H2, K \cup {i})
<1>1. \A j \in K : Abv(H, j) \subseteq K /\ Par(P, j) \subseteq K
  BY TreeIsOfCrates
<1>2. ASSUME NEW j \in K
      PROVE  /\ Abv(H2, j) = Par(P2, j) \cup UNION {Abv(H2, q) : q \in Par(P2, j)}
             /\ j \notin Abv(H2, j)
             /\ \A a \in Abv(H2, j) : \E x \in {j} \cup Abv(H2, j) : a \in Par(P2, x)
  <2>1. /\ Abv(H, j) = Par(P, j) \cup UNION {Abv(H, q) : q \in Par(P, j)}
        /\ j \notin Abv(H, j)
        /\ \A a \in Abv(H, j) : \E x \in {j} \cup Abv(H, j) : a \in Par(P, x)
    BY DEF SoundTree, Closed
  <2>2. {Abv(H2, q) : q \in Par(P2, j)} = {Abv(H, q) : q \in Par(P, j)}
    BY <1>1
  <2>3. \A x \in {j} \cup Abv(H2, j) : Par(P2, x) = Par(P, x)
    BY <1>1
  <2>4. QED
    BY <2>1, <2>2, <2>3
<1>3. /\ Abv(H2, i) = Par(P2, i) \cup UNION {Abv(H2, q) : q \in Par(P2, i)}
      /\ i \notin Abv(H2, i)
      /\ \A a \in Abv(H2, i) : \E x \in {i} \cup Abv(H2, i) : a \in Par(P2, x)
  <2>1. CASE p = NoCrate
    BY <2>1
  <2>2. CASE p # NoCrate
    <3>1. p \in K /\ Par(P2, i) = {p} /\ Abv(H2, i) = {p} \cup Abv(H, p)
      BY <2>2
    <3>2. UNION {Abv(H2, q) : q \in Par(P2, i)} = Abv(H, p)
      BY <3>1
    <3>3. ASSUME NEW a \in Abv(H, p)
          PROVE  \E x \in {i} \cup Abv(H2, i) : a \in Par(P2, x)
      BY <1>1, <3>1 DEF SoundTree, Closed
    <3>4. QED
      BY <1>1, <3>1, <3>2, <3>3
  <2>3. QED
    BY <2>1, <2>2
<1>4. QED
  BY <1>2, <1>3 DEF Closed

(* Without the leaf i a closure is a closure. *)
LEMMA LeafTaken ==
  ASSUME NEW K, NEW P, NEW H, SoundTree(P, H, K), NEW i \in K, Leaf(H, i),
         NEW P2, NEW H2,
         \A j \in K \ {i} : Par(P2, j) = Par(P, j) /\ Abv(H2, j) = Abv(H, j)
  PROVE  Closed(P2, H2, K \ {i})
<1>1. \A j \in K : Abv(H, j) \subseteq K \ {i}
  <2>1. \A j \in K : i \notin Abv(H, j)
    BY DEF Leaf, Abv
  <2>2. QED
    BY <2>1, TreeIsOfCrates
<1>2. ASSUME NEW j \in K \ {i}
      PROVE  /\ Abv(H2, j) = Par(P2, j) \cup UNION {Abv(H2, q) : q \in Par(P2, j)}
             /\ j \notin Abv(H2, j)
             /\ \A a \in Abv(H2, j) : \E x \in {j} \cup Abv(H2, j) : a \in Par(P2, x)
  <2>1. /\ Abv(H, j) = Par(P, j) \cup UNION {Abv(H, q) : q \in Par(P, j)}
        /\ j \notin Abv(H, j)
        /\ \A a \in Abv(H, j) : \E x \in {j} \cup Abv(H, j) : a \in Par(P, x)
    BY DEF SoundTree, Closed
  <2>2. Par(P, j) \subseteq K \ {i}
    BY <1>1, <2>1
  <2>3. {Abv(H2, q) : q \in Par(P2, j)} = {Abv(H, q) : q \in Par(P, j)}
    BY <2>2
  <2>4. \A x \in {j} \cup Abv(H2, j) : Par(P2, x) = Par(P, x)
    BY <1>1
  <2>5. QED
    BY <2>1, <2>3, <2>4
<1>3. QED
  BY <1>2 DEF Closed

(* A crate that is above another has a child. *)
LEMMA ChildlessIsLeaf ==
  ASSUME NEW K, NEW P, NEW H, SoundTree(P, H, K), NEW i \in K,
         \A k \in DOMAIN P : P[k].parent = i => P[k].origin = i
  PROVE  Leaf(H, i)
<1> SUFFICES ASSUME NEW k \in DOMAIN H, H[k].crate = i
             PROVE  FALSE
  BY DEF Leaf
<1>1. H[k].child \in K
  BY DEF SoundTree, NoRowTwice
<1>2. i \in Abv(H, H[k].child)
  BY DEF Abv
<1>3. PICK x : i \in Par(P, x)
  BY <1>1, <1>2 DEF SoundTree, Closed
<1>4. QED
  BY <1>3 DEF Par

-----------------------------------------------------------------------------
(* Statements. *)

(* Rows that stay are as they were. *)
LEMMA LackingShape ==
  ASSUME NEW T, NEW X
  PROVE  LET L == Lacking(T, X)
         IN  /\ DOMAIN L = DOMAIN T \ X /\ \A k \in DOMAIN L : L[k] = T[k]
             /\ Bounded(T) => Bounded(L)
<1> DEFINE L == Lacking(T, X)
<1>1. DOMAIN L = DOMAIN T \ X /\ \A k \in DOMAIN L : L[k] = T[k]
  BY DEF Lacking
<1> HIDE DEF L
<1>2. ASSUME Bounded(T)
      PROVE  Bounded(L)
  <2>1. PICK N \in Nat : DOMAIN T \subseteq 1 .. N
    BY <1>2 DEF Bounded
  <2>2. DOMAIN L \subseteq 1 .. N
    BY <1>1, <2>1
  <2>3. QED
    BY <2>2 DEF Bounded
<1>3. QED
  BY <1>1, <1>2 DEF L

(* DELETE FROM CrateParentList WHERE crateOriginId = i. *)
Orphaned(P, i) == Lacking(P, {k \in DOMAIN P : P[k].origin = i})

(* It takes the row of i. *)
LEMMA OrphanedShape ==
  ASSUME NEW O, NEW K, NEW P, OneRowEach(P, O, K), NEW i
  PROVE  LET P2 == Orphaned(P, i)
         IN  /\ OneRowEach(P2, O \ {i}, K)
             /\ \A k \in DOMAIN P2 : k \in DOMAIN P /\ P2[k] = P[k]
             /\ \A j \in O \ {i} : Par(P2, j) = Par(P, j)
<1> DEFINE X == {k \in DOMAIN P : P[k].origin = i}
           P2 == Lacking(P, X)
<1>1. DOMAIN P2 = DOMAIN P \ X /\ Bounded(P2) /\ \A k \in DOMAIN P2 : P2[k] = P[k]
  <2> HIDE DEF X
  <2>1. QED
    BY LackingShape DEF OneRowEach
<1> HIDE DEF P2
<1>2. ASSUME NEW j \in O \ {i}
      PROVE  Par(P2, j) = Par(P, j)
  <2>1. {k \in DOMAIN P2 : P2[k].origin = j} = {k \in DOMAIN P : P[k].origin = j}
    BY <1>1
  <2>2. QED
    BY <1>1, <2>1 DEF Par
<1>3. ASSUME NEW k \in DOMAIN P2
      PROVE  P2[k] \in [origin : O \ {i}, parent : K]
  BY <1>1 DEF OneRowEach
<1>4. \A j, k \in DOMAIN P2 : P2[j].origin = P2[k].origin => j = k
  BY <1>1 DEF OneRowEach
<1>5. ASSUME NEW j \in O \ {i}
      PROVE  \E k \in DOMAIN P2 : P2[k].origin = j
  BY <1>1 DEF OneRowEach
<1>6. OneRowEach(P2, O \ {i}, K)
  BY <1>1, <1>3, <1>4, <1>5 DEF OneRowEach
<1>7. QED
  BY <1>1, <1>2, <1>6 DEF P2, Orphaned

(* DELETE FROM CrateHierarchy WHERE crateIdChild = i. *)
LEMMA UnlinkedShape ==
  ASSUME NEW K, NEW H, NoRowTwice(H, K), NEW i
  PROVE  LET H2 == Unlinked(H, i)
         IN  /\ NoRowTwice(H2, K)
             /\ \A k \in DOMAIN H2 : k \in DOMAIN H /\ H2[k] = H[k] /\ H[k].child # i
             /\ \A j : Abv(H2, j) = IF j = i THEN {} ELSE Abv(H, j)
<1> DEFINE Y == {k \in DOMAIN H : H[k].child = i}
           H2 == Lacking(H, Y)
<1>1. DOMAIN H2 = DOMAIN H \ Y /\ Bounded(H2) /\ \A k \in DOMAIN H2 : H2[k] = H[k]
  <2> HIDE DEF Y
  <2>1. QED
    BY LackingShape DEF NoRowTwice
<1> HIDE DEF H2
<1>2. ASSUME NEW j
      PROVE  Abv(H2, j) = IF j = i THEN {} ELSE Abv(H, j)
  <2>1. {k \in DOMAIN H2 : H2[k].child = j}
          = IF j = i THEN {} ELSE {k \in DOMAIN H : H[k].child = j}
    BY <1>1
  <2>2. QED
    BY <1>1, <2>1 DEF Abv
<1>3. NoRowTwice(H2, K)
  BY <1>1 DEF NoRowTwice
<1>4. QED
  BY <1>1, <1>2, <1>3 DEF H2, Unlinked

(* The rows of a leaf go from both tables. *)
LEMMA LeafGoes ==
  ASSUME NEW K, NEW P, NEW H, SoundTree(P, H, K), NEW i \in K, Leaf(H, i)
  PROVE  LET P2 == Orphaned(P, i)
             H2 == Unlinked(H, i)
         IN  SoundTree(P2, H2, K \ {i}) /\ Abv(H2, i) = {}
<1> DEFINE P2 == Orphaned(P, i)
           H2 == Unlinked(H, i)
<1>1. /\ OneRowEach(P2, K \ {i}, K)
      /\ \A k \in DOMAIN P2 : k \in DOMAIN P /\ P2[k] = P[k]
      /\ \A j \in K \ {i} : Par(P2, j) = Par(P, j)
  BY OrphanedShape DEF SoundTree
<1>2. /\ NoRowTwice(H2, K)
      /\ \A k \in DOMAIN H2 : k \in DOMAIN H /\ H2[k] = H[k] /\ H[k].child # i
      /\ \A j : Abv(H2, j) = IF j = i THEN {} ELSE Abv(H, j)
  BY UnlinkedShape DEF SoundTree
<1> HIDE DEF P2, H2
<1>3. \A k \in DOMAIN P : P[k].parent = i => P[k].origin = i
  <2> SUFFICES ASSUME NEW k \in DOMAIN P, P[k].parent = i, P[k].origin # i
               PROVE  FALSE
    OBVIOUS
  <2>1. P[k].origin \in K /\ i \in Par(P, P[k].origin)
    BY DEF SoundTree, OneRowEach, Par
  <2>2. i \in Abv(H, P[k].origin)
    BY <2>1 DEF SoundTree, Closed
  <2>3. QED
    BY <2>2 DEF Abv, Leaf
<1>4. OneRowEach(P2, K \ {i}, K \ {i})
  <2>1. ASSUME NEW k \in DOMAIN P2
        PROVE  P2[k] \in [origin : K \ {i}, parent : K \ {i}]
    BY <1>1, <1>3 DEF OneRowEach
  <2>2. QED
    BY <1>1, <2>1 DEF OneRowEach
<1>5. NoRowTwice(H2, K \ {i})
  <2>1. ASSUME NEW k \in DOMAIN H2
        PROVE  H2[k] \in [crate : K \ {i}, child : K \ {i}]
    BY <1>2 DEF NoRowTwice, Leaf
  <2>2. QED
    BY <1>2, <2>1 DEF NoRowTwice
<1>6. Closed(P2, H2, K \ {i})
  BY <1>1, <1>2, LeafTaken
<1>7. QED
  BY <1>2, <1>4, <1>5, <1>6 DEF P2, H2, SoundTree

(* INSERT INTO CrateParentList. *)
LEMMA ParentInserted ==
  ASSUME NEW O, NEW K, NEW P, OneRowEach(P, O, K), NEW i \in K, i \notin O, NEW p \in K
  PROVE  LET P2 == InsertedLast(P, [origin |-> i, parent |-> p])
         IN  /\ OneRowEach(P2, O \cup {i}, K)
             /\ \A j \in O : Par(P2, j) = Par(P, j)
             /\ Par(P2, i) = {p} \ {i}
<1> DEFINE row == [origin |-> i, parent |-> p]
           P2 == InsertedLast(P, row)
<1>1. row.origin = i /\ row.parent = p /\ row \in [origin : O \cup {i}, parent : K]
  OBVIOUS
<1> HIDE DEF row
<1>2. PICK N \in Nat : DOMAIN P \subseteq 1 .. N
  BY DEF OneRowEach, Bounded
<1>3. PICK id : OneMore(P2, P, id, row) /\ DOMAIN P2 \subseteq 1 .. (N + 1)
  BY <1>2, InsertedShape
<1> HIDE DEF P2
<1>4. /\ DOMAIN P2 = DOMAIN P \cup {id} /\ id \notin DOMAIN P
      /\ P2[id] = row /\ \A k \in DOMAIN P : P2[k] = P[k]
  BY <1>3 DEF OneMore
<1>5. \A k \in DOMAIN P : P[k].origin \in O /\ P[k] \in [origin : O \cup {i}, parent : K]
  BY DEF OneRowEach
<1>6. OneRowEach(P2, O \cup {i}, K)
  <2>1. Bounded(P2)
    <3>1. N + 1 \in Nat
      BY <1>2
    <3>2. QED
      BY <1>3, <3>1 DEF Bounded
  <2>2. \A k \in DOMAIN P2 : P2[k] \in [origin : O \cup {i}, parent : K]
    BY <1>1, <1>4, <1>5
  <2>3. \A j, k \in DOMAIN P2 : P2[j].origin = P2[k].origin => j = k
    BY <1>1, <1>4, <1>5 DEF OneRowEach
  <2>4. \A j \in O \cup {i} : \E k \in DOMAIN P2 : P2[k].origin = j
    BY <1>1, <1>4 DEF OneRowEach
  <2>5. QED
    BY <2>1, <2>2, <2>3, <2>4 DEF OneRowEach
<1>7. ASSUME NEW j \in O
      PROVE  Par(P2, j) = Par(P, j)
  <2>1. {k \in DOMAIN P2 : P2[k].origin = j} = {k \in DOMAIN P : P[k].origin = j}
    BY <1>1, <1>4
  <2>2. QED
    BY <1>4, <2>1 DEF Par
<1>8. Par(P2, i) = {p} \ {i}
  <2>1. {k \in DOMAIN P2 : P2[k].origin = i} = {id}
    BY <1>1, <1>4, <1>5
  <2>2. QED
    BY <1>1, <1>4, <2>1 DEF Par
<1>9. QED
  BY <1>6, <1>7, <1>8 DEF P2, row

(* INSERT INTO CrateHierarchy .. SELECT .. UNION: i comes below p and below*)
(* all that p is below.                                                    *)
LEMMA LinkedShape ==
  ASSUME MaxId \in Nat, NEW K \in SUBSET Ids, NEW H, NoRowTwice(H, K),
         NEW p \in K, NEW i \in K, Abv(H, i) = {}, p # i
  PROVE  LET T == Linked(H, p, i)
         IN  /\ NoRowTwice(T, K)
             /\ \A j : Abv(T, j) = IF j = i THEN {p} \cup Abv(H, p) ELSE Abv(H, j)
<1> DEFINE above == Abv(H, p) \cup {p}
           order == Ascending(above)
           m     == Cardinality(above)
           new   == [n \in DOMAIN order |-> [crate |-> order[n], child |-> i]]
           last  == Highest(DOMAIN H)
           T     == Linked(H, p, i)
<1>1. T = InsertedAll(H, new)
  BY DEF Linked, Abv
<1>2. above \in SUBSET K
  BY DEF NoRowTwice, Abv
<1>3. above \in SUBSET Nat /\ IsFiniteSet(above)
  <2>1. IsFiniteSet(1 .. MaxId)
    BY FS_Interval
  <2>2. above \in SUBSET (1 .. MaxId)
    BY <1>2 DEF Ids
  <2> HIDE DEF above
  <2>3. IsFiniteSet(above)
    BY <2>1, <2>2, FS_Subset
  <2>4. QED
    BY <2>2, <2>3
<1> HIDE DEF above, T
<1>4. /\ m \in Nat /\ order \in [1 .. m -> above]
      /\ \A j, k \in DOMAIN order : order[j] = order[k] => j = k
      /\ \A a \in above : \E n \in DOMAIN order : order[n] = a
  BY <1>3, AscendingIsComplete
<1> HIDE DEF m, order
<1>5. DOMAIN order = 1 .. m /\ \A n \in 1 .. m : order[n] \in above
  BY <1>4
<1>6. /\ DOMAIN new = 1 .. m
      /\ \A n \in 1 .. m : new[n] = [crate |-> order[n], child |-> i]
  BY <1>5
<1> HIDE DEF new
<1>7. PICK N \in Nat : DOMAIN H \subseteq 1 .. N
  BY DEF NoRowTwice, Bounded
<1>8. MoreRows(T, H, last, new) /\ DOMAIN T \subseteq 1 .. (N + m)
  BY <1>1, <1>4, <1>6, <1>7, InsertedAllShape
<1> HIDE DEF last
<1>9. /\ DOMAIN T = DOMAIN H \cup {last + n : n \in 1 .. m}
      /\ \A k \in DOMAIN H : T[k] = H[k]
      /\ \A n \in 1 .. m : T[last + n] = [crate |-> order[n], child |-> i]
  BY <1>6, <1>8 DEF MoreRows
<1>10. \A k \in DOMAIN H : H[k] \in [crate : K, child : K] /\ H[k].child # i
  BY DEF NoRowTwice, Abv
<1>11. \A n \in 1 .. m : T[last + n].crate = order[n] /\ T[last + n].child = i
  <2>1. ASSUME NEW n \in 1 .. m
        PROVE  T[last + n].crate = order[n] /\ T[last + n].child = i
    <3>1. T[last + n] = [crate |-> order[n], child |-> i]
      BY <1>9
    <3>2. QED
      BY <3>1
  <2>2. QED
    BY <2>1
<1>12. NoRowTwice(T, K)
  <2>1. Bounded(T)
    <3>1. N + m \in Nat
      BY <1>4, <1>7
    <3>2. QED
      BY <1>8, <3>1 DEF Bounded
  <2>2. ASSUME NEW k \in DOMAIN T
        PROVE  T[k] \in [crate : K, child : K]
    <3>1. CASE k \in DOMAIN H
      BY <1>9, <1>10, <3>1
    <3>2. CASE k \notin DOMAIN H
      <4>1. PICK n \in 1 .. m : k = last + n
        BY <1>9, <3>2
      <4>2. T[k] = [crate |-> order[n], child |-> i] /\ order[n] \in K
        BY <1>2, <1>5, <1>9, <4>1
      <4>3. QED
        BY <4>2
    <3>3. QED
      BY <3>1, <3>2
  <2>3. ASSUME NEW j \in DOMAIN T, NEW k \in DOMAIN T, T[j] = T[k]
        PROVE  j = k
    <3>1. CASE j \in DOMAIN H /\ k \in DOMAIN H
      BY <1>9, <2>3, <3>1 DEF NoRowTwice
    <3>2. CASE j \in DOMAIN H /\ k \notin DOMAIN H
      BY <1>9, <1>10, <1>11, <2>3, <3>2
    <3>3. CASE j \notin DOMAIN H /\ k \in DOMAIN H
      BY <1>9, <1>10, <1>11, <2>3, <3>3
    <3>4. CASE j \notin DOMAIN H /\ k \notin DOMAIN H
      <4>1. PICK x \in 1 .. m : j = last + x
        BY <1>9, <3>4
      <4>2. PICK y \in 1 .. m : k = last + y
        BY <1>9, <3>4
      <4>3. order[x] = order[y]
        BY <1>11, <2>3, <4>1, <4>2
      <4>4. x = y
        BY <1>4, <1>5, <4>3
      <4>5. QED
        BY <4>1, <4>2, <4>4
    <3>5. QED
      BY <3>1, <3>2, <3>3, <3>4
  <2>4. QED
    BY <2>1, <2>2, <2>3 DEF NoRowTwice
<1>13. ASSUME NEW j, j # i
       PROVE  Abv(T, j) = Abv(H, j)
  <2>1. {k \in DOMAIN T : T[k].child = j} = {k \in DOMAIN H : H[k].child = j}
    BY <1>9, <1>11, <1>13
  <2>2. QED
    BY <1>9, <2>1 DEF Abv
<1>14. Abv(T, i) = above
  <2>1. {k \in DOMAIN T : T[k].child = i} = {last + n : n \in 1 .. m}
    BY <1>9, <1>10, <1>11
  <2>2. ASSUME NEW a \in above
        PROVE  a \in Abv(T, i)
    <3>1. PICK n \in 1 .. m : order[n] = a
      BY <1>4, <1>5
    <3>2. last + n \in {k \in DOMAIN T : T[k].child = i} /\ T[last + n].crate = a
      BY <1>11, <2>1, <3>1
    <3>3. QED
      BY <3>2 DEF Abv
  <2>3. ASSUME NEW a \in Abv(T, i)
        PROVE  a \in above
    BY <1>5, <1>11, <2>1, <2>3 DEF Abv
  <2>4. QED
    BY <2>2, <2>3
<1>15. QED
  BY <1>12, <1>13, <1>14 DEF T, above

-----------------------------------------------------------------------------
(* Calls, in terms of what their statements do to the two tables.          *)

ParentRow(i, p) == [origin |-> i, parent |-> IF p = NoCrate THEN i ELSE p]

(* A crate comes: create, or the second half of set_parent.                *)
LEMMA LeafComes ==
  ASSUME MaxId \in Nat, NEW K \in SUBSET Ids, NEW P, NEW H, SoundTree(P, H, K),
         NEW i \in Ids, i \notin K, Abv(H, i) = {}, NEW p \in K \cup {NoCrate}
  PROVE  SoundTree(InsertedLast(P, ParentRow(i, p)),
                   IF p = NoCrate THEN H ELSE Linked(H, p, i), K \cup {i})
<1> DEFINE P2 == InsertedLast(P, ParentRow(i, p))
           H2 == IF p = NoCrate THEN H ELSE Linked(H, p, i)
           q  == IF p = NoCrate THEN i ELSE p
<1>1. NoCrate \notin K /\ NoCrate # i
  BY DEF NoCrate, Ids
<1>2. q \in K \cup {i} /\ P2 = InsertedLast(P, [origin |-> i, parent |-> q]) /\ {q} \ {i} = {p} \ {NoCrate}
  BY <1>1 DEF ParentRow
<1> HIDE DEF P2, q
<1>3. /\ OneRowEach(P2, K \cup {i}, K \cup {i})
      /\ \A j \in K : Par(P2, j) = Par(P, j)
      /\ Par(P2, i) = {p} \ {NoCrate}
  <2>1. OneRowEach(P, K, K \cup {i})
    <3>1. \A k \in DOMAIN P : P[k] \in [origin : K, parent : K \cup {i}]
      BY DEF SoundTree, OneRowEach
    <3>2. QED
      BY <3>1 DEF SoundTree, OneRowEach
  <2>2. QED
    BY <1>2, <2>1, ParentInserted
<1>4. NoRowTwice(H, K \cup {i})
  <2>1. \A k \in DOMAIN H : H[k] \in [crate : K \cup {i}, child : K \cup {i}]
    BY DEF SoundTree, NoRowTwice
  <2>2. QED
    BY <2>1 DEF SoundTree, NoRowTwice
<1>5. /\ NoRowTwice(H2, K \cup {i})
      /\ \A j : Abv(H2, j) = IF j = i /\ p # NoCrate THEN {p} \cup Abv(H, p) ELSE Abv(H, j)
  <2>1. CASE p = NoCrate
    BY <1>4, <2>1
  <2>2. CASE p # NoCrate
    <3>1. p \in K \cup {i} /\ i \in K \cup {i} /\ p # i /\ K \cup {i} \in SUBSET Ids
      BY <2>2
    <3>2. H2 = Linked(H, p, i)
      BY <2>2
    <3> HIDE DEF H2
    <3>3. PICK L : L = K \cup {i}
      OBVIOUS
    <3>4. /\ L \in SUBSET Ids /\ p \in L /\ i \in L /\ p # i /\ NoRowTwice(H, L)
          /\ Abv(H, i) = {} /\ MaxId \in Nat
      BY <1>4, <3>1, <3>3
    <3>5. /\ NoRowTwice(Linked(H, p, i), L)
          /\ \A j : Abv(Linked(H, p, i), j) = IF j = i THEN {p} \cup Abv(H, p) ELSE Abv(H, j)
      BY ONLY <3>4, LinkedShape
    <3> QED BY <2>2, <3>2, <3>3, <3>5
  <2>3. QED
    BY <2>1, <2>2
<1> HIDE DEF H2
<1>6. Closed(P2, H2, K \cup {i})
  <2>1. Abv(H2, i) = IF p = NoCrate THEN {} ELSE {p} \cup Abv(H, p)
    BY <1>5
  <2>2. \A j \in K : Par(P2, j) = Par(P, j) /\ Abv(H2, j) = Abv(H, j)
    BY <1>3, <1>5
  <2>3. QED
    BY <1>1, <1>3, <2>1, <2>2, LeafPut
<1>7. QED
  BY <1>3, <1>5, <1>6 DEF SoundTree, P2, H2

(* A leaf goes, and comes back below p. *)
LEMMA LeafMoves ==
  ASSUME MaxId \in Nat, NEW K \in SUBSET Ids, NEW P, NEW H, SoundTree(P, H, K),
         NEW i \in K, Leaf(H, i), NEW p \in (K \cup {NoCrate}) \ {i}
  PROVE  SoundTree(InsertedLast(Orphaned(P, i), ParentRow(i, p)),
                   IF p = NoCrate THEN Unlinked(H, i) ELSE Linked(Unlinked(H, i), p, i), K)
<1> DEFINE P1 == Orphaned(P, i)
           H1 == Unlinked(H, i)
<1>1. SoundTree(P1, H1, K \ {i}) /\ Abv(H1, i) = {}
  BY LeafGoes
<1> HIDE DEF P1, H1
<1>2. K \ {i} \in SUBSET Ids /\ i \in Ids /\ p \in (K \ {i}) \cup {NoCrate} /\ (K \ {i}) \cup {i} = K
  OBVIOUS
<1>3. SoundTree(InsertedLast(P1, ParentRow(i, p)), IF p = NoCrate THEN H1 ELSE Linked(H1, p, i),
                (K \ {i}) \cup {i})
  BY <1>1, <1>2, LeafComes
<1>4. QED
  BY <1>2, <1>3 DEF P1, H1

(* A crate that is put where it is stays there, with all that is below it. *)
LEMMA NothingMoves ==
  ASSUME MaxId \in Nat, NEW K \in SUBSET Ids, NEW P, NEW H, SoundTree(P, H, K),
         NEW i \in K, NEW p \in (K \cup {NoCrate}) \ {i}, Par(P, i) = {p} \ {NoCrate}
  PROVE  SoundTree(InsertedLast(Orphaned(P, i), ParentRow(i, p)),
                   IF p = NoCrate THEN Unlinked(H, i) ELSE Linked(Unlinked(H, i), p, i), K)
<1> DEFINE P1 == Orphaned(P, i)
           P2 == InsertedLast(P1, ParentRow(i, p))
           H1 == Unlinked(H, i)
           H2 == IF p = NoCrate THEN H1 ELSE Linked(H1, p, i)
           q  == IF p = NoCrate THEN i ELSE p
<1>1. NoCrate \notin K /\ NoCrate # i
  BY DEF NoCrate, Ids
<1>2. q \in K /\ P2 = InsertedLast(P1, [origin |-> i, parent |-> q]) /\ {q} \ {i} = {p} \ {NoCrate}
  BY <1>1 DEF ParentRow
<1>3. OneRowEach(P1, K \ {i}, K) /\ \A j \in K \ {i} : Par(P1, j) = Par(P, j)
  BY OrphanedShape DEF SoundTree
<1>4. NoRowTwice(H1, K) /\ \A j : Abv(H1, j) = IF j = i THEN {} ELSE Abv(H, j)
  BY UnlinkedShape DEF SoundTree
<1> HIDE DEF P1, P2, H1, q
<1>5. /\ OneRowEach(P2, (K \ {i}) \cup {i}, K)
      /\ \A j \in K \ {i} : Par(P2, j) = Par(P1, j)
      /\ Par(P2, i) = {p} \ {NoCrate}
  BY <1>2, <1>3, ParentInserted
<1>6. OneRowEach(P2, K, K) /\ \A j \in K : Par(P2, j) = Par(P, j)
  <2>1. (K \ {i}) \cup {i} = K
    OBVIOUS
  <2>2. QED
    BY <1>3, <1>5, <2>1
<1>7. NoRowTwice(H2, K) /\ \A j \in K : Abv(H2, j) = Abv(H, j)
  <2>1. CASE p = NoCrate
    <3>1. Abv(H, i) = {}
      BY <2>1 DEF SoundTree, Closed
    <3>2. QED
      BY <1>4, <2>1, <3>1
  <2>2. CASE p # NoCrate
    <3>1. H2 = Linked(H1, p, i) /\ p \in K /\ p # i /\ NoRowTwice(H1, K) /\ Abv(H1, i) = {}
          /\ K \in SUBSET Ids /\ i \in K /\ MaxId \in Nat
      BY <1>4, <2>2
    <3> HIDE DEF H2
    <3>2. ASSUME NEW G, NoRowTwice(G, K), Abv(G, i) = {}
          PROVE  /\ NoRowTwice(Linked(G, p, i), K)
                 /\ \A j : Abv(Linked(G, p, i), j) = IF j = i THEN {p} \cup Abv(G, p) ELSE Abv(G, j)
      BY <3>1, <3>2, LinkedShape
    <3>3. Abv(H, i) = {p} \cup Abv(H, p)
      BY <1>1, <2>2 DEF SoundTree, Closed
    <3>4. QED
      BY <1>4, <3>1, <3>2, <3>3
  <2>3. QED
    BY <2>1, <2>2
<1> HIDE DEF H2
<1>8. ASSUME NEW j \in K
      PROVE  /\ Abv(H2, j) = Par(P2, j) \cup UNION {Abv(H2, x) : x \in Par(P2, j)}
             /\ j \notin Abv(H2, j)
             /\ \A a \in Abv(H2, j) : \E x \in {j} \cup Abv(H2, j) : a \in Par(P2, x)
  <2>1. /\ Abv(H, j) = Par(P, j) \cup UNION {Abv(H, x) : x \in Par(P, j)}
        /\ j \notin Abv(H, j)
        /\ \A a \in Abv(H, j) : \E x \in {j} \cup Abv(H, j) : a \in Par(P, x)
    BY DEF SoundTree, Closed
  <2>2. Par(P, j) \subseteq K /\ Abv(H, j) \subseteq K
    BY TreeIsOfCrates
  <2>3. {Abv(H2, x) : x \in Par(P2, j)} = {Abv(H, x) : x \in Par(P, j)}
    BY <1>6, <1>7, <2>2
  <2>4. \A x \in {j} \cup Abv(H2, j) : Par(P2, x) = Par(P, x)
    BY <1>6, <1>7, <2>2
  <2>5. QED
    BY <1>6, <1>7, <2>1, <2>3, <2>4
<1>9. Closed(P2, H2, K)
  BY <1>8 DEF Closed
<1>10. QED
  BY <1>6, <1>7, <1>9 DEF SoundTree, P1, P2, H1, H2

-----------------------------------------------------------------------------
(* The invariant.  TreeIsSound is not inductive: it says nothing of rows of*)
(* CrateHierarchy that are about crates that are gone, which a new crate   *)
(* with their id would find, and not that what is above another has a      *)
(* child, without which a crate that is removed could leave such rows.     *)
CrateKeys(L) == {x \in DOMAIN L : x[1] = "crate"}

IInv ==
  /\ \A x \in CrateKeys(lists) : \E i \in Ids : x = C(i)
  /\ SoundTree(parents, hierarchy, Crates)

(* The traps that a caller must not walk into for the tree to stay sound.  *)
Careful == Traps \cap {"deep_move", "remove"} = {}

LEMMA BoundIsNatural == MaxId \in Nat
  BY Crates1Bounds

LEMMA IInvIsEnough == IInv => TreeIsSound
<1> SUFFICES ASSUME IInv PROVE TreeIsSound
  OBVIOUS
<1>1. OneRowEach(parents, Crates, Crates) /\ NoRowTwice(hierarchy, Crates)
      /\ Closed(parents, hierarchy, Crates)
  BY DEF IInv, SoundTree
<1>2. ASSUME NEW i \in Crates
      PROVE  Cardinality(ParentRows(i)) = 1
  <2>1. PICK k \in DOMAIN parents : parents[k].origin = i
    BY <1>1 DEF OneRowEach
  <2>2. ParentRows(i) = {k}
    BY <1>1, <2>1 DEF OneRowEach, ParentRows
  <2>3. QED
    BY <2>2, FS_Singleton
<1>3. \A k \in DOMAIN parents : {parents[k].origin, parents[k].parent} \subseteq Crates
  BY <1>1 DEF OneRowEach
<1>4. \A i : Above(i) = Abv(hierarchy, i) /\ ParentOf(i) = Par(parents, i)
  BY DEF Above, Abv, ParentOf, ParentRows, Par
<1>5. OneParent
  BY <1>2, <1>3 DEF OneParent
<1>6. HierarchyIsClosure
  BY <1>1, <1>4 DEF HierarchyIsClosure, Closed, NoRowTwice
<1>7. QED
  BY <1>5, <1>6 DEF TreeIsSound

(* Crates come and go with their keys. *)
LEMMA CratesOfKeys ==
  /\ Crates = {x[2] : x \in CrateKeys(lists)}
  /\ Crates' = {x[2] : x \in CrateKeys(lists')}
  BY DEF Crates, IdsOf, CrateKeys

(* What a call has to leave for the invariant to go on.                    *)
LEMMA Goes ==
  ASSUME \A x \in CrateKeys(lists') : \E i \in Ids : x = C(i),
         SoundTree(parents', hierarchy', Crates')
  PROVE  IInv'
  BY DEF IInv, CrateKeys, SoundTree, OneRowEach, NoRowTwice, Closed, Bounded, Abv, Par

(* A call that leaves the tree alone. *)
LEMMA TreeStays ==
  ASSUME IInv, CrateKeys(lists') = CrateKeys(lists), UNCHANGED <<parents, hierarchy>>
  PROVE  IInv'
<1>1. Crates' = Crates
  BY CratesOfKeys
<1>2. QED
  BY <1>1, Goes DEF IInv

(* The rows of the two tables are those that the lemmas above speak of.    *)
LEMMA CreateKeepsIInv ==
  ASSUME IInv, NEW p \in Crates \cup {NoCrate}, NEW n, Highest(Crates) < MaxId, Create(p, n)
  PROVE  IInv'
<1>1. CASE n = BadTitle
  BY <1>1, TreeStays DEF Create, Fail, data
<1>2. CASE n # BadTitle
  <2> DEFINE id == Highest(Crates) + 1
  <2>1. Crates \in SUBSET Ids
    BY CratesOfKeys DEF IInv, C
  <2>2. Highest(Crates) \in 0 .. MaxId /\ \A i \in Crates : i <= Highest(Crates)
    <3>1. Crates \in SUBSET (0 .. MaxId)
      BY <2>1 DEF Ids
    <3>2. QED
      BY <3>1, BoundIsNatural, HighestIsHighest
  <2>3. id \in Ids /\ id \notin Crates
    BY <2>1, <2>2, BoundIsNatural DEF Ids
  <2>4. PICK row : lists' = With(lists, C(id), row)
    BY <1>2 DEF Create
  <2>5. /\ parents' = InsertedLast(parents, ParentRow(id, p))
        /\ hierarchy' = IF p = NoCrate THEN hierarchy ELSE Linked(hierarchy, p, id)
    BY <1>2 DEF Create, ParentRow
  <2> HIDE DEF id
  <2>6. CrateKeys(lists') = CrateKeys(lists) \cup {C(id)}
    BY <2>4 DEF CrateKeys, With, C
  <2>7. Crates' = Crates \cup {id}
    <3>1. C(id)[2] = id
      BY DEF C
    <3>2. QED
      BY <2>6, <3>1, CratesOfKeys
  <2>8. \A x \in CrateKeys(lists') : \E i \in Ids : x = C(i)
    BY <2>3, <2>6 DEF IInv
  <2>9. Abv(hierarchy, id) = {}
    BY <2>3 DEF IInv, SoundTree, NoRowTwice, Abv
  <2>10. SoundTree(parents', hierarchy', Crates')
    BY <2>1, <2>3, <2>5, <2>7, <2>9, BoundIsNatural, LeafComes DEF IInv
  <2>11. QED
    BY <2>8, <2>10, Goes
<1>3. QED
  BY <1>1, <1>2

LEMMA SetNameKeepsIInv ==
  ASSUME IInv, NEW i \in Crates, NEW n, SetName(i, n)
  PROVE  IInv'
<1>1. UNCHANGED <<parents, hierarchy>>
  BY DEF SetName, Fail, data
<1>2. CASE lists' = lists
  BY <1>1, <1>2, TreeStays
<1>3. CASE \E changed : lists' = AsUpdated(lists, changed)
  <2>1. CrateKeys(lists') = CrateKeys(lists)
    BY <1>3 DEF AsUpdated, CrateKeys
  <2>2. QED
    BY <1>1, <2>1, TreeStays
<1>4. QED
  BY <1>2, <1>3 DEF SetName, Fail, data

LEMMA SetParentKeepsIInv ==
  ASSUME Careful, IInv, NEW i \in Crates, NEW p \in Crates \cup {NoCrate},
         Unless("deep_move", DeepMove(i, p)), SetParent(i, p)
  PROVE  IInv'
<1>1. CASE p = i
  BY <1>1, TreeStays DEF SetParent, Fail, data
<1>2. CASE p # i
  <2>1. /\ lists' = lists
        /\ parents' = InsertedLast(Orphaned(parents, i), ParentRow(i, p))
        /\ hierarchy' = IF p = NoCrate THEN Unlinked(hierarchy, i)
                                    ELSE Linked(Unlinked(hierarchy, i), p, i)
    BY <1>2 DEF SetParent, Orphaned, ParentRow, ParentRows
  <2>2. Crates' = Crates /\ Crates \in SUBSET Ids
    BY <2>1, CratesOfKeys DEF IInv, C
  <2>3. Par(parents, i) = {p} \ {NoCrate} \/ Leaf(hierarchy, i)
    <3>1. ~ DeepMove(i, p)
      BY DEF Careful, Unless
    <3>2. Par(parents, i) = ParentOf(i)
      BY DEF Par, ParentOf, ParentRows
    <3>3. BelowAll(i) = {} => Leaf(hierarchy, i)
      BY DEF BelowAll, Leaf
    <3>4. QED
      BY <3>1, <3>2, <3>3 DEF DeepMove, StalePath
  <2>4. SoundTree(parents', hierarchy', Crates')
    <3>1. SoundTree(parents, hierarchy, Crates) /\ p \in (Crates \cup {NoCrate}) \ {i}
      BY <1>2 DEF IInv
    <3>2. CASE Par(parents, i) = {p} \ {NoCrate}
      BY <2>1, <2>2, <3>1, <3>2, BoundIsNatural, NothingMoves
    <3>3. CASE Leaf(hierarchy, i)
      BY <2>1, <2>2, <3>1, <3>3, BoundIsNatural, LeafMoves
    <3>4. QED
      BY <2>3, <3>2, <3>3
  <2>5. QED
    BY <2>1, <2>4, Goes DEF IInv
<1>3. QED
  BY <1>1, <1>2

LEMMA RemoveCrateKeepsIInv ==
  ASSUME Careful, IInv, NEW i \in Crates, Unless("remove", Untidy(i)), RemoveCrate(i)
  PROVE  IInv'
<1>1. fkeys /\ DirectBelow(i) = {}
  BY DEF Careful, Unless, Untidy
<1>2. \A k \in DOMAIN parents : parents[k].parent = i => parents[k].origin = i
  BY <1>1 DEF DirectBelow
<1>3. SoundTree(parents, hierarchy, Crates) /\ Leaf(hierarchy, i)
  BY <1>2, ChildlessIsLeaf DEF IInv
<1>4. parents' = Orphaned(parents, i)
  <2>1. {k \in DOMAIN parents : i \in {parents[k].origin, parents[k].parent}}
          = {k \in DOMAIN parents : parents[k].origin = i}
    BY <1>2
  <2>2. QED
    BY <1>1, <2>1 DEF RemoveCrate, Orphaned
<1>5. hierarchy' = Unlinked(hierarchy, i)
  <2>1. {k \in DOMAIN hierarchy : i \in {hierarchy[k].crate, hierarchy[k].child}}
          = {k \in DOMAIN hierarchy : hierarchy[k].child = i}
    BY <1>3 DEF Leaf
  <2>2. QED
    BY <1>1, <2>1 DEF RemoveCrate, Unlinked
<1>6. CrateKeys(lists') = CrateKeys(lists) \ {C(i)}
  BY DEF RemoveCrate, CrateKeys
<1>7. Crates' = Crates \ {i}
  <2>1. \A x \in CrateKeys(lists) : x[2] = i <=> x = C(i)
    BY DEF IInv, C
  <2>2. QED
    BY <1>6, <2>1, CratesOfKeys
<1>8. SoundTree(parents', hierarchy', Crates')
  BY <1>3, <1>4, <1>5, <1>7, LeafGoes
<1>9. QED
  BY <1>6, <1>8, Goes DEF IInv

LEMMA CrateCallKeepsIInv ==
  ASSUME Careful, IInv, CrateCall
  PROVE  IInv'
<1>1. ASSUME NEW H, Hold(H)
      PROVE  IInv'
  BY <1>1, TreeStays DEF Hold
<1>2. QED
  BY <1>1, CreateKeepsIInv, SetNameKeepsIInv, SetParentKeepsIInv, RemoveCrateKeepsIInv
     DEF CrateCall, AddTrack, RemoveTrack, ClearTracks

LEMMA PlaylistCallKeepsIInv ==
  ASSUME IInv, PlaylistCall
  PROVE  IInv'
<1>1. ASSUME NEW L, Relisted(L), CrateKeys(L) = CrateKeys(lists)
      PROVE  IInv'
  BY <1>1, TreeStays DEF Relisted
<1>2. ASSUME NEW n, CreatePlaylist(n)
      PROVE  IInv'
  <2>1. CASE n = BadTitle
    BY <1>2, <2>1, TreeStays DEF CreatePlaylist, Fail, data
  <2>2. CASE n # BadTitle
    <3>1. PICK x, row : Relisted(With(lists, <<"playlist", x>>, row))
      BY <1>2, <2>2 DEF CreatePlaylist
    <3>2. CrateKeys(With(lists, <<"playlist", x>>, row)) = CrateKeys(lists)
      BY DEF CrateKeys, With
    <3>3. QED
      BY <1>1, <3>1, <3>2
  <2>3. QED
    BY <2>1, <2>2
<1>3. ASSUME NEW i, NEW n, SetPlaylistName(i, n)
      PROVE  IInv'
  <2>1. CASE n = BadTitle
    BY <1>3, <2>1, TreeStays DEF SetPlaylistName, Fail, data
  <2>2. CASE n # BadTitle
    <3>1. Relisted(PlaylistUpdated(lists, i, n))
      BY <1>3, <2>2 DEF SetPlaylistName
    <3>2. CrateKeys(PlaylistUpdated(lists, i, n)) = CrateKeys(lists)
      <4>1. DOMAIN PlaylistUpdated(lists, i, n) = DOMAIN lists
        BY DEF PlaylistUpdated
      <4>2. QED
        BY <4>1 DEF CrateKeys
    <3>3. QED
      BY <1>1, <3>1, <3>2
  <2>3. QED
    BY <2>1, <2>2
<1>4. ASSUME NEW i, RemovePlaylist(i)
      PROVE  IInv'
  <2> DEFINE L == [x \in DOMAIN lists \ {<<"playlist", i>>} |-> lists[x]]
  <2>1. Relisted(L)
    BY <1>4 DEF RemovePlaylist
  <2>2. CrateKeys(L) = CrateKeys(lists)
    BY DEF CrateKeys
  <2>3. QED
    BY <1>1, <2>1, <2>2
<1>5. QED
  BY <1>2, <1>3, <1>4 DEF PlaylistCall

LEMMA StartsSound == Init => IInv
<1> SUFFICES ASSUME Init PROVE IInv
  OBVIOUS
<1>1. CrateKeys(lists) = {} /\ DOMAIN parents = {} /\ DOMAIN hierarchy = {}
  BY DEF Init, CrateKeys
<1>2. Crates = {}
  BY <1>1, CratesOfKeys
<1>3. Bounded(parents) /\ Bounded(hierarchy)
  <2>1. 0 \in Nat
    OBVIOUS
  <2>2. QED
    BY <1>1, <2>1 DEF Bounded
<1>4. SoundTree(parents, hierarchy, Crates)
  BY <1>1, <1>2, <1>3 DEF SoundTree, OneRowEach, NoRowTwice, Closed
<1>5. QED
  BY <1>1, <1>4 DEF IInv

(* "Every crate is specified as having precisely one immediate parent", and*)
(* CrateHierarchy is the closure of CrateParentList and says nothing twice,*)
(* in libraries of every size: whatever crates a careful caller creates,   *)
(* renames, moves and removes, in tables and in views.                     *)
THEOREM TreeStaysSound ==
  ASSUME Careful
  PROVE  Spec => []TreeIsSound
<1>1. Init => IInv
  BY StartsSound
<1>2. IInv /\ [Next]_vars => IInv'
  <2> SUFFICES ASSUME IInv, [Next]_vars PROVE IInv'
    OBVIOUS
  <2>1. CASE UNCHANGED vars
    BY <2>1, TreeStays DEF vars, data
  <2>2. CASE Next
    BY <2>2, CrateCallKeepsIInv, PlaylistCallKeepsIInv DEF Next
  <2>3. QED
    BY <2>1, <2>2
<1>3. QED
  BY <1>1, <1>2, IInvIsEnough, PTL DEF Spec

-----------------------------------------------------------------------------
(* What renaming a crate writes. *)

(* Sequences of one item, one after the other. *)
LEMMA FlattenOnes ==
  ASSUME NEW S, NEW m \in Nat, NEW x \in [1 .. m -> S],
         NEW seqs, seqs = [n \in 1 .. m |-> <<x[n]>>]
  PROVE  FlattenSeq(seqs) = x
<1> DEFINE Then(f, i) == IF i = 1 THEN seqs[i] ELSE f[i - 1] \o seqs[i]
           flatten == CHOOSE f : f = [i \in 1 .. Len(seqs) |-> Then(f, i)]
           h == [i \in 1 .. m |-> [k \in 1 .. i |-> x[k]]]
<1>1. Len(seqs) = m /\ DOMAIN seqs = 1 .. m /\ \A n \in 1 .. m : seqs[n] = <<x[n]>>
  <2>1. \A n \in 1 .. m : <<x[n]>> \in Seq(S)
    OBVIOUS
  <2>2. seqs \in [1 .. m -> Seq(S)]
    BY <2>1
  <2>3. QED
    BY <2>2
<1>2. CASE m = 0
  <2>1. seqs = << >> /\ x = << >>
    BY <1>1, <1>2
  <2>2. QED
    BY <1>1, <1>2, <2>1 DEF FlattenSeq
<1>3. CASE m # 0
  <2>1. FlattenSeq(seqs) = flatten[m]
    BY <1>1, <1>3 DEF FlattenSeq
  <2>2. ASSUME NEW i \in 1 .. m
        PROVE  h[i] = Then(h, i)
    <3>1. CASE i = 1
      <4>1. h[i] = [k \in 1 .. 1 |-> x[k]] /\ seqs[1] = <<x[1]>>
        BY <1>1, <3>1
      <4>2. [k \in 1 .. 1 |-> x[k]] = <<x[1]>>
        BY <3>1
      <4>3. QED
        BY <3>1, <4>1, <4>2
    <3>2. CASE i # 1
      <4>1. i - 1 \in 1 .. m /\ h[i - 1] = [k \in 1 .. i - 1 |-> x[k]]
        BY <3>2
      <4>2. h[i] = [k \in 1 .. i |-> x[k]] /\ seqs[i] = <<x[i]>>
        BY <1>1
      <4>3. [k \in 1 .. i - 1 |-> x[k]] \o <<x[i]>> = [k \in 1 .. i |-> x[k]]
        <5>1. /\ [k \in 1 .. i - 1 |-> x[k]] \in Seq(S)
              /\ Len([k \in 1 .. i - 1 |-> x[k]]) = i - 1
              /\ <<x[i]>> \in Seq(S) /\ Len(<<x[i]>>) = 1
          <6>1. [k \in 1 .. i - 1 |-> x[k]] \in [1 .. i - 1 -> S] /\ i - 1 \in Nat
            BY <4>1
          <6>2. QED
            BY <6>1
        <5> DEFINE a == [k \in 1 .. i - 1 |-> x[k]]
        <5>2. /\ a \o <<x[i]>> \in Seq(S) /\ Len(a \o <<x[i]>>) = i
              /\ \A k \in 1 .. i :
                   (a \o <<x[i]>>)[k] = IF k <= i - 1 THEN a[k] ELSE <<x[i]>>[k - (i - 1)]
          <6> HIDE DEF a
          <6>1. /\ a \o <<x[i]>> \in Seq(S) /\ Len(a \o <<x[i]>>) = Len(a) + Len(<<x[i]>>)
                /\ \A k \in 1 .. Len(a) + Len(<<x[i]>>) :
                     (a \o <<x[i]>>)[k] = IF k <= Len(a) THEN a[k] ELSE <<x[i]>>[k - Len(a)]
            BY <5>1, ConcatProperties DEF a
          <6>2. QED
            BY <5>1, <6>1 DEF a
        <5>3. \A k \in 1 .. i : (a \o <<x[i]>>)[k] = x[k]
          BY <5>2
        <5>4. DOMAIN (a \o <<x[i]>>) = 1 .. i
          BY <5>2
        <5>5. a \o <<x[i]>> = [k \in 1 .. i |-> (a \o <<x[i]>>)[k]]
          BY <5>2, <5>4
        <5>6. QED
          BY <5>3, <5>5
      <4>4. QED
        BY <3>2, <4>1, <4>2, <4>3
    <3>3. QED
      BY <3>1, <3>2
  <2>3. \E f : f = [i \in 1 .. Len(seqs) |-> Then(f, i)]
    <3>1. h = [i \in 1 .. Len(seqs) |-> h[i]]
      BY <1>1
    <3> HIDE DEF h, Then
    <3>2. h = [i \in 1 .. Len(seqs) |-> Then(h, i)]
      BY <1>1, <2>2, <3>1
    <3>3. QED
      BY <3>2
  <2>4. flatten = [i \in 1 .. Len(seqs) |-> Then(flatten, i)]
    <3> HIDE DEF Then
    <3>1. QED
      BY <2>3
  <2> HIDE DEF flatten, h
  <2>5. \A i \in 1 .. m : flatten[i] = Then(flatten, i)
    <3> HIDE DEF Then
    <3>1. QED
      BY <1>1, <2>4
  <2> DEFINE P == {n \in 0 .. m : n = 0 \/ flatten[n] = h[n]}
  <2>6. ASSUME NEW n \in 1 .. m, n - 1 \in P
        PROVE  n \in P
    <3>1. n # 1 => flatten[n - 1] = h[n - 1]
      BY <2>6
    <3>2. flatten[n] = h[n]
      BY <2>2, <2>5, <3>1
    <3>3. QED
      BY <3>2
  <2>7. 0 \in P
    OBVIOUS
  <2> HIDE DEF P
  <2>8. m \in P
    <3>1. \A n \in 1 .. m : n - 1 \in P => n \in P
      BY <2>6
    <3>2. \A n \in 0 .. m : n \in P
      BY ONLY <2>7, <3>1, m \in Nat, UpTo
    <3>3. QED
      BY <3>2
  <2>9. flatten[m] = h[m] /\ m \in 1 .. m
    BY <1>3, <2>8 DEF P
  <2>10. h[m] = x
    BY <2>9 DEF h
  <2>11. QED
    BY <2>1, <2>9, <2>10
<1>4. QED
  BY <1>2, <1>3

(* children() lists what CrateHierarchy has below a crate. *)
LEMMA ChildrenAreBelow ==
  ASSUME Bounded(hierarchy), NEW i
  PROVE  \E m \in Nat : /\ Children(i) \in [1 .. m -> BelowAll(i)]
                        /\ \A j \in BelowAll(i) : \E n \in 1 .. m : Children(i)[n] = j
<1> DEFINE X == {k \in DOMAIN hierarchy : hierarchy[k].crate = i}
           found == Ascending(X)
           m == Cardinality(X)
<1>1. X \in SUBSET Nat /\ IsFiniteSet(X)
  <2>1. PICK N \in Nat : DOMAIN hierarchy \subseteq 1 .. N
    BY DEF Bounded
  <2>2. X \in SUBSET (1 .. N) /\ IsFiniteSet(1 .. N)
    BY <2>1, FS_Interval
  <2> HIDE DEF X
  <2>3. IsFiniteSet(X)
    BY <2>2, FS_Subset
  <2>4. QED
    BY <2>1, <2>2, <2>3
<1>2. /\ Children(i) = [n \in DOMAIN found |-> hierarchy[found[n]].child]
      /\ BelowAll(i) = {hierarchy[k].child : k \in X}
  BY DEF Children, BelowAll
<1> HIDE DEF X
<1>3. /\ m \in Nat /\ found \in [1 .. m -> X]
      /\ \A k \in X : \E n \in DOMAIN found : found[n] = k
  BY <1>1, AscendingIsComplete
<1> HIDE DEF m, found
<1>4. Children(i) \in [1 .. m -> BelowAll(i)]
  BY <1>2, <1>3
<1>5. ASSUME NEW j \in BelowAll(i)
      PROVE  \E n \in 1 .. m : Children(i)[n] = j
  <2>1. PICK k \in X : hierarchy[k].child = j
    BY <1>2
  <2>2. PICK n \in 1 .. m : found[n] = k
    BY <1>3
  <2>3. Children(i)[n] = j
    BY <1>2, <1>3, <2>1, <2>2
  <2>4. QED
    BY <2>3
<1>6. QED
  BY <1>3, <1>4, <1>5

(* Sequences one after the other. *)
LEMMA FlattenType ==
  ASSUME NEW S, NEW m \in Nat, NEW seqs \in [1 .. m -> Seq(S)]
  PROVE  FlattenSeq(seqs) \in Seq(S)
<1> DEFINE Then(f, i) == IF i = 1 THEN seqs[i] ELSE f[i - 1] \o seqs[i]
           flatten == CHOOSE f : f = [i \in 1 .. Len(seqs) |-> Then(f, i)]
<1>1. Len(seqs) = m /\ \A n \in 1 .. m : seqs[n] \in Seq(S)
  OBVIOUS
<1>2. CASE m = 0
  <2>1. seqs = << >>
    BY <1>2
  <2>2. QED
    BY <1>1, <1>2, <2>1 DEF FlattenSeq
<1>3. CASE m # 0
  <2>1. FlattenSeq(seqs) = flatten[m]
    BY <1>1, <1>3 DEF FlattenSeq
  <2>2. PICK f \in [0 .. m -> Seq(S)] :
          f[0] = << >> /\ \A n \in 1 .. m : f[n] = f[n - 1] \o seqs[n]
    <3> DEFINE st == [x \in (1 .. m) \X Seq(S) |-> x[2] \o seqs[x[1]]]
    <3>1. ASSUME NEW n \in 1 .. m, NEW s \in Seq(S)
          PROVE  s \o seqs[n] \in Seq(S) /\ st[<<n, s>>] = s \o seqs[n]
      <4>1. seqs[n] \in Seq(S)
        BY <1>1
      <4>2. s \o seqs[n] \in Seq(S)
        BY <4>1, ConcatProperties
      <4>3. st[<<n, s>>] = s \o seqs[n]
        OBVIOUS
      <4>4. QED
        BY <4>2, <4>3
    <3>2. Leads(st, m, Seq(S))
      BY <3>1 DEF Leads
    <3> HIDE DEF st
    <3>3. << >> \in Seq(S)
      OBVIOUS
    <3>4. PICK f : Led(f, st, m, Seq(S), << >>)
      BY <3>2, <3>3, StepByStep
    <3>5. ASSUME NEW n \in 1 .. m
          PROVE  f[n] = f[n - 1] \o seqs[n]
      <4>1. n - 1 \in 0 .. m
        OBVIOUS
      <4>2. f[n - 1] \in Seq(S)
        BY <3>4, <4>1 DEF Led
      <4>3. QED
        BY <3>1, <3>4, <4>2 DEF Led
    <3>6. QED
      BY <3>4, <3>5 DEF Led
  <2> DEFINE h == [i \in 1 .. m |-> f[i]]
  <2>3. ASSUME NEW i \in 1 .. m
        PROVE  h[i] = Then(h, i)
    <3>1. CASE i = 1
      <4>1. h[i] = << >> \o seqs[1]
        <5>1. 1 \in 1 .. m /\ 1 - 1 = 0
          BY <3>1
        <5>2. f[1] = f[1 - 1] \o seqs[1] /\ f[0] = << >>
          BY <2>2, <5>1
        <5>3. h[i] = f[1]
          BY <3>1, <5>1
        <5>4. QED
          BY <5>1, <5>2, <5>3
      <4>2. << >> \o seqs[1] = seqs[1]
        BY <1>1, <3>1, ConcatEmptySeq
      <4>3. QED
        BY <3>1, <4>1, <4>2
    <3>2. CASE i # 1
      <4>1. i - 1 \in 1 .. m
        BY <3>2
      <4>2. QED
        BY <2>2, <3>2, <4>1
    <3>3. QED
      BY <3>1, <3>2
  <2>4. \E g : g = [i \in 1 .. Len(seqs) |-> Then(g, i)]
    <3>1. h = [i \in 1 .. Len(seqs) |-> h[i]]
      BY <1>1
    <3> HIDE DEF h, Then
    <3>2. h = [i \in 1 .. Len(seqs) |-> Then(h, i)]
      BY <1>1, <2>3, <3>1
    <3>3. QED
      BY <3>2
  <2>5. flatten = [i \in 1 .. Len(seqs) |-> Then(flatten, i)]
    <3> HIDE DEF Then
    <3>1. QED
      BY <2>4
  <2> HIDE DEF flatten, h
  <2>6. \A i \in 1 .. m : flatten[i] = Then(flatten, i)
    <3> HIDE DEF Then
    <3>1. QED
      BY <1>1, <2>5
  <2> DEFINE P == {n \in 0 .. m : n = 0 \/ flatten[n] \in Seq(S)}
  <2>7. ASSUME NEW n \in 1 .. m, n - 1 \in P
        PROVE  n \in P
    <3>1. CASE n = 1
      BY <1>1, <2>6, <3>1
    <3>2. CASE n # 1
      <4>1. flatten[n - 1] \in Seq(S) /\ seqs[n] \in Seq(S)
        BY <1>1, <2>7, <3>2
      <4>2. flatten[n - 1] \o seqs[n] \in Seq(S)
        BY <4>1
      <4>3. flatten[n] = flatten[n - 1] \o seqs[n]
        BY <2>6, <3>2
      <4>4. n \in 0 .. m
        OBVIOUS
      <4>5. QED
        BY <4>2, <4>3, <4>4
    <3>3. QED
      BY <3>1, <3>2
  <2>8. 0 \in P
    OBVIOUS
  <2> HIDE DEF P
  <2>9. \A n \in 1 .. m : n - 1 \in P => n \in P
    BY <2>7
  <2>10. \A n \in 0 .. m : n \in P
    BY ONLY <2>8, <2>9, m \in Nat, UpTo
  <2>11. QED
    BY <1>3, <2>1, <2>10 DEF P
<1>4. QED
  BY <1>2, <1>3

(* update_path of crate v[1], below a crate of path v[2], where prev does   *)
(* what follows.                                                           *)
Descent(prev, v) ==
  LET path == Append(v[2], lists[C(v[1])].title)
      kids == Children(v[1])
  IN  << <<v[1], path>> >> \o FlattenSeq([n \in DOMAIN kids |-> prev[<<kids[n], path>>]])

(* Visits goes down step by step. *)
LEMMA VisitsByStep ==
  ASSUME NEW j, NEW up
  PROVE  \E visits :
           /\ Visits(j, up) = visits[MaxId][<<j, up>>]
           /\ \A d \in 1 .. MaxId, v \in Ids \X Seq(Titles) :
                v[1] \in Crates => visits[d][v] = Descent(visits[d - 1], v)
<1> DEFINE Then(prev, d) == [v \in Ids \X Seq(Titles) |->
             IF d = 0 THEN << <<NoCrate, v[2]>> >>
             ELSE IF v[1] \notin Crates THEN << v >>
             ELSE Descent(prev, v)]
           visits == CHOOSE f : f = [d \in 0 .. MaxId |-> Then(f[d - 1], d)]
<1>1. Visits(j, up) = visits[MaxId][<<j, up>>]
  BY DEF Visits, Descent
<1>2. MaxId \in Nat
  BY Crates1Bounds
<1>3. \A p, q : Then(p, 0) = Then(q, 0)
  OBVIOUS
<1>4. \E f : f = [d \in 0 .. MaxId |-> Then(f[d - 1], d)]
  <2> HIDE DEF Then
  <2> DEFINE Upto(f, n) == f = [d \in 0 .. n |-> Then(f[d - 1], d)]
             P == {n \in 0 .. MaxId : \E f : Upto(f, n)}
  <2>1. 0 \in P
    <3> DEFINE f == [d \in 0 .. 0 |-> Then(0, 0)]
    <3>1. Upto(f, 0)
      BY <1>3
    <3> HIDE DEF f, Upto
    <3>2. QED
      BY <1>2, <3>1
  <2>2. ASSUME NEW n \in 1 .. MaxId, n - 1 \in P
        PROVE  n \in P
    <3>1. PICK f : Upto(f, n - 1)
      BY <2>2
    <3> DEFINE g == [d \in 0 .. n |-> IF d = n THEN Then(f[n - 1], n) ELSE f[d]]
    <3>2. ASSUME NEW d \in 0 .. n
          PROVE  g[d] = Then(g[d - 1], d)
      <4>1. CASE d = n
        <5>1. n - 1 \in 0 .. n /\ n - 1 # n
          BY <1>2
        <5>2. g[n - 1] = f[n - 1]
          BY <5>1
        <5>3. QED
          BY <4>1, <5>2
      <4>2. CASE d # n
        <5>1. d \in 0 .. n - 1
          BY <1>2, <4>2
        <5>2. g[d] = Then(f[d - 1], d)
          BY <3>1, <4>2, <5>1
        <5>3. CASE d = 0
          BY <1>3, <5>2, <5>3
        <5>4. CASE d # 0
          <6>1. d - 1 \in 0 .. n /\ d - 1 # n
            BY <1>2, <4>2, <5>1, <5>4
          <6>2. g[d - 1] = f[d - 1]
            BY <6>1
          <6>3. QED
            BY <5>2, <6>2
        <5>5. QED
          BY <5>3, <5>4
      <4>3. QED
        BY <4>1, <4>2
    <3>3. g = [d \in 0 .. n |-> g[d]]
      OBVIOUS
    <3> HIDE DEF g
    <3>4. Upto(g, n)
      BY <3>2, <3>3
    <3> HIDE DEF Upto
    <3>5. n \in 0 .. MaxId
      BY <1>2
    <3>6. QED
      BY <3>4, <3>5
  <2> HIDE DEF P
  <2>3. MaxId \in P
    <3>1. \A n \in 1 .. MaxId : n - 1 \in P => n \in P
      BY <2>2
    <3>2. MaxId \in Nat
      BY <1>2
    <3>3. \A n \in 0 .. MaxId : n \in P
      BY ONLY <2>1, <3>1, <3>2, UpTo
    <3>4. QED
      BY <3>2, <3>3
  <2>4. QED
    BY <2>3 DEF P
<1>5. visits = [d \in 0 .. MaxId |-> Then(visits[d - 1], d)]
  <2> HIDE DEF Then
  <2>1. QED
    BY <1>4
<1> HIDE DEF visits
<1>6. ASSUME NEW d \in 1 .. MaxId, NEW v \in Ids \X Seq(Titles), v[1] \in Crates
      PROVE  visits[d][v] = Descent(visits[d - 1], v)
  <2>1. d \in 0 .. MaxId /\ d # 0
    OBVIOUS
  <2>2. visits[d] = Then(visits[d - 1], d)
    <3> HIDE DEF Then
    <3>1. QED
      BY <1>5, <2>1
  <2>3. QED
    BY <1>6, <2>1, <2>2
<1>7. QED
  BY <1>1, <1>6

(* What is below k is below all that k is below. *)
LEMMA BelowGoesOn ==
  ASSUME NEW K, IsFiniteSet(K), NEW P, NEW H, SoundTree(P, H, K), NEW x \in K
  PROVE  \A k \in Abv(H, x) : Abv(H, k) \subseteq Abv(H, x)
<1> DEFINE size(y) == Cardinality(Abv(H, y))
           Good(y) == \A k \in Abv(H, y) : Abv(H, k) \subseteq Abv(H, y)
           N == Cardinality(K)
           Q == {n \in 0 .. N : \A y \in K : size(y) <= n => Good(y)}
<1>1. N \in Nat
  BY FS_CardinalityType
<1>2. ASSUME NEW y \in K
      PROVE  IsFiniteSet(Abv(H, y)) /\ size(y) \in 0 .. N
  <2>1. Abv(H, y) \in SUBSET K
    BY TreeIsOfCrates
  <2>2. IsFiniteSet(Abv(H, y)) /\ size(y) <= N
    BY <2>1, FS_Subset
  <2>3. size(y) \in Nat
    BY <2>2, FS_CardinalityType
  <2> HIDE DEF size, N
  <2>4. QED
    BY <1>1, <2>2, <2>3
<1>3. ASSUME NEW y \in K, NEW p \in Par(P, y)
      PROVE  p \in K /\ Abv(H, p) \subseteq Abv(H, y) /\ size(p) < size(y)
  <2>1. p \in K
    BY TreeIsOfCrates
  <2>2. p \in Abv(H, y) /\ p \notin Abv(H, p) /\ Abv(H, p) \in SUBSET Abv(H, y)
    BY <2>1 DEF SoundTree, Closed
  <2>3. IsFiniteSet(Abv(H, y)) /\ size(y) \in Nat /\ size(p) \in Nat
    BY <1>2, <2>1
  <2>4. size(p) <= size(y) /\ size(p) # size(y)
    BY <2>2, <2>3, FS_Subset
  <2> HIDE DEF size
  <2>5. QED
    BY <2>1, <2>2, <2>3, <2>4
<1>4. ASSUME NEW y \in K, \A p \in Par(P, y) : Good(p)
      PROVE  Good(y)
  <2>1. Abv(H, y) = Par(P, y) \cup UNION {Abv(H, p) : p \in Par(P, y)}
    BY DEF SoundTree, Closed
  <2>2. QED
    BY <1>4, <2>1
<1> HIDE DEF size, Good, N
<1>5. 0 \in Q
  <2>1. ASSUME NEW y \in K, size(y) <= 0
        PROVE  Good(y)
    <3>1. \A p \in Par(P, y) : FALSE
      BY <1>2, <1>3, <2>1
    <3>2. QED
      BY <1>4, <3>1
  <2>2. QED
    BY <1>1, <2>1
<1>6. ASSUME NEW n \in 1 .. N, n - 1 \in Q
      PROVE  n \in Q
  <2>1. ASSUME NEW y \in K, size(y) <= n
        PROVE  Good(y)
    <3>1. ASSUME NEW p \in Par(P, y)
          PROVE  Good(p)
      <4>1. p \in K /\ size(p) < size(y)
        BY <1>3
      <4>2. size(p) <= n - 1
        BY <1>2, <2>1, <4>1
      <4>3. QED
        BY <1>6, <4>1, <4>2
    <3>2. QED
      BY <1>4, <3>1
  <2>2. QED
    BY <2>1
<1> HIDE DEF Q
<1>7. N \in Q
  <2>1. \A n \in 1 .. N : n - 1 \in Q => n \in Q
    BY <1>6
  <2>2. \A n \in 0 .. N : n \in Q
    BY ONLY <1>1, <1>5, <2>1, UpTo
  <2>3. QED
    BY <1>1, <2>2
<1>8. Good(x)
  BY <1>1, <1>2, <1>7 DEF Q
<1>9. QED
  BY <1>8 DEF Good

(* Less is below a crate than below one above it. *)
LEMMA FewerBelow ==
  ASSUME SoundTree(parents, hierarchy, Crates), Crates \subseteq Ids, NEW j \in Crates
  PROVE  /\ Cardinality(BelowAll(j)) \in Nat /\ Cardinality(BelowAll(j)) < MaxId
         /\ BelowAll(j) \subseteq Crates
         /\ \A k \in BelowAll(j) : Cardinality(BelowAll(k)) < Cardinality(BelowAll(j))
<1>1. IsFiniteSet(Ids) /\ Cardinality(Ids) = MaxId /\ IsFiniteSet(Crates)
  <2>1. MaxId \in Nat /\ 1 \in Int
    BY Crates1Bounds
  <2>2. IsFiniteSet(1 .. MaxId) /\ Cardinality(1 .. MaxId) = MaxId
    BY <2>1, FS_Interval
  <2>3. QED
    BY <2>2, FS_Subset DEF Ids
<1>2. \A i, k : k \in BelowAll(i) <=> i \in Abv(hierarchy, k)
  BY DEF BelowAll, Abv
<1>3. \A i : BelowAll(i) \subseteq Crates
  BY DEF SoundTree, NoRowTwice, BelowAll
<1>4. \A i \in Crates : i \notin BelowAll(i)
  BY <1>2 DEF SoundTree, Closed
<1>5. \A i : IsFiniteSet(BelowAll(i)) /\ Cardinality(BelowAll(i)) \in Nat
  BY <1>1, <1>3, FS_Subset, FS_CardinalityType
<1>6. Cardinality(BelowAll(j)) < MaxId
  <2>1. BelowAll(j) \in SUBSET Ids /\ BelowAll(j) # Ids
    BY <1>3, <1>4
  <2>2. Cardinality(BelowAll(j)) <= MaxId /\ Cardinality(BelowAll(j)) # MaxId
    BY <1>1, <2>1, FS_Subset
  <2>3. QED
    BY <1>5, <2>2, Crates1Bounds
<1>7. ASSUME NEW k \in BelowAll(j)
      PROVE  Cardinality(BelowAll(k)) < Cardinality(BelowAll(j))
  <2>1. k \in Crates /\ k \notin BelowAll(k)
    BY <1>3, <1>4
  <2>2. ASSUME NEW x \in BelowAll(k)
        PROVE  x \in BelowAll(j)
    <3>1. x \in Crates /\ k \in Abv(hierarchy, x) /\ j \in Abv(hierarchy, k)
      BY <1>2, <1>3
    <3>2. Abv(hierarchy, k) \subseteq Abv(hierarchy, x)
      BY <1>1, <3>1, BelowGoesOn
    <3>3. QED
      BY <1>2, <3>1, <3>2
  <2>3. BelowAll(k) \in SUBSET BelowAll(j) /\ BelowAll(k) # BelowAll(j)
    BY <2>1, <2>2
  <2>4. /\ Cardinality(BelowAll(k)) <= Cardinality(BelowAll(j))
        /\ Cardinality(BelowAll(k)) # Cardinality(BelowAll(j))
    BY <1>5, <2>3, FS_Subset
  <2>5. QED
    BY <1>5, <2>4
<1>8. QED
  BY <1>3, <1>5, <1>6, <1>7

(* update_path visits crates that are there, and comes to an end. *)
LEMMA VisitsAreCrates ==
  ASSUME SoundTree(parents, hierarchy, Crates), Crates \subseteq Ids,
         \A j \in Crates : lists[C(j)].title \in Titles,
         NEW i \in Crates, NEW up \in Seq(Titles)
  PROVE  Visits(i, up) \in Seq(Crates \X Seq(Titles))
<1> DEFINE V == Crates \X Seq(Titles)
           size(j) == Cardinality(BelowAll(j))
<1>1. PICK visits : /\ Visits(i, up) = visits[MaxId][<<i, up>>]
                    /\ \A d \in 1 .. MaxId, v \in Ids \X Seq(Titles) :
                         v[1] \in Crates => visits[d][v] = Descent(visits[d - 1], v)
  BY VisitsByStep
<1>2. /\ \A j \in Crates : size(j) \in Nat /\ size(j) < MaxId
      /\ \A j \in Crates : \A k \in BelowAll(j) : k \in Crates /\ size(k) < size(j)
  BY FewerBelow
<1> DEFINE Good(d) == \A v \in V : size(v[1]) < d => visits[d][v] \in Seq(V)
           Q == {d \in 0 .. MaxId : Good(d)}
<1>3. 0 \in Q
  <2>1. \A v \in V : ~ (size(v[1]) < 0)
    <3> HIDE DEF size
    <3>1. QED
      BY <1>2
  <2>2. QED
    BY <2>1, Crates1Bounds
<1>4. ASSUME NEW d \in 1 .. MaxId, d - 1 \in Q
      PROVE  d \in Q
  <2>1. ASSUME NEW v \in V, size(v[1]) < d
        PROVE  visits[d][v] \in Seq(V)
    <3> DEFINE path == Append(v[2], lists[C(v[1])].title)
               kids == Children(v[1])
               rest == [n \in DOMAIN kids |-> visits[d - 1][<<kids[n], path>>]]
    <3>1. v[1] \in Crates /\ v[2] \in Seq(Titles) /\ v \in Ids \X Seq(Titles)
      OBVIOUS
    <3>2. path \in Seq(Titles)
      BY <3>1
    <3>3. visits[d][v] = << <<v[1], path>> >> \o FlattenSeq(rest)
      BY <1>1, <3>1 DEF Descent
    <3>4. PICK m \in Nat : kids \in [1 .. m -> BelowAll(v[1])]
      BY ChildrenAreBelow DEF SoundTree, NoRowTwice
    <3> HIDE DEF path, kids
    <3>5. ASSUME NEW n \in 1 .. m
          PROVE  visits[d - 1][<<kids[n], path>>] \in Seq(V)
      <4>1. kids[n] \in Crates /\ size(kids[n]) < size(v[1])
        BY <1>2, <3>1, <3>4
      <4>2. <<kids[n], path>> \in V /\ <<kids[n], path>>[1] = kids[n]
        BY <3>2, <4>1
      <4>3. size(kids[n]) < d - 1
        <5> HIDE DEF size
        <5>1. QED
          BY <1>2, <2>1, <3>1, <4>1
      <4>4. Good(d - 1)
        BY <1>4
      <4> HIDE DEF size, V
      <4>5. QED
        BY <4>2, <4>3, <4>4
    <3>6. rest \in [1 .. m -> Seq(V)]
      BY <3>4, <3>5
    <3> HIDE DEF rest
    <3>7. FlattenSeq(rest) \in Seq(V)
      BY <3>6, FlattenType
    <3>8. << <<v[1], path>> >> \in Seq(V)
      <4>1. <<v[1], path>> \in V
        BY <3>1, <3>2
      <4> HIDE DEF V
      <4>2. QED
        BY <4>1
    <3>9. << <<v[1], path>> >> \o FlattenSeq(rest) \in Seq(V)
      BY <3>7, <3>8, ConcatProperties
    <3>10. QED
      BY <3>3, <3>9
  <2>2. Good(d)
    BY <2>1
  <2> HIDE DEF Good
  <2>3. QED
    BY <2>2
<1> HIDE DEF Q
<1>5. MaxId \in Q
  <2>1. \A d \in 1 .. MaxId : d - 1 \in Q => d \in Q
    BY <1>4
  <2>2. MaxId \in Nat
    BY Crates1Bounds
  <2>3. \A d \in 0 .. MaxId : d \in Q
    BY ONLY <1>3, <2>1, <2>2, UpTo
  <2>4. QED
    BY <2>2, <2>3
<1>6. <<i, up>> \in V /\ <<i, up>>[1] = i
  OBVIOUS
<1>7. visits[MaxId][<<i, up>>] \in Seq(V)
  <2>1. Good(MaxId)
    BY <1>5 DEF Q
  <2> HIDE DEF size, V
  <2>2. QED
    BY <1>2, <1>6, <2>1
<1>8. QED
  BY <1>1, <1>7

(* update_path of a crate with nothing below it visits that crate.         *)
LEMMA LeafIsVisited ==
  ASSUME Bounded(hierarchy), NEW j \in Crates, j \in Ids, BelowAll(j) = {},
         NEW up \in Seq(Titles)
  PROVE  Visits(j, up) = << <<j, Append(up, lists[C(j)].title)>> >>
<1>1. PICK visits : /\ Visits(j, up) = visits[MaxId][<<j, up>>]
                    /\ \A d \in 1 .. MaxId, v \in Ids \X Seq(Titles) :
                         v[1] \in Crates => visits[d][v] = Descent(visits[d - 1], v)
  BY VisitsByStep
<1>2. MaxId \in 1 .. MaxId /\ <<j, up>> \in Ids \X Seq(Titles)
  BY Crates1Bounds DEF Ids
<1>3. Visits(j, up) = Descent(visits[MaxId - 1], <<j, up>>)
  BY <1>1, <1>2
<1>4. Children(j) = << >>
  <2>1. PICK m \in Nat : Children(j) \in [1 .. m -> BelowAll(j)]
    BY ChildrenAreBelow
  <2>2. m = 0
    BY <2>1
  <2>3. QED
    BY <2>1, <2>2
<1>5. ASSUME NEW prev, NEW path
      PROVE  FlattenSeq([n \in DOMAIN Children(j) |-> prev[<<Children(j)[n], path>>]]) = << >>
  <2>1. [n \in DOMAIN Children(j) |-> prev[<<Children(j)[n], path>>]] = << >>
    BY <1>4
  <2>2. QED
    BY <2>1 DEF FlattenSeq
<1>6. ASSUME NEW prev
      PROVE  Descent(prev, <<j, up>>) = << <<j, Append(up, lists[C(j)].title)>> >>
  <2> DEFINE one == << <<j, Append(up, lists[C(j)].title)>> >>
  <2>1. Descent(prev, <<j, up>>) = one \o << >>
    BY <1>5 DEF Descent
  <2>2. one \in Seq({<<j, Append(up, lists[C(j)].title)>>})
    OBVIOUS
  <2>3. QED
    BY <2>1, <2>2, ConcatEmptySeq
<1>7. QED
  BY <1>3, <1>6

Named(L) == DOMAIN L \subseteq Keys /\ L \in [DOMAIN L -> List]

(* No list of the other type has the id and the title of crate i.          *)
Single(L, i) ==
  views => \A x \in DOMAIN L : x[2] = i /\ L[x].title = L[C(i)].title => x = C(i)

(* UPDATE Crate, of a crate that is there: its row, and in the view that of*)
(* a list with the same id, title and path.                                *)
LEMMA UpdatedShape ==
  ASSUME NEW L, Named(L), NEW i, C(i) \in DOMAIN L,
         NEW title \in Titles, NEW path \in Seq(Titles)
  PROVE  LET T == CrateUpdated(L, i, title, path)
         IN  /\ Named(T) /\ DOMAIN T = DOMAIN L
             /\ T[C(i)] = [title |-> title, path |-> path]
             /\ \A j : j # i /\ C(j) \in DOMAIN L => T[C(j)] = L[C(j)]
             /\ title = L[C(i)].title => \A x \in DOMAIN L : T[x].title = L[x].title
             /\ Single(L, i) => \A x \in DOMAIN L \ {C(i)} : T[x] = L[x]
<1> DEFINE hit == IF views THEN {x \in DOMAIN L : x[2] = i /\ L[x] = L[C(i)]} ELSE {C(i)}
           row == [title |-> title, path |-> path]
           T == CrateUpdated(L, i, title, path)
<1>1. T = [x \in DOMAIN L |-> IF x \in hit THEN row ELSE L[x]]
  BY DEF CrateUpdated
<1>2. C(i) \in hit /\ \A x \in hit : (x = C(i) \/ x[2] = i) /\ L[x] = L[C(i)]
  BY DEF C
<1>3. \A j : C(j)[2] = j /\ (C(j) = C(i) => j = i)
  BY DEF C
<1>4. \A x \in hit : views \/ x = C(i)
  OBVIOUS
<1>5. row \in List /\ row.title = title
  BY DEF List
<1> HIDE DEF hit, row, T
<1>6. DOMAIN T = DOMAIN L /\ \A x \in DOMAIN L : T[x] = IF x \in hit THEN row ELSE L[x]
  BY <1>1
<1>7. Named(T)
  <2>1. \A x \in DOMAIN L : T[x] \in List
    BY <1>5, <1>6 DEF Named
  <2>2. T \in [DOMAIN L -> List]
    BY <1>1, <2>1, <1>6
  <2>3. QED
    BY <1>6, <2>2 DEF Named
<1>8. T[C(i)] = row
  BY <1>2, <1>6
<1>9. ASSUME NEW j, j # i, C(j) \in DOMAIN L
      PROVE  T[C(j)] = L[C(j)]
  <2>1. C(j) \notin hit
    BY <1>2, <1>3, <1>9
  <2>2. QED
    BY <1>6, <1>9, <2>1
<1>10. ASSUME title = L[C(i)].title, NEW x \in DOMAIN L
       PROVE  T[x].title = L[x].title
  <2>1. CASE x \in hit
    BY <1>2, <1>5, <1>6, <1>10, <2>1
  <2>2. CASE x \notin hit
    BY <1>6, <2>2
  <2>3. QED
    BY <2>1, <2>2
<1>11. ASSUME Single(L, i), NEW x \in DOMAIN L \ {C(i)}
       PROVE  T[x] = L[x]
  <2>1. x \notin hit
    BY <1>2, <1>4, <1>11 DEF Single
  <2>2. QED
    BY <1>6, <2>1
<1>12. QED
  BY <1>6, <1>7, <1>8, <1>9, <1>10, <1>11 DEF T, row

(* The m crates of visit have a row in L. *)
Visited(L, m, visit) ==
  /\ visit \in [1 .. m -> Ids \X Seq(Titles)]
  /\ \A n \in 1 .. m : C(visit[n][1]) \in DOMAIN L

(* No crate is visited with one path and again with another.               *)
OnePathEach(m, visit) == \A k, n \in 1 .. m : visit[k][1] = visit[n][1] => visit[k] = visit[n]

(* The UPDATEs of update_path give each crate that is visited its path, and*)
(* change no title and no other crate.                                     *)
LEMMA RepathedShape ==
  ASSUME NEW L, Named(L), NEW m \in Nat, NEW visit, Visited(L, m, visit)
  PROVE  LET T == Repathed(L, visit)
         IN  /\ Named(T) /\ DOMAIN T = DOMAIN L
             /\ \A x \in DOMAIN L : T[x].title = L[x].title
             /\ OnePathEach(m, visit) => \A n \in 1 .. m : T[C(visit[n][1])].path = visit[n][2]
             /\ \A j : C(j) \in DOMAIN L /\ (\A n \in 1 .. m : visit[n][1] # j)
                         => T[C(j)] = L[C(j)]
<1> DEFINE S == [DOMAIN L -> List]
           Fire(n, now) == CrateUpdated(now, visit[n][1], now[C(visit[n][1])].title, visit[n][2])
           Then(f, n) == IF n = 0 THEN L ELSE Fire(n, f[n - 1])
           repathed == CHOOSE f : f = [n \in 0 .. Len(visit) |-> Then(f, n)]
<1>1. Len(visit) = m /\ Repathed(L, visit) = repathed[m]
  <2>1. Len(visit) = m
    BY DEF Visited
  <2>2. QED
    BY <2>1 DEF Repathed
<1>2. \A n \in 1 .. m : /\ visit[n][1] \in Ids /\ visit[n][2] \in Seq(Titles)
                         /\ C(visit[n][1]) \in DOMAIN L
  BY DEF Visited
<1>3. L \in S /\ DOMAIN L \subseteq Keys
  BY DEF Named
<1>4. ASSUME NEW now \in S
      PROVE  Named(now) /\ DOMAIN now = DOMAIN L /\ \A x \in DOMAIN L : now[x].title \in Titles
  <2>1. DOMAIN now = DOMAIN L /\ \A x \in DOMAIN L : now[x] \in List
    OBVIOUS
  <2>2. QED
    BY <1>3, <2>1 DEF Named, List
<1>5. ASSUME NEW n \in 1 .. m, NEW now \in S
      PROVE  /\ Fire(n, now) \in S
             /\ \A x \in DOMAIN L : Fire(n, now)[x].title = now[x].title
             /\ Fire(n, now)[C(visit[n][1])].path = visit[n][2]
             /\ \A j : j # visit[n][1] /\ C(j) \in DOMAIN L => Fire(n, now)[C(j)] = now[C(j)]
  <2>1. PICK i : i = visit[n][1]
    OBVIOUS
  <2>2. PICK path \in Seq(Titles) : path = visit[n][2]
    BY <1>2
  <2>3. C(i) \in DOMAIN now /\ now[C(i)].title \in Titles /\ Named(now) /\ DOMAIN now = DOMAIN L
    BY <1>2, <1>4, <2>1
  <2>4. PICK T : T = CrateUpdated(now, i, now[C(i)].title, path)
    OBVIOUS
  <2>5. /\ Named(T) /\ DOMAIN T = DOMAIN now
        /\ T[C(i)] = [title |-> now[C(i)].title, path |-> path]
        /\ \A j : j # i /\ C(j) \in DOMAIN now => T[C(j)] = now[C(j)]
        /\ \A x \in DOMAIN now : T[x].title = now[x].title
    BY <2>3, <2>4, UpdatedShape
  <2>6. T \in S /\ T[C(i)].path = path
    BY <2>3, <2>5 DEF Named
  <2>7. Fire(n, now) = T
    BY <2>1, <2>2, <2>4
  <2> HIDE DEF Fire, S
  <2>8. QED
    BY <2>1, <2>2, <2>3, <2>5, <2>6, <2>7
<1>6. PICK f \in [0 .. m -> S] : f[0] = L /\ \A n \in 1 .. m : f[n] = Fire(n, f[n - 1])
  <2> DEFINE st == [x \in (1 .. m) \X S |-> Fire(x[1], x[2])]
  <2> HIDE DEF Fire, S
  <2>1. Leads(st, m, S)
    <3>1. \A x \in (1 .. m) \X S : Fire(x[1], x[2]) \in S
      BY <1>5
    <3>2. QED
      BY <3>1 DEF Leads
  <2>2. \A n \in 1 .. m, now \in S : st[<<n, now>>] = Fire(n, now)
    OBVIOUS
  <2> HIDE DEF st
  <2>3. PICK f : Led(f, st, m, S, L)
    BY <1>3, <2>1, StepByStep
  <2>4. ASSUME NEW n \in 1 .. m
        PROVE  f[n] = Fire(n, f[n - 1])
    <3>1. n - 1 \in 0 .. m
      OBVIOUS
    <3>2. f[n - 1] \in S
      BY <2>3, <3>1 DEF Led
    <3>3. QED
      BY <2>2, <2>3, <3>2 DEF Led
  <2>5. QED
    BY <2>3, <2>4 DEF Led
<1>7. repathed = [n \in 0 .. m |-> Then(repathed, n)]
  <2>1. ASSUME NEW n \in 0 .. m
        PROVE  f[n] = Then(f, n)
    <3> HIDE DEF Fire
    <3>1. QED
      BY <1>6
  <2>2. f = [n \in 0 .. m |-> f[n]]
    BY <1>6
  <2> HIDE DEF Then
  <2>3. f = [n \in 0 .. m |-> Then(f, n)]
    BY <2>1, <2>2
  <2>4. \E g : g = [n \in 0 .. Len(visit) |-> Then(g, n)]
    BY <1>1, <2>3
  <2>5. QED
    BY <1>1, <2>4
<1> HIDE DEF repathed
<1>8. repathed[0] = L /\ \A n \in 1 .. m : repathed[n] = Fire(n, repathed[n - 1])
  <2> HIDE DEF Fire
  <2>1. \A n \in 0 .. m : repathed[n] = Then(repathed, n)
    <3> HIDE DEF Then
    <3>1. QED
      BY <1>7
  <2>2. QED
    BY <2>1
<1> DEFINE Good(n) ==
             /\ repathed[n] \in S
             /\ \A x \in DOMAIN L : repathed[n][x].title = L[x].title
             /\ OnePathEach(m, visit) =>
                  \A k \in 1 .. n : repathed[n][C(visit[k][1])].path = visit[k][2]
             /\ \A j : C(j) \in DOMAIN L /\ (\A k \in 1 .. n : visit[k][1] # j)
                         => repathed[n][C(j)] = L[C(j)]
           P == {n \in 0 .. m : Good(n)}
<1> HIDE DEF S, Fire
<1>9. Good(0)
  BY <1>3, <1>8
<1>10. ASSUME NEW n \in 1 .. m, Good(n - 1)
       PROVE  Good(n)
  <2>1. PICK now \in S : now = repathed[n - 1]
    BY <1>10
  <2>2. /\ repathed[n] \in S
        /\ \A x \in DOMAIN L : repathed[n][x].title = now[x].title
        /\ repathed[n][C(visit[n][1])].path = visit[n][2]
        /\ \A j : j # visit[n][1] /\ C(j) \in DOMAIN L => repathed[n][C(j)] = now[C(j)]
    BY <1>5, <1>8, <2>1
  <2>3. ASSUME OnePathEach(m, visit), NEW k \in 1 .. n
        PROVE  repathed[n][C(visit[k][1])].path = visit[k][2]
    <3>1. CASE visit[k][1] = visit[n][1]
      <4>1. k \in 1 .. m
        OBVIOUS
      <4>2. visit[k][2] = visit[n][2]
        <5>1. visit[k] = visit[n]
          BY <2>3, <3>1, <4>1 DEF OnePathEach
        <5>2. QED
          BY <5>1
      <4>3. QED
        BY <2>2, <3>1, <4>2
    <3>2. CASE visit[k][1] # visit[n][1]
      <4>1. k \in 1 .. n - 1 /\ k \in 1 .. m
        BY <3>2
      <4>2. now[C(visit[k][1])].path = visit[k][2]
        BY <1>10, <2>1, <2>3, <4>1
      <4>3. repathed[n][C(visit[k][1])] = now[C(visit[k][1])]
        BY <1>2, <2>2, <3>2, <4>1
      <4>4. QED
        BY <4>2, <4>3
    <3>3. QED
      BY <3>1, <3>2
  <2>4. ASSUME NEW j, C(j) \in DOMAIN L, \A k \in 1 .. n : visit[k][1] # j
        PROVE  repathed[n][C(j)] = L[C(j)]
    <3>1. j # visit[n][1] /\ \A k \in 1 .. n - 1 : visit[k][1] # j
      BY <2>4
    <3>2. QED
      BY <1>10, <2>1, <2>2, <2>4, <3>1
  <2>5. \A x \in DOMAIN L : repathed[n][x].title = L[x].title
    BY <1>10, <2>1, <2>2
  <2>6. QED
    BY <2>2, <2>3, <2>4, <2>5
<1>11. Good(m)
  <2> HIDE DEF Good
  <2>1. 0 \in P /\ \A n \in 1 .. m : n - 1 \in P => n \in P
    BY <1>9, <1>10
  <2> HIDE DEF P
  <2>2. \A n \in 0 .. m : n \in P
    BY ONLY <2>1, m \in Nat, UpTo
  <2>3. QED
    BY <2>2 DEF P
<1>12. Named(repathed[m]) /\ DOMAIN repathed[m] = DOMAIN L
  BY <1>4, <1>11
<1>13. QED
  BY <1>1, <1>11, <1>12

-----------------------------------------------------------------------------
(* Columns and what is shown of them. *)

(* The path in L of crate j, whose parent P tells, is right. *)
RightIn(L, P, j) ==
  L[C(j)].path =
    Append(IF Par(P, j) = {} THEN << >>
           ELSE L[C(CHOOSE p \in Par(P, j) : TRUE)].path, L[C(j)].title)

(* The traps that a caller may walk into: the paths of crates that moved   *)
(* are not promised to be right, nor are those below a renamed crate; and  *)
(* no crate is moved below itself that has nothing below it.               *)
Diligent == Traps \subseteq {"stale_path", "cycle", "deep_rename"}

(* Nobody renames a crate that has grandchildren. *)
Shallow == "deep_rename" \notin Traps

(* The invariant behind paths and promises: with the tree, that columns    *)
(* hold legal values, that no row of CrateTrackList waits for a crate to   *)
(* come, and that paths are right where nothing was moved, if no call gives*)
(* grandchildren the path of children.                                     *)
DInv ==
  /\ IInv
  /\ Named(lists)
  /\ held \subseteq Crates \X Tracks
  /\ Shallow => \A j \in Crates \ moved : RightIn(lists, parents, j)

(* What a call promises if it succeeds, and what if it fails. *)
Kept ==
  CASE outcome' = "ok" -> Promised(call')
    [] outcome' = "crate_invalid_parent" -> call'[2] = call'[3] /\ UNCHANGED data
    [] OTHER -> call'[Len(call')] = BadTitle /\ UNCHANGED data

LEMMA CrateHasRow ==
  ASSUME NEW L, Named(L), NEW j
  PROVE  /\ j \in IdsOf(L, "crate") <=> C(j) \in DOMAIN L
         /\ j \in IdsOf(L, "crate") => j \in Ids
<1>1. ASSUME C(j) \in DOMAIN L
      PROVE  j \in IdsOf(L, "crate")
  <2>1. C(j)[1] = "crate" /\ C(j)[2] = j
    BY DEF C
  <2>2. QED
    BY <1>1, <2>1 DEF IdsOf
<1>2. ASSUME j \in IdsOf(L, "crate")
      PROVE  C(j) \in DOMAIN L /\ j \in Ids
  <2>1. PICK x \in DOMAIN L : x[1] = "crate" /\ x[2] = j
    BY <1>2 DEF IdsOf
  <2>2. x \in Keys
    BY DEF Named
  <2>3. x = C(j) /\ j \in Ids
    BY <2>1, <2>2 DEF Keys, C
  <2>4. QED
    BY <2>3
<1>3. QED
  BY <1>1, <1>2

LEMMA ParentIsPar == \A i : ParentOf(i) = Par(parents, i)
  BY DEF ParentOf, ParentRows, Par

LEMMA DInvIsEnough ==
  ASSUME Shallow, DInv
  PROVE  ColumnsAreSound
<1>1. Crates \subseteq Ids
  BY CrateHasRow DEF DInv, Crates
<1>2. /\ \A k \in DOMAIN parents : parents[k] \in [origin : Crates, parent : Crates]
      /\ \A k \in DOMAIN hierarchy : hierarchy[k] \in [crate : Crates, child : Crates]
  BY DEF DInv, IInv, SoundTree, OneRowEach, NoRowTwice
<1>3. TypeOK
  <2>1. /\ \A k \in DOMAIN parents : parents[k] \in [origin : Ids, parent : Ids]
        /\ \A k \in DOMAIN hierarchy : hierarchy[k] \in [crate : Ids, child : Ids]
    BY <1>1, <1>2
  <2>2. held \subseteq Ids \X Tracks
    BY <1>1 DEF DInv
  <2>3. QED
    BY <2>1, <2>2 DEF TypeOK, DInv, Named
<1>4. OnlyMovesMakePathsWrong
  <2>1. \A j : PathIsRight(j) <=> RightIn(lists, parents, j)
    BY ParentIsPar DEF PathIsRight, RightIn
  <2>2. QED
    BY <2>1 DEF OnlyMovesMakePathsWrong, DInv
<1>5. QED
  BY <1>3, <1>4 DEF ColumnsAreSound

(* What a call has to leave for the invariant to go on. *)
LEMMA DGoes ==
  ASSUME IInv', Named(lists'), NEW K, K = Crates', held' \subseteq K \X Tracks,
         Shallow => \A j \in K \ moved' : RightIn(lists', parents', j)
  PROVE  DInv'
  BY DEF DInv, Shallow, Named, RightIn, Par, C

(* The path of a crate stays right where nothing on which it depends is    *)
(* changed.                                                                *)
LEMMA PathStays ==
  ASSUME NEW L, NEW P, NEW L2, NEW P2, NEW j, RightIn(L, P, j),
         L2[C(j)] = L[C(j)], Par(P2, j) = Par(P, j),
         \A p \in Par(P, j) : L2[C(p)].path = L[C(p)].path
  PROVE  RightIn(L2, P2, j)
  BY DEF RightIn

(* A call that fails for its last argument. *)
LEMMA DStays ==
  ASSUME DInv, UNCHANGED <<data, moved>>
  PROVE  DInv'
<1>1. UNCHANGED <<lists, parents, hierarchy, held, moved>>
  BY DEF data
<1>2. IInv'
  BY <1>1, TreeStays DEF DInv
<1>3. Crates' = Crates /\ Named(lists') /\ held' \subseteq Crates \X Tracks
  BY <1>1 DEF DInv, Crates
<1>4. Shallow => \A j \in Crates \ moved' : RightIn(lists', parents', j)
  BY <1>1 DEF DInv
<1>5. QED
  BY <1>2, <1>3, <1>4, DGoes

LEMMA Refused ==
  ASSUME DInv, NEW what, Fail(what), what \notin {"ok", "crate_invalid_parent"},
         call'[Len(call')] = BadTitle
  PROVE  DInv' /\ Kept
<1>1. outcome' = what /\ UNCHANGED data /\ UNCHANGED moved
  BY DEF Fail
<1>2. DInv'
  BY <1>1, DStays
<1>3. Kept
  BY <1>1 DEF Kept
<1>4. QED
  BY <1>2, <1>3

NamesIn(L)      == [x \in DOMAIN L |-> L[x].title]
TreeIn(P, K)    == [i \in K |-> Par(P, i)]
TracksIn(h, i)  == {x[2] : x \in {x \in h : x[1] = i}}
ContentIn(h, K) == [i \in K |-> TracksIn(h, i)]

LEMMA Shown ==
  /\ Names = NamesIn(lists) /\ Names' = NamesIn(lists')
  /\ Tree = TreeIn(parents, Crates) /\ Tree' = TreeIn(parents', Crates')
  /\ Content = ContentIn(held, Crates) /\ Content' = ContentIn(held', Crates')
<1>1. Names = NamesIn(lists) /\ Names' = NamesIn(lists')
  BY DEF Names, NamesIn
<1>2. Tree = TreeIn(parents, Crates) /\ Tree' = TreeIn(parents', Crates')
  BY DEF Tree, TreeIn, ParentOf, ParentRows, Par
<1>3. Content = ContentIn(held, Crates) /\ Content' = ContentIn(held', Crates')
  BY DEF Content, ContentIn, TracksIn
<1>4. QED
  BY <1>1, <1>2, <1>3

-----------------------------------------------------------------------------
(* Calls on crates: columns and promises. *)

LEMMA CreateKept ==
  ASSUME DInv, IInv', NEW p \in Crates \cup {NoCrate}, NEW n \in Titles \cup {BadTitle},
         Highest(Crates) < MaxId, Create(p, n), call' = <<"create", p, n>>
  PROVE  DInv' /\ Kept
<1>1. CASE n = BadTitle
  <2>1. Fail("crate_invalid_name")
    BY <1>1 DEF Create
  <2>2. call'[Len(call')] = BadTitle
    BY <1>1
  <2>3. QED
    BY <2>1, <2>2, Refused
<1>2. CASE n # BadTitle
  <2> DEFINE id  == Highest(Crates) + 1
             up  == IF p = NoCrate THEN << >> ELSE lists[C(p)].path
             row == [title |-> n, path |-> Append(up, n)]
  <2>1. /\ lists' = With(lists, C(id), row)
        /\ parents' = InsertedLast(parents, ParentRow(id, p))
        /\ outcome' = "ok" /\ UNCHANGED <<held, moved>>
    BY <1>2 DEF Create, ParentRow
  <2>2. Named(lists) /\ Crates \in SUBSET Ids /\ \A j : j \in Crates <=> C(j) \in DOMAIN lists
    BY CrateHasRow DEF DInv, Crates
  <2>3. id \in Ids /\ id \notin Crates
    <3>1. Crates \in SUBSET (0 .. MaxId)
      BY <2>2 DEF Ids
    <3>2. Highest(Crates) \in 0 .. MaxId /\ \A i \in Crates : i <= Highest(Crates)
      BY <3>1, BoundIsNatural, HighestIsHighest
    <3>3. QED
      BY <3>2, BoundIsNatural DEF Ids
  <2> HIDE DEF id
  <2>4. up \in Seq(Titles)
    <3>1. CASE p = NoCrate
      BY <3>1
    <3>2. CASE p # NoCrate
      BY <2>2, <3>2 DEF Named, List
    <3>3. QED
      BY <3>1, <3>2
  <2>5. row \in List /\ row.title = n /\ row.path = Append(up, n)
    <3> HIDE DEF up
    <3>1. Append(up, n) \in Seq(Titles)
      BY <1>2, <2>4
    <3>2. QED
      BY <1>2, <3>1 DEF List
  <2> HIDE DEF row
  <2>6. C(id) \in Keys /\ C(id) \notin DOMAIN lists
    BY <2>2, <2>3 DEF Keys, C
  <2>7. /\ DOMAIN lists' = DOMAIN lists \cup {C(id)} /\ lists'[C(id)] = row
        /\ \A x \in DOMAIN lists : lists'[x] = lists[x]
        /\ Named(lists')
    <3>1. /\ DOMAIN lists' = DOMAIN lists \cup {C(id)} /\ lists'[C(id)] = row
          /\ \A x \in DOMAIN lists : lists'[x] = lists[x]
      BY <2>1, <2>6 DEF With
    <3>2. \A x \in DOMAIN lists' : lists'[x] \in List
      BY <2>2, <2>5, <3>1 DEF Named
    <3>3. lists' \in [DOMAIN lists' -> List]
      BY <2>1, <3>2 DEF With
    <3>4. QED
      BY <2>2, <2>6, <3>1, <3>3 DEF Named
  <2>8. Crates' = Crates \cup {id}
    <3>1. \A j : C(j) = C(id) <=> j = id
      BY DEF C
    <3>2. \A j : j \in Crates' <=> C(j) \in DOMAIN lists'
      BY <2>7, CrateHasRow DEF Crates
    <3>3. QED
      BY <2>2, <2>7, <3>1, <3>2
  <2>9. (\A j \in Crates : Par(parents', j) = Par(parents, j)) /\ Par(parents', id) = {p} \ {NoCrate}
    <3> DEFINE q == IF p = NoCrate THEN id ELSE p
    <3>1. ParentRow(id, p) = [origin |-> id, parent |-> q] /\ {q} \ {id} = {p} \ {NoCrate}
          /\ q \in Crates \cup {id}
      BY <2>2, <2>3 DEF ParentRow, NoCrate, Ids
    <3>2. OneRowEach(parents, Crates, Crates \cup {id})
      BY DEF DInv, IInv, SoundTree, OneRowEach
    <3> HIDE DEF q
    <3>3. /\ \A j \in Crates : Par(InsertedLast(parents, [origin |-> id, parent |-> q]), j) = Par(parents, j)
          /\ Par(InsertedLast(parents, [origin |-> id, parent |-> q]), id) = {q} \ {id}
      BY <2>3, <3>1, <3>2, ParentInserted
    <3>4. QED
      BY <2>1, <3>1, <3>3
  <2>10. \A j \in Crates : Par(parents, j) \subseteq Crates
    BY TreeIsOfCrates DEF DInv, IInv
  <2>11. RightIn(lists', parents', id)
    <3>1. CASE p = NoCrate
      BY <2>5, <2>7, <2>9, <3>1 DEF RightIn
    <3>2. CASE p # NoCrate
      <4>1. Par(parents', id) = {p} /\ (CHOOSE x \in {p} : TRUE) = p
        BY <2>9, <3>2
      <4>2. lists'[C(p)].path = up
        BY <2>2, <2>7, <3>2
      <4>3. QED
        BY <2>5, <2>7, <4>1, <4>2 DEF RightIn
    <3>3. QED
      BY <3>1, <3>2
  <2>12. ASSUME Shallow, NEW j \in Crates \ moved
         PROVE  RightIn(lists', parents', j)
    <3>1. lists'[C(j)] = lists[C(j)] /\ \A x \in Par(parents, j) : lists'[C(x)].path = lists[C(x)].path
      BY <2>2, <2>7, <2>10
    <3>2. RightIn(lists, parents, j)
      BY <2>12 DEF DInv
    <3>3. QED
      BY <2>9, <3>1, <3>2, PathStays
  <2>13. DInv'
    <3>1. held' \subseteq (Crates \cup {id}) \X Tracks
      BY <2>1 DEF DInv
    <3>2. QED
      BY <2>1, <2>7, <2>8, <2>11, <2>12, <3>1, DGoes
  <2>14. Names' = With(Names, C(id), n)
    <3>1. NamesIn(lists') = With(NamesIn(lists), C(id), n)
      BY <2>5, <2>6, <2>7 DEF NamesIn, With
    <3>2. QED
      BY <3>1, Shown
  <2>15. Tree' = With(Tree, id, {p} \ {NoCrate})
    <3>1. TreeIn(parents', Crates \cup {id}) = With(TreeIn(parents, Crates), id, {p} \ {NoCrate})
      BY <2>3, <2>9 DEF TreeIn, With
    <3>2. QED
      BY <2>8, <3>1, Shown
  <2>16. Content' = With(Content, id, {})
    <3>1. {x \in held : x[1] = id} = {}
      BY <2>3 DEF DInv
    <3>2. ContentIn(held, Crates \cup {id}) = With(ContentIn(held, Crates), id, {})
      BY <2>3, <3>1 DEF ContentIn, TracksIn, With
    <3>3. QED
      BY <2>1, <2>8, <3>2, Shown
  <2>17. Promised(call')
    <3>1. call'[1] = "create" /\ call'[2] = p /\ call'[3] = n
      OBVIOUS
    <3>2. id \in Crates' \ Crates
      BY <2>3, <2>8
    <3>3. QED
      BY <2>14, <2>15, <2>16, <3>1, <3>2 DEF Promised
  <2>18. QED
    BY <2>1, <2>13, <2>17 DEF Kept
<1>3. QED
  BY <1>1, <1>2

(* set_name, of a crate without a playlist of its id and name, and what it *)
(* does to paths if the crate has no grandchildren.                        *)
LEMMA SetNameDoes ==
  ASSUME DInv, NEW i \in Crates, NEW n \in Titles, BadTitle \notin Titles,
         ~ Twin("crate", i), SetName(i, n)
  PROVE  /\ outcome' = "ok" /\ UNCHANGED <<parents, hierarchy, held>>
         /\ Named(lists') /\ DOMAIN lists' = DOMAIN lists
         /\ lists'[C(i)].title = n
         /\ \A x \in DOMAIN lists \ {C(i)} : lists'[x].title = lists[x].title
         /\ ~ DeepRename(i) =>
              /\ moved' = moved \ ({i} \cup BelowAll(i))
              /\ RightIn(lists', parents, i)
              /\ \A j \in BelowAll(i) :
                   lists'[C(j)].path = Append(lists'[C(i)].path, lists[C(j)].title)
              /\ \A j \in Crates \ ({i} \cup BelowAll(i)) : lists'[C(j)] = lists[C(j)]
<1> DEFINE above == {k \in ParentRows(i) : parents[k].parent \in Crates \ {i}}
           up    == IF above = {} THEN << >>
                    ELSE lists[C(parents[CHOOSE k \in above : TRUE].parent)].path
           path  == Append(up, n)
           kids  == Children(i)
           visit == FlattenSeq([k \in DOMAIN kids |-> Visits(kids[k], path)])
           wrong == {k \in DOMAIN visit : visit[k][1] \notin Crates}
           all   == {v[1] : v \in ToSet(visit)}
<1>1. Cardinality(above) \in {0, 1} /\ wrong = {} =>
        /\ lists' = AsUpdated(lists, Repathed(CrateUpdated(lists, i, n, path), visit))
        /\ outcome' = "ok"
        /\ moved' = moved \ ({i} \cup all)
        /\ UNCHANGED <<parents, hierarchy, held>>
  <2> SUFFICES ASSUME Cardinality(above) \in {0, 1}, wrong = {}
               PROVE  /\ lists' = AsUpdated(lists, Repathed(CrateUpdated(lists, i, n, path), visit))
                      /\ outcome' = "ok"
                      /\ moved' = moved \ ({i} \cup all)
                      /\ UNCHANGED <<parents, hierarchy, held>>
    OBVIOUS
  <2>1. n # BadTitle
    OBVIOUS
  <2>2. ~ (Cardinality(above) > 1)
    <3> HIDE DEF above
    <3>1. QED
      OBVIOUS
  <2>3. QED
    BY <2>1, <2>2 DEF SetName
<1>2. Named(lists) /\ \A j : (j \in Crates <=> C(j) \in DOMAIN lists) /\ (j \in Crates => j \in Ids)
  BY CrateHasRow DEF DInv, Crates
<1>3. OneRowEach(parents, Crates, Crates) /\ NoRowTwice(hierarchy, Crates)
      /\ Closed(parents, hierarchy, Crates)
  BY DEF DInv, IInv, SoundTree
<1>4. ASSUME NEW j \in BelowAll(i)
      PROVE  j \in Crates /\ j # i /\ (~ DeepRename(i) => BelowAll(j) = {})
  <2>1. i \in Abv(hierarchy, j) /\ j \in Crates
    BY <1>3 DEF BelowAll, Abv, NoRowTwice
  <2>2. QED
    BY <1>3, <2>1 DEF Closed, DeepRename
<1>5. /\ Cardinality(above) \in {0, 1}
      /\ up = IF Par(parents, i) = {} THEN << >>
              ELSE lists[C(CHOOSE p \in Par(parents, i) : TRUE)].path
      /\ up \in Seq(Titles)
  <2>1. PICK row \in DOMAIN parents : parents[row].origin = i
    BY <1>3 DEF OneRowEach
  <2>2. ParentRows(i) = {row} /\ parents[row].parent \in Crates
    BY <1>3, <2>1 DEF OneRowEach, ParentRows
  <2>3. Par(parents, i) = {parents[row].parent} \ {i}
    BY <2>2 DEF Par, ParentRows
  <2>4. CASE parents[row].parent = i
    <3>1. above = {} /\ Par(parents, i) = {}
      BY <2>2, <2>3, <2>4
    <3> HIDE DEF above
    <3>2. Cardinality(above) = 0
      BY <3>1, FS_EmptySet
    <3>3. << >> \in Seq(Titles)
      OBVIOUS
    <3>4. QED
      BY <3>1, <3>2, <3>3
  <2>5. CASE parents[row].parent # i
    <3>1. above = {row} /\ Par(parents, i) = {parents[row].parent}
      BY <2>2, <2>3, <2>5
    <3> HIDE DEF above
    <3>2. Cardinality(above) = 1
      BY <3>1, FS_Singleton
    <3>3. (CHOOSE k \in {row} : TRUE) = row
          /\ (CHOOSE p \in {parents[row].parent} : TRUE) = parents[row].parent
      OBVIOUS
    <3>4. up = lists[C(parents[row].parent)].path
      BY <3>1, <3>3
    <3>5. lists[C(parents[row].parent)].path \in Seq(Titles)
      BY <1>2, <2>2 DEF Named, List
    <3>6. QED
      BY <3>1, <3>2, <3>3, <3>4, <3>5
  <2>6. QED
    BY <2>4, <2>5
<1> HIDE DEF up
<1>6. path \in Seq(Titles)
  BY <1>5
<1> HIDE DEF path
<1>7. PICK m \in Nat : /\ kids \in [1 .. m -> BelowAll(i)]
                       /\ \A j \in BelowAll(i) : \E k \in 1 .. m : kids[k] = j
  BY <1>3, ChildrenAreBelow DEF NoRowTwice
<1> HIDE DEF kids
<1>8. /\ DOMAIN kids = 1 .. m
      /\ \A k \in 1 .. m : /\ kids[k] \in BelowAll(i) /\ kids[k] \in Crates /\ kids[k] # i
                           /\ C(kids[k]) \in DOMAIN lists
      /\ \A j \in Crates : lists[C(j)].title \in Titles
  BY <1>2, <1>4, <1>7 DEF Named, List
<1>9. visit \in Seq(Crates \X Seq(Titles))
  <2>1. \A k \in 1 .. m : Visits(kids[k], path) \in Seq(Crates \X Seq(Titles))
    <3>1. SoundTree(parents, hierarchy, Crates) /\ Crates \subseteq Ids
      BY <1>2, <1>3 DEF SoundTree
    <3>2. QED
      BY <1>6, <1>8, <3>1, VisitsAreCrates
  <2>2. [k \in DOMAIN kids |-> Visits(kids[k], path)] \in [1 .. m -> Seq(Crates \X Seq(Titles))]
    BY <1>8, <2>1
  <2>3. QED
    BY <2>2, FlattenType
<1> DEFINE seen == [k \in 1 .. m |-> <<kids[k], Append(path, lists[C(kids[k])].title)>>]
<1>10. ASSUME ~ DeepRename(i)
       PROVE  visit = seen
  <2>1. ASSUME NEW k \in 1 .. m
        PROVE  seen[k] \in Crates \X Seq(Titles) /\ Visits(kids[k], path) = <<seen[k]>>
    <3>1. kids[k] \in Crates /\ kids[k] \in Ids /\ BelowAll(kids[k]) = {}
          /\ lists[C(kids[k])].title \in Titles
      BY <1>2, <1>4, <1>8, <1>10
    <3>2. Append(path, lists[C(kids[k])].title) \in Seq(Titles)
      BY <1>6, <3>1
    <3>3. Visits(kids[k], path) = << <<kids[k], Append(path, lists[C(kids[k])].title)>> >>
      BY <1>3, <1>6, <3>1, LeafIsVisited DEF NoRowTwice
    <3>4. QED
      BY <3>1, <3>2, <3>3
  <2>2. seen \in [1 .. m -> Crates \X Seq(Titles)]
    BY <2>1
  <2> HIDE DEF seen
  <2>3. [k \in DOMAIN kids |-> Visits(kids[k], path)] = [k \in 1 .. m |-> <<seen[k]>>]
    BY <1>8, <2>1
  <2>4. QED
    BY <2>2, <2>3, FlattenOnes
<1> HIDE DEF visit
<1> DEFINE len == Len(visit)
           L == CrateUpdated(lists, i, n, path)
           T == Repathed(L, visit)
<1>11. /\ len \in Nat /\ visit \in [1 .. len -> Crates \X Seq(Titles)]
       /\ \A k \in 1 .. len : visit[k][1] \in Crates /\ visit[k] \in Ids \X Seq(Titles)
       /\ wrong = {}
  <2>1. len \in Nat /\ visit \in [1 .. len -> Crates \X Seq(Titles)]
    BY <1>9
  <2>2. \A k \in 1 .. len : visit[k][1] \in Crates /\ visit[k] \in Ids \X Seq(Titles)
    BY <1>2, <2>1
  <2>3. DOMAIN visit = 1 .. len
    BY <2>1
  <2> HIDE DEF len
  <2>4. wrong = {}
    BY <2>2, <2>3
  <2>5. QED
    BY <2>1, <2>2, <2>4
<1>12. ASSUME ~ DeepRename(i)
       PROVE  all = BelowAll(i)
  <2>1. all = {seen[k][1] : k \in 1 .. m}
    <3>1. visit = seen /\ DOMAIN seen = 1 .. m
      BY <1>10, <1>12
    <3> HIDE DEF seen
    <3>2. ToSet(visit) = {seen[k] : k \in 1 .. m}
      BY <3>1 DEF ToSet
    <3>3. QED
      BY <3>2
  <2>2. all = {kids[k] : k \in 1 .. m}
    BY <2>1
  <2>3. QED
    BY <1>7, <2>2
<1> HIDE DEF wrong, all, above
<1>13. C(i) \in DOMAIN lists /\ Single(lists, i)
  <2>1. \A x \in DOMAIN lists : x[2] = i /\ x[1] = "crate" => x = C(i)
    BY <1>2 DEF Named, Keys, C
  <2>2. QED
    BY <1>2, <2>1 DEF Single, Twin, C
<1>14. /\ Named(L) /\ DOMAIN L = DOMAIN lists
       /\ L[C(i)] = [title |-> n, path |-> path]
       /\ \A x \in DOMAIN lists \ {C(i)} : L[x] = lists[x]
  BY <1>2, <1>6, <1>13, UpdatedShape
<1> HIDE DEF L, len
<1>15. \A j : C(j) = C(i) => j = i
  BY DEF C
<1>16. /\ Named(T) /\ DOMAIN T = DOMAIN L
       /\ \A x \in DOMAIN L : T[x].title = L[x].title
       /\ OnePathEach(len, visit) => \A k \in 1 .. len : T[C(visit[k][1])].path = visit[k][2]
       /\ \A j : C(j) \in DOMAIN L /\ (\A k \in 1 .. len : visit[k][1] # j) => T[C(j)] = L[C(j)]
  <2>1. Visited(L, len, visit)
    <3>1. visit \in [1 .. len -> Ids \X Seq(Titles)]
      BY <1>11
    <3>2. QED
      BY <1>2, <1>11, <1>14, <3>1 DEF Visited
  <2>2. Named(L) /\ len \in Nat
    BY <1>11, <1>14
  <2> HIDE DEF T
  <2>3. T = Repathed(L, visit)
    BY DEF T
  <2>4. QED
    BY ONLY <2>1, <2>2, <2>3, RepathedShape
<1> HIDE DEF T
<1>17. lists' = T
  <2>1. lists' = [x \in DOMAIN lists |-> T[x]]
    BY <1>1, <1>5, <1>11 DEF AsUpdated, T, L
  <2>2. QED
    BY <1>14, <1>16, <2>1 DEF Named
<1>18. /\ Named(T) /\ DOMAIN T = DOMAIN lists /\ T[C(i)].title = n
       /\ \A x \in DOMAIN lists \ {C(i)} : T[x].title = lists[x].title
  <2>1. [title |-> n, path |-> path].title = n
    OBVIOUS
  <2>2. QED
    BY <1>13, <1>14, <1>16, <2>1
<1>19. ASSUME ~ DeepRename(i)
       PROVE  /\ RightIn(T, parents, i)
              /\ \A j \in BelowAll(i) : T[C(j)].path = Append(T[C(i)].path, lists[C(j)].title)
              /\ \A j \in Crates \ ({i} \cup BelowAll(i)) : T[C(j)] = lists[C(j)]
  <2>1. /\ visit = seen /\ len = m
        /\ \A k \in 1 .. m : /\ seen[k][1] = kids[k]
                             /\ seen[k][2] = Append(path, lists[C(kids[k])].title)
    <3>1. visit = seen
      BY <1>10, <1>19
    <3>2. Len(seen) = m
      OBVIOUS
    <3>3. QED
      BY <3>1, <3>2 DEF len
  <2>2. OnePathEach(len, visit)
    BY <2>1 DEF OnePathEach
  <2> HIDE DEF seen
  <2>3. T[C(i)] = [title |-> n, path |-> path]
    BY <1>8, <1>13, <1>14, <1>16, <2>1
  <2>4. ASSUME NEW j \in Crates \ ({i} \cup BelowAll(i))
        PROVE  T[C(j)] = lists[C(j)]
    <3>1. \A k \in 1 .. m : seen[k][1] # j
      BY <1>8, <2>1
    <3>2. C(j) \in DOMAIN lists \ {C(i)}
      BY <1>2, <1>15
    <3>3. QED
      BY <1>14, <1>16, <2>1, <3>1, <3>2
  <2>5. ASSUME NEW j \in BelowAll(i)
        PROVE  T[C(j)].path = Append(T[C(i)].path, lists[C(j)].title)
    <3>1. PICK k \in 1 .. m : kids[k] = j
      BY <1>7
    <3>2. T[C(j)].path = Append(path, lists[C(j)].title)
      BY <1>16, <2>1, <2>2, <3>1
    <3>3. QED
      BY <2>3, <3>2
  <2>6. ASSUME NEW p \in Par(parents, i)
        PROVE  T[C(p)].path = lists[C(p)].path
    <3>1. p \in Abv(hierarchy, i) /\ p \in Crates
      BY <1>3, TreeIsOfCrates DEF Closed, DInv, IInv
    <3>2. i \in BelowAll(p) /\ p # i
      BY <3>1 DEF Par, BelowAll, Abv
    <3>3. p \notin BelowAll(i)
      BY <1>4, <1>19, <3>2
    <3>4. QED
      BY <2>4, <3>1, <3>2, <3>3
  <2>7. RightIn(T, parents, i)
    <3>1. Par(parents, i) # {} => (CHOOSE p \in Par(parents, i) : TRUE) \in Par(parents, i)
      OBVIOUS
    <3>2. path = Append(IF Par(parents, i) = {} THEN << >>
                        ELSE T[C(CHOOSE p \in Par(parents, i) : TRUE)].path, n)
      BY <1>5, <2>6, <3>1 DEF path
    <3>3. QED
      BY <2>3, <3>2 DEF RightIn
  <2>8. QED
    BY <2>4, <2>5, <2>7
<1>20. QED
  BY <1>1, <1>5, <1>11, <1>12, <1>17, <1>18, <1>19

LEMMA SetNameKept ==
  ASSUME Diligent, DInv, IInv', NEW i \in Crates, NEW n \in Titles \cup {BadTitle},
         Unless("deep_rename", DeepRename(i)), Unless("twin", Twin("crate", i)),
         SetName(i, n), call' = <<"set_name", i, n>>
  PROVE  DInv' /\ Kept
<1>1. CASE n = BadTitle
  <2>1. Fail("crate_invalid_name")
    BY <1>1 DEF SetName
  <2>2. call'[Len(call')] = BadTitle
    BY <1>1
  <2>3. QED
    BY <2>1, <2>2, Refused
<1>2. CASE n # BadTitle
  <2>1. /\ ~ Twin("crate", i) /\ n \in Titles /\ BadTitle \notin Titles
        /\ Shallow => ~ DeepRename(i)
    BY <1>2, Crates1Titles DEF Diligent, Shallow, Unless
  <2>2. /\ outcome' = "ok" /\ UNCHANGED <<parents, hierarchy, held>>
        /\ Named(lists') /\ DOMAIN lists' = DOMAIN lists
        /\ lists'[C(i)].title = n
        /\ \A x \in DOMAIN lists \ {C(i)} : lists'[x].title = lists[x].title
        /\ Shallow =>
             /\ moved' = moved \ ({i} \cup BelowAll(i))
             /\ RightIn(lists', parents, i)
             /\ \A j \in BelowAll(i) :
                  lists'[C(j)].path = Append(lists'[C(i)].path, lists[C(j)].title)
             /\ \A j \in Crates \ ({i} \cup BelowAll(i)) : lists'[C(j)] = lists[C(j)]
    BY <2>1, SetNameDoes
  <2>3. Crates' = Crates
    BY <2>2 DEF Crates, IdsOf
  <2>4. C(i) \in DOMAIN lists /\ \A j \in Crates : j # i => C(j) \in DOMAIN lists \ {C(i)}
    BY CrateHasRow DEF DInv, Crates, C
  <2>5. /\ NoRowTwice(hierarchy, Crates) /\ Closed(parents, hierarchy, Crates)
        /\ OneRowEach(parents, Crates, Crates)
    BY DEF DInv, IInv, SoundTree
  <2>6. ASSUME Shallow, NEW j \in BelowAll(i)
        PROVE  RightIn(lists', parents, j)
    <3>1. j \in Crates /\ i \in Abv(hierarchy, j) /\ j # i
      BY <2>5 DEF BelowAll, Abv, NoRowTwice, Closed
    <3>2. i \in Par(parents, j)
      <4>1. PICK x \in {j} \cup Abv(hierarchy, j) : i \in Par(parents, x)
        BY <2>5, <3>1 DEF Closed
      <4>2. CASE x = j
        BY <4>1, <4>2
      <4>3. CASE x \in Abv(hierarchy, j)
        <5>1. x \in Crates /\ j \in BelowAll(x)
          BY <2>5, <4>3 DEF Abv, BelowAll, NoRowTwice
        <5>2. i \in Abv(hierarchy, x)
          BY <2>5, <4>1, <5>1 DEF Closed
        <5>3. x \in BelowAll(i)
          BY <5>2 DEF Abv, BelowAll
        <5>4. QED
          BY <2>1, <2>6, <5>1, <5>3 DEF DeepRename
      <4>4. QED
        BY <4>1, <4>2, <4>3
    <3>3. Par(parents, j) = {i}
      BY <2>5, <3>2 DEF Par, OneRowEach
    <3>4. (CHOOSE p \in {i} : TRUE) = i
      OBVIOUS
    <3>5. lists'[C(j)].title = lists[C(j)].title
      BY <2>2, <2>4, <3>1
    <3>6. QED
      BY <2>2, <2>6, <3>3, <3>4, <3>5 DEF RightIn
  <2>7. ASSUME Shallow, NEW j \in Crates \ ({i} \cup BelowAll(i)), j \notin moved
        PROVE  RightIn(lists', parents, j)
    <3>1. RightIn(lists, parents, j)
      BY <2>7 DEF DInv
    <3>2. ASSUME NEW p \in Par(parents, j)
          PROVE  lists'[C(p)].path = lists[C(p)].path
      <4>1. p \in Crates /\ p \in Abv(hierarchy, j)
        BY <2>5, TreeIsOfCrates DEF DInv, IInv, Closed
      <4>2. p # i
        BY <4>1 DEF Abv, BelowAll
      <4>3. j \in BelowAll(p)
        BY <4>1 DEF Abv, BelowAll
      <4>4. p \notin BelowAll(i)
        BY <2>1, <2>7, <4>3 DEF DeepRename
      <4>5. QED
        BY <2>2, <2>7, <4>1, <4>2, <4>4
    <3>3. lists'[C(j)] = lists[C(j)]
      BY <2>2, <2>7
    <3>4. QED
      BY <3>1, <3>2, <3>3, PathStays
  <2>8. DInv'
    <3>1. held' \subseteq Crates \X Tracks
      BY <2>2 DEF DInv
    <3>2. Shallow => \A j \in Crates \ moved' : RightIn(lists', parents', j)
      BY <2>2, <2>6, <2>7
    <3>3. QED
      BY <2>2, <2>3, <3>1, <3>2, DGoes
  <2>9. Names' = [Names EXCEPT ![C(i)] = n]
    <3>1. NamesIn(lists') = [NamesIn(lists) EXCEPT ![C(i)] = n]
      BY <2>2, <2>4 DEF NamesIn
    <3>2. QED
      BY <3>1, Shown
  <2>10. UNCHANGED <<Tree, Content>>
    BY <2>2, <2>3, Shown
  <2>11. Promised(call')
    <3>1. call'[1] = "set_name" /\ call'[2] = i /\ call'[3] = n
      OBVIOUS
    <3>2. QED
      BY <2>9, <2>10, <3>1 DEF Promised
  <2>12. QED
    BY <2>2, <2>8, <2>11 DEF Kept
<1>3. QED
  BY <1>1, <1>2

(* set_parent, of a crate that has nothing below it or is put where it is. *)
LEMMA SetParentKept ==
  ASSUME Diligent, DInv, IInv', NEW i \in Crates, NEW p \in Crates \cup {NoCrate},
         SetParent(i, p), call' = <<"set_parent", i, p>>
  PROVE  DInv' /\ Kept
<1>1. CASE p = i
  <2>1. outcome' = "crate_invalid_parent" /\ UNCHANGED <<data, moved>>
    BY <1>1 DEF SetParent, Fail
  <2>2. call'[2] = call'[3]
    BY <1>1
  <2>3. DInv'
    BY <2>1, DStays
  <2>4. QED
    BY <2>1, <2>2, <2>3 DEF Kept
<1>2. CASE p # i
  <2>1. /\ UNCHANGED <<lists, held>> /\ outcome' = "ok"
        /\ parents' = InsertedLast(Orphaned(parents, i), ParentRow(i, p))
        /\ moved' = IF Par(parents, i) = {p} \ {NoCrate} THEN moved ELSE moved \cup {i}
    BY <1>2, ParentIsPar DEF SetParent, Orphaned, ParentRow, ParentRows
  <2>2. Crates' = Crates /\ Crates \subseteq Ids
    BY <2>1, CrateHasRow DEF Crates, DInv
  <2>3. OneRowEach(parents, Crates, Crates)
    BY DEF DInv, IInv, SoundTree
  <2>4. (\A j \in Crates \ {i} : Par(parents', j) = Par(parents, j)) /\ Par(parents', i) = {p} \ {NoCrate}
    <3> DEFINE P1 == Orphaned(parents, i)
               q  == IF p = NoCrate THEN i ELSE p
    <3>1. ParentRow(i, p) = [origin |-> i, parent |-> q] /\ {q} \ {i} = {p} \ {NoCrate} /\ q \in Crates
      BY <1>2, <2>2 DEF ParentRow, NoCrate, Ids
    <3>2. OneRowEach(P1, Crates \ {i}, Crates) /\ \A j \in Crates \ {i} : Par(P1, j) = Par(parents, j)
      <4>1. PICK K : K = Crates
        OBVIOUS
      <4>2. OneRowEach(parents, K, K)
        BY <2>3, <4>1
      <4>3. /\ OneRowEach(Orphaned(parents, i), K \ {i}, K)
            /\ \A j \in K \ {i} : Par(Orphaned(parents, i), j) = Par(parents, j)
        BY ONLY <4>2, OrphanedShape
      <4>4. QED
        BY <4>1, <4>3
    <3> HIDE DEF P1, q
    <3>3. /\ \A j \in Crates \ {i} : Par(InsertedLast(P1, [origin |-> i, parent |-> q]), j) = Par(P1, j)
          /\ Par(InsertedLast(P1, [origin |-> i, parent |-> q]), i) = {q} \ {i}
      BY <3>1, <3>2, ParentInserted
    <3>4. QED
      BY <2>1, <3>1, <3>2, <3>3 DEF P1
  <2>5. ASSUME Shallow, NEW j \in Crates \ moved'
        PROVE  RightIn(lists', parents', j)
    <3>1. j \in Crates \ moved /\ Par(parents', j) = Par(parents, j)
      BY <2>1, <2>4
    <3>2. RightIn(lists, parents, j)
      BY <2>5, <3>1 DEF DInv
    <3>3. QED
      BY <2>1, <3>1, <3>2, PathStays
  <2>6. DInv'
    <3>1. Named(lists') /\ held' \subseteq Crates \X Tracks
      BY <2>1 DEF DInv
    <3>2. QED
      BY <2>2, <2>5, <3>1, DGoes
  <2>7. Tree' = [Tree EXCEPT ![i] = {p} \ {NoCrate}]
    <3>1. TreeIn(parents', Crates) = [TreeIn(parents, Crates) EXCEPT ![i] = {p} \ {NoCrate}]
      BY <2>4 DEF TreeIn
    <3>2. QED
      BY <2>2, <3>1, Shown
  <2>8. UNCHANGED <<Names, Content>>
    BY <2>1, <2>2, Shown
  <2>9. Promised(call')
    <3>1. call'[1] = "set_parent" /\ call'[2] = i /\ call'[3] = p
      OBVIOUS
    <3>2. QED
      BY <2>7, <2>8, <3>1 DEF Promised
  <2>10. QED
    BY <2>1, <2>6, <2>9 DEF Kept
<1>3. QED
  BY <1>1, <1>2

(* remove_crate, of a childless crate where keys are enforced. *)
LEMMA RemoveCrateKept ==
  ASSUME Diligent, DInv, IInv', NEW i \in Crates, Unless("remove", Untidy(i)),
         RemoveCrate(i), call' = <<"remove", i>>
  PROVE  DInv' /\ Kept
<1>1. fkeys /\ DirectBelow(i) = {}
  BY DEF Diligent, Unless, Untidy
<1>2. \A k \in DOMAIN parents : parents[k].parent = i => parents[k].origin = i
  BY <1>1 DEF DirectBelow
<1>3. /\ lists' = [x \in DOMAIN lists \ {C(i)} |-> lists[x]] /\ outcome' = "ok"
      /\ held' = {h \in held : h[1] # i} /\ moved' = moved \ {i}
  BY <1>1 DEF RemoveCrate
<1>4. parents' = Orphaned(parents, i)
  <2>1. {k \in DOMAIN parents : i \in {parents[k].origin, parents[k].parent}}
          = {k \in DOMAIN parents : parents[k].origin = i}
    BY <1>2
  <2>2. QED
    BY <1>1, <2>1 DEF RemoveCrate, Orphaned
<1>5. Named(lists) /\ \A j : j \in Crates <=> C(j) \in DOMAIN lists
  BY CrateHasRow DEF DInv, Crates
<1>6. /\ DOMAIN lists' = DOMAIN lists \ {C(i)}
      /\ \A x \in DOMAIN lists' : lists'[x] = lists[x]
      /\ Named(lists')
  <2>1. DOMAIN lists' = DOMAIN lists \ {C(i)} /\ \A x \in DOMAIN lists' : lists'[x] = lists[x]
    BY <1>3
  <2>2. lists' \in [DOMAIN lists' -> List]
    BY <1>3, <1>5, <2>1 DEF Named
  <2>3. QED
    BY <1>5, <2>1, <2>2 DEF Named
<1>7. Crates' = Crates \ {i}
  <2>1. \A j : C(j) = C(i) <=> j = i
    BY DEF C
  <2>2. \A j : j \in Crates' <=> C(j) \in DOMAIN lists'
    BY <1>6, CrateHasRow DEF Crates
  <2>3. QED
    BY <1>5, <1>6, <2>1, <2>2
<1>8. OneRowEach(parents, Crates, Crates)
  BY DEF DInv, IInv, SoundTree
<1>9. \A j \in Crates \ {i} : Par(parents', j) = Par(parents, j)
  <2>1. PICK K : K = Crates
    OBVIOUS
  <2>2. OneRowEach(parents, K, K)
    BY <1>8, <2>1
  <2>3. /\ OneRowEach(Orphaned(parents, i), K \ {i}, K)
        /\ \A j \in K \ {i} : Par(Orphaned(parents, i), j) = Par(parents, j)
    BY ONLY <2>2, OrphanedShape
  <2>4. QED
    BY <1>4, <2>1, <2>3
<1>10. ASSUME Shallow, NEW j \in Crates \ {i}, j \notin moved
       PROVE  RightIn(lists', parents', j)
  <2>1. RightIn(lists, parents, j)
    BY <1>10 DEF DInv
  <2>2. ASSUME NEW p \in Par(parents, j)
        PROVE  lists'[C(p)].path = lists[C(p)].path
    <3>1. p # i /\ p \in Crates
      BY <1>2, <1>8, <1>10 DEF Par, OneRowEach
    <3>2. C(p) \in DOMAIN lists'
      BY <1>5, <1>6, <3>1 DEF C
    <3>3. QED
      BY <1>6, <3>2
  <2>3. lists'[C(j)] = lists[C(j)]
    <3>1. C(j) \in DOMAIN lists'
      BY <1>5, <1>6, <1>10 DEF C
    <3>2. QED
      BY <1>6, <3>1
  <2>4. QED
    BY <1>9, <1>10, <2>1, <2>2, <2>3, PathStays
<1>11. DInv'
  <2>1. held' \subseteq (Crates \ {i}) \X Tracks
    BY <1>3 DEF DInv
  <2>2. Shallow => \A j \in (Crates \ {i}) \ moved' : RightIn(lists', parents', j)
    BY <1>3, <1>10
  <2>3. QED
    BY <1>6, <1>7, <2>1, <2>2, DGoes
<1>12. Names' = [x \in DOMAIN Names \ {C(i)} |-> Names[x]]
  <2>1. NamesIn(lists') = [x \in DOMAIN NamesIn(lists) \ {C(i)} |-> NamesIn(lists)[x]]
    BY <1>6 DEF NamesIn
  <2>2. QED
    BY <2>1, Shown
<1>13. Tree' = [j \in DOMAIN Tree \ {i} |-> Tree[j]]
  <2>1. TreeIn(parents', Crates \ {i}) = [j \in DOMAIN TreeIn(parents, Crates) \ {i} |-> TreeIn(parents, Crates)[j]]
    BY <1>9 DEF TreeIn
  <2>2. QED
    BY <1>7, <2>1, Shown
<1>14. Content' = [j \in DOMAIN Content \ {i} |-> Content[j]]
  <2>1. \A j \in Crates \ {i} : TracksIn(held', j) = TracksIn(held, j)
    <3>1. \A j \in Crates \ {i} : {x \in held' : x[1] = j} = {x \in held : x[1] = j}
      BY <1>3
    <3>2. QED
      BY <3>1 DEF TracksIn
  <2>2. ContentIn(held', Crates \ {i}) = [j \in DOMAIN ContentIn(held, Crates) \ {i} |-> ContentIn(held, Crates)[j]]
    BY <2>1 DEF ContentIn
  <2>3. QED
    BY <1>7, <2>2, Shown
<1>15. Promised(call')
  <2>1. call'[1] = "remove" /\ call'[2] = i
    OBVIOUS
  <2>2. QED
    BY <1>12, <1>13, <1>14, <2>1 DEF Promised
<1>16. QED
  BY <1>3, <1>11, <1>15 DEF Kept

(* The tracks of a crate. *)
LEMMA HoldKept ==
  ASSUME DInv, IInv', NEW i \in Crates, NEW H, Hold(H), H \subseteq Crates \X Tracks,
         \A j \in Crates \ {i} : TracksIn(H, j) = TracksIn(held, j)
  PROVE  /\ DInv' /\ outcome' = "ok" /\ UNCHANGED <<Names, Tree>>
         /\ Content' = [Content EXCEPT ![i] = TracksIn(H, i)]
<1>1. held' = H /\ outcome' = "ok" /\ UNCHANGED <<lists, parents, moved>>
  BY DEF Hold
<1>2. Crates' = Crates
  BY <1>1 DEF Crates
<1>3. DInv'
  <2>1. Shallow => \A j \in Crates \ moved' : RightIn(lists', parents', j)
    BY <1>1 DEF DInv
  <2>2. QED
    BY <1>1, <1>2, <2>1, DGoes DEF DInv
<1>4. UNCHANGED <<Names, Tree>>
  BY <1>1, <1>2, Shown
<1>5. Content' = [Content EXCEPT ![i] = TracksIn(H, i)]
  <2>1. ContentIn(H, Crates) = [ContentIn(held, Crates) EXCEPT ![i] = TracksIn(H, i)]
    BY DEF ContentIn
  <2>2. QED
    BY <1>1, <1>2, <2>1, Shown
<1>6. QED
  BY <1>1, <1>3, <1>4, <1>5

LEMMA CrateCallKept ==
  ASSUME Diligent, DInv, IInv', CrateCall
  PROVE  DInv' /\ Kept
<1>0. held \subseteq Crates \X Tracks
  BY DEF DInv
<1>1. ASSUME NEW i \in Crates, NEW t \in Tracks, AddTrack(i, t), call' = <<"add_track", i, t>>
      PROVE  DInv' /\ Kept
  <2> DEFINE H == held \cup {<<i, t>>}
  <2>1. /\ Hold(H) /\ H \subseteq Crates \X Tracks
        /\ TracksIn(H, i) = TracksIn(held, i) \cup {t}
        /\ \A j \in Crates \ {i} : TracksIn(H, j) = TracksIn(held, j)
    <3>1. Hold(H) /\ H \subseteq Crates \X Tracks
      BY <1>0, <1>1 DEF AddTrack
    <3>2. \A x \in held : x = <<x[1], x[2]>>
      BY <1>0
    <3>3. TracksIn(H, i) = TracksIn(held, i) \cup {t}
      <4>1. {x \in H : x[1] = i} = {x \in held : x[1] = i} \cup {<<i, t>>}
        OBVIOUS
      <4>2. PICK A : A = {x \in held : x[1] = i}
        OBVIOUS
      <4>3. <<i, t>>[2] = t
        OBVIOUS
      <4>4. \A y : y \in {x[2] : x \in A \cup {<<i, t>>}} <=> y \in {x[2] : x \in A} \cup {t}
        BY <4>3
      <4>5. {x[2] : x \in A \cup {<<i, t>>}} = {x[2] : x \in A} \cup {t}
        BY <4>4
      <4>6. QED
        BY <4>1, <4>2, <4>5 DEF TracksIn
    <3>4. ASSUME NEW j \in Crates \ {i}
          PROVE  TracksIn(H, j) = TracksIn(held, j)
      <4>1. {x \in H : x[1] = j} = {x \in held : x[1] = j}
        OBVIOUS
      <4> HIDE DEF H
      <4>2. QED
        BY <4>1 DEF TracksIn
    <3>5. QED
      BY <3>1, <3>3, <3>4
  <2> HIDE DEF H
  <2>2. /\ DInv' /\ outcome' = "ok" /\ UNCHANGED <<Names, Tree>>
        /\ Content' = [Content EXCEPT ![i] = TracksIn(held, i) \cup {t}]
    BY <2>1, HoldKept
  <2>3. Content[i] = TracksIn(held, i)
    BY Shown DEF ContentIn
  <2>4. call'[1] = "add_track" /\ call'[2] = i /\ call'[3] = t
    BY <1>1
  <2>5. Promised(call')
    BY <2>2, <2>3, <2>4 DEF Promised
  <2>6. QED
    BY <2>2, <2>5 DEF Kept
<1>2. ASSUME NEW i \in Crates, NEW t \in Tracks, RemoveTrack(i, t), call' = <<"remove_track", i, t>>
      PROVE  DInv' /\ Kept
  <2> DEFINE H == held \ {<<i, t>>}
  <2>1. /\ Hold(H) /\ H \subseteq Crates \X Tracks
        /\ TracksIn(H, i) = TracksIn(held, i) \ {t}
        /\ \A j \in Crates \ {i} : TracksIn(H, j) = TracksIn(held, j)
    <3>1. Hold(H) /\ H \subseteq Crates \X Tracks
      BY <1>0, <1>2 DEF RemoveTrack
    <3>2. \A x \in held : x = <<x[1], x[2]>>
      BY <1>0
    <3>3. TracksIn(H, i) = TracksIn(held, i) \ {t}
      BY <3>2 DEF TracksIn
    <3>4. ASSUME NEW j \in Crates \ {i}
          PROVE  TracksIn(H, j) = TracksIn(held, j)
      <4>1. {x \in H : x[1] = j} = {x \in held : x[1] = j}
        OBVIOUS
      <4> HIDE DEF H
      <4>2. QED
        BY <4>1 DEF TracksIn
    <3>5. QED
      BY <3>1, <3>3, <3>4
  <2> HIDE DEF H
  <2>2. /\ DInv' /\ outcome' = "ok" /\ UNCHANGED <<Names, Tree>>
        /\ Content' = [Content EXCEPT ![i] = TracksIn(held, i) \ {t}]
    BY <2>1, HoldKept
  <2>3. Content[i] = TracksIn(held, i)
    BY Shown DEF ContentIn
  <2>4. call'[1] = "remove_track" /\ call'[2] = i /\ call'[3] = t
    BY <1>2
  <2>5. Promised(call')
    BY <2>2, <2>3, <2>4 DEF Promised
  <2>6. QED
    BY <2>2, <2>5 DEF Kept
<1>3. ASSUME NEW i \in Crates, ClearTracks(i), call' = <<"clear_tracks", i>>
      PROVE  DInv' /\ Kept
  <2> DEFINE H == {h \in held : h[1] # i}
  <2>1. /\ Hold(H) /\ H \subseteq Crates \X Tracks
        /\ TracksIn(H, i) = {}
        /\ \A j \in Crates \ {i} : TracksIn(H, j) = TracksIn(held, j)
    <3>1. Hold(H) /\ H \subseteq Crates \X Tracks
      BY <1>0, <1>3 DEF ClearTracks
    <3>2. \A x \in held : x = <<x[1], x[2]>>
      BY <1>0
    <3>3. TracksIn(H, i) = {}
      BY <3>2 DEF TracksIn
    <3>4. ASSUME NEW j \in Crates \ {i}
          PROVE  TracksIn(H, j) = TracksIn(held, j)
      <4>1. {x \in H : x[1] = j} = {x \in held : x[1] = j}
        OBVIOUS
      <4> HIDE DEF H
      <4>2. QED
        BY <4>1 DEF TracksIn
    <3>5. QED
      BY <3>1, <3>3, <3>4
  <2> HIDE DEF H
  <2>2. /\ DInv' /\ outcome' = "ok" /\ UNCHANGED <<Names, Tree>>
        /\ Content' = [Content EXCEPT ![i] = {}]
    BY <2>1, HoldKept
  <2>3. Content[i] = TracksIn(held, i)
    BY Shown DEF ContentIn
  <2>4. call'[1] = "clear_tracks" /\ call'[2] = i
    BY <1>3
  <2>5. Promised(call')
    BY <2>2, <2>3, <2>4 DEF Promised
  <2>6. QED
    BY <2>2, <2>5 DEF Kept
<1>4. QED
  BY <1>1, <1>2, <1>3, CreateKept, SetNameKept, SetParentKept, RemoveCrateKept DEF CrateCall

-----------------------------------------------------------------------------
(* Calls on playlists: columns and promises. *)

(* A call on playlists leaves crates alone. *)
LEMMA RelistedKept ==
  ASSUME DInv, IInv', NEW L, Relisted(L), Named(L),
         \A j : C(j) \in DOMAIN L <=> C(j) \in DOMAIN lists,
         \A j \in Crates : L[C(j)] = lists[C(j)]
  PROVE  DInv' /\ outcome' = "ok" /\ UNCHANGED <<Tree, Content>> /\ Names' = NamesIn(L)
<1>1. lists' = L /\ outcome' = "ok" /\ UNCHANGED <<parents, held, moved>>
  BY DEF Relisted
<1>2. Crates' = Crates
  <2>1. \A j : j \in Crates' <=> C(j) \in DOMAIN lists'
    BY <1>1, CrateHasRow DEF Crates
  <2>2. \A j : j \in Crates <=> C(j) \in DOMAIN lists
    BY CrateHasRow DEF Crates, DInv
  <2>3. Crates' \subseteq Crates /\ Crates \subseteq Crates'
    BY <1>1, <2>1, <2>2
  <2>4. QED
    BY <2>3
<1>3. ASSUME Shallow, NEW j \in Crates \ moved
      PROVE  RightIn(lists', parents', j)
  <2>1. Par(parents, j) \subseteq Crates
    BY TreeIsOfCrates DEF DInv, IInv
  <2>2. RightIn(lists, parents, j)
    BY <1>3 DEF DInv
  <2>3. QED
    BY <1>1, <2>1, <2>2, PathStays
<1>4. DInv'
  BY <1>1, <1>2, <1>3, DGoes DEF DInv
<1>5. UNCHANGED <<Tree, Content>> /\ Names' = NamesIn(L)
  BY <1>1, <1>2, Shown
<1>6. QED
  BY <1>1, <1>4, <1>5

LEMMA PlaylistCallKept ==
  ASSUME Diligent, DInv, IInv', PlaylistCall
  PROVE  DInv' /\ Kept
<1>0. /\ Named(lists) /\ \A x \in DOMAIN lists : x[2] \in Ids /\ x[1] \in {"crate", "playlist"}
      /\ \A x \in DOMAIN lists : x = <<x[1], x[2]>>
      /\ \A j : C(j)[1] = "crate" /\ C(j)[2] = j
      /\ \A j \in Crates : C(j) \in DOMAIN lists
  <2>1. Named(lists) /\ \A j \in Crates : C(j) \in DOMAIN lists
    BY CrateHasRow DEF DInv, Crates
  <2>2. QED
    BY <2>1 DEF Named, Keys, C
<1>1. ASSUME NEW n \in Titles \cup {BadTitle}, NextPlaylist <= MaxId, CreatePlaylist(n),
             call' = <<"create_playlist", n>>
      PROVE  DInv' /\ Kept
  <2>1. CASE n = BadTitle
    <3>1. Fail("playlist_invalid_name")
      BY <1>1, <2>1 DEF CreatePlaylist
    <3>2. call'[Len(call')] = BadTitle
      BY <1>1, <2>1
    <3>3. QED
      BY <3>1, <3>2, Refused
  <2>2. CASE n # BadTitle
    <3> DEFINE x   == <<"playlist", NextPlaylist>>
               row == [title |-> n, path |-> <<n>>]
               L   == With(lists, x, row)
    <3>1. Relisted(L)
      BY <1>1, <2>2 DEF CreatePlaylist
    <3>2. NextPlaylist \in Ids /\ x \notin DOMAIN lists
      <4>1. MaxId \in Nat
        BY BoundIsNatural
      <4>2. CASE views
        <5> DEFINE S == {y[2] : y \in DOMAIN lists} \cup {1}
        <5>1. NextPlaylist = 1 + Highest(S)
          BY <4>2 DEF NextPlaylist
        <5>2. S \in SUBSET (0 .. MaxId + 1)
          BY <1>0, <4>1 DEF Ids
        <5>3. \A y \in DOMAIN lists : y[2] \in S
          OBVIOUS
        <5> HIDE DEF S
        <5>4. Highest(S) \in 0 .. MaxId + 1 /\ \A m \in S : m <= Highest(S)
          <6>1. MaxId + 1 \in Nat
            BY <4>1
          <6>2. QED
            BY <5>2, <6>1, HighestIsHighest
        <5>5. NextPlaylist \in Ids
          BY <1>1, <4>1, <5>1, <5>4 DEF Ids
        <5>6. NextPlaylist \notin S
          BY <5>1, <5>4
        <5>7. QED
          BY <5>3, <5>5, <5>6
      <4>3. CASE ~ views
        <5> DEFINE S == IdsOf(lists, "playlist")
        <5>1. NextPlaylist = 1 + Highest(S)
          BY <4>3 DEF NextPlaylist
        <5>2. S \in SUBSET (0 .. MaxId)
          BY <1>0, <4>1 DEF Ids, IdsOf
        <5>3. \A y \in DOMAIN lists : y[1] = "playlist" => y[2] \in S
          BY DEF IdsOf
        <5> HIDE DEF S
        <5>4. Highest(S) \in 0 .. MaxId /\ \A m \in S : m <= Highest(S)
          BY <4>1, <5>2, HighestIsHighest
        <5>5. NextPlaylist \in Ids
          BY <1>1, <4>1, <5>1, <5>4 DEF Ids
        <5>6. NextPlaylist \notin S
          BY <5>1, <5>4
        <5>7. QED
          BY <5>3, <5>5, <5>6
      <4>4. QED
        BY <4>2, <4>3
    <3>3. x \in Keys /\ x[1] = "playlist"
      BY <3>2 DEF Keys
    <3>4. row \in List /\ row.title = n
      <4>1. <<n>> \in Seq(Titles) /\ n \in Titles
        BY <2>2
      <4>2. QED
        BY <4>1 DEF List
    <3> HIDE DEF x, row
    <3>5. DOMAIN L = DOMAIN lists \cup {x} /\ L[x] = row /\ \A y \in DOMAIN lists : L[y] = lists[y]
      BY <3>2 DEF With
    <3>6. Named(L)
      <4>1. \A y \in DOMAIN L : L[y] \in List
        BY <1>0, <3>4, <3>5 DEF Named
      <4>2. L \in [DOMAIN L -> List]
        BY <4>1 DEF With
      <4> HIDE DEF L
      <4>3. QED
        BY <1>0, <3>3, <3>5, <4>2 DEF Named
    <3>7. NamesIn(L) = With(NamesIn(lists), x, n)
      BY <3>2, <3>4, <3>5 DEF NamesIn, With
    <3> HIDE DEF L
    <3>8. \A j : C(j) # x
      BY <1>0, <3>3
    <3>9. DInv' /\ outcome' = "ok" /\ UNCHANGED <<Tree, Content>> /\ Names' = NamesIn(L)
      <4>1. /\ \A j : C(j) \in DOMAIN L <=> C(j) \in DOMAIN lists
            /\ \A j \in Crates : L[C(j)] = lists[C(j)]
        BY <1>0, <3>5, <3>8
      <4>2. QED
        BY <3>1, <3>6, <4>1, RelistedKept
    <3>10. Names' = With(Names, x, n) /\ x \in DOMAIN Names' \ DOMAIN Names
      <4>1. Names' = With(Names, x, n)
        BY <3>7, <3>9, Shown
      <4>2. DOMAIN Names' = DOMAIN L /\ DOMAIN Names = DOMAIN lists
        BY <3>9, Shown DEF NamesIn
      <4>3. QED
        BY <3>2, <3>5, <4>1, <4>2
    <3>11. Promised(call')
      <4>1. call'[1] = "create_playlist" /\ call'[2] = n
        BY <1>1
      <4>2. QED
        BY <3>3, <3>9, <3>10, <4>1 DEF Promised
    <3>12. QED
      BY <3>9, <3>11 DEF Kept
  <2>3. QED
    BY <2>1, <2>2
<1>2. ASSUME NEW i \in IdsOf(lists, "playlist"), NEW n \in Titles \cup {BadTitle},
             Unless("twin", Twin("playlist", i)), SetPlaylistName(i, n),
             call' = <<"set_playlist_name", i, n>>
      PROVE  DInv' /\ Kept
  <2>1. CASE n = BadTitle
    <3>1. Fail("playlist_invalid_name")
      BY <1>2, <2>1 DEF SetPlaylistName
    <3>2. call'[Len(call')] = BadTitle
      BY <1>2, <2>1
    <3>3. QED
      BY <3>1, <3>2, Refused
  <2>2. CASE n # BadTitle
    <3> DEFINE x == <<"playlist", i>>
               L == PlaylistUpdated(lists, i, n)
               hit == IF views THEN {y \in DOMAIN lists : y[2] = i /\ lists[y].title = lists[x].title}
                      ELSE {x}
    <3>1. Relisted(L)
      BY <1>2, <2>2 DEF SetPlaylistName
    <3>2. x \in DOMAIN lists
      BY <1>0 DEF IdsOf
    <3>3. hit = {x}
      <4>1. ~ Twin("playlist", i)
        BY <1>2 DEF Diligent, Unless
      <4>2. ASSUME views, NEW y \in DOMAIN lists, y[2] = i, lists[y].title = lists[x].title
            PROVE  y = x
        <5>1. y[1] = "playlist"
          BY <4>1, <4>2 DEF Twin
        <5>2. QED
          BY <1>0, <4>2, <5>1
      <4>3. x[2] = i
        OBVIOUS
      <4>4. QED
        BY <3>2, <4>2, <4>3
    <3>4. L = [y \in DOMAIN lists |-> IF y \in hit THEN [lists[y] EXCEPT !.title = n] ELSE lists[y]]
      BY DEF PlaylistUpdated
    <3> HIDE DEF L, hit
    <3>5. /\ DOMAIN L = DOMAIN lists /\ L[x].title = n /\ L[x] \in List
          /\ \A y \in DOMAIN lists \ {x} : L[y] = lists[y]
      <4>1. lists[x] \in List /\ n \in Titles
        BY <1>0, <2>2, <3>2 DEF Named
      <4>2. [lists[x] EXCEPT !.title = n] \in List /\ [lists[x] EXCEPT !.title = n].title = n
        BY <4>1 DEF List
      <4>3. QED
        BY <3>2, <3>3, <3>4, <4>2
    <3>6. Named(L)
      <4>1. \A y \in DOMAIN L : L[y] \in List
        BY <1>0, <3>5 DEF Named
      <4>2. L \in [DOMAIN L -> List]
        BY <3>4, <3>5, <4>1
      <4>3. QED
        BY <1>0, <3>5, <4>2 DEF Named
    <3>7. NamesIn(L) = [NamesIn(lists) EXCEPT ![x] = n]
      BY <3>2, <3>5 DEF NamesIn
    <3>8. x[1] = "playlist"
      OBVIOUS
    <3> HIDE DEF x
    <3>9. DInv' /\ outcome' = "ok" /\ UNCHANGED <<Tree, Content>> /\ Names' = NamesIn(L)
      <4>1. /\ \A j : C(j) \in DOMAIN L <=> C(j) \in DOMAIN lists
            /\ \A j \in Crates : L[C(j)] = lists[C(j)]
        BY <1>0, <3>5, <3>8
      <4>2. QED
        BY <3>1, <3>6, <4>1, RelistedKept
    <3>10. Names' = [Names EXCEPT ![x] = n]
      BY <3>7, <3>9, Shown
    <3>11. Promised(call')
      <4>1. call'[1] = "set_playlist_name" /\ call'[2] = i /\ call'[3] = n
        BY <1>2
      <4>2. QED
        BY <3>9, <3>10, <4>1 DEF Promised, x
    <3>12. QED
      BY <3>9, <3>11 DEF Kept
  <2>3. QED
    BY <2>1, <2>2
<1>3. ASSUME NEW i \in IdsOf(lists, "playlist"), RemovePlaylist(i), call' = <<"remove_playlist", i>>
      PROVE  DInv' /\ Kept
  <2> DEFINE x == <<"playlist", i>>
             L == [y \in DOMAIN lists \ {x} |-> lists[y]]
  <2>1. Relisted(L) /\ x[1] = "playlist"
    BY <1>3 DEF RemovePlaylist
  <2>2. DOMAIN L = DOMAIN lists \ {x} /\ \A y \in DOMAIN L : L[y] = lists[y]
    OBVIOUS
  <2>3. Named(L)
    <3>1. L \in [DOMAIN L -> List]
      BY <1>0 DEF Named
    <3>2. QED
      BY <1>0, <2>2, <3>1 DEF Named
  <2>4. NamesIn(L) = [y \in DOMAIN NamesIn(lists) \ {x} |-> NamesIn(lists)[y]]
    BY <2>2 DEF NamesIn
  <2> HIDE DEF L
  <2>5. \A j : C(j) # x
    BY <1>0, <2>1
  <2> HIDE DEF x
  <2>6. DInv' /\ outcome' = "ok" /\ UNCHANGED <<Tree, Content>> /\ Names' = NamesIn(L)
    <3>1. /\ \A j : C(j) \in DOMAIN L <=> C(j) \in DOMAIN lists
          /\ \A j \in Crates : L[C(j)] = lists[C(j)]
      BY <1>0, <2>2, <2>5
    <3>2. QED
      BY <2>1, <2>3, <3>1, RelistedKept
  <2>7. Names' = [y \in DOMAIN Names \ {x} |-> Names[y]]
    BY <2>4, <2>6, Shown
  <2>8. Promised(call')
    <3>1. call'[1] = "remove_playlist" /\ call'[2] = i
      BY <1>3
    <3>2. QED
      BY <2>6, <2>7, <3>1 DEF Promised, x
  <2>9. QED
    BY <2>6, <2>8 DEF Kept
<1>4. QED
  BY <1>1, <1>2, <1>3 DEF PlaylistCall

LEMMA StepKept ==
  ASSUME Diligent, DInv, Next
  PROVE  DInv' /\ Kept
<1>1. Careful
  BY DEF Diligent, Careful
<1>2. IInv'
  BY <1>1, CrateCallKeepsIInv, PlaylistCallKeepsIInv DEF Next, DInv
<1>3. QED
  BY <1>2, CrateCallKept, PlaylistCallKept DEF Next

LEMMA DInvHolds ==
  ASSUME Diligent
  PROVE  Spec => []DInv
<1>1. Init => DInv
  <2> SUFFICES ASSUME Init PROVE DInv
    OBVIOUS
  <2>1. IInv
    BY StartsSound
  <2>2. DOMAIN lists = {} /\ lists = [x \in {} |-> x] /\ held = {}
    BY DEF Init
  <2>3. Crates = {}
    BY <2>2 DEF Crates, IdsOf
  <2>4. Named(lists)
    BY <2>2 DEF Named
  <2>5. QED
    BY <2>1, <2>2, <2>3, <2>4 DEF DInv
<1>2. DInv /\ [Next]_vars => DInv'
  <2>1. CASE UNCHANGED vars
    BY <2>1, DStays DEF vars
  <2>2. QED
    BY <2>1, StepKept
<1>3. QED
  BY <1>1, <1>2, PTL DEF Spec

(* What is in the columns of crates and playlists is legal, and the path of*)
(* a crate is that of its parent and its own title, except for crates that *)
(* set_parent has put elsewhere, whose path it does not write: in libraries*)
(* of every size, however crates are created, renamed, moved and removed   *)
(* (engine_crate_impl.cpp).                                                *)
THEOREM ColumnsStaySound ==
  ASSUME Diligent, Shallow
  PROVE  Spec => []ColumnsAreSound
  BY DInvHolds, DInvIsEnough, PTL

(* Every call on crates and on the names of playlists does to names, tree  *)
(* and tracks what the header promises, and nothing to anything else; one  *)
(* that fails changes nothing, and only fails for a name that is not legal *)
(* or a crate that is to be its own parent.  A new crate is empty, though  *)
(* ids come back, and crates and playlists are distinct, though they share *)
(* a table (engine_crate_impl.cpp, engine_database_impl.cpp).              *)
THEOREM PromisesAreKept ==
  ASSUME Diligent
  PROVE  Spec => KeepsPromises
<1>1. DInv /\ [Next]_vars => [Kept]_vars
  BY StepKept
<1>2. QED
  BY <1>1, DInvHolds, PTL DEF Spec, KeepsPromises, Kept
=============================================================================
