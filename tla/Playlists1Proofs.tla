--------------------------- MODULE Playlists1Proofs ---------------------------
(***************************************************************************)
(* Proofs about Playlists1, for every number of playlists, tracks and rows:*)
(* of the rows, whatever traps the caller does not keep clear of; and of   *)
(* what is read of them, for a caller who keeps clear of all.              *)
(*                                                                         *)
(* The UPDATE of a view is a recursive function over the rows, one trigger *)
(* at a time, so what it leaves is shown by induction over the rowids: a   *)
(* claim about every rowid that is false somewhere is false at a least one.*)
(***************************************************************************)
EXTENDS Playlists1, RowProofs, TLAPS

-----------------------------------------------------------------------------
(* Statements. *)

(* A table with legal rows, but for numbers up to N. *)
Legal(R, N) ==
  /\ DOMAIN R \subseteq 1 .. MaxRow
  /\ R \in [DOMAIN R -> [list : 1 .. MaxPlaylist, track : 1 .. MaxTrack, number : 0 .. N]]

(* Rows of a playlist that share a number hold one track, and are in a view.*)
Apart(R) ==
  \A j, k \in DOMAIN R :
    j # k /\ R[j].list = R[k].list /\ R[j].number = R[k].number
      => views /\ R[j].track = R[k].track

(* Every number from that of row k to that of row i is one of their track. *)
Filled(R, p, k, i) ==
  \A m \in R[k].number .. R[i].number :
    \E h \in Of(R, p) : R[h].track = R[k].track /\ R[h].number = m

(* A row that the UPDATE of the view is about, in the middle of it, is as  *)
(* it was, or has the number after that of a row of its track which it was *)
(* not behind, and between which there is no other track; in the end it is *)
(* as the latter.                                                          *)
LEMMA ViewShape ==
  ASSUME NEW N \in Nat, MaxRow \in Nat, NEW R, Legal(R, N), NEW p, NEW n \in Nat
  PROVE  LET F == ViewShifted(R, p, n)
         IN  /\ F \in [DOMAIN R -> [list : 1 .. MaxPlaylist, track : 1 .. MaxTrack, number : Nat]]
             /\ \A k \in DOMAIN R :
                  /\ F[k].list = R[k].list /\ F[k].track = R[k].track
                  /\ ~ (k \in Of(R, p) /\ R[k].number > n) => F[k].number = R[k].number
                  /\ k \in Of(R, p) /\ R[k].number > n =>
                       \E i \in Of(R, p) : /\ R[i].track = R[k].track
                                           /\ R[i].number >= R[k].number
                                           /\ F[k].number = R[i].number + 1
                                           /\ Filled(R, p, k, i)
<1> DEFINE Rows == [list : 1 .. MaxPlaylist, track : 1 .. MaxTrack, number : Nat]
           S == [DOMAIN R -> Rows]
           Hit(id) == id \in Of(R, p) /\ R[id].number > n
           Fire(id, now) == [k \in DOMAIN R |-> IF now[k] = R[id]
                                                THEN [now[k] EXCEPT !.number = @ + 1]
                                                ELSE now[k]]
           Then(f, id) == IF id = 0 THEN R
                          ELSE IF Hit(id) THEN Fire(id, f[id - 1]) ELSE f[id - 1]
           shifted == CHOOSE f : f = [id \in 0 .. MaxRow |-> Then(f, id)]
<1>1. ViewShifted(R, p, n) = shifted[MaxRow]
  BY DEF ViewShifted
<1>2. R \in S
  BY DEF Legal
<1> HIDE DEF Rows
<1>3. ASSUME NEW id, NEW now \in S
      PROVE  Fire(id, now) \in S
  <2>1. ASSUME NEW row \in Rows
        PROVE  [row EXCEPT !.number = @ + 1] \in Rows
    BY DEF Rows
  <2>2. QED
    BY <2>1
<1> HIDE DEF S, Hit, Fire
<1>4. \E f : f = [id \in 0 .. MaxRow |-> Then(f, id)]
  <2> DEFINE st == [x \in (1 .. MaxRow) \X S |-> IF Hit(x[1]) THEN Fire(x[1], x[2]) ELSE x[2]]
  <2>1. st \in [(1 .. MaxRow) \X S -> S]
    BY <1>3
  <2>2. \A id \in 1 .. MaxRow, now \in S :
          st[<<id, now>>] = IF Hit(id) THEN Fire(id, now) ELSE now
    OBVIOUS
  <2> HIDE DEF st, Then, shifted
  <2>3. PICK f \in [0 .. MaxRow -> S] :
          f[0] = R /\ \A id \in 1 .. MaxRow : f[id] = st[<<id, f[id - 1]>>]
    <3>1. Leads(st, MaxRow, S)
      BY <2>1 DEF Leads
    <3>2. \E f : Led(f, st, MaxRow, S, R)
      BY <1>2, <3>1, StepByStep
    <3>3. QED
      BY <3>2 DEF Led
  <2>4. ASSUME NEW id \in 0 .. MaxRow
        PROVE  f[id] = Then(f, id)
    <3>1. CASE id = 0
      BY <2>3, <3>1 DEF Then
    <3>2. CASE id # 0
      <4>1. id \in 1 .. MaxRow /\ id - 1 \in 0 .. MaxRow
        BY <3>2
      <4>2. QED
        BY <2>2, <2>3, <3>2, <4>1 DEF Then
    <3>3. QED
      BY <3>1, <3>2
  <2>5. QED
    BY <2>4
<1>5. shifted = [id \in 0 .. MaxRow |-> Then(shifted, id)]
  <2> HIDE DEF Then
  <2>1. QED
    BY <1>4
<1> HIDE DEF shifted
<1>6. /\ shifted[0] = R
      /\ \A id \in 1 .. MaxRow :
           shifted[id] = IF Hit(id) THEN Fire(id, shifted[id - 1]) ELSE shifted[id - 1]
  BY <1>5
<1> DEFINE Same(F, k) == F[k].list = R[k].list /\ F[k].track = R[k].track
           Ahead(F, k) == \E i \in Of(R, p) : /\ R[i].track = R[k].track
                                              /\ R[i].number >= R[k].number
                                              /\ F[k].number = R[i].number + 1
                                              /\ Filled(R, p, k, i)
           After(id) == /\ shifted[id] \in S
                        /\ \A k \in DOMAIN R :
                             /\ Same(shifted[id], k)
                             /\ ~Hit(k) => shifted[id][k] = R[k]
                             /\ Hit(k) => \/ shifted[id][k] = R[k] /\ k > id
                                          \/ Ahead(shifted[id], k)
           P == {id \in 0 .. MaxRow : After(id)}
<1>7. 0 \in P
  <2>1. \A k \in DOMAIN R : k > 0
    BY DEF Legal
  <2>2. QED
    BY <1>2, <1>6, <2>1
<1>8. ASSUME NEW id \in 1 .. MaxRow, id - 1 \in P
      PROVE  id \in P
  <2> DEFINE now == shifted[id - 1]
             F == shifted[id]
  <2>1. After(id - 1)
    BY <1>8
  <2>2. CASE ~Hit(id)
    <3>1. F = now
      BY <1>6, <2>2
    <3>2. \A k \in DOMAIN R : Hit(k) => k # id
      BY <2>2
    <3>3. \A k \in DOMAIN R : k > id - 1 /\ k # id => k > id
      BY DEF Legal
    <3>4. QED
      BY <2>1, <3>1, <3>2, <3>3
  <2>3. CASE Hit(id)
    <3>1. F = Fire(id, now)
      BY <1>6, <2>3
    <3>2. F \in S
      BY <1>3, <2>1, <3>1
    <3>3. id \in DOMAIN R /\ R[id].list = p /\ R[id].number > n
      BY <2>3 DEF Hit, Of
    <3>4. ASSUME NEW k \in DOMAIN R
          PROVE  /\ Same(F, k)
                 /\ ~Hit(k) => F[k] = R[k]
                 /\ Hit(k) => (F[k] = R[k] /\ k > id) \/ Ahead(F, k)
      <4>1. now[k] \in Rows /\ R[k] \in Rows /\ R[id] \in Rows
        BY <1>2, <2>1, <3>3 DEF S
      <4>2. CASE now[k] # R[id]
        <5>1. F[k] = now[k]
          BY <3>1, <4>2 DEF Fire
        <5>2. now[k] = R[k] => k # id
          BY <4>2
        <5>3. k > id - 1 /\ k # id => k > id
          BY DEF Legal
        <5>4. QED
          BY <2>1, <5>1, <5>2, <5>3
      <4>3. CASE now[k] = R[id]
        <5>1. F[k] = [R[id] EXCEPT !.number = @ + 1]
          BY <3>1, <4>3 DEF Fire
        <5>2. /\ F[k].list = R[id].list /\ F[k].track = R[id].track
              /\ F[k].number = R[id].number + 1
          BY <4>1, <5>1 DEF Rows
        <5>3. R[id].list = R[k].list /\ R[id].track = R[k].track
          BY <2>1, <4>3
        <5>4. R[id].number >= R[k].number /\ Filled(R, p, k, id)
          <6>1. CASE now[k] = R[k]
            <7>1. R[id].number = R[k].number /\ R[k].number \in Nat
              BY <4>1, <4>3, <6>1 DEF Rows
            <7>2. id \in Of(R, p) /\ R[id].track = R[k].track
              BY <2>3, <4>3, <6>1 DEF Hit
            <7>3. QED
              BY <7>1, <7>2 DEF Filled
          <6>2. CASE Ahead(now, k)
            <7>1. PICK i \in Of(R, p) : /\ R[i].number >= R[k].number
                                        /\ now[k].number = R[i].number + 1
                                        /\ Filled(R, p, k, i)
              BY <6>2
            <7>2. /\ R[i].number \in Nat /\ R[k].number \in Nat
                  /\ R[id].number = R[i].number + 1
              BY <1>2, <4>1, <4>3, <7>1 DEF Rows, S, Of
            <7>3. id \in Of(R, p) /\ R[id].track = R[k].track
              BY <2>1, <2>3, <4>3 DEF Hit
            <7>4. ASSUME NEW m \in R[k].number .. R[id].number
                  PROVE  m \in R[k].number .. R[i].number \/ m = R[id].number
              BY <7>1, <7>2
            <7>5. QED
              BY <7>1, <7>2, <7>3, <7>4 DEF Filled
          <6>3. QED
            BY <2>1, <6>1, <6>2
        <5>5. Hit(k)
          <6>1. CASE now[k] = R[k]
            BY <3>3, <4>3, <6>1 DEF Hit, Of
          <6>2. QED
            BY <2>1, <6>1
        <5>6. id \in Of(R, p)
          BY <2>3 DEF Hit
        <5>7. Ahead(F, k)
          BY <5>2, <5>3, <5>4, <5>6
        <5>8. QED
          BY <5>2, <5>3, <5>5, <5>7
      <4>4. QED
        BY <4>2, <4>3
    <3>5. QED
      BY <3>2, <3>4
  <2>4. QED
    BY <2>2, <2>3
<1> HIDE DEF P
<1>9. MaxRow \in P
  BY <1>7, <1>8, UpTo
<1>10. After(MaxRow)
  BY <1>9 DEF P
<1>11. \A k \in DOMAIN R : ~ (k > MaxRow)
  BY DEF Legal
<1>12. QED
  BY <1>1, <1>10, <1>11 DEF Hit, S, Rows

(* The UPDATE of the table moves every row that it is about by one. *)
LEMMA TableShape ==
  ASSUME NEW N \in Nat, NEW R, Legal(R, N), NEW p, NEW n \in Nat
  PROVE  LET F == TableShifted(R, p, n)
         IN  /\ F \in [DOMAIN R -> [list : 1 .. MaxPlaylist, track : 1 .. MaxTrack, number : Nat]]
             /\ \A k \in DOMAIN R :
                  /\ F[k].list = R[k].list /\ F[k].track = R[k].track
                  /\ F[k].number = IF k \in Of(R, p) /\ R[k].number > n
                                   THEN R[k].number + 1 ELSE R[k].number
<1> DEFINE Rows == [list : 1 .. MaxPlaylist, track : 1 .. MaxTrack, number : Nat]
           F == TableShifted(R, p, n)
           Hit(k) == k \in Of(R, p) /\ R[k].number > n
<1>1. F = [k \in DOMAIN R |-> IF Hit(k) THEN [R[k] EXCEPT !.number = @ + 1] ELSE R[k]]
  BY DEF TableShifted
<1> HIDE DEF F, Hit
<1>2. ASSUME NEW k \in DOMAIN R
      PROVE  /\ F[k] \in Rows
             /\ F[k].list = R[k].list /\ F[k].track = R[k].track
             /\ F[k].number = IF Hit(k) THEN R[k].number + 1 ELSE R[k].number
  <2>1. R[k] \in Rows
    BY DEF Legal
  <2>2. CASE Hit(k)
    BY <1>1, <2>1, <2>2
  <2>3. CASE ~Hit(k)
    BY <1>1, <2>1, <2>3
  <2>4. QED
    BY <2>2, <2>3
<1>3. F \in [DOMAIN R -> Rows]
  BY <1>1, <1>2
<1>4. QED
  BY <1>2, <1>3 DEF F, Hit

(* Rows as every call leaves them. *)
Sound(R) == Legal(R, MaxNumber) /\ Apart(R)

(* Every row is about a playlist of P and a track of T. *)
Refers(R, P, T) == \A k \in DOMAIN R : R[k].list \in P /\ R[k].track \in T

(* Room after n: the rows of a playlist whose numbers follow n move on, and*)
(* are sound again with n + 1 free, in the table and in the view.          *)
LEMMA ShiftedKeeps ==
  ASSUME MaxRow \in Nat, MaxNumber \in Nat, NEW R, Sound(R), NEW p, NEW n \in Nat,
         \A k \in Of(R, p) : R[k].number + 1 <= MaxNumber
  PROVE  LET F == Shifted(R, p, n)
         IN  /\ Sound(F) /\ DOMAIN F = DOMAIN R
             /\ \A k \in DOMAIN R : F[k].list = R[k].list /\ F[k].track = R[k].track
             /\ \A k \in Of(F, p) : F[k].number # n + 1
             /\ \A k \in DOMAIN R :
                  IF k \in Of(R, p) /\ R[k].number > n THEN F[k].number > n + 1
                                                       ELSE F[k].number = R[k].number
<1> DEFINE Rows == [list : 1 .. MaxPlaylist, track : 1 .. MaxTrack, number : Nat]
           F == Shifted(R, p, n)
           Hit(k) == k \in Of(R, p) /\ R[k].number > n
           (* Row i is what gave row k its number. *)
           From(k, i) == /\ i \in Of(R, p) /\ R[i].track = R[k].track
                         /\ R[i].number >= R[k].number
                         /\ F[k].number = R[i].number + 1
                         /\ ~views => i = k
<1>1. /\ F \in [DOMAIN R -> Rows]
      /\ \A k \in DOMAIN R :
           /\ F[k].list = R[k].list /\ F[k].track = R[k].track
           /\ ~Hit(k) => F[k].number = R[k].number
           /\ Hit(k) => \E i : From(k, i)
  <2>1. \A k \in Of(R, p) : R[k].number \in Nat
    BY DEF Sound, Legal, Of
  <2>2. CASE views
    <3>1. F = ViewShifted(R, p, n)
      BY <2>2 DEF Shifted
    <3>2. QED
      BY <2>2, <3>1, ViewShape DEF Sound
  <2>3. CASE ~views
    <3>1. F = TableShifted(R, p, n)
      BY <2>3 DEF Shifted
    <3> HIDE DEF F
    <3>2. /\ F \in [DOMAIN R -> Rows]
          /\ \A k \in DOMAIN R :
               /\ F[k].list = R[k].list /\ F[k].track = R[k].track
               /\ F[k].number = IF Hit(k) THEN R[k].number + 1 ELSE R[k].number
      BY <3>1, TableShape DEF Sound
    <3>3. ASSUME NEW k \in DOMAIN R, Hit(k)
          PROVE  From(k, k)
      BY <2>1, <3>2, <3>3
    <3>4. QED
      BY <3>2, <3>3
  <2>4. QED
    BY <2>2, <2>3
<1> HIDE DEF F, From
<1>2. DOMAIN F = DOMAIN R
  BY <1>1
<1>3. \A k \in DOMAIN R : /\ R[k] \in [list : 1 .. MaxPlaylist, track : 1 .. MaxTrack, number : 0 .. MaxNumber]
                          /\ F[k] \in Rows
  BY <1>1 DEF Sound, Legal
<1>4. \A k \in DOMAIN R : Hit(k) => /\ F[k].number \in Nat /\ F[k].number > n + 1
                                    /\ F[k].number <= MaxNumber
  <2>1. ASSUME NEW k \in DOMAIN R, Hit(k)
        PROVE  /\ F[k].number \in Nat /\ F[k].number > n + 1
               /\ F[k].number <= MaxNumber
    <3>1. PICK i : From(k, i)
      BY <1>1, <2>1
    <3>2. i \in DOMAIN R /\ i \in Of(R, p) /\ F[k].number = R[i].number + 1
          /\ R[i].number >= R[k].number
      BY <3>1 DEF From, Of
    <3>3. R[i].number \in Nat /\ R[k].number \in Nat /\ R[i].number + 1 <= MaxNumber
      BY <1>3, <3>2
    <3>4. QED
      BY <2>1, <3>2, <3>3
  <2>2. QED
    BY <2>1
<1>5. \A k \in DOMAIN R : ~Hit(k) => /\ F[k].number = R[k].number
                                     /\ F[k].number \in 0 .. MaxNumber
                                     /\ R[k].list = p => F[k].number <= n
  BY <1>1, <1>3 DEF Of
<1>6. Legal(F, MaxNumber)
  <2>1. \A k \in DOMAIN R : F[k].number \in 0 .. MaxNumber
    BY <1>4, <1>5
  <2>2. DOMAIN R \subseteq 1 .. MaxRow
    BY DEF Sound, Legal
  <2>3. ASSUME NEW k \in DOMAIN R
        PROVE  F[k] \in [list : 1 .. MaxPlaylist, track : 1 .. MaxTrack, number : 0 .. MaxNumber]
    BY <1>3, <2>1
  <2>4. QED
    BY <1>1, <1>2, <2>2, <2>3 DEF Legal
<1>7. ASSUME NEW j \in DOMAIN R, NEW k \in DOMAIN R,
             j # k, F[j].list = F[k].list, F[j].number = F[k].number
      PROVE  views /\ F[j].track = F[k].track
  <2>1. /\ R[j].list = R[k].list
        /\ F[j].track = R[j].track /\ F[k].track = R[k].track
    BY <1>1, <1>7
  <2>2. \A x, y \in DOMAIN R : x # y /\ R[x].list = R[y].list /\ R[x].number = R[y].number
          => views /\ R[x].track = R[y].track
    BY DEF Sound, Apart
  <2>3. CASE ~Hit(j) /\ ~Hit(k)
    <3>1. R[j].number = R[k].number
      BY <1>5, <1>7, <2>3
    <3>2. QED
      BY <1>7, <2>1, <2>2, <3>1
  <2>4. CASE Hit(j) /\ ~Hit(k)
    <3>1. R[k].list = p
      BY <2>1, <2>4 DEF Of
    <3>2. QED
      BY <1>4, <1>5, <1>7, <2>4, <3>1
  <2>5. CASE ~Hit(j) /\ Hit(k)
    <3>1. R[j].list = p
      BY <2>1, <2>5 DEF Of
    <3>2. QED
      BY <1>4, <1>5, <1>7, <2>5, <3>1
  <2>6. CASE Hit(j) /\ Hit(k)
    <3>1. PICK x : From(j, x)
      BY <1>1, <2>6
    <3>2. PICK y : From(k, y)
      BY <1>1, <2>6
    <3>3. /\ x \in DOMAIN R /\ R[x].list = p /\ R[x].track = R[j].track
          /\ y \in DOMAIN R /\ R[y].list = p /\ R[y].track = R[k].track
          /\ F[j].number = R[x].number + 1 /\ F[k].number = R[y].number + 1
          /\ ~views => x = j /\ y = k
      BY <3>1, <3>2 DEF From, Of
    <3>4. R[x].number = R[y].number
      <4>1. R[x].number \in Nat /\ R[y].number \in Nat
        BY <1>3, <3>3
      <4>2. R[x].number + 1 = R[y].number + 1
        BY <1>7, <3>3
      <4>3. QED
        BY <4>1, <4>2
    <3>5. CASE x = y
      BY <1>7, <2>1, <3>3, <3>5
    <3>6. CASE x # y
      BY <2>1, <2>2, <3>3, <3>4, <3>6
    <3>7. QED
      BY <3>5, <3>6
  <2>7. QED
    BY <2>3, <2>4, <2>5, <2>6
<1>8. Apart(F)
  BY <1>2, <1>7 DEF Apart
<1>9. ASSUME NEW k \in Of(F, p)
      PROVE  F[k].number # n + 1
  <2>1. k \in DOMAIN R /\ R[k].list = p
    BY <1>1, <1>2 DEF Of
  <2>2. CASE Hit(k)
    BY <1>4, <2>1, <2>2
  <2>3. CASE ~Hit(k)
    BY <1>5, <2>1, <2>3
  <2>4. QED
    BY <2>2, <2>3
<1>10. QED
  BY <1>1, <1>2, <1>4, <1>6, <1>8, <1>9 DEF F, Sound

(* No two tracks change places. *)
LEMMA ShiftedKeepsOrder ==
  ASSUME MaxRow \in Nat, MaxNumber \in Nat, NEW R, Sound(R), NEW p, NEW n \in Nat,
         NEW j \in Of(R, p), NEW k \in Of(R, p), R[j].track # R[k].track, Earlier(R, j, k)
  PROVE  Earlier(Shifted(R, p, n), j, k)
<1> DEFINE F == Shifted(R, p, n)
<1>1. j \in DOMAIN R /\ k \in DOMAIN R /\ R[j].list = p /\ R[k].list = p /\ j # k
  BY DEF Of
<1>2. \A i \in Of(R, p) : R[i].number \in Nat
  BY DEF Sound, Legal, Of
<1>3. R[j].number < R[k].number
  <2>1. R[j].number # R[k].number
    BY <1>1 DEF Sound, Apart
  <2>2. QED
    BY <2>1 DEF Earlier
<1>4. CASE ~views
  <2>1. F = TableShifted(R, p, n)
    BY <1>4 DEF Shifted
  <2> HIDE DEF F
  <2>2. \A i \in Of(R, p) : F[i].number = IF R[i].number > n THEN R[i].number + 1
                                                            ELSE R[i].number
    <3>1. \A i \in Of(R, p) : i \in DOMAIN R
      BY DEF Of
    <3>2. QED
      BY <2>1, <3>1, TableShape DEF Sound
  <2>3. F[j].number < F[k].number
    BY <1>2, <1>3, <2>2
  <2>4. QED
    BY <2>3 DEF Earlier, F
<1>5. CASE views
  <2>1. F = ViewShifted(R, p, n)
    BY <1>5 DEF Shifted
  <2> HIDE DEF F
  <2>2. ASSUME NEW i \in Of(R, p)
        PROVE  /\ ~ (R[i].number > n) => F[i].number = R[i].number
               /\ R[i].number > n =>
                    \E h \in Of(R, p) : /\ R[h].track = R[i].track
                                        /\ R[h].number >= R[i].number
                                        /\ F[i].number = R[h].number + 1
                                        /\ Filled(R, p, i, h)
    <3>1. i \in DOMAIN R
      BY DEF Of
    <3>2. QED
      BY <2>1, <3>1, ViewShape DEF Sound
  <2>3. F[k].number \in Nat /\ F[k].number >= R[k].number
        /\ (R[k].number > n => F[k].number > R[k].number)
    BY <1>2, <2>2
  <2>4. CASE ~ (R[j].number > n)
    <3>1. F[j].number < F[k].number
      BY <1>2, <1>3, <2>2, <2>3, <2>4
    <3>2. QED
      BY <3>1 DEF Earlier, F
  <2>5. CASE R[j].number > n
    <3>1. PICK h \in Of(R, p) : /\ R[h].number >= R[j].number
                                /\ F[j].number = R[h].number + 1
                                /\ Filled(R, p, j, h)
      BY <2>2, <2>5
    <3>2. R[h].number < R[k].number
      <4> SUFFICES ASSUME ~ (R[h].number < R[k].number)
                   PROVE  FALSE
        OBVIOUS
      <4>1. R[k].number \in R[j].number .. R[h].number
        BY <1>2, <1>3, <3>1
      <4>2. PICK i \in Of(R, p) : R[i].track = R[j].track /\ R[i].number = R[k].number
        BY <3>1, <4>1 DEF Filled
      <4>3. i \in DOMAIN R /\ R[i].list = R[k].list /\ i # k
        BY <1>1, <4>2 DEF Of
      <4>4. R[i].track = R[k].track
        BY <1>1, <4>2, <4>3 DEF Sound, Apart
      <4>5. QED
        BY <4>2, <4>4
    <3>3. F[j].number < F[k].number
      BY <1>2, <1>3, <2>3, <2>5, <3>1, <3>2
    <3>4. QED
      BY <3>3 DEF Earlier, F
  <2>6. QED
    BY <2>4, <2>5
<1>6. QED
  BY <1>4, <1>5

(* A new row with a number that is free in its playlist. *)
LEMMA InsertedKeeps ==
  ASSUME MaxRow \in Nat, NEW R, Sound(R), Highest(DOMAIN R) < MaxRow,
         NEW p \in 1 .. MaxPlaylist, NEW t \in 1 .. MaxTrack, NEW n \in 0 .. MaxNumber,
         \A k \in Of(R, p) : R[k].number # n
  PROVE  LET T == InsertedLast(R, [list |-> p, track |-> t, number |-> n])
         IN  /\ Sound(T)
             /\ \A P, Q : Refers(R, P, Q) /\ p \in P /\ t \in Q => Refers(T, P, Q)
<1> DEFINE row == [list |-> p, track |-> t, number |-> n]
           T == InsertedLast(R, row)
           id == Highest(DOMAIN R) + 1
<1>1. DOMAIN R \subseteq 1 .. MaxRow
  BY DEF Sound, Legal
<1> HIDE DEF row
<1>2. OneMore(T, R, id, row)
  BY <1>1, InsertedShape
<1>3. Highest(DOMAIN R) \in 0 .. MaxRow
  <2>1. DOMAIN R \in SUBSET (0 .. MaxRow)
    BY <1>1
  <2>2. QED
    BY <2>1, HighestIsHighest
<1>4. id \in 1 .. MaxRow
  BY <1>3
<1> USE DEF OneMore
<1> HIDE DEF T, id
<1>5. Legal(T, MaxNumber)
  <2>1. \A k \in DOMAIN T : T[k] \in [list : 1 .. MaxPlaylist, track : 1 .. MaxTrack, number : 0 .. MaxNumber]
    BY <1>2 DEF Sound, Legal, row
  <2>2. QED
    BY <1>1, <1>2, <1>4, <2>1 DEF Legal
<1>6. Apart(T)
  <2>1. ASSUME NEW k \in DOMAIN R, R[k].list = p
        PROVE  R[k].number # n
    BY <2>1 DEF Of
  <2>2. row.list = p /\ row.number = n
    BY DEF row
  <2>3. QED
    BY <1>2, <2>1, <2>2 DEF Sound, Apart
<1>7. ASSUME NEW P, NEW Q, Refers(R, P, Q), p \in P, t \in Q
      PROVE  Refers(T, P, Q)
  BY <1>2, <1>7 DEF Refers, row
<1>8. QED
  BY <1>5, <1>6, <1>7 DEF Sound, T, row

(* Rows that are gone do no harm. *)
LEMMA LackingKeeps ==
  ASSUME NEW R, Sound(R), NEW K
  PROVE  LET T == Lacking(R, K)
         IN  /\ Sound(T)
             /\ \A P, Q : Refers(R, P, Q) => Refers(T, P, Q)
             /\ DOMAIN T = DOMAIN R \ K /\ \A k \in DOMAIN T : T[k] = R[k]
<1> DEFINE T == Lacking(R, K)
<1>1. /\ DOMAIN T = DOMAIN R \ K /\ \A k \in DOMAIN T : T[k] = R[k]
      /\ T = [k \in DOMAIN T |-> T[k]]
  BY DEF Lacking
<1> HIDE DEF T
<1>2. Legal(T, MaxNumber)
  BY <1>1 DEF Sound, Legal
<1>3. Apart(T)
  BY <1>1 DEF Sound, Apart
<1>4. QED
  BY <1>1, <1>2, <1>3 DEF Sound, T, Refers

(* MAX(trackNumber) + 1 is above every number of the playlist. *)
LEMMA NextNumberIsFree ==
  ASSUME MaxNumber \in Nat, NEW R, Sound(R), NEW p
  PROVE  /\ NextNumber(R, p) \in Nat
         /\ \A k \in Of(R, p) : R[k].number \in Nat /\ R[k].number + 1 <= NextNumber(R, p)
<1> DEFINE numbers == {R[k].number : k \in Of(R, p)}
<1>1. \A k \in Of(R, p) : R[k].number \in 0 .. MaxNumber
  BY DEF Sound, Legal, Of
<1>2. numbers \in SUBSET (0 .. MaxNumber) /\ \A k \in Of(R, p) : R[k].number \in numbers
  BY <1>1
<1> HIDE DEF numbers
<1>3. Highest(numbers) \in 0 .. MaxNumber /\ \A m \in numbers : m <= Highest(numbers)
  BY <1>2, HighestIsHighest
<1>4. NextNumber(R, p) = IF Of(R, p) = {} THEN 0 ELSE Highest(numbers) + 1
  BY DEF NextNumber, numbers
<1>5. QED
  BY <1>1, <1>2, <1>3, <1>4

(* A track that has a place has a first one. *)
LEMMA FromFirstIsThere ==
  ASSUME MaxNumber \in Nat, NEW R, Sound(R), NEW p, NEW t, Places(R, p, t) # {}
  PROVE  \E k \in Of(R, p) : FromFirst(R, p, t) = R[k].number
<1> DEFINE numbers == {R[k].number : k \in Places(R, p, t)}
<1>1. \A k \in Places(R, p, t) : k \in Of(R, p) /\ R[k].number \in Nat
  BY DEF Sound, Legal, Of, Places
<1>2. numbers \in SUBSET Nat /\ numbers # {} /\ \A k \in Places(R, p, t) : R[k].number \in numbers
  BY <1>1
<1>3. \E n \in numbers : \A m \in numbers : n <= m
  <2> HIDE DEF numbers
  <2>1. QED
    BY <1>2, LeastOf
<1>4. \E n \in numbers : \A k \in Places(R, p, t) : n <= R[k].number
  BY <1>2, <1>3
<1>5. FromFirst(R, p, t) \in numbers
  BY <1>4 DEF FromFirst
<1>6. QED
  BY <1>1, <1>5

-----------------------------------------------------------------------------
(* What is read of a playlist.  Every row has a place, one above the number*)
(* of rows before it, and tracks() has its track there.                    *)

(* Rows whose order is definite. *)
Numbered(R) ==
  /\ IsFiniteSet(DOMAIN R) /\ DOMAIN R \subseteq Nat
  /\ \A k \in DOMAIN R : R[k].number \in Nat

(* Rows come one before the other. *)
LEMMA EarlierIsOrder ==
  ASSUME NEW R, Numbered(R)
  PROVE  /\ \A i, j, k \in DOMAIN R : Earlier(R, i, j) /\ Earlier(R, j, k) => Earlier(R, i, k)
         /\ \A k \in DOMAIN R : ~Earlier(R, k, k)
         /\ \A j, k \in DOMAIN R : j # k => Earlier(R, j, k) \/ Earlier(R, k, j)
         /\ \A j, k \in DOMAIN R : ~ (Earlier(R, j, k) /\ Earlier(R, k, j))
  BY DEF Numbered, Earlier

(* The rows of a playlist have each a place of its own, in order. *)
LEMMA RanksAreOrder ==
  ASSUME NEW R, Numbered(R), NEW p
  PROVE  LET K == Of(R, p)
             N == Cardinality(Of(R, p))
         IN  /\ IsFiniteSet(K) /\ K \subseteq DOMAIN R /\ N \in Nat
             /\ \A k \in K : Rank(R, p, k) \in 1 .. N
             /\ \A j, k \in K : Earlier(R, j, k) <=> Rank(R, p, j) < Rank(R, p, k)
             /\ \A j, k \in K : Rank(R, p, j) = Rank(R, p, k) => j = k
             /\ \A n \in 1 .. N : \E k \in K : Rank(R, p, k) = n
<1> DEFINE K == Of(R, p)
           N == Cardinality(K)
           Prior(k) == {j \in K : Earlier(R, j, k)}
           rank == [k \in K |-> Cardinality(Prior(k)) + 1]
<1>1. K \subseteq DOMAIN R
  BY DEF Of
<1>2. IsFiniteSet(K) /\ N \in Nat
  BY <1>1, FS_Subset, FS_CardinalityType DEF Numbered
<1>3. \A k \in K : rank[k] = Rank(R, p, k)
  BY DEF Rank
<1>4. /\ \A i, j, k \in K : Earlier(R, i, j) /\ Earlier(R, j, k) => Earlier(R, i, k)
      /\ \A k \in K : ~Earlier(R, k, k)
      /\ \A j, k \in K : j # k => Earlier(R, j, k) \/ Earlier(R, k, j)
  BY <1>1, EarlierIsOrder
<1> HIDE DEF K
<1>5. ASSUME NEW k \in K
      PROVE  IsFiniteSet(Prior(k)) /\ Cardinality(Prior(k)) \in 0 .. N - 1
  <2>1. Prior(k) \in SUBSET K /\ k \notin Prior(k)
    BY <1>4
  <2> HIDE DEF Prior
  <2>2. /\ IsFiniteSet(Prior(k)) /\ Cardinality(Prior(k)) <= N
        /\ Cardinality(Prior(k)) # N
    BY <1>2, <2>1, FS_Subset
  <2>3. Cardinality(Prior(k)) \in Nat
    BY <2>2, FS_CardinalityType
  <2>4. QED
    BY <1>2, <2>2, <2>3
<1>6. ASSUME NEW j \in K, NEW k \in K, Earlier(R, j, k)
      PROVE  Cardinality(Prior(j)) < Cardinality(Prior(k))
  <2>1. Prior(j) \in SUBSET Prior(k) /\ j \in Prior(k) /\ j \notin Prior(j)
    BY <1>4, <1>6
  <2>2. /\ Cardinality(Prior(j)) <= Cardinality(Prior(k))
        /\ Cardinality(Prior(j)) # Cardinality(Prior(k))
    <3> HIDE DEF Prior
    <3>1. QED
      BY <1>5, <2>1, FS_Subset
  <2>3. Cardinality(Prior(j)) \in Nat /\ Cardinality(Prior(k)) \in Nat
    <3> HIDE DEF Prior
    <3>1. QED
      BY <1>2, <1>5
  <2> HIDE DEF Prior
  <2>4. QED
    BY <2>2, <2>3
<1>7. \A k \in K : rank[k] \in 1 .. N /\ rank[k] = Cardinality(Prior(k)) + 1
                   /\ Cardinality(Prior(k)) \in Nat
  <2> HIDE DEF Prior
  <2>1. QED
    BY <1>2, <1>5
<1>8. rank \in [K -> 1 .. N]
  <2>1. rank = [k \in K |-> rank[k]]
    OBVIOUS
  <2> HIDE DEF rank
  <2>2. QED
    BY <1>7, <2>1
<1> HIDE DEF rank, Prior
<1>9. \A j, k \in K : Earlier(R, j, k) => rank[j] < rank[k]
  BY <1>6, <1>7
<1>10. \A k \in K : rank[k] \in Nat
  BY <1>2, <1>7
<1>11. \A j, k \in K : Earlier(R, j, k) <=> rank[j] < rank[k]
  BY <1>4, <1>9, <1>10
<1>12. \A j, k \in K : rank[j] = rank[k] => j = k
  BY <1>4, <1>9, <1>10
<1>13. \A n \in 1 .. N : \E k \in K : rank[k] = n
  <2>1. rank \in Injection(K, 1 .. N)
    BY <1>8, <1>12 DEF Injection, IsInjective
  <2>2. IsFiniteSet(1 .. N) /\ Cardinality(1 .. N) = N
    BY <1>2, FS_Interval
  <2>3. rank \in Surjection(K, 1 .. N)
    <3> HIDE DEF N
    <3>1. N = Cardinality(K)
      BY DEF N
    <3>2. QED
      BY <1>2, <2>1, <2>2, <3>1, FS_Injection
  <2>4. QED
    BY <2>3 DEF Surjection
<1>14. QED
  BY <1>1, <1>2, <1>3, <1>7, <1>11, <1>12, <1>13 DEF K

(* tracks() has the track of every row in the place of that row. *)
LEMMA ContentByRank ==
  ASSUME NEW R, Numbered(R), NEW p
  PROVE  /\ Cardinality(Of(R, p)) \in Nat
         /\ Content(R, p) \in Seq({R[k].track : k \in Of(R, p)})
         /\ Len(Content(R, p)) = Cardinality(Of(R, p))
         /\ \A k \in Of(R, p) : Content(R, p)[Rank(R, p, k)] = R[k].track
<1> DEFINE K == Of(R, p)
           N == Cardinality(K)
           At1(n) == CHOOSE k \in K : Rank(R, p, k) = n
           S == {R[k].track : k \in K}
<1>1. N \in Nat /\ \A n \in 1 .. N : \E k \in K : Rank(R, p, k) = n
  BY RanksAreOrder
<1>2. \A n \in 1 .. N : At1(n) \in K /\ Rank(R, p, At1(n)) = n
  BY <1>1
<1>3. Content(R, p) = [n \in 1 .. N |-> R[At1(n)].track]
  BY DEF Content
<1>4. \A j, k \in K : Rank(R, p, j) = Rank(R, p, k) => j = k
  BY RanksAreOrder
<1>5. \A k \in K : Rank(R, p, k) \in 1 .. N
  BY RanksAreOrder
<1> HIDE DEF K, N, At1
<1>6. \A n \in 1 .. N : R[At1(n)].track \in S
  BY <1>2
<1>7. \A k \in K : At1(Rank(R, p, k)) = k
  BY <1>2, <1>4, <1>5
<1> HIDE DEF S
<1>8. Content(R, p) \in [1 .. N -> S]
  BY <1>3, <1>6
<1>9. Content(R, p) \in Seq(S) /\ Len(Content(R, p)) = N
  BY <1>1, <1>8
<1>10. QED
  BY <1>1, <1>3, <1>5, <1>7, <1>9 DEF K, N, S

(* What is read depends on the order of different tracks alone. *)
LEMMA SameContent ==
  ASSUME NEW R, NEW T, Numbered(R), Numbered(T), NEW p, Of(T, p) = Of(R, p),
         \A k \in Of(R, p) : T[k].track = R[k].track,
         \A j, k \in Of(R, p) :
           R[j].track # R[k].track /\ Earlier(R, j, k) => Earlier(T, j, k)
  PROVE  Content(T, p) = Content(R, p)
<1> DEFINE K == Of(R, p)
           N == Cardinality(K)
           S == {R[k].track : k \in K}
<1>1. /\ IsFiniteSet(K) /\ N \in Nat
      /\ \A n \in 1 .. N : \E k \in K : Rank(R, p, k) = n
      /\ \A n \in 1 .. N : \E k \in K : Rank(T, p, k) = n
  BY RanksAreOrder
<1>2. /\ \A i, j, k \in K : Earlier(R, i, j) /\ Earlier(R, j, k) => Earlier(R, i, k)
      /\ \A k \in K : ~Earlier(R, k, k)
      /\ \A j, k \in K : j # k => Earlier(R, j, k) \/ Earlier(R, k, j)
      /\ \A j, k \in K : ~ (Earlier(R, j, k) /\ Earlier(R, k, j))
  <2>1. K \subseteq DOMAIN R
    BY DEF Of
  <2>2. QED
    BY <2>1, EarlierIsOrder
<1>3. /\ \A i, j, k \in K : Earlier(T, i, j) /\ Earlier(T, j, k) => Earlier(T, i, k)
      /\ \A k \in K : ~Earlier(T, k, k)
      /\ \A j, k \in K : ~ (Earlier(T, j, k) /\ Earlier(T, k, j))
  <2>1. K \subseteq DOMAIN T
    BY DEF Of
  <2>2. QED
    BY <2>1, EarlierIsOrder
<1>4. /\ \A k \in K : Rank(R, p, k) = Cardinality({j \in K : Earlier(R, j, k)}) + 1
      /\ \A k \in K : Rank(T, p, k) = Cardinality({j \in K : Earlier(T, j, k)}) + 1
  BY DEF Rank
<1>5. ASSUME NEW n \in 1 .. N, NEW a \in K, NEW b \in K,
             Rank(R, p, a) = n, Rank(T, p, b) = n, R[a].track # R[b].track
      PROVE  FALSE
  <2> DEFINE A == {j \in K : Earlier(R, j, a)}
             B == {j \in K : Earlier(T, j, b)}
  <2>1. A \in SUBSET K /\ B \in SUBSET K
    OBVIOUS
  <2>2. IsFiniteSet(A) /\ IsFiniteSet(B) /\ Cardinality(A) \in Nat /\ Cardinality(B) \in Nat
    <3> HIDE DEF A, B, K
    <3>1. QED
      BY <1>1, <2>1, FS_Subset, FS_CardinalityType
  <2>3. Cardinality(A) + 1 = n /\ Cardinality(B) + 1 = n
    BY <1>4, <1>5
  <2>4. Cardinality(A) = Cardinality(B)
    <3> HIDE DEF A, B
    <3>1. QED
      BY <2>2, <2>3
  <2> HIDE DEF K
  <2>5. CASE Earlier(R, a, b)
    <3>1. Earlier(T, a, b)
      BY <1>5, <2>5 DEF K
    <3>2. ASSUME NEW x \in K, Earlier(R, x, a)
          PROVE  Earlier(T, x, b)
      <4>1. CASE R[x].track # R[b].track
        <5>1. Earlier(R, x, b)
          BY <1>2, <2>5, <3>2
        <5>2. QED
          BY <4>1, <5>1 DEF K
      <4>2. CASE R[x].track = R[b].track
        <5>1. Earlier(T, x, a)
          BY <1>5, <3>2, <4>2 DEF K
        <5>2. QED
          BY <1>3, <3>1, <5>1
      <4>3. QED
        BY <4>1, <4>2
    <3>3. A \in SUBSET B /\ a \in B /\ a \notin A
      BY <1>2, <3>1, <3>2
    <3> HIDE DEF A, B
    <3>4. QED
      BY <2>2, <2>4, <3>3, FS_Subset
  <2>6. CASE Earlier(R, b, a)
    <3>1. Earlier(T, b, a)
      BY <1>5, <2>6 DEF K
    <3>2. ASSUME NEW x \in K, Earlier(T, x, b)
          PROVE  Earlier(R, x, a)
      <4>1. CASE R[x].track # R[a].track
        <5>1. Earlier(T, x, a)
          BY <1>3, <3>1, <3>2
        <5>2. x # a /\ ~Earlier(R, a, x)
          BY <1>3, <4>1, <5>1 DEF K
        <5>3. QED
          BY <1>2, <5>2
      <4>2. CASE R[x].track = R[a].track
        <5>1. x # b /\ ~Earlier(R, b, x)
          BY <1>3, <1>5, <3>2, <4>2 DEF K
        <5>2. Earlier(R, x, b)
          BY <1>2, <5>1
        <5>3. QED
          BY <1>2, <2>6, <5>2
      <4>3. QED
        BY <4>1, <4>2
    <3>3. B \in SUBSET A /\ b \in A /\ b \notin B
      BY <1>3, <2>6, <3>2
    <3> HIDE DEF A, B
    <3>4. QED
      BY <2>2, <2>4, <3>3, FS_Subset
  <2>7. QED
    BY <1>2, <1>5, <2>5, <2>6
<1>6. /\ Content(R, p) \in Seq(S) /\ Len(Content(R, p)) = N
      /\ \A k \in K : Content(R, p)[Rank(R, p, k)] = R[k].track
  BY ContentByRank
<1>7. /\ Content(T, p) \in Seq(S) /\ Len(Content(T, p)) = N
      /\ \A k \in K : Content(T, p)[Rank(T, p, k)] = R[k].track
  <2> DEFINE Q == {T[k].track : k \in Of(T, p)}
  <2>1. /\ Content(T, p) \in Seq(Q) /\ Len(Content(T, p)) = Cardinality(Of(T, p))
        /\ \A k \in Of(T, p) : Content(T, p)[Rank(T, p, k)] = T[k].track
    BY ContentByRank
  <2>2. Q = S
    OBVIOUS
  <2> HIDE DEF Q, S
  <2>3. QED
    BY <2>1, <2>2
<1> HIDE DEF K, N, S
<1>8. ASSUME NEW n \in 1 .. N
      PROVE  Content(T, p)[n] = Content(R, p)[n]
  <2>1. PICK a \in K : Rank(R, p, a) = n
    BY <1>1
  <2>2. PICK b \in K : Rank(T, p, b) = n
    BY <1>1
  <2>3. R[a].track = R[b].track
    BY <1>5, <2>1, <2>2
  <2>4. QED
    BY <1>6, <1>7, <2>1, <2>2, <2>3
<1>9. QED
  BY <1>6, <1>7, <1>8, SeqEqual

(* A row put in comes after the first c of its playlist, and the others    *)
(* keep their order.                                                       *)
LEMMA InsertedContent ==
  ASSUME NEW R, NEW T, Numbered(R), Numbered(T), NEW id, NEW row, OneMore(T, R, id, row),
         NEW p, row.list = p, NEW c \in 0 .. Cardinality(Of(R, p)),
         \A k \in Of(R, p) : Earlier(T, k, id) <=> Rank(R, p, k) <= c
  PROVE  Content(T, p) = At(Content(R, p), c + 1, row.track)
<1> DEFINE K == Of(R, p)
           N == Cardinality(K)
           M == Cardinality(Of(T, p))
<1>1. /\ id \notin K /\ Of(T, p) = K \cup {id}
      /\ \A k \in K : T[k] = R[k]
      /\ T[id].track = row.track
  BY DEF OneMore, Of
<1>2. /\ IsFiniteSet(K) /\ N \in Nat
      /\ \A k \in K : Rank(R, p, k) \in 1 .. N
      /\ \A n \in 1 .. N : \E k \in K : Rank(R, p, k) = n
  BY RanksAreOrder
<1>3. \A n \in 1 .. M : \E k \in K \cup {id} : Rank(T, p, k) = n
  BY <1>1, RanksAreOrder
<1>4. M = N + 1
  BY <1>1, <1>2, FS_AddElement
<1>5. ASSUME NEW k \in K
      PROVE  Rank(T, p, k) = IF Rank(R, p, k) <= c THEN Rank(R, p, k) ELSE Rank(R, p, k) + 1
  <2> DEFINE A == {j \in K : Earlier(R, j, k)}
             B == {j \in K \cup {id} : Earlier(T, j, k)}
  <2>1. Rank(R, p, k) = Cardinality(A) + 1 /\ Rank(T, p, k) = Cardinality(B) + 1
    BY <1>1 DEF Rank
  <2>2. \A j \in K : Earlier(T, j, k) <=> Earlier(R, j, k)
    BY <1>1 DEF Earlier
  <2>3. IsFiniteSet(A) /\ Cardinality(A) \in Nat /\ id \notin A
    <3>1. A \in SUBSET K /\ id \notin A
      BY <1>1
    <3> HIDE DEF A
    <3>2. QED
      BY <1>2, <3>1, FS_Subset, FS_CardinalityType
  <2>4. CASE Rank(R, p, k) <= c
    <3>1. Earlier(T, k, id)
      BY <2>4
    <3>2. ~Earlier(T, id, k)
      <4>1. k \in DOMAIN T /\ id \in DOMAIN T
        BY <1>1 DEF Of, OneMore
      <4>2. QED
        BY <3>1, <4>1, EarlierIsOrder
    <3>3. B = A
      BY <2>2, <3>2
    <3>4. QED
      BY <2>1, <2>4, <3>3
  <2>5. CASE ~ (Rank(R, p, k) <= c)
    <3>1. ~Earlier(T, k, id)
      BY <2>5
    <3>2. Earlier(T, id, k)
      <4>1. k \in DOMAIN T /\ id \in DOMAIN T /\ k # id
        BY <1>1 DEF Of, OneMore
      <4>2. QED
        BY <3>1, <4>1, EarlierIsOrder
    <3>3. B = A \cup {id}
      BY <2>2, <3>2
    <3> HIDE DEF A, B
    <3>4. Cardinality(B) = Cardinality(A) + 1
      BY <2>3, <3>3, FS_AddElement
    <3>5. QED
      BY <2>1, <2>5, <3>4
  <2>6. QED
    BY <2>4, <2>5
<1> HIDE DEF K, N, M
<1>6. c \in 0 .. N
  BY DEF K, N
<1>7. Rank(T, p, id) = c + 1
  <2>1. c + 1 \in 1 .. M
    BY <1>2, <1>4, <1>6
  <2>2. PICK k \in K \cup {id} : Rank(T, p, k) = c + 1
    BY <1>3, <2>1
  <2>3. ASSUME k \in K
        PROVE  FALSE
    <3>1. Rank(R, p, k) \in Nat
      BY <1>2, <2>3
    <3>2. QED
      BY <1>5, <1>6, <2>2, <2>3, <3>1
  <2>4. QED
    BY <2>2, <2>3
<1> DEFINE s == Content(R, p)
           t == Content(T, p)
           S == {R[k].track : k \in K}
<1>8. s \in Seq(S) /\ Len(s) = N /\ \A k \in K : s[Rank(R, p, k)] = R[k].track
  BY ContentByRank DEF K, N
<1>9. /\ t \in Seq({T[k].track : k \in Of(T, p)}) /\ Len(t) = M
      /\ \A k \in Of(T, p) : t[Rank(T, p, k)] = T[k].track
  BY ContentByRank DEF M
<1>10. /\ t[c + 1] = row.track
       /\ \A k \in K : t[Rank(T, p, k)] = R[k].track
  BY <1>1, <1>7, <1>9
<1>11. {T[k].track : k \in Of(T, p)} = S \cup {row.track}
  BY <1>1
<1>12. t \in Seq(S \cup {row.track})
  BY <1>9, <1>11
<1> HIDE DEF s, t, S
<1>13. /\ At(s, c + 1, row.track) \in Seq(S \cup {row.track})
       /\ Len(At(s, c + 1, row.track)) = N + 1
       /\ \A i \in 1 .. N + 1 : At(s, c + 1, row.track)[i] =
            IF i < c + 1 THEN s[i] ELSE IF i = c + 1 THEN row.track ELSE s[i - 1]
  <2>1. c + 1 \in 1 .. Len(s) + 1
    BY <1>2, <1>6, <1>8
  <2>2. QED
    BY <1>8, <2>1, AtIsSeq DEF At
<1>14. ASSUME NEW i \in 1 .. N + 1
       PROVE  t[i] = IF i < c + 1 THEN s[i] ELSE IF i = c + 1 THEN row.track ELSE s[i - 1]
  <2>1. CASE i < c + 1
    <3>1. i \in 1 .. N /\ i <= c
      BY <1>2, <1>6, <2>1
    <3>2. PICK k \in K : Rank(R, p, k) = i
      BY <1>2, <3>1
    <3>3. Rank(T, p, k) = i
      BY <1>5, <3>1, <3>2
    <3>4. QED
      BY <1>8, <1>10, <2>1, <3>2, <3>3
  <2>2. CASE i = c + 1
    BY <1>10, <2>2
  <2>3. CASE i > c + 1
    <3>1. i - 1 \in 1 .. N /\ ~ (i - 1 <= c) /\ (i - 1) + 1 = i
      BY <1>2, <1>6, <2>3
    <3>2. PICK k \in K : Rank(R, p, k) = i - 1
      BY <1>2, <3>1
    <3>3. Rank(T, p, k) = i
      BY <1>5, <3>1, <3>2
    <3>4. QED
      BY <1>6, <1>8, <1>10, <2>3, <3>2, <3>3
  <2>4. QED
    BY <1>2, <1>6, <2>1, <2>2, <2>3
<1>15. t = At(s, c + 1, row.track)
  <2>1. Len(t) = N + 1
    BY <1>4, <1>9
  <2>2. \A i \in 1 .. N + 1 : t[i] = At(s, c + 1, row.track)[i]
    BY <1>13, <1>14
  <2>3. QED
    BY <1>12, <1>13, <2>1, <2>2, SeqEqual
<1>16. QED
  BY <1>15 DEF s, t

(* A row that goes leaves the others in their order. *)
LEMMA DroppedContent ==
  ASSUME NEW R, NEW T, Numbered(R), Numbered(T), NEW id, NEW row, OneMore(R, T, id, row),
         NEW p, row.list = p
  PROVE  /\ Rank(R, p, id) \in 1 .. Len(Content(T, p)) + 1
         /\ Content(R, p) = At(Content(T, p), Rank(R, p, id), row.track)
<1> DEFINE K == Of(T, p)
           N == Cardinality(K)
           B == {j \in K : Earlier(R, j, id)}
           c == Cardinality(B)
<1>1. /\ id \notin K /\ Of(R, p) = K \cup {id}
      /\ \A k \in K : T[k] = R[k]
  BY DEF OneMore, Of
<1>2. /\ IsFiniteSet(K) /\ N \in Nat
  BY RanksAreOrder
<1>3. /\ \A i, j, k \in K \cup {id} : Earlier(R, i, j) /\ Earlier(R, j, k) => Earlier(R, i, k)
      /\ \A k \in K \cup {id} : ~Earlier(R, k, k)
      /\ \A j, k \in K \cup {id} : j # k => Earlier(R, j, k) \/ Earlier(R, k, j)
  <2>1. K \cup {id} \subseteq DOMAIN R
    BY DEF Of, OneMore
  <2>2. QED
    BY <2>1, EarlierIsOrder
<1>4. \A j, k \in K : Earlier(T, j, k) <=> Earlier(R, j, k)
  BY <1>1 DEF Earlier
<1>5. Rank(R, p, id) = c + 1
  <2>1. {j \in K \cup {id} : Earlier(R, j, id)} = B
    BY <1>3
  <2>2. QED
    BY <1>1, <2>1 DEF Rank
<1>6. IsFiniteSet(B) /\ c \in 0 .. N
  <2>1. B \in SUBSET K
    OBVIOUS
  <2> HIDE DEF B
  <2>2. IsFiniteSet(B) /\ Cardinality(B) <= N /\ Cardinality(B) \in Nat
    BY <1>2, <2>1, FS_Subset, FS_CardinalityType
  <2>3. QED
    BY <1>2, <2>2
<1>7. ASSUME NEW k \in K
      PROVE  Earlier(R, k, id) <=> Rank(T, p, k) <= c
  <2> DEFINE A == {j \in K : Earlier(R, j, k)}
  <2>1. Rank(T, p, k) = Cardinality(A) + 1
    <3>1. {j \in K : Earlier(T, j, k)} = A
      BY <1>4
    <3>2. QED
      BY <3>1 DEF Rank
  <2>2. IsFiniteSet(A) /\ Cardinality(A) \in Nat
    <3>1. A \in SUBSET K
      OBVIOUS
    <3> HIDE DEF A
    <3>2. QED
      BY <1>2, <3>1, FS_Subset, FS_CardinalityType
  <2>3. CASE Earlier(R, k, id)
    <3>1. A \in SUBSET B /\ k \in B /\ k \notin A
      BY <1>3, <2>3
    <3> HIDE DEF A, B, K, N
    <3>2. Cardinality(A) <= c /\ Cardinality(A) # c
      BY <1>6, <3>1, FS_Subset
    <3>3. QED
      BY <1>2, <1>6, <2>1, <2>2, <2>3, <3>2
  <2>4. CASE ~Earlier(R, k, id)
    <3>1. Earlier(R, id, k)
      BY <1>1, <1>3, <2>4
    <3>2. B \in SUBSET A
      BY <1>3, <3>1
    <3> HIDE DEF A, B, K, N
    <3>3. c <= Cardinality(A)
      BY <2>2, <3>2, FS_Subset
    <3>4. QED
      BY <1>2, <1>6, <2>1, <2>2, <2>4, <3>3
  <2>5. QED
    BY <2>3, <2>4
<1>8. Len(Content(T, p)) = N
  BY ContentByRank
<1>9. Rank(R, p, id) \in 1 .. Len(Content(T, p)) + 1
  <2> HIDE DEF K, N, B, c
  <2>1. QED
    BY <1>2, <1>5, <1>6, <1>8
<1>10. Content(R, p) = At(Content(T, p), c + 1, row.track)
  <2> HIDE DEF B, c
  <2>1. QED
    BY <1>6, <1>7, InsertedContent
<1>11. QED
  BY <1>5, <1>9, <1>10

(* A sequence of places counted from the lowest has its n-th member with   *)
(* n - 1 below it.                                                         *)
LEMMA AscendingByRank ==
  ASSUME NEW S \in SUBSET Nat, IsFiniteSet(S), NEW a \in S, NEW n \in 1 .. Cardinality(S),
         Cardinality({b \in S : b < a}) = n - 1
  PROVE  Ascending(S)[n] = a
<1> DEFINE Below(x) == {b \in S : b < x}
<1>1. ASSUME NEW x \in S, NEW y \in S, x < y
      PROVE  Cardinality(Below(x)) # Cardinality(Below(y))
  <2>1. Below(x) \in SUBSET Below(y) /\ x \in Below(y) /\ x \notin Below(x)
    <3>1. \A b \in S : b < x => b < y
      BY <1>1
    <3>2. ~ (x < x)
      OBVIOUS
    <3>3. QED
      BY <1>1, <3>1, <3>2
  <2>2. Below(y) \in SUBSET S
    OBVIOUS
  <2> HIDE DEF Below
  <2>3. IsFiniteSet(Below(y))
    BY <2>2, FS_Subset
  <2>4. QED
    BY <2>1, <2>3, FS_Subset
<1>2. \A x \in S : x < a \/ a < x \/ x = a
  OBVIOUS
<1>3. \A x \in S : Cardinality(Below(x)) = n - 1 => x = a
  <2>1. Cardinality(Below(a)) = n - 1
    OBVIOUS
  <2> HIDE DEF Below
  <2>2. QED
    BY <1>1, <1>2, <2>1
<1>4. Ascending(S) = [m \in 1 .. Cardinality(S) |-> CHOOSE x \in S : Cardinality(Below(x)) = m - 1]
  BY DEF Ascending
<1>5. Cardinality(Below(a)) = n - 1
  OBVIOUS
<1> HIDE DEF Below
<1>6. (CHOOSE x \in S : Cardinality(Below(x)) = n - 1) = a
  BY <1>3, <1>5
<1>7. QED
  BY <1>4, <1>6

(* Where all rows of a track go, the others are left in their order. *)
LEMMA WithoutContent ==
  ASSUME NEW R, NEW T, Numbered(R), Numbered(T), NEW p, NEW t,
         Of(T, p) = {k \in Of(R, p) : R[k].track # t},
         \A k \in Of(T, p) : T[k] = R[k]
  PROVE  Content(T, p) = AllDropped(Content(R, p), t)
<1> DEFINE K == Of(R, p)
           L == Of(T, p)
           N == Cardinality(K)
           M == Cardinality(L)
           s == Content(R, p)
           u == Content(T, p)
           P == {i \in DOMAIN s : s[i] # t}
           r == [k \in L |-> Rank(R, p, k)]
<1>1. /\ IsFiniteSet(K) /\ N \in Nat
      /\ \A k \in K : Rank(R, p, k) \in 1 .. N
      /\ \A j, k \in K : Earlier(R, j, k) <=> Rank(R, p, j) < Rank(R, p, k)
      /\ \A j, k \in K : Rank(R, p, j) = Rank(R, p, k) => j = k
      /\ \A n \in 1 .. N : \E k \in K : Rank(R, p, k) = n
  BY RanksAreOrder
<1>2. /\ IsFiniteSet(L) /\ M \in Nat
      /\ \A k \in L : Rank(T, p, k) \in 1 .. M
      /\ \A n \in 1 .. M : \E k \in L : Rank(T, p, k) = n
  BY RanksAreOrder
<1>3. /\ s \in Seq({R[k].track : k \in K}) /\ Len(s) = N
      /\ \A k \in K : s[Rank(R, p, k)] = R[k].track
  BY ContentByRank
<1>4. /\ u \in Seq({T[k].track : k \in L}) /\ Len(u) = M
      /\ \A k \in L : u[Rank(T, p, k)] = R[k].track
  <2> HIDE DEF u
  <2>1. \A k \in L : T[k] = R[k]
    OBVIOUS
  <2> HIDE DEF L
  <2>2. /\ u \in Seq({T[k].track : k \in L}) /\ Len(u) = M
        /\ \A k \in L : u[Rank(T, p, k)] = T[k].track
    BY ContentByRank DEF u, L
  <2>3. QED
    BY <2>1, <2>2
<1>5. \A k \in K : k \in L <=> R[k].track # t
  OBVIOUS
<1>6. L \subseteq K /\ \A j, k \in L : Earlier(T, j, k) <=> Earlier(R, j, k)
  BY DEF Earlier
<1>7. \A k \in L : Rank(T, p, k) = Cardinality({j \in L : Earlier(T, j, k)}) + 1
  BY DEF Rank
<1>8. DOMAIN s = 1 .. N /\ DOMAIN u = 1 .. M
  BY <1>3, <1>4
<1>9. P = {i \in 1 .. N : s[i] # t}
  BY <1>8
<1>10. /\ Content(R, p) = s /\ Content(T, p) = u
       /\ AllDropped(s, t) = [n \in DOMAIN Ascending(P) |-> s[Ascending(P)[n]]]
       /\ DOMAIN Ascending(P) = 1 .. Cardinality(P)
  BY DEF AllDropped, Ascending
<1>11. \A k \in L : r[k] = Rank(R, p, k)
  OBVIOUS
<1>12. r = [k \in L |-> r[k]]
  OBVIOUS
<1> HIDE DEF K, L, s, u, P, r
<1>13. \A k \in L : r[k] \in P
  BY <1>1, <1>3, <1>5, <1>6, <1>9, <1>11
<1>14. \A i \in P : \E k \in L : r[k] = i
  BY <1>1, <1>3, <1>5, <1>9, <1>11
<1>15. r \in Bijection(L, P)
  <2>1. r \in [L -> P]
    BY <1>12, <1>13
  <2>2. \A j, k \in L : r[j] = r[k] => j = k
    BY <1>1, <1>6, <1>11
  <2>3. QED
    BY <1>14, <2>1, <2>2 DEF Bijection, Injection, Surjection, IsInjective
<1>16. IsFiniteSet(P) /\ Cardinality(P) = M
  BY <1>2, <1>15, FS_Bijection DEF M, ExistsBijection
<1>17. P \in SUBSET Nat
  BY <1>1, <1>9
<1>18. ASSUME NEW k \in L
       PROVE  Ascending(P)[Rank(T, p, k)] = r[k]
  <2> DEFINE A == {j \in L : Earlier(T, j, k)}
             B == {b \in P : b < r[k]}
             f == [j \in A |-> r[j]]
  <2>1. A \in SUBSET L
    OBVIOUS
  <2>2. \A j \in L : j \in A <=> r[j] < r[k]
    BY <1>1, <1>6, <1>11
  <2>3. \A j \in A : f[j] = r[j] /\ r[j] \in B
    BY <1>13, <2>1, <2>2
  <2>4. \A b \in B : \E j \in A : r[j] = b
    BY <1>14, <2>2
  <2>5. \A i, j \in A : r[i] = r[j] => i = j
    BY <1>1, <1>6, <1>11, <2>1
  <2>6. f = [j \in A |-> f[j]]
    OBVIOUS
  <2>7. Rank(T, p, k) = Cardinality(A) + 1
    BY <1>7
  <2>8. Cardinality({b \in P : b < r[k]}) = Cardinality(B)
    OBVIOUS
  <2> HIDE DEF A, B, f
  <2>9. f \in Bijection(A, B)
    <3>1. f \in [A -> B]
      BY <2>3, <2>6
    <3>2. QED
      BY <2>3, <2>4, <2>5, <3>1 DEF Bijection, Injection, Surjection, IsInjective
  <2>10. IsFiniteSet(A) /\ Cardinality(A) \in Nat
    BY <1>2, <2>1, FS_Subset, FS_CardinalityType
  <2>11. Cardinality(B) = Cardinality(A)
    BY <2>9, <2>10, FS_Bijection DEF ExistsBijection
  <2>12. /\ Rank(T, p, k) \in 1 .. Cardinality(P)
         /\ Cardinality({b \in P : b < r[k]}) = Rank(T, p, k) - 1
         /\ r[k] \in P
    BY <1>2, <1>13, <1>16, <2>7, <2>8, <2>10, <2>11
  <2>13. QED
    BY <1>16, <1>17, <2>12, AscendingByRank
<1>19. ASSUME NEW n \in 1 .. M
       PROVE  u[n] = s[Ascending(P)[n]]
  <2>1. PICK k \in L : Rank(T, p, k) = n
    BY <1>2
  <2>2. QED
    BY <1>3, <1>4, <1>6, <1>11, <1>18, <2>1
<1>20. u = [n \in 1 .. M |-> u[n]]
  BY <1>4, <1>8
<1>21. AllDropped(s, t) = [n \in 1 .. M |-> s[Ascending(P)[n]]]
  BY <1>10, <1>16
<1>22. u = AllDropped(s, t)
  BY <1>19, <1>20, <1>21
<1>23. QED
  BY <1>10, <1>22

-----------------------------------------------------------------------------
(* The invariant.  TypeOK and NumbersTellTracksApart are not inductive: an *)
(* id may come to be that of a playlist again, with the rows that stayed,  *)
(* so rows have to be told apart whether or not their playlist exists.     *)
IInv ==
  /\ playlists \subseteq 1 .. MaxPlaylist /\ tracks \subseteq 1 .. MaxTrack
  /\ Sound(rows)
  /\ "dangling" \notin Traps => Refers(rows, playlists, tracks)

LEMMA BoundsAreNaturals == /\ MaxPlaylist \in Nat /\ MaxTrack \in Nat
                           /\ MaxRow \in Nat /\ MaxNumber \in Nat
  BY Playlists1Bounds

LEMMA IInvIsEnough == IInv => RowsAreSound
<1> SUFFICES ASSUME IInv PROVE RowsAreSound
  OBVIOUS
<1>1. TypeOK
  BY DEF IInv, Sound, Legal, Refers, TypeOK, Row
<1>2. NumbersTellTracksApart
  BY DEF IInv, Sound, Apart, NumbersTellTracksApart, Of
<1>3. QED
  BY <1>1, <1>2 DEF RowsAreSound

(* What a call has to leave for the invariant to go on.                    *)
LEMMA Goes ==
  ASSUME UNCHANGED build,
         playlists' \subseteq 1 .. MaxPlaylist, tracks' \subseteq 1 .. MaxTrack,
         Sound(rows'), "dangling" \notin Traps => Refers(rows', playlists', tracks')
  PROVE  IInv'
  BY DEF IInv, Sound, Legal, Apart, Refers, build

(* Calls on the tracks of a playlist. *)
LEMMA TrackCallKeepsIInv == IInv /\ TrackCall => IInv'
<1> SUFFICES ASSUME IInv, TrackCall PROVE IInv'
  OBVIOUS
<1>1. /\ Sound(rows) /\ playlists \subseteq 1 .. MaxPlaylist /\ tracks \subseteq 1 .. MaxTrack
      /\ "dangling" \notin Traps => Refers(rows, playlists, tracks)
  BY DEF IInv
<1>2. ASSUME NEW R, Put(R), Sound(R), "dangling" \notin Traps => Refers(R, playlists, tracks)
      PROVE  IInv'
  <2>1. rows' = R /\ playlists' = playlists /\ tracks' = tracks /\ UNCHANGED build
    BY <1>2 DEF Put
  <2>2. QED
    BY <1>1, <1>2, <2>1, Goes
<1>3. ASSUME NEW K, Put(Lacking(rows, K))
      PROVE  IInv'
  BY <1>1, <1>2, <1>3, LackingKeeps
<1>4. ASSUME NEW R, Sound(R), DOMAIN R = DOMAIN rows,
             \A k \in DOMAIN rows : R[k].list = rows[k].list /\ R[k].track = rows[k].track,
             NEW p \in playlists, NEW t \in tracks, RoomIn(p), NEW n \in 0 .. MaxNumber,
             \A k \in Of(R, p) : R[k].number # n,
             Put(InsertedLast(R, [list |-> p, track |-> t, number |-> n]))
      PROVE  IInv'
  <2>1. Highest(DOMAIN R) < MaxRow /\ p \in 1 .. MaxPlaylist /\ t \in 1 .. MaxTrack
    BY <1>1, <1>4 DEF RoomIn
  <2>2. "dangling" \notin Traps => Refers(R, playlists, tracks)
    BY <1>1, <1>4 DEF Refers
  <2> DEFINE T == InsertedLast(R, [list |-> p, track |-> t, number |-> n])
  <2>3. Sound(T) /\ ("dangling" \notin Traps => Refers(T, playlists, tracks))
    BY <1>4, <2>1, <2>2, BoundsAreNaturals, InsertedKeeps
  <2> HIDE DEF T
  <2>4. Put(T)
    BY <1>4 DEF T
  <2>5. QED
    BY <1>2, <2>3, <2>4
<1>5. ASSUME NEW p \in playlists, RoomIn(p)
      PROVE  /\ NextNumber(rows, p) \in 0 .. MaxNumber
             /\ \A k \in Of(rows, p) : /\ rows[k].number \in Nat
                                       /\ rows[k].number + 1 <= NextNumber(rows, p)
  BY <1>1, <1>5, BoundsAreNaturals, NextNumberIsFree DEF RoomIn
<1>6. ASSUME NEW p \in playlists, NEW t \in tracks, RoomIn(p), AddTrackBack(p, t)
      PROVE  IInv'
  <2>1. \A k \in Of(rows, p) : rows[k].number # NextNumber(rows, p)
    BY <1>5, <1>6
  <2>2. QED
    BY <1>1, <1>4, <1>5, <1>6, <2>1 DEF AddTrackBack
<1>7. ASSUME NEW p \in playlists, NEW t \in tracks, NEW a \in tracks,
             RoomIn(p), AddTrackAfter(p, t, a)
      PROVE  IInv'
  <2>1. CASE Places(rows, p, a) = {}
    <3>1. UNCHANGED build /\ rows' = rows /\ playlists' = playlists /\ tracks' = tracks
      BY <1>7, <2>1 DEF AddTrackAfter, data
    <3>2. QED
      BY <1>1, <3>1, Goes
  <2>2. CASE Places(rows, p, a) # {}
    <3> DEFINE n == FromFirst(rows, p, a)
               R == Shifted(rows, p, n)
    <3>1. PICK k \in Of(rows, p) : n = rows[k].number
      BY <1>1, <2>2, BoundsAreNaturals, FromFirstIsThere
    <3>2. n \in Nat /\ n + 1 \in 0 .. MaxNumber
      BY <1>5, <1>7, <3>1, BoundsAreNaturals
    <3>3. \A j \in Of(rows, p) : rows[j].number + 1 <= MaxNumber
      BY <1>5, <1>7, BoundsAreNaturals
    <3>4. Put(InsertedLast(R, [list |-> p, track |-> t, number |-> n + 1]))
      BY <1>7, <2>2 DEF AddTrackAfter
    <3> HIDE DEF n
    <3>5. /\ Sound(R) /\ DOMAIN R = DOMAIN rows
          /\ \A j \in DOMAIN rows : R[j].list = rows[j].list /\ R[j].track = rows[j].track
          /\ \A j \in Of(R, p) : R[j].number # n + 1
      BY <1>1, <3>2, <3>3, BoundsAreNaturals, ShiftedKeeps
    <3> HIDE DEF R
    <3>6. QED
      BY <1>4, <1>7, <3>2, <3>4, <3>5
  <2>3. QED
    BY <2>1, <2>2
<1>8. ASSUME NEW p \in playlists, NEW t \in tracks, RemoveTrack(p, t)
      PROVE  IInv'
  BY <1>3, <1>8 DEF RemoveTrack
<1>9. ASSUME NEW p \in playlists, ClearTracks(p)
      PROVE  IInv'
  BY <1>3, <1>9 DEF ClearTracks
<1>10. QED
  BY <1>6, <1>7, <1>8, <1>9 DEF TrackCall

(* Calls on the database. *)
LEMMA DatabaseCallKeepsIInv == IInv /\ DatabaseCall => IInv'
<1> SUFFICES ASSUME IInv, DatabaseCall PROVE IInv'
  OBVIOUS
<1>1. /\ Sound(rows) /\ playlists \subseteq 1 .. MaxPlaylist /\ tracks \subseteq 1 .. MaxTrack
      /\ "dangling" \notin Traps => Refers(rows, playlists, tracks)
  BY DEF IInv
<1>2. CASE CreatePlaylist
  <2>1. /\ UNCHANGED build /\ rows' = rows /\ tracks' = tracks
        /\ playlists' \subseteq 1 .. MaxPlaylist /\ playlists \subseteq playlists'
    BY <1>1, <1>2 DEF CreatePlaylist
  <2>2. "dangling" \notin Traps => Refers(rows, playlists', tracks)
    BY <1>1, <2>1 DEF Refers
  <2>3. QED
    BY <1>1, <2>1, <2>2, Goes
<1>3. CASE CreateTrack
  <2>1. /\ UNCHANGED build /\ rows' = rows /\ playlists' = playlists
        /\ tracks' \subseteq 1 .. MaxTrack /\ tracks \subseteq tracks'
    BY <1>1, <1>3 DEF CreateTrack
  <2>2. "dangling" \notin Traps => Refers(rows, playlists, tracks')
    BY <1>1, <2>1 DEF Refers
  <2>3. QED
    BY <1>1, <2>1, <2>2, Goes
(* Rows K go with what they refer to, or there are none, or they dangle.   *)
<1>4. ASSUME NEW K \in SUBSET DOMAIN rows, Unless("dangling", Dangling(K))
      PROVE  /\ Sound(Cascade(K)) /\ DOMAIN Cascade(K) \subseteq DOMAIN rows
             /\ \A k \in DOMAIN Cascade(K) : Cascade(K)[k] = rows[k]
             /\ "dangling" \notin Traps => DOMAIN Cascade(K) \cap K = {}
  <2>1. CASE fkeys
    <3> DEFINE T == Lacking(rows, K)
    <3>1. Cascade(K) = T
      BY <2>1 DEF Cascade
    <3>2. Sound(T) /\ DOMAIN T = DOMAIN rows \ K /\ \A k \in DOMAIN T : T[k] = rows[k]
      BY <1>1, LackingKeeps
    <3> HIDE DEF T
    <3>3. QED
      BY <3>1, <3>2
  <2>2. CASE ~fkeys
    <3>1. Cascade(K) = rows
      BY <2>2 DEF Cascade
    <3>2. "dangling" \notin Traps => K = {}
      BY <1>4, <2>2 DEF Unless, Dangling
    <3>3. QED
      BY <1>1, <3>1, <3>2
  <2>3. QED
    BY <2>1, <2>2
<1>5. ASSUME NEW p \in playlists, Unless("dangling", Dangling(Of(rows, p))), RemovePlaylist(p)
      PROVE  IInv'
  <2>1. Of(rows, p) \in SUBSET DOMAIN rows
    BY DEF Of
  <2>2. /\ UNCHANGED build /\ tracks' = tracks /\ playlists' = playlists \ {p}
        /\ rows' = Cascade(Of(rows, p))
    BY <1>5 DEF RemovePlaylist
  <2>3. /\ Sound(rows') /\ DOMAIN rows' \subseteq DOMAIN rows
        /\ \A k \in DOMAIN rows' : rows'[k] = rows[k]
        /\ "dangling" \notin Traps => DOMAIN rows' \cap Of(rows, p) = {}
    BY <1>4, <1>5, <2>1, <2>2
  <2>4. "dangling" \notin Traps => Refers(rows', playlists', tracks')
    BY <1>1, <2>2, <2>3 DEF Refers, Of
  <2>5. QED
    BY <1>1, <2>2, <2>3, <2>4, Goes
<1>6. ASSUME NEW t \in tracks,
             Unless("dangling", Dangling({k \in DOMAIN rows : rows[k].track = t})), DropTrack(t)
      PROVE  IInv'
  <2> DEFINE K == {k \in DOMAIN rows : rows[k].track = t}
  <2>1. K \in SUBSET DOMAIN rows /\ Unless("dangling", Dangling(K))
    BY <1>6
  <2>2. /\ UNCHANGED build /\ playlists' = playlists /\ tracks' = tracks \ {t}
        /\ rows' = Cascade(K)
    BY <1>6 DEF DropTrack
  <2> HIDE DEF K
  <2>3. /\ Sound(rows') /\ DOMAIN rows' \subseteq DOMAIN rows
        /\ \A k \in DOMAIN rows' : rows'[k] = rows[k]
        /\ "dangling" \notin Traps => DOMAIN rows' \cap K = {}
    BY <1>4, <2>1, <2>2
  <2>4. "dangling" \notin Traps => Refers(rows', playlists', tracks')
    BY <1>1, <2>2, <2>3 DEF Refers, K
  <2>5. QED
    BY <1>1, <2>2, <2>3, <2>4, Goes
<1>7. QED
  BY <1>2, <1>3, <1>5, <1>6 DEF DatabaseCall

(* The invariant is one. *)
LEMMA InvariantHolds == Spec => []IInv
<1>1. Init => IInv
  <2> SUFFICES ASSUME Init PROVE IInv
    OBVIOUS
  <2>1. DOMAIN rows = {} /\ rows = [k \in {} |-> rows[k]]
    BY DEF Init
  <2>2. Legal(rows, MaxNumber)
    BY <2>1 DEF Legal
  <2>3. QED
    BY <2>1, <2>2 DEF Init, IInv, Sound, Apart, Refers
<1>2. IInv /\ [Next]_vars => IInv'
  <2>1. CASE UNCHANGED vars
    BY <2>1, Goes DEF vars, data, IInv
  <2>2. QED
    BY <2>1, TrackCallKeepsIInv, DatabaseCallKeepsIInv DEF Next
<1>3. QED
  BY <1>1, <1>2, PTL DEF Spec

(* Rows are legal and refer to what exists, and two places of a playlist   *)
(* share a number only in a view and only if they hold the same track, in  *)
(* every database of every size: add_track_back, add_track_after and its   *)
(* UPDATE of rows that follow, trigger by trigger, and what is removed.    *)
THEOREM RowsAreAlwaysSound == Spec => []RowsAreSound
  BY InvariantHolds, IInvIsEnough, PTL

-----------------------------------------------------------------------------
(* The promises. *)

(* Rows as calls leave them have a definite order. *)
LEMMA SoundIsNumbered ==
  ASSUME NEW R, Sound(R)
  PROVE  Numbered(R)
<1>1. MaxRow \in Nat
  BY BoundsAreNaturals
<1>2. IsFiniteSet(1 .. MaxRow)
  BY <1>1, FS_Interval
<1>3. DOMAIN R \subseteq 1 .. MaxRow /\ \A k \in DOMAIN R : R[k].number \in Nat
  BY DEF Sound, Legal
<1>4. IsFiniteSet(DOMAIN R)
  BY <1>2, <1>3, FS_Subset
<1>5. QED
  BY <1>3, <1>4 DEF Numbered

(* A playlist whose rows stay reads the same. *)
LEMMA SameRows ==
  ASSUME NEW R, NEW T, Numbered(R), Numbered(T), NEW q, Of(T, q) = Of(R, q),
         \A k \in Of(R, q) : T[k].track = R[k].track /\ T[k].number = R[k].number
  PROVE  Content(T, q) = Content(R, q)
<1>1. \A j, k \in Of(R, q) : Earlier(R, j, k) => Earlier(T, j, k)
  BY DEF Earlier
<1>2. QED
  BY <1>1, SameContent

(* A playlist without rows. *)
LEMMA NoRows ==
  ASSUME NEW R, NEW q, Of(R, q) = {}
  PROVE  Content(R, q) = << >>
<1>1. Cardinality(Of(R, q)) = 0
  BY FS_EmptySet
<1>2. QED
  BY <1>1 DEF Content

(* A new row is shown in its place, and in its playlist. *)
LEMMA InsertedShown ==
  ASSUME NEW R, Sound(R), NEW p, NEW t, NEW n,
         NEW c \in 0 .. Cardinality(Of(R, p)),
         Sound(InsertedLast(R, [list |-> p, track |-> t, number |-> n])),
         \A k \in Of(R, p) : R[k].number # n /\ (R[k].number < n <=> Rank(R, p, k) <= c)
  PROVE  LET T == InsertedLast(R, [list |-> p, track |-> t, number |-> n])
         IN  /\ Content(T, p) = At(Content(R, p), c + 1, t)
             /\ \A q : q # p => Content(T, q) = Content(R, q)
<1> DEFINE row == [list |-> p, track |-> t, number |-> n]
           T == InsertedLast(R, row)
           id == Highest(DOMAIN R) + 1
<1>1. row.list = p /\ row.track = t /\ row.number = n
  OBVIOUS
<1>2. DOMAIN R \subseteq 1 .. MaxRow
  BY DEF Sound, Legal
<1> HIDE DEF row
<1>3. OneMore(T, R, id, row)
  BY <1>2, BoundsAreNaturals, InsertedShape
<1>4. Numbered(R) /\ Numbered(T)
  BY SoundIsNumbered DEF row
<1> HIDE DEF T, id
<1>5. \A k \in Of(R, p) : Earlier(T, k, id) <=> Rank(R, p, k) <= c
  <2>1. ASSUME NEW k \in Of(R, p)
        PROVE  Earlier(T, k, id) <=> R[k].number < n
    <3>1. k \in DOMAIN R /\ R[k].number # n
      BY DEF Of
    <3>2. T[k].number = R[k].number /\ T[id].number = n
      BY <1>1, <1>3, <3>1 DEF OneMore
    <3>3. QED
      BY <3>1, <3>2 DEF Earlier
  <2>2. QED
    BY <2>1
<1>6. Content(T, p) = At(Content(R, p), c + 1, t)
  BY <1>1, <1>3, <1>4, <1>5, InsertedContent
<1>7. ASSUME NEW q, q # p
      PROVE  Content(T, q) = Content(R, q)
  <2>1. Of(T, q) = Of(R, q) /\ \A k \in Of(R, q) : T[k] = R[k]
    BY <1>1, <1>3, <1>7 DEF OneMore, Of
  <2>2. QED
    BY <1>4, <2>1, SameRows
<1>8. QED
  BY <1>6, <1>7 DEF T, row

(* What a call on a playlist has to do. *)
LEMMA PutShown ==
  ASSUME NEW T, Put(T), NEW p \in playlists, NEW s,
         \A q \in playlists : Content(T, q) = IF q = p THEN s ELSE Content(rows, q)
  PROVE  Shown' = [Shown EXCEPT ![p] = s]
<1>1. rows' = T /\ playlists' = playlists
  BY DEF Put
<1>2. Shown' = [q \in playlists |-> Content(T, q)]
  BY <1>1 DEF Shown
<1>3. QED
  BY <1>2 DEF Shown

(* The number above all others makes the track the last one. *)
LEMMA AddTrackBackPromised ==
  ASSUME IInv, NEW p \in playlists, NEW t \in tracks, RoomIn(p), AddTrackBack(p, t)
  PROVE  Shown' = [Shown EXCEPT ![p] = Append(@, t)]
<1> DEFINE n == NextNumber(rows, p)
           T == InsertedLast(rows, [list |-> p, track |-> t, number |-> n])
           N == Cardinality(Of(rows, p))
<1>1. /\ Sound(rows) /\ p \in 1 .. MaxPlaylist /\ t \in 1 .. MaxTrack
  BY DEF IInv
<1>2. n \in 0 .. MaxNumber /\ \A k \in Of(rows, p) : rows[k].number \in Nat /\ rows[k].number < n
  BY <1>1, BoundsAreNaturals, NextNumberIsFree DEF RoomIn
<1>3. Highest(DOMAIN rows) < MaxRow /\ Put(T)
  BY DEF RoomIn, AddTrackBack
<1> HIDE DEF n
<1>4. \A k \in Of(rows, p) : rows[k].number # n
  BY <1>2
<1>5. Sound(T)
  BY <1>1, <1>2, <1>3, <1>4, BoundsAreNaturals, InsertedKeeps
<1>6. N \in Nat /\ \A k \in Of(rows, p) : Rank(rows, p, k) \in 1 .. N
  BY <1>1, SoundIsNumbered, RanksAreOrder
<1>7. /\ N \in 0 .. N
      /\ \A k \in Of(rows, p) : rows[k].number # n /\ (rows[k].number < n <=> Rank(rows, p, k) <= N)
  <2> HIDE DEF N
  <2>1. QED
    BY <1>2, <1>4, <1>6
<1>8. /\ Content(T, p) = At(Content(rows, p), N + 1, t)
      /\ \A q : q # p => Content(T, q) = Content(rows, q)
  BY <1>1, <1>5, <1>7, InsertedShown
<1>9. At(Content(rows, p), N + 1, t) = Append(Content(rows, p), t)
  BY <1>1, SoundIsNumbered, ContentByRank, AppendIsAt
<1>10. Shown' = [Shown EXCEPT ![p] = Append(Content(rows, p), t)]
  <2> HIDE DEF T
  <2>1. QED
    BY <1>3, <1>8, <1>9, PutShown
<1>11. QED
  BY <1>10 DEF Shown

(* The first place of a track that shares its number with no other place.  *)
LEMMA FirstPlace ==
  ASSUME NEW R, Sound(R), NEW p, NEW a, NEW j \in Places(R, p, a),
         R[j].number = FromFirst(R, p, a),
         \A i, k \in Places(R, p, a) :
           ~ (i # k /\ R[i].number = R[k].number /\ R[i].number = FromFirst(R, p, a))
  PROVE  LET s == Content(R, p)
         IN  /\ Rank(R, p, j) \in 1 .. Cardinality(Of(R, p))
             /\ Rank(R, p, j) = CHOOSE k \in DOMAIN s : s[k] = a /\ \A i \in 1 .. k - 1 : s[i] # a
             /\ \A k \in Of(R, p) : k # j => R[k].number # R[j].number
<1> DEFINE s == Content(R, p)
           N == Cardinality(Of(R, p))
           r == Rank(R, p, j)
<1>1. \A k \in Places(R, p, a) : k \in Of(R, p) /\ R[k].track = a
  BY DEF Places
<1>2. \A k \in Of(R, p) : k \in DOMAIN R /\ R[k].list = p /\ R[k].number \in Nat
  BY DEF Of, Sound, Legal
<1>3. \A k \in Places(R, p, a) : R[j].number <= R[k].number
  <2> DEFINE numbers == {R[k].number : k \in Places(R, p, a)}
  <2>1. numbers \in SUBSET Nat /\ R[j].number \in numbers
    BY <1>1, <1>2
  <2>2. PICK n \in numbers : \A m \in numbers : n <= m
    BY <2>1, LeastOf
  <2>3. \E m \in numbers : \A k \in Places(R, p, a) : m <= R[k].number
    BY <2>2
  <2>4. QED
    BY <2>3 DEF FromFirst
<1>4. ASSUME NEW k \in Of(R, p), k # j
      PROVE  R[k].number # R[j].number
  <2> SUFFICES ASSUME R[k].number = R[j].number
               PROVE  FALSE
    OBVIOUS
  <2>1. R[k].track = R[j].track
    BY <1>1, <1>2, <1>4 DEF Sound, Apart
  <2>2. k \in Places(R, p, a)
    BY <1>1, <2>1 DEF Places
  <2>3. QED
    BY <1>4, <2>2
<1>5. /\ N \in Nat /\ \A k \in Of(R, p) : Rank(R, p, k) \in 1 .. N
      /\ \A i, k \in Of(R, p) : Earlier(R, i, k) <=> Rank(R, p, i) < Rank(R, p, k)
      /\ \A n \in 1 .. N : \E k \in Of(R, p) : Rank(R, p, k) = n
  BY SoundIsNumbered, RanksAreOrder
<1>6. Len(s) = N /\ \A k \in Of(R, p) : s[Rank(R, p, k)] = R[k].track
  BY SoundIsNumbered, ContentByRank
<1>7. s \in Seq({R[k].track : k \in Of(R, p)})
  BY SoundIsNumbered, ContentByRank
<1>8. DOMAIN s = 1 .. N
  BY <1>6, <1>7
<1> HIDE DEF s, N
<1>9. r \in 1 .. N /\ s[r] = a
  BY <1>1, <1>5, <1>6
<1>10. ASSUME NEW i \in 1 .. r - 1
       PROVE  s[i] # a
  <2>1. i \in 1 .. N /\ i < r
    BY <1>5, <1>9
  <2>2. PICK k \in Of(R, p) : Rank(R, p, k) = i
    BY <1>5, <2>1
  <2>3. Earlier(R, k, j) /\ k # j
    BY <1>1, <1>5, <2>1, <2>2
  <2>4. R[k].number < R[j].number
    BY <1>4, <2>3 DEF Earlier
  <2>5. k \notin Places(R, p, a)
    BY <1>1, <1>2, <1>3, <2>4
  <2>6. R[k].track # a
    BY <2>5 DEF Places
  <2>7. QED
    BY <1>6, <2>2, <2>6
<1> HIDE DEF r
<1>11. \A k \in 1 .. N : s[k] = a /\ (\A i \in 1 .. k - 1 : s[i] # a) => k = r
  <2> SUFFICES ASSUME NEW k \in 1 .. N, s[k] = a, \A i \in 1 .. k - 1 : s[i] # a
               PROVE  k = r
    OBVIOUS
  <2>1. ~ (k < r)
    <3>1. k < r => k \in 1 .. r - 1
      BY <1>5, <1>9
    <3>2. QED
      BY <1>10, <3>1
  <2>2. ~ (r < k)
    <3>1. r < k => r \in 1 .. k - 1
      BY <1>5, <1>9
    <3>2. QED
      BY <1>9, <3>1
  <2>3. QED
    BY <1>5, <1>9, <2>1, <2>2
<1>12. r = CHOOSE k \in DOMAIN s : s[k] = a /\ \A i \in 1 .. k - 1 : s[i] # a
  BY <1>8, <1>9, <1>10, <1>11
<1>13. QED
  BY <1>4, <1>9, <1>12 DEF s, N, r

(* Putting the track after another one's first place, once there is room.  *)
LEMMA AddTrackAfterPromised ==
  ASSUME IInv, NEW p \in playlists, NEW t \in tracks, NEW a \in tracks, RoomIn(p),
         ~Tied(p, a), Places(rows, p, a) # {}, AddTrackAfter(p, t, a)
  PROVE  Shown' = [Shown EXCEPT ![p] = AfterFirst(@, a, t)]
<1> DEFINE n == FromFirst(rows, p, a)
           R == Shifted(rows, p, n)
           T == InsertedLast(R, [list |-> p, track |-> t, number |-> n + 1])
           N == Cardinality(Of(rows, p))
           s == Content(rows, p)
<1>1. Sound(rows) /\ p \in 1 .. MaxPlaylist /\ t \in 1 .. MaxTrack
  BY DEF IInv
<1>2. PICK j \in Places(rows, p, a) : n = rows[j].number
  <2>1. \E m \in {rows[k].number : k \in Places(rows, p, a)} :
          \A k \in Places(rows, p, a) : m <= rows[k].number
    <3> DEFINE numbers == {rows[k].number : k \in Places(rows, p, a)}
    <3>1. \A k \in Places(rows, p, a) : rows[k].number \in Nat
      BY <1>1 DEF Sound, Legal, Of, Places
    <3>2. numbers \in SUBSET Nat /\ numbers # {}
      BY <3>1
    <3>3. \E m \in numbers : \A x \in numbers : m <= x
      <4> HIDE DEF numbers
      <4>1. QED
        BY <3>2, LeastOf
    <3>4. \A k \in Places(rows, p, a) : rows[k].number \in numbers
      OBVIOUS
    <3>5. QED
      BY <3>3, <3>4
  <2>2. n \in {rows[k].number : k \in Places(rows, p, a)}
    BY <2>1 DEF FromFirst
  <2>3. QED
    BY <2>2
<1>3. Put(T)
  BY DEF AddTrackAfter
<1>4. \A i, k \in Places(rows, p, a) :
        ~ (i # k /\ rows[i].number = rows[k].number /\ rows[i].number = n)
  BY DEF Tied
<1>5. /\ Rank(rows, p, j) \in 1 .. N
      /\ Rank(rows, p, j) = CHOOSE k \in DOMAIN s : s[k] = a /\ \A i \in 1 .. k - 1 : s[i] # a
      /\ \A k \in Of(rows, p) : k # j => rows[k].number # rows[j].number
  BY <1>1, <1>2, <1>4, FirstPlace
<1>6. AfterFirst(s, a, t) = InsertAt(s, Rank(rows, p, j) + 1, t)
  BY <1>5 DEF AfterFirst
<1>7. j \in Of(rows, p)
  BY DEF Places
<1>8. \A k \in Of(rows, p) : k \in DOMAIN rows /\ rows[k].number \in Nat
  BY <1>1 DEF Sound, Legal, Of
<1>9. \A k \in Of(rows, p) : rows[k].number + 1 <= MaxNumber
  BY <1>1, <1>8, BoundsAreNaturals, NextNumberIsFree DEF RoomIn
<1>10. n \in Nat /\ n + 1 \in 0 .. MaxNumber
  BY <1>2, <1>7, <1>8, <1>9, BoundsAreNaturals
<1> HIDE DEF n
<1>11. /\ Sound(R) /\ DOMAIN R = DOMAIN rows
       /\ \A k \in DOMAIN rows : R[k].list = rows[k].list /\ R[k].track = rows[k].track
       /\ \A k \in Of(R, p) : R[k].number # n + 1
       /\ \A k \in DOMAIN rows :
            IF k \in Of(rows, p) /\ rows[k].number > n THEN R[k].number > n + 1
                                                       ELSE R[k].number = rows[k].number
  BY <1>1, <1>9, <1>10, BoundsAreNaturals, ShiftedKeeps
<1>12. \A i, k \in Of(rows, p) :
         rows[i].track # rows[k].track /\ Earlier(rows, i, k) => Earlier(R, i, k)
  BY <1>1, <1>10, BoundsAreNaturals, ShiftedKeepsOrder
<1> HIDE DEF R
<1>13. \A q : Of(R, q) = Of(rows, q)
  BY <1>11 DEF Of
<1>14. Numbered(R) /\ Numbered(rows)
  BY <1>1, <1>11, SoundIsNumbered
<1>15. Content(R, p) = s
  <2>1. \A k \in Of(rows, p) : R[k].track = rows[k].track
    BY <1>8, <1>11
  <2>2. QED
    BY <1>12, <1>13, <1>14, <2>1, SameContent
<1>16. ASSUME NEW q, q # p
       PROVE  Content(R, q) = Content(rows, q)
  <2>1. \A k \in Of(rows, q) : R[k].track = rows[k].track /\ R[k].number = rows[k].number
    BY <1>11, <1>16 DEF Of
  <2>2. QED
    BY <1>13, <1>14, <2>1, SameRows
<1> DEFINE c == Rank(R, p, j)
<1>17. c = Rank(rows, p, j)
  <2>1. R[j].number = n
    BY <1>2, <1>7, <1>8, <1>10, <1>11
  <2>2. ASSUME NEW i \in Of(rows, p)
        PROVE  Earlier(R, i, j) <=> Earlier(rows, i, j)
    <3>1. i \in DOMAIN rows /\ rows[i].number \in Nat /\ R[i].number \in Nat
      BY <1>8, <1>11 DEF Sound, Legal
    <3>2. CASE rows[i].number > n
      BY <1>2, <1>10, <1>11, <2>1, <3>1, <3>2 DEF Earlier
    <3>3. CASE ~ (rows[i].number > n)
      <4>1. R[i].number = rows[i].number
        BY <1>11, <3>1, <3>3
      <4>2. QED
        BY <1>2, <2>1, <4>1 DEF Earlier
    <3>4. QED
      BY <3>2, <3>3
  <2>3. {i \in Of(R, p) : Earlier(R, i, j)} = {i \in Of(rows, p) : Earlier(rows, i, j)}
    BY <1>13, <2>2
  <2>4. QED
    BY <2>3 DEF Rank
<1>18. c \in 0 .. Cardinality(Of(R, p))
  <2> HIDE DEF c
  <2>1. N \in Nat
    BY <1>14, RanksAreOrder
  <2>2. QED
    BY <1>5, <1>13, <1>17, <2>1
<1>19. \A k \in Of(R, p) : R[k].number # n + 1 /\ (R[k].number < n + 1 <=> Rank(R, p, k) <= c)
  <2> SUFFICES ASSUME NEW k \in Of(R, p)
               PROVE  R[k].number < n + 1 <=> Rank(R, p, k) <= c
    BY <1>11
  <2>1. k \in Of(rows, p) /\ k \in DOMAIN R /\ R[k].number \in Nat
    BY <1>11, <1>13 DEF Sound, Legal, Of
  <2>2. /\ j \in Of(R, p)
        /\ \A i \in Of(R, p) : Rank(R, p, i) \in Nat
        /\ Earlier(R, k, j) <=> Rank(R, p, k) < Rank(R, p, j)
        /\ Rank(R, p, k) = Rank(R, p, j) => k = j
    BY <1>7, <1>13, <1>14, RanksAreOrder
  <2>3. Rank(R, p, k) <= c <=> k = j \/ Earlier(R, k, j)
    BY <2>2
  <2>4. R[j].number = n
    BY <1>2, <1>7, <1>8, <1>10, <1>11
  <2>5. k # j => R[k].number # n
    BY <1>2, <1>5, <1>8, <1>10, <1>11, <2>1
  <2>6. R[k].number < n + 1 <=> k = j \/ Earlier(R, k, j)
    BY <1>10, <2>1, <2>4, <2>5 DEF Earlier
  <2>7. QED
    BY <2>3, <2>6
<1>20. Sound(T)
  <2>1. Highest(DOMAIN R) < MaxRow
    BY <1>11 DEF RoomIn
  <2>2. QED
    BY <1>1, <1>10, <1>11, <2>1, BoundsAreNaturals, InsertedKeeps
<1>21. /\ Content(T, p) = At(Content(R, p), c + 1, t)
       /\ \A q : q # p => Content(T, q) = Content(R, q)
  <2> HIDE DEF c
  <2>1. QED
    BY <1>11, <1>18, <1>19, <1>20, InsertedShown
<1>22. At(s, c + 1, t) = AfterFirst(s, a, t)
  <2> DEFINE S == {rows[k].track : k \in Of(rows, p)}
  <2>1. s \in Seq(S) /\ Len(s) = N
    BY <1>14, ContentByRank
  <2> HIDE DEF c, S
  <2>2. c + 1 \in 1 .. Len(s) + 1
    BY <1>5, <1>17, <2>1
  <2>3. InsertAt(s, c + 1, t) = At(s, c + 1, t)
    BY <2>1, <2>2, BetweenIsAt DEF InsertAt
  <2>4. QED
    BY <1>6, <1>17, <2>3
<1>23. Shown' = [Shown EXCEPT ![p] = AfterFirst(s, a, t)]
  <2> HIDE DEF T, c
  <2>1. \A q \in playlists : Content(T, q) = IF q = p THEN AfterFirst(s, a, t) ELSE Content(rows, q)
    BY <1>15, <1>16, <1>21, <1>22
  <2>2. QED
    BY <1>3, <2>1, PutShown
<1>24. QED
  BY <1>23 DEF Shown

(* Removing a track that has one place, or none. *)
LEMMA RemoveTrackPromised ==
  ASSUME IInv, NEW p \in playlists, NEW t \in tracks, ~Repeated(p, t), RemoveTrack(p, t)
  PROVE  Shown' = [Shown EXCEPT ![p] = FirstDropped(@, t)]
<1> DEFINE K == Places(rows, p, t)
           T == Lacking(rows, K)
           s == Content(rows, p)
           S == {rows[k].track : k \in Of(rows, p)}
<1>1. Sound(rows)
  BY DEF IInv
<1>2. Put(T)
  BY DEF RemoveTrack
<1>3. \A j, k \in K : j = k
  BY DEF Repeated
<1>4. \A k : k \in K <=> k \in Of(rows, p) /\ rows[k].track = t
  BY DEF Places
<1> HIDE DEF K
<1>5. Sound(T) /\ DOMAIN T = DOMAIN rows \ K /\ \A k \in DOMAIN T : T[k] = rows[k]
  BY <1>1, LackingKeeps
<1>6. Numbered(rows) /\ Numbered(T)
  BY <1>1, <1>5, SoundIsNumbered
<1>7. T = [k \in DOMAIN T |-> T[k]]
  BY DEF Lacking
<1> HIDE DEF T
<1>8. ASSUME NEW q, q # p
      PROVE  Content(T, q) = Content(rows, q)
  <2>1. Of(T, q) = Of(rows, q) /\ \A k \in Of(rows, q) : T[k] = rows[k]
    BY <1>4, <1>5, <1>8 DEF Of
  <2>2. QED
    BY <1>6, <2>1, SameRows
<1>9. s \in Seq(S)
  BY <1>6, ContentByRank
<1>10. Content(T, p) = FirstDropped(s, t)
  <2>1. CASE K = {}
    <3>1. Of(T, p) = Of(rows, p) /\ \A k \in Of(rows, p) : T[k] = rows[k]
      BY <1>5, <2>1 DEF Of
    <3>2. Content(T, p) = s
      BY <1>6, <3>1, SameRows
    <3>3. t \notin S
      BY <1>4, <2>1
    <3>4. \A k \in DOMAIN s : s[k] \in S
      <4> HIDE DEF S, s
      <4>1. QED
        BY <1>9, ElementOfSeq, LenProperties
    <3>5. FirstDropped(s, t) = s
      BY <3>3, <3>4 DEF FirstDropped
    <3>6. QED
      BY <3>2, <3>5
  <2>2. CASE K # {}
    <3>1. PICK id : id \in K
      BY <2>2
    <3>2. id \in Of(rows, p) /\ rows[id].track = t /\ \A k \in Of(rows, p) : rows[k].track = t => k = id
      BY <1>3, <1>4, <3>1
    <3>3. id \in DOMAIN rows /\ rows[id].list = p /\ DOMAIN T = DOMAIN rows \ {id}
      <4>1. K = {id}
        BY <1>3, <3>1
      <4>2. QED
        BY <1>5, <3>2, <4>1 DEF Of
    <3>4. OneMore(rows, T, id, rows[id])
      <4>1. rows = [k \in DOMAIN rows |-> rows[k]]
        BY <1>1 DEF Sound, Legal
      <4>2. QED
        BY <1>5, <3>3, <4>1 DEF OneMore
    <3> DEFINE r == Rank(rows, p, id)
               u == Content(T, p)
               Q == {T[k].track : k \in Of(T, p)}
    <3>5. r \in 1 .. Len(u) + 1 /\ s = At(u, r, t)
      BY <1>6, <3>2, <3>3, <3>4, DroppedContent
    <3>6. u \in Seq(Q)
      BY <1>6, ContentByRank
    <3> HIDE DEF Q, u, r
    <3>7. RemoveAt(s, r) = u
      BY <3>5, <3>6, OutOfAt DEF RemoveAt
    <3>8. /\ DOMAIN s = 1 .. Cardinality(Of(rows, p))
          /\ \A n \in DOMAIN s : \E k \in Of(rows, p) : Rank(rows, p, k) = n /\ s[n] = rows[k].track
      <4>1. /\ Len(s) = Cardinality(Of(rows, p))
            /\ \A k \in Of(rows, p) : s[Rank(rows, p, k)] = rows[k].track
        BY <1>6, ContentByRank
      <4>2. \A n \in 1 .. Cardinality(Of(rows, p)) : \E k \in Of(rows, p) : Rank(rows, p, k) = n
        BY <1>6, RanksAreOrder
      <4> HIDE DEF s, S
      <4>3. DOMAIN s = 1 .. Cardinality(Of(rows, p))
        BY <1>9, <4>1
      <4>4. QED
        BY <4>1, <4>2, <4>3
    <3>9. r \in DOMAIN s /\ s[r] = t
      <4>1. s[Rank(rows, p, id)] = rows[id].track
        BY <1>6, <3>2, ContentByRank
      <4>2. Rank(rows, p, id) \in 1 .. Cardinality(Of(rows, p))
        BY <1>6, <3>2, RanksAreOrder
      <4>3. QED
        BY <3>2, <3>8, <4>1, <4>2 DEF r
    <3>10. \A n \in DOMAIN s : s[n] = t => n = r
      BY <3>2, <3>8 DEF r
    <3> HIDE DEF s
    <3>11. \A i \in 1 .. r - 1 : s[i] # t
      <4>1. \A i \in 1 .. r - 1 : i \in DOMAIN s /\ i # r
        <5>1. Cardinality(Of(rows, p)) \in Nat
          BY <1>6, RanksAreOrder
        <5>2. QED
          BY <3>8, <3>9, <5>1
      <4>2. QED
        BY <3>10, <4>1
    <3>12. (CHOOSE k \in DOMAIN s : s[k] = t /\ \A j \in 1 .. k - 1 : s[j] # t) = r
      BY <3>9, <3>10, <3>11
    <3>13. FirstDropped(s, t) = RemoveAt(s, r)
      BY <3>9, <3>12 DEF FirstDropped
    <3>14. QED
      BY <3>7, <3>13 DEF u
  <2>3. QED
    BY <2>1, <2>2
<1>11. Shown' = [Shown EXCEPT ![p] = FirstDropped(s, t)]
  <2> HIDE DEF s
  <2>1. QED
    BY <1>2, <1>8, <1>10, PutShown
<1>12. QED
  BY <1>11 DEF Shown

(* No row of the playlist, no track. *)
LEMMA ClearTracksPromised ==
  ASSUME IInv, NEW p \in playlists, ClearTracks(p)
  PROVE  Shown' = [Shown EXCEPT ![p] = << >>]
<1> DEFINE T == Lacking(rows, Of(rows, p))
<1>1. Sound(rows) /\ Put(T)
  BY DEF IInv, ClearTracks
<1>2. Sound(T) /\ DOMAIN T = DOMAIN rows \ Of(rows, p) /\ \A k \in DOMAIN T : T[k] = rows[k]
  BY <1>1, LackingKeeps
<1> HIDE DEF T
<1>3. Of(T, p) = {}
  BY <1>2 DEF Of
<1>4. ASSUME NEW q, q # p
      PROVE  Content(T, q) = Content(rows, q)
  <2>1. Of(T, q) = Of(rows, q) /\ \A k \in Of(rows, q) : T[k] = rows[k]
    BY <1>2, <1>4 DEF Of
  <2>2. QED
    BY <1>1, <1>2, <2>1, SoundIsNumbered, SameRows
<1>5. QED
  BY <1>1, <1>3, <1>4, NoRows, PutShown

(* Calls on the tracks of a playlist. *)
LEMMA TrackCallPromised ==
  ASSUME Traps = {}, IInv, TrackCall
  PROVE  IF outcome' = "ok" THEN Promised(call') ELSE UNCHANGED Shown
<1>1. \A trap, danger : Unless(trap, danger) => danger = FALSE \/ ~danger
  BY DEF Unless
<1>2. ASSUME NEW p \in playlists, NEW t \in tracks, RoomIn(p), AddTrackBack(p, t),
             call' = <<"add_track_back", p, t>>
      PROVE  outcome' = "ok" /\ Promised(call')
  <2>1. Shown' = [Shown EXCEPT ![p] = Append(@, t)]
    BY <1>2, AddTrackBackPromised
  <2>2. outcome' = "ok"
    BY <1>2 DEF AddTrackBack, Put
  <2>3. call'[1] = "add_track_back" /\ call'[2] = p /\ call'[3] = t
    BY <1>2
  <2>4. QED
    BY <2>1, <2>2, <2>3 DEF Promised
<1>3. ASSUME NEW p \in playlists, NEW t \in tracks, NEW a \in tracks, RoomIn(p),
             Unless("tied", Tied(p, a)), AddTrackAfter(p, t, a),
             call' = <<"add_track_after", p, t, a>>
      PROVE  IF outcome' = "ok" THEN Promised(call') ELSE UNCHANGED Shown
  <2>1. CASE Places(rows, p, a) = {}
    <3>1. outcome' # "ok" /\ UNCHANGED data
      BY <1>3, <2>1 DEF AddTrackAfter
    <3>2. UNCHANGED Shown
      BY <3>1 DEF data, Shown
    <3>3. QED
      BY <3>1, <3>2
  <2>2. CASE Places(rows, p, a) # {}
    <3>1. ~Tied(p, a)
      BY <1>3 DEF Unless
    <3>2. Shown' = [Shown EXCEPT ![p] = AfterFirst(@, a, t)]
      BY <1>3, <2>2, <3>1, AddTrackAfterPromised
    <3>3. call'[1] = "add_track_after" /\ call'[2] = p /\ call'[3] = t /\ call'[4] = a
      BY <1>3
    <3>4. outcome' = "ok"
      BY <1>3, <2>2 DEF AddTrackAfter, Put
    <3>5. QED
      BY <3>2, <3>3, <3>4 DEF Promised
  <2>3. QED
    BY <2>1, <2>2
<1>4. ASSUME NEW p \in playlists, NEW t \in tracks,
             Unless("repeated", Repeated(p, t)), RemoveTrack(p, t),
             call' = <<"remove_track", p, t>>
      PROVE  outcome' = "ok" /\ Promised(call')
  <2>1. ~Repeated(p, t)
    BY <1>4 DEF Unless
  <2>2. Shown' = [Shown EXCEPT ![p] = FirstDropped(@, t)]
    BY <1>4, <2>1, RemoveTrackPromised
  <2>3. outcome' = "ok"
    BY <1>4 DEF RemoveTrack, Put
  <2>4. call'[1] = "remove_track" /\ call'[2] = p /\ call'[3] = t
    BY <1>4
  <2>5. QED
    BY <2>2, <2>3, <2>4 DEF Promised
<1>5. ASSUME NEW p \in playlists, ClearTracks(p), call' = <<"clear_tracks", p>>
      PROVE  outcome' = "ok" /\ Promised(call')
  <2>1. Shown' = [Shown EXCEPT ![p] = << >>]
    BY <1>5, ClearTracksPromised
  <2>2. outcome' = "ok"
    BY <1>5 DEF ClearTracks, Put
  <2>3. call'[1] = "clear_tracks" /\ call'[2] = p
    BY <1>5
  <2>4. QED
    BY <2>1, <2>2, <2>3 DEF Promised
<1>6. QED
  BY <1>2, <1>3, <1>4, <1>5 DEF TrackCall

(* Rows that go with what they refer to, or do not exist. *)
LEMMA Cascaded ==
  ASSUME Traps = {}, IInv, NEW K, Unless("dangling", Dangling(K)), K \subseteq DOMAIN rows
  PROVE  LET T == Cascade(K)
         IN  Sound(T) /\ DOMAIN T = DOMAIN rows \ K /\ \A k \in DOMAIN T : T[k] = rows[k]
<1>1. Sound(rows)
  BY DEF IInv
<1>2. CASE fkeys
  BY <1>1, <1>2, LackingKeeps DEF Cascade
<1>3. CASE ~fkeys
  <2>1. K = {} /\ Cascade(K) = rows
    BY <1>3 DEF Unless, Dangling, Cascade
  <2>2. QED
    BY <1>1, <2>1
<1>4. QED
  BY <1>2, <1>3

(* Calls on the database. *)
LEMMA DatabaseCallPromised ==
  ASSUME Traps = {}, IInv, DatabaseCall
  PROVE  outcome' = "ok" /\ Promised(call')
<1>1. Sound(rows) /\ Refers(rows, playlists, tracks)
  BY DEF IInv
<1>2. ASSUME CreatePlaylist, call' = <<"create_playlist">>
      PROVE  outcome' = "ok" /\ Promised(call')
  <2>1. PICK i \in 1 .. MaxPlaylist : i > Highest(playlists) /\ playlists' = playlists \cup {i}
    BY <1>2 DEF CreatePlaylist
  <2>2. i \notin playlists
    <3>1. playlists \in SUBSET (0 .. MaxPlaylist)
      BY DEF IInv
    <3>2. Highest(playlists) \in 0 .. MaxPlaylist /\ \A m \in playlists : m <= Highest(playlists)
      BY <3>1, BoundsAreNaturals, HighestIsHighest
    <3>3. QED
      BY <2>1, <3>2
  <2>3. Of(rows, i) = {}
    BY <1>1, <2>2 DEF Refers, Of
  <2>4. Content(rows, i) = << >>
    BY <2>3, NoRows
  <2>5. rows' = rows /\ outcome' = "ok"
    BY <1>2 DEF CreatePlaylist
  <2>6. Shown' = [p \in playlists \cup {i} |-> IF p = i THEN << >> ELSE Shown[p]]
    BY <2>1, <2>2, <2>4, <2>5 DEF Shown
  <2>7. call'[1] = "create_playlist" /\ i \in playlists' \ playlists
    BY <1>2, <2>1, <2>2
  <2>8. \E x \in playlists' \ playlists :
          Shown' = [p \in playlists \cup {x} |-> IF p = x THEN << >> ELSE Shown[p]]
    BY <2>6, <2>7
  <2> HIDE DEF Shown
  <2>9. QED
    BY <2>5, <2>7, <2>8 DEF Promised
<1>3. ASSUME NEW p \in playlists, Unless("dangling", Dangling(Of(rows, p))),
             RemovePlaylist(p), call' = <<"remove_playlist", p>>
      PROVE  outcome' = "ok" /\ Promised(call')
  <2> DEFINE T == Cascade(Of(rows, p))
  <2>1. rows' = T /\ playlists' = playlists \ {p} /\ outcome' = "ok"
    BY <1>3 DEF RemovePlaylist
  <2>2. Of(rows, p) \subseteq DOMAIN rows
    BY DEF Of
  <2>3. Sound(T) /\ DOMAIN T = DOMAIN rows \ Of(rows, p) /\ \A k \in DOMAIN T : T[k] = rows[k]
    BY <1>3, <2>2, Cascaded
  <2> HIDE DEF T
  <2>4. ASSUME NEW q, q # p
        PROVE  Content(T, q) = Content(rows, q)
    <3>1. Of(T, q) = Of(rows, q) /\ \A k \in Of(rows, q) : T[k] = rows[k]
      BY <2>3, <2>4 DEF Of
    <3>2. QED
      BY <1>1, <2>3, <3>1, SoundIsNumbered, SameRows
  <2>5. Shown' = [q \in playlists \ {p} |-> Shown[q]]
    BY <2>1, <2>4 DEF Shown
  <2>6. call'[1] = "remove_playlist" /\ call'[2] = p
    BY <1>3
  <2>7. QED
    BY <2>1, <2>5, <2>6 DEF Promised
<1>4. ASSUME CreateTrack, call' = <<"create_track">>
      PROVE  outcome' = "ok" /\ Promised(call')
  <2>1. outcome' = "ok" /\ playlists' = playlists /\ rows' = rows
    BY <1>4 DEF CreateTrack
  <2>2. UNCHANGED Shown
    BY <2>1 DEF Shown
  <2>3. call'[1] = "create_track"
    BY <1>4
  <2>4. QED
    BY <2>1, <2>2, <2>3 DEF Promised
<1>5. ASSUME NEW t \in tracks,
             Unless("dangling", Dangling({k \in DOMAIN rows : rows[k].track = t})),
             DropTrack(t), call' = <<"drop_track", t>>
      PROVE  outcome' = "ok" /\ Promised(call')
  <2> DEFINE K == {k \in DOMAIN rows : rows[k].track = t}
             T == Cascade(K)
  <2>1. rows' = T /\ playlists' = playlists /\ outcome' = "ok"
    BY <1>5 DEF DropTrack
  <2>2. K \subseteq DOMAIN rows /\ Unless("dangling", Dangling(K))
    BY <1>5
  <2>3. \A k \in DOMAIN rows : k \in K <=> rows[k].track = t
    OBVIOUS
  <2> HIDE DEF K
  <2>4. Sound(T) /\ DOMAIN T = DOMAIN rows \ K /\ \A k \in DOMAIN T : T[k] = rows[k]
    BY <2>2, Cascaded
  <2> HIDE DEF T
  <2>5. ASSUME NEW q
        PROVE  Content(T, q) = AllDropped(Content(rows, q), t)
    <3>1. /\ Of(T, q) = {k \in Of(rows, q) : rows[k].track # t}
          /\ \A k \in Of(T, q) : T[k] = rows[k]
      BY <2>3, <2>4 DEF Of
    <3>2. QED
      BY <1>1, <2>4, <3>1, SoundIsNumbered, WithoutContent
  <2>6. Shown' = [q \in playlists |-> AllDropped(Shown[q], t)]
    BY <2>1, <2>5 DEF Shown
  <2>7. call'[1] = "drop_track" /\ call'[2] = t
    BY <1>5
  <2>8. QED
    BY <2>1, <2>6, <2>7 DEF Promised
<1>6. QED
  BY <1>2, <1>3, <1>4, <1>5 DEF DatabaseCall

(* Of a caller who keeps clear of the three situations that the numbers and*)
(* keys do not provide for (adding after a track that shares its number    *)
(* with another place of it, removing a track with two places, removing    *)
(* what rows still refer to where keys are not enforced): every call does  *)
(* with the sequence of tracks of every playlist what the header promises, *)
(* to the place, whatever gaps and ties the numbers have, in tables and in *)
(* views (engine_playlist_impl.cpp, engine_database_impl.cpp).             *)
THEOREM PromisesAreKept ==
  ASSUME Traps = {}
  PROVE  Spec => KeepsPromises
<1>1. IInv /\ [Next]_vars =>
        [IF outcome' = "ok" THEN Promised(call') ELSE UNCHANGED Shown]_vars
  BY TrackCallPromised, DatabaseCallPromised DEF Next
<1>2. QED
  BY <1>1, InvariantHolds, PTL DEF Spec, KeepsPromises
=============================================================================
