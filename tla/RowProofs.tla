------------------------------ MODULE RowProofs ------------------------------
(***************************************************************************)
(* Proofs about the tables that the components keep their rows in, for     *)
(* tables of any size.                                                     *)
(*                                                                         *)
(* The first part is about rows numbered by rowid, and has the inductions  *)
(* over naturals that they and what is said of such tables elsewhere need: *)
(* a claim about every natural that is false somewhere is false at a least *)
(* one.                                                                    *)
(*                                                                         *)
(* The second part is about lists threaded through the rows: putting a row *)
(* before another one, and taking rows out, keep every chain a chain;      *)
(* reading a chain back from its end meets every row once; and neither     *)
(* putting a row in nor taking rows out changes the order of the others.   *)
(* Sorted is a recursive function, so what it yields is shown by induction *)
(* over the links of a finite chain: every set of rows that are not as     *)
(* claimed has a first one (FirstOf), and the row before that one, being   *)
(* as claimed, makes it so too.                                            *)
(***************************************************************************)
EXTENDS ChainedRows, RowTables, FiniteSetTheorems, SequenceTheorems,
        WellFoundedInduction, TLAPS

(* Every set of naturals that is not empty has a least member. *)
LEMMA LeastOf ==
  ASSUME NEW S \in SUBSET Nat, S # {}
  PROVE  \E x \in S : \A y \in S : x <= y
<1> DEFINE less == {ss \in Nat \X Nat : ss[1] < ss[2]}
<1>1. IsWellFoundedOn(less, Nat)
  BY NatLessThanWellFounded DEF OpToRel
<1>2. \A x, y \in Nat : <<x, y>> \in less <=> x < y
  OBVIOUS
<1> HIDE DEF less
<1>3. PICK x \in S : \A y \in S : ~ (<<y, x>> \in less)
  BY <1>1, WFMin, Zenon
<1>4. ASSUME NEW y \in S
      PROVE  x <= y
  <2>1. x \in Nat /\ y \in Nat
    OBVIOUS
  <2>2. ~ (y < x)
    BY <1>2, <1>3, <2>1
  <2>3. QED
    BY <2>1, <2>2
<1>5. QED
  BY <1>4

(* What holds of 0, and of n if it holds of n - 1, holds up to N. *)
LEMMA UpTo ==
  ASSUME NEW N \in Nat, NEW P, 0 \in P,
         \A n \in 1 .. N : n - 1 \in P => n \in P
  PROVE  \A n \in 0 .. N : n \in P
<1> SUFFICES ASSUME NEW m \in 0 .. N, m \notin P
             PROVE  FALSE
  OBVIOUS
<1> DEFINE S == {n \in 0 .. N : n \notin P}
<1>1. S \in SUBSET Nat /\ S # {}
  OBVIOUS
<1>2. PICK n \in S : \A y \in S : n <= y
  BY <1>1, LeastOf
<1>3. n \in 1 .. N
  BY <1>2
<1>4. n - 1 \in 0 .. N /\ ~ (n <= n - 1)
  BY <1>3
<1>5. n - 1 \in P
  BY <1>2, <1>4
<1>6. QED
  BY <1>2, <1>3, <1>5

(* MAX(..) of a column of legal values is one of them, or 0, and none is   *)
(* above it.                                                               *)
LEMMA HighestIsHighest ==
  ASSUME NEW N \in Nat, NEW S \in SUBSET (0 .. N)
  PROVE  /\ Highest(S) \in S \cup {0}
         /\ \A m \in S : m <= Highest(S)
         /\ Highest(S) \in 0 .. N
<1> DEFINE U == {n \in 0 .. N : \A m \in S \cup {0} : m <= n}
<1>1. U \in SUBSET Nat /\ N \in U
  OBVIOUS
<1>2. PICK h \in U : \A u \in U : h <= u
  BY <1>1, LeastOf
<1>3. h \in S \cup {0}
  <2> SUFFICES ASSUME h \notin S \cup {0}
               PROVE  FALSE
    OBVIOUS
  <2>1. h \in 1 .. N /\ h - 1 \in 0 .. N
    BY <1>2
  <2>2. \A m \in S \cup {0} : m <= h - 1
    BY <1>2, <2>1
  <2>3. h - 1 \in U
    BY <2>1, <2>2
  <2>4. QED
    BY <1>2, <2>1, <2>3
<1>4. \A m \in S : m <= h
  BY <1>2
<1>5. Highest(S) \in S \cup {0} /\ \A m \in S : m <= Highest(S)
  BY <1>3, <1>4 DEF Highest
<1> HIDE DEF U
<1>6. \A m \in S \cup {0} : m \in 0 .. N
  OBVIOUS
<1>7. QED
  BY <1>5, <1>6

(* st says how step n of N leads from one member of S to another; f is what*)
(* these steps lead to from a.                                             *)
Leads(st, N, S) == st \in [(1 .. N) \X S -> S]

Led(f, st, N, S, a) ==
  /\ f \in [0 .. N -> S] /\ f[0] = a
  /\ \A n \in 1 .. N : f[n] = st[<<n, f[n - 1]>>]

(* A function over 0 .. N may be defined step by step.                     *)
LEMMA StepByStep ==
  ASSUME NEW N \in Nat, NEW S, NEW a \in S, NEW st, Leads(st, N, S)
  PROVE  \E f : Led(f, st, N, S, a)
<1> DEFINE Steps(n, f) == f[0] = a /\ \A i \in 1 .. n : f[i] = st[<<i, f[i - 1]>>]
           P == {n \in 0 .. N : \E f \in [0 .. n -> S] : Steps(n, f)}
<1>1. 0 \in P
  <2> DEFINE f == [i \in 0 .. 0 |-> a]
  <2>1. f \in [0 .. 0 -> S] /\ Steps(0, f)
    OBVIOUS
  <2> HIDE DEF f, Steps
  <2>2. \E g \in [0 .. 0 -> S] : Steps(0, g)
    BY <2>1
  <2>3. QED
    BY <2>2
<1>2. ASSUME NEW n \in 1 .. N, n - 1 \in P
      PROVE  n \in P
  <2>1. PICK f \in [0 .. n - 1 -> S] : Steps(n - 1, f)
    BY <1>2
  <2> DEFINE g == [i \in 0 .. n |-> IF i = n THEN st[<<n, f[n - 1]>>] ELSE f[i]]
  <2>2. n - 1 \in 0 .. n - 1 /\ f[n - 1] \in S
    OBVIOUS
  <2>3. st[<<n, f[n - 1]>>] \in S
    BY <2>2 DEF Leads
  <2>4. \A i \in 0 .. n : i # n => i \in 0 .. n - 1 /\ f[i] \in S
    OBVIOUS
  <2>5. g \in [0 .. n -> S]
    BY <2>3, <2>4
  <2>6. ASSUME NEW i \in 1 .. n
        PROVE  g[i] = st[<<i, g[i - 1]>>]
    <3>1. i - 1 \in 0 .. n /\ i - 1 # n /\ g[i - 1] = f[i - 1]
      OBVIOUS
    <3>2. CASE i = n
      BY <3>1, <3>2
    <3>3. CASE i # n
      <4>1. i \in 1 .. n - 1 /\ i \in 0 .. n
        BY <3>3
      <4>2. f[i] = st[<<i, f[i - 1]>>]
        BY <2>1, <4>1
      <4>3. g[i] = f[i]
        BY <3>3, <4>1
      <4>4. QED
        BY <3>1, <4>2, <4>3
    <3>4. QED
      BY <3>2, <3>3
  <2>7. g[0] = a
    <3>1. 0 \in 0 .. n /\ 0 # n
      OBVIOUS
    <3>2. QED
      BY <2>1, <3>1
  <2> HIDE DEF g
  <2>8. Steps(n, g)
    BY <2>6, <2>7
  <2>9. QED
    BY <2>5, <2>8
<1> HIDE DEF P
<1>3. N \in P
  BY <1>1, <1>2, UpTo
<1>4. QED
  BY <1>3 DEF P, Led

-----------------------------------------------------------------------------
(* T is R and the rows of new, in order, with ids above those of R.        *)
MoreRows(T, R, last, new) ==
  /\ \A k \in DOMAIN R : k <= last
  /\ DOMAIN T = DOMAIN R \cup {last + n : n \in DOMAIN new}
  /\ \A k \in DOMAIN R : T[k] = R[k]
  /\ \A n \in DOMAIN new : last + n \notin DOMAIN R /\ T[last + n] = new[n]
  /\ T = [k \in DOMAIN T |-> T[k]]

(* INSERT .. SELECT leaves the rows there are alone.                       *)
LEMMA InsertedAllShape ==
  ASSUME NEW N \in Nat, NEW R, DOMAIN R \subseteq 1 .. N,
         NEW m \in Nat, NEW new, DOMAIN new = 1 .. m
  PROVE  /\ MoreRows(InsertedAll(R, new), R, Highest(DOMAIN R), new)
         /\ Highest(DOMAIN R) \in 0 .. N
         /\ DOMAIN InsertedAll(R, new) \subseteq 1 .. (N + m)
<1> DEFINE last == Highest(DOMAIN R)
           T == InsertedAll(R, new)
<1>1. last \in 0 .. N /\ \A k \in DOMAIN R : k <= last
  <2>1. DOMAIN R \in SUBSET (0 .. N)
    OBVIOUS
  <2>2. QED
    BY <2>1, HighestIsHighest
<1>2. T = [k \in DOMAIN R \cup {last + n : n \in DOMAIN new} |->
             IF k \in DOMAIN R THEN R[k] ELSE new[k - last]]
  BY DEF InsertedAll
<1> HIDE DEF last, T
<1>3. \A n \in DOMAIN new : /\ last + n \notin DOMAIN R /\ (last + n) - last = n
                            /\ last + n \in 1 .. (N + m)
  BY <1>1
<1>4. DOMAIN T = DOMAIN R \cup {last + n : n \in DOMAIN new}
  BY <1>2
<1>5. \A k \in DOMAIN R : T[k] = R[k] /\ k \in 1 .. (N + m)
  BY <1>2
<1>6. \A n \in DOMAIN new : T[last + n] = new[n]
  BY <1>2, <1>3
<1>7. T = [k \in DOMAIN T |-> T[k]]
  BY <1>2
<1>8. DOMAIN T \subseteq 1 .. (N + m)
  BY <1>3, <1>4, <1>5
<1>9. QED
  BY <1>1, <1>3, <1>4, <1>5, <1>6, <1>7, <1>8 DEF MoreRows, last, T

(* T is R and row, which has an id of its own. *)
OneMore(T, R, id, row) ==
  /\ id \notin DOMAIN R /\ DOMAIN T = DOMAIN R \cup {id}
  /\ T[id] = row /\ \A k \in DOMAIN R : T[k] = R[k]
  /\ T = [k \in DOMAIN T |-> T[k]]

(* INSERT leaves the rows there are alone.                                 *)
LEMMA InsertedShape ==
  ASSUME NEW N \in Nat, NEW R, DOMAIN R \subseteq 1 .. N, NEW row
  PROVE  /\ OneMore(InsertedLast(R, row), R, Highest(DOMAIN R) + 1, row)
         /\ DOMAIN InsertedLast(R, row) \subseteq 1 .. (N + 1)
<1> DEFINE T == InsertedLast(R, row)
           last == Highest(DOMAIN R)
           new == <<row>>
<1>1. T = InsertedAll(R, new) /\ DOMAIN new = 1 .. 1 /\ new[1] = row
  BY DEF InsertedLast
<1> HIDE DEF T, new
<1>2. MoreRows(T, R, last, new) /\ DOMAIN T \subseteq 1 .. (N + 1)
  BY <1>1, InsertedAllShape
<1> HIDE DEF last
<1>3. 1 \in DOMAIN new /\ {last + n : n \in DOMAIN new} = {last + 1}
  BY <1>1
<1>4. QED
  BY <1>1, <1>2, <1>3 DEF MoreRows, OneMore, last, T

(* An ordered set has each of its members once. *)
LEMMA AscendingIsComplete ==
  ASSUME NEW S \in SUBSET Nat, IsFiniteSet(S)
  PROVE  LET s == Ascending(S)
         IN  /\ Cardinality(S) \in Nat /\ s \in [1 .. Cardinality(S) -> S]
             /\ \A j, k \in DOMAIN s : s[j] = s[k] => j = k
             /\ \A a \in S : \E n \in DOMAIN s : s[n] = a
<1> DEFINE N == Cardinality(S)
           Below(a) == {b \in S : b < a}
           rank == [a \in S |-> Cardinality(Below(a)) + 1]
           s == Ascending(S)
<1>1. N \in Nat
  BY FS_CardinalityType
<1>2. ASSUME NEW a \in S
      PROVE  IsFiniteSet(Below(a)) /\ Cardinality(Below(a)) \in 0 .. N - 1
  <2>1. Below(a) \in SUBSET S /\ a \notin Below(a)
    OBVIOUS
  <2> HIDE DEF Below
  <2>2. /\ IsFiniteSet(Below(a)) /\ Cardinality(Below(a)) <= N
        /\ Cardinality(Below(a)) # N
    BY <2>1, FS_Subset
  <2>3. Cardinality(Below(a)) \in Nat
    BY <2>2, FS_CardinalityType
  <2>4. QED
    BY <1>1, <2>2, <2>3
<1>3. ASSUME NEW a \in S, NEW c \in S, a < c
      PROVE  rank[a] # rank[c]
  <2>1. Below(a) \in SUBSET Below(c) /\ a \in Below(c) /\ a \notin Below(a)
    <3>1. \A b \in S : b < a => b < c
      BY <1>3
    <3>2. ~ (a < a)
      OBVIOUS
    <3>3. QED
      BY <1>3, <3>1, <3>2
  <2>2. Cardinality(Below(a)) # Cardinality(Below(c))
    <3> HIDE DEF Below
    <3>1. QED
      BY <1>2, <2>1, FS_Subset
  <2>3. Cardinality(Below(a)) \in Nat /\ Cardinality(Below(c)) \in Nat
    <3> HIDE DEF Below
    <3>1. QED
      BY <1>1, <1>2
  <2> HIDE DEF Below
  <2>4. QED
    BY <2>2, <2>3
<1>4. \A a, c \in S : rank[a] = rank[c] => a = c
  <2> HIDE DEF rank
  <2>1. \A a, c \in S : a < c \/ c < a \/ a = c
    OBVIOUS
  <2>2. QED
    BY <1>3, <2>1
<1>5. rank \in [S -> 1 .. N]
  <2> HIDE DEF Below
  <2>1. \A a \in S : Cardinality(Below(a)) + 1 \in 1 .. N
    BY <1>1, <1>2
  <2>2. QED
    BY <2>1
<1>6. \A a \in S, n \in 1 .. N : rank[a] = n <=> Cardinality(Below(a)) = n - 1
  <2> HIDE DEF Below
  <2>1. \A a \in S : Cardinality(Below(a)) \in Nat
    BY <1>1, <1>2
  <2>2. QED
    BY <1>1, <2>1
<1>7. s = [n \in 1 .. N |-> CHOOSE a \in S : Cardinality(Below(a)) = n - 1]
  BY DEF Ascending
<1> HIDE DEF rank, s, N, Below
<1>8. \A n \in 1 .. N : \E a \in S : rank[a] = n
  <2>1. rank \in Injection(S, 1 .. N)
    BY <1>4, <1>5 DEF Injection, IsInjective
  <2>2. IsFiniteSet(1 .. N) /\ Cardinality(1 .. N) = N
    BY <1>1, FS_Interval
  <2>3. rank \in Surjection(S, 1 .. N)
    BY <2>1, <2>2, FS_Injection DEF N
  <2>4. QED
    BY <2>3 DEF Surjection
<1>9. \A n \in 1 .. N : s[n] \in S /\ rank[s[n]] = n
  BY <1>6, <1>7, <1>8
<1>10. s \in [1 .. N -> S]
  BY <1>7, <1>9
<1>11. \A j, k \in 1 .. N : s[j] = s[k] => j = k
  BY <1>9
<1>12. \A a \in S : rank[a] \in 1 .. N /\ s[rank[a]] = a
  BY <1>4, <1>5, <1>9
<1>13. QED
  BY <1>1, <1>10, <1>11, <1>12 DEF N, s

-----------------------------------------------------------------------------
(* F is G with the row id put under parent q, before the row n. *)
PutBefore(F, G, id, q, n) ==
  /\ id \notin DOMAIN G
  /\ DOMAIN F = DOMAIN G \cup {id}
  /\ F[id].owner = q /\ F[id].next = n
  /\ \A i \in DOMAIN G :
       /\ F[i].owner = G[i].owner
       /\ F[i].next = IF G[i].owner = q /\ G[i].next = n THEN id ELSE G[i].next

(* F is G without the rows X, which hold the row id; the row before id is  *)
(* linked to the row after it.                                             *)
TakenOut(F, G, id, X) ==
  /\ id \in DOMAIN G
  /\ DOMAIN F = DOMAIN G \ X
  /\ id \in X
  /\ \A i \in DOMAIN F :
       /\ F[i].owner = G[i].owner
       /\ F[i].next = IF G[i].next = id THEN G[id].next ELSE G[i].next

(* Inserting a row before a sibling, or at the end, keeps a chain a chain. *)
LEMMA PutBeforeKeepsChain ==
  ASSUME NEW F, NEW G, NEW id, NEW q, NEW n, NEW p,
         PutBefore(F, G, id, q, n),
         None \notin DOMAIN F,
         n \in Kids(G, q) \cup {None},
         Chain(G, p)
  PROVE  Chain(F, p)
<1>1. CASE p # q
  <2>1. Kids(F, p) = Kids(G, p)
    BY <1>1 DEF PutBefore, Kids
  <2>2. \A i \in Kids(G, p) : F[i].next = G[i].next
    BY <1>1 DEF PutBefore, Kids
  <2>3. QED
    BY <2>1, <2>2 DEF Chain
<1>2. CASE p = q
  <2>1. Kids(F, p) = Kids(G, p) \cup {id}
    BY <1>2 DEF PutBefore, Kids
  <2>2. \A i \in Kids(G, p) : F[i].next = IF G[i].next = n THEN id ELSE G[i].next
    BY <1>2 DEF PutBefore, Kids
  <2>3. F[id].next = n /\ id \notin Kids(G, p) /\ None \notin Kids(G, p) /\ id # None
    BY DEF PutBefore, Kids
  <2>4. /\ \A i \in Kids(G, p) : G[i].next \in Kids(G, p) \cup {None}
        /\ \A i, j \in Kids(G, p) : G[i].next = G[j].next => i = j
        /\ \A S \in SUBSET Kids(G, p) : S # {} => \E i \in S : G[i].next \notin S
    BY DEF Chain
  <2>5. n \in Kids(G, p) \cup {None}
    BY <1>2
  <2>6. \A i \in Kids(F, p) : F[i].next \in Kids(F, p) \cup {None}
    BY <2>1, <2>2, <2>3, <2>4, <2>5
  <2>7. \A i, j \in Kids(F, p) : F[i].next = F[j].next => i = j
    BY <2>1, <2>2, <2>3, <2>4, <2>5
  <2>8. ASSUME NEW S \in SUBSET Kids(F, p), S # {}, \A i \in S : F[i].next \in S
        PROVE  FALSE
    <3>1. CASE id \notin S
      <4>1. S \in SUBSET Kids(G, p)
        BY <3>1, <2>1, <2>8
      <4>2. \A i \in S : G[i].next \in S
        BY <3>1, <4>1, <2>2, <2>8
      <4>3. QED
        BY <4>1, <4>2, <2>4, <2>8
    <3>2. CASE id \in S
      <4>1. n \in S \ {id}
        BY <3>2, <2>1, <2>3, <2>5, <2>8
      <4>2. S \ {id} \in SUBSET Kids(G, p)
        BY <2>1
      <4>3. \A i \in S \ {id} : G[i].next \in S \ {id}
        BY <4>1, <4>2, <2>2, <2>3, <2>4, <2>8
      <4>4. QED
        BY <4>1, <4>2, <4>3, <2>4
    <3>3. QED
      BY <3>1, <3>2
  <2>9. QED
    BY <2>6, <2>7, <2>8 DEF Chain
<1>3. QED
  BY <1>1, <1>2

(* Taking out a row, alone or with whole sibling groups, keeps a chain a   *)
(* chain.                                                                  *)
LEMMA TakenOutKeepsChain ==
  ASSUME NEW F, NEW G, NEW id, NEW X, NEW p,
         TakenOut(F, G, id, X),
         None \notin DOMAIN G,
         Kids(G, p) \cap X \subseteq {id} \/ Kids(G, p) \subseteq X,
         Chain(G, p)
  PROVE  Chain(F, p)
<1>1. CASE Kids(G, p) \subseteq X
  <2>1. Kids(F, p) = {}
    BY <1>1 DEF TakenOut, Kids
  <2>2. QED
    BY <2>1 DEF Chain
<1>2. CASE Kids(G, p) \cap X \subseteq {id}
  <2>1. Kids(F, p) = Kids(G, p) \ {id}
    BY <1>2 DEF TakenOut, Kids
  <2>2. \A i \in Kids(F, p) : F[i].next = IF G[i].next = id THEN G[id].next ELSE G[i].next
    BY DEF TakenOut, Kids
  <2>3. None \notin Kids(G, p) /\ id # None
    BY DEF TakenOut, Kids
  <2>4. /\ \A i \in Kids(G, p) : G[i].next \in Kids(G, p) \cup {None}
        /\ \A i, j \in Kids(G, p) : G[i].next = G[j].next => i = j
        /\ \A S \in SUBSET Kids(G, p) : S # {} => \E i \in S : G[i].next \notin S
    BY DEF Chain
  <2>5. CASE id \notin Kids(G, p)
    <3>1. \A i \in Kids(F, p) : F[i].next = G[i].next
      BY <2>1, <2>2, <2>3, <2>4, <2>5
    <3>2. Kids(F, p) = Kids(G, p)
      BY <2>1, <2>5
    <3>3. QED
      BY <3>1, <3>2 DEF Chain
  <2>6. CASE id \in Kids(G, p)
    <3>1. G[id].next # id
      <4>1. {id} \in SUBSET Kids(G, p) /\ {id} # {}
        BY <2>6
      <4>2. QED
        BY <4>1, <2>4
    <3>2. \A i \in Kids(F, p) : F[i].next \in Kids(F, p) \cup {None}
      BY <2>1, <2>2, <2>3, <2>4, <2>6, <3>1
    <3>3. \A i, j \in Kids(F, p) : F[i].next = F[j].next => i = j
      BY <2>1, <2>2, <2>3, <2>4, <2>6, <3>1
    <3>4. ASSUME NEW S \in SUBSET Kids(F, p), S # {}, \A i \in S : F[i].next \in S
          PROVE  FALSE
      <4>1. CASE \E i \in S : G[i].next = id
        <5>1. G[id].next \in S
          BY <4>1, <3>4, <2>2
        <5>2. S \cup {id} \in SUBSET Kids(G, p) /\ S \cup {id} # {}
          BY <2>1, <2>6
        <5>3. \A i \in S \cup {id} : G[i].next \in S \cup {id}
          BY <5>1, <3>4, <2>2
        <5>4. QED
          BY <5>2, <5>3, <2>4
      <4>2. CASE \A i \in S : G[i].next # id
        <5>1. S \in SUBSET Kids(G, p) /\ \A i \in S : G[i].next \in S
          BY <4>2, <3>4, <2>1, <2>2
        <5>2. QED
          BY <5>1, <3>4, <2>4
      <4>3. QED
        BY <4>1, <4>2
    <3>5. QED
      BY <3>2, <3>3, <3>4 DEF Chain
  <2>7. QED
    BY <2>5, <2>6
<1>3. QED
  BY <1>1, <1>2

-----------------------------------------------------------------------------
(* The order in which a chain is read. *)

(* K is a finite chain by the links nx, with None at its end.              *)
Threaded(K, nx) ==
  /\ IsFiniteSet(K) /\ None \notin K
  /\ nx \in [K -> K \cup {None}]
  /\ \A i, j \in K : nx[i] = nx[j] => i = j
  /\ \A S \in SUBSET K : S # {} => \E i \in S : nx[i] \notin S

(* s is the way back from n to where the chain begins, the other way round.*)
Walk(K, nx, s, n) ==
  /\ s \in Seq(K)
  /\ \A k \in 1 .. Len(s) - 1 : nx[s[k]] = s[k + 1]
  /\ s = << >> => \A i \in K : nx[i] # n
  /\ s # << >> => nx[s[Len(s)]] = n /\ \A i \in K : nx[i] # s[1]

(* Every set of rows has one that none of them is linked to: otherwise the *)
(* way back would be an injection of a finite set, and so would cover it,  *)
(* and the links would lead round in a circle.                             *)
LEMMA FirstOf ==
  ASSUME NEW K, NEW nx, Threaded(K, nx), NEW S \in SUBSET K, S # {}
  PROVE  \E i \in S : \A j \in S : nx[j] # i
<1> SUFFICES ASSUME \A i \in S : \E j \in S : nx[j] = i
             PROVE  FALSE
  OBVIOUS
<1> DEFINE prev == [i \in S |-> CHOOSE j \in S : nx[j] = i]
<1>1. \A i \in S : prev[i] \in S /\ nx[prev[i]] = i
  OBVIOUS
<1>2. prev \in [S -> S]
  BY <1>1
<1> HIDE DEF prev
<1>3. prev \in Injection(S, S)
  BY <1>1, <1>2 DEF Injection, IsInjective
<1>4. IsFiniteSet(S)
  BY FS_Subset DEF Threaded
<1>5. prev \in Surjection(S, S)
  BY <1>3, <1>4, FS_Injection
<1>6. \A j \in S : nx[j] \in S
  BY <1>1, <1>5 DEF Surjection
<1>7. QED
  BY <1>6 DEF Threaded

(* The way back from the row after j is that from j, and j.                *)
LEMMA WalkExtends ==
  ASSUME NEW K, NEW nx, Threaded(K, nx), NEW j \in K, NEW s, Walk(K, nx, s, j)
  PROVE  Walk(K, nx, Append(s, j), nx[j])
<1> DEFINE t == Append(s, j)
<1>1. s \in Seq(K)
  BY DEF Walk
<1>2. /\ t \in Seq(K) /\ Len(t) = Len(s) + 1 /\ t[Len(t)] = j /\ t # << >>
      /\ \A k \in 1 .. Len(s) : t[k] = s[k]
  BY <1>1, AppendProperties
<1>3. Len(s) \in Nat /\ (s = << >> <=> Len(s) = 0)
  BY <1>1
<1> HIDE DEF t
<1>4. ASSUME NEW k \in 1 .. Len(t) - 1
      PROVE  nx[t[k]] = t[k + 1]
  <2>1. CASE k < Len(s)
    <3>1. k \in 1 .. Len(s) - 1 /\ k \in 1 .. Len(s) /\ k + 1 \in 1 .. Len(s)
      BY <1>2, <1>3, <2>1
    <3>2. QED
      BY <1>2, <3>1 DEF Walk
  <2>2. CASE k = Len(s)
    BY <1>2, <1>3, <2>2 DEF Walk
  <2>3. QED
    BY <1>2, <1>3, <2>1, <2>2
<1>5. \A i \in K : nx[i] # t[1]
  BY <1>2, <1>3 DEF Walk
<1>6. QED
  BY <1>2, <1>4, <1>5 DEF Walk

(* A way back that is not empty ends in the row before, and what comes     *)
(* ahead of that is the way back from it.                                  *)
LEMMA WalkShrinks ==
  ASSUME NEW K, NEW nx, Threaded(K, nx), NEW n, NEW s, Walk(K, nx, s, n), s # << >>
  PROVE  \E t \in Seq(K), j \in K : Walk(K, nx, t, j) /\ s = Append(t, j) /\ nx[j] = n
<1>1. s \in Seq(K)
  BY DEF Walk
<1>2. PICK t \in Seq(K), j \in K : s = Append(t, j)
  BY <1>1, SequenceEmptyOrAppend
<1>3. /\ Len(s) = Len(t) + 1 /\ s[Len(s)] = j
      /\ \A k \in 1 .. Len(t) : s[k] = t[k]
      /\ Len(t) \in Nat /\ (t = << >> <=> Len(t) = 0)
  BY <1>2, AppendProperties
<1>4. nx[j] = n
  BY <1>3 DEF Walk
<1>5. ASSUME NEW k \in 1 .. Len(t) - 1
      PROVE  nx[t[k]] = t[k + 1]
  <2>1. k \in 1 .. Len(s) - 1 /\ k \in 1 .. Len(t) /\ k + 1 \in 1 .. Len(t)
    BY <1>3
  <2>2. QED
    BY <1>3, <2>1 DEF Walk
<1>6. CASE t = << >>
  <2>1. s[1] = j
    BY <1>3, <1>6
  <2>2. \A i \in K : nx[i] # j
    BY <2>1 DEF Walk
  <2>3. QED
    BY <1>2, <1>4, <1>5, <1>6, <2>2 DEF Walk
<1>7. CASE t # << >>
  <2>1. Len(t) \in 1 .. Len(s) - 1 /\ 1 \in 1 .. Len(t) /\ Len(t) \in 1 .. Len(t)
    BY <1>3, <1>7
  <2>2. nx[t[Len(t)]] = j
    BY <1>3, <2>1 DEF Walk
  <2>3. \A i \in K : nx[i] # t[1]
    BY <1>3, <2>1 DEF Walk
  <2>4. QED
    BY <1>2, <1>4, <1>5, <1>7, <2>2, <2>3 DEF Walk
<1>8. QED
  BY <1>6, <1>7

(* There is one way back from every row and from the end.                  *)
LEMMA OneWalk ==
  ASSUME NEW K, NEW nx, Threaded(K, nx), NEW n \in K \cup {None}
  PROVE  /\ \E s : Walk(K, nx, s, n)
         /\ \A s, t : Walk(K, nx, s, n) /\ Walk(K, nx, t, n) => s = t
<1> DEFINE One(m) == /\ \E s : Walk(K, nx, s, m)
                     /\ \A s, t : Walk(K, nx, s, m) /\ Walk(K, nx, t, m) => s = t
<1>1. ASSUME NEW m, \A i \in K : nx[i] # m
      PROVE  One(m)
  <2>1. Walk(K, nx, << >>, m)
    BY <1>1 DEF Walk
  <2>2. ASSUME NEW s, Walk(K, nx, s, m)
        PROVE  s = << >>
    BY <1>1, <2>2, WalkShrinks
  <2>3. QED
    BY <2>1, <2>2
<1>2. ASSUME NEW j \in K, One(j)
      PROVE  One(nx[j])
  <2>1. PICK s : Walk(K, nx, s, j)
    BY <1>2
  <2>2. Walk(K, nx, Append(s, j), nx[j])
    BY <2>1, WalkExtends
  <2>3. ASSUME NEW t, Walk(K, nx, t, nx[j])
        PROVE  t = Append(s, j)
    <3>1. t # << >>
      BY <2>3 DEF Walk
    <3>2. PICK u \in Seq(K), i \in K : Walk(K, nx, u, i) /\ t = Append(u, i) /\ nx[i] = nx[j]
      BY <2>3, <3>1, WalkShrinks
    <3>3. i = j
      BY <3>2 DEF Threaded
    <3>4. u = s
      BY <1>2, <2>1, <3>2, <3>3
    <3>5. QED
      BY <3>2, <3>3, <3>4
  <2>4. QED
    BY <2>2, <2>3
<1> HIDE DEF One
<1>3. ASSUME NEW m \in K, ~One(m)
      PROVE  FALSE
  <2> DEFINE S == {i \in K : ~One(i)}
  <2>1. S \in SUBSET K /\ S # {} /\ \A i \in K : i \in S <=> ~One(i)
    BY <1>3
  <2> HIDE DEF S
  <2>2. PICK i \in S : \A j \in S : nx[j] # i
    BY <2>1, FirstOf
  <2>3. PICK j \in K : nx[j] = i
    BY <1>1, <2>1, <2>2
  <2>4. One(j)
    BY <2>1, <2>2, <2>3
  <2>5. QED
    BY <1>2, <2>1, <2>2, <2>3, <2>4
<1>4. One(n)
  BY <1>1, <1>2, <1>3
<1>5. QED
  BY <1>4 DEF One

(* The way back from the end passes every row, once.                       *)
LEMMA WalkIsComplete ==
  ASSUME NEW K, NEW nx, Threaded(K, nx), NEW s, Walk(K, nx, s, None)
  PROVE  \A i \in K : \E k \in DOMAIN s : s[k] = i
<1> DEFINE S == {i \in K : \A k \in DOMAIN s : s[k] # i}
<1> SUFFICES ASSUME S # {}
             PROVE  FALSE
  OBVIOUS
<1>1. PICK i \in S : nx[i] \notin S
  BY DEF Threaded
<1>2. /\ s \in Seq(K) /\ DOMAIN s = 1 .. Len(s) /\ Len(s) \in Nat
      /\ (s = << >> <=> Len(s) = 0)
  BY DEF Walk
<1>3. CASE nx[i] = None
  <2>1. s # << >>
    BY <1>3 DEF Walk
  <2>2. Len(s) \in DOMAIN s /\ s[Len(s)] \in K /\ nx[s[Len(s)]] = None
    BY <1>2, <2>1 DEF Walk
  <2>3. i = s[Len(s)]
    BY <1>3, <2>2 DEF Threaded
  <2>4. QED
    BY <2>2, <2>3
<1>4. CASE nx[i] # None
  <2>1. nx[i] \in K
    BY <1>4 DEF Threaded
  <2>2. PICK k \in DOMAIN s : s[k] = nx[i]
    BY <1>1, <2>1
  <2>3. k # 1
    BY <1>2, <2>2 DEF Walk
  <2>4. k - 1 \in 1 .. Len(s) - 1 /\ k - 1 \in DOMAIN s /\ (k - 1) + 1 = k
    BY <1>2, <2>2, <2>3
  <2>5. s[k - 1] \in K /\ nx[s[k - 1]] = s[k]
    BY <1>2, <2>4 DEF Walk
  <2>6. i = s[k - 1]
    BY <2>2, <2>5 DEF Threaded
  <2>7. QED
    BY <2>4, <2>6
<1>5. QED
  BY <1>3, <1>4

(* No way back passes a row twice: the first row to be passed twice would  *)
(* have one before it that is passed twice.                                *)
LEMMA WalkPassesOnce ==
  ASSUME NEW K, NEW nx, Threaded(K, nx), NEW s, NEW n, Walk(K, nx, s, n),
         NEW j \in DOMAIN s, NEW k \in DOMAIN s, s[j] = s[k]
  PROVE  j = k
<1> DEFINE D == {i \in K : \E a, b \in DOMAIN s : a < b /\ s[a] = i /\ s[b] = i}
<1>0. s \in Seq(K) /\ DOMAIN s = 1 .. Len(s) /\ Len(s) \in Nat
  BY DEF Walk
<1> SUFFICES ASSUME j # k
             PROVE  FALSE
  OBVIOUS
<1>1. D \in SUBSET K /\ D # {}
      /\ \A i \in K : i \in D <=> \E a, b \in DOMAIN s : a < b /\ s[a] = i /\ s[b] = i
  <2>1. s[j] \in K /\ (j < k \/ k < j)
    BY <1>0
  <2>2. s[j] \in D
    BY <2>1
  <2>3. QED
    BY <2>2
<1> HIDE DEF D
<1>2. PICK i \in D : \A h \in D : nx[h] # i
  BY <1>1, FirstOf
<1>3. PICK a, b \in DOMAIN s : a < b /\ s[a] = i /\ s[b] = i
  BY <1>1, <1>2
<1>4. b - 1 \in 1 .. Len(s) - 1 /\ b - 1 \in DOMAIN s /\ (b - 1) + 1 = b /\ s # << >>
  BY <1>0, <1>3
<1>5. s[b - 1] \in K /\ nx[s[b - 1]] = i
  BY <1>0, <1>3, <1>4 DEF Walk
<1>6. a # 1
  BY <1>3, <1>4, <1>5 DEF Walk
<1>7. /\ a - 1 \in 1 .. Len(s) - 1 /\ a - 1 \in DOMAIN s /\ (a - 1) + 1 = a
      /\ a - 1 < b - 1
  BY <1>0, <1>3, <1>6
<1>8. s[a - 1] \in K /\ nx[s[a - 1]] = i
  BY <1>0, <1>3, <1>7 DEF Walk
<1>9. s[a - 1] = s[b - 1]
  BY <1>5, <1>8 DEF Threaded
<1>10. s[b - 1] \in D
  BY <1>1, <1>4, <1>5, <1>7, <1>9
<1>11. QED
  BY <1>2, <1>5, <1>10

(* The links of the rows of o. *)
Links(T, o) == [i \in Kids(T, o) |-> T[i].next]

(* What the library reads of a chain is the way back from its end. *)
LEMMA SortedIsWalk ==
  ASSUME NEW T, NEW o, Threaded(Kids(T, o), Links(T, o))
  PROVE  Walk(Kids(T, o), Links(T, o), Sorted(T, o), None)
<1> DEFINE K == Kids(T, o)
           nx == Links(T, o)
           Prev(n) == {i \in K : T[i].next = n}
           Back(f, n) == IF Prev(n) = {} THEN << >>
                         ELSE Append(f[CHOOSE i \in Prev(n) : TRUE], CHOOSE i \in Prev(n) : TRUE)
           g == [n \in K \cup {None} |-> CHOOSE s : Walk(K, nx, s, n)]
           upTo == CHOOSE f : f = [n \in K \cup {None} |-> Back(f, n)]
<1>1. \A i \in K : nx[i] = T[i].next
  BY DEF Links
<1>2. Threaded(K, nx)
  OBVIOUS
<1>3. Sorted(T, o) = upTo[None]
  BY DEF Sorted
<1> HIDE DEF K, nx
<1>4. ASSUME NEW n \in K \cup {None}
      PROVE  Walk(K, nx, g[n], n)
  BY <1>2, <1>4, OneWalk
<1>5. ASSUME NEW n \in K \cup {None}
      PROVE  g[n] = Back(g, n)
  <2>1. CASE Prev(n) = {}
    <3>1. \A i \in K : nx[i] # n
      BY <1>1, <2>1
    <3>2. g[n] = << >>
      BY <1>2, <1>4, <3>1, WalkShrinks
    <3>3. QED
      BY <2>1, <3>2
  <2>2. CASE Prev(n) # {}
    <3> DEFINE j == CHOOSE i \in Prev(n) : TRUE
    <3>1. j \in K /\ nx[j] = n
      BY <1>1, <2>2
    <3> HIDE DEF j
    <3>2. Walk(K, nx, g[j], j)
      BY <1>4, <3>1
    <3>3. Walk(K, nx, Append(g[j], j), n)
      BY <1>2, <3>1, <3>2, WalkExtends
    <3>4. g[n] = Append(g[j], j)
      BY <1>2, <1>4, <3>3, OneWalk
    <3>5. QED
      BY <2>2, <3>4 DEF j
  <2>3. QED
    BY <2>1, <2>2
<1>6. g = [n \in K \cup {None} |-> Back(g, n)]
  <2>1. g = [n \in K \cup {None} |-> g[n]]
    OBVIOUS
  <2> HIDE DEF g, Back
  <2>2. QED
    BY <1>5, <2>1
<1>7. upTo = [n \in K \cup {None} |-> Back(upTo, n)]
  <2> HIDE DEF g, Back
  <2>1. \E f : f = [n \in K \cup {None} |-> Back(f, n)]
    BY <1>6
  <2>2. QED
    BY <2>1
<1> HIDE DEF upTo
<1>8. ASSUME NEW n \in K \cup {None}
      PROVE  upTo[n] = Back(upTo, n)
  BY <1>7
<1>9. ASSUME NEW n \in K \cup {None}, \A i \in K : nx[i] # n
      PROVE  Walk(K, nx, upTo[n], n)
  <2>1. Prev(n) = {}
    BY <1>1, <1>9
  <2>2. upTo[n] = << >>
    BY <1>8, <2>1
  <2>3. QED
    BY <1>9, <2>2 DEF Walk
<1>10. ASSUME NEW n \in K \cup {None}, NEW j \in K, nx[j] = n, Walk(K, nx, upTo[j], j)
       PROVE  Walk(K, nx, upTo[n], n)
  <2>1. Prev(n) # {} /\ \A i \in Prev(n) : i = j
    BY <1>1, <1>2, <1>10 DEF Threaded
  <2>2. (CHOOSE i \in Prev(n) : TRUE) = j
    BY <2>1
  <2>3. upTo[n] = Append(upTo[j], j)
    BY <1>8, <2>1, <2>2
  <2>4. QED
    BY <1>2, <1>10, <2>3, WalkExtends
<1> HIDE DEF Prev, Back
<1>11. ASSUME NEW m \in K, ~Walk(K, nx, upTo[m], m)
       PROVE  FALSE
  <2> DEFINE S == {i \in K : ~Walk(K, nx, upTo[i], i)}
  <2>1. /\ S \in SUBSET K /\ S # {}
        /\ \A i \in K : i \in S <=> ~Walk(K, nx, upTo[i], i)
    BY <1>11
  <2> HIDE DEF S
  <2>2. PICK i \in S : \A j \in S : nx[j] # i
    BY <1>2, <2>1, FirstOf
  <2>3. PICK j \in K : nx[j] = i
    BY <1>9, <2>1, <2>2
  <2>4. Walk(K, nx, upTo[j], j)
    BY <2>1, <2>2, <2>3
  <2>5. QED
    BY <1>10, <2>1, <2>2, <2>3, <2>4
<1>12. Walk(K, nx, upTo[None], None)
  BY <1>9, <1>10, <1>11
<1>13. QED
  BY <1>3, <1>12 DEF K, nx

-----------------------------------------------------------------------------
(* x is at or before y in s. *)
Leq(s, x, y) == \E j, k \in DOMAIN s : j <= k /\ s[j] = x /\ s[k] = y

(* The chain K with id put before n, or at the end. *)
Inserting(K, nx, id, n, nx2) ==
  /\ id \notin K /\ id # None /\ n \in K \cup {None}
  /\ nx2[id] = n
  /\ \A i \in K : nx2[i] = IF nx[i] = n THEN id ELSE nx[i]

(* s with id in place p. *)
At(s, p, id) ==
  [k \in 1 .. Len(s) + 1 |-> IF k < p THEN s[k] ELSE IF k = p THEN id ELSE s[k - 1]]

(* With id put before n, the way back from the end is what it was, with id *)
(* in the place that n had, or at the end.                                 *)
LEMMA InsertedWalk ==
  ASSUME NEW K, NEW nx, Threaded(K, nx), NEW id, NEW n, NEW nx2,
         Inserting(K, nx, id, n, nx2), NEW s, Walk(K, nx, s, None),
         NEW p \in 1 .. Len(s) + 1, p \in DOMAIN s => s[p] = n, p = Len(s) + 1 => n = None
  PROVE  Walk(K \cup {id}, nx2, At(s, p, id), None)
<1> DEFINE t == At(s, p, id)
           m == Len(s)
<1>0. /\ s \in Seq(K) /\ m \in Nat /\ DOMAIN s = 1 .. m /\ (s = << >> <=> m = 0)
      /\ \A k \in 1 .. m : s[k] \in K
      /\ None \notin K
  BY DEF Walk, Threaded
<1>1. /\ t \in Seq(K \cup {id}) /\ Len(t) = m + 1 /\ t # << >>
      /\ \A k \in 1 .. m + 1 : t[k] = IF k < p THEN s[k] ELSE IF k = p THEN id ELSE s[k - 1]
  <2>1. \A k \in 1 .. m + 1 : (IF k < p THEN s[k] ELSE IF k = p THEN id ELSE s[k - 1]) \in K \cup {id}
    BY <1>0
  <2>2. t \in [1 .. m + 1 -> K \cup {id}]
    BY <2>1 DEF At
  <2>3. t \in Seq(K \cup {id}) /\ Len(t) = m + 1
    BY <1>0, <2>2
  <2>4. QED
    BY <1>0, <2>3 DEF At
<1>2. /\ id \notin K /\ id # None /\ n \in K \cup {None} /\ nx2[id] = n
      /\ \A i \in K : nx2[i] = IF nx[i] = n THEN id ELSE nx[i]
  BY DEF Inserting
<1>3. /\ \A k \in 1 .. m - 1 : nx[s[k]] = s[k + 1]
      /\ m = 0 => \A i \in K : nx[i] # None
      /\ m # 0 => nx[s[m]] = None /\ \A i \in K : nx[i] # s[1]
  BY <1>0 DEF Walk
<1>4. \A j, k \in 1 .. m : s[j] = s[k] => j = k
  BY <1>0, WalkPassesOnce
<1>5. p <= m => s[p] = n
  BY <1>0
<1> HIDE DEF t, m
<1>6. p \in 1 .. m + 1 /\ m \in Nat /\ (p = m + 1 => n = None)
  BY <1>0 DEF m
<1>7. ASSUME NEW k \in 1 .. m
      PROVE  nx2[t[k]] = t[k + 1]
  <2>1. CASE k + 1 < p
    <3>1. t[k] = s[k] /\ t[k + 1] = s[k + 1] /\ nx[s[k]] = s[k + 1] /\ s[k] \in K /\ s[k + 1] \in K
      BY <1>0, <1>1, <1>3, <1>6, <2>1
    <3>2. s[k + 1] # n
      BY <1>0, <1>2, <1>4, <1>5, <1>6, <2>1
    <3>3. QED
      BY <1>2, <3>1, <3>2
  <2>2. CASE k + 1 = p
    <3>1. t[k] = s[k] /\ t[k + 1] = id /\ s[k] \in K
      BY <1>0, <1>1, <1>6, <2>2
    <3>2. nx[s[k]] = n
      BY <1>3, <1>5, <1>6, <2>2
    <3>3. QED
      BY <1>2, <3>1, <3>2
  <2>3. CASE k = p
    BY <1>1, <1>2, <1>5, <1>6, <2>3
  <2>4. CASE k > p
    <3>1. /\ t[k] = s[k - 1] /\ t[k + 1] = s[k] /\ s[k - 1] \in K /\ s[k] \in K
      BY <1>0, <1>1, <1>6, <2>4
    <3>2. nx[s[k - 1]] = s[k]
      <4>1. k - 1 \in 1 .. m - 1 /\ (k - 1) + 1 = k
        BY <1>6, <2>4
      <4>2. QED
        BY <1>3, <4>1
    <3>3. s[k] # n
      BY <1>4, <1>5, <1>6, <2>4
    <3>4. QED
      BY <1>2, <3>1, <3>2, <3>3
  <2>5. QED
    BY <1>6, <2>1, <2>2, <2>3, <2>4
<1>8. nx2[t[m + 1]] = None
  <2>1. CASE p = m + 1
    BY <1>1, <1>2, <1>6, <2>1
  <2>2. CASE p # m + 1
    <3>1. t[m + 1] = s[m] /\ s[m] \in K /\ nx[s[m]] = None /\ n # None
      BY <1>0, <1>1, <1>3, <1>5, <1>6, <2>2
    <3>2. QED
      BY <1>2, <3>1
  <2>3. QED
    BY <2>1, <2>2
<1>9. ASSUME NEW i \in K \cup {id}
      PROVE  nx2[i] # t[1]
  <2>1. CASE p = 1
    <3>1. t[1] = id
      BY <1>1, <1>6, <2>1
    <3>2. \A h \in K : nx[h] # n
      BY <1>3, <1>5, <1>6, <2>1
    <3>3. \A h \in K : nx[h] \in K \cup {None}
      BY DEF Threaded
    <3>4. QED
      BY <1>2, <3>1, <3>2, <3>3
  <2>2. CASE p # 1
    <3>1. t[1] = s[1] /\ s[1] \in K /\ \A h \in K : nx[h] # s[1]
      BY <1>0, <1>1, <1>3, <1>6, <2>2
    <3>2. n # s[1]
      BY <1>0, <1>4, <1>5, <1>6, <2>2, <3>1
    <3>3. QED
      BY <1>2, <3>1, <3>2
  <2>3. QED
    BY <2>1, <2>2
<1>10. QED
  BY <1>1, <1>6, <1>7, <1>8, <1>9 DEF Walk, t

(* Putting a row in, or taking it out, leaves the order of the others.     *)
LEMMA InsertionKeepsOrder ==
  ASSUME NEW K, NEW nx, Threaded(K, nx), NEW id, NEW n, NEW nx2,
         Inserting(K, nx, id, n, nx2), Threaded(K \cup {id}, nx2),
         NEW s, Walk(K, nx, s, None), NEW t, Walk(K \cup {id}, nx2, t, None),
         NEW x \in K, NEW y \in K
  PROVE  Leq(s, x, y) <=> Leq(t, x, y)
<1>0. /\ s \in Seq(K) /\ Len(s) \in Nat /\ DOMAIN s = 1 .. Len(s)
      /\ \A k \in 1 .. Len(s) : s[k] \in K
      /\ id \notin K
  BY DEF Walk, Inserting
<1>1. PICK p \in 1 .. Len(s) + 1 : (p \in DOMAIN s => s[p] = n) /\ (p = Len(s) + 1 => n = None)
  <2>1. CASE n = None
    <3>1. Len(s) + 1 \in 1 .. Len(s) + 1 /\ Len(s) + 1 \notin DOMAIN s
      BY <1>0
    <3>2. QED
      BY <2>1, <3>1
  <2>2. CASE n \in K
    <3>1. PICK k \in DOMAIN s : s[k] = n
      BY <2>2, WalkIsComplete
    <3>2. QED
      BY <1>0, <3>1
  <2>3. QED
    BY <2>1, <2>2 DEF Inserting
<1>2. t = At(s, p, id)
  <2>1. Walk(K \cup {id}, nx2, At(s, p, id), None)
    BY <1>1, InsertedWalk
  <2>2. QED
    BY <2>1, OneWalk
<1>3. /\ DOMAIN t = 1 .. Len(s) + 1
      /\ \A k \in 1 .. Len(s) + 1 : t[k] = IF k < p THEN s[k] ELSE IF k = p THEN id ELSE s[k - 1]
  BY <1>2 DEF At
<1>4. ASSUME Leq(s, x, y)
      PROVE  Leq(t, x, y)
  <2>1. PICK j, k \in 1 .. Len(s) : j <= k /\ s[j] = x /\ s[k] = y
    BY <1>0, <1>4 DEF Leq
  <2> DEFINE to(i) == IF i < p THEN i ELSE i + 1
  <2>2. /\ to(j) \in 1 .. Len(s) + 1 /\ to(k) \in 1 .. Len(s) + 1 /\ to(j) <= to(k)
        /\ t[to(j)] = s[j] /\ t[to(k)] = s[k]
    BY <1>0, <1>3, <2>1
  <2>3. QED
    BY <1>3, <2>1, <2>2 DEF Leq
<1>5. ASSUME Leq(t, x, y)
      PROVE  Leq(s, x, y)
  <2>1. PICK j, k \in 1 .. Len(s) + 1 : j <= k /\ t[j] = x /\ t[k] = y
    BY <1>3, <1>5 DEF Leq
  <2>2. j # p /\ k # p
    BY <1>0, <1>3, <2>1
  <2> DEFINE from(i) == IF i < p THEN i ELSE i - 1
  <2>3. /\ from(j) \in 1 .. Len(s) /\ from(k) \in 1 .. Len(s) /\ from(j) <= from(k)
        /\ s[from(j)] = t[j] /\ s[from(k)] = t[k]
    BY <1>0, <1>3, <2>1, <2>2
  <2>4. QED
    BY <1>0, <2>1, <2>3 DEF Leq
<1>6. QED
  BY <1>4, <1>5

-----------------------------------------------------------------------------
(* A table whose rows all stand in chains of the owners O. *)
Chained(T, O) ==
  /\ IsFiniteSet(DOMAIN T) /\ None \notin DOMAIN T
  /\ \A i \in DOMAIN T : T[i].owner \in O
  /\ \A o \in O : Chain(T, o)

(* A chain in a table is a chain by its links, and Sorted its way back.    *)
LEMMA ChainIsLinked ==
  ASSUME NEW T, NEW o, IsFiniteSet(DOMAIN T), None \notin DOMAIN T, Chain(T, o)
  PROVE  /\ Threaded(Kids(T, o), Links(T, o))
         /\ Walk(Kids(T, o), Links(T, o), Sorted(T, o), None)
<1>1. Kids(T, o) \in SUBSET DOMAIN T
  BY DEF Kids
<1>2. IsFiniteSet(Kids(T, o)) /\ None \notin Kids(T, o)
  BY <1>1, FS_Subset
<1>3. \A i \in Kids(T, o) : Links(T, o)[i] = T[i].next
  BY DEF Links
<1>4. Links(T, o) \in [Kids(T, o) -> Kids(T, o) \cup {None}]
  BY DEF Links, Chain
<1>5. Threaded(Kids(T, o), Links(T, o))
  BY <1>2, <1>3, <1>4 DEF Threaded, Chain
<1>6. QED
  BY <1>5, SortedIsWalk

(* Sorted holds every row of its owner, once, and no other row.            *)
LEMMA SortedHoldsKids ==
  ASSUME NEW T, NEW O, Chained(T, O), NEW o \in O
  PROVE  /\ Sorted(T, o) \in Seq(Kids(T, o))
         /\ \A x \in Kids(T, o) : Leq(Sorted(T, o), x, x)
         /\ \A x, y : Leq(Sorted(T, o), x, y) => x \in Kids(T, o) /\ y \in Kids(T, o)
         /\ \A j, k \in DOMAIN Sorted(T, o) : Sorted(T, o)[j] = Sorted(T, o)[k] => j = k
<1> DEFINE s == Sorted(T, o)
<1>1. /\ Threaded(Kids(T, o), Links(T, o)) /\ Walk(Kids(T, o), Links(T, o), s, None)
  BY ChainIsLinked DEF Chained
<1> HIDE DEF s
<1>2. s \in Seq(Kids(T, o)) /\ DOMAIN s = 1 .. Len(s) /\ Len(s) \in Nat
  BY <1>1 DEF Walk
<1>3. \A k \in DOMAIN s : s[k] \in Kids(T, o)
  BY <1>2
<1>4. ASSUME NEW x \in Kids(T, o)
      PROVE  Leq(s, x, x)
  <2>1. PICK k \in DOMAIN s : s[k] = x
    BY <1>1, WalkIsComplete
  <2>2. k <= k
    BY <1>2
  <2>3. QED
    BY <2>1, <2>2 DEF Leq
<1>5. \A j, k \in DOMAIN s : s[j] = s[k] => j = k
  BY <1>1, WalkPassesOnce
<1>6. QED
  BY <1>2, <1>3, <1>4, <1>5 DEF Leq, s

(* Where a call has changed no link, the order is what it was. *)
LEMMA SameLinksSameOrder ==
  ASSUME NEW F, NEW G, NEW o, IsFiniteSet(DOMAIN F), None \notin DOMAIN F, Chain(F, o),
         IsFiniteSet(DOMAIN G), None \notin DOMAIN G, Chain(G, o),
         Kids(F, o) = Kids(G, o), \A i \in Kids(G, o) : F[i].next = G[i].next
  PROVE  Sorted(F, o) = Sorted(G, o)
<1>1. Links(F, o) = Links(G, o)
  BY DEF Links
<1>2. QED
  BY <1>1, ChainIsLinked, OneWalk

(* A row put under q: the order under the others is what it was.           *)
LEMMA PutOrderElsewhere ==
  ASSUME NEW O, NEW F, NEW G, Chained(F, O), Chained(G, O), NEW id, NEW q, NEW n,
         PutBefore(F, G, id, q, n), NEW o \in O \ {q}
  PROVE  Sorted(F, o) = Sorted(G, o)
<1>1. Kids(F, o) = Kids(G, o)
  BY DEF PutBefore, Kids
<1>2. \A i \in Kids(G, o) : F[i].next = G[i].next
  BY DEF PutBefore, Kids
<1>3. QED
  BY <1>1, <1>2, SameLinksSameOrder DEF Chained

(* A row put before n takes the place of n, and at the end comes last.     *)
LEMMA PutOrder ==
  ASSUME NEW O, NEW F, NEW G, Chained(F, O), Chained(G, O), NEW id, NEW q \in O, NEW n,
         PutBefore(F, G, id, q, n), n \in Kids(G, q) \cup {None},
         NEW k \in 1 .. Len(Sorted(G, q)) + 1,
         k \in DOMAIN Sorted(G, q) => Sorted(G, q)[k] = n,
         k = Len(Sorted(G, q)) + 1 => n = None
  PROVE  Sorted(F, q) = At(Sorted(G, q), k, id)
<1> DEFINE K == Kids(G, q)
<1>1. /\ Threaded(K, Links(G, q)) /\ Walk(K, Links(G, q), Sorted(G, q), None)
      /\ Threaded(Kids(F, q), Links(F, q)) /\ Walk(Kids(F, q), Links(F, q), Sorted(F, q), None)
  BY ChainIsLinked DEF Chained
<1>2. Kids(F, q) = K \cup {id}
  BY DEF PutBefore, Kids
<1>3. Inserting(K, Links(G, q), id, n, Links(F, q))
  BY DEF Inserting, PutBefore, Kids, Links, Chained
<1>4. Walk(K \cup {id}, Links(F, q), At(Sorted(G, q), k, id), None)
  BY <1>1, <1>3, InsertedWalk
<1>5. QED
  BY <1>1, <1>2, <1>4, OneWalk

(* Taking rows out leaves the order, without the one of them that was in it.*)
LEMMA TakenOrder ==
  ASSUME NEW O, NEW F, NEW G, Chained(F, O), Chained(G, O), NEW id, NEW X,
         TakenOut(F, G, id, X), NEW o \in O, Kids(G, o) \cap X \subseteq {id}
  PROVE  /\ id \notin Kids(G, o) => Sorted(F, o) = Sorted(G, o)
         /\ id \in Kids(G, o) =>
              \E k \in 1 .. Len(Sorted(F, o)) + 1 : Sorted(G, o) = At(Sorted(F, o), k, id)
<1> DEFINE K == Kids(F, o)
<1>1. /\ Threaded(Kids(G, o), Links(G, o)) /\ Walk(Kids(G, o), Links(G, o), Sorted(G, o), None)
      /\ Threaded(K, Links(F, o)) /\ Walk(K, Links(F, o), Sorted(F, o), None)
  BY ChainIsLinked DEF Chained
<1>2. K = Kids(G, o) \ {id}
  BY DEF TakenOut, Kids
<1>3. id \in DOMAIN G /\ id # None
  BY DEF TakenOut, Chained
<1>4. ASSUME id \notin Kids(G, o)
      PROVE  Sorted(F, o) = Sorted(G, o)
  <2>1. \A i \in Kids(G, o) : F[i].next = G[i].next
    BY <1>2, <1>3, <1>4 DEF TakenOut, Kids, Chained, Chain
  <2>2. QED
    BY <1>2, <1>4, <2>1, SameLinksSameOrder DEF Chained
<1>5. ASSUME id \in Kids(G, o)
      PROVE  \E k \in 1 .. Len(Sorted(F, o)) + 1 : Sorted(G, o) = At(Sorted(F, o), k, id)
  <2> DEFINE n == G[id].next
  <2>1. n \in K \cup {None}
    <3>1. n \in Kids(G, o) \cup {None}
      BY <1>5 DEF Chained, Chain
    <3>2. n # id
      <4>1. {id} \in SUBSET Kids(G, o) /\ {id} # {}
        BY <1>5
      <4>2. \E i \in {id} : G[i].next \notin {id}
        BY <4>1 DEF Chained, Chain
      <4>3. QED
        BY <4>2
    <3>3. QED
      BY <3>1, <3>2, <1>2
  <2>2. Inserting(K, Links(F, o), id, n, Links(G, o))
    <3>1. \A i \in K : /\ F[i].next = IF G[i].next = id THEN n ELSE G[i].next
                       /\ G[i].next # n
      BY <1>2, <1>5 DEF TakenOut, Kids, Chained, Chain
    <3>2. QED
      BY <1>2, <1>3, <1>5, <2>1, <3>1 DEF Inserting, Links
  <2>3. PICK k \in 1 .. Len(Sorted(F, o)) + 1 :
          /\ k \in DOMAIN Sorted(F, o) => Sorted(F, o)[k] = n
          /\ k = Len(Sorted(F, o)) + 1 => n = None
    <3>1. Sorted(F, o) \in Seq(K) /\ Len(Sorted(F, o)) \in Nat
          /\ DOMAIN Sorted(F, o) = 1 .. Len(Sorted(F, o))
      BY <1>1 DEF Walk
    <3>2. CASE n = None
      <4> DEFINE k == Len(Sorted(F, o)) + 1
      <4>1. k \in 1 .. Len(Sorted(F, o)) + 1 /\ k \notin DOMAIN Sorted(F, o)
        BY <3>1
      <4>2. QED
        BY <3>2, <4>1
    <3>3. CASE n \in K
      <4>1. PICK k \in DOMAIN Sorted(F, o) : Sorted(F, o)[k] = n
        BY <1>1, <3>3, WalkIsComplete
      <4>2. k \in 1 .. Len(Sorted(F, o))
        BY <3>1, <4>1
      <4>3. QED
        BY <3>1, <4>1, <4>2
    <3>4. QED
      BY <2>1, <3>2, <3>3
  <2>4. Walk(K \cup {id}, Links(G, o), At(Sorted(F, o), k, id), None)
    BY <1>1, <2>2, <2>3, InsertedWalk
  <2>5. K \cup {id} = Kids(G, o)
    BY <1>2, <1>5
  <2>6. Sorted(G, o) = At(Sorted(F, o), k, id)
    <3>1. Walk(Kids(G, o), Links(G, o), At(Sorted(F, o), k, id), None)
      BY <2>4, <2>5
    <3>2. QED
      BY <1>1, <3>1, OneWalk
  <2>7. QED
    BY <2>6
<1>6. QED
  BY <1>4, <1>5

(* Putting one more into a sequence makes it longer by one.                *)
LEMMA AtIsSeq ==
  ASSUME NEW S, NEW s \in Seq(S), NEW x, NEW k \in 1 .. Len(s) + 1
  PROVE  /\ At(s, k, x) \in Seq(S \cup {x})
         /\ Len(At(s, k, x)) = Len(s) + 1 /\ DOMAIN At(s, k, x) = 1 .. Len(s) + 1
<1>1. Len(s) \in Nat /\ \A i \in 1 .. Len(s) : s[i] \in S
  BY LenProperties, ElementOfSeq
<1>2. At(s, k, x) \in [1 .. Len(s) + 1 -> S \cup {x}]
  BY <1>1 DEF At
<1>3. QED
  BY <1>1, <1>2

(* What is put between two parts of a sequence.                           *)
LEMMA BetweenIsAt ==
  ASSUME NEW S, NEW s \in Seq(S), NEW x, NEW k \in 1 .. Len(s) + 1
  PROVE  SubSeq(s, 1, k - 1) \o <<x>> \o SubSeq(s, k, Len(s)) = At(s, k, x)
<1> DEFINE R == S \cup {x}
           a == SubSeq(s, 1, k - 1)
           b == SubSeq(s, k, Len(s))
<1>0. Len(s) \in Nat /\ \A i \in 1 .. Len(s) : s[i] \in R
  BY LenProperties, ElementOfSeq
<1>1. a \in Seq(R) /\ Len(a) = k - 1 /\ \A i \in 1 .. k - 1 : a[i] = s[i]
  <2>1. \A i \in 1 .. k - 1 : s[i] \in R
    BY <1>0
  <2>2. /\ a \in Seq(R) /\ Len(a) = IF 1 <= k - 1 THEN (k - 1) - 1 + 1 ELSE 0
        /\ \A i \in 1 .. (k - 1) - 1 + 1 : a[i] = s[1 + i - 1]
    BY <1>0, <2>1, SubSeqProperties
  <2>3. QED
    BY <2>2, <1>0
<1>2. b \in Seq(R) /\ Len(b) = Len(s) - k + 1 /\ \A i \in 1 .. Len(s) - k + 1 : b[i] = s[k + i - 1]
  <2>1. \A i \in k .. Len(s) : s[i] \in R
    BY <1>0
  <2>2. /\ b \in Seq(R) /\ Len(b) = IF k <= Len(s) THEN Len(s) - k + 1 ELSE 0
        /\ \A i \in 1 .. Len(s) - k + 1 : b[i] = s[k + i - 1]
    BY <1>0, <2>1, SubSeqProperties
  <2>3. QED
    BY <2>2, <1>0
<1> DEFINE c == a \o <<x>>
<1>3. c \in Seq(R) /\ Len(c) = k /\ \A i \in 1 .. k : c[i] = IF i <= k - 1 THEN s[i] ELSE x
  <2>1. <<x>> \in Seq(R) /\ Len(<<x>>) = 1 /\ <<x>>[1] = x
    OBVIOUS
  <2> HIDE DEF a
  <2>2. /\ c \in Seq(R) /\ Len(c) = Len(a) + Len(<<x>>)
        /\ \A i \in 1 .. Len(a) + Len(<<x>>) : c[i] = IF i <= Len(a) THEN a[i] ELSE <<x>>[i - Len(a)]
    BY <1>1, <2>1, ConcatProperties
  <2>3. \A i \in 1 .. k : i <= k - 1 \/ i = k
    BY <1>0
  <2>4. QED
    BY <1>0, <1>1, <2>1, <2>2, <2>3
<1> HIDE DEF c, b
<1>4. /\ c \o b \in Seq(R) /\ Len(c \o b) = Len(s) + 1
      /\ \A i \in 1 .. Len(s) + 1 : (c \o b)[i] = IF i <= k THEN c[i] ELSE b[i - k]
  <2>1. /\ c \o b \in Seq(R) /\ Len(c \o b) = Len(c) + Len(b)
        /\ \A i \in 1 .. Len(c) + Len(b) : (c \o b)[i] = IF i <= Len(c) THEN c[i] ELSE b[i - Len(c)]
    BY <1>2, <1>3, ConcatProperties
  <2>2. Len(c) + Len(b) = Len(s) + 1
    BY <1>0, <1>2, <1>3
  <2>3. QED
    BY <2>1, <2>2, <1>3
<1>5. \A i \in 1 .. Len(s) + 1 : (c \o b)[i] = IF i < k THEN s[i] ELSE IF i = k THEN x ELSE s[i - 1]
  BY <1>0, <1>2, <1>3, <1>4
<1>6. c \o b = [i \in 1 .. Len(s) + 1 |-> IF i < k THEN s[i] ELSE IF i = k THEN x ELSE s[i - 1]]
  BY <1>0, <1>4, <1>5, LenProperties
<1>7. SubSeq(s, 1, k - 1) \o <<x>> \o SubSeq(s, k, Len(s)) = c \o b
  BY DEF a, b, c
<1>8. QED
  BY <1>6, <1>7 DEF At

(* Putting at the end is appending.                                        *)
LEMMA AppendIsAt ==
  ASSUME NEW S, NEW s \in Seq(S), NEW x
  PROVE  Append(s, x) = At(s, Len(s) + 1, x)
<1>1. Len(s) \in Nat /\ \A i \in 1 .. Len(s) : s[i] \in S
  BY LenProperties, ElementOfSeq
<1>2. Append(s, x) \in Seq(S \cup {x}) /\ At(s, Len(s) + 1, x) \in Seq(S \cup {x})
  BY <1>1, AtIsSeq
<1>3. Len(Append(s, x)) = Len(At(s, Len(s) + 1, x))
  <2>1. Len(Append(s, x)) = Len(s) + 1
    BY <1>1
  <2>2. Len(s) + 1 \in 1 .. Len(s) + 1
    BY <1>1
  <2>3. QED
    BY <2>1, <2>2, AtIsSeq
<1>4. \A i \in 1 .. Len(s) + 1 : Append(s, x)[i] = At(s, Len(s) + 1, x)[i]
  BY <1>1 DEF At
<1>5. QED
  BY <1>1, <1>2, <1>3, <1>4, AtIsSeq, SeqEqual

(* To put something in and to take it out again changes nothing.           *)
LEMMA OutOfAt ==
  ASSUME NEW S, NEW s \in Seq(S), NEW x, NEW k \in 1 .. Len(s) + 1
  PROVE  LET t == At(s, k, x)
         IN  SubSeq(t, 1, k - 1) \o SubSeq(t, k + 1, Len(t)) = s
<1> DEFINE R == S \cup {x}
           t == At(s, k, x)
           a == SubSeq(t, 1, k - 1)
           b == SubSeq(t, k + 1, Len(t))
<1>0. Len(s) \in Nat /\ DOMAIN s = 1 .. Len(s)
  BY LenProperties
<1>1. /\ t \in Seq(R) /\ Len(t) = Len(s) + 1 /\ DOMAIN t = 1 .. Len(s) + 1
      /\ \A i \in 1 .. Len(t) : t[i] \in R
  BY AtIsSeq, ElementOfSeq
<1>2. \A i \in DOMAIN t : t[i] = IF i < k THEN s[i] ELSE IF i = k THEN x ELSE s[i - 1]
  BY <1>1 DEF At
<1> HIDE DEF t
<1>6. a \in Seq(R) /\ Len(a) = k - 1 /\ \A i \in 1 .. k - 1 : a[i] = s[i]
  <2>1. \A i \in 1 .. k - 1 : t[i] \in R /\ t[i] = s[i]
    BY <1>0, <1>1, <1>2
  <2>2. /\ a \in Seq(R) /\ Len(a) = IF 1 <= k - 1 THEN (k - 1) - 1 + 1 ELSE 0
        /\ \A i \in 1 .. (k - 1) - 1 + 1 : a[i] = t[1 + i - 1]
    BY <1>0, <2>1, SubSeqProperties
  <2>3. QED
    BY <2>1, <2>2, <1>0
<1>7. b \in Seq(R) /\ Len(b) = Len(s) + 1 - k /\ \A i \in 1 .. Len(s) + 1 - k : b[i] = s[i + k - 1]
  <2>1. ASSUME NEW i \in k + 1 .. Len(t)
        PROVE  t[i] \in R /\ t[i] = s[i - 1]
    <3>1. i \in 1 .. Len(t) /\ i \in DOMAIN t /\ ~ (i < k) /\ i # k
      BY <1>0, <1>1
    <3>2. QED
      BY <1>1, <1>2, <3>1
  <2>2. /\ b \in Seq(R) /\ Len(b) = IF k + 1 <= Len(t) THEN Len(t) - (k + 1) + 1 ELSE 0
        /\ \A i \in 1 .. Len(t) - (k + 1) + 1 : b[i] = t[(k + 1) + i - 1]
    BY <1>0, <1>1, <2>1, SubSeqProperties
  <2>3. Len(b) = Len(s) + 1 - k
    BY <1>0, <1>1, <2>2
  <2>4. ASSUME NEW i \in 1 .. Len(s) + 1 - k
        PROVE  b[i] = s[i + k - 1]
    <3>1. k + i \in k + 1 .. Len(t) /\ b[i] = t[k + i]
      BY <1>0, <1>1, <2>2, <2>4
    <3>2. QED
      BY <2>1, <3>1
  <2>5. QED
    BY <2>2, <2>3, <2>4
<1> HIDE DEF a, b, R
<1>8. /\ a \o b \in Seq(R) /\ Len(a \o b) = Len(s)
      /\ \A i \in 1 .. Len(s) : (a \o b)[i] = IF i <= k - 1 THEN a[i] ELSE b[i - (k - 1)]
  <2>1. /\ a \o b \in Seq(R) /\ Len(a \o b) = Len(a) + Len(b)
        /\ \A i \in 1 .. Len(a) + Len(b) : (a \o b)[i] = IF i <= Len(a) THEN a[i] ELSE b[i - Len(a)]
    <3>1. a \in Seq(R) /\ b \in Seq(R)
      BY <1>6, <1>7
    <3>2. QED
      BY <3>1, ConcatProperties
  <2>2. Len(a) + Len(b) = Len(s)
    BY <1>0, <1>6, <1>7
  <2>3. QED
    BY <2>1, <2>2, <1>6
<1>9. ASSUME NEW i \in 1 .. Len(s)
      PROVE  (a \o b)[i] = s[i]
  <2>1. CASE i <= k - 1
    BY <1>0, <1>6, <1>8, <2>1
  <2>2. CASE ~(i <= k - 1)
    <3>1. i - (k - 1) \in 1 .. Len(s) + 1 - k /\ i - (k - 1) + k - 1 = i
      BY <1>0, <2>2
    <3>2. QED
      BY <1>7, <1>8, <2>2, <3>1
  <2>3. QED
    BY <2>1, <2>2
<1>10. s \in Seq(R)
  BY <1>0 DEF R
<1>11. a \o b = s
  BY <1>8, <1>9, <1>10, SeqEqual
<1>12. QED
  BY <1>11 DEF a, b, t

(* Putting a row before a sibling, or at the end, leaves the order of all  *)
(* others, under every owner.                                              *)
LEMMA PutBeforeKeepsOrder ==
  ASSUME NEW O, NEW F, NEW G, Chained(F, O), Chained(G, O), NEW id, NEW q, NEW n,
         PutBefore(F, G, id, q, n), n \in Kids(G, q) \cup {None},
         NEW o \in O, NEW x \in Kids(G, o), NEW y \in Kids(G, o)
  PROVE  Leq(Sorted(G, o), x, y) <=> Leq(Sorted(F, o), x, y)
<1>0. /\ IsFiniteSet(DOMAIN F) /\ None \notin DOMAIN F /\ Chain(F, o)
      /\ IsFiniteSet(DOMAIN G) /\ None \notin DOMAIN G /\ Chain(G, o)
  BY DEF Chained
<1>1. CASE o # q
  <2>1. Kids(F, o) = Kids(G, o) /\ \A i \in Kids(G, o) : F[i].next = G[i].next
    BY <1>1 DEF PutBefore, Kids
  <2>2. QED
    BY <1>0, <2>1, SameLinksSameOrder
<1>2. CASE o = q
  <2> DEFINE K == Kids(G, o)
             nx == Links(G, o)
             nx2 == Links(F, o)
  <2>1. Kids(F, o) = K \cup {id} /\ id \notin K /\ id # None /\ F[id].next = n
    BY <1>0, <1>2 DEF PutBefore, Kids
  <2>2. \A i \in K : nx[i] = G[i].next /\ nx2[i] = F[i].next
    BY <2>1 DEF Links
  <2>3. nx2[id] = n
    BY <2>1 DEF Links
  <2>4. \A i \in K : F[i].next = IF G[i].next = n THEN id ELSE G[i].next
    BY <1>2 DEF PutBefore, Kids
  <2>5. n \in K \cup {None}
    BY <1>2
  <2>6. Inserting(K, nx, id, n, nx2)
    BY <2>1, <2>2, <2>3, <2>4, <2>5 DEF Inserting
  <2>7. /\ Threaded(K, nx) /\ Walk(K, nx, Sorted(G, o), None)
        /\ Threaded(K \cup {id}, nx2) /\ Walk(K \cup {id}, nx2, Sorted(F, o), None)
    BY <1>0, <2>1, ChainIsLinked
  <2> HIDE DEF K, nx, nx2
  <2>8. x \in K /\ y \in K
    BY DEF K
  <2>9. QED
    BY <2>6, <2>7, <2>8, InsertionKeepsOrder
<1>3. QED
  BY <1>1, <1>2

(* Taking a row out, alone or with whole sibling groups, leaves the order  *)
(* of those that stay: putting the row back would not change it.           *)
LEMMA TakenOutKeepsOrder ==
  ASSUME NEW O, NEW F, NEW G, Chained(F, O), Chained(G, O), NEW id, NEW X,
         TakenOut(F, G, id, X),
         \A p \in O : Kids(G, p) \cap X \subseteq {id} \/ Kids(G, p) \subseteq X,
         NEW o \in O, NEW x \in Kids(F, o), NEW y \in Kids(F, o)
  PROVE  Leq(Sorted(F, o), x, y) <=> Leq(Sorted(G, o), x, y)
<1>0. /\ IsFiniteSet(DOMAIN F) /\ None \notin DOMAIN F /\ Chain(F, o)
      /\ IsFiniteSet(DOMAIN G) /\ None \notin DOMAIN G /\ Chain(G, o)
  BY DEF Chained
<1>1. Kids(F, o) = Kids(G, o) \ {id} /\ id # None
  <2>1. x \in Kids(G, o) \ X
    BY DEF TakenOut, Kids
  <2>2. Kids(G, o) \cap X \subseteq {id}
    BY <2>1
  <2>3. QED
    BY <1>0, <2>2 DEF TakenOut, Kids
<1>2. \A i \in Kids(F, o) : F[i].next = IF G[i].next = id THEN G[id].next ELSE G[i].next
  BY DEF TakenOut, Kids
<1>3. CASE id \notin Kids(G, o)
  <2>1. Kids(F, o) = Kids(G, o)
    BY <1>1, <1>3
  <2>2. \A i \in Kids(G, o) : G[i].next # id
    BY <1>0, <1>1, <1>3 DEF Chain
  <2>3. \A i \in Kids(F, o) : F[i].next = G[i].next
    BY <1>2, <2>1, <2>2
  <2>4. QED
    BY <1>0, <2>1, <2>3, SameLinksSameOrder
<1>4. CASE id \in Kids(G, o)
  <2> DEFINE K == Kids(F, o)
             n == G[id].next
             nx == Links(F, o)
             nx2 == Links(G, o)
  <2>1. K \cup {id} = Kids(G, o) /\ id \notin K
    BY <1>1, <1>4
  <2>2. \A i \in K : nx[i] = F[i].next /\ nx2[i] = G[i].next
    BY <2>1 DEF Links
  <2>3. nx2[id] = n
    BY <1>4 DEF Links
  <2>4. n \in K \cup {None}
    <3>1. n \in Kids(G, o) \cup {None}
      BY <1>0, <1>4 DEF Chain
    <3>2. {id} \in SUBSET Kids(G, o) /\ {id} # {}
      BY <1>4
    <3>3. \A S \in SUBSET Kids(G, o) : S # {} => \E i \in S : G[i].next \notin S
      BY <1>0 DEF Chain
    <3>4. \E i \in {id} : G[i].next \notin {id}
      BY <3>2, <3>3
    <3>5. n # id
      BY <3>4
    <3>6. QED
      BY <2>1, <3>1, <3>5
  <2>5. \A i \in K : G[i].next = IF F[i].next = n THEN id ELSE F[i].next
    <3>1. \A i \in K : G[i].next # n
      BY <1>0, <1>4, <2>1 DEF Chain
    <3>2. QED
      BY <1>2, <3>1
  <2>6. Inserting(K, nx, id, n, nx2)
    BY <1>1, <2>1, <2>2, <2>3, <2>4, <2>5 DEF Inserting
  <2>7. /\ Threaded(K, nx) /\ Walk(K, nx, Sorted(F, o), None)
        /\ Threaded(K \cup {id}, nx2) /\ Walk(K \cup {id}, nx2, Sorted(G, o), None)
    BY <1>0, <2>1, ChainIsLinked
  <2> HIDE DEF K, nx, nx2, n
  <2>8. x \in K /\ y \in K
    BY DEF K
  <2>9. QED
    BY <2>6, <2>7, <2>8, InsertionKeepsOrder
<1>5. QED
  BY <1>3, <1>4

-----------------------------------------------------------------------------
(* What OrderedLists sees of a table. *)

(* R holds the pairs of rows of each owner in O that are in order.         *)
RanksOf(R, T, O) ==
  \A r : r \in R <=> \E o \in O : \E x, y \in Kids(T, o) :
                       r = <<o, <<x, y>>>> /\ Leq(Sorted(T, o), x, y)

(* The pairs of items that OrderedLists takes from the lists of a table    *)
(* are those of rows in order, and no row is in two places.                *)
LEMMA ListsHaveRanks ==
  ASSUME NEW T, NEW O, Chained(T, O), NEW l, l = [o \in O |-> Sorted(T, o)]
  PROVE  /\ RanksOf(UNION {{o} \X {<<l[o][k[1]], l[o][k[2]]>> :
                                     k \in {k \in (DOMAIN l[o]) \X (DOMAIN l[o]) :
                                              k[1] <= k[2]}} : o \in O}, T, O)
         /\ \A o, p \in O : \A j \in DOMAIN l[o], k \in DOMAIN l[p] :
              l[o][j] = l[p][k] => o = p /\ j = k
<1> DEFINE P(o) == {<<l[o][k[1]], l[o][k[2]]>> :
                      k \in {k \in (DOMAIN l[o]) \X (DOMAIN l[o]) : k[1] <= k[2]}}
           R == UNION {{o} \X P(o) : o \in O}
<1>1. \A o \in O : l[o] = Sorted(T, o)
  OBVIOUS
<1>2. ASSUME NEW o \in O, NEW x, NEW y
      PROVE  <<x, y>> \in P(o) <=> Leq(l[o], x, y)
  <2>1. ASSUME <<x, y>> \in P(o)
        PROVE  Leq(l[o], x, y)
    BY <2>1 DEF Leq
  <2>2. ASSUME Leq(l[o], x, y)
        PROVE  <<x, y>> \in P(o)
    <3>1. PICK j, k \in DOMAIN l[o] : j <= k /\ l[o][j] = x /\ l[o][k] = y
      BY <2>2 DEF Leq
    <3>2. <<j, k>> \in {h \in (DOMAIN l[o]) \X (DOMAIN l[o]) : h[1] <= h[2]}
      BY <3>1
    <3>3. QED
      BY <3>1, <3>2
  <2>3. QED
    BY <2>1, <2>2
<1>3. \A o \in O : \A r \in P(o) : \E x, y : r = <<x, y>>
  OBVIOUS
<1> HIDE DEF P
<1>4. ASSUME NEW r
      PROVE  r \in R <=> \E o \in O : \E x, y \in Kids(T, o) :
                           r = <<o, <<x, y>>>> /\ Leq(Sorted(T, o), x, y)
  <2>1. r \in R <=> \E o \in O : \E q \in P(o) : r = <<o, q>>
    OBVIOUS
  <2>2. \A o \in O : \A x, y : Leq(Sorted(T, o), x, y) => x \in Kids(T, o) /\ y \in Kids(T, o)
    BY SortedHoldsKids
  <2> HIDE DEF R
  <2>3. ASSUME NEW o \in O, NEW q \in P(o), r = <<o, q>>
        PROVE  \E x, y \in Kids(T, o) : r = <<o, <<x, y>>>> /\ Leq(Sorted(T, o), x, y)
    <3>1. PICK x, y : q = <<x, y>>
      BY <1>3
    <3>2. Leq(Sorted(T, o), x, y)
      BY <1>1, <1>2, <3>1
    <3>3. QED
      BY <2>2, <2>3, <3>1, <3>2
  <2>4. ASSUME NEW o \in O, NEW x \in Kids(T, o), NEW y \in Kids(T, o),
               r = <<o, <<x, y>>>>, Leq(Sorted(T, o), x, y)
        PROVE  r \in R
    BY <1>1, <1>2, <2>1, <2>4
  <2>5. QED
    BY <2>1, <2>3, <2>4
<1>5. ASSUME NEW o \in O, NEW p \in O, NEW j \in DOMAIN l[o], NEW k \in DOMAIN l[p],
             l[o][j] = l[p][k]
      PROVE  o = p /\ j = k
  <2>1. /\ Sorted(T, o) \in Seq(Kids(T, o)) /\ Sorted(T, p) \in Seq(Kids(T, p))
        /\ \A a, b \in DOMAIN Sorted(T, o) : Sorted(T, o)[a] = Sorted(T, o)[b] => a = b
    BY SortedHoldsKids
  <2>2. l[o][j] \in Kids(T, o) /\ l[p][k] \in Kids(T, p)
    BY <1>1, <2>1
  <2>3. o = p
    BY <1>5, <2>2 DEF Kids
  <2>4. QED
    BY <1>1, <1>5, <2>1, <2>3
<1>6. RanksOf(R, T, O)
  BY <1>4 DEF RanksOf
<1>7. QED
  BY <1>5, <1>6 DEF P

(* The rows of which R tells are those of the table. *)
LEMMA RanksHoldRows ==
  ASSUME NEW T, NEW O, Chained(T, O), NEW R, RanksOf(R, T, O)
  PROVE  {r[2][1] : r \in R} = DOMAIN T
<1>1. ASSUME NEW i \in DOMAIN T
      PROVE  \E r \in R : r[2][1] = i
  <2>1. T[i].owner \in O /\ i \in Kids(T, T[i].owner)
    BY DEF Chained, Kids
  <2>2. Leq(Sorted(T, T[i].owner), i, i)
    BY <2>1, SortedHoldsKids
  <2>3. <<T[i].owner, <<i, i>>>> \in R
    BY <2>1, <2>2 DEF RanksOf
  <2>4. QED
    BY <2>3
<1>2. ASSUME NEW r \in R
      PROVE  r[2][1] \in DOMAIN T
  BY DEF RanksOf, Kids
<1>3. QED
  BY <1>1, <1>2

(* If all rows but those of X have the same order in F and G, then the     *)
(* pairs without a row of X are the same.                                  *)
LEMMA SameOrderSameRanks ==
  ASSUME NEW O, NEW F, NEW G, NEW R, NEW S, RanksOf(R, G, O), RanksOf(S, F, O), NEW X,
         \A o \in O : Kids(F, o) \ X = Kids(G, o) \ X,
         \A o \in O : \A x, y \in Kids(F, o) \ X :
           Leq(Sorted(F, o), x, y) <=> Leq(Sorted(G, o), x, y)
  PROVE  {r \in S : r[2][1] \notin X /\ r[2][2] \notin X}
           = {r \in R : r[2][1] \notin X /\ r[2][2] \notin X}
<1>1. ASSUME NEW r \in S, r[2][1] \notin X /\ r[2][2] \notin X
      PROVE  r \in R
  <2>1. PICK o \in O : \E x, y \in Kids(F, o) :
          r = <<o, <<x, y>>>> /\ Leq(Sorted(F, o), x, y)
    BY <1>1 DEF RanksOf
  <2>2. PICK x \in Kids(F, o), y \in Kids(F, o) :
          r = <<o, <<x, y>>>> /\ Leq(Sorted(F, o), x, y)
    BY <2>1
  <2>3. x \in Kids(F, o) \ X /\ y \in Kids(F, o) \ X
    BY <1>1, <2>2
  <2>4. /\ Leq(Sorted(G, o), x, y)
        /\ x \in Kids(G, o) \ X /\ y \in Kids(G, o) \ X
    BY <2>2, <2>3
  <2>5. \E a, b \in Kids(G, o) : r = <<o, <<a, b>>>> /\ Leq(Sorted(G, o), a, b)
    BY <2>2, <2>4
  <2>6. QED
    BY <2>5 DEF RanksOf
<1>2. ASSUME NEW r \in R, r[2][1] \notin X /\ r[2][2] \notin X
      PROVE  r \in S
  <2>1. PICK o \in O : \E x, y \in Kids(G, o) :
          r = <<o, <<x, y>>>> /\ Leq(Sorted(G, o), x, y)
    BY <1>2 DEF RanksOf
  <2>2. PICK x \in Kids(G, o), y \in Kids(G, o) :
          r = <<o, <<x, y>>>> /\ Leq(Sorted(G, o), x, y)
    BY <2>1
  <2>3. x \in Kids(G, o) \ X /\ y \in Kids(G, o) \ X
    BY <1>2, <2>2
  <2>4. /\ Leq(Sorted(F, o), x, y)
        /\ x \in Kids(F, o) \ X /\ y \in Kids(F, o) \ X
    BY <2>2, <2>3
  <2>5. \E a, b \in Kids(F, o) : r = <<o, <<a, b>>>> /\ Leq(Sorted(F, o), a, b)
    BY <2>2, <2>4
  <2>6. QED
    BY <2>5 DEF RanksOf
<1>3. QED
  BY <1>1, <1>2
===============================================================================
