---------------------------- MODULE OrderedLists ----------------------------
(***************************************************************************)
(* What the linked-list columns of the database stand for: every owner has *)
(* a sequence of items, no item is in two places, and an operation puts    *)
(* one item somewhere or takes some items away, leaving the order of all   *)
(* others as it was.  The Playlist table implements it with playlists as   *)
(* items and their parents as owners, the PlaylistEntity table with        *)
(* entities as items and playlists as owners.                              *)
(***************************************************************************)
EXTENDS Naturals, Sequences

CONSTANT Owners

VARIABLE order   \* the sequence of items of each owner

Init == order = [o \in Owners |-> << >>]

(* The pairs of items in s of which the first is at or before the second.  *)
Pairs(s) ==
  {<<s[k[1]], s[k[2]]>> : k \in {k \in (DOMAIN s) \X (DOMAIN s) : k[1] <= k[2]}}

(* All there is to know of lists l: which items of an owner come before    *)
(* which others, or are the same.                                          *)
Ranks(l) == UNION {{o} \X Pairs(l[o]) : o \in Owners}

Items(R) == {r[2][1] : r \in R}

Without(R, X) == {r \in R : r[2][1] \notin X /\ r[2][2] \notin X}

OnePlaceEach(l) ==
  \A o, p \in Owners : \A j \in DOMAIN l[o], k \in DOMAIN l[p] :
    l[o][j] = l[p][k] => o = p /\ j = k

(* now comes from was by taking items away. *)
Take(was, now) == now = Without(was, Items(was) \ Items(now))

(* now comes from was by putting the item x, new or not, in some place. *)
Put(was, now, x) == Without(now, {x}) = Without(was, {x})

Next ==
  \E was \in {order}, now \in {order'} :
    \/ now = was
    \/ /\ \E R \in {Ranks(was)}, S \in {Ranks(now)} :
            Take(R, S) \/ \E x \in Items(S) : Put(R, S, x)
       /\ OnePlaceEach(now)

Spec == Init /\ [][Next]_order
=============================================================================
