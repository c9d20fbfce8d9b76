------------------------------ MODULE DjLibrary ------------------------------
(***************************************************************************)
(* What the public interface of a DJ library promises to its caller,       *)
(* whatever database is behind it: a tree of playlists whose siblings are  *)
(* in order and have different names, and a sequence of tracks in every    *)
(* playlist.  A call that fails changes nothing; one that succeeds changes *)
(* what it is about and nothing else.                                      *)
(***************************************************************************)
EXTENDS Naturals, Sequences, SequencesExt

CONSTANT Root    \* the owner of the root playlists

VARIABLES
  tree,          (* the children of the root and of each playlist, in order*)
  name,          (* the name of each playlist                              *)
  content,       (* the tracks of each playlist, in order                  *)
  tracks         (* the tracks there are                                   *)

all == <<tree, name, content, tracks>>

Position(s, x) == CHOOSE k \in DOMAIN s : s[k] = x

(* No sequence here holds anything twice. *)
Drop(s, x) == IF x \in ToSet(s) THEN RemoveAt(s, Position(s, x)) ELSE s

With(f, i, v) == [x \in DOMAIN f \cup {i} |-> IF x = i THEN v ELSE f[x]]

(* The playlist i and all those below it. *)
Branch(i) ==
  {j \in DOMAIN name : \A S \in SUBSET DOMAIN name :
     i \in S /\ (\A k \in S : ToSet(tree[k]) \subseteq S) => j \in S}

NewName(p, n) == \A i \in ToSet(tree[p]) : name[i] # n

-----------------------------------------------------------------------------
(* The calls.  SetParent does not say where among the children of its new  *)
(* parent the playlist comes to stand.                                     *)

(* The new playlist comes to stand as the k-th child of p. *)
CreateAt(p, n, k) ==
  \E i \in DOMAIN name' \ DOMAIN name :
    /\ NewName(p, n)
    /\ tree' = With([tree EXCEPT ![p] = InsertAt(@, k, i)], i, << >>)
    /\ name' = With(name, i, n)
    /\ content' = With(content, i, << >>)
    /\ UNCHANGED tracks

Create(p, n) == CreateAt(p, n, Len(tree[p]) + 1)

CreateAfter(p, n, a) ==
  /\ a \in ToSet(tree[p])
  /\ CreateAt(p, n, Position(tree[p], a) + 1)

SetName(i, n) ==
  /\ name' = [name EXCEPT ![i] = n]
  /\ UNCHANGED <<tree, content, tracks>>

SetParent(i, p) ==
  LET taken == [o \in DOMAIN tree |-> Drop(tree[o], i)]
  IN  /\ p \notin Branch(i)
      /\ \E k \in 1 .. Len(taken[p]) + 1 :
           tree' = [taken EXCEPT ![p] = InsertAt(@, k, i)]
      /\ UNCHANGED <<name, content, tracks>>

RemoveList(i) ==
  LET gone == Branch(i)
  IN  /\ tree' = [o \in DOMAIN tree \ gone |-> Drop(tree[o], i)]
      /\ name' = [o \in DOMAIN name \ gone |-> name[o]]
      /\ content' = [o \in DOMAIN content \ gone |-> content[o]]
      /\ UNCHANGED tracks

SetContent(p, s) ==
  /\ content' = [content EXCEPT ![p] = s]
  /\ UNCHANGED <<tree, name, tracks>>

AddTrackBack(p, t) ==
  t \notin ToSet(content[p]) /\ SetContent(p, Append(content[p], t))

(* A crate takes a track that it has already, and stays as it is. *)
AddTrack(p, t) ==
  IF t \in ToSet(content[p]) THEN UNCHANGED all ELSE AddTrackBack(p, t)

AddTrackAfter(p, t, a) ==
  /\ t \notin ToSet(content[p]) /\ a \in ToSet(content[p])
  /\ SetContent(p, InsertAt(content[p], Position(content[p], a) + 1, t))

RemoveTrack(p, t) == SetContent(p, Drop(content[p], t))

ClearTracks(p) == SetContent(p, << >>)

CreateTrack ==
  /\ \E t \in tracks' \ tracks : tracks' = tracks \cup {t}
  /\ UNCHANGED <<tree, name, content>>

DropTrack(t) ==
  /\ tracks' = tracks \ {t}
  /\ content' = [p \in DOMAIN content |-> Drop(content[p], t)]
  /\ UNCHANGED <<tree, name>>

-----------------------------------------------------------------------------
(* What a call c, a tuple of a name and arguments, promises. *)
Promised(c) ==
  CASE c[1] = "create"          -> Create(c[2], c[3])
    [] c[1] = "create_after"    -> CreateAfter(c[2], c[3], c[4])
    [] c[1] = "set_name"        -> SetName(c[2], c[3])
    [] c[1] = "set_parent"      -> SetParent(c[2], c[3])
    [] c[1] = "remove_list"     -> RemoveList(c[2])
    [] c[1] = "add_track_back"  -> AddTrackBack(c[2], c[3])
    [] c[1] = "add_track"       -> AddTrack(c[2], c[3])
    [] c[1] = "add_track_after" -> AddTrackAfter(c[2], c[3], c[4])
    [] c[1] = "remove_track"    -> RemoveTrack(c[2], c[3])
    [] c[1] = "clear_tracks"    -> ClearTracks(c[2])
    [] c[1] = "create_track"    -> CreateTrack
    [] c[1] = "drop_track"      -> DropTrack(c[2])

Init ==
  /\ tree = [o \in {Root} |-> << >>]
  /\ name = [i \in {} |-> Root] /\ content = name
  /\ tracks = {}
=============================================================================
