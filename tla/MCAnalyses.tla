----------------------------- MODULE MCAnalyses -----------------------------
(* Grids of up to four markers, from each of Starts, whose segments are one *)
(* or two beats long and two or three samples a beat; and grids of a single*)
(* segment of three beats, in which a track can end before beat -4.        *)
EXTENDS Analyses

Starts == {[index |-> i, offset |-> o] : i \in {-6, -4, 0, 1}, o \in {-4, 0, 3}}

Longer(G, beats) ==
  {Append(g, [index |-> LastOf(g).index + n, offset |-> LastOf(g).offset + n * s]) :
     g \in G, n \in beats, s \in {2, 3}}

One   == {<<m>> : m \in Starts}
Two   == Longer(One, 1 .. 2)
Three == Longer(Two, 1 .. 2)
MCGrids == {<<>>} \cup One \cup Two \cup Three \cup Longer(Three, 1 .. 2) \cup Longer(One, {3})

MCOffsets == {-1, 0, 5}

MCWaves == {[i \in 1 .. n |-> i] : n \in 0 .. 9}
=============================================================================
