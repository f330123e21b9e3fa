---------------------------- MODULE MCGribStream ----------------------------
(***************************************************************************)
(* Sources of up to MaxPieces pieces: whole messages shorter than, as long *)
(* as and longer than a header, messages cut off at every place or with a  *)
(* wrong length, padding and other bytes.                                  *)
(***************************************************************************)
EXTENDS GribStream

CONSTANTS MaxPieces

Pieces == {
    <<Indicator, 3, End>>, <<Indicator, 4, 1, End>>, <<Indicator, 6, 0, 1, 0, End>>,
    <<Indicator, Edition2 + 5, 0, 1, End>>, <<Indicator, Edition2 + 4, 0, End>>,
    <<Indicator>>, <<Indicator, 5, 1>>, <<Indicator, 0>>, <<Indicator, Edition2 + 3, End>>,
    <<Nul>>, <<Nul, Nul, Nul, Nul, Nul>>, <<7>>}
MCSources == {FlattenSeq(p) : p \in UNION {[1..n -> Pieces] : n \in 0..MaxPieces}}
=============================================================================
