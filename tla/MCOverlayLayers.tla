-------------------------- MODULE MCOverlayLayers --------------------------
(* A small instance of OverlayLayers. *)
EXTENDS OverlayLayers

CONSTANTS c1, c2, i1, i2

MCIds == {i1, i2}
MCContents == {c1, c2}
MCRoots == <<"usr">>
MCSymmetry == Permutations(MCIds)
=============================================================================
