-------------------------- MODULE MCCulturalReseed --------------------------
(* Model-checking instance of CulturalReseed: sets of model values. *)
EXTENDS CulturalReseed, TLC

\* Sources that fetch alike are interchangeable, and so are chunks.
Symmetry == Permutations(Sources) \cup Permutations(Chunks)
=============================================================================
