--------------------------- MODULE MCLiveVariants ---------------------------
(* Instance of LiveVariants for TLC; see README.md for the bounds.          *)
EXTENDS LiveVariants
=============================================================================
