-------------------------- MODULE MCBrowserSession --------------------------
(* Instance of BrowserSession for TLC; see README.md for the bounds.        *)
EXTENDS BrowserSession, TLC

Symmetry == Permutations(Tabs) \cup Permutations(Requests) \cup Permutations(Links)
=============================================================================
