----------------------------- MODULE MCChatView -----------------------------
(* Instance of ChatView for TLC; see README.md for the bounds.              *)
EXTENDS ChatView
=============================================================================
