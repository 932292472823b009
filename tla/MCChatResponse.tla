---------------------------- MODULE MCChatResponse ----------------------------
(* A TLC instance of ChatResponse. *)
EXTENDS ChatResponse
=============================================================================
