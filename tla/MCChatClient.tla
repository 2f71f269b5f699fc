---------------------------- MODULE MCChatClient ----------------------------
(* Instance of ChatClient: one draft. *)
EXTENDS ChatClient

CONSTANT d1
=============================================================================
