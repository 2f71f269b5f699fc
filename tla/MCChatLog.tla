----------------------------- MODULE MCChatLog ------------------------------
(* Instance of ChatLog: an owner with one or two devices and one other member. *)
EXTENDS ChatLog, TLC

CONSTANTS alice, bob, a1, a2, b1

MCUserOf == [s \in Socket |-> IF s = b1 THEN bob ELSE alice]

Symmetry == Permutations(SendReq) \cup Permutations(DelReq)
=============================================================================
