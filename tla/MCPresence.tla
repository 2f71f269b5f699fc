----------------------------- MODULE MCPresence -----------------------------
(* Instance of Presence: one user with several devices, one peer. *)
EXTENDS Presence

CONSTANTS alice, bob, a1, b1

MCUserOf == [s \in Socket |-> IF s = b1 THEN bob ELSE alice]
=============================================================================
