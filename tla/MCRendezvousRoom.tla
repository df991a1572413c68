-------------------------- MODULE MCRendezvousRoom --------------------------
(* Three browsers and a room for two.                                        *)
EXTENDS RendezvousRoom
CONSTANTS a, b, c
=============================================================================
