---------------------------- MODULE MCOneWriter -----------------------------
(* Small instances of OneWriter for TLC.                                     *)
EXTENDS MCSyncSession, OneWriter
=============================================================================
