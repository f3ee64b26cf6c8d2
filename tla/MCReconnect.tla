----------------------------- MODULE MCReconnect -----------------------------
(* An instance of Reconnect for TLC: up to three attempts that overlap. *)
EXTENDS Reconnect, TLC
=============================================================================
