---------------------------- MODULE MCWebClients ----------------------------
(* Connections for the run of WebClients: one may stop taking messages. *)
EXTENDS WebClients

CONSTANTS a, b

MCClients == {a, b}
MCSlow == {b}
=============================================================================
