---------------------------- MODULE MCSessionServer ----------------------------
(* Finite instances of SessionServer for TLC. *)
EXTENDS SessionServer

CONSTANTS c1, c2, c3
================================================================================
