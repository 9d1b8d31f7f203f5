------------------------------ MODULE MCServer ------------------------------
(* A small instance of Server.                                             *)
EXTENDS Server

CONSTANTS d1, p1, p2, u1, u2, h1, h2, s1
=============================================================================
