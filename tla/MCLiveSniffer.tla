---------------------------- MODULE MCLiveSniffer ----------------------------
(* Two client threads, one of them the main one.                           *)
EXTENDS LiveSniffer

CONSTANTS c1, c2
=============================================================================
