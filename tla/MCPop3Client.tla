---------------------------- MODULE MCPop3Client ----------------------------
(* Pop3Client for TLC: one account, whose name is written in two ways. *)
EXTENDS Pop3Client

CONSTANTS jan, JAN, aJan

MCName == {jan, JAN}
MCAccountOf == [n \in MCName |-> aJan]
=============================================================================
