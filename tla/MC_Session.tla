------------------------------ MODULE MC_Session ------------------------------
(* Small instances of SessionMemory: one or two chats. In the instance with    *)
(* two, the second chat has messages for one consolidation.                    *)
EXTENDS SessionMemory
CONSTANTS s1, s2, t1, t2, k1, k2

Lengths == [s \in Sessions |-> IF s = s1 THEN 4 ELSE 2]
=============================================================================
