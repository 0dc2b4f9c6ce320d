------------------------------- MODULE MC_Turns -------------------------------
(* Small instances of AgentTurns: a chat with a thread, the command line, a    *)
(* few messages, a subagent and one run of process_direct for the command line.*)
(* One of the messages may be from anywhere, the other one is from the chat or *)
(* its thread.                                                                 *)
EXTENDS AgentTurns
CONSTANTS c1, c2, th1, m1

MCThreadOf == [s \in Threads |-> c1]
MCTarget   == [d \in Directs |-> c2]
MCSource   == [m \in Msgs |-> IF m = m1 THEN {c1, th1} ELSE {c1, c2, th1}]
=============================================================================
