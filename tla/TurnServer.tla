------------------------------ MODULE TurnServer ------------------------------
(***************************************************************************)
(* What the agent promises to those who write to it over the bus: they are *)
(* served one at a time, in the order in which they came, and speak only   *)
(* while they are served. A /stop may call off whoever came before it; who  *)
(* is called off says nothing any more and leaves without being served.    *)
(***************************************************************************)
EXTENDS Naturals, Sequences

CONSTANTS
  Turns,    \* those who may come, each once
  Nobody

VARIABLES
  came,     \* those who have come so far
  stops,    \* those of them that are a /stop
  line,     \* those who wait, in the order in which they came
  serving,  \* who is served
  off,      \* who was called off
  said      \* what was published, by which turn

vars == <<came, stops, line, serving, off, said>>

Init ==
  /\ came = {} /\ stops = {} /\ line = <<>> /\ serving = Nobody
  /\ off = {} /\ said = {}

\* The line without its i-th place.
Left(i) == [j \in 1..(Len(line) - 1) |-> IF j < i THEN line[j] ELSE line[j + 1]]

Arrive(t) ==
  /\ t \notin came /\ came' = came \union {t}
  /\ stops' \in {stops, stops \union {t}}
  /\ line' = Append(line, t)
  /\ UNCHANGED <<serving, off, said>>

Begin ==
  /\ serving = Nobody /\ line # <<>> /\ Head(line) \notin off \union stops
  /\ serving' = Head(line) /\ line' = Tail(line)
  /\ UNCHANGED <<came, stops, off, said>>

\* Only who is served adds to what was said, and not when called off.
SaysMore ==
  /\ said \subseteq said'
  /\ \A o \in said' \ said : o.turn = serving /\ serving \notin off

Speak ==
  /\ serving # Nobody /\ SaysMore
  /\ UNCHANGED <<came, stops, line, serving, off>>

End ==
  /\ serving # Nobody /\ serving' = Nobody /\ SaysMore
  /\ UNCHANGED <<came, stops, line, off>>

\* A /stop is not served like the others: it calls off some of those before it.
Stop(i) ==
  /\ line[i] \in stops /\ line' = Left(i)
  /\ off \subseteq off' /\ off' \ off \subseteq {line[j] : j \in 1..(i - 1)} \union {serving}
  /\ UNCHANGED <<came, stops, serving, said>>

Leave(i) ==
  /\ line[i] \in off /\ line' = Left(i)
  /\ UNCHANGED <<came, stops, serving, off, said>>

Next ==
  \/ \E t \in Turns : Arrive(t)
  \/ Begin \/ Speak \/ End
  \/ \E i \in 1..Len(line) : Stop(i) \/ Leave(i)

Spec == Init /\ [][Next]_vars
=============================================================================
