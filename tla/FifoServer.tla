------------------------------- MODULE FifoServer -------------------------------
(***************************************************************************)
(* What callers rely on of the queue in front of the LLM                   *)
(* (app/llm/queue.py, `async with self._semaphore`): at most Capacity      *)
(* clients are served at once, nobody waits while there is room, and those *)
(* who wait are served in the order they came.                             *)
(***************************************************************************)
EXTENDS Naturals, Sequences, FiniteSets

CONSTANTS
    Clients,
    Capacity    \* max_concurrency

VARIABLES
    line,       \* clients waiting, first come first
    serving     \* clients being served

vars == <<line, serving>>

InLine == {line[i] : i \in DOMAIN line}
Free   == Cardinality(serving) < Capacity /\ line = <<>>

Init == line = <<>> /\ serving = {}

Arrive(c) ==
    /\ c \notin serving \cup InLine
    /\ serving' = IF Free THEN serving \cup {c} ELSE serving
    /\ line' = IF Free THEN line ELSE Append(line, c)

\* A served client leaves and its place goes to the first in line.
Depart(c) ==
    /\ c \in serving
    /\ serving' = (serving \ {c}) \cup (IF line = <<>> THEN {} ELSE {Head(line)})
    /\ line' = IF line = <<>> THEN line ELSE Tail(line)

Next == \E c \in Clients : Arrive(c) \/ Depart(c)

Spec == Init /\ [][Next]_vars

-----------------------------------------------------------------------------
\* No place is lost and none given twice: clients are in line only when every
\* place is taken, each is in it once, and none while being served.
PlacesExact ==
    /\ serving \subseteq Clients /\ line \in Seq(Clients)
    /\ IsFiniteSet(serving) /\ Cardinality(serving) <= Capacity
    /\ line # <<>> => Cardinality(serving) = Capacity
    /\ InLine \cap serving = {}
    /\ \A i, j \in DOMAIN line : line[i] = line[j] => i = j
=============================================================================
