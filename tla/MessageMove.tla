------------------------------ MODULE MessageMove ------------------------------
(***************************************************************************)
(* What redriving a dead-letter queue promises about its messages         *)
(* (spec.md 4.4 and 7): every message leaves the source queue exactly     *)
(* once, either moved into the destination or taken by some other path    *)
(* (deleted by a consumer, or redriven by a receive to the source's own    *)
(* dead-letter target).  Delivery of a message to a consumer is not a     *)
(* change here: SQS delivers at least once.                                *)
(***************************************************************************)
CONSTANTS Msgs

VARIABLES source, target, gone

vars == <<source, target, gone>>

Init == source = Msgs /\ target = {} /\ gone = {}

\* the move task puts m into the destination
Move(m) ==
    /\ m \in source
    /\ source' = source \ {m}
    /\ target' = target \cup {m}
    /\ UNCHANGED gone

\* messages leave the source by a delete or a dead-letter redrive; one
\* receive may redrive several
Consume(S) ==
    /\ S /= {} /\ S \subseteq source
    /\ source' = source \ S
    /\ gone' = gone \cup S
    /\ UNCHANGED target

Next == (\E m \in Msgs : Move(m)) \/ (\E S \in SUBSET Msgs : Consume(S))

Spec == Init /\ [][Next]_vars

=============================================================================
