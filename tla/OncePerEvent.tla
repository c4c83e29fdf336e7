---------------------------- MODULE OncePerEvent ----------------------------
(***************************************************************************)
(* What the handler of a payment webhook promises its caller, however      *)
(* often, and however much at the same time, an event is delivered: the    *)
(* effect of an event happens at most once and in one step with the record *)
(* that says so, and the caller is only told of a success that is on       *)
(* record (docs/adr/0012: an atomic idempotency check).                    *)
(***************************************************************************)
EXTENDS Integers

CONSTANTS
    Events,
    Payments    \* the events that have an effect

VARIABLES
    processed,      \* the events on record
    effects,        \* effects[e]: how often the effect of e has happened
    acknowledged    \* the events whose sender was told of a success

vars == <<processed, effects, acknowledged>>

Init ==
    /\ processed = {}
    /\ effects = [e \in Events |-> 0]
    /\ acknowledged = {}

Apply(e) ==
    /\ e \notin processed
    /\ processed' = processed \cup {e}
    /\ effects' = IF e \in Payments THEN [effects EXCEPT ![e] = @ + 1] ELSE effects
    /\ acknowledged' = acknowledged \cup {e}

Repeat(e) ==
    /\ e \in processed
    /\ acknowledged' = acknowledged \cup {e}
    /\ UNCHANGED <<processed, effects>>

Next == \E e \in Events : Apply(e) \/ Repeat(e)

Spec == Init /\ [][Next]_vars
=============================================================================
