----------------------------- MODULE PinPromise -----------------------------
(***************************************************************************)
(* What the auto-pinning daemon promises the gateway about registry.cid.   *)
(* Pins are registered one after the other; the daemon offers each to kubo *)
(* at some time (kubo may refuse it); a registry is published only when    *)
(* every pin registered before it has been offered, and never after a      *)
(* newer one.                                                              *)
(***************************************************************************)
EXTENDS Naturals, Sequences

CONSTANT PinSet      \* the pins that may be registered

VARIABLES
    registered,      \* the pins, in the order of their registration
    offered,         \* the positions offered to kubo
    published        \* the position of the published registry, 0 for none

promiseVars == <<registered, offered, published>>

Init == /\ registered = <<>>
        /\ offered = {}
        /\ published = 0

Register == \E pin \in PinSet :
    /\ registered' = Append(registered, pin)
    /\ UNCHANGED <<offered, published>>

Offer == \E p \in 1..Len(registered) :
    /\ offered' = offered \cup {p}
    /\ UNCHANGED <<registered, published>>

Publish == \E p \in 1..Len(registered) :
    /\ p > published
    /\ registered[p].registry
    /\ 1..p \subseteq offered
    /\ published' = p
    /\ UNCHANGED <<registered, offered>>

Next == Register \/ Offer \/ Publish

Spec == Init /\ [][Next]_promiseVars
=============================================================================
