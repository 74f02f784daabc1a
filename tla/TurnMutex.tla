------------------------------ MODULE TurnMutex ------------------------------
(***************************************************************************)
(* What the turn claim promises a host that keeps the session law: the     *)
(* turns of one conversation run one at a time.                            *)
(***************************************************************************)
CONSTANT Turns

VARIABLE inside      \* the turns that run

Init == inside = {}

Enter(t) == inside = {} /\ inside' = {t}

Leave(t) == t \in inside /\ inside' = inside \ {t}

Next == \E t \in Turns : Enter(t) \/ Leave(t)

Spec == Init /\ [][Next]_inside
=============================================================================
