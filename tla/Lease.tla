------------------------------- MODULE Lease -------------------------------
(***************************************************************************)
(* What a lock with a TTL promises the flows that act under it: no flow    *)
(* begins to act under a key while another does whose lease has not run    *)
(* out.  A flow may learn of its lease after it ran out; that one protects *)
(* nothing.                                                                *)
(***************************************************************************)
CONSTANTS Flows, Keys, None

VARIABLES
    acting,  \* the key each flow acts under
    overrun  \* the flows whose lease has run out while they act
vars == <<acting, overrun>>

Init ==
    /\ acting  = [f \in Flows |-> None]
    /\ overrun = {}

Begin(f, k) ==
    /\ acting[f] = None
    /\ acting' = [acting EXCEPT ![f] = k]

\* The lease is good, so every other one on the key has run out.
Take(f, k) ==
    /\ \A g \in Flows : acting[g] = k => g \in overrun
    /\ Begin(f, k)
    /\ UNCHANGED overrun

TakeTooLate(f, k) ==
    /\ Begin(f, k)
    /\ overrun' = overrun \cup {f}

RunOut(f) ==
    /\ acting[f] # None
    /\ overrun' = overrun \cup {f}
    /\ UNCHANGED acting

Leave(f) ==
    /\ acting[f] # None
    /\ acting'  = [acting EXCEPT ![f] = None]
    /\ overrun' = overrun \ {f}

Next ==
    \E f \in Flows :
        \/ \E k \in Keys : Take(f, k) \/ TakeTooLate(f, k)
        \/ RunOut(f) \/ Leave(f)

Spec == Init /\ [][Next]_vars
=============================================================================
