----------------------------- MODULE SessionSlot -----------------------------
(***************************************************************************)
(* What the session table promises, independently of the statements that   *)
(* implement it: every trader owns one slot, a session takes the slot only *)
(* when it is free, gives it up once, and never takes it again.  The slot  *)
(* is never handed from one session to another in a single step.  This is  *)
(* migration 003's "at most one active session per TRADER_ID", with the    *)
(* life cycle of one TRADER_SESSION row.                                   *)
(***************************************************************************)
CONSTANTS Traders, Sessions

VARIABLES holder,   \* holder[t]: the sessions holding t's slot, none or one
          spent     \* the sessions that held a slot and gave it up

Init == /\ holder = [t \in Traders |-> {}]
        /\ spent = {}

\* Session s takes the free slot of trader t.
Acquire(t, s) ==
    /\ holder[t] = {}
    /\ s \notin spent
    /\ \A u \in Traders : s \notin holder[u]
    /\ holder' = [holder EXCEPT ![t] = {s}]
    /\ UNCHANGED spent

\* Session s gives up the slot of trader t for good.
Release(t, s) ==
    /\ holder[t] = {s}
    /\ holder' = [holder EXCEPT ![t] = {}]
    /\ spent' = spent \cup {s}

Next == \E t \in Traders, s \in Sessions : Acquire(t, s) \/ Release(t, s)

Spec == Init /\ [][Next]_<<holder, spent>>
=============================================================================
