----------------------------- MODULE ScanService -----------------------------
(***************************************************************************)
(* What the background service promises the screens.  Requests queue up in *)
(* the order they are sent.  The service takes one when it is free, works  *)
(* on it and answers it; it drops one that arrives while it is working.    *)
(***************************************************************************)
EXTENDS Integers

CONSTANTS MaxRequests

Ids == 1..MaxRequests

VARIABLES
    outcome,   \* what became of each request
    current    \* the request being worked on, 0 when free

vars == <<outcome, current>>

Init ==
    /\ outcome = [i \in Ids |-> "none"]
    /\ current = 0

\* Ids are given out in the order of sending.
Oldest(i, state) == outcome[i] = state /\ \A j \in 1..(i - 1) : outcome[j] # state
Becomes(i, state) == outcome' = [outcome EXCEPT ![i] = state]

Send(i)   == Oldest(i, "none") /\ Becomes(i, "sent") /\ UNCHANGED current
Accept(i) == Oldest(i, "sent") /\ current = 0 /\ Becomes(i, "accepted") /\ current' = i
Drop(i)   == Oldest(i, "sent") /\ current # 0 /\ Becomes(i, "dropped") /\ UNCHANGED current
Answer    == current # 0 /\ Becomes(current, "answered") /\ current' = 0

Next == (\E i \in Ids : Send(i) \/ Accept(i) \/ Drop(i)) \/ Answer

Spec == Init /\ [][Next]_vars

\* Provided that the hardware lets it go on.
Fairness == WF_vars(Answer) /\ WF_vars(\E i \in Ids : Accept(i) \/ Drop(i))

=============================================================================
