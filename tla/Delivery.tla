------------------------------ MODULE Delivery ------------------------------
(***************************************************************************)
(* What the notification queue promises about each notification, whatever  *)
(* fails and whenever the process stops: it is stored with all that was    *)
(* accepted with it or not at all, a stored one is never lost, and one     *)
(* that is recorded as sent is never sent again.  Of a stored one that two *)
(* have taken at once nothing more is promised.                            *)
(***************************************************************************)
CONSTANT Notification
VARIABLE fate

Fate == {"absent", "accepted", "stored", "sent", "doubled"}
In(f) == {n \in Notification : fate[n] = f}
Become(S, f) == fate' = [n \in Notification |-> IF n \in S THEN f ELSE fate[n]]

\* What was stored before is still there.
Init == fate \in [Notification -> {"absent", "stored"}]

Accept == \E n \in In("absent") : Become({n}, "accepted")
Store == Become(In("accepted"), "stored")
Lose == Become(In("accepted"), "absent")        \* with the process that held them
Double == \E S \in SUBSET In("stored") : Become(S, "doubled")
Sent == \E n \in In("stored") : Become({n}, "sent")
Forget == \E S \in SUBSET (In("sent") \union In("doubled")) : Become(S, "absent")

Next == Accept \/ Store \/ Lose \/ Double \/ Sent \/ Forget

Spec == Init /\ [][Next]_fate
=============================================================================
