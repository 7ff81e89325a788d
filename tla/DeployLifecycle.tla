-------------------------- MODULE DeployLifecycle --------------------------
(***************************************************************************)
(* What the control plane promises about the row of a deployment: it is    *)
(* accepted, it may be asked to cancel while it is active, and it ends     *)
(* once, as cancelled only if someone asked.                               *)
(***************************************************************************)
CONSTANT Deployment

VARIABLES phase,  \* of each deployment
          asked   \* whether a cancel was accepted

Outcome == {"succeeded", "failed", "cancelled", "rolled_back"}
Phase   == {"none", "active"} \cup Outcome

TypeOK == /\ phase \in [Deployment -> Phase]
          /\ asked \in [Deployment -> BOOLEAN]

Init == /\ phase = [d \in Deployment |-> "none"]
        /\ asked = [d \in Deployment |-> FALSE]

Accept(d) == /\ phase[d] = "none"
             /\ phase' = [phase EXCEPT ![d] = "active"]
             /\ UNCHANGED asked

Ask(d) == /\ phase[d] = "active"
          /\ asked' = [asked EXCEPT ![d] = TRUE]
          /\ UNCHANGED phase

End(d, outcome) == /\ phase[d] = "active"
                   /\ outcome = "cancelled" => asked[d]
                   /\ phase' = [phase EXCEPT ![d] = outcome]
                   /\ UNCHANGED asked

Next == \E d \in Deployment :
          Accept(d) \/ Ask(d) \/ \E outcome \in Outcome : End(d, outcome)

Spec == Init /\ [][Next]_<<phase, asked>>
=============================================================================
