----------------------------- MODULE MCOutside -----------------------------
(***************************************************************************)
(* Followers: the task that writes a commit's status back, and the readers *)
(* at the far end of a stream.  They share no state here, so one run       *)
(* explores each with the other at rest.                                   *)
(***************************************************************************)
EXTENDS StatusWriteback, Viewers

CONSTANT follower

VARIABLE part

outsideVars == <<part, vars, viewersVars>>

OutsideInit ==
    /\ part \in {"writeback", "viewers"}
    /\ Init /\ ViewersInit
    /\ part # "viewers" => kind = "logs" /\ outcome = "success"

OutsideNext ==
    /\ part' = part
    /\ \/ part = "writeback" /\ Next /\ UNCHANGED viewersVars
       \/ part = "viewers" /\ ViewersNext /\ UNCHANGED vars

(* What must happen is asked of each part under its own fairness. *)
OutsideSpec ==
    /\ OutsideInit /\ [][OutsideNext]_outsideVars
    /\ part = "writeback" => Fairness
    /\ part = "viewers" => ViewersFair

=============================================================================
