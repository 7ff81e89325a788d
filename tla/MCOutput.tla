------------------------------ MODULE MCOutput ------------------------------
(***************************************************************************)
(* Three ways output reaches a reader: from a remote command, from a build *)
(* and from a journal.  They share no state, so one run explores each with *)
(* the other two at rest.                                                  *)
(***************************************************************************)
EXTENDS Builds, OutputLines, LogStream

VARIABLE part

vars == <<part, buildsVars, linesVars, streamVars>>

Init ==
    /\ part \in {"builds", "lines", "journal"}
    /\ BuildsInit /\ LinesInit /\ StreamInit
    /\ part # "builds" =>
          /\ world = [lacks |-> "nothing", sha |-> FALSE, fails |-> "nothing", output |-> "text",
                      artifact |-> "none"]
          /\ \A b \in Build : place[b] = Local

Next ==
    /\ part' = part
    /\ \/ part = "builds" /\ BuildsNext /\ UNCHANGED <<linesVars, streamVars>>
       \/ part = "lines" /\ LinesNext /\ UNCHANGED <<buildsVars, streamVars>>
       \/ part = "journal" /\ StreamNext /\ UNCHANGED <<buildsVars, linesVars>>

(* Only behaviours of the builds can be fair to the builds, so what must   *)
(* happen is asked of them alone.                                          *)
Spec == Init /\ [][Next]_vars /\ BuildsFair /\ BackgroundEnds

(* What a shell has left running need not end on its own. *)
RunawaySpec == Init /\ [][Next]_vars /\ BuildsFair

(* Lines reach a reader as they were written, none cut, lost or given      *)
(* twice: on the way from a remote command, and from a journal to viewers  *)
(* that come one after the other (OutputLines, LogStream).                 *)
LinesArriveAsWritten == LinesAsWritten /\ OneByOneUnbroken

=============================================================================
