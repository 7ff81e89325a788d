----------------------------- MODULE MCAccess -----------------------------
(***************************************************************************)
(* What comes in from outside and may come twice: signing in, terminal     *)
(* grants, calls repeated under an idempotency key, GitHub's deliveries of *)
(* a push, the tokens of an installation, dashboard tokens over restarts,  *)
(* forms that are opened, overtaken and saved, and the gate every change   *)
(* goes through.  They share no state, so one run explores each of them    *)
(* with the others at rest.                                                *)
(***************************************************************************)
EXTENDS Sessions, ApiTokens, Terminals, Idempotency, Push, Installation, MCServiceForm, Mutations

VARIABLE part

accessVars ==
    <<part, sessionsVars, tokensVars, terminalsVars, vars, pushVars, installationVars, formVars,
      mutationsVars>>

Parts == {"sessions", "tokens", "terminals", "calls", "pushes", "installation", "form", "mutations"}

AccessInit ==
    /\ part \in Parts
    /\ SessionsInit /\ TokensInit /\ TerminalsInit /\ Init /\ PushInit /\ InstallationInit /\ FormInit
    /\ MutationsInit
    /\ part # "terminals" => critical = {}
    /\ part # "pushes" => watching = {} /\ hot = {}
    /\ part # "form" => service = Unnamed /\ claimed = {}
    /\ part # "mutations" => boxKind = "target"

Others(p) ==
    /\ p # "sessions" => UNCHANGED sessionsVars
    /\ p # "tokens" => UNCHANGED tokensVars
    /\ p # "terminals" => UNCHANGED terminalsVars
    /\ p # "calls" => UNCHANGED vars
    /\ p # "pushes" => UNCHANGED pushVars
    /\ p # "installation" => UNCHANGED installationVars
    /\ p # "form" => UNCHANGED formVars
    /\ p # "mutations" => UNCHANGED mutationsVars

AccessNext ==
    /\ part' = part
    /\ \/ part = "sessions" /\ SessionsNext
       \/ part = "tokens" /\ TokensNext
       \/ part = "terminals" /\ TerminalsNext
       \/ part = "calls" /\ Next
       \/ part = "pushes" /\ PushNext
       \/ part = "installation" /\ InstallationNext
       \/ part = "form" /\ FormNext
       \/ part = "mutations" /\ MutationsNext
    /\ Others(part)

AccessSpec == AccessInit /\ [][AccessNext]_accessVars

\* Nothing that was revoked still opens a door: not the sessions of a password that
\* was changed, not the dashboard token of an earlier boot.
CredentialsEnd == StaleSessionsWereUnderWay /\ OneDashboardToken

\* The attempts of Idempotency are among the requests of Sessions.
Anonymous == Permutations(Call)

=============================================================================
