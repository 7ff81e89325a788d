----------------------------- MODULE Mutations -----------------------------
(***************************************************************************)
(* Every call that changes something goes through the same gate: it says   *)
(* whether it is a dry run and whether it means to touch a latency-        *)
(* critical host, the control plane checks the second against the row it   *)
(* has read, writes an audit entry, answers a dry run, and only then acts. *)
(* The order is each handler's own.  One host stands for all of them: it   *)
(* is created, flagged, changed and removed while calls about it are on    *)
(* their way, from a page rendered earlier, from the command line, from an *)
(* agent or from another client of the API.                                *)
(***************************************************************************)
EXTENDS Naturals, Sequences

CONSTANTS Caller,    \* the calls under way at once
          Crowd      \* of these, the ones that may make any call; the others only edit and remove the host

VARIABLES boxKind, box, calls
mutationsVars == <<boxKind, box, calls>>

(* A host: a target or a build host.  "unborn" and "gone" have no row.     *)
HostRow(critical, mode, pending) == [critical |-> critical, mode |-> mode, pending |-> pending]
Unborn == HostRow(FALSE, "unborn", FALSE)
Gone   == HostRow(FALSE, "gone", FALSE)
HasRow == box \notin {Unborn, Gone}

Quiet == [pc |-> "idle", rpc |-> "none", dry |-> FALSE, allow |-> FALSE, flag |-> FALSE,
         seen |-> FALSE, late |-> FALSE, entry |-> FALSE, step |-> 0]

(***************************************************************************)
(* The handlers, each by what decides its course.                          *)
(*   guard: what the guardrail is asked about, the "row" that was read,    *)
(*          the flag "asked" for, or "none"                                *)
(*   early: it may be refused before the guardrail is asked, so without an *)
(*          entry                                                          *)
(*   late:  it may be refused after the entry and before a dry run answers *)
(*   dry:   it heeds dry_run                                               *)
(*   entry: the audit entry comes "first", "last", or "never"              *)
(*   does:  what it changes, in order                                      *)
(***************************************************************************)
Gate == [guard |-> "row", early |-> FALSE, late |-> FALSE, dry |-> TRUE, entry |-> "first", does |-> <<>>]

CreateTargetGate == [Gate EXCEPT !.guard = "asked", !.does = <<"create">>]

\* A request without a target is refused only once it is on record.
UpdateTargetGate == [Gate EXCEPT !.late = TRUE, !.does = <<"write">>]

DeleteTargetGate == [Gate EXCEPT !.does = <<"remove">>]

\* Read-only, so allowed against a latency-critical host; it records a changed key.
CheckTargetGate == [Gate EXCEPT !.guard = "none", !.entry = "never", !.dry = FALSE, !.does = <<"probe">>]

\* Without a change to review, or with another fingerprint, it is refused first.
AcceptHostKeyGate == [Gate EXCEPT !.early = TRUE, !.does = <<"settle">>]

ForgetHostKeyGate == [Gate EXCEPT !.does = <<"settle">>]

\* The settings are stored before the host is provisioned.
EnableIngressGate == [Gate EXCEPT !.early = TRUE, !.does = <<"enable", "host">>]

DisableIngressGate == [Gate EXCEPT !.does = <<"host", "off">>]

\* Refused first where nudo runs no proxy; a dry run answers with the routes.
ReloadIngressGate == [Gate EXCEPT !.early = TRUE, !.does = <<"host", "rows">>]

CreateBuildHostGate == [Gate EXCEPT !.guard = "asked", !.does = <<"create">>]

UpdateBuildHostGate == [Gate EXCEPT !.late = TRUE, !.does = <<"write">>]

\* The default that named it is cleared afterwards.
DeleteBuildHostGate == [Gate EXCEPT !.does = <<"remove", "rows">>]

CheckBuildHostGate == [Gate EXCEPT !.guard = "none", !.entry = "never", !.dry = FALSE, !.does = <<"probe">>]

AcceptBuildHostKeyGate == [Gate EXCEPT !.early = TRUE, !.does = <<"settle">>]

ForgetBuildHostKeyGate == [Gate EXCEPT !.does = <<"settle">>]

\* It names a host but touches none, so there is nothing to guard.
SetDefaultsGate == [Gate EXCEPT !.guard = "none", !.does = <<"rows">>]

CreateServiceGate == [Gate EXCEPT !.early = TRUE, !.does = <<"rows">>]

\* A change of routes goes on to reload the proxy.
UpdateServiceGate == [Gate EXCEPT !.early = TRUE, !.late = TRUE, !.does = <<"rows", "host">>]

\* The unit is stopped before the row goes, and the proxy reloaded after.
DeleteServiceGate == [Gate EXCEPT !.early = TRUE, !.does = <<"host", "rows", "host">>]

\* It connects even for a dry run, which reports the unit's state.
UnitActionGate == [Gate EXCEPT !.early = TRUE, !.late = TRUE, !.does = <<"host">>]

\* A call repeated under its key answers what the first one did.
DeployGate == [Gate EXCEPT !.early = TRUE, !.late = TRUE, !.does = <<"rows">>]

\* Which release is settled before anything is recorded.
RollbackGate == [Gate EXCEPT !.early = TRUE, !.does = <<"rows", "host">>]

CancelGate == [Gate EXCEPT !.early = TRUE, !.does = <<"rows">>]

\* An empty value is refused only once it is on record.  Guarded by the
\* target of its scope, or of the service of its scope.
PutSecretGate == [Gate EXCEPT !.late = TRUE, !.does = <<"rows">>]

\* Guarded by the target of its scope; who still uses it is asked before a
\* dry run answers.
DeleteSecretGate == [Gate EXCEPT !.early = TRUE, !.late = TRUE, !.does = <<"rows">>]

\* ... and not guarded at all if its scope is a service.
DeleteServiceSecretGate == [DeleteSecretGate EXCEPT !.guard = "none"]

\* Nothing looks at the flag: a dry run creates the pending source as well.
CreateManifestGate == [Gate EXCEPT !.guard = "none", !.late = TRUE, !.dry = FALSE, !.does = <<"rows">>]

\* The redirect carries no mutation, and what it did is recorded afterwards.
ExchangeCodeGate == [Gate EXCEPT !.guard = "none", !.early = TRUE, !.dry = FALSE, !.entry = "last", !.does = <<"rows">>]

DeleteSourceGate == [Gate EXCEPT !.guard = "none", !.early = TRUE, !.late = TRUE, !.does = <<"rows">>]

\* Nothing looks at the flag here either: a grant is minted.
CreateSessionGate == [Gate EXCEPT !.dry = FALSE, !.does = <<"rows">>]

RunCommandGate == [Gate EXCEPT !.early = TRUE, !.late = TRUE, !.does = <<"rows", "host">>]

(* The calls about a target, with what has its services on it, and the     *)
(* calls about a build host.                                               *)
OnTarget ==
    [CreateTarget |-> CreateTargetGate, UpdateTarget |-> UpdateTargetGate,
     DeleteTarget |-> DeleteTargetGate, CheckTarget |-> CheckTargetGate,
     AcceptHostKey |-> AcceptHostKeyGate, ForgetHostKey |-> ForgetHostKeyGate,
     EnableIngress |-> EnableIngressGate, DisableIngress |-> DisableIngressGate,
     ReloadIngress |-> ReloadIngressGate, CreateService |-> CreateServiceGate,
     UpdateService |-> UpdateServiceGate, DeleteService |-> DeleteServiceGate,
     UnitAction |-> UnitActionGate, Deploy |-> DeployGate, Rollback |-> RollbackGate,
     Cancel |-> CancelGate, PutSecret |-> PutSecretGate, DeleteSecret |-> DeleteSecretGate,
     DeleteServiceSecret |-> DeleteServiceSecretGate, CreateManifest |-> CreateManifestGate,
     ExchangeCode |-> ExchangeCodeGate, DeleteSource |-> DeleteSourceGate,
     CreateSession |-> CreateSessionGate, RunCommand |-> RunCommandGate]

OnBuildHost ==
    [CreateBuildHost |-> CreateBuildHostGate, UpdateBuildHost |-> UpdateBuildHostGate,
     DeleteBuildHost |-> DeleteBuildHostGate, CheckBuildHost |-> CheckBuildHostGate,
     AcceptBuildHostKey |-> AcceptBuildHostKeyGate, ForgetBuildHostKey |-> ForgetBuildHostKeyGate,
     SetDefaults |-> SetDefaultsGate]

Served == IF boxKind = "target" THEN OnTarget ELSE OnBuildHost
Does(c) == Served[calls[c].rpc]

MutationsInit ==
    /\ boxKind \in {"target", "build_host"}
    /\ box = Unborn
    /\ calls = [c \in Caller |-> Quiet]

(***************************************************************************)
(* The clients.  What a call may say, and what it asks for.                *)
(***************************************************************************)
Says(rpc, dry, allow, flag) ==
    [Quiet EXCEPT !.pc = "asked", !.rpc = rpc, !.dry = dry, !.allow = allow, !.flag = flag]

(* The routes of the dashboard that change something: the calls a route may*)
(* make, and when it allows: as the form says, if the new host is flagged, *)
(* or never.                                                               *)
Route(rpc, allows) == [rpcs |-> {rpc}, allows |-> allows]

\* Ticking "latency-critical" on the form of a new host is the consent.
target_create            == Route("CreateTarget", "flagged")
target_check             == Route("CheckTarget", "never")
target_accept_host_key   == Route("AcceptHostKey", "posted")
target_delete            == Route("DeleteTarget", "posted")
target_ingress_enable    == Route("EnableIngress", "posted")
target_ingress_disable   == Route("DisableIngress", "posted")
target_ingress_reload    == Route("ReloadIngress", "posted")
build_host_create        == Route("CreateBuildHost", "flagged")
build_host_check         == Route("CheckBuildHost", "never")
build_host_accept_host_key == Route("AcceptBuildHostKey", "posted")
build_host_delete        == Route("DeleteBuildHost", "posted")
build_default_set        == Route("SetDefaults", "never")
service_create           == Route("CreateService", "posted")
service_update           == Route("UpdateService", "posted")
service_delete           == Route("DeleteService", "posted")
service_unit_action      == Route("UnitAction", "posted")
deploy                   == Route("Deploy", "posted")
rollback                 == Route("Rollback", "posted")
deployment_cancel        == Route("Cancel", "posted")
secret_put               == Route("PutSecret", "posted")
\* A secret scoped to a latency-critical target cannot be rotated here.
secret_rotate            == Route("PutSecret", "never")
\* What does not look like a private key goes back to the page.
ssh_key_put              == Route("PutSecret", "never")
secret_delete            == [rpcs |-> {"DeleteSecret", "DeleteServiceSecret"}, allows |-> "posted"]
source_github_create     == Route("CreateManifest", "never")
source_github_callback   == Route("ExchangeCode", "never")
source_delete            == Route("DeleteSource", "never")

Router(path) ==
    CASE path = "/targets" -> target_create
      [] path = "/targets/:id/check" -> target_check
      [] path = "/targets/:id/host-key/accept" -> target_accept_host_key
      [] path = "/targets/:id/delete" -> target_delete
      [] path = "/targets/:id/ingress/enable" -> target_ingress_enable
      [] path = "/targets/:id/ingress/disable" -> target_ingress_disable
      [] path = "/targets/:id/ingress/reload" -> target_ingress_reload
      [] path = "/build-hosts" -> build_host_create
      [] path = "/build-hosts/default" -> build_default_set
      [] path = "/build-hosts/:id/check" -> build_host_check
      [] path = "/build-hosts/:id/host-key/accept" -> build_host_accept_host_key
      [] path = "/build-hosts/:id/delete" -> build_host_delete
      [] path = "/services" -> service_create
      [] path = "/services/:id/edit" -> service_update
      [] path = "/services/:id/action" -> service_unit_action
      [] path = "/services/:id/delete" -> service_delete
      [] path = "/services/:id/deploy" -> deploy
      [] path = "/services/:id/rollback" -> rollback
      [] path = "/deployments/:id/cancel" -> deployment_cancel
      [] path = "/secrets/ssh-key" -> ssh_key_put
      [] path = "/secrets/rotate" -> secret_rotate
      [] path = "/secrets" -> secret_put
      [] path = "/secrets/:id/delete" -> secret_delete
      [] path = "/sources/github" -> source_github_create
      [] path = "/sources/github/callback" -> source_github_callback
      [] path = "/sources/:id/delete" -> source_delete

(* What a page offers to post: a path, and whether its form carries the    *)
(* flag.  The forms that carry it do so in a hidden field, where the row   *)
(* was critical when the page was rendered.                                *)
Form(path, allow) == [Quiet EXCEPT !.pc = "form", !.rpc = path, !.allow = allow]
Carries(path) == Form(path, box.critical)
Bare(paths) == {Form(path, FALSE) : path \in paths}
If(condition, forms) == IF condition THEN forms ELSE {}

ingress_off == {Carries("/targets/:id/ingress/enable")}

ingress_card ==
    IF box.mode = "off" THEN ingress_off
    ELSE {Carries("/targets/:id/ingress/disable")}
             \cup If(box.mode = "managed", {Carries("/targets/:id/ingress/reload")})

host_key_change == {Carries("/targets/:id/host-key/accept")}

\* Its "Run checks" is a link that checks nothing.
target_page == If(box.pending, host_key_change) \cup ingress_card

\* Of a target only the form of a new one has a page: "Edit" is a link to
\* nowhere, and the form that deletes a target is behind it.
target_form == {[Form("/targets", FALSE) EXCEPT !.flag = flag] : flag \in BOOLEAN}

build_host_key_change == {Carries("/build-hosts/:id/host-key/accept")}

build_host_page ==
    If(box.pending, build_host_key_change)
        \cup Bare({"/build-hosts/:id/check"}) \cup {Carries("/build-hosts/:id/delete")}

build_host_form == {[Form("/build-hosts", FALSE) EXCEPT !.flag = flag] : flag \in BOOLEAN}

build_default_card == Bare({"/build-hosts/default"})

\* None of the forms of a service or of its deployments carries the flag, ...
service_page == Bare({"/services/:id/deploy", "/services/:id/action", "/services/:id/rollback"})

service_forms == Bare({"/services", "/services/:id/edit", "/services/:id/delete"})

deployment_page == Bare({"/deployments/:id/cancel"})

\* ... and none of those of the secrets.
rotate_action == Bare({"/secrets/rotate"})

ssh_key_form == Bare({"/secrets/ssh-key"})

secrets_page == ssh_key_form \cup rotate_action \cup Bare({"/secrets", "/secrets/:id/delete"})

\* GitHub's redirect comes back by way of the operator's browser.
sources_page == Bare({"/sources/github", "/sources/github/callback", "/sources/:id/delete"})

\* Opening the page of a terminal mints its grant, with the row it has just read.
terminal_page == {Says("CreateSession", FALSE, box.critical, FALSE)}

Pages ==
    IF boxKind = "target"
    THEN IF HasRow THEN target_page \cup service_page \cup service_forms \cup deployment_page
                            \cup secrets_page \cup sources_page \cup terminal_page
                   ELSE target_form
    ELSE IF HasRow THEN build_host_page \cup build_default_card ELSE build_host_form

OpensPage(c) == calls[c] = Quiet /\ c \in Crowd /\ \E form \in Pages : calls' = [calls EXCEPT ![c] = form]

\* The mutation a route builds: never a dry run.  A route may refuse a form
\* itself, and then calls nothing.
Posts(c) ==
    /\ calls[c].pc = "form"
    /\ LET form == calls[c]
           route == Router(form.rpc)
           allow == CASE route.allows = "posted"  -> form.allow
                      [] route.allows = "flagged" -> form.allow \/ form.flag
                      [] OTHER                    -> FALSE
       IN \/ calls' = [calls EXCEPT ![c] = Quiet]
          \/ \E rpc \in route.rpcs : calls' = [calls EXCEPT ![c] = Says(rpc, FALSE, allow, form.flag)]

(* The commands of the command line that change something, ...             *)
cli_targets == {"CreateTarget", "DeleteTarget", "CheckTarget", "AcceptHostKey", "ForgetHostKey"}

cli_ingress == {"EnableIngress", "DisableIngress", "ReloadIngress"}

cli_build_hosts ==
    {"CreateBuildHost", "DeleteBuildHost", "CheckBuildHost", "AcceptBuildHostKey",
     "ForgetBuildHostKey", "SetDefaults"}

cli_secrets == {"PutSecret", "DeleteSecret", "DeleteServiceSecret"}

\* Of a service only its domains and its unit can be changed from here.
cli_services == {"UpdateService"}

cli_unit_action == {"UnitAction"}

\* A terminal asked for as a dry run is not attached, but its grant is minted.
cli_terminal == {"CreateSession"}

cli_run ==
    cli_targets \cup cli_ingress \cup cli_build_hosts \cup cli_secrets \cup cli_services
        \cup cli_unit_action \cup cli_terminal
        \cup {"Deploy", "Rollback", "RunCommand"}

\* ... each with the flags it was given.
Types(c) ==
    /\ calls[c] = Quiet /\ c \in Crowd
    /\ \E rpc \in cli_run \cap DOMAIN Served, dry \in BOOLEAN, allow \in BOOLEAN, flag \in BOOLEAN :
          /\ flag => Served[rpc].guard = "asked"
          /\ calls' = [calls EXCEPT ![c] = Says(rpc, dry, allow, flag)]

\* The tools of an agent that change something, a dry run unless told otherwise.
mcp_deploy == {"Deploy"}

mcp_rollback == {"Rollback"}

mcp_run_command == {"RunCommand"}

AgentCalls(c) ==
    /\ calls[c] = Quiet /\ c \in Crowd
    /\ \E rpc \in (mcp_deploy \cup mcp_rollback \cup mcp_run_command) \cap DOMAIN Served,
          dry \in BOOLEAN, allow \in BOOLEAN :
          calls' = [calls EXCEPT ![c] = Says(rpc, dry, allow, FALSE)]

\* Editing a host has neither page nor command: another client of the API does it.
OtherClients(c) ==
    /\ calls[c] = Quiet
    /\ \E rpc \in {"UpdateTarget", "DeleteTarget", "UpdateBuildHost", "DeleteBuildHost"} \cap DOMAIN Served,
          dry \in BOOLEAN, allow \in BOOLEAN, flag \in BOOLEAN :
          /\ dry => c \in Crowd
          /\ calls' = [calls EXCEPT ![c] = Says(rpc, dry, allow, flag)]

(***************************************************************************)
(* The control plane.                                                      *)
(***************************************************************************)
Answers(c) == calls' = [calls EXCEPT ![c] = Quiet]

\* require_target, require_build_host and what else is asked before the gate.
Require(c) ==
    /\ calls[c].pc = "asked"
    /\ \/ Answers(c) /\ Does(c).early
       \/ Answers(c) /\ Does(c).guard = "row" /\ ~HasRow
       \/ /\ Does(c).guard = "row" => HasRow
          /\ calls' = [calls EXCEPT ![c].pc = "loaded",
                                    ![c].seen = CASE Does(c).guard = "row" -> box.critical
                                                  [] Does(c).guard = "asked" -> calls[c].flag
                                                  [] OTHER -> FALSE]
    /\ UNCHANGED box

AnyoneMay(c) == FALSE
Refused(c) == calls[c].seen /\ ~calls[c].allow

\* Once it is on record: what is left to refuse it, the answer to a dry run,
\* or the work.
GoesOnRegardless(c) == {"acting"}
GoesOn(c) ==
    (IF Does(c).late THEN {"answered"} ELSE {})
        \cup (IF calls[c].dry /\ Does(c).dry THEN {"answered"} ELSE {"acting"})

\* A refusal is put on record as one and ends the call.  Whether an entry
\* could be written makes no difference to anything but the log.
AuthorizeGuarded(c) ==
    /\ calls[c].pc = "loaded"
    /\ IF Refused(c) THEN Answers(c)
       ELSE \E then \in GoesOn(c) :
                IF then = "answered" THEN Answers(c)
                ELSE calls' = [calls EXCEPT ![c].pc = "acting", ![c].seen = FALSE,
                                            ![c].entry = Does(c).entry = "first"]
    /\ UNCHANGED box

\* What a step does to the row of the host, and {} where it cannot; the rest
\* of the database and the host itself are left to the modules about them.
Changed(step, flag) ==
    CASE step = "create" /\ box = Unborn -> {HostRow(flag, "off", FALSE)}
      [] step = "write" /\ HasRow        -> {[box EXCEPT !.critical = f] : f \in {flag, box.critical}}
      [] step = "remove" /\ HasRow       -> {Gone}
      [] step = "probe" /\ HasRow        -> {[box EXCEPT !.pending = changed] : changed \in BOOLEAN}
      [] step = "settle" /\ HasRow       -> {[box EXCEPT !.pending = FALSE]}
      [] step = "enable" /\ HasRow       -> {[box EXCEPT !.mode = mode] : mode \in {"managed", "external"}}
      [] step = "off" /\ HasRow          -> {[box EXCEPT !.mode = "off"]}
      [] step \in {"rows", "host"}       -> {box}
      [] OTHER                           -> {}

\* A call that a flag overtakes has read a row that is no longer true.
Flags == box'.critical /\ ~box.critical

Acts(c) ==
    /\ calls[c].pc = "acting" /\ calls[c].step < Len(Does(c).does)
    /\ box' \in Changed(Does(c).does[calls[c].step + 1], calls[c].flag)
    /\ calls' = [d \in Caller |->
                    IF d = c THEN [calls[c] EXCEPT !.step = @ + 1]
                    ELSE [calls[d] EXCEPT !.late = @ \/ (Flags /\ calls[d].pc \notin {"idle", "form", "asked"})]]

\* Any step may fail, and the call with it.
Fails(c) ==
    /\ calls[c].pc = "acting" /\ calls[c].step < Len(Does(c).does)
    /\ Answers(c) /\ UNCHANGED box

Finishes(c) ==
    /\ calls[c].pc = "acting" /\ calls[c].step = Len(Does(c).does)
    /\ IF Does(c).entry = "last" /\ ~calls[c].entry
       THEN calls' = [calls EXCEPT ![c].entry = TRUE]
       ELSE Answers(c)
    /\ UNCHANGED box

\* The control plane stops: no call is heard of again.
Stops == calls' = [c \in Caller |-> IF calls[c].pc = "form" THEN calls[c] ELSE Quiet] /\ UNCHANGED box

Client(c) == (OpensPage(c) \/ Posts(c) \/ Types(c) \/ AgentCalls(c) \/ OtherClients(c)) /\ UNCHANGED box

ControlPlane(c) == Require(c) \/ AuthorizeGuarded(c) \/ Acts(c) \/ Fails(c) \/ Finishes(c)

MutationsNext == UNCHANGED boxKind /\ (Stops \/ \E c \in Caller : Client(c) \/ ControlPlane(c))

MutationsSpec == MutationsInit /\ [][MutationsNext]_mutationsVars

-----------------------------------------------------------------------------
Acted(c) == calls'[c].step > calls[c].step

\* Checks are read-only by intention; a secret of a service is deleted unguarded.
Unguarded == {"CheckTarget", "CheckBuildHost", "DeleteServiceSecret",
              "SetDefaults", "CreateManifest", "ExchangeCode", "DeleteSource"}

(* Whatever is done about a latency-critical host, and so also taking the  *)
(* flag off it, is done by a call that said it means to; or by one that    *)
(* the flag overtook, whose row had been read before it was set.           *)
CriticalIsTouchedOnPurpose ==
    [][\A c \in Caller :
          Acted(c) /\ box.critical /\ calls[c].rpc \notin Unguarded => calls[c].allow \/ calls[c].late]_mutationsVars

(* Before anything is done an entry for it has been put to the log; only   *)
(* the App that GitHub's redirect binds is recorded afterwards, and a stop *)
(* in between leaves it off the record.  A dry run does nothing, but for   *)
(* the two calls that do not look: it mints a terminal grant, and a        *)
(* pending source.                                                         *)
RecordTellsWhatWasDone ==
    \A c \in Caller : calls[c].step > 0 =>
        /\ \/ calls[c].entry
           \/ calls[c].rpc \in {"CheckTarget", "CheckBuildHost", "ExchangeCode"}
        /\ calls[c].dry => calls[c].rpc \in {"CheckTarget", "CheckBuildHost", "CreateManifest", "CreateSession"}

=============================================================================
