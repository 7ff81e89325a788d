------------------------------ MODULE Ingress ------------------------------
(***************************************************************************)
(* The proxy on a target: turning it on and off, and bringing its config   *)
(* up to date, from the Targets service (server/src/api/targets.rs), after *)
(* a change of a service's routes (api/services.rs) and at the end of a    *)
(* deploy (deploy/execution.rs).  The order of the commands is that of     *)
(* server/src/ingress/reconcile.rs.                                        *)
(*                                                                         *)
(* Every caller works on the target as it was when the call began, a       *)
(* deploy's perhaps minutes ago.  What a config says of the services is    *)
(* the number of the change to their routes it was rendered after.  The    *)
(* guardrail, dry runs and the versions of Caddy are left out.             *)
(***************************************************************************)
EXTENDS Naturals

CONSTANTS
    Call,     \* handlers and deploys under way
    Asked,    \* the settings the requests ask for
    MaxEdits  \* how often routes change: a bound

VARIABLES
    row,     \* the ingress columns of the target
    edits,   \* the changes made to the routes of its services
    proxy,   \* external: what runs, what is on disk and what is staged
    call,    \* the calls under way
    excuse   \* history: overlap, stale or fault; see the properties

ingressVars == <<row, edits, proxy, call, excuse>>

Nothing == [edit |-> 0, port |-> 0, good |-> TRUE]
Resting == [pc |-> "idle"]

(* The settings of a target: the port of the admin API, and whether Caddy  *)
(* accepts what is rendered, for the e-mail address is not checked.        *)
Off == [mode |-> "none", port |-> 1, good |-> TRUE]
ASSUME AskedAssumption ==
    Asked \subseteq [mode : {"managed", "external"}, port : Nat, good : BOOLEAN]

IngressInit ==
    /\ row = [set |-> Off, status |-> "pending"]
    /\ edits = 0
    /\ proxy = [running |-> Nothing, disk |-> Nothing, staged |-> Nothing, enabled |-> FALSE]
    /\ call = [c \in Call |-> Resting]
    /\ excuse = {}

Render(target) == [edit |-> edits + 1, port |-> target.port, good |-> target.good]

In(c, pc) == call[c].pc = pc
Step(c, pc) == call' = [call EXCEPT ![c].pc = pc]
Done(c) == call' = [call EXCEPT ![c] = Resting]

(* A call is at the host's config from the moment it has read the routes,  *)
(* or begins to stop the proxy, until it has recorded what came of it.     *)
AtHost(c) == call[c].pc \in {"stage", "validate", "move", "ask", "load", "start",
                             "record", "clear"}
Overlap(c) == IF \E d \in Call \ {c} : AtHost(d) THEN {"overlap"} ELSE {}
Stale(c) == IF call[c].target # row.set THEN {"stale"} ELSE {}

(***************************************************************************)
(* What calls begin with.                                                  *)
(***************************************************************************)
Begin(c, kind, pc, target) ==
    /\ In(c, "idle")
    /\ call' = [call EXCEPT ![c] = [kind |-> kind, pc |-> pc, target |-> target,
                                    config |-> Nothing, ok |-> FALSE]]
    /\ UNCHANGED <<row, edits, proxy, excuse>>

EnableIngress(c) ==
    \E set \in Asked : Begin(c, "enable", "set", set)

DisableIngress(c) ==
    Begin(c, "disable", IF row.set.mode = "managed" THEN "stop" ELSE "clear", row.set)

ReloadIngress(c) == row.set.mode = "managed" /\ Begin(c, "reload", "routes", row.set)

(* Routes replaced or a routed service deleted. *)
ChangeRoutes(c) == edits < MaxEdits /\ Begin(c, "edit", "edit", row.set)

DeployReloads(c) == row.set.mode = "managed" /\ Begin(c, "deploy", "routes", row.set)

(***************************************************************************)
(* The rows.                                                               *)
(***************************************************************************)
(* set_ingress: a mode that changes takes the status back to pending.      *)
Written(set) ==
    row' = [set |-> set, status |-> IF row.set.mode = set.mode THEN row.status ELSE "pending"]

SetIngress(c) ==
    /\ In(c, "set")
    /\ Written(call[c].target)
    /\ IF call[c].target.mode = "managed" THEN Step(c, "reread") ELSE Done(c)
    /\ UNCHANGED <<edits, proxy, excuse>>

(* provision begins with the target as it is read back, then installs.     *)
Reread(c) ==
    /\ In(c, "reread")
    /\ call' = [call EXCEPT ![c].target = row.set, ![c].pc = "install"]
    /\ UNCHANGED <<row, edits, proxy, excuse>>

(* Stopped and disabled before the row forgets it; a host that cannot be   *)
(* reached is left as it is.                                               *)
StopProxy(c) ==
    /\ In(c, "stop")
    /\ \/ /\ proxy' = [proxy EXCEPT !.running = Nothing, !.enabled = FALSE]
          /\ excuse' = excuse \cup Overlap(c)
       \/ /\ excuse' = excuse \cup {"fault"}
          /\ UNCHANGED proxy
    /\ Step(c, "clear")
    /\ UNCHANGED <<row, edits>>

ClearIngress(c) ==
    /\ In(c, "clear")
    /\ Written(Off)
    /\ excuse' = excuse \cup Stale(c)
    /\ Done(c)
    /\ UNCHANGED <<edits, proxy>>

\* Variant of EditRoutes: the change is stored and the proxy not told.
EditWithoutReload(c) ==
    /\ In(c, "edit")
    /\ edits' = edits + 1
    /\ excuse' = excuse \cup Stale(c)
    /\ Done(c)
    /\ UNCHANGED <<row, proxy>>

EditRoutes(c) ==
    /\ In(c, "edit")
    /\ edits' = edits + 1
    /\ excuse' = excuse \cup Stale(c)
    /\ IF call[c].target.mode = "managed"
       THEN call' = [call EXCEPT ![c].pc = "routes", ![c].kind = "reload"]
       ELSE Done(c)
    /\ UNCHANGED <<row, proxy>>

(* routed_services, and what is rendered from it; the rest depends on that alone. *)
ReadRoutes(c) ==
    /\ In(c, "routes")
    /\ call' = [call EXCEPT ![c].config = Render(call[c].target), ![c].target = Off,
                             ![c].pc = "stage"]
    /\ excuse' = excuse \cup Overlap(c) \cup Stale(c)
    /\ UNCHANGED <<row, edits, proxy>>

(***************************************************************************)
(* At the host.                                                            *)
(***************************************************************************)
(* install_unit enables the unit, whoever put the binary there. *)
Install(c) ==
    /\ In(c, "install")
    /\ proxy' = [proxy EXCEPT !.enabled = TRUE]
    /\ Step(c, "routes")
    /\ UNCHANGED <<row, edits, excuse>>

\* Variant of Stage: the config is written where it will be read.
StageInPlace(c) ==
    /\ In(c, "stage")
    /\ proxy' = [proxy EXCEPT !.staged = call[c].config, !.disk = call[c].config]
    /\ Step(c, "validate")
    /\ UNCHANGED <<row, edits, excuse>>

Stage(c) ==
    /\ In(c, "stage")
    /\ proxy' = [proxy EXCEPT !.staged = call[c].config]
    /\ call' = [call EXCEPT ![c].pc = "validate",
                             ![c].config = [Nothing EXCEPT !.port = call[c].config.port]]
    /\ UNCHANGED <<row, edits, excuse>>

(* A config that is refused is taken away again. *)
Validate(c) ==
    /\ In(c, "validate")
    /\ IF proxy.staged # Nothing /\ proxy.staged.good
       THEN Step(c, "move") /\ UNCHANGED proxy
       ELSE Step(c, "record") /\ proxy' = [proxy EXCEPT !.staged = Nothing]
    /\ UNCHANGED <<row, edits, excuse>>

Move(c) ==
    /\ In(c, "move") /\ proxy.staged # Nothing
    /\ proxy' = [proxy EXCEPT !.disk = proxy.staged, !.staged = Nothing]
    /\ Step(c, "ask")
    /\ UNCHANGED <<row, edits, excuse>>

(* is_running: no answer counts as stopped. *)
IsRunning(c) ==
    /\ In(c, "ask")
    /\ \/ /\ Step(c, IF proxy.running # Nothing THEN "load" ELSE "start")
          /\ UNCHANGED excuse
       \/ Step(c, "start") /\ excuse' = excuse \cup {"fault"}
    /\ UNCHANGED <<row, edits, proxy>>

(* Reloaded at the port the target names, which is not the port it listens *)
(* on if that is what changed; and it may refuse.                          *)
Load(c) ==
    /\ In(c, "load")
    /\ \/ /\ proxy.running # Nothing /\ proxy.running.port = call[c].config.port
          /\ proxy.disk # Nothing /\ proxy.disk.good
          /\ proxy' = [proxy EXCEPT !.running = proxy.disk]
          /\ call' = [call EXCEPT ![c].pc = "record", ![c].ok = TRUE]
       \/ Step(c, "record") /\ UNCHANGED proxy
    /\ UNCHANGED <<row, edits, excuse>>

(* Starting what runs already does nothing and succeeds. *)
Start(c) ==
    /\ In(c, "start")
    /\ \/ /\ proxy.running # Nothing
          /\ call' = [call EXCEPT ![c].pc = "record", ![c].ok = TRUE]
          /\ UNCHANGED proxy
       \/ /\ proxy.running = Nothing /\ proxy.disk # Nothing /\ proxy.disk.good
          /\ proxy' = [proxy EXCEPT !.running = proxy.disk]
          /\ call' = [call EXCEPT ![c].pc = "record", ![c].ok = TRUE]
       \/ proxy.running = Nothing /\ Step(c, "record") /\ UNCHANGED proxy
    /\ UNCHANGED <<row, edits, excuse>>

(* record_reload and record_ingress, and the end of provision, for which a *)
(* refusal leaves the target pending.                                      *)
RecordReload(c) ==
    /\ In(c, "record")
    /\ row' = [row EXCEPT !.status =
                 CASE call[c].ok -> "active"
                   [] ~call[c].ok /\ call[c].kind = "enable" -> "pending"
                   [] OTHER -> "degraded"]
    /\ Done(c)
    /\ UNCHANGED <<edits, proxy, excuse>>

(* The host cannot be reached or a command cannot be run: a deploy and     *)
(* provision record it, the others pass the error on or log it.  The last  *)
(* command may have had its effect.                                        *)
Break(c) ==
    /\ call[c].pc \in {"install", "stage", "validate", "move", "load"}
    /\ proxy' \in {proxy,
                   IF In(c, "move") /\ proxy.staged # Nothing
                   THEN [proxy EXCEPT !.disk = proxy.staged, !.staged = Nothing] ELSE proxy}
    /\ row' = CASE call[c].kind = "deploy" -> [row EXCEPT !.status = "degraded"]
                [] call[c].kind = "enable" -> [row EXCEPT !.status = "pending"]
                [] OTHER -> row
    /\ excuse' = excuse \cup {"fault"}
    /\ Done(c)
    /\ UNCHANGED edits

(* External: the proxy or its host restarts, between calls. *)
ProxyRestarts ==
    /\ \A c \in Call : ~AtHost(c)
    /\ proxy' = [proxy EXCEPT !.running =
                   IF proxy.enabled /\ proxy.disk.good THEN proxy.disk ELSE Nothing]
    /\ UNCHANGED <<row, edits, call, excuse>>

(* The server dies with every call; nothing of them is taken up again.     *)
ServerRestarts ==
    /\ call' = [c \in Call |-> Resting]
    /\ excuse' = excuse \cup (IF call # call' THEN {"fault"} ELSE {})
    /\ UNCHANGED <<row, edits, proxy>>

Reconcile(c) ==
    \/ Install(c) \/ Stage(c) \/ Validate(c) \/ Move(c) \/ IsRunning(c)
    \/ Load(c) \/ Start(c) \/ RecordReload(c) \/ Break(c)

IngressNext ==
    \/ \E c \in Call :
          \/ EnableIngress(c) \/ DisableIngress(c) \/ ReloadIngress(c) \/ ChangeRoutes(c) \/ DeployReloads(c)
          \/ SetIngress(c) \/ Reread(c) \/ StopProxy(c) \/ ClearIngress(c) \/ EditRoutes(c)
          \/ ReadRoutes(c) \/ Reconcile(c)
    \/ ProxyRestarts \/ ServerRestarts

IngressSpec == IngressInit /\ [][IngressNext]_ingressVars

(***************************************************************************)
(* Properties.                                                             *)
(***************************************************************************)
(* A target recorded as active serves what nudo would write now, once no   *)
(* call is under way: unless two calls were at its config at once, one     *)
(* acted on settings that had changed since it read them, or a connection  *)
(* or the server failed one.                                               *)
ActiveServesTheRows ==
    /\ excuse = {} /\ row.status = "active" /\ row.set.mode = "managed"
    /\ proxy.running # Nothing
    /\ \A c \in Call : In(c, "idle")
    => proxy.running = Render(row.set)

(* The config the proxy will start with was accepted by it, whatever fails *)
(* on the way and whenever: unless two calls were at the config at once.   *)
OnlyAcceptedConfigsGoLive == "overlap" \notin excuse => proxy.disk.good

=============================================================================
