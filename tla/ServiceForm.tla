----------------------------- MODULE ServiceForm -----------------------------
(***************************************************************************)
(* Editing a service in the dashboard: the row is read and rendered into a *)
(* form (web/src/render/services/form.rs), what the browser posts is read  *)
(* back into a message (web/src/routes/services.rs) and applied whole      *)
(* (server/src/store/services.rs), while the command line and other API    *)
(* clients update single groups under a mask.                              *)
(*                                                                         *)
(* A field is what the round trip can tell apart: a list that is joined, a *)
(* map that is written line by line, a text that is cut to one line, a     *)
(* choice that is not offered, a name the two ends spell differently.      *)
(* Claims on domains and ports are Services; reloading the proxy, Ingress. *)
(***************************************************************************)
EXTENDS Naturals, Sequences, FiniteSets

CONSTANTS
    Editor,   \* the forms that are opened: a bound
    Place,    \* domain, path and port of a route, as one
    Unusable, \* those the server refuses: no port, a bad domain
    Secret,   \* secrets
    Spelled,  \* services as another client may have written them
    MaxSaves  \* updates by other clients: a bound

VARIABLES
    service,  \* the row, and its routes
    claimed,  \* places that are another service's
    form,     \* the forms
    saves     \* updates by other clients so far

formVars == <<service, claimed, form, saves>>

Unnamed == [exists |-> FALSE]
Groups == {"name", "unit", "artifact", "health_check", "secret_ids", "env", "routes"}

(***************************************************************************)
(* A service of the store or of a message.                                 *)
(***************************************************************************)
(* A text of one line, with what a box of one line takes out of it: line   *)
(* breaks within, spaces around.                                           *)
Plainly(x) == [is |-> x, broken |-> FALSE]
Tidy(text) == [is |-> text.is, broken |-> FALSE]
IsText(text) == text = [is |-> text.is, broken |-> text.broken] /\ text.broken \in BOOLEAN

(* An entry of `after`: a text, as the units and commas in it.             *)
UnitText == [is : SUBSET {"a", "b", ","}, broken : BOOLEAN]

(* A variable or a directive: its value, and the assignments that are read *)
(* in "name=value" when every line counts as one, its parts trimmed.       *)
Assigned(n, text) == [text |-> text, lines |-> {[name |-> n, text |-> text]}]

RouteRow == [at : Place, h2c : BOOLEAN]

(* `restart` is every choice of the unit from a list (io_scheduling_class),*)
(* `exec` and `command` every text of one line, `source` the git source    *)
(* and the build host.                                                     *)
IsUnit(u) ==
    /\ u = [after |-> u.after, restart |-> u.restart, exec |-> u.exec, directives |-> u.directives]
    /\ u.after \in Seq(UnitText) /\ IsText(u.exec)
IsArtifact(a) ==
    /\ a = [kind |-> a.kind, source |-> a.source, command |-> a.command] /\ IsText(a.command)
IsService(s) ==
    /\ DOMAIN s = Groups
    /\ IsText(s.name) /\ IsUnit(s.unit) /\ IsArtifact(s.artifact)
    /\ s.secret_ids \subseteq Secret /\ s.routes \subseteq RouteRow

ASSUME FormAssumption ==
    Unusable \subseteq Place /\ MaxSaves \in Nat /\ \A s \in Spelled : IsService(s)

Offered == {"always", "on-failure", "no"}
Default == [kind |-> "systemd", tuned |-> FALSE]

(***************************************************************************)
(* Rendering and reading back.                                             *)
(***************************************************************************)
(* The units it is ordered after, joined by commas into one line. *)
Pieces(after) == UNION {after[i].is \cup {","} : i \in DOMAIN after}
AnyBroken(after) == \E i \in DOMAIN after : after[i].broken
Joined(after) ==
    IF Len(after) = 1 THEN after[1] ELSE [is |-> Pieces(after), broken |-> AnyBroken(after)]

(* A map in a box of many lines: what its entries put there. *)
directives_text(map) == UNION {map[n].lines : n \in DOMAIN map}

(* A choice that is not offered leaves the first one selected. *)
Selected(restart) == IF restart \in Offered THEN restart ELSE "always"
Chosen(artifact, sources) ==
    IF artifact.source \in sources THEN artifact ELSE [artifact EXCEPT !.source = "none"]

(* One box for all routes. *)
Boxed(routes) == \E r \in routes : r.h2c
Typed(routes) == [places |-> {r.at : r \in routes}, grpc |-> Boxed(routes)]

(* service_form: what the browser holds of a service, with the lists the   *)
(* page could read.                                                        *)
Rendered(s, sources, secrets) ==
    [name |-> s.name, after |-> Joined(s.unit.after), restart |-> Selected(s.unit.restart),
     exec |-> s.unit.exec, directives |-> directives_text(s.unit.directives),
     artifact |-> Chosen(s.artifact, sources), check |-> s.health_check,
     ticked |-> s.secret_ids \cap secrets, env |-> directives_text(s.env), routes |-> Typed(s.routes)]

Blank ==
    [name |-> Plainly("old"), after |-> Plainly({}), restart |-> "always", exec |-> Plainly("none"),
     directives |-> {},
     artifact |-> [kind |-> "upload", source |-> "none", command |-> Plainly("none")],
     check |-> [kind |-> "none", tuned |-> FALSE],
     ticked |-> {}, env |-> {}, routes |-> [places |-> {}, grpc |-> FALSE]]

(* One assignment a line.  Of several to one name the last counts: which   *)
(* line is last is a matter of how they sort, and of no property here.     *)
parse_labels(lines) ==
    [n \in {a.name : a \in lines} |-> Assigned(n, (CHOOSE a \in lines : a.name = n).text)]

(* One unit a line, and the box has one line. *)
ReadAfter(text) == IF text.is = {} THEN <<>> ELSE <<Tidy(text)>>

\* Variant of ReadArtifact: the inputs of a build are named for their labels.
ReadByLabel(artifact) == [artifact EXCEPT !.source = "none", !.command = Tidy(artifact.command)]

(* The inputs of the artifact have the names ServiceForm deserializes. *)
ReadArtifact(artifact) == [artifact EXCEPT !.command = Tidy(artifact.command)]

(* Those of the health check do not: check_kind, check_http_url and the    *)
(* others are posted, health_kind, health_http_url are read, and what is   *)
(* not there has its default.                                              *)
ReadHealth(check) == Default

(* to_service.  parse_routes gives every line the protocol of the box.     *)
ToService(f) ==
    [name |-> Tidy(f.name),
     unit |-> [after |-> ReadAfter(f.after), restart |-> f.restart, exec |-> Tidy(f.exec),
               directives |-> parse_labels(f.directives)],
     artifact |-> ReadArtifact(f.artifact), health_check |-> ReadHealth(f.check),
     secret_ids |-> f.ticked, env |-> parse_labels(f.env),
     routes |-> {[at |-> p, h2c |-> f.routes.grpc] : p \in f.routes.places}]

(* External: axum's Form reads no repeated key into a list; with a box of  *)
(* a secret ticked the post is answered 422.                               *)
Extracted(f) == f.ticked = {}

(***************************************************************************)
(* The store.                                                              *)
(***************************************************************************)
(* update_service: the groups the mask names, in one transaction; the unit, *)
(* artifact and health check wholesale.  Routes are not among them.        *)
Updated(s, message, mask) == [g \in Groups |-> IF g \in mask \ {"routes"} THEN message[g] ELSE s[g]]

(* replace_routes: every one valid, and none another's. *)
Accepted(routes) == \A r \in routes : r.at \notin Unusable \cup claimed

FormInit ==
    /\ service \in Spelled \cup {Unnamed}
    /\ claimed \in SUBSET (Place \ Unusable)
    /\ service # Unnamed => \A r \in service.routes : r.at \notin claimed
    /\ form = [e \in Editor |-> [pc |-> "unopened"]]
    /\ saves = 0

(***************************************************************************)
(* The dashboard.                                                          *)
(***************************************************************************)
Opens(e, base, held) ==
    form' = [form EXCEPT ![e] = [pc |-> "open", base |-> base, held |-> held, touched |-> {}]]

(* The service must be read; a list that cannot be read is an empty one,   *)
(* and only the first page of one is.                                      *)
ServiceEdit(e) ==
    /\ form[e].pc = "unopened" /\ service # Unnamed
    /\ \E sources \in SUBSET {"app"}, secrets \in SUBSET Secret :
          Opens(e, service, Rendered(service, sources, secrets))
    /\ UNCHANGED <<service, claimed, saves>>

ServiceNew(e) ==
    /\ form[e].pc = "unopened" /\ service = Unnamed
    /\ Opens(e, Unnamed, Blank)
    /\ UNCHANGED <<service, claimed, saves>>

(* External: what the operator may make of a form, by group. *)
Filled(f) ==
    [name |-> {[f EXCEPT !.name = Plainly("new")]},
     unit |-> {[f EXCEPT !.after = Plainly({"a"}), !.restart = "no"]},
     artifact |-> {[f EXCEPT !.artifact = [kind |-> "git", source |-> "app", command |-> Plainly("new")]]},
     health_check |-> {[f EXCEPT !.check = [kind |-> "http", tuned |-> TRUE]]},
     secret_ids |-> {[f EXCEPT !.ticked = t] : t \in SUBSET Secret},
     env |-> {[f EXCEPT !.env = {[name |-> "LOG", text |-> "new"]}]},
     routes |-> {[f EXCEPT !.routes = [places |-> ps, grpc |-> b]] :
                    ps \in SUBSET Place, b \in BOOLEAN}]

Fill(e) ==
    /\ form[e].pc = "open" /\ form[e].touched = {}
    /\ \E g \in Groups : \E held \in Filled(form[e].held)[g] :
          form' = [form EXCEPT ![e].held = held, ![e].touched = {g}]
    /\ UNCHANGED <<service, claimed, saves>>

(* The operator goes elsewhere, or the save is refused: the form has no    *)
(* box that would let it change a latency-critical target's service.       *)
Leave(e) ==
    /\ form[e].pc \in {"open", "routes"}
    /\ form' = [form EXCEPT ![e] = [pc |-> "left"]]
    /\ UNCHANGED <<service, claimed, saves>>

(* The message is applied whole.                                           *)
ServiceUpdate(e) ==
    /\ form[e].pc = "open" /\ form[e].base # Unnamed
    /\ Extracted(form[e].held) /\ service # Unnamed
    /\ service' = Updated(service, ToService(form[e].held), Groups)
    /\ form' = [form EXCEPT ![e].pc = "routes"]
    /\ UNCHANGED <<claimed, saves>>

ServiceCreate(e) ==
    /\ form[e].pc = "open" /\ form[e].base = Unnamed
    /\ Extracted(form[e].held) /\ service = Unnamed
    /\ service' = [ToService(form[e].held) EXCEPT !.routes = {}]
    /\ form' = [form EXCEPT ![e].pc = "routes"]
    /\ UNCHANGED <<claimed, saves>>

(* Refused routes leave an update half done, and take a new service back.  *)
ReplaceRoutes(e) ==
    /\ form[e].pc = "routes" /\ service # Unnamed
    /\ LET routes == ToService(form[e].held).routes IN
       IF Accepted(routes)
       THEN service' = [service EXCEPT !.routes = routes] /\ form' = [form EXCEPT ![e] = [pc |-> "saved"]]
       ELSE /\ service' = IF form[e].base = Unnamed THEN Unnamed ELSE service
            /\ form' = [form EXCEPT ![e] = [pc |-> "refused"]]
    /\ UNCHANGED <<claimed, saves>>

(***************************************************************************)
(* Other clients.                                                          *)
(***************************************************************************)
(* `nudo services domain`: the routes alone.  A route that is not valid is *)
(* refused before it is sent.                                              *)
Domain ==
    /\ service # Unnamed /\ saves < MaxSaves
    /\ \E places \in SUBSET (Place \ Unusable), grpc \in BOOLEAN :
          LET routes == {[at |-> p, h2c |-> grpc] : p \in places} IN
          Accepted(routes) /\ service' = [service EXCEPT !.routes = routes]
    /\ saves' = saves + 1
    /\ UNCHANGED <<claimed, form>>

(* An API client, with the groups it names. *)
Update ==
    /\ service # Unnamed /\ saves < MaxSaves
    /\ \E message \in Spelled, g \in Groups \ {"routes"} :
          service' = Updated(service, message, {g})
    /\ saves' = saves + 1
    /\ UNCHANGED <<claimed, form>>

FormNext ==
    \/ \E e \in Editor : ServiceEdit(e) \/ ServiceNew(e) \/ Fill(e) \/ Leave(e)
                         \/ ServiceUpdate(e) \/ ServiceCreate(e) \/ ReplaceRoutes(e)
    \/ Domain \/ Update

FormSpec == FormInit /\ [][FormNext]_formVars

(***************************************************************************)
(* Properties.                                                             *)
(***************************************************************************)
(* A map of which every entry reads as itself: no line breaks in a value,  *)
(* no spaces around one, no "=" in a name.                                 *)
WellWritten(map) == map = [n \in DOMAIN map |-> Assigned(n, map[n].text)]

(* A unit a form can hold. *)
FormHolds(u) ==
    /\ u.after = <<>> \/ (Len(u.after) = 1 /\ u.after[1].is # {} /\ ~u.after[1].broken)
    /\ u.restart \in Offered /\ ~u.exec.broken /\ WellWritten(u.directives)

(* What does not survive being shown and sent back. *)
Lossy(s, f) ==
    {"health_check"}
    \cup (IF s.name.broken THEN {"name"} ELSE {})
    \cup (IF FormHolds(s.unit) THEN {} ELSE {"unit"})
    \cup (IF f.artifact.source = s.artifact.source /\ ~s.artifact.command.broken THEN {} ELSE {"artifact"})
    \cup (IF WellWritten(s.env) THEN {} ELSE {"env"})
    \cup (IF s.secret_ids = f.ticked THEN {} ELSE {"secret_ids"})
    \cup (IF \A q, r \in s.routes : q.h2c = r.h2c THEN {} ELSE {"routes"})

(* Whoever saves a form gives every group it left alone the value it had   *)
(* when the form was opened, whatever was saved in between, except for     *)
(* what the form could not hold: a save undoes other clients' changes, but *)
(* makes up none of its own ("every git field silently dropped on submit", *)
(* render/tests/resources.rs, is the bug this would show).                 *)
Kept(e, group) ==
    form[e].base # Unnamed /\ group \notin form[e].touched \cup Lossy(form[e].base, form[e].held)
        => service'[group] = form[e].base[group]

SavesMakeNothingUp ==
    [][\A e \in Editor :
          /\ form[e].pc = "open" /\ form'[e].pc = "routes" =>
                \A g \in Groups \ {"routes"} : Kept(e, g)
          /\ form[e].pc = "routes" /\ form'[e].pc = "saved" => Kept(e, "routes")]_formVars

(* "The form carries every field, so the whole message applies"            *)
(* (routes/services.rs): saving a form leaves the health check, which      *)
(* "decides whether a deploy stands", as it was or as it was filled in.    *)
HealthCheckIsCarried ==
    [][\A e \in Editor :
          form[e].pc = "open" /\ form'[e].pc = "routes" /\ form[e].base # Unnamed
             => service'.health_check = form[e].held.check]_formVars

=============================================================================
