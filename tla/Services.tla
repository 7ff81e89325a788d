------------------------------ MODULE Services ------------------------------
(***************************************************************************)
(* The services of one target: their rows, the routes that claim ports on  *)
(* it, and the systemd units the rows stand for.  Handlers of              *)
(* server/src/api/services.rs over server/src/store/services.rs, against   *)
(* each other and against deploys, which work on the row they began with.  *)
(*                                                                         *)
(* The database admits one writer: a transaction that has written keeps    *)
(* every other writer out until it commits.  The columns no unit, port or  *)
(* name depends on, the guardrail and dry runs are left out; what a change *)
(* of routes does to the proxy is Ingress's.                               *)
(***************************************************************************)
EXTENDS Naturals, FiniteSets

CONSTANTS
    Service,    \* ids of services, never used twice
    Unit,       \* names of units
    Port,       \* ports a route can claim
    Handler,    \* handlers and deploys under way
    NoRow, NoOne

ASSUME ServicesAssumption ==
    NoOne \notin Handler /\ NoRow \notin [unit : Unit, ports : SUBSET Port]

VARIABLES
    services,   \* the services table: [unit, ports], or NoRow
    born,       \* the ids that have been given out
    writer,     \* who is in a write transaction, or NoOne
    host,       \* external: the unit files on the target, and the units that run
    handler,    \* the handlers under way
    reason      \* history: why a unit may run that no row names

servicesVars == <<services, born, writer, host, handler, reason>>

Free == [pc |-> "free"]

ServicesInit ==
    /\ services = [s \in Service |-> NoRow]
    /\ born = {}
    /\ writer = NoOne
    /\ host = [files |-> {}, runs |-> {}]
    /\ handler = [h \in Handler |-> Free]
    /\ reason = {}

HasRow(s) == services[s] # NoRow
Named(unit) == {s \in Service : HasRow(s) /\ services[s].unit = unit}
MayWrite(h) == writer \in {NoOne, h}

AtStep(h, pc) == handler[h].pc = pc
GoTo(h, pc) == handler' = [handler EXCEPT ![h].pc = pc]
Finish(h) == handler' = [handler EXCEPT ![h] = Free]
Busy(s, h) == \E g \in Handler \ {h} : ~AtStep(g, "free") /\ handler[g].service = s

Race(h) == IF Busy(handler[h].service, h) THEN {"raced"} ELSE {}

(* What a handler begins with: the row it read, and what it was asked.     *)
Working(pc, s, unit, ask, new) ==
    [pc |-> pc, service |-> s, unit |-> unit, ask |-> ask, new |-> new]

Receive(h, pc, s, ask) ==
    /\ AtStep(h, "free") /\ HasRow(s)
    /\ handler' = [handler EXCEPT ![h] = Working(pc, s, services[s].unit, ask, FALSE)]
    /\ UNCHANGED <<services, born, writer, host, reason>>

(***************************************************************************)
(* Rows.                                                                   *)
(***************************************************************************)
(* create_service: the row, then its routes.  Names of services differ, but *)
(* unit_name may say of a unit what it likes.                              *)
Insert(h) ==
    \E s \in Service \ born, unit \in Unit, ports \in SUBSET Port :
        /\ AtStep(h, "free") /\ MayWrite(h)
        /\ services' = [services EXCEPT ![s] = [unit |-> unit, ports |-> {}]]
        /\ born' = born \cup {s}
        /\ handler' = [handler EXCEPT ![h] =
                         IF ports = {} THEN Free
                         ELSE Working("begin", s, unit, ports, TRUE)]
        /\ UNCHANGED <<writer, host, reason>>

(* update_service under a mask: a new name for the unit, or new routes.    *)
(* Nothing is done about what there is under the old name.                 *)
Rename(h) ==
    \E s \in Service, unit \in Unit :
        /\ AtStep(h, "free") /\ MayWrite(h)
        /\ HasRow(s)
        /\ services' = [services EXCEPT ![s].unit = unit]
        /\ reason' = reason \cup (IF services[s].unit \in host.files \cup host.runs \/ Busy(s, h)
                                  THEN {"renamed"} ELSE {})
        /\ UNCHANGED <<born, writer, host, handler>>

UpdateRoutes(h) == \E s \in Service, ports \in SUBSET Port : Receive(h, "begin", s, ports)

\* Variant of BeginReplace: the ports are looked up before the transaction begins.
BeginUnlocked(h) == AtStep(h, "begin") /\ GoTo(h, "check") /\ UNCHANGED <<services, born, writer, host, reason>>

(* replace_routes: its first statement deletes the service's own routes,   *)
(* and so makes it the writer.                                             *)
BeginReplace(h) ==
    /\ AtStep(h, "begin") /\ writer = NoOne
    /\ writer' = h
    /\ GoTo(h, "check")
    /\ UNCHANGED <<services, born, host, reason>>

Claimed(s) == UNION {services[o].ports : o \in {o \in Service \ {s} : HasRow(o)}}

(* A port another service claims, or a service that is gone by now, and    *)
(* all is rolled back; a creation takes its row away as well.              *)
CheckPorts(h) ==
    /\ AtStep(h, "check")
    /\ IF HasRow(handler[h].service) /\ handler[h].ask \cap Claimed(handler[h].service) = {}
       THEN GoTo(h, "commit") /\ UNCHANGED writer
       ELSE /\ writer' = IF writer = h THEN NoOne ELSE writer
            /\ IF handler[h].new THEN GoTo(h, "undo") ELSE Finish(h)
    /\ UNCHANGED <<services, born, host, reason>>

CommitRoutes(h) ==
    /\ AtStep(h, "commit") /\ MayWrite(h)
    /\ services' = IF HasRow(handler[h].service)
                   THEN [services EXCEPT ![handler[h].service].ports = handler[h].ask]
                   ELSE services
    /\ writer' = NoOne
    /\ Finish(h)
    /\ UNCHANGED <<born, host, reason>>

RemoveRow(h) ==
    /\ MayWrite(h)
    /\ services' = [services EXCEPT ![handler[h].service] = NoRow]
    /\ reason' = reason \cup Race(h)

UndoCreate(h) ==
    /\ AtStep(h, "undo")
    /\ RemoveRow(h)
    /\ Finish(h)
    /\ UNCHANGED <<born, writer, host>>

(***************************************************************************)
(* ServicesApi.Delete: the host is touched first.                          *)
(***************************************************************************)
DeleteService(h) == \E s \in Service : Receive(h, "connect", s, {})

(* Without stop_and_disable_unit the host is left as it is. *)
DeleteOnly(h) ==
    /\ MayWrite(h)
    /\ \E s \in Service :
          /\ AtStep(h, "free") /\ HasRow(s)
          /\ services' = [services EXCEPT ![s] = NoRow]
    /\ reason' = reason \cup {"left"}
    /\ UNCHANGED <<born, writer, host, handler>>

\* Variant of ConnectToDelete: an unreachable host does not keep the row.
ConnectOrGoOn(h) ==
    /\ AtStep(h, "connect")
    /\ GoTo(h, "disable") \/ GoTo(h, "row")
    /\ UNCHANGED <<services, born, writer, host, reason>>

ConnectToDelete(h) ==
    /\ AtStep(h, "connect")
    /\ GoTo(h, "disable") \/ Finish(h)
    /\ UNCHANGED <<services, born, writer, host, reason>>

(* What comes of a command is not looked at, nor whether it could be run.  *)
Disable(h) ==
    /\ AtStep(h, "disable")
    /\ \/ host' = [host EXCEPT !.runs = @ \ {handler[h].unit}] /\ UNCHANGED reason
       \/ reason' = reason \cup {"lost"} /\ UNCHANGED host
    /\ GoTo(h, "unlink")
    /\ UNCHANGED <<services, born, writer>>

(* The release directory may be asked for as well; where it cannot be      *)
(* removed the row stays.                                                  *)
Unlink(h) ==
    /\ AtStep(h, "unlink")
    /\ \/ host' = [host EXCEPT !.files = @ \ {handler[h].unit}] /\ UNCHANGED reason
       \/ reason' = reason \cup {"lost"} /\ UNCHANGED host
    /\ GoTo(h, "row") \/ Finish(h)
    /\ UNCHANGED <<services, born, writer>>

DeleteRow(h) ==
    /\ AtStep(h, "row")
    /\ RemoveRow(h)
    /\ Finish(h)
    /\ UNCHANGED <<born, writer, host>>

(***************************************************************************)
(* Units.                                                                  *)
(***************************************************************************)
(* A deploy needs the row once more, when it records its release, before   *)
(* it writes the unit and restarts it.                                     *)
DeployService(h) == \E s \in Service : Receive(h, "record", s, {})

RecordRelease(h) ==
    /\ AtStep(h, "record")
    /\ IF HasRow(handler[h].service) THEN GoTo(h, "unit") ELSE Finish(h)
    /\ UNCHANGED <<services, born, writer, host, reason>>

WriteUnit(h) ==
    /\ AtStep(h, "unit")
    /\ host' = [host EXCEPT !.files = @ \cup {handler[h].unit}]
    /\ GoTo(h, "start")
    /\ UNCHANGED <<services, born, writer, reason>>

(* units::run_action and the end of a deploy; a unit without a file does   *)
(* not start.                                                              *)
StartUnit(h) ==
    /\ AtStep(h, "start")
    /\ host' = IF handler[h].unit \in host.files
               THEN [host EXCEPT !.runs = @ \cup {handler[h].unit}] ELSE host
    /\ reason' = reason \cup Race(h)
    /\ Finish(h)
    /\ UNCHANGED <<services, born, writer>>

StopUnit(h) ==
    /\ AtStep(h, "stop")
    /\ host' = [host EXCEPT !.runs = @ \ {handler[h].unit}]
    /\ Finish(h)
    /\ UNCHANGED <<services, born, writer, reason>>

UnitAction(h) == \E s \in Service, verb \in {"start", "stop"} : Receive(h, verb, s, {})

(* The server dies, and its handlers with it; a transaction is rolled back. *)
Die ==
    /\ handler' = [h \in Handler |-> Free]
    /\ writer' = NoOne
    /\ UNCHANGED <<services, born, host, reason>>

ServicesNext ==
    \/ \E h \in Handler :
          \/ Insert(h) \/ Rename(h) \/ UpdateRoutes(h) \/ BeginReplace(h) \/ CheckPorts(h)
          \/ CommitRoutes(h) \/ UndoCreate(h)
          \/ DeleteService(h) \/ DeleteOnly(h) \/ ConnectToDelete(h) \/ Disable(h) \/ Unlink(h) \/ DeleteRow(h)
          \/ DeployService(h) \/ RecordRelease(h) \/ WriteUnit(h) \/ StartUnit(h) \/ StopUnit(h) \/ UnitAction(h)
    \/ Die

ServicesSpec == ServicesInit /\ [][ServicesNext]_servicesVars

(***************************************************************************)
(* Properties.                                                             *)
(***************************************************************************)
(* What runs on the host has a row to be found by: unless it was to be left *)
(* there, its name was changed, a command of a delete was lost after it    *)
(* had connected, or its row went or it started while another handler was   *)
(* at the service.                                                         *)
UnitsHaveRows == reason = {} => \A unit \in host.runs : Named(unit) # {}

(* Two services never claim the same port of a target, which no index of   *)
(* the database says.                                                      *)
PortsAreNotShared ==
    \A s, o \in {s \in Service : HasRow(s)} : s # o => services[s].ports \cap services[o].ports = {}

=============================================================================
