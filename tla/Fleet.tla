------------------------------- MODULE Fleet -------------------------------
(***************************************************************************)
(* The Targets and BuildHosts services (server/src/api/targets.rs and      *)
(* api/build_hosts.rs) over the rows of HostKeys: registering, changing    *)
(* and deleting a host, accepting or forgetting its key, and the instance- *)
(* wide default build host.                                                *)
(*                                                                         *)
(* Each handler reads the row, checks the request and asks the latency-    *)
(* critical guardrail about the row it read; only then does it write, each *)
(* statement on its own.  Names, users, labels and the pages of a list are *)
(* left out.                                                               *)
(***************************************************************************)
EXTENDS HostKeys

CONSTANTS
    Request,   \* requests under way
    BuildHost, \* the hosts that are build hosts; the others are targets
    NoDefault  \* the empty default, or `local`: build on the control plane

ASSUME FleetAssumption == BuildHost \subseteq Host /\ NoDefault \notin Host

VARIABLES
    request,  \* the handlers between their checks and their last write
    standing, \* build_defaults: the default build host
    raced,    \* history: the build hosts deleted between the check and the
              \* write of a request that makes them the default
    broken    \* history: the default build hosts whose deletion broke off
              \* before they were taken out of it

hostsVars == <<rows, machine, conn>>
fleetVars == <<hostsVars, request, standing, raced, broken>>

(* A database as earlier use has left it. *)
RowIn == [state : {"row"}, address : Address, critical : BOOLEAN,
          key : {NoKey, Mangled} \cup Key, pending : {NoKey}, status : {"unknown"}]

FleetInit ==
    /\ rows \in [Host -> {Unborn} \cup RowIn]
    /\ machine \in [Address -> Key]
    /\ conn = [c \in Conn |-> Idle]
    /\ request = [r \in Request |-> Idle]
    /\ standing = NoDefault
    /\ raced = {} /\ broken = {}

Ask == [allow : BOOLEAN, dry_run : BOOLEAN]

(* authorize_guarded: a latency-critical host takes an explicit opt-in.    *)
(* The audit entry is written either way; failing to is only logged.       *)
Guarded(critical, ask) == critical => ask.allow

(* The request passes its checks: a dry run is answered, any other goes on *)
(* to its first write.                                                     *)
Admit(r, ask, handler) ==
    /\ request[r].pc = "idle"
    /\ ~ask.dry_run
    /\ request' = [request EXCEPT ![r] = handler]
    /\ UNCHANGED <<hostsVars, standing, raced, broken>>

At(r, pc) == request[r].pc = pc

Answer(r) == request' = [request EXCEPT ![r] = Idle]

WriteRows(r) == Answer(r) /\ UNCHANGED <<machine, conn, standing, raced, broken>>

(***************************************************************************)
(* Registering: the guardrail is asked about the host that is to be.       *)
(***************************************************************************)
Create(r) ==
    \E h \in Host, ask \in Ask, address \in Address, critical \in BOOLEAN :
        /\ rows[h] = Unborn
        /\ \A q \in Request : At(q, "create") => request[q].host # h
        /\ Guarded(critical, ask)
        /\ Admit(r, ask, [pc |-> "create", host |-> h, address |-> address, critical |-> critical])

(* The insert fails when the name is taken. *)
StoreCreate(r) ==
    /\ At(r, "create")
    /\ LET q == request[r] IN
       rows' \in {rows, [rows EXCEPT ![q.host] = NewRow(q.address, q.critical)]}
    /\ WriteRows(r)

(***************************************************************************)
(* Changing: one UPDATE of the masked fields.  Neither the pinned key nor  *)
(* the status is touched when the address changes.                         *)
(***************************************************************************)
Update(r) ==
    \E h \in Host, ask \in Ask, address \in Address, critical \in BOOLEAN :
        /\ Lives(h)
        /\ Guarded(rows[h].critical, ask)
        /\ Admit(r, ask, [pc |-> "update", host |-> h, address |-> address, critical |-> critical])

(* The UPDATE fails when the name it gives is taken. *)
StoreUpdate(r) ==
    /\ At(r, "update")
    /\ LET q == request[r]
           old == rows[q.host]
       IN \/ /\ Lives(q.host)
             /\ \E address \in {q.address, old.address}, critical \in {q.critical, old.critical} :
                   Updated(q.host, [old EXCEPT !.address = address, !.critical = critical])
          \/ UNCHANGED rows
    /\ WriteRows(r)

(***************************************************************************)
(* Accepting: the operator names the fingerprint that was reviewed, it     *)
(* must be the pending one, and the key that was read with it is pinned.   *)
(* A target's handler also asks that the fingerprint is not empty, which a *)
(* pending one never is.                                                   *)
(***************************************************************************)
AcceptHostKey(r) ==
    \E h \in Host, ask \in Ask, fingerprint \in Key :
        /\ Lives(h)
        /\ rows[h].pending # NoKey
        /\ fingerprint = rows[h].pending
        /\ Guarded(rows[h].critical, ask)
        /\ Admit(r, ask, [pc |-> "accept", host |-> h, reviewed |-> fingerprint])

\* Variant of StoreAccept: whatever is pending when the write lands.
StoreAcceptPending(r) ==
    /\ At(r, "accept")
    /\ LET h == request[r].host IN
       IF Lives(h) /\ rows[h].pending # NoKey THEN PinHostKey(h, rows[h].pending) ELSE UNCHANGED rows
    /\ WriteRows(r)

StoreAccept(r) ==
    /\ At(r, "accept")
    /\ PinHostKey(request[r].host, request[r].reviewed)
    /\ WriteRows(r)

(* Forgetting reopens the first-use window. *)
Forget(r) ==
    \E h \in Host, ask \in Ask :
        /\ Lives(h)
        /\ Guarded(rows[h].critical, ask)
        /\ Admit(r, ask, [pc |-> "forget", host |-> h])

StoreForget(r) ==
    /\ At(r, "forget")
    /\ ForgetHostKey(request[r].host)
    /\ WriteRows(r)

(***************************************************************************)
(* Deleting.  A build host that is the default is taken out of it, by two  *)
(* more statements of which nobody is told that they failed; services that *)
(* name it keep naming it.                                                 *)
(***************************************************************************)
Delete(r) ==
    \E h \in Host, ask \in Ask :
        /\ Lives(h)
        /\ Guarded(rows[h].critical, ask)
        /\ Admit(r, ask, [pc |-> "delete", host |-> h])

(* Requests that have checked that h exists and will make it the default. *)
Checked(h) == {q \in Request : At(q, "set") /\ request[q].host = h}

StoreDelete(r) ==
    /\ At(r, "delete")
    /\ LET h == request[r].host
           deleted == Lives(h)
       IN /\ rows' = [rows EXCEPT ![h] = Gone]
          /\ raced' = IF deleted /\ Checked(h) # {} THEN raced \cup {h} ELSE raced
          /\ request' = [request EXCEPT ![r] =
                           IF deleted /\ h \in BuildHost THEN [@ EXCEPT !.pc = "default"] ELSE Idle]
    /\ UNCHANGED <<machine, conn, standing, broken>>

(* The handler goes without having taken the host out. *)
LeaveDefault(r) ==
    /\ Answer(r)
    /\ broken' = broken \cup ({request[r].host} \cap {standing})
    /\ UNCHANGED <<hostsVars, standing, raced>>

(* Variant of IsDefault: the default is not looked at. *)
NeverDefault(r) ==
    /\ At(r, "default")
    /\ Answer(r)
    /\ UNCHANGED <<hostsVars, standing, raced, broken>>

(* A default that cannot be read counts as none. *)
IsDefault(r) ==
    /\ At(r, "default")
    /\ \/ /\ request' = [request EXCEPT ![r] =
                           IF standing = @.host THEN [@ EXCEPT !.pc = "clear"] ELSE Idle]
          /\ UNCHANGED <<hostsVars, standing, raced, broken>>
       \/ LeaveDefault(r)

(* A failing write is a warning in the log. *)
ClearDefault(r) ==
    /\ At(r, "clear")
    /\ \/ standing' = NoDefault /\ Answer(r) /\ UNCHANGED <<hostsVars, raced, broken>>
       \/ LeaveDefault(r)

(***************************************************************************)
(* The default build host: whether it exists is read, then it is written.  *)
(* No host is read for the guardrail, so none needs an opt-in.             *)
(***************************************************************************)
SetDefaults(r) ==
    \E d \in BuildHost \cup {NoDefault}, ask \in Ask :
        Admit(r, ask, [pc |-> "check", host |-> d])

CheckDefault(r) ==
    /\ At(r, "check")
    /\ request' = [request EXCEPT ![r] =
                     IF @.host = NoDefault \/ Lives(@.host) THEN [@ EXCEPT !.pc = "set"] ELSE Idle]
    /\ UNCHANGED <<hostsVars, standing, raced, broken>>

StoreDefault(r) ==
    /\ At(r, "set")
    /\ standing' = request[r].host
    /\ Answer(r)
    /\ UNCHANGED <<hostsVars, raced, broken>>

(* A caller that goes away takes the handler with it, wherever it is, and  *)
(* a statement that fails ends it: the rest is not written.                *)
BreakOff(r) ==
    IF request[r].pc \in {"default", "clear"} THEN LeaveDefault(r)
    ELSE ~At(r, "idle") /\ Answer(r) /\ UNCHANGED <<hostsVars, standing, raced, broken>>

Write(r) ==
    \/ StoreCreate(r) \/ StoreUpdate(r) \/ StoreAccept(r) \/ StoreForget(r)
    \/ StoreDelete(r) \/ IsDefault(r) \/ ClearDefault(r)
    \/ CheckDefault(r) \/ StoreDefault(r) \/ BreakOff(r)

Handle(r) ==
    \/ Create(r) \/ Update(r) \/ AcceptHostKey(r) \/ Forget(r) \/ Delete(r) \/ SetDefaults(r)

FleetNext ==
    \/ \E c \in Conn : Connect(c) /\ UNCHANGED <<request, standing, raced, broken>>
    \/ Rebuild /\ UNCHANGED <<request, standing, raced, broken>>
    \/ \E r \in Request : Handle(r) \/ Write(r)

FleetSpec == FleetInit /\ [][FleetNext]_fleetVars

(***************************************************************************)
(* Properties.                                                             *)
(***************************************************************************)
(* A host's pinned key changes to another only because the operator        *)
(* accepted that very key, or because a connection that was started while  *)
(* nothing was pinned was presented it: never because of what a host shows *)
(* to a connection that expects a key, nor because another key took the    *)
(* place of the reviewed one before the acceptance was written.            *)
PinMovesByReviewOrFirstUse ==
    [][\A h \in Host :
          LET old == rows[h]
              new == rows'[h]
          IN old.state = "row" /\ new.state = "row" /\ new.key \notin {NoKey, old.key} =>
                \/ \E r \in Request :
                      /\ At(r, "accept") /\ request[r].host = h
                      /\ request[r].reviewed = new.key
                \/ \E c \in Conn :
                      /\ conn[c].pc = "recording" /\ conn[c].host = h
                      /\ conn[c].expected = NoKey /\ conn[c].presented = new.key]_fleetVars

(* The default build host exists, except while the request that deletes it *)
(* is about to take it out, when it was deleted between the check and the  *)
(* write of a request that made it the default, or when the request that   *)
(* deleted it broke off, or failed, before it had taken it out.            *)
DefaultDanglesByRaceOrFault ==
    standing \in Host /\ ~Lives(standing) =>
        \/ standing \in raced \cup broken
        \/ \E r \in Request : request[r].pc \in {"default", "clear"} /\ request[r].host = standing

=============================================================================
