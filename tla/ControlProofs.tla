--------------------------- MODULE ControlProofs ---------------------------
(***************************************************************************)
(* What MCControl explores with a few actors, for any number of them: the  *)
(* rows operators change while connections, checks and deploys go on.  One *)
(* section for each component; they share no state.                        *)
(***************************************************************************)
EXTENDS Fleet, Ingress, Services, Secrets, Sources, ReleaseTable, SubsequenceProofs, TLAPS

(***************************************************************************)
(* A host's pinned key moves only by a review or a first use, for any      *)
(* hosts, keys, connections and requests.  The property is about one step, *)
(* so all it needs of the past is that a connection whose verdict is       *)
(* "pinned" was started while nothing was pinned; nothing is assumed of    *)
(* what the requests under way hold.                                       *)
(***************************************************************************)
Columns == {"state", "address", "critical", "key", "pending", "status"}

IsHostRow(x) == DOMAIN x = Columns /\ x = [column \in DOMAIN x |-> x[column]]

FirstUse(x) == x.pc = "recording" /\ x.verdict = "pinned" => x.expected = NoKey

(* The rows are rows, and a pinned verdict was given to a connection that  *)
(* expected nothing.                                                       *)
FleetInv ==
    /\ rows = [h \in Host |-> rows[h]]
    /\ \A h \in Host : Lives(h) => IsHostRow(rows[h])
    /\ conn = [c \in Conn |-> conn[c]]
    /\ \A c \in Conn : FirstUse(conn[c])

(* One UPDATE of a host's row leaves rows rows. *)
LEMMA UpdatedKeepsRows ==
    ASSUME FleetInv, NEW h, NEW x, IsHostRow(x), Updated(h, x)
    PROVE  /\ rows' = [g \in Host |-> rows'[g]]
           /\ \A g \in Host : (rows'[g].state = "row") => IsHostRow(rows'[g])
BY DEF FleetInv, Updated, Lives

(* What a request asks is answered before its handler touches a row. *)
LEMMA HandlersOnlyAdmit ==
    ASSUME NEW r \in Request, Handle(r)
    PROVE  UNCHANGED hostsVars
BY DEF Handle, Create, Update, AcceptHostKey, Forget, Delete, SetDefaults, Admit

(* No write of a request touches a connection. *)
LEMMA WritesKeepConnections ==
    ASSUME NEW r \in Request, Write(r)
    PROVE  UNCHANGED conn
BY DEF Write, StoreCreate, StoreUpdate, StoreAccept, StoreForget, StoreDelete, IsDefault,
       ClearDefault, CheckDefault, StoreDefault, BreakOff, LeaveDefault, WriteRows, hostsVars

LEMMA FleetInit_Inv == FleetInit => FleetInv
<1>. SUFFICES ASSUME FleetInit PROVE FleetInv
  OBVIOUS
<1>1. \A h \in Host : Lives(h) => IsHostRow(rows[h])
  <2>. SUFFICES ASSUME NEW h \in Host, Lives(h) PROVE IsHostRow(rows[h])
    OBVIOUS
  <2>1. rows[h] \in RowIn
    BY DEF FleetInit, Lives, Unborn
  <2>. QED  BY <2>1 DEF RowIn, IsHostRow, Columns
<1>2. rows = [h \in Host |-> rows[h]]
  BY DEF FleetInit
<1>3. conn = [c \in Conn |-> conn[c]] /\ \A c \in Conn : FirstUse(conn[c])
  BY DEF FleetInit, Idle, FirstUse
<1>. QED  BY <1>1, <1>2, <1>3 DEF FleetInv

(* Rows stay rows, whatever a step does. *)
LEMMA NextRows ==
    ASSUME FleetInv, FleetNext
    PROVE  /\ rows' = [g \in Host |-> rows'[g]]
           /\ \A g \in Host : (rows'[g].state = "row") => IsHostRow(rows'[g])
<1>. DEFINE Kept == /\ rows' = [g \in Host |-> rows'[g]]
                    /\ \A g \in Host : (rows'[g].state = "row") => IsHostRow(rows'[g])
<1>a. ASSUME UNCHANGED rows PROVE Kept
  BY <1>a DEF FleetInv, Lives
<1>b. ASSUME NEW h, Lives(h), h \in Host, NEW k, NEW pending, NEW status,
             \/ Updated(h, [rows[h] EXCEPT !.key = k, !.pending = pending])
             \/ Updated(h, [rows[h] EXCEPT !.pending = pending])
             \/ Updated(h, [rows[h] EXCEPT !.status = status])
      PROVE  Kept
  <2>1. IsHostRow(rows[h])
    BY <1>b DEF FleetInv
  <2>2. /\ IsHostRow([rows[h] EXCEPT !.key = k, !.pending = pending])
        /\ IsHostRow([rows[h] EXCEPT !.pending = pending])
        /\ IsHostRow([rows[h] EXCEPT !.status = status])
    BY <2>1 DEF IsHostRow, Columns
  <2>. QED  BY <1>b, <2>2, UpdatedKeepsRows
<1>c. ASSUME NEW h, ~(Lives(h) /\ h \in Host), NEW x, Updated(h, x) PROVE Kept
  <2>1. rows' = rows
    BY <1>c DEF Updated, FleetInv
  <2>. QED  BY <2>1, <1>a
<1>1. ASSUME NEW c \in Conn, Connect(c) PROVE Kept
  <2>1. CASE Prepare(c) \/ Handshake(c)
    BY <2>1, <1>a DEF Prepare, Handshake
  <2>2. CASE Record(c)
    BY <2>2, <1>a, <1>b, <1>c DEF Record, PinHostKey, ClearPendingHostKey, RecordPendingHostKey
  <2>3. CASE Probe(c)
    BY <2>3, <1>a, <1>b, <1>c DEF Probe, SetHostStatus
  <2>. QED  BY <1>1, <2>1, <2>2, <2>3 DEF Connect
<1>2. CASE Rebuild
  BY <1>2, <1>a DEF Rebuild
<1>3. ASSUME NEW r \in Request, Handle(r) PROVE Kept
  BY <1>3, <1>a, HandlersOnlyAdmit DEF hostsVars
<1>4. ASSUME NEW r \in Request, Write(r) PROVE Kept
  <2>1. CASE StoreCreate(r)
    <3>1. IsHostRow(NewRow(request[r].address, request[r].critical))
      BY DEF IsHostRow, NewRow, Columns
    <3>. QED  BY <2>1, <3>1, <1>a DEF StoreCreate, FleetInv, Lives
  <2>2. CASE StoreUpdate(r)
    <3>1. CASE (Lives(request[r].host) /\ UNCHANGED rows) \/ ~Lives(request[r].host)
      BY <2>2, <3>1, <1>a DEF StoreUpdate
    <3>2. CASE Lives(request[r].host) /\ request[r].host \notin Host
      BY <2>2, <3>2, <1>a, <1>c DEF StoreUpdate
    <3>3. CASE Lives(request[r].host) /\ request[r].host \in Host /\ ~UNCHANGED rows
      <4>. DEFINE h == request[r].host
      <4>1. PICK a, b : Updated(h, [rows[h] EXCEPT !.address = a, !.critical = b])
        BY <2>2, <3>3 DEF StoreUpdate
      <4>2. IsHostRow(rows[h])
        BY <3>3 DEF FleetInv
      <4>3. IsHostRow([rows[h] EXCEPT !.address = a, !.critical = b])
        BY <4>2 DEF IsHostRow, Columns
      <4>. QED  BY <4>1, <4>3, UpdatedKeepsRows
    <3>. QED  BY <3>1, <3>2, <3>3
  <2>3. CASE StoreAccept(r)
    BY <2>3, <1>b, <1>c DEF StoreAccept, PinHostKey
  <2>4. CASE StoreForget(r)
    BY <2>4, <1>b, <1>c DEF StoreForget, ForgetHostKey
  <2>5. CASE StoreDelete(r)
    BY <2>5 DEF StoreDelete, FleetInv, Lives, Gone
  <2>6. CASE IsDefault(r) \/ ClearDefault(r) \/ CheckDefault(r) \/ StoreDefault(r) \/ BreakOff(r)
    BY <2>6, <1>a DEF IsDefault, ClearDefault, CheckDefault, StoreDefault, BreakOff, LeaveDefault,
                      hostsVars
  <2>. QED  BY <1>4, <2>1, <2>2, <2>3, <2>4, <2>5, <2>6 DEF Write
<1>. QED  BY <1>1, <1>2, <1>3, <1>4 DEF FleetNext

(* A verdict is "pinned" only for who expected nothing. *)
LEMMA NextFirstUse ==
    ASSUME FleetInv, FleetNext
    PROVE  conn' = [c \in Conn |-> conn'[c]] /\ \A c \in Conn : FirstUse(conn'[c])
<1>. DEFINE Kept == conn' = [c \in Conn |-> conn'[c]] /\ \A c \in Conn : FirstUse(conn'[c])
<1>a. ASSUME UNCHANGED conn PROVE Kept
  BY <1>a DEF FleetInv
<1>b. ASSUME NEW c \in Conn, NEW x, FirstUse(x), conn' = [conn EXCEPT ![c] = x] PROVE Kept
  BY <1>b DEF FleetInv
<1>1. ASSUME NEW c \in Conn, Connect(c) PROVE Kept
  <2>1. CASE Prepare(c)
    BY <2>1, <1>b DEF Prepare, FirstUse
  <2>2. CASE Handshake(c)
    <3>. DEFINE verdict == VerdictFor(conn[c].expected, machine[conn[c].address])
    <3>1. verdict = "pinned" => conn[c].expected = NoKey
      BY DEF VerdictFor
    <3>2. PICK got \in {verdict, "failed"} :
             conn' = [conn EXCEPT ![c] =
                        [pc |-> "recording", host |-> @.host, check |-> @.check,
                         expected |-> @.expected, presented |-> machine[conn[c].address],
                         verdict |-> got]]
      BY <2>2 DEF Handshake
    <3>. QED  BY <3>1, <3>2 DEF FirstUse, FleetInv
  <2>3. CASE Record(c)
    BY <2>3 DEF Record, FirstUse, Idle, FleetInv
  <2>4. CASE Probe(c)
    BY <2>4, <1>b DEF Probe, FirstUse, Idle
  <2>. QED  BY <1>1, <2>1, <2>2, <2>3, <2>4 DEF Connect
<1>2. CASE Rebuild
  BY <1>2, <1>a DEF Rebuild
<1>3. ASSUME NEW r \in Request, Handle(r) \/ Write(r) PROVE Kept
  BY <1>3, <1>a, HandlersOnlyAdmit, WritesKeepConnections DEF hostsVars
<1>. QED  BY <1>1, <1>2, <1>3 DEF FleetNext

LEMMA FleetNext_Inv == FleetInv /\ [FleetNext]_fleetVars => FleetInv'
<1>1. FleetInv /\ FleetNext => FleetInv'
  BY NextRows, NextFirstUse DEF FleetInv, Lives
<1>2. FleetInv /\ UNCHANGED fleetVars => FleetInv'
  BY DEF FleetInv, fleetVars, hostsVars, Lives
<1>. QED  BY <1>1, <1>2

THEOREM FleetInvariant == FleetSpec => []FleetInv
BY FleetInit_Inv, FleetNext_Inv, PTL DEF FleetSpec

-----------------------------------------------------------------------------
Accepted(h, k) == \E r \in Request : At(r, "accept") /\ request[r].host = h /\ request[r].reviewed = k

FirstUsed(h, k) ==
    \E c \in Conn : /\ conn[c].pc = "recording" /\ conn[c].host = h
                    /\ conn[c].expected = NoKey /\ conn[c].presented = k

(* One step: a key that moves was accepted or shown to a first connection. *)
LEMMA KeyMoves ==
    ASSUME FleetInv, FleetNext, NEW h \in Host,
           rows[h].state = "row", rows'[h].state = "row", rows'[h].key \notin {NoKey, rows[h].key}
    PROVE  Accepted(h, rows'[h].key) \/ FirstUsed(h, rows'[h].key)
<1>. DEFINE Goal == Accepted(h, rows'[h].key) \/ FirstUsed(h, rows'[h].key)
<1>0. IsHostRow(rows[h])
  BY DEF FleetInv, Lives
<1>a. rows' # rows
  OBVIOUS
<1>1. ASSUME NEW c \in Conn, Connect(c) PROVE Goal
  <2>1. CASE Prepare(c) \/ Handshake(c)
    BY <2>1, <1>a DEF Prepare, Handshake
  <2>2. CASE Record(c)
    <3>1. CASE conn[c].verdict = "pinned" /\ PinHostKey(conn[c].host, conn[c].presented)
      <4>1. conn[c].host = h /\ rows'[h].key = conn[c].presented
        BY <3>1, <1>0 DEF IsHostRow, Columns, FleetInv, Updated, PinHostKey
      <4>2. conn[c].pc = "recording" /\ conn[c].expected = NoKey
        BY <2>2, <3>1 DEF Record, FleetInv, FirstUse
      <4>. QED  BY <4>1, <4>2 DEF FirstUsed
    <3>2. CASE ClearPendingHostKey(conn[c].host) \/ RecordPendingHostKey(conn[c].host, conn[c].presented)
      <4>1. CASE ClearPendingHostKey(conn[c].host)
        BY <4>1, <1>0 DEF IsHostRow, Columns, Updated, ClearPendingHostKey
      <4>2. CASE RecordPendingHostKey(conn[c].host, conn[c].presented)
        BY <4>2, <1>0 DEF IsHostRow, Columns, Updated, RecordPendingHostKey
      <4>. QED  BY <3>2, <4>1, <4>2
    <3>. QED  BY <2>2, <3>1, <3>2, <1>a DEF Record
  <2>3. CASE Probe(c)
    <3>1. PICK status : SetHostStatus(conn[c].host, status)
      BY <2>3, <1>a DEF Probe
    <3>. QED  BY <3>1, <1>0 DEF IsHostRow, Columns, FleetInv, Updated, SetHostStatus
  <2>. QED  BY <1>1, <2>1, <2>2, <2>3 DEF Connect
<1>2. CASE Rebuild
  BY <1>2, <1>a DEF Rebuild
<1>3. ASSUME NEW r \in Request, Handle(r) PROVE Goal
  BY <1>3, <1>a, HandlersOnlyAdmit DEF hostsVars
<1>4. ASSUME NEW r \in Request, Write(r) PROVE Goal
  <2>1. CASE StoreCreate(r)
    <3>1. rows' = [rows EXCEPT ![request[r].host] = NewRow(request[r].address, request[r].critical)]
      BY <2>1, <1>a DEF StoreCreate
    <3>2. rows'[h] \in {rows[h], NewRow(request[r].address, request[r].critical)}
      BY <3>1 DEF FleetInv
    <3>. QED  BY <3>2 DEF NewRow
  <2>2. CASE StoreUpdate(r)
    <3>1. PICK a, b : Updated(request[r].host,
                              [rows[request[r].host] EXCEPT !.address = a, !.critical = b])
      BY <2>2, <1>a DEF StoreUpdate
    <3>. QED  BY <3>1, <1>0 DEF IsHostRow, Columns, FleetInv, Updated
  <2>3. CASE StoreAccept(r)
    BY <2>3, <1>0 DEF IsHostRow, Columns, FleetInv, Updated, StoreAccept, PinHostKey, Accepted
  <2>4. CASE StoreForget(r)
    BY <2>4, <1>0 DEF IsHostRow, Columns, FleetInv, Updated, StoreForget, ForgetHostKey
  <2>5. CASE StoreDelete(r)
    BY <2>5 DEF StoreDelete, FleetInv, Gone
  <2>6. CASE IsDefault(r) \/ ClearDefault(r) \/ CheckDefault(r) \/ StoreDefault(r) \/ BreakOff(r)
    BY <2>6, <1>a DEF IsDefault, ClearDefault, CheckDefault, StoreDefault, BreakOff, LeaveDefault,
                      hostsVars
  <2>. QED  BY <1>4, <2>1, <2>2, <2>3, <2>4, <2>5, <2>6 DEF Write
<1>. QED  BY <1>1, <1>2, <1>3, <1>4 DEF FleetNext

(* The property of Fleet: a pinned key changes to another only by an       *)
(* acceptance of that very key, or by a connection that was started while  *)
(* nothing was pinned and was shown it.                                    *)
THEOREM PinsMoveByReviewOrFirstUse == FleetSpec => PinMovesByReviewOrFirstUse
<1>. DEFINE Moves ==
       \A h \in Host :
          LET old == rows[h]
              new == rows'[h]
          IN old.state = "row" /\ new.state = "row" /\ new.key \notin {NoKey, old.key} =>
                \/ \E r \in Request :
                      /\ At(r, "accept") /\ request[r].host = h
                      /\ request[r].reviewed = new.key
                \/ \E c \in Conn :
                      /\ conn[c].pc = "recording" /\ conn[c].host = h
                      /\ conn[c].expected = NoKey /\ conn[c].presented = new.key
<1>1. FleetInv /\ [FleetNext]_fleetVars => [Moves]_fleetVars
  BY KeyMoves DEF Accepted, FirstUsed
<1>. QED  BY <1>1, FleetInvariant, PTL DEF FleetSpec, PinMovesByReviewOrFirstUse

-----------------------------------------------------------------------------
(***************************************************************************)
(* The default build host dangles only by a race or a fault, for any hosts *)
(* and any requests.  A request about to write the default has seen its host live, *)
(* or that host is on record as deleted since; a request that deletes a    *)
(* default build host goes on to look at the default, and to take it out.  *)
(***************************************************************************)
Dangling == standing \in Host /\ ~Lives(standing)

Undoes(r, h) == request[r].pc \in {"default", "clear"} /\ request[r].host = h

\* What a request holds, given the rows and the hosts on record.
Heeds(x, table, lost) ==
    /\ x.pc \in {"delete", "default", "check"} => x = [pc |-> x.pc, host |-> x.host]
    /\ x.pc \in {"check", "set"} => x.host \in BuildHost \cup {NoDefault}
    /\ x.pc = "set" => x.host = NoDefault \/ table[x.host].state = "row" \/ x.host \in lost

DefaultInv ==
    /\ request = [r \in Request |-> request[r]]
    /\ standing \in BuildHost \cup {NoDefault}
    /\ \A r \in Request : Heeds(request[r], rows, raced)
    /\ DefaultDanglesByRaceOrFault

LEMMA DefaultInit_Inv == FleetInit => DefaultInv
BY FleetAssumption DEF FleetInit, DefaultInv, DefaultDanglesByRaceOrFault, Heeds, Idle

LEMMA HeedsOn ==
    ASSUME NEW x, Heeds(x, rows, raced), raced \subseteq raced',
           \A h \in Host : Lives(h) /\ x.pc = "set" /\ x.host = h => rows'[h].state = "row" \/ h \in raced'
    PROVE  Heeds(x, rows', raced')
BY FleetAssumption DEF Heeds, Lives

(* An UPDATE takes no host away. *)
LEMMA UpdatesLiveOn ==
    ASSUME FleetInv, NEW h \in Host, Lives(h), NEW g, NEW x, Updated(g, x),
           g = h => x.state = rows[h].state
    PROVE  rows'[h].state = "row"
BY DEF FleetInv, Updated, Lives

LEMMA ColumnsLiveOn ==
    ASSUME FleetInv, NEW h \in Host, Lives(h), NEW g, NEW k,
           \/ PinHostKey(g, k) \/ RecordPendingHostKey(g, k) \/ ClearPendingHostKey(g)
           \/ ForgetHostKey(g) \/ SetHostStatus(g, k)
    PROVE  rows'[h].state = "row"
<1>0. IsHostRow(rows[h])
  BY DEF FleetInv
<1>. USE DEF IsHostRow, Columns
<1>1. CASE PinHostKey(g, k)
  BY <1>0, <1>1, UpdatesLiveOn DEF PinHostKey
<1>2. CASE RecordPendingHostKey(g, k)
  BY <1>0, <1>2, UpdatesLiveOn DEF RecordPendingHostKey
<1>3. CASE ClearPendingHostKey(g)
  BY <1>0, <1>3, UpdatesLiveOn DEF ClearPendingHostKey
<1>4. CASE ForgetHostKey(g)
  BY <1>0, <1>4, UpdatesLiveOn DEF ForgetHostKey
<1>5. CASE SetHostStatus(g, k)
  BY <1>0, <1>5, UpdatesLiveOn DEF SetHostStatus
<1>. QED  BY <1>1, <1>2, <1>3, <1>4, <1>5

(* Only a request that deletes it takes a host away. *)
LEMMA HostsLiveOn ==
    ASSUME FleetInv, FleetNext, NEW h \in Host, Lives(h),
           \A r \in Request : ~StoreDelete(r)
    PROVE  rows'[h].state = "row"
<1>. DEFINE Goal == rows'[h].state = "row"
<1>0. IsHostRow(rows[h])
  BY DEF FleetInv
<1>a. ASSUME UNCHANGED rows PROVE Goal
  BY <1>a DEF Lives
<1>1. ASSUME NEW c \in Conn, Connect(c) PROVE Goal
  <2>1. CASE Prepare(c) \/ Handshake(c)
    BY <2>1, <1>a DEF Prepare, Handshake
  <2>2. CASE Record(c)
    <3>1. \/ PinHostKey(conn[c].host, conn[c].presented)
          \/ ClearPendingHostKey(conn[c].host)
          \/ RecordPendingHostKey(conn[c].host, conn[c].presented)
          \/ UNCHANGED rows
      BY <2>2 DEF Record
    <3>. QED  BY <3>1, <1>a, ColumnsLiveOn
  <2>3. CASE Probe(c)
    <3>1. (\E status : SetHostStatus(conn[c].host, status)) \/ UNCHANGED rows
      BY <2>3 DEF Probe
    <3>. QED  BY <3>1, <1>a, ColumnsLiveOn
  <2>. QED  BY <1>1, <2>1, <2>2, <2>3 DEF Connect
<1>2. CASE Rebuild
  BY <1>2, <1>a DEF Rebuild
<1>3. ASSUME NEW r \in Request, Handle(r) PROVE Goal
  BY <1>3, <1>a, HandlersOnlyAdmit DEF hostsVars
<1>4. ASSUME NEW r \in Request, Write(r) PROVE Goal
  <2>1. CASE StoreCreate(r)
    BY <2>1, <1>a DEF StoreCreate, FleetInv, NewRow, Lives
  <2>2. CASE StoreUpdate(r)
    <3>1. \/ UNCHANGED rows
          \/ \E a, b : Updated(request[r].host,
                               [rows[request[r].host] EXCEPT !.address = a, !.critical = b])
      BY <2>2 DEF StoreUpdate
    <3>2. ASSUME NEW a, NEW b, Updated(request[r].host,
                               [rows[request[r].host] EXCEPT !.address = a, !.critical = b])
          PROVE  Goal
      BY <3>2, <1>0, UpdatesLiveOn DEF IsHostRow, Columns
    <3>. QED  BY <3>1, <3>2, <1>a
  <2>3. CASE StoreAccept(r)
    BY <2>3, ColumnsLiveOn DEF StoreAccept
  <2>4. CASE StoreForget(r)
    BY <2>4, ColumnsLiveOn DEF StoreForget
  <2>5. CASE IsDefault(r) \/ ClearDefault(r) \/ CheckDefault(r) \/ StoreDefault(r) \/ BreakOff(r)
    BY <2>5, <1>a DEF IsDefault, ClearDefault, CheckDefault, StoreDefault, BreakOff, LeaveDefault,
                      hostsVars
  <2>. QED  BY <1>4, <2>1, <2>2, <2>3, <2>4, <2>5 DEF Write
<1>. QED  BY <1>1, <1>2, <1>3, <1>4 DEF FleetNext

\* A step of one request that takes no host away.
LEMMA OneRequest ==
    ASSUME DefaultInv, NEW r \in Request, NEW x, request' = [request EXCEPT ![r] = x],
           UNCHANGED <<standing, raced, broken>>,
           \A h \in Host : Lives(h) => rows'[h].state = "row",
           Heeds(x, rows, raced),
           Dangling /\ Undoes(r, standing) => x.pc \in {"default", "clear"} /\ x.host = standing
    PROVE  DefaultInv'
<1>1. /\ request' = [q \in Request |-> request'[q]]
      /\ \A q \in Request : request'[q] = IF q = r THEN x ELSE request[q]
  BY DEF DefaultInv
<1>2. \A q \in Request : Heeds(request'[q], rows', raced')
  BY <1>1, HeedsOn DEF DefaultInv
<1>3. DefaultDanglesByRaceOrFault'
  <2>. SUFFICES ASSUME standing \in Host, rows'[standing].state # "row", standing \notin raced \cup broken
                PROVE  \E q \in Request : Undoes(q, standing)'
    BY DEF DefaultDanglesByRaceOrFault, Undoes, Lives
  <2>1. Dangling
    BY DEF Dangling
  <2>2. PICK q \in Request : Undoes(q, standing)
    BY <2>1 DEF DefaultInv, DefaultDanglesByRaceOrFault, Undoes, Dangling
  <2>3. CASE q = r
    BY <2>1, <2>2, <2>3, <1>1 DEF Undoes
  <2>4. CASE q # r
    BY <2>2, <2>4, <1>1 DEF Undoes
  <2>. QED  BY <2>3, <2>4
<1>. QED  BY <1>1, <1>2, <1>3 DEF DefaultInv

LEMMA DefaultNext_Inv == FleetInv /\ DefaultInv /\ [FleetNext]_fleetVars => DefaultInv'
<1>. SUFFICES ASSUME FleetInv, DefaultInv, [FleetNext]_fleetVars PROVE DefaultInv'
  OBVIOUS
<1>0. ASSUME UNCHANGED <<request, standing, raced, broken>>,
             \A h \in Host : Lives(h) => rows'[h].state = "row"
      PROVE  DefaultInv'
  <2>1. \A r \in Request : Heeds(request[r], rows', raced')
    BY <1>0, HeedsOn DEF DefaultInv
  <2>2. DefaultDanglesByRaceOrFault'
    BY <1>0 DEF DefaultInv, DefaultDanglesByRaceOrFault, Lives
  <2>. QED  BY <1>0, <2>1, <2>2 DEF DefaultInv
<1>1. CASE UNCHANGED fleetVars
  BY <1>0, <1>1 DEF fleetVars, hostsVars, Lives
<1>2. ASSUME FleetNext, \A r \in Request : ~StoreDelete(r) PROVE DefaultInv'
  <2>0. \A h \in Host : Lives(h) => rows'[h].state = "row"
    BY <1>2, HostsLiveOn
  <2>1. ASSUME UNCHANGED <<request, standing, raced, broken>> PROVE DefaultInv'
    BY <2>0, <2>1, <1>0
  <2>2. ASSUME NEW r \in Request, NEW x, request' = [request EXCEPT ![r] = x],
               request[r].pc \notin {"default", "clear"},
               UNCHANGED <<standing, raced, broken>>, x.pc \notin {"check", "set", "delete", "default"}
        PROVE  DefaultInv'
    BY <2>0, <2>2, OneRequest DEF Undoes, Heeds
  <2>a. ASSUME NEW r \in Request, LeaveDefault(r) PROVE DefaultInv'
    <3>1. /\ request' = [request EXCEPT ![r] = Idle] /\ UNCHANGED <<rows, standing, raced>>
          /\ broken' = broken \cup ({request[r].host} \cap {standing})
      BY <2>a DEF LeaveDefault, Answer, hostsVars
    <3>2. request' = [q \in Request |-> request'[q]]
          /\ \A q \in Request : request'[q] = IF q = r THEN Idle ELSE request[q]
      BY <3>1 DEF DefaultInv
    <3>3. \A q \in Request : Heeds(request'[q], rows', raced')
      BY <3>1, <3>2 DEF DefaultInv, Heeds, Idle
    <3>4. DefaultDanglesByRaceOrFault'
      <4>. SUFFICES ASSUME standing \in Host, ~Lives(standing), standing \notin raced \cup broken'
                    PROVE  \E q \in Request : Undoes(q, standing)'
        BY <3>1 DEF DefaultDanglesByRaceOrFault, Undoes, Lives
      <4>1. PICK q \in Request : Undoes(q, standing)
        BY <3>1 DEF DefaultInv, DefaultDanglesByRaceOrFault, Undoes
      <4>2. q # r
        BY <3>1, <4>1 DEF Undoes
      <4>. QED  BY <3>1, <3>2, <4>1, <4>2 DEF Undoes
    <3>. QED  BY <3>1, <3>2, <3>3, <3>4 DEF DefaultInv
  <2>b. ASSUME NEW r \in Request, BreakOff(r) PROVE DefaultInv'
    <3>1. CASE request[r].pc \in {"default", "clear"}
      BY <2>a, <2>b, <3>1 DEF BreakOff
    <3>2. CASE request[r].pc \notin {"default", "clear"}
      <4>1. request' = [request EXCEPT ![r] = Idle] /\ UNCHANGED <<standing, raced, broken>>
        BY <2>b, <3>2 DEF BreakOff, Answer
      <4>. QED  BY <3>2, <4>1, <2>2 DEF Idle
    <3>. QED  BY <3>1, <3>2
  <2>3. ASSUME NEW r \in Request, Handle(r) PROVE DefaultInv'
    <3>1. CASE Create(r)
      BY <3>1, <2>2 DEF Create, Admit
    <3>2. CASE Update(r)
      BY <3>2, <2>2 DEF Update, Admit
    <3>3. CASE AcceptHostKey(r)
      BY <3>3, <2>2 DEF AcceptHostKey, Admit
    <3>4. CASE Forget(r)
      BY <3>4, <2>2 DEF Forget, Admit
    <3>5. CASE Delete(r)
      <4>1. PICK h : /\ request[r].pc = "idle" /\ UNCHANGED <<standing, raced, broken>>
                     /\ request' = [request EXCEPT ![r] = [pc |-> "delete", host |-> h]]
        BY <3>5 DEF Delete, Admit
      <4>2. Heeds([pc |-> "delete", host |-> h], rows, raced)
        BY DEF Heeds
      <4>. QED  BY <4>1, <4>2, <2>0, OneRequest DEF Undoes
    <3>6. CASE SetDefaults(r)
      <4>1. PICK h \in BuildHost \cup {NoDefault} :
                     /\ request[r].pc = "idle" /\ UNCHANGED <<standing, raced, broken>>
                     /\ request' = [request EXCEPT ![r] = [pc |-> "check", host |-> h]]
        BY <3>6 DEF SetDefaults, Admit
      <4>2. Heeds([pc |-> "check", host |-> h], rows, raced)
        BY DEF Heeds
      <4>. QED  BY <4>1, <4>2, <2>0, OneRequest DEF Undoes
    <3>. QED  BY <2>3, <3>1, <3>2, <3>3, <3>4, <3>5, <3>6 DEF Handle
  <2>4. ASSUME NEW r \in Request, Write(r) PROVE DefaultInv'
    <3>1. CASE StoreCreate(r) \/ StoreUpdate(r) \/ StoreAccept(r) \/ StoreForget(r)
      <4>1. /\ request' = [request EXCEPT ![r] = Idle] /\ UNCHANGED <<standing, raced, broken>>
            /\ request[r].pc \notin {"default", "clear"}
        BY <3>1 DEF StoreCreate, StoreUpdate, StoreAccept, StoreForget, WriteRows, Answer, At
      <4>. QED  BY <4>1, <2>2 DEF Idle
    <3>a. CASE LeaveDefault(r) \/ BreakOff(r)
      BY <2>a, <2>b, <3>a
    <3>2. CASE IsDefault(r) /\ ~LeaveDefault(r)
      <4>. DEFINE h == request[r].host
                  x == IF standing = h THEN [pc |-> "clear", host |-> h] ELSE Idle
      <4>1. request[r] = [pc |-> "default", host |-> h]
        BY <3>2 DEF DefaultInv, IsDefault, At, Heeds
      <4>2. request' = [request EXCEPT ![r] = x] /\ UNCHANGED <<standing, raced, broken>>
        <5>1. [[pc |-> "default", host |-> h] EXCEPT !.pc = "clear"] = [pc |-> "clear", host |-> h]
          OBVIOUS
        <5>2. /\ request' = [request EXCEPT ![r] =
                               IF standing = h THEN [request[r] EXCEPT !.pc = "clear"] ELSE Idle]
              /\ UNCHANGED <<standing, raced, broken>>
          BY <3>2 DEF IsDefault
        <5>. QED  BY <5>1, <5>2, <4>1
      <4>3. IF standing = h THEN x.pc = "clear" /\ x.host = standing ELSE x.pc = "idle"
        BY DEF Idle
      <4>. HIDE DEF x
      <4>4. Undoes(r, standing) => x.pc \in {"default", "clear"} /\ x.host = standing
        BY <4>3 DEF Undoes
      <4>5. Heeds(x, rows, raced)
        BY <4>3 DEF Heeds
      <4>. QED  BY <4>2, <4>3, <4>4, <4>5, <2>0, OneRequest
    <3>3. CASE ClearDefault(r) /\ ~LeaveDefault(r)
      <4>1. /\ request' = [request EXCEPT ![r] = Idle] /\ standing' = NoDefault /\ raced' = raced
            /\ UNCHANGED rows
        BY <3>3 DEF ClearDefault, Answer, hostsVars
      <4>2. request' = [q \in Request |-> request'[q]]
            /\ \A q \in Request : request'[q] = IF q = r THEN Idle ELSE request[q]
        BY <4>1 DEF DefaultInv
      <4>3. \A q \in Request : Heeds(request'[q], rows', raced')
        BY <4>1, <4>2 DEF DefaultInv, Heeds, Idle
      <4>. QED  BY <4>1, <4>2, <4>3, FleetAssumption DEF DefaultInv, DefaultDanglesByRaceOrFault
    <3>4. CASE CheckDefault(r)
      <4>. DEFINE h == request[r].host
                  x == IF h = NoDefault \/ Lives(h) THEN [pc |-> "set", host |-> h] ELSE Idle
      <4>1. request[r] = [pc |-> "check", host |-> h] /\ h \in BuildHost \cup {NoDefault}
        BY <3>4 DEF DefaultInv, CheckDefault, At, Heeds
      <4>2. request' = [request EXCEPT ![r] = x] /\ UNCHANGED <<standing, raced, broken>>
        <5>1. [[pc |-> "check", host |-> h] EXCEPT !.pc = "set"] = [pc |-> "set", host |-> h]
          OBVIOUS
        <5>2. /\ request' = [request EXCEPT ![r] = IF h = NoDefault \/ Lives(h)
                                                   THEN [request[r] EXCEPT !.pc = "set"] ELSE Idle]
              /\ UNCHANGED <<standing, raced, broken>>
          BY <3>4 DEF CheckDefault
        <5>. QED  BY <5>1, <5>2, <4>1
      <4>3. \/ x.pc = "set" /\ x.host = h /\ (h = NoDefault \/ Lives(h))
            \/ x.pc = "idle"
        BY DEF Idle
      <4>4. ~Undoes(r, standing)
        BY <3>4 DEF CheckDefault, At, Undoes
      <4>. HIDE DEF x
      <4>5. Heeds(x, rows, raced)
        BY <4>1, <4>3 DEF Heeds, Lives
      <4>. QED  BY <4>2, <4>4, <4>5, <2>0, OneRequest
    <3>5. CASE StoreDefault(r)
      <4>1. /\ request' = [request EXCEPT ![r] = Idle] /\ standing' = request[r].host
            /\ raced' = raced /\ UNCHANGED <<rows, broken>> /\ At(r, "set")
        BY <3>5 DEF StoreDefault, Answer, hostsVars
      <4>2. request' = [q \in Request |-> request'[q]]
            /\ \A q \in Request : request'[q] = IF q = r THEN Idle ELSE request[q]
        BY <4>1 DEF DefaultInv
      <4>3. \A q \in Request : Heeds(request'[q], rows', raced')
        BY <4>1, <4>2 DEF DefaultInv, Heeds, Idle
      <4>4. LET h == standing' IN
              h \in BuildHost \cup {NoDefault} /\ (h = NoDefault \/ rows'[h].state = "row" \/ h \in raced')
        BY <4>1 DEF DefaultInv, Heeds, At
      <4>5. DefaultDanglesByRaceOrFault'
        BY <4>4, FleetAssumption DEF DefaultDanglesByRaceOrFault, Lives
      <4>. QED  BY <4>2, <4>3, <4>4, <4>5 DEF DefaultInv
    <3>. QED  BY <1>2, <2>4, <3>1, <3>a, <3>2, <3>3, <3>4, <3>5 DEF Write
  <2>. QED  BY <1>2, <2>1, <2>3, <2>4 DEF FleetNext
<1>3. ASSUME NEW r \in Request, StoreDelete(r) PROVE DefaultInv'
  <2>. DEFINE h == request[r].host
              x == IF Lives(h) /\ h \in BuildHost THEN [pc |-> "default", host |-> h] ELSE Idle
  <2>1. request[r] = [pc |-> "delete", host |-> h]
    BY <1>3 DEF DefaultInv, StoreDelete, At, Heeds
  <2>2. /\ request' = [request EXCEPT ![r] = x] /\ standing' = standing
        /\ rows' = [rows EXCEPT ![h] = Gone] /\ broken' = broken
        /\ raced' = IF Lives(h) /\ Checked(h) # {} THEN raced \cup {h} ELSE raced
    <3>1. [[pc |-> "delete", host |-> h] EXCEPT !.pc = "default"] = [pc |-> "default", host |-> h]
      OBVIOUS
    <3>2. /\ request' = [request EXCEPT ![r] = IF Lives(h) /\ h \in BuildHost
                                               THEN [request[r] EXCEPT !.pc = "default"] ELSE Idle]
          /\ standing' = standing
          /\ rows' = [rows EXCEPT ![h] = Gone] /\ broken' = broken
          /\ raced' = IF Lives(h) /\ Checked(h) # {} THEN raced \cup {h} ELSE raced
      BY <1>3 DEF StoreDelete
    <3>. QED  BY <3>1, <3>2, <2>1
  <2>3. IF Lives(h) /\ h \in BuildHost
        THEN x.pc = "default" /\ x.host = h /\ x = [pc |-> "default", host |-> h]
        ELSE x.pc = "idle"
    BY DEF Idle
  <2>. HIDE DEF x
  <2>4. \A g \in Host : g # h => (rows'[g].state = "row" <=> Lives(g))
    BY <2>2 DEF FleetInv, Lives
  <2>5. /\ request' = [q \in Request |-> request'[q]]
        /\ request'[r] = x /\ \A q \in Request \ {r} : request'[q] = request[q]
    BY <2>2 DEF DefaultInv
  <2>6. raced \subseteq raced' /\ (Lives(h) /\ Checked(h) # {} => h \in raced')
    BY <2>2
  <2>7. \A q \in Request : Heeds(request'[q], rows', raced')
    <3>1. Heeds(x, rows', raced')
      BY <2>3 DEF Heeds
    <3>2. ASSUME NEW q \in Request PROVE Heeds(request[q], rows', raced')
      <4>1. request[q].pc = "set" /\ request[q].host = h => q \in Checked(h)
        BY DEF Checked, At
      <4>2. Heeds(request[q], rows, raced)
        BY DEF DefaultInv
      <4>. QED  BY <4>1, <4>2, <2>4, <2>6, HeedsOn
    <3>. QED  BY <3>1, <3>2, <2>5
  <2>8. DefaultDanglesByRaceOrFault'
    <3>. SUFFICES ASSUME standing \in Host, rows'[standing].state # "row", standing \notin raced' \cup broken'
                  PROVE  \E q \in Request : /\ request'[q].pc \in {"default", "clear"}
                                            /\ request'[q].host = standing
      BY <2>2 DEF DefaultDanglesByRaceOrFault, Lives
    <3>1. CASE standing = h /\ Lives(h)
      <4>1. h \in BuildHost
        BY <3>1, FleetAssumption DEF DefaultInv
      <4>. QED  BY <3>1, <4>1, <2>3, <2>5
    <3>2. CASE ~Lives(standing)
      <4>1. PICK q \in Request : request[q].pc \in {"default", "clear"} /\ request[q].host = standing
        BY <2>2, <2>6, <3>2 DEF DefaultInv, DefaultDanglesByRaceOrFault
      <4>2. q # r
        BY <4>1, <2>1
      <4>3. request'[q] = request[q]
        BY <4>2, <2>5
      <4>. QED  BY <4>1, <4>3
    <3>. QED  BY <3>1, <3>2, <2>4
  <2>. QED  BY <2>2, <2>5, <2>7, <2>8 DEF DefaultInv
<1>. QED  BY <1>1, <1>2, <1>3

(* The property of Fleet: the default build host is one that exists,       *)
(* except while the request that deletes it is about to take it out, when  *)
(* it was deleted between the check and the write of a request that made   *)
(* it the default, or when the request that deleted it broke off, or       *)
(* failed, before it had taken it out (api/build_hosts.rs).                *)
THEOREM DefaultsDangleByRaceOrFault == FleetSpec => []DefaultDanglesByRaceOrFault
<1>1. DefaultInv => DefaultDanglesByRaceOrFault
  BY DEF DefaultInv
<1>. QED  BY <1>1, FleetInvariant, DefaultInit_Inv, DefaultNext_Inv, PTL DEF FleetSpec

-----------------------------------------------------------------------------
(***************************************************************************)
(* A secret is only lost on purpose, for any number of handlers, users and *)
(* ids.  The invariant says what a handler that has looked may still rely  *)
(* on: a put that will not replace found nothing, unless it was raced; and *)
(* behind the looks of a delete the only users are those it missed, and    *)
(* build hosts.                                                            *)
(***************************************************************************)
Putting == [pc : {"upsert"}, replace : BOOLEAN, raced : BOOLEAN]
Deleting == [pc : {"services", "targets", "delete"}, sees : Nat \ {0}]

SecretsTypeOK ==
    /\ secret \in [id : Nat, value : Client \cup {"none"}]
    /\ ids \in Nat
    /\ uses \in [User -> Nat]
    /\ putter \in [Client -> {Quiet} \cup Putting \cup Deleting]

(* Whoever refers to what p saw was missed, as far as p has looked. *)
Looked(p) ==
    /\ Puts(p, "targets") =>
          \A u \in User \ (Target \cup HostUser) : uses[u] = putter[p].sees => u \in missed
    /\ Puts(p, "delete") => \A u \in User \ HostUser : uses[u] = putter[p].sees => u \in missed

FoundNothing(p) ==
    Puts(p, "upsert") /\ ~putter[p].replace /\ ~putter[p].raced => secret.id = 0

SecretsInv ==
    /\ SecretsTypeOK
    /\ \A p \in Client : FoundNothing(p) /\ Looked(p)

LEMMA SecretsInit_Inv == SecretsInit => SecretsInv
BY DEF SecretsInit, SecretsInv, SecretsTypeOK, NoSecret, Quiet, FoundNothing, Looked, Puts

(* However a user comes to what it names, it is that which changes.        *)
LEMMA Naming ==
    ASSUME SecretsTypeOK, NEW u \in User, Refer(u) \/ RegisterTarget(u) \/ RemoveTarget(u)
    PROVE  /\ UNCHANGED <<secret, ids, putter>> /\ SecretsTypeOK'
           /\ \E id \in Nat : Names(u, id)
<1>1. PICK id \in Nat : Names(u, id)
  BY DEF Refer, RegisterTarget, RemoveTarget, SecretsTypeOK
<1>. QED  BY <1>1 DEF Names, SecretsTypeOK

LEMMA SecretsNext_Type ==
    ASSUME SecretsTypeOK, SecretsNext
    PROVE  SecretsTypeOK'
<1>. USE DEF SecretsTypeOK
<1>1. ASSUME NEW p \in Client, Find(p) PROVE SecretsTypeOK'
  BY <1>1 DEF Find, Putting
<1>2. ASSUME NEW p \in Client, Upsert(p) PROVE SecretsTypeOK'
  <2>1. secret' \in [id : Nat, value : Client \cup {"none"}] /\ ids' \in Nat
    BY <1>2 DEF Upsert
  <2>2. putter' \in [Client -> {Quiet} \cup Putting \cup Deleting]
    <3>. SUFFICES ASSUME NEW q \in Client, q # p, Puts(q, "upsert")
                  PROVE  [putter[q] EXCEPT !.raced = TRUE] \in Putting
      BY <1>2 DEF Upsert
    <3>1. putter[q] \in Putting
      BY DEF Puts, Quiet, Deleting
    <3>. QED  BY <3>1 DEF Putting
  <2>. QED  BY <1>2, <2>1, <2>2 DEF Upsert
<1>3. ASSUME NEW p \in Client, BeginDelete(p) PROVE SecretsTypeOK'
  BY <1>3 DEF BeginDelete, Deleting
<1>4. ASSUME NEW p \in Client, ReferencedBy(p) \/ KeyOfTargets(p) PROVE SecretsTypeOK'
  <2>1. putter[p] \in Deleting
    BY <1>4 DEF ReferencedBy, KeyOfTargets, Puts, Quiet, Putting
  <2>2. \A pc \in {"targets", "delete"} : [putter[p] EXCEPT !.pc = pc] \in Deleting
    BY <2>1 DEF Deleting
  <2>. QED  BY <1>4, <2>2 DEF ReferencedBy, KeyOfTargets, Quieten
<1>5. ASSUME NEW p \in Client, DeleteSecret(p) PROVE SecretsTypeOK'
  BY <1>5 DEF DeleteSecret, Quieten, NoSecret
<1>6. ASSUME NEW u \in User, Refer(u) \/ RegisterTarget(u) \/ RemoveTarget(u) PROVE SecretsTypeOK'
  BY <1>6, Naming
<1>7. CASE GoWithScope
  BY <1>7 DEF GoWithScope, NoSecret
<1>. QED  BY <1>1, <1>2, <1>3, <1>4, <1>5, <1>6, <1>7 DEF SecretsNext

(* What a put found stays found, or it is raced. *)
LEMMA SecretsNext_Found ==
    ASSUME SecretsInv, SecretsNext, NEW q \in Client
    PROVE  FoundNothing(q)'
<1>. USE DEF SecretsInv, SecretsTypeOK, FoundNothing, Puts
<1>1. ASSUME NEW p \in Client, Find(p) PROVE FoundNothing(q)'
  BY <1>1 DEF Find
<1>2. ASSUME NEW p \in Client, Upsert(p) PROVE FoundNothing(q)'
  <2>1. CASE q = p
    BY <1>2, <2>1 DEF Upsert, Quiet
  <2>2. CASE q # p /\ putter[q].pc = "upsert"
    <3>1. putter[q] \in Putting
      BY <2>2 DEF Quiet, Deleting
    <3>2. putter'[q].raced
      BY <1>2, <2>2, <3>1 DEF Upsert, Putting
    <3>. QED  BY <3>2
  <2>3. CASE q # p /\ putter[q].pc # "upsert"
    BY <1>2, <2>3 DEF Upsert
  <2>. QED  BY <2>1, <2>2, <2>3
<1>3. ASSUME NEW p \in Client, BeginDelete(p) PROVE FoundNothing(q)'
  BY <1>3 DEF BeginDelete
<1>4. ASSUME NEW p \in Client, ReferencedBy(p) \/ KeyOfTargets(p) PROVE FoundNothing(q)'
  <2>1. putter[p] \in Deleting
    BY <1>4 DEF ReferencedBy, KeyOfTargets, Quiet, Putting
  <2>. QED  BY <1>4, <2>1 DEF ReferencedBy, KeyOfTargets, Quieten, Quiet, Deleting
<1>5. ASSUME NEW p \in Client, DeleteSecret(p) PROVE FoundNothing(q)'
  BY <1>5 DEF DeleteSecret, Quieten, Quiet, NoSecret
<1>6. ASSUME NEW u \in User, Refer(u) \/ RegisterTarget(u) \/ RemoveTarget(u) PROVE FoundNothing(q)'
  BY <1>6, Naming
<1>7. CASE GoWithScope
  BY <1>7 DEF GoWithScope, NoSecret
<1>. QED  BY <1>1, <1>2, <1>3, <1>4, <1>5, <1>6, <1>7 DEF SecretsNext

(* Behind the looks of a delete are only those it missed. *)
LEMMA SecretsNext_Looked ==
    ASSUME SecretsInv, SecretsNext, NEW q \in Client
    PROVE  Looked(q)'
<1>. USE DEF SecretsInv, SecretsTypeOK, Looked, Puts
<1>1. ASSUME NEW p \in Client, Find(p) PROVE Looked(q)'
  BY <1>1 DEF Find
<1>2. ASSUME NEW p \in Client, Upsert(p) PROVE Looked(q)'
  <2>1. CASE q = p
    BY <1>2, <2>1 DEF Upsert, Quiet
  <2>2. CASE q # p /\ putter[q].pc = "upsert"
    <3>1. putter[q] \in Putting
      BY <2>2 DEF Quiet, Deleting
    <3>2. putter'[q].pc = "upsert"
      BY <1>2, <2>2, <3>1 DEF Upsert, Putting
    <3>. QED  BY <3>2
  <2>3. CASE q # p /\ putter[q].pc # "upsert"
    BY <1>2, <2>3 DEF Upsert
  <2>. QED  BY <2>1, <2>2, <2>3
<1>3. ASSUME NEW p \in Client, BeginDelete(p) PROVE Looked(q)'
  BY <1>3 DEF BeginDelete
<1>4. ASSUME NEW p \in Client, ReferencedBy(p) PROVE Looked(q)'
  <2>1. putter[p] \in Deleting
    BY <1>4 DEF ReferencedBy, Quiet, Putting
  <2>. QED  BY <1>4, <2>1 DEF ReferencedBy, Quiet, Deleting
<1>5. ASSUME NEW p \in Client, KeyOfTargets(p) PROVE Looked(q)'
  <2>1. putter[p] \in Deleting
    BY <1>5 DEF KeyOfTargets, Quiet, Putting
  <2>2. CASE Quieten(p) /\ UNCHANGED missed
    BY <1>5, <2>1, <2>2 DEF KeyOfTargets, Quieten, Quiet
  <2>3. CASE putter' = [putter EXCEPT ![p].pc = "delete"] /\ missed' = missed \cup Keyed(p)
    <3>1. putter'[p].pc = "delete" /\ putter'[p].sees = putter[p].sees /\ uses' = uses
      BY <1>5, <2>1, <2>3 DEF KeyOfTargets, Deleting
    <3>2. \A u \in User \ HostUser : uses[u] = putter[p].sees => u \in missed'
      BY <1>5, <2>3 DEF KeyOfTargets, Keyed
    <3>3. CASE q = p
      BY <3>1, <3>2, <3>3
    <3>4. CASE q # p
      BY <2>3, <3>1, <3>4
    <3>. QED  BY <3>3, <3>4
  <2>. QED  BY <1>5, <2>2, <2>3 DEF KeyOfTargets
<1>6. ASSUME NEW p \in Client, DeleteSecret(p) PROVE Looked(q)'
  BY <1>6 DEF DeleteSecret, Quieten, Quiet
<1>7. ASSUME NEW u \in User, Refer(u) \/ RegisterTarget(u) \/ RemoveTarget(u) PROVE Looked(q)'
  <2>1. PICK id \in Nat : Names(u, id)
    BY <1>7, Naming
  <2>2. \A v \in User : v # u => uses'[v] = uses[v] /\ (v \in missed' <=> v \in missed)
    BY <2>1 DEF Names
  <2>3. uses'[u] = id /\ putter' = putter
    BY <2>1 DEF Names
  <2>4. Puts(q, "delete") /\ putter[q].sees = id => u \in missed'
    BY <2>1 DEF Names, LookedPast
  <2>5. Puts(q, "targets") /\ u \notin Target /\ putter[q].sees = id => u \in missed'
    BY <2>1 DEF Names, LookedPast
  <2>. QED  BY <2>2, <2>3, <2>4, <2>5
<1>8. CASE GoWithScope
  BY <1>8 DEF GoWithScope
<1>. QED  BY <1>1, <1>2, <1>3, <1>4, <1>5, <1>6, <1>7, <1>8 DEF SecretsNext

LEMMA SecretsNext_Inv == SecretsInv /\ [SecretsNext]_secretsVars => SecretsInv'
<1>1. SecretsInv /\ SecretsNext => SecretsInv'
  BY SecretsNext_Type, SecretsNext_Found, SecretsNext_Looked DEF SecretsInv
<1>2. SecretsInv /\ UNCHANGED secretsVars => SecretsInv'
  BY DEF SecretsInv, SecretsTypeOK, FoundNothing, Looked, Puts, secretsVars
<1>. QED  BY <1>1, <1>2

THEOREM SecretsInvariant == SecretsSpec => []SecretsInv
BY SecretsInit_Inv, SecretsNext_Inv, PTL DEF SecretsSpec

-----------------------------------------------------------------------------
(* A secret that goes by a delete goes at its last step. *)
LEMMA GoneByDelete ==
    ASSUME SecretsInv, SecretsNext, secret.id # 0, secret'.id = 0,
           NEW q \in Client, Puts(q, "delete"), putter'[q] = Quiet
    PROVE  \E p \in Client : Puts(p, "delete") /\ putter[p].sees = secret.id
<1>1. ASSUME NEW p \in Client, Upsert(p) PROVE FALSE
  BY <1>1 DEF Upsert, SecretsInv, SecretsTypeOK
<1>2. ASSUME NEW p \in Client, DeleteSecret(p)
      PROVE  Puts(p, "delete") /\ putter[p].sees = secret.id
  BY <1>2 DEF DeleteSecret
<1>3. CASE GoWithScope
  BY <1>3 DEF GoWithScope, Puts, Quiet
<1>4. ASSUME NEW u \in User, Refer(u) \/ RegisterTarget(u) \/ RemoveTarget(u) PROVE FALSE
  BY <1>4, Naming DEF SecretsInv
<1>. QED  BY <1>1, <1>2, <1>3, <1>4 DEF SecretsNext, Find, BeginDelete, ReferencedBy, KeyOfTargets

(* The property of Secrets: a secret is overwritten only by a put that was *)
(* told to replace or was raced, and deleted by a request only from under  *)
(* services and targets that came behind its look, targets that were not   *)
(* among those it looked at, and build hosts.                              *)
THEOREM LostOnPurpose == SecretsSpec => SecretsAreLostOnPurpose
<1>. DEFINE OnPurpose ==
       /\ \A p \in Client :
             secret.id # 0 /\ secret'.id = secret.id /\ Puts(p, "upsert") /\ putter'[p] = Quiet
                => putter[p].replace \/ putter[p].raced
       /\ secret.id # 0 /\ secret'.id = 0 /\ (\E p \in Client : Puts(p, "delete") /\ putter'[p] = Quiet)
             => \A u \in User \ HostUser : uses[u] = secret.id => u \in missed
<1>1. SecretsInv /\ [SecretsNext]_secretsVars => [OnPurpose]_secretsVars
  <2>. SUFFICES ASSUME SecretsInv, SecretsNext PROVE OnPurpose
    OBVIOUS
  <2>1. \A p \in Client : secret.id # 0 /\ Puts(p, "upsert") => putter[p].replace \/ putter[p].raced
    BY DEF SecretsInv, FoundNothing
  <2>2. secret.id # 0 /\ secret'.id = 0 /\ (\E p \in Client : Puts(p, "delete") /\ putter'[p] = Quiet)
           => \A u \in User \ HostUser : uses[u] = secret.id => u \in missed
    BY GoneByDelete DEF SecretsInv, Looked
  <2>. QED  BY <2>1, <2>2
<1>. QED  BY <1>1, SecretsInvariant, PTL DEF SecretsSpec, SecretsAreLostOnPurpose

-----------------------------------------------------------------------------
(***************************************************************************)
(* A source keeps its App, for any number of redirects, codes and          *)
(* services.  The setup state is what the argument turns on: it is open    *)
(* only while the source has no App, it is spent by the one handler that   *)
(* goes on to attach, and nothing opens it again.                          *)
(***************************************************************************)
Exchanges == [pc : {"urls", "convert", "look", "attach"}, code : Code]
Exchanging(w) == worker[w] \in Exchanges

SourcesTypeOK ==
    /\ source \in {"none", "gone", NoApp} \cup Code
    /\ state \in {"none", "open", "expired"}
    /\ worker \in [Worker -> {Out} \cup Exchanges \cup [pc : {"delete"}]]

SourcesInv ==
    /\ SourcesTypeOK
    /\ state = "open" => source = NoApp /\ \A w \in Worker : ~Exchanging(w)
    /\ \A w \in Worker : Exchanging(w) => source \in {NoApp, "gone"}
    /\ \A w, v \in Worker : Exchanging(w) /\ Exchanging(v) => w = v
    /\ \A w \in Worker : IsAt(w, "delete") => builds \subseteq unseen

LEMMA SourcesInit_Inv == SourcesInit => SourcesInv
BY SourcesAssumption DEF SourcesInit, SourcesInv, SourcesTypeOK, Exchanging, Exchanges, IsAt, Out

(* What each step of the exchange leaves to the others. *)
LEMMA ExchangeStep_Inv ==
    ASSUME SourcesInv, NEW w \in Worker,
           Exchange(w) \/ ReadUrls(w) \/ Convert(w) \/ LookForCredentials(w) \/ Attach(w)
    PROVE  SourcesInv'
<1>. USE SourcesAssumption DEF SourcesInv, SourcesTypeOK, IsAt
<1>a. /\ \A x \in Exchanges : x.pc # "delete" /\ x.pc # "out"
      /\ \A x \in [pc : {"delete"}] : x.pc = "delete" /\ x \notin Exchanges
      /\ Out.pc = "out" /\ Out \notin Exchanges
  BY DEF Exchanges, Out
<1>b. \A x \in Exchanges, pc \in {"convert", "look", "attach"} : [x EXCEPT !.pc = pc] \in Exchanges
  BY DEF Exchanges
<1>1. CASE Exchange(w)
  <2>1. CASE state = "open"
    <3>1. PICK code \in Code : worker' = [worker EXCEPT ![w] = [pc |-> "urls", code |-> code]]
      BY <1>1, <2>1 DEF Exchange
    <3>2. [pc |-> "urls", code |-> code] \in Exchanges
      BY DEF Exchanges
    <3>. QED  BY <1>1, <2>1, <1>a, <3>1, <3>2 DEF Exchange, Exchanging
  <2>2. CASE state # "open"
    BY <1>1, <2>2 DEF Exchange, Exchanging
  <2>. QED  BY <2>1, <2>2
<1>2. ASSUME worker[w].pc \in {"urls", "convert", "look", "attach"} PROVE Exchanging(w)
  BY <1>2 DEF Exchanging, Out
<1>3. ASSUME Exchanging(w), UNCHANGED <<source, state, builds, unseen>>,
             \/ Leaves(w)
             \/ \E pc \in {"convert", "look", "attach"} : Goes(w, pc)
      PROVE  SourcesInv'
  <2>1. PICK x \in {Out} \cup Exchanges : worker' = [worker EXCEPT ![w] = x]
    BY <1>3, <1>b DEF Exchanging, Leaves, Goes
  <2>2. \A v \in Worker : worker'[v] \in Exchanges => worker[v] \in Exchanges
    BY <1>3, <2>1 DEF Exchanging
  <2>. QED  BY <1>3, <1>a, <2>1, <2>2 DEF Exchanging
<1>4. CASE ReadUrls(w) \/ Convert(w) \/ LookForCredentials(w)
  BY <1>4, <1>2, <1>3 DEF ReadUrls, Convert, LookForCredentials
<1>5. CASE Attach(w)
  <2>1. Exchanging(w) /\ worker[w].code \in Code
    BY <1>5, <1>2 DEF Attach, Exchanging, Exchanges
  <2>2. source' \in {"gone"} \cup Code /\ worker' = [worker EXCEPT ![w] = Out]
    BY <1>5, <2>1 DEF Attach, Leaves, Live
  <2>3. \A v \in Worker : ~(worker'[v] \in Exchanges)
    BY <2>1, <2>2, <1>a DEF Exchanging
  <2>. QED  BY <1>5, <1>a, <2>1, <2>2, <2>3 DEF Attach, Exchanging
<1>. QED  BY <1>1, <1>4, <1>5

LEMMA SourcesNext_Inv == SourcesInv /\ [SourcesNext]_sourcesVars => SourcesInv'
<1>. SUFFICES ASSUME SourcesInv, [SourcesNext]_sourcesVars PROVE SourcesInv'
  OBVIOUS
<1>. USE SourcesAssumption DEF SourcesInv, SourcesTypeOK, IsAt, Live
<1>a. /\ \A x \in Exchanges : x.pc # "delete" /\ x.pc # "out"
      /\ [pc |-> "delete"] \notin Exchanges /\ [pc |-> "delete"] \in [pc : {"delete"}]
      /\ Out.pc = "out" /\ Out \notin Exchanges
  BY DEF Exchanges, Out
<1>1. CASE CreateManifest
  BY <1>1 DEF CreateManifest, Exchanging
<1>2. CASE Expire
  BY <1>2 DEF Expire, Exchanging
<1>3. ASSUME NEW w \in Worker, LookForDependents(w) PROVE SourcesInv'
  BY <1>3, <1>a DEF LookForDependents, Exchanging
<1>4. ASSUME NEW w \in Worker, DeleteSource(w) PROVE SourcesInv'
  BY <1>4, <1>a DEF DeleteSource, Leaves, Exchanging
<1>5. ASSUME NEW s \in Builder,
             CreateService(s) \/ BuildFrom(s) \/ BuildFromElsewhere(s) \/ RemoveService(s)
      PROVE  SourcesInv'
  <2>1. UNCHANGED <<source, state, worker>> /\ (Bind(s) \/ Unbind(s))
    BY <1>5 DEF CreateService, BuildFrom, BuildFromElsewhere, RemoveService
  <2>. QED  BY <2>1 DEF Bind, Unbind, Exchanging
<1>6. CASE UNCHANGED sourcesVars
  BY <1>6 DEF sourcesVars, Exchanging
<1>. QED  BY <1>1, <1>2, <1>3, <1>4, <1>5, <1>6, ExchangeStep_Inv DEF SourcesNext

THEOREM SourcesInvariant == SourcesSpec => []SourcesInv
BY SourcesInit_Inv, SourcesNext_Inv, PTL DEF SourcesSpec

-----------------------------------------------------------------------------
(* The property of Sources: the App of a source never gives way to         *)
(* another, and a source goes only from under services that came to it     *)
(* after its deletion had looked, or were not among those it looked at.    *)
THEOREM StaysBound == SourcesSpec => SourcesStayBound
<1>. DEFINE Bound ==
       /\ source \in Code => source' \in {source, "gone"}
       /\ Live /\ source' = "gone" => builds \subseteq unseen
<1>1. SourcesInv /\ [SourcesNext]_sourcesVars => [Bound]_sourcesVars
  <2>. SUFFICES ASSUME SourcesInv, SourcesNext PROVE Bound
    OBVIOUS
  <2>. USE SourcesAssumption DEF SourcesInv, SourcesTypeOK, IsAt, Live
  <2>1. ASSUME NEW w \in Worker, Attach(w) PROVE Bound
    <3>1. Exchanging(w) /\ worker[w].code \in Code
      BY <2>1 DEF Attach, Exchanging, Exchanges, Out
    <3>. QED  BY <2>1, <3>1 DEF Attach
  <2>2. ASSUME NEW w \in Worker, DeleteSource(w) PROVE Bound
    BY <2>2 DEF DeleteSource
  <2>3. CASE CreateManifest
    BY <2>3 DEF CreateManifest
  <2>4. CASE UNCHANGED source
    BY <2>4
  <2>. QED  BY <2>1, <2>2, <2>3, <2>4
       DEF SourcesNext, Expire, Exchange, ReadUrls, Convert, LookForCredentials,
           LookForDependents, CreateService, BuildFrom, BuildFromElsewhere, RemoveService
<1>. QED  BY <1>1, SourcesInvariant, PTL DEF SourcesSpec, SourcesStayBound

-----------------------------------------------------------------------------
(***************************************************************************)
(* No two services of a target claim the same port, for any number of      *)
(* services, ports and handlers, although no index of the database says    *)
(* so.  It is the write lock that makes the check hold until the commit:   *)
(* replace_routes takes it with its first statement, before it looks.      *)
(***************************************************************************)
IsServiceRow(x) == DOMAIN x = {"unit", "ports"} /\ x = [column \in DOMAIN x |-> x[column]]

IsWork(x) ==
    /\ DOMAIN x = {"pc", "service", "unit", "ask", "new"}
    /\ x = [field \in DOMAIN x |-> x[field]]

ServicesShape ==
    /\ services = [s \in Service |-> services[s]]
    /\ \A s \in Service : HasRow(s) => IsServiceRow(services[s])
    /\ handler = [h \in Handler |-> handler[h]]
    /\ \A h \in Handler : handler[h] = Free \/ IsWork(handler[h])

Unclaimed(h) == handler[h].ask \cap Claimed(handler[h].service) = {}

(* Whoever looks or is about to commit holds the lock, and what it is      *)
(* about to commit no other service has claimed.                           *)
ServicesInv ==
    /\ ServicesShape
    /\ \A h \in Handler : AtStep(h, "check") \/ AtStep(h, "commit") => writer = h
    /\ \A h \in Handler : AtStep(h, "commit") => Unclaimed(h)
    /\ PortsAreNotShared

LEMMA ServicesInit_Inv == ServicesInit => ServicesInv
BY DEF ServicesInit, ServicesInv, ServicesShape, HasRow, AtStep, Free, PortsAreNotShared

(* A handler that goes on, or ends, leaves the others where they are.      *)
LEMMA GoesOn ==
    ASSUME ServicesShape, NEW h \in Handler, NEW pc, GoTo(h, pc), handler[h] # Free
    PROVE  /\ handler' = [g \in Handler |-> handler'[g]]
           /\ \A g \in Handler : handler'[g] = Free \/ IsWork(handler'[g])
           /\ handler'[h].pc = pc
           /\ \A g \in Handler : g # h => handler'[g] = handler[g]
           /\ handler'[h].ask = handler[h].ask /\ handler'[h].service = handler[h].service
<1>1. IsWork(handler[h])
  BY DEF ServicesShape
<1>2. /\ IsWork([handler[h] EXCEPT !.pc = pc])
      /\ [handler[h] EXCEPT !.pc = pc].pc = pc
      /\ [handler[h] EXCEPT !.pc = pc].ask = handler[h].ask
      /\ [handler[h] EXCEPT !.pc = pc].service = handler[h].service
  BY <1>1 DEF IsWork
<1>. QED  BY <1>2 DEF GoTo, ServicesShape

LEMMA Ends ==
    ASSUME ServicesShape, NEW h \in Handler, Finish(h)
    PROVE  /\ handler' = [g \in Handler |-> handler'[g]]
           /\ \A g \in Handler : handler'[g] = Free \/ IsWork(handler'[g])
           /\ handler'[h].pc = "free"
           /\ \A g \in Handler : g # h => handler'[g] = handler[g]
BY DEF Finish, ServicesShape, Free

(* A step that leaves the rows and the lock alone, and the handlers that   *)
(* look or commit.                                                         *)
LEMMA Aside ==
    ASSUME ServicesInv, UNCHANGED <<services, writer>>,
           NEW h \in Handler, NEW pc, pc \notin {"check", "commit"},
           /\ handler' = [g \in Handler |-> handler'[g]]
           /\ \A g \in Handler : handler'[g] = Free \/ IsWork(handler'[g])
           /\ handler'[h].pc = pc
           /\ \A g \in Handler : g # h => handler'[g] = handler[g]
    PROVE  ServicesInv'
<1>1. \A g \in Handler : AtStep(g, "check")' \/ AtStep(g, "commit")' => handler'[g] = handler[g]
  BY DEF AtStep
<1>2. \A s : Claimed(s)' = Claimed(s)
  BY DEF Claimed, HasRow
<1>3. \A g \in Handler : AtStep(g, "commit")' => Unclaimed(g)'
  BY <1>1, <1>2 DEF ServicesInv, Unclaimed, AtStep
<1>4. \A g \in Handler : AtStep(g, "check")' \/ AtStep(g, "commit")' => writer' = g
  BY <1>1 DEF ServicesInv, AtStep
<1>5. ServicesShape' /\ PortsAreNotShared'
  BY DEF ServicesInv, ServicesShape, HasRow, PortsAreNotShared
<1>. QED  BY <1>3, <1>4, <1>5 DEF ServicesInv

(* A handler that may write, and is not itself about to commit, finds no   *)
(* other that is looking or committing.                                    *)
LEMMA Alone ==
    ASSUME ServicesInv, NEW h \in Handler, MayWrite(h),
           ~AtStep(h, "check"), ~AtStep(h, "commit"), NEW g \in Handler
    PROVE  ~AtStep(g, "check") /\ ~AtStep(g, "commit")
BY ServicesAssumption DEF ServicesInv, MayWrite

(* A change of one row that claims no port, by a handler that may write.   *)
LEMMA OneRow ==
    ASSUME ServicesInv, NEW h \in Handler, MayWrite(h),
           ~AtStep(h, "check"), ~AtStep(h, "commit"), UNCHANGED writer,
           NEW s, NEW x, services' = [services EXCEPT ![s] = x],
           s \in Service => \/ x = NoRow
                            \/ IsServiceRow(x) /\ x.ports = {}
                            \/ IsServiceRow(x) /\ HasRow(s) /\ x.ports = services[s].ports,
           /\ handler' = [g \in Handler |-> handler'[g]]
           /\ \A g \in Handler : handler'[g] = Free \/ IsWork(handler'[g])
           /\ handler'[h].pc \notin {"check", "commit"}
           /\ \A g \in Handler : g # h => handler'[g] = handler[g]
    PROVE  ServicesInv'
<1>1. \A g \in Handler : ~AtStep(g, "check")' /\ ~AtStep(g, "commit")'
  BY Alone DEF AtStep
<1>2. ServicesShape'
  BY DEF ServicesInv, ServicesShape, HasRow
<1>3. PortsAreNotShared'
  <2>1. \A o \in Service : o # s => services'[o] = services[o]
    BY DEF ServicesInv, ServicesShape
  <2>2. s \in Service => services'[s] = x
    BY DEF ServicesInv, ServicesShape
  <2>. QED  BY <2>1, <2>2 DEF ServicesInv, PortsAreNotShared, HasRow
<1>. QED  BY <1>1, <1>2, <1>3 DEF ServicesInv

LEMMA RoutesStep_Inv ==
    ASSUME ServicesInv, NEW h \in Handler, BeginReplace(h) \/ CheckPorts(h) \/ CommitRoutes(h)
    PROVE  ServicesInv'
<1>0. ServicesShape /\ (handler[h] = Free => handler[h].pc = "free")
  BY DEF ServicesInv, Free
<1>1. CASE BeginReplace(h)
  <2>1. GoTo(h, "check") /\ handler[h] # Free
    BY <1>1, <1>0 DEF BeginReplace, AtStep
  <2>2. \A g \in Handler : g # h => ~AtStep(g, "check") /\ ~AtStep(g, "commit")
    BY <1>1, ServicesAssumption DEF BeginReplace, ServicesInv
  <2>3. \A g \in Handler : ~AtStep(g, "commit")' /\ (AtStep(g, "check")' => g = h)
    BY <1>0, <2>1, <2>2, GoesOn DEF AtStep
  <2>4. ServicesShape'
    BY <1>0, <1>1, <2>1, GoesOn DEF BeginReplace, ServicesShape, HasRow
  <2>. QED  BY <1>1, <2>3, <2>4 DEF BeginReplace, ServicesInv, HasRow, PortsAreNotShared
<1>2. CASE CheckPorts(h)
  <2>0. writer = h /\ \A g \in Handler : g # h => ~AtStep(g, "check") /\ ~AtStep(g, "commit")
    BY <1>2 DEF CheckPorts, ServicesInv
  <2>1. CASE GoTo(h, "commit") /\ UNCHANGED writer
    <3>1. handler[h] # Free /\ handler'[h].pc = "commit"
      BY <1>2, <1>0, <2>1, GoesOn DEF CheckPorts, AtStep
    <3>2. Unclaimed(h)
      BY <1>2, <1>0, <3>1, Ends, GoesOn DEF CheckPorts, Unclaimed
    <3>3. \A s : Claimed(s)' = Claimed(s)
      BY <1>2 DEF CheckPorts, Claimed, HasRow
    <3>4. Unclaimed(h)'
      BY <1>0, <2>1, <3>1, <3>2, <3>3, GoesOn DEF Unclaimed
    <3>5. \A g \in Handler : g # h => ~AtStep(g, "check")' /\ ~AtStep(g, "commit")'
      BY <1>0, <2>0, <2>1, <3>1, GoesOn DEF AtStep
    <3>6. ServicesShape' /\ PortsAreNotShared'
      BY <1>0, <1>2, <2>1, <3>1, GoesOn
         DEF CheckPorts, ServicesInv, ServicesShape, HasRow, PortsAreNotShared
    <3>. QED  BY <2>0, <2>1, <3>4, <3>5, <3>6 DEF ServicesInv
  <2>2. CASE GoTo(h, "undo") \/ Finish(h)
    <3>1. /\ handler' = [g \in Handler |-> handler'[g]]
          /\ \A g \in Handler : handler'[g] = Free \/ IsWork(handler'[g])
          /\ handler'[h].pc \in {"undo", "free"}
          /\ \A g \in Handler : g # h => handler'[g] = handler[g]
      BY <1>2, <1>0, <2>2, GoesOn, Ends DEF CheckPorts, AtStep
    <3>. QED  BY <1>2, <2>0, <3>1
         DEF CheckPorts, ServicesInv, ServicesShape, HasRow, AtStep, PortsAreNotShared
  <2>. QED  BY <1>2, <2>1, <2>2 DEF CheckPorts
<1>3. CASE CommitRoutes(h)
  <2>0. writer = h /\ \A g \in Handler : g # h => ~AtStep(g, "check") /\ ~AtStep(g, "commit")
    BY <1>3 DEF CommitRoutes, ServicesInv
  <2>1. /\ handler' = [g \in Handler |-> handler'[g]]
        /\ \A g \in Handler : handler'[g] = Free \/ IsWork(handler'[g])
        /\ \A g \in Handler : ~AtStep(g, "check")' /\ ~AtStep(g, "commit")'
    BY <1>3, <1>0, <2>0, Ends DEF CommitRoutes, AtStep
  <2>2. CASE ~(HasRow(handler[h].service) /\ handler[h].service \in Service)
    <3>1. services' = services
      BY <1>3, <2>2 DEF CommitRoutes, ServicesInv, ServicesShape
    <3>. QED  BY <2>1, <3>1 DEF ServicesInv, ServicesShape, HasRow, PortsAreNotShared
  <2>3. CASE HasRow(handler[h].service) /\ handler[h].service \in Service
    <3>. DEFINE s == handler[h].service
    <3>1. IsServiceRow(services[s])
      BY <2>3 DEF ServicesInv, ServicesShape
    <3>2. services'[s].ports = handler[h].ask /\ IsServiceRow(services'[s])
      BY <1>3, <2>3, <3>1 DEF CommitRoutes, ServicesInv, ServicesShape, IsServiceRow
    <3>3. services' = [o \in Service |-> services'[o]] /\ \A o \in Service : o # s => services'[o] = services[o]
      BY <1>3, <2>3 DEF CommitRoutes, ServicesInv, ServicesShape
    <3>4. \A o \in Service : o # s /\ HasRow(o) => handler[h].ask \cap services[o].ports = {}
      BY <1>3 DEF CommitRoutes, ServicesInv, Unclaimed, Claimed
    <3>5. PortsAreNotShared'
      BY <3>2, <3>3, <3>4 DEF ServicesInv, PortsAreNotShared, HasRow
    <3>. QED  BY <2>1, <3>2, <3>3, <3>5 DEF ServicesInv, ServicesShape, HasRow
  <2>. QED  BY <2>2, <2>3
<1>. QED  BY <1>1, <1>2, <1>3

LEMMA RowStep_Inv ==
    ASSUME ServicesInv, NEW h \in Handler,
           Insert(h) \/ Rename(h) \/ UndoCreate(h) \/ DeleteOnly(h) \/ DeleteRow(h)
    PROVE  ServicesInv'
<1>0. ServicesShape
  BY DEF ServicesInv
<1>1. CASE Insert(h)
  <2>1. PICK s \in Service \ born, unit \in Unit, ports \in SUBSET Port :
           /\ services' = [services EXCEPT ![s] = [unit |-> unit, ports |-> {}]]
           /\ handler' = [handler EXCEPT ![h] = IF ports = {} THEN Free
                                                ELSE Working("begin", s, unit, ports, TRUE)]
    BY <1>1 DEF Insert
  <2>2. IsServiceRow([unit |-> unit, ports |-> {}])
    BY DEF IsServiceRow
  <2>3. IsWork(Working("begin", s, unit, ports, TRUE)) /\ Working("begin", s, unit, ports, TRUE).pc = "begin"
    BY DEF IsWork, Working
  <2>4. /\ handler' = [g \in Handler |-> handler'[g]]
        /\ \A g \in Handler : handler'[g] = Free \/ IsWork(handler'[g])
        /\ handler'[h].pc \notin {"check", "commit"}
        /\ \A g \in Handler : g # h => handler'[g] = handler[g]
    BY <1>0, <2>1, <2>3 DEF ServicesShape, Free
  <2>. QED  BY <1>1, <2>1, <2>2, <2>4, OneRow DEF Insert, AtStep
<1>2. CASE Rename(h)
  <2>1. PICK s \in Service, unit \in Unit :
           HasRow(s) /\ services' = [services EXCEPT ![s] = [@ EXCEPT !.unit = unit]]
    BY <1>2 DEF Rename
  <2>2. IsServiceRow(services[s])
    BY <1>0, <2>1 DEF ServicesShape
  <2>3. IsServiceRow([services[s] EXCEPT !.unit = unit]) /\ [services[s] EXCEPT !.unit = unit].ports = services[s].ports
    BY <2>2 DEF IsServiceRow
  <2>. DEFINE x == [services[s] EXCEPT !.unit = unit]
  <2>4. /\ services' = [services EXCEPT ![s] = x]
        /\ IsServiceRow(x) /\ HasRow(s) /\ x.ports = services[s].ports
    BY <2>1, <2>3
  <2>. HIDE DEF x
  <2>5. MayWrite(h) /\ AtStep(h, "free") /\ UNCHANGED <<writer, handler>>
    BY <1>2 DEF Rename
  <2>6. /\ handler' = [g \in Handler |-> handler'[g]]
        /\ \A g \in Handler : handler'[g] = Free \/ IsWork(handler'[g])
        /\ handler'[h].pc \notin {"check", "commit"}
        /\ \A g \in Handler : g # h => handler'[g] = handler[g]
    BY <1>0, <2>5 DEF ServicesShape, AtStep
  <2>7. ~AtStep(h, "check") /\ ~AtStep(h, "commit")
    BY <2>5 DEF AtStep
  <2>. QED  BY <1>0, <2>4, <2>5, <2>6, <2>7, OneRow, Zenon
<1>3. CASE UndoCreate(h) \/ DeleteRow(h)
  <2>1. ~AtStep(h, "check") /\ ~AtStep(h, "commit")
    BY <1>3 DEF UndoCreate, DeleteRow, AtStep
  <2>2. Finish(h) /\ RemoveRow(h) /\ UNCHANGED writer
    BY <1>3 DEF UndoCreate, DeleteRow
  <2>3. MayWrite(h) /\ services' = [services EXCEPT ![handler[h].service] = NoRow]
    BY <2>2 DEF RemoveRow
  <2>. QED  BY <1>0, <2>1, <2>2, <2>3, Ends, OneRow
<1>4. CASE DeleteOnly(h)
  BY <1>0, <1>4, OneRow DEF DeleteOnly, AtStep, ServicesShape
<1>. QED  BY <1>1, <1>2, <1>3, <1>4

LEMMA OtherStep_Inv ==
    ASSUME ServicesInv, NEW h \in Handler,
           \/ UpdateRoutes(h) \/ DeleteService(h) \/ ConnectToDelete(h) \/ Disable(h) \/ Unlink(h)
           \/ DeployService(h) \/ RecordRelease(h) \/ WriteUnit(h) \/ StartUnit(h) \/ StopUnit(h)
           \/ UnitAction(h)
    PROVE  ServicesInv'
<1>0. ServicesShape /\ (handler[h] = Free => handler[h].pc = "free")
  BY DEF ServicesInv, Free
<1>1. ASSUME NEW pc \in {"begin", "connect", "record", "start", "stop"}, NEW s, NEW ask, Receive(h, pc, s, ask)
      PROVE  ServicesInv'
  <2>1. IsWork(Working(pc, s, services[s].unit, ask, FALSE)) /\ Working(pc, s, services[s].unit, ask, FALSE).pc = pc
    BY DEF IsWork, Working
  <2>. QED  BY <1>0, <1>1, <2>1, Aside DEF Receive, ServicesShape
<1>2. ASSUME NEW pc \in {"disable", "unlink", "row", "unit", "start"}, handler[h] # Free, GoTo(h, pc),
             UNCHANGED <<services, writer>>
      PROVE  ServicesInv'
  BY <1>0, <1>2, GoesOn, Aside
<1>3. ASSUME Finish(h), UNCHANGED <<services, writer>> PROVE ServicesInv'
  BY <1>0, <1>3, Ends, Aside
<1>. QED  BY <1>0, <1>1, <1>2, <1>3
     DEF UpdateRoutes, DeleteService, ConnectToDelete, Disable, Unlink, DeployService, RecordRelease,
         WriteUnit, StartUnit, StopUnit, UnitAction, AtStep

LEMMA ServicesNext_Inv == ServicesInv /\ [ServicesNext]_servicesVars => ServicesInv'
<1>1. ASSUME ServicesInv, Die PROVE ServicesInv'
  BY <1>1 DEF Die, ServicesInv, ServicesShape, HasRow, AtStep, Free, PortsAreNotShared
<1>2. ASSUME ServicesInv, UNCHANGED servicesVars PROVE ServicesInv'
  BY <1>2 DEF servicesVars, ServicesInv, ServicesShape, HasRow, AtStep, Unclaimed, Claimed, PortsAreNotShared
<1>. QED  BY <1>1, <1>2, RoutesStep_Inv, RowStep_Inv, OtherStep_Inv DEF ServicesNext

(* The property of Services: two services never claim the same port. *)
THEOREM PortsStayApart == ServicesSpec => []PortsAreNotShared
<1>1. ServicesInv => PortsAreNotShared
  BY DEF ServicesInv
<1>. QED  BY <1>1, ServicesInit_Inv, ServicesNext_Inv, PTL DEF ServicesSpec

-----------------------------------------------------------------------------
(***************************************************************************)
(* Until something excuses it, what runs has a row, for any services,      *)
(* units and handlers.  It is not enough that a running unit is named: a   *)
(* handler may be about to take that row away.  So every running unit is   *)
(* named by a row that no handler is leaving, and every handler is at a    *)
(* row that still says what it read.                                       *)
(***************************************************************************)
LeavesRow(x) ==
    \/ x.pc \in {"unlink", "row", "undo"}
    \/ x.pc \in {"begin", "check", "commit"} /\ x.new

Kept(unit, table, work) ==
    \E s \in Service : /\ table[s] # NoRow /\ table[s].unit = unit
                       /\ \A h \in Handler : ~(LeavesRow(work[h]) /\ work[h].service = s)

Stands(x, table) ==
    x.pc # "free" => /\ x.service \in Service /\ table[x.service] # NoRow
                     /\ table[x.service].unit = x.unit

\* What the columns and the requests say of ports and units.
ServiceRow == [unit : Unit, ports : SUBSET Port]

RowsType ==
    /\ \A s \in Service : HasRow(s) => services[s] \in ServiceRow
    /\ \A h \in Handler : handler[h] # Free => handler[h].ask \in SUBSET Port

UnitsInv ==
    /\ host = [files |-> host.files, runs |-> host.runs]
    /\ \A s \in Service : HasRow(s) => s \in born
    /\ reason = {} => /\ \A h \in Handler : Stands(handler[h], services)
                      /\ \A unit \in host.runs : Kept(unit, services, handler)

LEMMA UnitsInit_Inv == ServicesInit => RowsType /\ UnitsInv
BY DEF ServicesInit, RowsType, UnitsInv, HasRow, Stands, Free

LEMMA RowsStay == ServicesInv /\ RowsType /\ [ServicesNext]_servicesVars => RowsType'
<1>. SUFFICES ASSUME ServicesInv, RowsType, [ServicesNext]_servicesVars PROVE RowsType'
  OBVIOUS
<1>0. ServicesShape /\ \A h \in Handler : handler[h] = Free => handler[h].pc = "free"
  BY DEF ServicesInv, Free
<1>1. \A s \in Service : services'[s] \in ServiceRow \cup {services[s], NoRow}
  <2>1. ASSUME NEW h \in Handler, Insert(h) PROVE \A s \in Service : services'[s] \in ServiceRow \cup {services[s]}
    <3>1. PICK s \in Service \ born, unit \in Unit :
             services' = [services EXCEPT ![s] = [unit |-> unit, ports |-> {}]]
      BY <2>1 DEF Insert
    <3>. QED  BY <1>0, <3>1 DEF ServicesShape, ServiceRow
  <2>2. ASSUME NEW h \in Handler, Rename(h) PROVE \A s \in Service : services'[s] \in ServiceRow \cup {services[s]}
    <3>1. PICK s \in Service, unit \in Unit :
             HasRow(s) /\ services' = [services EXCEPT ![s] = [@ EXCEPT !.unit = unit]]
      BY <2>2 DEF Rename
    <3>2. [services[s] EXCEPT !.unit = unit] \in ServiceRow
      BY <3>1 DEF RowsType, ServiceRow
    <3>. QED  BY <1>0, <3>1, <3>2 DEF ServicesShape
  <2>3. ASSUME NEW h \in Handler, CommitRoutes(h)
        PROVE  \A s \in Service : services'[s] \in ServiceRow \cup {services[s]}
    <3>. DEFINE t == handler[h].service
    <3>1. \/ services' = services
          \/ HasRow(t) /\ services' = [services EXCEPT ![t] = [@ EXCEPT !.ports = handler[h].ask]]
      BY <2>3 DEF CommitRoutes
    <3>2. handler[h].ask \in SUBSET Port
      BY <1>0, <2>3 DEF CommitRoutes, AtStep, RowsType
    <3>3. t \in Service /\ HasRow(t) => [services[t] EXCEPT !.ports = handler[h].ask] \in ServiceRow
      BY <3>2 DEF RowsType, ServiceRow
    <3>. QED  BY <1>0, <3>1, <3>3 DEF ServicesShape
  <2>4. ASSUME NEW h \in Handler, UndoCreate(h) \/ DeleteRow(h) \/ DeleteOnly(h)
        PROVE  \A s \in Service : services'[s] \in {services[s], NoRow}
    <3>1. \E t : services' = [services EXCEPT ![t] = NoRow]
      BY <2>4 DEF UndoCreate, DeleteRow, DeleteOnly, RemoveRow
    <3>. QED  BY <1>0, <3>1 DEF ServicesShape
  <2>5. CASE UNCHANGED services
    BY <2>5
  <2>. QED  BY <2>1, <2>2, <2>3, <2>4, <2>5
       DEF ServicesNext, servicesVars, Die, UpdateRoutes, BeginReplace, CheckPorts, DeleteService,
           ConnectToDelete, Disable, Unlink, DeployService, RecordRelease, WriteUnit, StartUnit,
           StopUnit, UnitAction, Receive
<1>2. \A g \in Handler : handler'[g] # Free => handler'[g].ask \in SUBSET Port
  <2>. DEFINE Good == \A g \in Handler : handler'[g] # Free => handler'[g].ask \in SUBSET Port
  <2>1. ASSUME NEW h \in Handler, NEW pc, handler[h] # Free, GoTo(h, pc) PROVE Good
    BY <1>0, <2>1, GoesOn DEF RowsType
  <2>2. ASSUME NEW h \in Handler, Finish(h) PROVE Good
    BY <1>0, <2>2 DEF RowsType, Finish, ServicesShape
  <2>3. ASSUME NEW h \in Handler, NEW pc, NEW s, NEW unit, NEW ask \in SUBSET Port, NEW new,
               handler' = [handler EXCEPT ![h] = Working(pc, s, unit, ask, new)]
        PROVE  Good
    BY <1>0, <2>3 DEF RowsType, Working, ServicesShape
  <2>4. ASSUME UNCHANGED handler PROVE Good
    BY <2>4 DEF RowsType
  <2>5. ASSUME Die PROVE Good
    BY <2>5 DEF Die
  <2>6. ASSUME NEW h \in Handler, Insert(h) PROVE Good
    <3>1. PICK s \in Service \ born, unit \in Unit, ports \in SUBSET Port :
             handler' = [handler EXCEPT ![h] = IF ports = {} THEN Free
                                               ELSE Working("begin", s, unit, ports, TRUE)]
      BY <2>6 DEF Insert
    <3>2. CASE ports = {}
      BY <2>2, <3>1, <3>2 DEF Finish
    <3>3. CASE ports # {}
      BY <2>3, <3>1, <3>3
    <3>. QED  BY <3>2, <3>3
  <2>7. ASSUME NEW h \in Handler, NEW pc, NEW s, NEW ask \in SUBSET Port, Receive(h, pc, s, ask) PROVE Good
    BY <2>3, <2>7 DEF Receive
  <2>. HIDE DEF Good
  <2>8. ASSUME NEW h \in Handler, UpdateRoutes(h) \/ DeleteService(h) \/ DeployService(h) \/ UnitAction(h)
        PROVE  Good
    BY <2>7, <2>8 DEF UpdateRoutes, DeleteService, DeployService, UnitAction
  <2>9. ASSUME NEW h \in Handler,
               \/ BeginReplace(h) \/ CheckPorts(h) \/ CommitRoutes(h) \/ UndoCreate(h)
               \/ ConnectToDelete(h) \/ Disable(h) \/ Unlink(h) \/ DeleteRow(h)
               \/ RecordRelease(h) \/ WriteUnit(h) \/ StartUnit(h) \/ StopUnit(h)
        PROVE  Good
    <3>1. handler[h].pc # "free" /\ (Finish(h) \/ \E pc : GoTo(h, pc))
      <4>1. CASE BeginReplace(h) \/ CheckPorts(h) \/ CommitRoutes(h) \/ UndoCreate(h)
        BY <4>1 DEF BeginReplace, CheckPorts, CommitRoutes, UndoCreate, AtStep
      <4>2. CASE ConnectToDelete(h) \/ Disable(h) \/ Unlink(h) \/ DeleteRow(h)
        <5>1. handler[h].pc # "free"
          BY <4>2 DEF ConnectToDelete, Disable, Unlink, DeleteRow, AtStep
        <5>2. Finish(h) \/ GoTo(h, "disable") \/ GoTo(h, "unlink") \/ GoTo(h, "row")
          BY <4>2 DEF ConnectToDelete, Disable, Unlink, DeleteRow
        <5>. QED  BY <5>1, <5>2
      <4>3. CASE RecordRelease(h) \/ WriteUnit(h)
        BY <4>3 DEF RecordRelease, WriteUnit, AtStep
      <4>4. CASE StartUnit(h) \/ StopUnit(h)
        BY <4>4 DEF StartUnit, StopUnit, AtStep
      <4>. QED  BY <2>9, <4>1, <4>2, <4>3, <4>4
    <3>. QED  BY <1>0, <2>1, <2>2, <3>1
  <2>10. ASSUME NEW h \in Handler, Rename(h) \/ DeleteOnly(h) PROVE Good
    BY <2>4, <2>10 DEF Rename, DeleteOnly
  <2>11. ASSUME UNCHANGED servicesVars PROVE Good
    BY <2>4, <2>11 DEF servicesVars
  <2>. QED  BY <2>5, <2>6, <2>8, <2>9, <2>10, <2>11 DEF ServicesNext, Good
<1>. QED  BY <1>1, <1>2 DEF RowsType, HasRow

(* One handler moves, and no row is taken away or renamed.                 *)
LEMMA OneWorker ==
    ASSUME ServicesShape, UnitsInv, NEW h \in Handler, NEW x,
           handler' = [handler EXCEPT ![h] = x], reason \subseteq reason',
           host' = [files |-> host'.files, runs |-> host'.runs], host'.runs \subseteq host.runs,
           \A s \in Service : services'[s] # NoRow => s \in born',
           \A s \in Service : HasRow(s) => services'[s] # NoRow /\ services'[s].unit = services[s].unit,
           reason' = {} => Stands(x, services'),
           reason' = {} /\ LeavesRow(x) =>
              \/ LeavesRow(handler[h]) /\ x.service = handler[h].service
              \/ ~HasRow(x.service)
              \/ HasRow(x.service) /\ services[x.service].unit \notin host'.runs
    PROVE  UnitsInv'
<1>1. \A g \in Handler : handler'[g] = IF g = h THEN x ELSE handler[g]
  BY DEF ServicesShape
<1>2. ASSUME reason' = {}, NEW g \in Handler PROVE Stands(handler'[g], services')
  <2>1. CASE g = h
    BY <1>1, <1>2, <2>1
  <2>2. CASE g # h
    <3>1. Stands(handler[g], services)
      BY <1>2 DEF UnitsInv
    <3>. QED  BY <1>1, <2>2, <3>1 DEF Stands, HasRow
  <2>. QED  BY <2>1, <2>2
<1>3. ASSUME reason' = {}, NEW unit \in host'.runs PROVE Kept(unit, services', handler')
  <2>1. PICK s \in Service :
           /\ services[s] # NoRow /\ services[s].unit = unit
           /\ \A g \in Handler : ~(LeavesRow(handler[g]) /\ handler[g].service = s)
    BY <1>3 DEF UnitsInv, Kept
  <2>2. services'[s] # NoRow /\ services'[s].unit = unit
    BY <2>1 DEF HasRow
  <2>3. ~(LeavesRow(x) /\ x.service = s)
    BY <1>3, <2>1 DEF HasRow
  <2>4. \A g \in Handler : ~(LeavesRow(handler'[g]) /\ handler'[g].service = s)
    BY <1>1, <2>1, <2>3
  <2>. QED  BY <2>2, <2>4 DEF Kept
<1>. QED  BY <1>2, <1>3 DEF UnitsInv, HasRow

(* A handler that goes on, whatever it leaves alone or stops.              *)
LEMMA WorkerGoesOn ==
    ASSUME ServicesShape, UnitsInv, NEW h \in Handler, NEW pc, handler[h] # Free, GoTo(h, pc),
           handler[h].pc # "free", UNCHANGED <<services, born>>, reason \subseteq reason',
           host' = [files |-> host'.files, runs |-> host'.runs], host'.runs \subseteq host.runs,
           LeavesRow([pc |-> pc, new |-> handler[h].new]) =>
              LeavesRow(handler[h]) \/ handler[h].unit \notin host'.runs
    PROVE  UnitsInv'
<1>. DEFINE x == [handler[h] EXCEPT !.pc = pc]
<1>1. IsWork(handler[h])
  BY DEF ServicesShape
<1>2. /\ x.pc = pc /\ x.service = handler[h].service /\ x.unit = handler[h].unit
      /\ x.new = handler[h].new
  BY <1>1 DEF IsWork
<1>3. handler' = [handler EXCEPT ![h] = x]
  BY DEF GoTo
<1>. HIDE DEF x
<1>4. reason' = {} => Stands(handler[h], services)
  BY DEF UnitsInv
<1>5. reason' = {} => Stands(x, services')
  BY <1>2, <1>4 DEF Stands
<1>6. reason' = {} /\ LeavesRow(x) =>
         \/ LeavesRow(handler[h]) /\ x.service = handler[h].service
         \/ HasRow(x.service) /\ services[x.service].unit \notin host'.runs
  BY <1>2, <1>4 DEF Stands, HasRow, LeavesRow
<1>7. /\ \A s \in Service : services'[s] # NoRow => s \in born'
      /\ \A s \in Service : HasRow(s) => services'[s] # NoRow /\ services'[s].unit = services[s].unit
  BY DEF UnitsInv, HasRow
<1>. QED  BY <1>3, <1>5, <1>6, <1>7, OneWorker

(* A handler that is done, or that has read a row.                         *)
LEMMA WorkerComesOrGoes ==
    ASSUME ServicesShape, UnitsInv, NEW h \in Handler,
           \/ Finish(h)
           \/ \E s \in Service, pc \in {"begin", "connect", "record", "start", "stop"} : \E ask :
                 /\ HasRow(s)
                 /\ handler' = [handler EXCEPT ![h] = Working(pc, s, services[s].unit, ask, FALSE)],
           UNCHANGED <<services, born>>, reason \subseteq reason',
           host' = [files |-> host'.files, runs |-> host'.runs], host'.runs \subseteq host.runs
    PROVE  UnitsInv'
<1>0. /\ \A s \in Service : services'[s] # NoRow => s \in born'
      /\ \A s \in Service : HasRow(s) => services'[s] # NoRow /\ services'[s].unit = services[s].unit
  BY DEF UnitsInv, HasRow
<1>1. CASE Finish(h)
  <2>1. Stands(Free, services') /\ ~LeavesRow(Free)
    BY DEF Stands, LeavesRow, Free
  <2>. QED  BY <1>0, <1>1, <2>1, OneWorker DEF Finish
<1>2. ASSUME NEW s \in Service, NEW pc \in {"begin", "connect", "record", "start", "stop"}, NEW ask,
             HasRow(s), handler' = [handler EXCEPT ![h] = Working(pc, s, services[s].unit, ask, FALSE)]
      PROVE  UnitsInv'
  <2>. DEFINE x == Working(pc, s, services[s].unit, ask, FALSE)
  <2>1. x.pc = pc /\ x.service = s /\ x.unit = services[s].unit /\ x.new = FALSE
    BY DEF Working
  <2>2. handler' = [handler EXCEPT ![h] = x]
    BY <1>2
  <2>. HIDE DEF x
  <2>3. Stands(x, services') /\ ~LeavesRow(x)
    BY <1>2, <2>1 DEF Stands, LeavesRow, HasRow
  <2>. QED  BY <1>0, <2>2, <2>3, OneWorker
<1>. QED  BY <1>1, <1>2

(* A row goes.                                                             *)
LEMMA RowGoes ==
    ASSUME ServicesShape, UnitsInv, NEW h \in Handler, LeavesRow(handler[h]),
           RemoveRow(h), Finish(h), UNCHANGED <<born, host>>
    PROVE  UnitsInv'
<1>. DEFINE t == handler[h].service
<1>1. /\ \A g \in Handler : handler'[g] = IF g = h THEN Free ELSE handler[g]
      /\ \A s \in Service : services'[s] = IF s = t THEN NoRow ELSE services[s]
  BY DEF RemoveRow, Finish, ServicesShape
<1>2. reason' = {} => reason = {} /\ \A g \in Handler \ {h} : handler[g].pc = "free" \/ handler[g].service # t
  BY DEF RemoveRow, Race, Busy, AtStep
<1>3. ASSUME reason' = {}, NEW g \in Handler PROVE Stands(handler'[g], services')
  <2>1. CASE g = h
    BY <1>1, <2>1 DEF Stands, Free
  <2>2. CASE g # h
    <3>1. Stands(handler[g], services)
      BY <1>2, <1>3 DEF UnitsInv
    <3>. QED  BY <1>1, <1>2, <1>3, <2>2, <3>1 DEF Stands
  <2>. QED  BY <2>1, <2>2
<1>4. ASSUME reason' = {}, NEW unit \in host'.runs PROVE Kept(unit, services', handler')
  <2>1. PICK s \in Service :
           /\ services[s] # NoRow /\ services[s].unit = unit
           /\ \A g \in Handler : ~(LeavesRow(handler[g]) /\ handler[g].service = s)
    BY <1>2, <1>4 DEF UnitsInv, Kept
  <2>2. s # t
    BY <2>1
  <2>3. services'[s] = services[s] /\ ~LeavesRow(Free)
    BY <1>1, <2>2 DEF LeavesRow, Free
  <2>4. \A g \in Handler : ~(LeavesRow(handler'[g]) /\ handler'[g].service = s)
    BY <1>1, <2>1, <2>3
  <2>. QED  BY <2>1, <2>3, <2>4 DEF Kept
<1>. QED  BY <1>1, <1>3, <1>4 DEF UnitsInv, HasRow

(* A unit starts.                                                          *)
LEMMA UnitStarts ==
    ASSUME ServicesShape, UnitsInv, NEW h \in Handler, StartUnit(h)
    PROVE  UnitsInv'
<1>. DEFINE t == handler[h].service
            u == handler[h].unit
<1>0. /\ handler[h].pc = "start" /\ UNCHANGED <<services, born>>
      /\ host' = [files |-> host'.files, runs |-> host'.runs] /\ host'.runs \subseteq host.runs \cup {u}
  BY DEF StartUnit, UnitsInv, AtStep
<1>1. \A g \in Handler : handler'[g] = IF g = h THEN Free ELSE handler[g]
  BY DEF StartUnit, Finish, ServicesShape
<1>2. reason' = {} => reason = {} /\ \A g \in Handler \ {h} : handler[g].pc = "free" \/ handler[g].service # t
  BY DEF StartUnit, Race, Busy, AtStep
<1>3. ASSUME reason' = {}, NEW g \in Handler PROVE Stands(handler'[g], services')
  <2>1. CASE g = h
    BY <1>1, <2>1 DEF Stands, Free
  <2>2. CASE g # h
    BY <1>0, <1>1, <1>2, <1>3, <2>2 DEF UnitsInv
  <2>. QED  BY <2>1, <2>2
<1>f. ~LeavesRow(Free) /\ \A g \in Handler : handler[g].pc = "free" => ~LeavesRow(handler[g])
  BY DEF LeavesRow, Free
<1>4. ASSUME reason' = {}, NEW unit \in host'.runs PROVE Kept(unit, services', handler')
  <2>1. CASE unit \in host.runs
    <3>1. PICK s \in Service :
             /\ services[s] # NoRow /\ services[s].unit = unit
             /\ \A g \in Handler : ~(LeavesRow(handler[g]) /\ handler[g].service = s)
      BY <1>2, <1>4, <2>1 DEF UnitsInv, Kept
    <3>2. \A g \in Handler : ~(LeavesRow(handler'[g]) /\ handler'[g].service = s)
      BY <1>1, <1>f, <3>1
    <3>. QED  BY <1>0, <3>1, <3>2 DEF Kept
  <2>2. CASE unit = u
    <3>1. t \in Service /\ services[t] # NoRow /\ services[t].unit = u
      BY <1>0, <1>2, <1>4 DEF UnitsInv, Stands
    <3>2. \A g \in Handler : ~(LeavesRow(handler'[g]) /\ handler'[g].service = t)
      BY <1>1, <1>2, <1>4, <1>f
    <3>. QED  BY <1>0, <2>2, <3>1, <3>2 DEF Kept
  <2>. QED  BY <1>0, <2>1, <2>2
<1>. QED  BY <1>0, <1>3, <1>4 DEF UnitsInv, HasRow

LEMMA UnitsNext_Inv == ServicesInv /\ RowsType /\ UnitsInv /\ [ServicesNext]_servicesVars => UnitsInv'
<1>. SUFFICES ASSUME ServicesInv, RowsType, UnitsInv, [ServicesNext]_servicesVars PROVE UnitsInv'
  OBVIOUS
<1>0. /\ ServicesShape
      /\ host = [files |-> host.files, runs |-> host.runs]
      /\ \A h \in Handler : handler[h] = Free => handler[h].pc = "free"
  BY DEF ServicesInv, UnitsInv, Free
<1>h. UNCHANGED host => host' = [files |-> host'.files, runs |-> host'.runs] /\ host'.runs \subseteq host.runs
  BY <1>0
<1>1. CASE UNCHANGED servicesVars
  BY <1>1 DEF servicesVars, UnitsInv, HasRow
<1>2. CASE Die
  <2>1. /\ \A h \in Handler : handler'[h] = Free
        /\ UNCHANGED <<services, born, host, reason>> /\ ~LeavesRow(Free)
    BY <1>2 DEF Die, LeavesRow, Free
  <2>2. \A h \in Handler : Stands(handler'[h], services')
    BY <2>1 DEF Stands, Free
  <2>3. reason = {} => \A unit \in host.runs : Kept(unit, services', handler')
    BY <2>1 DEF UnitsInv, Kept
  <2>. QED  BY <2>1, <2>2, <2>3 DEF UnitsInv, HasRow
<1>3. ASSUME NEW h \in Handler, Insert(h) PROVE UnitsInv'
  <2>1. PICK s \in Service \ born, unit \in Unit, ports \in SUBSET Port :
           /\ services' = [services EXCEPT ![s] = [unit |-> unit, ports |-> {}]]
           /\ born' = born \cup {s}
           /\ handler' = [handler EXCEPT ![h] = IF ports = {} THEN Free
                                                ELSE Working("begin", s, unit, ports, TRUE)]
           /\ UNCHANGED <<host, reason>>
    BY <1>3 DEF Insert
  <2>. DEFINE x == IF ports = {} THEN Free ELSE Working("begin", s, unit, ports, TRUE)
  <2>2. \/ x.pc = "free"
        \/ x.pc = "begin" /\ x.service = s /\ x.unit = unit
    BY DEF Free, Working
  <2>3. handler' = [handler EXCEPT ![h] = x]
    BY <2>1
  <2>. HIDE DEF x
  <2>4. ~HasRow(s)
    BY DEF UnitsInv
  <2>5. \A o \in Service : services'[o] = IF o = s THEN [unit |-> unit, ports |-> {}] ELSE services[o]
    BY <1>0, <2>1 DEF ServicesShape
  <2>6. [unit |-> unit, ports |-> {}] # NoRow
    <3>1. [unit |-> unit, ports |-> {}] \in [unit : Unit, ports : SUBSET Port]
      OBVIOUS
    <3>. QED  BY <3>1, ServicesAssumption
  <2>7. /\ \A o \in Service : services'[o] # NoRow => o \in born'
        /\ \A o \in Service : HasRow(o) => services'[o] # NoRow /\ services'[o].unit = services[o].unit
    BY <2>1, <2>4, <2>5 DEF UnitsInv, HasRow
  <2>8. Stands(x, services')
    BY <2>2, <2>5, <2>6 DEF Stands
  <2>9. LeavesRow(x) => ~HasRow(x.service)
    BY <2>2, <2>4 DEF LeavesRow
  <2>. QED  BY <1>0, <1>h, <2>1, <2>3, <2>7, <2>8, <2>9, OneWorker
<1>4. ASSUME NEW h \in Handler, Rename(h) PROVE UnitsInv'
  <2>1. PICK s \in Service, unit \in Unit :
           /\ HasRow(s) /\ handler[h].pc = "free"
           /\ services' = [services EXCEPT ![s] = [@ EXCEPT !.unit = unit]]
           /\ reason' = reason \cup (IF services[s].unit \in host.files \cup host.runs \/ Busy(s, h)
                                     THEN {"renamed"} ELSE {})
           /\ UNCHANGED <<born, host, handler>>
    BY <1>4 DEF Rename, AtStep
  <2>2. \A o \in Service : o # s => services'[o] = services[o]
    BY <1>0, <2>1 DEF ServicesShape
  <2>3. reason' = {} => /\ reason = {} /\ services[s].unit \notin host.runs
                        /\ \A g \in Handler : handler[g].pc = "free" \/ handler[g].service # s
    BY <2>1 DEF Busy, AtStep
  <2>4. ASSUME reason' = {}, NEW g \in Handler PROVE Stands(handler'[g], services')
    BY <2>1, <2>2, <2>3, <2>4 DEF UnitsInv, Stands
  <2>5. ASSUME reason' = {}, NEW u \in host'.runs PROVE Kept(u, services', handler')
    <3>1. PICK o \in Service :
             /\ services[o] # NoRow /\ services[o].unit = u
             /\ \A g \in Handler : ~(LeavesRow(handler[g]) /\ handler[g].service = o)
      BY <2>1, <2>3, <2>5 DEF UnitsInv, Kept
    <3>2. o # s
      BY <2>1, <2>3, <2>5, <3>1
    <3>. QED  BY <2>1, <2>2, <3>1, <3>2 DEF Kept
  <2>. QED  BY <2>1, <2>2, <2>4, <2>5 DEF UnitsInv, HasRow
<1>5. ASSUME NEW h \in Handler, NEW pc \in {"begin", "connect", "record", "start", "stop"},
             NEW s \in Service, NEW ask, Receive(h, pc, s, ask)
      PROVE  UnitsInv'
  <2>1. /\ HasRow(s) /\ handler' = [handler EXCEPT ![h] = Working(pc, s, services[s].unit, ask, FALSE)]
        /\ UNCHANGED <<services, born, host, reason>>
    BY <1>5 DEF Receive
  <2>. QED  BY <1>0, <1>h, <2>1, WorkerComesOrGoes
<1>6. ASSUME NEW h \in Handler, Finish(h), UNCHANGED <<services, born>>, reason \subseteq reason',
             host' = [files |-> host'.files, runs |-> host'.runs], host'.runs \subseteq host.runs
      PROVE  UnitsInv'
  BY <1>0, <1>6, WorkerComesOrGoes
<1>7. ASSUME NEW h \in Handler, BeginReplace(h) \/ CheckPorts(h) \/ CommitRoutes(h) PROVE UnitsInv'
  <2>1. CASE BeginReplace(h)
    <3>1. /\ handler[h].pc = "begin" /\ GoTo(h, "check") /\ UNCHANGED <<services, born, host, reason>>
      BY <2>1 DEF BeginReplace, AtStep
    <3>2. LeavesRow([pc |-> "check", new |-> handler[h].new]) => LeavesRow(handler[h])
      BY <3>1 DEF LeavesRow
    <3>. QED  BY <1>0, <1>h, <3>1, <3>2, WorkerGoesOn
  <2>2. CASE CheckPorts(h)
    <3>1. /\ handler[h].pc = "check" /\ UNCHANGED <<services, born, host, reason>>
          /\ GoTo(h, "commit") \/ (handler[h].new /\ GoTo(h, "undo")) \/ Finish(h)
      BY <2>2 DEF CheckPorts, AtStep
    <3>2. /\ LeavesRow([pc |-> "commit", new |-> handler[h].new]) => LeavesRow(handler[h])
          /\ handler[h].new => LeavesRow(handler[h])
      BY <3>1 DEF LeavesRow
    <3>. QED  BY <1>0, <1>6, <1>h, <3>1, <3>2, WorkerGoesOn
  <2>3. CASE CommitRoutes(h)
    <3>. DEFINE t == handler[h].service
    <3>1. /\ Finish(h) /\ UNCHANGED <<born, host, reason>>
          /\ services' = IF HasRow(t) THEN [services EXCEPT ![t] = [@ EXCEPT !.ports = handler[h].ask]]
                         ELSE services
      BY <2>3 DEF CommitRoutes
    <3>2. \A s \in Service : services'[s] # NoRow => HasRow(s)
      BY <1>0, <3>1 DEF ServicesShape, HasRow
    <3>3. ASSUME NEW s \in Service, HasRow(s)
          PROVE  services'[s] # NoRow /\ services'[s].unit = services[s].unit
      <4>1. CASE s = t
        <5>1. services'[s] = [services[s] EXCEPT !.ports = handler[h].ask]
          BY <1>0, <3>1, <3>3, <4>1 DEF ServicesShape
        <5>2. handler[h].ask \in SUBSET Port
          BY <1>0, <2>3 DEF CommitRoutes, AtStep, RowsType
        <5>3. services[s] \in ServiceRow
          BY <3>3 DEF RowsType
        <5>4. services'[s] \in ServiceRow /\ services'[s].unit = services[s].unit
          BY <5>1, <5>2, <5>3 DEF ServiceRow
        <5>. QED  BY <5>4, ServicesAssumption DEF ServiceRow
      <4>2. CASE s # t
        BY <1>0, <3>1, <3>3, <4>2 DEF ServicesShape, HasRow
      <4>. QED  BY <4>1, <4>2
    <3>4. Stands(Free, services') /\ ~LeavesRow(Free)
      BY DEF Stands, LeavesRow, Free
    <3>5. \A s \in Service : services'[s] # NoRow => s \in born'
      BY <3>1, <3>2 DEF UnitsInv
    <3>. QED  BY <1>0, <1>h, <3>1, <3>3, <3>4, <3>5, OneWorker DEF Finish
  <2>. QED  BY <1>7, <2>1, <2>2, <2>3
<1>8. ASSUME NEW h \in Handler, UndoCreate(h) \/ DeleteRow(h) PROVE UnitsInv'
  <2>1. /\ handler[h].pc \in {"undo", "row"} /\ RemoveRow(h) /\ Finish(h)
        /\ UNCHANGED <<born, host>>
    BY <1>8 DEF UndoCreate, DeleteRow, AtStep
  <2>2. LeavesRow(handler[h])
    BY <2>1 DEF LeavesRow
  <2>. QED  BY <1>0, <2>1, <2>2, RowGoes
<1>9. ASSUME NEW h \in Handler, DeleteOnly(h) PROVE UnitsInv'
  <2>1. PICK s \in Service : services' = [services EXCEPT ![s] = NoRow]
    BY <1>9 DEF DeleteOnly
  <2>2. /\ reason' # {} /\ UNCHANGED <<born, host>>
        /\ \A o \in Service : services'[o] \in {services[o], NoRow}
    BY <1>0, <1>9, <2>1 DEF DeleteOnly, ServicesShape
  <2>. QED  BY <2>2 DEF UnitsInv, HasRow
<1>10. ASSUME NEW h \in Handler, ConnectToDelete(h) \/ Disable(h) \/ Unlink(h) PROVE UnitsInv'
  <2>1. CASE ConnectToDelete(h)
    <3>1. /\ handler[h].pc = "connect" /\ UNCHANGED <<services, born, host, reason>>
          /\ GoTo(h, "disable") \/ Finish(h)
      BY <2>1 DEF ConnectToDelete, AtStep
    <3>2. ~LeavesRow([pc |-> "disable", new |-> handler[h].new])
      BY DEF LeavesRow
    <3>. QED  BY <1>0, <1>6, <1>h, <3>1, <3>2, WorkerGoesOn
  <2>2. CASE Disable(h)
    <3>1. /\ handler[h].pc = "disable" /\ GoTo(h, "unlink") /\ UNCHANGED <<services, born>>
          /\ \/ host' = [host EXCEPT !.runs = @ \ {handler[h].unit}] /\ UNCHANGED reason
             \/ reason' = reason \cup {"lost"} /\ UNCHANGED host
      BY <2>2 DEF Disable, AtStep
    <3>2. CASE host' = [host EXCEPT !.runs = @ \ {handler[h].unit}] /\ UNCHANGED reason
      <4>1. /\ host' = [files |-> host'.files, runs |-> host'.runs]
            /\ host'.runs = host.runs \ {handler[h].unit}
        BY <1>0, <3>2
      <4>. QED  BY <1>0, <3>1, <3>2, <4>1, WorkerGoesOn
    <3>3. CASE reason' = reason \cup {"lost"} /\ UNCHANGED host
      <4>1. /\ reason' # {} /\ \A s \in Service : HasRow(s)' => s \in born'
        BY <3>1, <3>3 DEF UnitsInv, HasRow
      <4>. QED  BY <1>h, <3>3, <4>1 DEF UnitsInv
    <3>. QED  BY <3>1, <3>2, <3>3
  <2>3. CASE Unlink(h)
    <3>1. /\ handler[h].pc = "unlink" /\ UNCHANGED <<services, born>> /\ reason \subseteq reason'
          /\ UNCHANGED host \/ host' = [host EXCEPT !.files = @ \ {handler[h].unit}]
          /\ GoTo(h, "row") \/ Finish(h)
      BY <2>3 DEF Unlink, AtStep
    <3>2. host' = [files |-> host'.files, runs |-> host'.runs] /\ host'.runs \subseteq host.runs
      BY <1>0, <3>1
    <3>3. LeavesRow(handler[h])
      BY <3>1 DEF LeavesRow
    <3>. QED  BY <1>0, <1>6, <3>1, <3>2, <3>3, WorkerGoesOn
  <2>. QED  BY <1>10, <2>1, <2>2, <2>3
<1>11. ASSUME NEW h \in Handler, RecordRelease(h) \/ WriteUnit(h) \/ StopUnit(h) PROVE UnitsInv'
  <2>1. CASE RecordRelease(h)
    <3>1. /\ handler[h].pc = "record" /\ UNCHANGED <<services, born, host, reason>>
          /\ GoTo(h, "unit") \/ Finish(h)
      BY <2>1 DEF RecordRelease, AtStep
    <3>2. ~LeavesRow([pc |-> "unit", new |-> handler[h].new])
      BY DEF LeavesRow
    <3>. QED  BY <1>0, <1>6, <1>h, <3>1, <3>2, WorkerGoesOn
  <2>2. CASE WriteUnit(h)
    <3>1. /\ handler[h].pc = "unit" /\ UNCHANGED <<services, born, reason>>
          /\ host' = [host EXCEPT !.files = @ \cup {handler[h].unit}] /\ GoTo(h, "start")
      BY <2>2 DEF WriteUnit, AtStep
    <3>2. host' = [files |-> host'.files, runs |-> host'.runs] /\ host'.runs \subseteq host.runs
      BY <1>0, <3>1
    <3>3. ~LeavesRow([pc |-> "start", new |-> handler[h].new])
      BY DEF LeavesRow
    <3>. QED  BY <1>0, <3>1, <3>2, <3>3, WorkerGoesOn
  <2>3. CASE StopUnit(h)
    <3>1. /\ UNCHANGED <<services, born, reason>> /\ Finish(h)
          /\ host' = [host EXCEPT !.runs = @ \ {handler[h].unit}]
      BY <2>3 DEF StopUnit
    <3>2. host' = [files |-> host'.files, runs |-> host'.runs] /\ host'.runs \subseteq host.runs
      BY <1>0, <3>1
    <3>. QED  BY <1>6, <3>1, <3>2
  <2>. QED  BY <1>11, <2>1, <2>2, <2>3
<1>12. ASSUME NEW h \in Handler, UpdateRoutes(h) \/ DeleteService(h) \/ DeployService(h) \/ UnitAction(h)
       PROVE  UnitsInv'
  BY <1>5, <1>12 DEF UpdateRoutes, DeleteService, DeployService, UnitAction
<1>. QED  BY <1>0, <1>1, <1>2, <1>3, <1>4, <1>7, <1>8, <1>9, <1>10, <1>11, <1>12, UnitStarts DEF ServicesNext

(* The other property of Services: what runs has a row, unless it was left *)
(* there on purpose, renamed, lost to a failing command, or two handlers   *)
(* met at the service (delete and unit actions of api/services.rs).        *)
THEOREM UnitsKeepTheirRows == ServicesSpec => []UnitsHaveRows
<1>1. UnitsInv => UnitsHaveRows
  BY DEF UnitsInv, Kept, UnitsHaveRows, Named, HasRow
<1>. QED  BY <1>1, ServicesInit_Inv, ServicesNext_Inv, UnitsInit_Inv, RowsStay, UnitsNext_Inv, PTL DEF ServicesSpec

-----------------------------------------------------------------------------
(***************************************************************************)
(* What the proxy will start with was accepted by it, for any number of    *)
(* calls and any settings, whatever breaks off and whenever.  While no two *)
(* calls have met at the config, whoever is about to move the staged       *)
(* config is the only one that could have staged another since it was      *)
(* validated.                                                              *)
(***************************************************************************)
IsCall(x) ==
    /\ DOMAIN x = {"kind", "pc", "target", "config", "ok"}
    /\ x = [field \in DOMAIN x |-> x[field]]

IsProxy(x) ==
    /\ DOMAIN x = {"running", "disk", "staged", "enabled"}
    /\ x = [field \in DOMAIN x |-> x[field]]

IngressShape ==
    /\ call = [c \in Call |-> call[c]]
    /\ \A c \in Call : call[c] = Resting \/ IsCall(call[c])
    /\ IsProxy(proxy)

AtConfig == {"stage", "validate", "move", "ask", "load", "start", "record"}

Undisturbed ==
    /\ \A c, d \in Call : call[c].pc \in AtConfig /\ call[d].pc \in AtConfig => c = d
    /\ \A c \in Call : call[c].pc = "move" => proxy.staged.good
    /\ proxy.disk.good

IngressInv == IngressShape /\ ("overlap" \notin excuse => Undisturbed)

LEMMA IngressInit_Inv == IngressInit => IngressInv
<1>. SUFFICES ASSUME IngressInit PROVE IngressInv
  OBVIOUS
<1>1. IngressShape
  BY DEF IngressInit, IngressShape, IsProxy
<1>2. Undisturbed
  BY DEF IngressInit, Undisturbed, Resting, Nothing, AtConfig
<1>. QED  BY <1>1, <1>2 DEF IngressInv

(* One call goes on, and the others stay where they are. *)
Moves(c) ==
    /\ call' = [d \in Call |-> call'[d]]
    /\ call'[c] = Resting \/ IsCall(call'[c])
    /\ \A d \in Call : d # c => call'[d] = call[d]

LEMMA StepMoves ==
    ASSUME IngressShape, NEW c \in Call, ~In(c, "idle"), NEW pc, Step(c, pc)
    PROVE  Moves(c) /\ call'[c].pc = pc
<1>1. IsCall(call[c])
  BY DEF IngressShape, In, Resting
<1>. QED  BY <1>1 DEF IngressShape, IsCall, Moves, Step

LEMMA DoneMoves ==
    ASSUME IngressShape, NEW c \in Call, Done(c)
    PROVE  Moves(c) /\ call'[c].pc = "idle"
BY DEF IngressShape, Moves, Done, Resting

(* A step that does not get to the config, and if it stages there, is at   *)
(* it already; nothing it does makes disk another one.                     *)
LEMMA Harmless ==
    ASSUME IngressInv, NEW c \in Call, Moves(c),
           call'[c].pc \in AtConfig => call[c].pc \in AtConfig,
           call'[c].pc # "move",
           IsProxy(proxy'), proxy'.disk = proxy.disk,
           proxy'.staged = proxy.staged \/ call[c].pc \in AtConfig,
           excuse \subseteq excuse'
    PROVE  IngressInv'
<1>1. IngressShape'
  BY DEF Moves, IngressInv, IngressShape
<1>2. ASSUME "overlap" \notin excuse' PROVE Undisturbed'
  <2>1. Undisturbed
    BY <1>2 DEF IngressInv
  <2>2. \A d \in Call : d # c => call'[d] = call[d]
    BY DEF Moves
  <2>3. \A a, b \in Call : call'[a].pc \in AtConfig /\ call'[b].pc \in AtConfig => a = b
    BY <2>1, <2>2 DEF Undisturbed
  <2>4. ASSUME NEW d \in Call, call'[d].pc = "move" PROVE proxy'.staged.good
    <3>1. d # c /\ call[d].pc = "move"
      BY <2>2, <2>4
    <3>2. call[c].pc \notin AtConfig
      BY <2>1, <3>1 DEF Undisturbed, AtConfig
    <3>. QED  BY <2>1, <3>1, <3>2 DEF Undisturbed
  <2>. QED  BY <2>1, <2>3, <2>4 DEF Undisturbed
<1>. QED  BY <1>1, <1>2 DEF IngressInv

LEMMA BeginStep_Inv ==
    ASSUME IngressInv, NEW c \in Call, NEW kind, NEW pc \in {"set", "stop", "clear", "routes", "edit"},
           NEW target, Begin(c, kind, pc, target)
    PROVE  IngressInv'
<1>1. Moves(c) /\ call'[c].pc = pc
  BY DEF Begin, Moves, IsCall, IngressInv, IngressShape
<1>2. UNCHANGED <<proxy, excuse>>
  BY DEF Begin
<1>. QED  BY <1>1, <1>2, Harmless DEF IngressInv, IngressShape, AtConfig

(* A step of one call that changes no config on disk. *)
LEMMA QuietStep_Inv ==
    ASSUME IngressInv, NEW c \in Call,
           \/ SetIngress(c) \/ Reread(c) \/ StopProxy(c) \/ ClearIngress(c) \/ EditRoutes(c)
           \/ Install(c) \/ Stage(c) \/ IsRunning(c) \/ Load(c) \/ Start(c) \/ RecordReload(c)
    PROVE  IngressInv'
<1>0. IngressShape /\ IsProxy(proxy)
  BY DEF IngressInv, IngressShape
<1>a. ~In(c, "idle") => IsCall(call[c])
  BY <1>0 DEF IngressShape, In, Resting
<1>1. CASE SetIngress(c)
  <2>1. ~In(c, "idle") /\ UNCHANGED <<proxy, excuse>>
    BY <1>1 DEF SetIngress, In
  <2>2. Moves(c) /\ call'[c].pc \in {"reread", "idle"}
    BY <1>1, <2>1, <1>0, StepMoves, DoneMoves DEF SetIngress
  <2>. QED  BY <2>1, <2>2, <1>0, Harmless DEF AtConfig
<1>2. CASE Reread(c)
  <2>1. ~In(c, "idle") /\ UNCHANGED <<proxy, excuse>>
    BY <1>2 DEF Reread, In
  <2>2. Moves(c) /\ call'[c].pc = "install"
    BY <1>2, <2>1, <1>a, <1>0 DEF Reread, Moves, IsCall, IngressShape
  <2>. QED  BY <2>1, <2>2, <1>0, Harmless DEF AtConfig
<1>3. CASE StopProxy(c)
  <2>1. ~In(c, "idle") /\ excuse \subseteq excuse'
    BY <1>3 DEF StopProxy, In
  <2>2. IsProxy(proxy') /\ proxy'.disk = proxy.disk /\ proxy'.staged = proxy.staged
    BY <1>3, <1>0 DEF StopProxy, IsProxy
  <2>3. Moves(c) /\ call'[c].pc = "clear"
    BY <1>3, <2>1, <1>0, StepMoves DEF StopProxy
  <2>. QED  BY <2>1, <2>2, <2>3, Harmless DEF AtConfig
<1>4. CASE ClearIngress(c)
  <2>1. Moves(c) /\ call'[c].pc = "idle"
    BY <1>4, <1>0, DoneMoves DEF ClearIngress
  <2>2. proxy' = proxy /\ excuse \subseteq excuse'
    BY <1>4 DEF ClearIngress
  <2>. QED  BY <2>1, <2>2, <1>0, Harmless DEF AtConfig
<1>5. CASE EditRoutes(c)
  <2>1. ~In(c, "idle") /\ proxy' = proxy /\ excuse \subseteq excuse'
    BY <1>5 DEF EditRoutes, In
  <2>2. Moves(c) /\ call'[c].pc \in {"routes", "idle"}
    <3>1. CASE Done(c)
      BY <3>1, <1>0, DoneMoves
    <3>2. CASE call' = [call EXCEPT ![c].pc = "routes", ![c].kind = "reload"]
      BY <3>2, <2>1, <1>a, <1>0 DEF Moves, IsCall, IngressShape
    <3>. QED  BY <3>1, <3>2, <1>5 DEF EditRoutes
  <2>. QED  BY <2>1, <2>2, <1>0, Harmless DEF AtConfig
<1>6. CASE Install(c)
  <2>1. ~In(c, "idle") /\ UNCHANGED excuse
    BY <1>6 DEF Install, In
  <2>2. IsProxy(proxy') /\ proxy'.disk = proxy.disk /\ proxy'.staged = proxy.staged
    BY <1>6, <1>0 DEF Install, IsProxy
  <2>3. Moves(c) /\ call'[c].pc = "routes"
    BY <1>6, <2>1, <1>0, StepMoves DEF Install
  <2>. QED  BY <2>1, <2>2, <2>3, Harmless DEF AtConfig
<1>7. CASE Stage(c)
  <2>1. ~In(c, "idle") /\ UNCHANGED excuse /\ call[c].pc \in AtConfig
    BY <1>7 DEF Stage, In, AtConfig
  <2>2. IsProxy(proxy') /\ proxy'.disk = proxy.disk
    BY <1>7, <1>0 DEF Stage, IsProxy
  <2>3. Moves(c) /\ call'[c].pc = "validate"
    BY <1>7, <2>1, <1>a, <1>0 DEF Stage, Moves, IsCall, IngressShape
  <2>. QED  BY <2>1, <2>2, <2>3, Harmless
<1>8. CASE IsRunning(c)
  <2>1. ~In(c, "idle") /\ proxy' = proxy /\ excuse \subseteq excuse' /\ call[c].pc \in AtConfig
    BY <1>8 DEF IsRunning, In, AtConfig
  <2>2. Moves(c) /\ call'[c].pc \in {"load", "start"}
    BY <1>8, <2>1, <1>0, StepMoves DEF IsRunning
  <2>. QED  BY <2>1, <2>2, <1>0, Harmless
<1>9. CASE Load(c)
  <2>1. ~In(c, "idle") /\ UNCHANGED excuse /\ call[c].pc \in AtConfig
    BY <1>9 DEF Load, In, AtConfig
  <2>2. IsProxy(proxy') /\ proxy'.disk = proxy.disk /\ proxy'.staged = proxy.staged
    BY <1>9, <1>0 DEF Load, IsProxy
  <2>3. Moves(c) /\ call'[c].pc = "record"
    <3>1. CASE Step(c, "record")
      BY <3>1, <2>1, <1>0, StepMoves
    <3>2. CASE call' = [call EXCEPT ![c].pc = "record", ![c].ok = TRUE]
      BY <3>2, <2>1, <1>a, <1>0 DEF Moves, IsCall, IngressShape
    <3>. QED  BY <3>1, <3>2, <1>9 DEF Load
  <2>. QED  BY <2>1, <2>2, <2>3, Harmless
<1>10. CASE Start(c)
  <2>1. ~In(c, "idle") /\ UNCHANGED excuse /\ call[c].pc \in AtConfig
    BY <1>10 DEF Start, In, AtConfig
  <2>2. IsProxy(proxy') /\ proxy'.disk = proxy.disk /\ proxy'.staged = proxy.staged
    BY <1>10, <1>0 DEF Start, IsProxy
  <2>3. Moves(c) /\ call'[c].pc = "record"
    <3>1. CASE Step(c, "record")
      BY <3>1, <2>1, <1>0, StepMoves
    <3>2. CASE call' = [call EXCEPT ![c].pc = "record", ![c].ok = TRUE]
      BY <3>2, <2>1, <1>a, <1>0 DEF Moves, IsCall, IngressShape
    <3>. QED  BY <3>1, <3>2, <1>10 DEF Start
  <2>. QED  BY <2>1, <2>2, <2>3, Harmless
<1>11. CASE RecordReload(c)
  <2>1. Moves(c) /\ call'[c].pc = "idle"
    BY <1>11, <1>0, DoneMoves DEF RecordReload
  <2>2. UNCHANGED <<proxy, excuse>>
    BY <1>11 DEF RecordReload
  <2>. QED  BY <2>1, <2>2, <1>0, Harmless DEF AtConfig
<1>. QED  BY <1>1, <1>2, <1>3, <1>4, <1>5, <1>6, <1>7, <1>8, <1>9, <1>10, <1>11

(* Getting to the config: with another call there, that is an overlap. *)
LEMMA ReadRoutes_Inv ==
    ASSUME IngressInv, NEW c \in Call, ReadRoutes(c)
    PROVE  IngressInv'
<1>0. IngressShape /\ ~In(c, "idle") /\ proxy' = proxy /\ excuse \subseteq excuse'
  BY DEF IngressInv, ReadRoutes, In
<1>1. IsCall(call[c])
  BY <1>0 DEF IngressShape, In, Resting
<1>2. Moves(c) /\ call'[c].pc = "stage"
  BY <1>0, <1>1 DEF ReadRoutes, Moves, IsCall, IngressShape
<1>3. IngressShape'
  BY <1>0, <1>2 DEF Moves, IngressShape
<1>4. ASSUME "overlap" \notin excuse' PROVE Undisturbed'
  <2>1. Undisturbed
    BY <1>0, <1>4 DEF IngressInv
  <2>2. \A d \in Call : d # c => call'[d] = call[d] /\ call[d].pc \notin AtConfig
    BY <1>2, <1>4 DEF ReadRoutes, Overlap, AtHost, AtConfig, Moves
  <2>. QED  BY <2>1, <2>2, <1>0, <1>2 DEF Undisturbed, AtConfig
<1>. QED  BY <1>3, <1>4 DEF IngressInv

(* Whoever is told that the staged config is good is alone with it. *)
LEMMA Validate_Inv ==
    ASSUME IngressInv, NEW c \in Call, Validate(c)
    PROVE  IngressInv'
<1>0. IngressShape /\ IsProxy(proxy) /\ ~In(c, "idle") /\ excuse' = excuse /\ call[c].pc = "validate"
  BY DEF IngressInv, IngressShape, Validate, In
<1>1. CASE Step(c, "record") /\ proxy' = [proxy EXCEPT !.staged = Nothing]
  <2>1. IsProxy(proxy') /\ proxy'.disk = proxy.disk
    BY <1>0, <1>1 DEF IsProxy
  <2>2. Moves(c) /\ call'[c].pc = "record"
    BY <1>0, <1>1, StepMoves
  <2>. QED  BY <1>0, <2>1, <2>2, Harmless DEF AtConfig
<1>2. CASE proxy.staged.good /\ Step(c, "move") /\ proxy' = proxy
  <2>1. Moves(c) /\ call'[c].pc = "move"
    BY <1>0, <1>2, StepMoves
  <2>2. IngressShape'
    BY <1>0, <1>2, <2>1 DEF Moves, IngressShape
  <2>3. ASSUME "overlap" \notin excuse' PROVE Undisturbed'
    <3>1. Undisturbed
      BY <1>0, <2>3 DEF IngressInv
    <3>. QED  BY <3>1, <2>1, <1>0, <1>2 DEF Undisturbed, Moves, AtConfig
  <2>. QED  BY <2>2, <2>3 DEF IngressInv
<1>. QED  BY <1>1, <1>2 DEF Validate

(* What is staged becomes what is on disk, or nothing does. *)
LEMMA Moved_Inv ==
    ASSUME IngressInv, NEW c \in Call, Moves(c), call[c].pc = "move", call'[c].pc \in {"ask", "idle"},
           proxy' = [proxy EXCEPT !.disk = proxy.staged, !.staged = Nothing],
           excuse \subseteq excuse'
    PROVE  IngressInv'
<1>0. IngressShape /\ IsProxy(proxy)
  BY DEF IngressInv, IngressShape
<1>1. IsProxy(proxy') /\ proxy'.disk = proxy.staged
  BY <1>0 DEF IsProxy
<1>2. IngressShape'
  BY <1>0, <1>1 DEF Moves, IngressShape
<1>3. ASSUME "overlap" \notin excuse' PROVE Undisturbed'
  <2>1. Undisturbed
    BY <1>3 DEF IngressInv
  <2>2. \A d \in Call : d # c => call'[d] = call[d] /\ call[d].pc \notin AtConfig
    BY <2>1 DEF Undisturbed, AtConfig, Moves
  <2>. QED  BY <2>1, <2>2, <1>1 DEF Undisturbed, AtConfig
<1>. QED  BY <1>2, <1>3 DEF IngressInv

LEMMA Break_Inv ==
    ASSUME IngressInv, NEW c \in Call, Break(c)
    PROVE  IngressInv'
<1>0. IngressShape /\ IsProxy(proxy) /\ excuse \subseteq excuse'
  BY DEF IngressInv, IngressShape, Break
<1>1. Moves(c) /\ call'[c].pc = "idle"
  BY <1>0, DoneMoves DEF Break
<1>2. CASE proxy' = proxy
  BY <1>0, <1>1, <1>2, Harmless DEF AtConfig
<1>3. CASE call[c].pc = "move" /\ proxy' = [proxy EXCEPT !.disk = proxy.staged, !.staged = Nothing]
  BY <1>0, <1>1, <1>3, Moved_Inv
<1>. QED  BY <1>2, <1>3 DEF Break, In

LEMMA Move_Inv ==
    ASSUME IngressInv, NEW c \in Call, Move(c)
    PROVE  IngressInv'
<1>1. IngressShape /\ ~In(c, "idle") /\ call[c].pc = "move" /\ excuse' = excuse
  BY DEF IngressInv, Move, In
<1>2. Moves(c) /\ call'[c].pc = "ask"
  BY <1>1, StepMoves DEF Move
<1>. QED  BY <1>1, <1>2, Moved_Inv DEF Move

LEMMA Restart_Inv ==
    ASSUME IngressInv, ProxyRestarts \/ ServerRestarts
    PROVE  IngressInv'
<1>0. IngressShape /\ IsProxy(proxy)
  BY DEF IngressInv, IngressShape
<1>1. CASE ProxyRestarts
  <2>1. IsProxy(proxy') /\ proxy'.disk = proxy.disk /\ proxy'.staged = proxy.staged
    BY <1>0, <1>1 DEF ProxyRestarts, IsProxy
  <2>. QED  BY <2>1, <1>1 DEF ProxyRestarts, IngressInv, IngressShape, Undisturbed
<1>2. CASE ServerRestarts
  <2>1. proxy' = proxy /\ excuse \subseteq excuse' /\ \A c \in Call : call'[c] = Resting
    BY <1>2 DEF ServerRestarts
  <2>2. IngressShape'
    BY <1>0, <1>2, <2>1 DEF ServerRestarts, IngressShape
  <2>. QED  BY <2>1, <2>2 DEF IngressInv, Undisturbed, AtConfig, Resting
<1>. QED  BY <1>1, <1>2

LEMMA IngressNext_Inv == IngressInv /\ [IngressNext]_ingressVars => IngressInv'
<1>. SUFFICES ASSUME IngressInv, [IngressNext]_ingressVars PROVE IngressInv'
  OBVIOUS
<1>1. ASSUME NEW c \in Call,
             \/ EnableIngress(c) \/ DisableIngress(c) \/ ReloadIngress(c)
             \/ ChangeRoutes(c) \/ DeployReloads(c)
      PROVE  IngressInv'
  BY <1>1, BeginStep_Inv
     DEF EnableIngress, DisableIngress, ReloadIngress, ChangeRoutes, DeployReloads
<1>2. CASE UNCHANGED ingressVars
  BY <1>2 DEF ingressVars, IngressInv, IngressShape, Undisturbed
<1>. QED
  BY <1>1, <1>2, QuietStep_Inv, ReadRoutes_Inv, Validate_Inv, Move_Inv, Break_Inv, Restart_Inv
     DEF IngressNext, Reconcile

(* The inductive invariant of the proxy's config, for any calls.           *)
THEOREM IngressInvariant == IngressSpec => []IngressInv
BY IngressInit_Inv, IngressNext_Inv, PTL DEF IngressSpec

(* Unless two calls were at the config of a target at once, what its proxy *)
(* will start with is one it accepted: reconcile::reload stages, validates *)
(* and only then moves, and whoever breaks off leaves no other behind.     *)
THEOREM AcceptedConfigs == IngressSpec => []OnlyAcceptedConfigsGoLive
<1>1. IngressInv => OnlyAcceptedConfigsGoLive
  BY DEF IngressInv, Undisturbed, OnlyAcceptedConfigsGoLive
<1>. QED  BY <1>1, IngressInvariant, PTL

-----------------------------------------------------------------------------
(***************************************************************************)
(* An active target serves its rows, for any calls and settings.  A change *)
(* of the rows leaves a call that has yet to read the routes, and will     *)
(* bring the proxy up to date; until the routes are read again, the one    *)
(* call at the config carries what the rows say from step to step: in the  *)
(* call, then staged, then on disk, then running.                          *)
(***************************************************************************)
HostSteps == AtConfig \cup {"clear"}

Owing == {"reread", "install", "routes"}

\* x is what the rows say, or a call is to render them again.
Fresh(x, set, n, calls) ==
    set.mode = "managed" =>
       \/ \E d \in Call : calls[d].pc \in Owing
       \/ x = [edit |-> n + 1, port |-> set.port, good |-> set.good]

Serves(p, set, n, calls) ==
    Fresh(p.disk, set, n, calls) /\ (p.running = Nothing \/ Fresh(p.running, set, n, calls))

Sound(x, p, set, n, calls) ==
    /\ x.pc = "stage" => Fresh(x.config, set, n, calls)
    /\ x.pc \in {"validate", "move"} => Fresh(p.staged, set, n, calls)
    /\ x.pc \in {"ask", "load", "start"} => Fresh(p.disk, set, n, calls)
    /\ x.pc = "start" => p.running = Nothing
    /\ x.pc = "record" /\ x.ok => Serves(p, set, n, calls)
    /\ x.pc \notin {"idle", "record"} => ~x.ok

AtRest(p, r, n, calls) ==
    r.status = "active" /\ (\A c \in Call : calls[c].pc \notin HostSteps) => Serves(p, r.set, n, calls)

IsRow(r) == r = [set |-> r.set, status |-> r.status]

FreshInv ==
    /\ IsRow(row)
    /\ excuse = {} => /\ \A c \in Call : Sound(call[c], proxy, row.set, edits, call)
                      /\ AtRest(proxy, row, edits, call)

LEMMA FreshInit_Inv == IngressInit => FreshInv
<1>. SUFFICES ASSUME IngressInit PROVE FreshInv
  OBVIOUS
<1>1. IsRow(row) /\ row.status = "pending"
  BY DEF IngressInit, IsRow
<1>2. \A c \in Call : Sound(call[c], proxy, row.set, edits, call)
  BY DEF IngressInit, Sound, Resting
<1>. QED  BY <1>1, <1>2 DEF FreshInv, AtRest

(* What a step does not touch in a call.                                   *)
LEMMA StepKeeps ==
    ASSUME IngressShape, NEW c \in Call, ~In(c, "idle"), NEW pc, Step(c, pc)
    PROVE  call'[c].config = call[c].config /\ call'[c].ok = call[c].ok
<1>1. IsCall(call[c])
  BY DEF IngressShape, In, Resting
<1>. QED  BY <1>1 DEF IngressShape, IsCall, Step

(* What was fresh is fresh still.                                          *)
Stays == \A x : Fresh(x, row.set, edits, call) => Fresh(x, row'.set, edits', call')

SameConfigs ==
    proxy'.disk = proxy.disk /\ proxy'.staged = proxy.staged /\ proxy'.running = proxy.running

LEMMA StaysFresh ==
    ASSUME NEW c \in Call, Moves(c),
           \/ row'.set = row.set /\ edits' = edits /\ call[c].pc \notin Owing
           \/ row'.set.mode # "managed"
           \/ call'[c].pc \in Owing
    PROVE  Stays
<1>. SUFFICES ASSUME NEW x, Fresh(x, row.set, edits, call), row'.set.mode = "managed",
                     row'.set = row.set, edits' = edits, call[c].pc \notin Owing
              PROVE  \/ \E d \in Call : call'[d].pc \in Owing
                     \/ x = [edit |-> edits' + 1, port |-> row'.set.port, good |-> row'.set.good]
  BY DEF Stays, Fresh
<1>1. ASSUME NEW d \in Call, call[d].pc \in Owing PROVE \E e \in Call : call'[e].pc \in Owing
  BY <1>1 DEF Moves
<1>. QED  BY <1>1 DEF Fresh

LEMMA OneCall ==
    ASSUME IngressShape, FreshInv, NEW c \in Call, Moves(c), excuse \subseteq excuse', IsRow(row'),
           excuse' = {} => /\ Stays
                           /\ Sound(call'[c], proxy', row'.set, edits', call')
                           /\ AtRest(proxy', row', edits', call')
                           /\ SameConfigs \/ \A d \in Call \ {c} : call[d].pc \notin AtConfig
    PROVE  FreshInv'
<1>1. ASSUME excuse' = {}, NEW d \in Call PROVE Sound(call'[d], proxy', row'.set, edits', call')
  <2>1. CASE d = c
    BY <1>1, <2>1
  <2>2. CASE d # c
    <3>1. Sound(call[d], proxy, row.set, edits, call) /\ call'[d] = call[d]
      BY <1>1, <2>2 DEF FreshInv, Moves
    <3>2. CASE call[d].pc \notin AtConfig
      BY <3>1, <3>2 DEF Sound, AtConfig
    <3>3. CASE SameConfigs
      BY <1>1, <3>1, <3>3 DEF Sound, Serves, Stays, SameConfigs
    <3>. QED  BY <1>1, <2>2, <3>2, <3>3
  <2>. QED  BY <2>1, <2>2
<1>. QED  BY <1>1 DEF FreshInv

(* A step of a call that is not at the host and does not get to the config. *)
LEMMA Aloof ==
    ASSUME IngressShape, FreshInv, NEW c \in Call, Moves(c), excuse \subseteq excuse', IsRow(row'),
           excuse' = {} => Stays, SameConfigs,
           row'.status = "active" => row.status = "active",
           call[c].pc \notin HostSteps, call'[c].pc \notin AtConfig, call'[c].pc = "idle" \/ ~call'[c].ok
    PROVE  FreshInv'
<1>1. Sound(call'[c], proxy', row'.set, edits', call')
  BY DEF Sound, AtConfig
<1>2. ASSUME excuse' = {}, row'.status = "active", \A d \in Call : call'[d].pc \notin HostSteps
      PROVE  Serves(proxy', row'.set, edits', call')
  <2>1. \A d \in Call : call[d].pc \notin HostSteps
    BY <1>2 DEF Moves
  <2>2. Serves(proxy, row.set, edits, call)
    BY <1>2, <2>1 DEF FreshInv, AtRest
  <2>. QED  BY <1>2, <2>2 DEF Serves, Stays, SameConfigs
<1>. QED  BY <1>1, <1>2, OneCall DEF AtRest

(* A step of the call at the config, which stays there.                    *)
LEMMA AtConfigStep ==
    ASSUME IngressInv, FreshInv, NEW c \in Call, Moves(c), excuse \subseteq excuse',
           row' = row, edits' = edits, call[c].pc \in AtConfig, call'[c].pc \in AtConfig,
           excuse' = {} /\ Stays => Sound(call'[c], proxy', row.set, edits, call')
    PROVE  FreshInv'
<1>1. Stays
  BY StaysFresh DEF AtConfig, Owing
<1>2. AtRest(proxy', row', edits', call')
  BY DEF AtRest, HostSteps
<1>3. excuse' = {} => \A d \in Call \ {c} : call[d].pc \notin AtConfig
  BY DEF IngressInv, Undisturbed
<1>. QED  BY <1>1, <1>2, <1>3, OneCall DEF IngressInv, FreshInv

LEMMA BeginStep_Fresh ==
    ASSUME IngressInv, FreshInv, NEW c \in Call, NEW kind,
           NEW pc \in {"set", "stop", "clear", "routes", "edit"}, NEW target, Begin(c, kind, pc, target)
    PROVE  FreshInv'
<1>0. IngressShape
  BY DEF IngressInv
<1>1. /\ Moves(c) /\ call'[c].pc = pc /\ ~call'[c].ok
      /\ UNCHANGED <<row, edits, proxy, excuse>> /\ call[c].pc = "idle"
  BY <1>0 DEF Begin, Moves, IsCall, IngressShape, In
<1>2. Stays
  BY <1>1, StaysFresh DEF Owing
<1>. QED  BY <1>0, <1>1, <1>2, Aloof DEF AtConfig, HostSteps, SameConfigs, FreshInv

LEMMA RowStep_Fresh ==
    ASSUME IngressInv, FreshInv, NEW c \in Call,
           SetIngress(c) \/ Reread(c) \/ EditRoutes(c) \/ Install(c)
    PROVE  FreshInv'
<1>0. IngressShape /\ IsProxy(proxy) /\ IsRow(row)
  BY DEF IngressInv, IngressShape, FreshInv
<1>a. ~In(c, "idle") => IsCall(call[c])
  BY <1>0 DEF IngressShape, In, Resting
<1>o. excuse = {} /\ call[c].pc \in {"set", "reread", "edit", "install"} => ~call[c].ok
  BY DEF FreshInv, Sound
<1>s. ASSUME excuse' # {}, IsRow(row') PROVE FreshInv'
  BY <1>s DEF FreshInv
<1>1. CASE SetIngress(c)
  <2>1. ~In(c, "idle") /\ call[c].pc = "set" /\ UNCHANGED <<proxy, edits, excuse>>
    BY <1>1 DEF SetIngress, In
  <2>2. /\ IsRow(row') /\ row'.set = call[c].target
        /\ row'.status = "active" => row.status = "active"
    BY <1>1 DEF SetIngress, Written, IsRow
  <2>3. \/ call[c].target.mode = "managed" /\ Step(c, "reread")
        \/ call[c].target.mode # "managed" /\ Done(c)
    BY <1>1 DEF SetIngress
  <2>4. /\ Moves(c) /\ call'[c].pc \in {"reread", "idle"}
        /\ call'[c].pc = "reread" => call'[c].ok = call[c].ok
    BY <2>1, <2>3, <1>0, StepMoves, StepKeeps, DoneMoves
  <2>5. call'[c].pc \in Owing \/ row'.set.mode # "managed"
    BY <2>1, <2>2, <2>3, <1>0, StepMoves DEF Owing
  <2>6. Stays
    BY <2>4, <2>5, StaysFresh
  <2>. QED  BY <1>0, <1>o, <1>s, <2>1, <2>2, <2>4, <2>6, Aloof DEF HostSteps, AtConfig, SameConfigs
<1>2. CASE Reread(c)
  <2>1. ~In(c, "idle") /\ call[c].pc = "reread" /\ UNCHANGED <<row, proxy, edits, excuse>>
    BY <1>2 DEF Reread, In
  <2>2. Moves(c) /\ call'[c].pc = "install" /\ call'[c].ok = call[c].ok
    BY <1>2, <2>1, <1>a, <1>0 DEF Reread, Moves, IsCall, IngressShape
  <2>3. Stays
    BY <2>2, StaysFresh DEF Owing
  <2>. QED  BY <1>0, <1>o, <1>s, <2>1, <2>2, <2>3, Aloof DEF HostSteps, AtConfig, SameConfigs
<1>3. CASE EditRoutes(c)
  <2>1. ~In(c, "idle") /\ call[c].pc = "edit" /\ UNCHANGED <<row, proxy>> /\ excuse \subseteq excuse'
    BY <1>3 DEF EditRoutes, In
  <2>2. excuse' = {} => call[c].target = row.set
    BY <1>3 DEF EditRoutes, Stale
  <2>3. CASE call[c].target.mode = "managed"
    <3>1. call' = [call EXCEPT ![c].pc = "routes", ![c].kind = "reload"]
      BY <1>3, <2>3 DEF EditRoutes
    <3>2. Moves(c) /\ call'[c].pc = "routes" /\ call'[c].ok = call[c].ok
      BY <2>1, <3>1, <1>a, <1>0 DEF Moves, IsCall, IngressShape
    <3>3. Stays
      BY <3>2, StaysFresh DEF Owing
    <3>. QED  BY <1>0, <1>o, <1>s, <2>1, <3>2, <3>3, Aloof DEF HostSteps, AtConfig, SameConfigs
  <2>4. CASE call[c].target.mode # "managed"
    <3>1. Moves(c) /\ call'[c].pc = "idle"
      BY <1>3, <2>4, <1>0, DoneMoves DEF EditRoutes
    <3>2. excuse' = {} => Stays
      BY <2>1, <2>2, <2>4, <3>1, StaysFresh
    <3>. QED  BY <1>0, <2>1, <3>1, <3>2, Aloof DEF HostSteps, AtConfig, SameConfigs
  <2>. QED  BY <2>3, <2>4
<1>4. CASE Install(c)
  <2>1. ~In(c, "idle") /\ call[c].pc = "install" /\ UNCHANGED <<row, edits, excuse>>
    BY <1>4 DEF Install, In
  <2>2. SameConfigs
    BY <1>4, <1>0 DEF Install, IsProxy, SameConfigs
  <2>3. Moves(c) /\ call'[c].pc = "routes" /\ call'[c].ok = call[c].ok
    BY <1>4, <2>1, <1>0, StepMoves, StepKeeps DEF Install
  <2>4. Stays
    BY <2>3, StaysFresh DEF Owing
  <2>. QED  BY <1>0, <1>o, <1>s, <2>1, <2>2, <2>3, <2>4, Aloof DEF HostSteps, AtConfig
<1>. QED  BY <1>1, <1>2, <1>3, <1>4

(* Stopping the proxy takes the call to the host, and nobody else is there. *)
LEMMA Stop_Fresh ==
    ASSUME IngressInv, FreshInv, NEW c \in Call, StopProxy(c)
    PROVE  FreshInv'
<1>0. /\ IngressShape /\ IsProxy(proxy) /\ ~In(c, "idle") /\ call[c].pc = "stop"
      /\ UNCHANGED <<row, edits>> /\ excuse \subseteq excuse' /\ IsRow(row)
  BY DEF IngressInv, IngressShape, StopProxy, In, FreshInv
<1>1. Moves(c) /\ call'[c].pc = "clear" /\ call'[c].ok = call[c].ok
  BY <1>0, StepMoves, StepKeeps DEF StopProxy
<1>2. Stays
  BY <1>0, <1>1, StaysFresh DEF Owing
<1>3. AtRest(proxy', row', edits', call')
  BY <1>1 DEF AtRest, HostSteps
<1>4. excuse' = {} => Sound(call'[c], proxy', row'.set, edits', call')
  BY <1>0, <1>1 DEF FreshInv, Sound
<1>5. excuse' = {} => \A d \in Call \ {c} : call[d].pc \notin AtConfig
  BY DEF StopProxy, Overlap, AtHost, AtConfig
<1>. QED  BY <1>0, <1>1, <1>2, <1>3, <1>4, <1>5, OneCall

LEMMA Clear_Fresh ==
    ASSUME IngressInv, FreshInv, NEW c \in Call, ClearIngress(c)
    PROVE  FreshInv'
<1>0. IngressShape /\ UNCHANGED <<edits, proxy>> /\ excuse \subseteq excuse'
  BY DEF IngressInv, ClearIngress
<1>1. Moves(c) /\ call'[c].pc = "idle"
  BY <1>0, DoneMoves DEF ClearIngress
<1>2. IsRow(row') /\ row'.set.mode = "none"
  BY DEF ClearIngress, Written, Off, IsRow
<1>3. Stays
  BY <1>1, <1>2, StaysFresh
<1>4. AtRest(proxy', row', edits', call') /\ Sound(call'[c], proxy', row'.set, edits', call')
  BY <1>1, <1>2 DEF AtRest, Serves, Fresh, Sound
<1>. QED  BY <1>0, <1>1, <1>2, <1>3, <1>4, OneCall DEF SameConfigs

(* The routes are read: what is rendered is what the rows say.             *)
LEMMA Read_Fresh ==
    ASSUME IngressInv, FreshInv, NEW c \in Call, ReadRoutes(c)
    PROVE  FreshInv'
<1>0. /\ IngressShape /\ ~In(c, "idle") /\ call[c].pc = "routes"
      /\ UNCHANGED <<row, edits, proxy>> /\ excuse \subseteq excuse' /\ IsRow(row)
  BY DEF IngressInv, ReadRoutes, In, FreshInv
<1>1. IsCall(call[c])
  BY <1>0 DEF IngressShape, In, Resting
<1>2. /\ Moves(c) /\ call'[c].pc = "stage" /\ call'[c].ok = call[c].ok
      /\ call'[c].config = Render(call[c].target)
  BY <1>0, <1>1 DEF ReadRoutes, Moves, IsCall, IngressShape
<1>3. ASSUME excuse' = {}
      PROVE  /\ excuse = {} /\ call[c].target = row.set
             /\ \A d \in Call \ {c} : call[d].pc \notin HostSteps
  BY <1>3 DEF ReadRoutes, Overlap, Stale, AtHost, HostSteps, AtConfig
<1>4. ASSUME excuse' = {}, NEW d \in Call PROVE Sound(call'[d], proxy', row'.set, edits', call')
  <2>1. CASE d = c
    <3>1. ~call[c].ok
      BY <1>0, <1>3, <1>4 DEF FreshInv, Sound
    <3>2. Fresh(call'[c].config, row'.set, edits', call')
      BY <1>0, <1>2, <1>3, <1>4 DEF Fresh, Render
    <3>. QED  BY <1>2, <2>1, <3>1, <3>2 DEF Sound
  <2>2. CASE d # c
    <3>1. call'[d] = call[d] /\ call[d].pc \notin HostSteps /\ Sound(call[d], proxy, row.set, edits, call)
      BY <1>2, <1>3, <1>4, <2>2 DEF Moves, FreshInv
    <3>. QED  BY <3>1 DEF Sound, HostSteps, AtConfig
  <2>. QED  BY <2>1, <2>2
<1>5. AtRest(proxy', row', edits', call')
  BY <1>2 DEF AtRest, HostSteps, AtConfig
<1>. QED  BY <1>0, <1>4, <1>5 DEF FreshInv

LEMMA ConfigStep_Fresh ==
    ASSUME IngressInv, FreshInv, NEW c \in Call,
           Stage(c) \/ Validate(c) \/ Move(c) \/ IsRunning(c) \/ Load(c) \/ Start(c)
    PROVE  FreshInv'
<1>0. IngressShape /\ IsProxy(proxy)
  BY DEF IngressInv, IngressShape
<1>1. /\ UNCHANGED <<row, edits>> /\ excuse \subseteq excuse' /\ ~In(c, "idle")
      /\ call[c].pc \in AtConfig \ {"record"}
  BY DEF Stage, Validate, Move, IsRunning, Load, Start, In, AtConfig
<1>2. IsCall(call[c])
  BY <1>0, <1>1 DEF IngressShape, In, Resting
<1>3. excuse' = {} => Sound(call[c], proxy, row.set, edits, call) /\ ~call[c].ok
  BY <1>1 DEF FreshInv, Sound, AtConfig
<1>4. CASE Stage(c)
  <2>1. IsProxy(proxy') /\ proxy'.staged = call[c].config
    BY <1>4, <1>0 DEF Stage, IsProxy
  <2>2. Moves(c) /\ call'[c].pc = "validate" /\ call'[c].ok = call[c].ok
    BY <1>4, <1>2, <1>0 DEF Stage, Moves, IsCall, IngressShape
  <2>3. excuse' = {} /\ Stays => Fresh(proxy'.staged, row.set, edits, call')
    BY <1>1, <1>3, <1>4, <2>1 DEF Sound, Stage, In, Stays
  <2>. QED  BY <1>1, <1>3, <2>2, <2>3, AtConfigStep DEF Sound, AtConfig
<1>5. CASE Validate(c)
  <2>1. CASE Step(c, "move") /\ proxy' = proxy
    <3>1. Moves(c) /\ call'[c].pc = "move" /\ call'[c].ok = call[c].ok
      BY <1>0, <1>1, <2>1, StepMoves, StepKeeps
    <3>2. excuse' = {} /\ Stays => Fresh(proxy'.staged, row.set, edits, call')
      BY <1>1, <1>3, <1>5, <2>1 DEF Sound, Validate, In, Stays
    <3>. QED  BY <1>1, <1>3, <3>1, <3>2, AtConfigStep DEF Sound, AtConfig
  <2>2. CASE Step(c, "record")
    <3>1. Moves(c) /\ call'[c].pc = "record" /\ call'[c].ok = call[c].ok
      BY <1>0, <1>1, <2>2, StepMoves, StepKeeps
    <3>. QED  BY <1>1, <1>3, <3>1, AtConfigStep DEF Sound, AtConfig
  <2>. QED  BY <1>5, <2>1, <2>2 DEF Validate
<1>6. CASE Move(c)
  <2>1. IsProxy(proxy') /\ proxy'.disk = proxy.staged
    BY <1>6, <1>0 DEF Move, IsProxy
  <2>2. Moves(c) /\ call'[c].pc = "ask" /\ call'[c].ok = call[c].ok
    BY <1>6, <1>0, <1>1, StepMoves, StepKeeps DEF Move
  <2>3. excuse' = {} /\ Stays => Fresh(proxy'.disk, row.set, edits, call')
    BY <1>1, <1>3, <1>6, <2>1 DEF Sound, Move, In, Stays
  <2>. QED  BY <1>1, <1>3, <2>2, <2>3, AtConfigStep DEF Sound, AtConfig
<1>7. CASE IsRunning(c)
  <2>1. proxy' = proxy /\ call[c].pc = "ask"
    BY <1>7 DEF IsRunning, In
  <2>2. /\ Moves(c) /\ call'[c].pc \in {"load", "start"} /\ call'[c].ok = call[c].ok
        /\ excuse' = {} /\ call'[c].pc = "start" => proxy.running = Nothing
    <3>1. CASE Step(c, IF proxy.running # Nothing THEN "load" ELSE "start")
      BY <1>0, <1>1, <3>1, StepMoves, StepKeeps
    <3>2. CASE Step(c, "start") /\ excuse' = excuse \cup {"fault"}
      <4>1. excuse' # {}
        BY <3>2
      <4>. QED  BY <1>0, <1>1, <3>2, <4>1, StepMoves, StepKeeps
    <3>. QED  BY <1>7, <3>1, <3>2 DEF IsRunning
  <2>3. excuse' = {} /\ Stays => Fresh(proxy'.disk, row.set, edits, call')
    BY <1>1, <1>3, <2>1 DEF Sound, Stays
  <2>. QED  BY <1>1, <1>3, <2>1, <2>2, <2>3, AtConfigStep DEF Sound, AtConfig
<1>8. CASE Load(c) \/ Start(c)
  <2>1. call[c].pc \in {"load", "start"}
    BY <1>8 DEF Load, Start, In
  <2>2. excuse' = {} /\ Stays => Fresh(proxy.disk, row.set, edits, call')
    BY <1>1, <1>3, <2>1 DEF Sound, Stays
  <2>3. CASE Step(c, "record")
    <3>1. Moves(c) /\ call'[c].pc = "record" /\ call'[c].ok = call[c].ok
      BY <1>0, <1>1, <2>3, StepMoves, StepKeeps
    <3>. QED  BY <1>1, <1>3, <3>1, AtConfigStep DEF Sound, AtConfig
  <2>4. CASE call' = [call EXCEPT ![c].pc = "record", ![c].ok = TRUE]
    <3>1. Moves(c) /\ call'[c].pc = "record"
      BY <2>4, <1>2, <1>0 DEF Moves, IsCall, IngressShape
    <3>2. \/ proxy' = [proxy EXCEPT !.running = proxy.disk]
          \/ proxy' = proxy /\ call[c].pc = "start" /\ proxy.running # Nothing
          \/ Step(c, "record")
      BY <1>8 DEF Load, Start, In
    <3>3. CASE proxy' = [proxy EXCEPT !.running = proxy.disk]
      <4>1. proxy'.disk = proxy.disk /\ proxy'.running = proxy.disk
        BY <1>0, <3>3 DEF IsProxy
      <4>. QED  BY <1>1, <2>2, <3>1, <4>1, AtConfigStep DEF Sound, Serves, AtConfig
    <3>4. CASE proxy' = proxy /\ call[c].pc = "start" /\ proxy.running # Nothing
      <4>1. excuse' # {}
        BY <1>3, <3>4 DEF Sound
      <4>. QED  BY <1>1, <3>1, <4>1, AtConfigStep DEF AtConfig
    <3>. QED  BY <2>3, <3>2, <3>3, <3>4
  <2>. QED  BY <1>8, <2>3, <2>4 DEF Load, Start
<1>. QED  BY <1>4, <1>5, <1>6, <1>7, <1>8

(* What came of it is recorded: active only where the proxy serves it.     *)
LEMMA Record_Fresh ==
    ASSUME IngressInv, FreshInv, NEW c \in Call, RecordReload(c)
    PROVE  FreshInv'
<1>0. IngressShape /\ UNCHANGED <<edits, proxy, excuse>> /\ call[c].pc = "record" /\ IsRow(row)
  BY DEF IngressInv, RecordReload, FreshInv, In
<1>1. Moves(c) /\ call'[c].pc = "idle"
  BY <1>0, DoneMoves DEF RecordReload
<1>2. IsRow(row') /\ row'.set = row.set /\ (row'.status = "active" => call[c].ok)
  <2>1. PICK status : /\ row' = [row EXCEPT !.status = status]
                      /\ status = CASE call[c].ok -> "active"
                                    [] ~call[c].ok /\ call[c].kind = "enable" -> "pending"
                                    [] OTHER -> "degraded"
    BY DEF RecordReload
  <2>2. status = "active" => call[c].ok
    BY <2>1
  <2>. QED  BY <1>0, <2>1, <2>2 DEF IsRow
<1>3. Stays
  BY <1>0, <1>1, <1>2, StaysFresh DEF Owing
<1>4. ASSUME excuse' = {}, row'.status = "active" PROVE Serves(proxy', row'.set, edits', call')
  <2>1. Serves(proxy, row.set, edits, call)
    BY <1>0, <1>2, <1>4 DEF FreshInv, Sound
  <2>. QED  BY <1>0, <1>3, <2>1 DEF Serves, Stays
<1>5. Sound(call'[c], proxy', row'.set, edits', call')
  BY <1>1 DEF Sound
<1>. QED  BY <1>0, <1>1, <1>2, <1>3, <1>4, <1>5, OneCall DEF AtRest, SameConfigs

LEMMA Fault_Fresh ==
    ASSUME IngressInv, FreshInv, (\E c \in Call : Break(c)) \/ ProxyRestarts \/ ServerRestarts
    PROVE  FreshInv'
<1>0. IsRow(row) /\ IsProxy(proxy)
  BY DEF IngressInv, IngressShape, FreshInv
<1>1. ASSUME NEW c \in Call, Break(c) PROVE FreshInv'
  <2>1. excuse' # {}
    BY <1>1 DEF Break
  <2>2. \/ row' = row
        \/ row' = [row EXCEPT !.status = "degraded"]
        \/ row' = [row EXCEPT !.status = "pending"]
    BY <1>1 DEF Break
  <2>3. IsRow(row')
    BY <1>0, <2>2 DEF IsRow
  <2>. QED  BY <2>1, <2>3 DEF FreshInv
<1>2. CASE ServerRestarts
  <2>1. call' # call => excuse' # {}
    BY <1>2 DEF ServerRestarts
  <2>2. UNCHANGED <<row, edits, proxy>> /\ excuse \subseteq excuse'
    BY <1>2 DEF ServerRestarts
  <2>3. CASE call' = call
    BY <2>2, <2>3 DEF FreshInv
  <2>4. CASE call' # call
    BY <1>0, <2>1, <2>2, <2>4 DEF FreshInv
  <2>. QED  BY <2>3, <2>4
<1>3. CASE ProxyRestarts
  <2>1. UNCHANGED <<row, edits, call, excuse>> /\ \A c \in Call : call[c].pc \notin HostSteps
    BY <1>3 DEF ProxyRestarts, AtHost, HostSteps, AtConfig
  <2>2. proxy'.disk = proxy.disk /\ proxy'.running \in {proxy.disk, Nothing}
    BY <1>0, <1>3 DEF ProxyRestarts, IsProxy
  <2>3. ASSUME excuse = {}, NEW c \in Call PROVE Sound(call[c], proxy', row.set, edits, call)
    <3>1. Sound(call[c], proxy, row.set, edits, call) /\ call[c].pc \notin HostSteps
      BY <2>1, <2>3 DEF FreshInv
    <3>. QED  BY <3>1 DEF Sound, HostSteps, AtConfig
  <2>4. ASSUME excuse = {} PROVE AtRest(proxy', row, edits, call)
    BY <2>1, <2>2, <2>4 DEF FreshInv, AtRest, Serves
  <2>. QED  BY <1>0, <2>1, <2>3, <2>4 DEF FreshInv
<1>. QED  BY <1>1, <1>2, <1>3

LEMMA FreshNext_Inv == IngressInv /\ FreshInv /\ [IngressNext]_ingressVars => FreshInv'
<1>. SUFFICES ASSUME IngressInv, FreshInv, [IngressNext]_ingressVars PROVE FreshInv'
  OBVIOUS
<1>1. ASSUME NEW c \in Call,
             \/ EnableIngress(c) \/ DisableIngress(c) \/ ReloadIngress(c)
             \/ ChangeRoutes(c) \/ DeployReloads(c)
      PROVE  FreshInv'
  BY <1>1, BeginStep_Fresh
     DEF EnableIngress, DisableIngress, ReloadIngress, ChangeRoutes, DeployReloads
<1>2. CASE UNCHANGED ingressVars
  BY <1>2 DEF ingressVars, FreshInv
<1>. QED
  BY <1>1, <1>2, RowStep_Fresh, Stop_Fresh, Clear_Fresh, Read_Fresh, ConfigStep_Fresh, Record_Fresh,
     Fault_Fresh
     DEF IngressNext, Reconcile

(* The other property of Ingress: while nothing has gone wrong and no two  *)
(* calls have got in each other's way, a target recorded as active serves  *)
(* what its rows say once no call is under way (reconcile::reload, and the *)
(* handlers that call it after they have written the rows).                *)
THEOREM ActiveTargetsServe == IngressSpec => []ActiveServesTheRows
<1>1. FreshInv => ActiveServesTheRows
  <2>. SUFFICES ASSUME FreshInv, excuse = {}, row.status = "active", row.set.mode = "managed",
                       proxy.running # Nothing, \A c \in Call : In(c, "idle")
                PROVE  proxy.running = Render(row.set)
    BY DEF ActiveServesTheRows
  <2>1. \A c \in Call : call[c].pc = "idle"
    BY DEF In
  <2>2. Serves(proxy, row.set, edits, call)
    BY <2>1 DEF FreshInv, AtRest, HostSteps, AtConfig
  <2>. QED  BY <2>1, <2>2 DEF Serves, Fresh, Owing, Render
<1>. QED  BY <1>1, IngressInvariant, FreshInit_Inv, FreshNext_Inv, PTL DEF IngressSpec

(***************************************************************************)
(* The table of releases.  What is listed is strictly descending, so the   *)
(* position of a release tells how many newer ones there are, and a window *)
(* of two or more keeps two.                                               *)
(***************************************************************************)
Descending(s) == \A i, j \in DOMAIN s : i < j => s[i] > s[j]

TableInv ==
    /\ recorded \in 0 .. MaxReleases /\ keep \in Nat
    /\ listed \in Seq(1 .. recorded) /\ Descending(listed)
    /\ EffectiveKeep(keep) >= 2 => Len(listed) >= 2 \/ Len(listed) >= recorded

LEMMA EffectiveKeepType == ASSUME NEW k \in Nat PROVE EffectiveKeep(k) \in Nat /\ EffectiveKeep(k) > 0
BY DEF EffectiveKeep, DEFAULT_KEEP_RELEASES

\* Each release is listed once.
LEMMA ListedOnce ==
  ASSUME TableInv
  PROVE  /\ Len(listed) \in Nat /\ DOMAIN listed = 1 .. Len(listed)
         /\ \A i \in 1 .. Len(listed) : listed[i] \in 1 .. MaxReleases
         /\ \A i, j \in 1 .. Len(listed) : listed[i] > listed[j] <=> i < j
         /\ \A i, j \in 1 .. Len(listed) : listed[i] = listed[j] => i = j
<1>1. Len(listed) \in Nat /\ DOMAIN listed = 1 .. Len(listed)
  BY LenProperties DEF TableInv
<1>2. MaxReleases \in Nat
  BY TableAssumption
<1>3. ASSUME NEW i \in 1 .. Len(listed) PROVE listed[i] \in 1 .. recorded
  BY ElementOfSeq DEF TableInv
<1>4. \A i \in 1 .. Len(listed) : listed[i] \in Nat
  BY <1>3 DEF TableInv
<1>5. \A i, j \in 1 .. Len(listed) : i < j => listed[i] > listed[j]
  BY <1>1 DEF TableInv, Descending
<1>6. ASSUME NEW i \in 1 .. Len(listed), NEW j \in 1 .. Len(listed)
      PROVE  (listed[i] > listed[j] <=> i < j) /\ (listed[i] = listed[j] => i = j)
  <2>1. listed[i] \in Nat /\ listed[j] \in Nat
    BY <1>4
  <2>2. i = j \/ i < j \/ j < i
    BY <1>1
  <2>. QED  BY <1>1, <1>5, <2>1, <2>2
<1>7. \A i \in 1 .. Len(listed) : listed[i] \in 1 .. MaxReleases
  BY <1>2, <1>3 DEF TableInv
<1>. QED  BY <1>1, <1>6, <1>7

\* A sweep takes what is behind the window and not the current one.
Behind(cur) == {i \in EffectiveKeep(keep) + 1 .. Len(listed) : listed[i] # cur}

LEMMA Swept ==
  ASSUME TableInv, NEW cur
  PROVE  /\ Behind(cur) \in SUBSET (1 .. Len(listed))
         /\ Elems(releases_to_prune(listed, keep, cur)) = {listed[i] : i \in Behind(cur)}
<1>1. Len(listed) \in Nat /\ EffectiveKeep(keep) \in Nat /\ listed \in Seq(1 .. recorded)
  BY ListedOnce, EffectiveKeepType DEF TableInv
<1>2. Behind(cur) \in SUBSET (1 .. Len(listed))
  BY <1>1 DEF Behind
<1>. DEFINE t == Picked(listed, Behind(cur))
<1>3. /\ \A i \in Behind(cur) : \E n \in DOMAIN t : t[n] = listed[i]
      /\ \A n \in DOMAIN t : Nth(Behind(cur), n) \in Behind(cur) /\ t[n] = listed[Nth(Behind(cur), n)]
  <2>. DEFINE at == Behind(cur)  S == 1 .. recorded
  <2>1. listed \in Seq(S) /\ at \in SUBSET (1 .. Len(listed))
    BY <1>1, <1>2
  <2>. HIDE DEF at, S
  <2>2. /\ \A i \in at : \E n \in DOMAIN Picked(listed, at) : Picked(listed, at)[n] = listed[i]
        /\ \A n \in DOMAIN Picked(listed, at) :
              Nth(at, n) \in at /\ Picked(listed, at)[n] = listed[Nth(at, n)]
    BY <2>1, PickedInOrder
  <2>. QED  BY <2>2 DEF at
<1>4. releases_to_prune(listed, keep, cur) = t
  BY DEF releases_to_prune, Behind
<1>. HIDE DEF t
<1>5. Elems(t) = {listed[i] : i \in Behind(cur)}
  BY <1>3 DEF Elems
<1>. QED  BY <1>2, <1>4, <1>5

LEMMA Add_Inv == TableInv /\ AddRelease => TableInv'
<1>. SUFFICES ASSUME TableInv, AddRelease PROVE TableInv'
  OBVIOUS
<1>1. /\ recorded \in Nat /\ MaxReleases \in Nat /\ recorded < MaxReleases
      /\ recorded' = recorded + 1 /\ listed' = <<recorded + 1>> \o listed /\ keep' = keep
  BY TableAssumption DEF TableInv, AddRelease
<1>2. listed \in Seq(1 .. recorded') /\ <<recorded + 1>> \in Seq(1 .. recorded')
  <2>1. 1 .. recorded \subseteq 1 .. recorded'
    BY <1>1
  <2>2. listed \in Seq(1 .. recorded')
    BY <2>1, SeqMonotonic DEF TableInv
  <2>3. recorded + 1 \in 1 .. recorded'
    BY <1>1
  <2>. QED  BY <2>2, <2>3
<1>3. /\ listed' \in Seq(1 .. recorded') /\ Len(listed') = 1 + Len(listed)
      /\ \A i \in 1 .. 1 + Len(listed) : listed'[i] = IF i <= 1 THEN recorded + 1 ELSE listed[i - 1]
  BY <1>1, <1>2, ConcatProperties
<1>4. Len(listed) \in Nat /\ DOMAIN listed' = 1 .. 1 + Len(listed)
  BY <1>3, ListedOnce, LenProperties
<1>5. Descending(listed)'
  <2>. SUFFICES ASSUME NEW i \in 1 .. 1 + Len(listed), NEW j \in 1 .. 1 + Len(listed), i < j
                PROVE  listed'[i] > listed'[j]
    BY <1>4 DEF Descending
  <2>1. j - 1 \in 1 .. Len(listed) /\ listed'[j] = listed[j - 1]
    BY <1>3, <1>4
  <2>2. listed[j - 1] \in 1 .. recorded
    BY <2>1, ElementOfSeq DEF TableInv
  <2>3. CASE i = 1
    BY <1>1, <1>3, <1>4, <2>1, <2>2, <2>3
  <2>4. CASE i # 1
    <3>1. i - 1 \in 1 .. Len(listed) /\ listed'[i] = listed[i - 1] /\ i - 1 < j - 1
      BY <1>3, <1>4, <2>4
    <3>. QED  BY <2>1, <3>1, ListedOnce
  <2>. QED  BY <2>3, <2>4
<1>6. EffectiveKeep(keep)' = EffectiveKeep(keep)
  BY <1>1 DEF EffectiveKeep
<1>. QED  BY <1>1, <1>3, <1>4, <1>5, <1>6 DEF TableInv

LEMMA Sweep_Inv == ASSUME TableInv, NEW r, CommitAndSweep(r) PROVE TableInv'
<1>. DEFINE kept == {i \in DOMAIN listed : listed[i] \notin Elems(releases_to_prune(listed, keep, r))}
<1>1. listed' = Picked(listed, kept) /\ recorded' = recorded /\ keep' = keep
  BY DEF CommitAndSweep
<1>2. /\ Len(listed) \in Nat /\ DOMAIN listed = 1 .. Len(listed) /\ listed \in Seq(1 .. recorded)
      /\ EffectiveKeep(keep) \in Nat
  BY ListedOnce, EffectiveKeepType DEF TableInv
<1>3. kept \in SUBSET (1 .. Len(listed))
  BY <1>2
<1>4. \A i \in 1 .. Len(listed) : i <= EffectiveKeep(keep) => i \in kept
  <2>. SUFFICES ASSUME NEW i \in 1 .. Len(listed), i <= EffectiveKeep(keep), i \notin kept PROVE FALSE
    OBVIOUS
  <2>1. PICK j \in Behind(r) : listed[j] = listed[i]
    BY <1>2, Swept
  <2>2. j \in 1 .. Len(listed) /\ j > EffectiveKeep(keep)
    BY <1>2, <2>1 DEF Behind
  <2>. QED  BY <1>2, <2>1, <2>2, ListedOnce
<1>. HIDE DEF kept
<1>5. /\ listed' \in Seq(1 .. recorded) /\ Len(listed') = Cardinality(kept)
      /\ DOMAIN listed' = 1 .. Cardinality(kept) /\ Cardinality(kept) \in Nat
      /\ \A n \in DOMAIN listed' : Nth(kept, n) \in kept /\ listed'[n] = listed[Nth(kept, n)]
      /\ \A n, k \in DOMAIN listed' : n < k => Nth(kept, n) < Nth(kept, k)
  BY <1>1, <1>2, <1>3, PickedInOrder
<1>6. Descending(listed)'
  <2>. SUFFICES ASSUME NEW n \in DOMAIN listed', NEW k \in DOMAIN listed', n < k
                PROVE  listed'[n] > listed'[k]
    BY DEF Descending
  <2>1. /\ Nth(kept, n) \in 1 .. Len(listed) /\ Nth(kept, k) \in 1 .. Len(listed)
        /\ Nth(kept, n) < Nth(kept, k)
        /\ listed'[n] = listed[Nth(kept, n)] /\ listed'[k] = listed[Nth(kept, k)]
    BY <1>3, <1>5
  <2>. QED  BY <2>1, ListedOnce
<1>7. ASSUME EffectiveKeep(keep) >= 2 PROVE Len(listed') >= 2 \/ Len(listed') >= recorded
  <2>0. IsFiniteSet(kept)
    BY <1>2, <1>3, PositionsAreFinite
  <2>1. CASE Len(listed) >= 2
    <3>1. 1 .. 2 \in SUBSET kept
      BY <1>2, <1>4, <1>7, <2>1
    <3>2. Cardinality(1 .. 2) = 2
      BY IntervalSize
    <3>3. Cardinality(1 .. 2) <= Cardinality(kept)
      BY <2>0, <3>1, FS_Subset
    <3>. QED  BY <1>5, <3>2, <3>3
  <2>2. CASE Len(listed) < 2
    <3>1. 1 .. Len(listed) \in SUBSET kept
      BY <1>2, <1>4, <1>7, <2>2
    <3>2. Cardinality(1 .. Len(listed)) = Len(listed)
      BY <1>2, IntervalSize
    <3>3. Cardinality(1 .. Len(listed)) <= Cardinality(kept)
      BY <2>0, <3>1, FS_Subset
    <3>4. Len(listed) >= recorded
      BY <1>2, <1>7, <2>2 DEF TableInv
    <3>. QED  BY <1>2, <1>5, <3>2, <3>3, <3>4 DEF TableInv
  <2>. QED  BY <1>2, <2>1, <2>2
<1>8. EffectiveKeep(keep)' = EffectiveKeep(keep)
  BY <1>1 DEF EffectiveKeep
<1>. QED  BY <1>1, <1>5, <1>6, <1>7, <1>8 DEF TableInv

LEMMA TableInvariant == TableSpec => []TableInv
<1>1. TableInit => TableInv
  <2>. SUFFICES ASSUME TableInit PROVE TableInv
    OBVIOUS
  <2>1. MaxReleases \in Nat /\ keep \in Nat
    BY TableAssumption DEF TableInit
  <2>. QED  BY <2>1 DEF TableInit, TableInv, Descending
<1>2. TableInv /\ [TableNext]_tableVars => TableInv'
  <2>1. ASSUME TableInv, UNCHANGED <<listed, recorded, keep>> PROVE TableInv'
    BY <2>1 DEF TableInv, Descending, EffectiveKeep
  <2>. QED  BY <2>1, Add_Inv, Sweep_Inv DEF TableNext, GoBack, tableVars
<1>. QED  BY <1>1, <1>2, PTL DEF TableSpec

\* As many releases are newer as stand before it.
LEMMA NewerStandBefore ==
  ASSUME TableInv, NEW i \in 1 .. Len(listed)
  PROVE  /\ NewerThan(listed[i], Elems(listed), Rank) = {listed[j] : j \in 1 .. i - 1}
         /\ Cardinality(NewerThan(listed[i], Elems(listed), Rank)) = i - 1
<1>1. /\ Len(listed) \in Nat /\ DOMAIN listed = 1 .. Len(listed)
      /\ \A k \in 1 .. Len(listed) : Rank[listed[k]] = listed[k]
  BY ListedOnce DEF Rank
<1>2. NewerThan(listed[i], Elems(listed), Rank) = {listed[j] : j \in 1 .. i - 1}
  <2>1. Elems(listed) = {listed[j] : j \in 1 .. Len(listed)}
    BY <1>1 DEF Elems
  <2>2. ASSUME NEW j \in 1 .. Len(listed) PROVE Rank[listed[j]] > Rank[listed[i]] <=> j \in 1 .. i - 1
    BY <1>1, ListedOnce
  <2>3. 1 .. i - 1 \subseteq 1 .. Len(listed)
    BY <1>1
  <2>. QED  BY <2>1, <2>2, <2>3 DEF NewerThan
<1>3. Cardinality({listed[j] : j \in 1 .. i - 1}) = i - 1
  <2>. DEFINE S == {listed[j] : j \in 1 .. i - 1}
  <2>1. [j \in 1 .. i - 1 |-> listed[j]] \in Bijection(1 .. i - 1, S)
    <3>1. ASSUME NEW p \in 1 .. i - 1, NEW q \in 1 .. i - 1, listed[p] = listed[q] PROVE p = q
      <4>1. p \in 1 .. Len(listed) /\ q \in 1 .. Len(listed)
        BY <1>1
      <4>. QED  BY <3>1, <4>1, ListedOnce
    <3>. QED  BY <3>1 DEF Bijection, Injection, Surjection, IsInjective
  <2>2. IsFiniteSet(1 .. i - 1) /\ Cardinality(1 .. i - 1) = i - 1
    <3>1. i - 1 \in Nat
      BY <1>1
    <3>. QED  BY <3>1, IntervalSize
  <2>. HIDE DEF S
  <2>3. Cardinality(S) = i - 1
    BY <2>1, <2>2, FS_Bijection DEF ExistsBijection
  <2>. QED  BY <2>3 DEF S
<1>. QED  BY <1>2, <1>3

LEMMA PruneByRank == TableInv => PruneMatchesRank
<1>. SUFFICES ASSUME TableInv, NEW cur \in 0 .. MaxReleases
              PROVE  Elems(releases_to_prune(listed, keep, cur)) = Prunable(Elems(listed), Rank, keep, cur)
  BY DEF PruneMatchesRank
<1>1. Len(listed) \in Nat /\ DOMAIN listed = 1 .. Len(listed) /\ EffectiveKeep(keep) \in Nat
  BY ListedOnce, EffectiveKeepType DEF TableInv
<1>2. ASSUME NEW i \in 1 .. Len(listed)
      PROVE  listed[i] \in Prunable(Elems(listed), Rank, keep, cur) <=> i \in Behind(cur)
  <2>1. Cardinality(NewerThan(listed[i], Elems(listed), Rank)) = i - 1
    BY NewerStandBefore
  <2>2. listed[i] \in Elems(listed)
    BY <1>1 DEF Elems
  <2>. QED  BY <1>1, <2>1, <2>2 DEF Prunable, Behind
<1>3. \A r \in Prunable(Elems(listed), Rank, keep, cur) : \E i \in 1 .. Len(listed) : r = listed[i]
  BY <1>1 DEF Prunable, Elems
<1>4. Prunable(Elems(listed), Rank, keep, cur) = {listed[i] : i \in Behind(cur)}
  BY <1>2, <1>3, Swept
<1>. QED  BY <1>4, Swept

LEMMA BackByRank == TableInv => RollbackMatchesRank
<1>. SUFFICES ASSUME TableInv, NEW requested \in Requests
              PROVE  rollback_target(listed, current, requested).release
                       = RollbackChoice(Elems(listed), Rank, current, requested)
  BY DEF RollbackMatchesRank
<1>0. Len(listed) \in Nat /\ DOMAIN listed = 1 .. Len(listed)
  BY ListedOnce
<1>1. Elems(listed) = {listed[i] : i \in 1 .. Len(listed)}
  BY <1>0 DEF Elems
<1>2. ASSUME NEW hits \in SUBSET (1 .. Len(listed)), NEW why
      PROVE  First(listed, hits, why).release = IF hits = {} THEN {} ELSE {listed[Nth(hits, 1)]}
  BY DEF First, Refused, Chosen
<1>3. CASE requested = {}
  <2>. DEFINE hits == Others(listed, current)
  <2>1. hits \in SUBSET (1 .. Len(listed)) /\ \A i \in 1 .. Len(listed) : i \in hits <=> listed[i] # current
    BY <1>0 DEF Others
  <2>2. /\ rollback_target(listed, current, requested).release = First(listed, hits, "NoPreviousRelease").release
        /\ RollbackChoice(Elems(listed), Rank, current, requested) = Newest(Elems(listed) \ {current}, Rank)
    BY <1>3 DEF rollback_target, RollbackChoice
  <2>. HIDE DEF hits
  <2>3. Elems(listed) \ {current} = {listed[i] : i \in hits}
    BY <1>1, <2>1
  <2>4. ASSUME NEW i \in hits, NEW j \in hits
        PROVE  Rank[listed[j]] > Rank[listed[i]] <=> j < i
    <3>1. Rank[listed[j]] = listed[j] /\ Rank[listed[i]] = listed[i]
      BY <2>1, ListedOnce DEF Rank
    <3>. QED  BY <2>1, <3>1, ListedOnce
  <2>5. CASE hits = {}
    <3>1. Elems(listed) \ {current} = {}
      BY <2>3, <2>5
    <3>2. Newest({}, Rank) = {}
      BY DEF Newest
    <3>. QED  BY <1>2, <2>1, <2>2, <2>5, <3>1, <3>2
  <2>6. CASE hits # {}
    <3>1. Nth(hits, 1) \in hits /\ \A i \in hits : Nth(hits, 1) <= i
      BY <1>0, <2>1, <2>6, FirstIsLeast
    <3>2. \A i \in hits : i \in Nat
      BY <1>0, <2>1
    <3>3. ASSUME NEW i \in hits
          PROVE  NewerThan(listed[i], Elems(listed) \ {current}, Rank) = {} <=> \A j \in hits : ~(j < i)
      BY <2>3, <2>4 DEF NewerThan
    <3>4. \A i \in hits : (\A j \in hits : ~(j < i)) <=> i = Nth(hits, 1)
      BY <3>1, <3>2
    <3>5. Newest(Elems(listed) \ {current}, Rank) = {listed[Nth(hits, 1)]}
      <4>1. ASSUME NEW i \in hits
            PROVE  NewerThan(listed[i], Elems(listed) \ {current}, Rank) = {} <=> i = Nth(hits, 1)
        BY <3>3, <3>4
      <4>2. \A r \in Elems(listed) \ {current} : \E i \in hits : r = listed[i]
        BY <2>3
      <4>3. listed[Nth(hits, 1)] \in Elems(listed) \ {current}
        BY <2>3, <3>1
      <4>. DEFINE new == Newest(Elems(listed) \ {current}, Rank)
      <4>4. listed[Nth(hits, 1)] \in new
        BY <3>1, <4>1, <4>3 DEF Newest
      <4>5. \A r \in new : r = listed[Nth(hits, 1)]
        <5>. SUFFICES ASSUME NEW r \in Elems(listed) \ {current},
                             NewerThan(r, Elems(listed) \ {current}, Rank) = {}
                      PROVE  r = listed[Nth(hits, 1)]
          BY DEF Newest
        <5>. QED  BY <4>1, <4>2
      <4>. QED  BY <4>4, <4>5
    <3>. QED  BY <1>2, <2>1, <2>2, <2>6, <3>5
  <2>. QED  BY <2>5, <2>6
<1>4. CASE requested # {}
  <2>1. PICK r \in 1 .. MaxReleases : requested = {r}
    BY <1>4 DEF Requests
  <2>2. CASE r = current
    BY <1>4, <2>1, <2>2 DEF rollback_target, RollbackChoice, Refused
  <2>3. CASE r # current
    <3>. DEFINE hits == {i \in DOMAIN listed : listed[i] \in requested}
    <3>1. hits \in SUBSET (1 .. Len(listed)) /\ \A i \in 1 .. Len(listed) : i \in hits <=> listed[i] = r
      BY <1>0, <2>1
    <3>2. /\ rollback_target(listed, current, requested).release = First(listed, hits, "NotRetained").release
          /\ RollbackChoice(Elems(listed), Rank, current, requested) = {r} \cap Elems(listed)
      BY <1>4, <2>1, <2>3 DEF rollback_target, RollbackChoice
    <3>. HIDE DEF hits
    <3>3. CASE hits = {}
      <4>1. r \notin Elems(listed)
        BY <1>1, <3>1, <3>3
      <4>2. First(listed, hits, "NotRetained").release = {}
        BY <1>2, <3>1, <3>3
      <4>. QED  BY <3>2, <4>1, <4>2
    <3>4. CASE hits # {}
      <4>1. Nth(hits, 1) \in hits
        BY <1>0, <3>1, <3>4, FirstIsLeast
      <4>2. listed[Nth(hits, 1)] = r /\ r \in Elems(listed)
        BY <1>1, <3>1, <4>1
      <4>3. First(listed, hits, "NotRetained").release = {listed[Nth(hits, 1)]}
        BY <1>2, <3>1, <3>4
      <4>. QED  BY <3>2, <4>2, <4>3
    <3>. QED  BY <3>3, <3>4
  <2>. QED  BY <2>2, <2>3
<1>. QED  BY <1>3, <1>4

LEMMA WayBackIsLeft == TableInv => CommitLeavesAWayBack
<1>. SUFFICES ASSUME TableInv, recorded >= 2, EffectiveKeep(keep) >= 2
              PROVE  rollback_target(listed, current, {}).release # {}
  BY DEF CommitLeavesAWayBack
<1>1. Len(listed) \in Nat /\ DOMAIN listed = 1 .. Len(listed) /\ Len(listed) >= 2
  BY ListedOnce DEF TableInv
<1>2. listed[1] # listed[2]
  BY <1>1, ListedOnce
<1>3. Others(listed, current) # {}
  BY <1>1, <1>2 DEF Others
<1>. QED  BY <1>3 DEF rollback_target, First, Chosen

THEOREM SweepsLeaveAWayBack == TableSpec => []RetentionServesRollback
<1>1. TableInv => RetentionServesRollback
  BY PruneByRank, BackByRank, WayBackIsLeft DEF RetentionServesRollback
<1>. QED  BY <1>1, TableInvariant, PTL
=============================================================================
