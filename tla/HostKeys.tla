------------------------------ MODULE HostKeys ------------------------------
(***************************************************************************)
(* Hosts reached over SSH and the keys they are known by: the columns that *)
(* `targets` and `build_hosts` share (server/src/store/host_keys.rs), the  *)
(* verdict of a handshake (server/src/ssh.rs) and Engine::connect, which   *)
(* writes back what a connection learned (server/src/deploy/releases.rs).  *)
(*                                                                         *)
(* A connection works on the row as it was when the caller read it, so     *)
(* every step between that read and the write that follows the handshake   *)
(* may find the row changed.  Timestamps are left out, and so is a host    *)
(* without a usable SSH key, which no connection is opened to.             *)
(***************************************************************************)
EXTENDS FiniteSets

CONSTANTS
    Host,     \* the ids rows can have; an id is never given out twice
    Address,  \* host name and port
    Key,      \* host keys
    Conn,     \* connections being made
    NoKey,    \* the empty column
    Mangled   \* a stored key that no longer parses

ASSUME KeysAssumption == NoKey \notin Key /\ Mangled \notin Key \cup {NoKey}

VARIABLES
    rows,     \* the host's row, or Unborn, or Gone
    machine,  \* external: the key that whatever answers at an address presents
    conn      \* the connections under way

Unborn == [state |-> "unborn"]
Gone == [state |-> "gone"]

(* An inserted row: nothing pinned, nothing pending, status unknown. *)
NewRow(address, critical) ==
    [state |-> "row", address |-> address, critical |-> critical,
     key |-> NoKey, pending |-> NoKey, status |-> "unknown"]

Lives(h) == rows[h].state = "row"

Idle == [pc |-> "idle"]

(***************************************************************************)
(* The statements of store/host_keys.rs, each an UPDATE of one row: of a   *)
(* deleted host it changes nothing.                                        *)
(***************************************************************************)
Updated(h, row) == rows' = IF Lives(h) THEN [rows EXCEPT ![h] = row] ELSE rows

PinHostKey(h, k) == Updated(h, [rows[h] EXCEPT !.key = k, !.pending = NoKey])

RecordPendingHostKey(h, k) == Updated(h, [rows[h] EXCEPT !.pending = k])

ClearPendingHostKey(h) == Updated(h, [rows[h] EXCEPT !.pending = NoKey])

ForgetHostKey(h) == Updated(h, [rows[h] EXCEPT !.key = NoKey, !.pending = NoKey])

SetHostStatus(h, status) == Updated(h, [rows[h] EXCEPT !.status = status])

(* What a presented key means given what was pinned when the row was read. *)
VerdictFor(expected, presented) ==
    CASE expected = presented -> "matched"
      [] expected = NoKey -> "pinned"
      [] OTHER -> "changed"

(***************************************************************************)
(* Engine::connect.                                                        *)
(***************************************************************************)
(* The caller has read the row and ssh_target_for has assembled it.  A     *)
(* check writes the host's status when it is done; nothing else does.      *)
Prepare(c) ==
    /\ conn[c].pc = "idle"
    /\ \E h \in Host, check \in BOOLEAN :
          /\ Lives(h)
          /\ conn' = [conn EXCEPT ![c] =
                        [pc |-> "prepared", host |-> h, check |-> check,
                         address |-> rows[h].address, expected |-> rows[h].key]]
    /\ UNCHANGED <<rows, machine>>

(* The handshake, and behind it the authentication.  A changed key is      *)
(* refused before it; a host that is down, or refuses our key, has taught  *)
(* the caller nothing.                                                     *)
Handshake(c) ==
    /\ conn[c].pc = "prepared"
    /\ LET presented == machine[conn[c].address]
           verdict == VerdictFor(conn[c].expected, presented)
       IN \E got \in {verdict, "failed"} :
             conn' = [conn EXCEPT ![c] =
                        [pc |-> "recording", host |-> @.host, check |-> @.check,
                         expected |-> @.expected, presented |-> presented, verdict |-> got]]
    /\ UNCHANGED <<rows, machine>>

(* record_host_key after a connection, record_pending_host_key after a     *)
(* refusal.  A failed write is only logged.                                *)
Record(c) ==
    /\ conn[c].pc = "recording"
    /\ LET h == conn[c].host
           k == conn[c].presented
       IN \/ conn[c].verdict = "pinned" /\ PinHostKey(h, k)
          \/ conn[c].verdict = "matched" /\ ClearPendingHostKey(h)
          \/ conn[c].verdict = "changed" /\ RecordPendingHostKey(h, k)
          \/ UNCHANGED rows
    /\ conn' = [conn EXCEPT ![c] =
                  IF @.check
                  THEN [pc |-> "probing", host |-> @.host,
                        open |-> @.verdict \in {"pinned", "matched"}]
                  ELSE Idle]
    /\ UNCHANGED machine

(* The outcomes check_target and check_build_host can have: without a      *)
(* session every check fails, with one each of the others may.             *)
ProbeOk(open) == IF open THEN BOOLEAN ELSE {FALSE}

(* The checks over the open session, and the status they amount to. *)
Probe(c) ==
    /\ conn[c].pc = "probing"
    /\ \/ \E ok \in ProbeOk(conn[c].open) :
             SetHostStatus(conn[c].host, IF ok THEN "reachable" ELSE "unreachable")
       \/ UNCHANGED rows
    /\ conn' = [conn EXCEPT ![c] = Idle]
    /\ UNCHANGED machine

(* External: another machine answers at the address, or the same rebuilt. *)
Rebuild ==
    /\ \E a \in Address, k \in Key : machine' = [machine EXCEPT ![a] = k]
    /\ UNCHANGED <<rows, conn>>

Connect(c) == Prepare(c) \/ Handshake(c) \/ Record(c) \/ Probe(c)

=============================================================================
