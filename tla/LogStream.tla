----------------------------- MODULE LogStream -----------------------------
(***************************************************************************)
(* Following a service's journal (LogsService::stream,                     *)
(* server/src/api/logs.rs): what a viewer is given first out of the ring   *)
(* buffer the viewers of one service share (server/src/events.rs), and the *)
(* journalctl that takes over behind it (server/src/logs.rs).  Whatever a  *)
(* viewer reads from the journal it puts into the buffer.                  *)
(*                                                                         *)
(* A journal line is its number, which is its cursor too.  The tail that   *)
(* would fill the buffer by itself (serve.rs) waits for a subscriber the   *)
(* server does not have, and never runs.                                   *)
(***************************************************************************)
EXTENDS Subsequences

CONSTANTS
    Viewer,
    Capacity,   \* log_buffer_lines, at least one
    MaxJournal, \* how many lines the service writes: a bound
    MaxTail     \* the most lines a viewer asks for: a bound

ASSUME LogStreamAssumption == Capacity \in Nat \ {0} /\ MaxTail \in Nat \ {0} /\ MaxJournal \in Nat

VARIABLES
    journal,  \* external: the number of lines in the journal
    buffer,   \* Bus::log_buffers of the service
    view,     \* each viewer's call: what it asked for and how far it is
    given,    \* what the call has given its viewer
    seen,     \* the last line the viewer has of earlier calls; 0 for none
    others    \* history: a filtered viewer, or two at once, used the buffer

streamVars == <<journal, buffer, view, given, seen, others>>

NoLine == 0
Closed == [at |-> "closed"]

StreamInit ==
    /\ journal = 0 /\ buffer = <<>>
    /\ view = [v \in Viewer |-> Closed]
    /\ given = [v \in Viewer |-> <<>>]
    /\ seen = [v \in Viewer |-> NoLine]
    /\ others = FALSE

(* The filter lets every second line through. *)
Matches(line) == line % 2 = 0
Passes(filtered, line) == filtered => Matches(line)

(* publish_log *)
Published(lines, line) ==
    Append(IF Len(lines) >= Capacity THEN Tail(lines) ELSE lines, line)

(* Bus::backfill and Bus::backfill_after_cursor; a cursor the buffer does  *)
(* not hold is answered with all of it.                                    *)
Backfill(limit) == SubSeq(buffer, 1 + (IF Len(buffer) > limit THEN Len(buffer) - limit ELSE 0), Len(buffer))

BackfillAfter(cursor) ==
    LET at == {i \in 1 .. Len(buffer) : buffer[i] = cursor} IN
    IF at = {} THEN buffer
    ELSE SubSeq(buffer, 1 + CHOOSE i \in at : \A j \in at : i <= j, Len(buffer))

JournalWrites ==
    /\ journal < MaxJournal
    /\ journal' = journal + 1
    /\ UNCHANGED <<buffer, view, given, seen, others>>

\* Variant of After: the journal is read from where the request said.
AfterRequest(lines, since) == since

(* last_cursor, or the request's. *)
After(lines, since) == IF lines = <<>> THEN since ELSE lines[Len(lines)]

(* A call: fresh, or resuming behind the last line its viewer has.  The    *)
(* buffer is read when the stream is first polled.  How much tail was      *)
(* asked for counts no more once there is a cursor.                        *)
Open(v) ==
    /\ view[v].at = "closed"
    /\ \E filtered, follow \in BOOLEAN, tail \in 1 .. MaxTail, since \in {NoLine, seen[v]} :
          LET lines == IF since = NoLine THEN Backfill(tail) ELSE BackfillAfter(since)
              kept == Picked(lines, {i \in DOMAIN lines : Passes(filtered, lines[i])})
              after == After(kept, since)
          IN  /\ view' = [view EXCEPT ![v] =
                            [at |-> "connect", filtered |-> filtered, follow |-> follow,
                             after |-> after, tail |-> IF after = NoLine THEN tail ELSE 0]]
              /\ given' = [given EXCEPT ![v] = kept]
              /\ others' = (others \/ filtered \/ \E w \in Viewer \ {v} : view[w].at # "closed")
    /\ UNCHANGED <<journal, buffer, seen>>

(* build_command: after a cursor, or the last lines that pass the filter.  *)
LastLines(filtered, tail) ==
    LET passing == {line \in 1 .. journal : Passes(filtered, line)} IN
    {line \in passing : Cardinality({later \in passing : later > line}) < tail}

Connect(v) ==
    /\ view[v].at = "connect"
    /\ LET tail == LastLines(view[v].filtered, view[v].tail)
           from == CASE view[v].after # NoLine -> view[v].after
                     [] view[v].after = NoLine /\ tail = {} -> journal
                     [] OTHER -> (CHOOSE line \in tail : \A l \in tail : line <= l) - 1
       IN  view' = [view EXCEPT ![v] = [at |-> "reading", filtered |-> @.filtered, from |-> from,
                                        until |-> IF @.follow THEN MaxJournal ELSE journal]]
    /\ UNCHANGED <<journal, buffer, given, seen, others>>

(* The next line that passes: into the buffer, and to the viewer. *)
Pending(v) ==
    {line \in view[v].from + 1 .. journal :
        line <= view[v].until /\ Passes(view[v].filtered, line)}

Forward(v) ==
    /\ view[v].at = "reading" /\ Pending(v) # {}
    /\ LET line == CHOOSE l \in Pending(v) : \A k \in Pending(v) : l <= k IN
       /\ buffer' = Published(buffer, line)
       /\ given' = [given EXCEPT ![v] = Append(@, line)]
       /\ view' = [view EXCEPT ![v].from = line]
    /\ UNCHANGED <<journal, seen, others>>

(* The read is over, its viewer is gone or its connection is lost. *)
Leave(v) ==
    /\ view[v].at # "closed"
    /\ view' = [view EXCEPT ![v] = Closed]
    /\ seen' = [seen EXCEPT ![v] = IF given[v] = <<>> THEN @ ELSE given[v][Len(given[v])]]
    /\ given' = [given EXCEPT ![v] = <<>>]
    /\ UNCHANGED <<journal, buffer, others>>

(* forget_service, when the service is deleted: a call goes on.  A restart *)
(* of the server empties the buffer too, and ends every call.              *)
Forget ==
    /\ buffer # <<>>
    /\ buffer' = <<>>
    /\ others' = (\E v \in Viewer : view[v].at # "closed")
    /\ UNCHANGED <<journal, view, given, seen>>

StreamNext ==
    \/ JournalWrites \/ Forget
    \/ \E v \in Viewer : Open(v) \/ Connect(v) \/ Forward(v) \/ Leave(v)

(***************************************************************************)
(* Properties.                                                             *)
(***************************************************************************)
Gapless(lines) == \A i \in 1 .. Len(lines) - 1 : lines[i + 1] = lines[i] + 1

(* While viewers without a filter come one after the other, each is given  *)
(* an unbroken run of the journal, no line twice and none left out,        *)
(* through the join of the buffer and the journal behind it and whatever   *)
(* earlier viewers left in the buffer.                                     *)
OneByOneUnbroken ==
    ~others => \A v \in Viewer : Gapless(given[v])

=============================================================================
