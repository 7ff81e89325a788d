-------------------------- MODULE DeploymentEvents --------------------------
(***************************************************************************)
(* What one deployment tells the world while its task runs: the status in  *)
(* its row, the lines in deployment_logs, and the events on its broadcast  *)
(* channel.  The modules that extend this one add who listens: the Watch   *)
(* stream, and the writeback of commit statuses.                           *)
(*                                                                         *)
(* A row write and the publication that follows it are two steps, because  *)
(* a listener can look between them.                                       *)
(***************************************************************************)
EXTENDS Naturals, Sequences

CONSTANTS
  Receiver,        \* who may subscribe to the channel
  Inline,          \* lines the task writes itself, one after the other
  Spawned,         \* health-check lines, each written by a task of its own
  Capacity,        \* CHANNEL_CAPACITY
  Triggers,        \* who may have asked for the deployment
  ListensAt,       \* the process whose bus the receivers subscribe to
  MaxTransitions   \* bound on status changes before the last one

Line == Inline \cup Spawned
Outcome == {"succeeded", "failed", "cancelled", "rolled_back"}

ASSUME EventsAssumption ==
  /\ Inline \cap Spawned = {}
  /\ Capacity \in Nat \ {0}
  /\ Triggers \subseteq {"api", "webhook", "rollback"}
  /\ ListensAt \in {"server", "web"}
  /\ MaxTransitions \in Nat

VARIABLES
  trigger, \* who asked for it
  row,     \* status in the row, "active" until it is an outcome
  line,    \* how far each line has come
  engine,  \* the task: "running", "ending", "told", "closed"
  moves,   \* status changes so far
  open,    \* whether the bus of the receivers has a channel for this id
  rx       \* the receivers of the channel: events queued, and how many were lost

events == <<trigger, row, line, engine, moves>>
bus    == <<open, rx>>

NoRx == [state |-> "none", queue |-> <<>>, lost |-> 0]

EventsInit ==
  /\ trigger \in Triggers
  /\ row = "active"
  /\ line = [l \in Line |-> "none"]
  /\ engine = "running"
  /\ moves = 0
  /\ open = FALSE
  /\ rx = [r \in Receiver |-> NoRx]

-----------------------------------------------------------------------------
(* The bus: the dashboard has one of its own for what its webhook starts.  *)

HostOf(asker) == IF asker = "webhook" THEN "web" ELSE "server"
Heard == HostOf(trigger) = ListensAt

\* A broadcast receiver that falls a whole buffer behind loses its oldest event.
Push(x, e) ==
  IF x.state # "attached" THEN x
  ELSE [x EXCEPT !.queue = IF Len(@) < Capacity THEN Append(@, e) ELSE Append(Tail(@), e),
                 !.lost = IF Len(x.queue) < Capacity THEN @ ELSE @ + 1]

\* publish_deployment: nobody hears it on a channel that does not exist.
Publish(e) ==
  /\ rx' = IF Heard THEN [r \in Receiver |-> Push(rx[r], e)] ELSE rx
  /\ UNCHANGED open

\* watch_deployment creates the channel when there is none, finished or not.
SubscribeTo(r) ==
  /\ open' = TRUE
  /\ rx' = [rx EXCEPT ![r] = [NoRx EXCEPT !.state = "attached"]]

\* A receiver goes out of scope; the sender stays in the map.
Detach(r) ==
  /\ rx' = [rx EXCEPT ![r] = NoRx]
  /\ UNCHANGED open

Pending(r) == rx[r].lost = 0 /\ rx[r].queue # <<>>

\* recv(): first the news that events were lost, then what is buffered, then
\* the end of a channel whose sender is gone.
Lagged(r) == rx[r].lost > 0
Hears(r, kind) == Pending(r) /\ Head(rx[r].queue).kind = kind
ClosedFor(r) == rx[r] = [NoRx EXCEPT !.state = "dropped"]

TakeLag(r)  == rx' = [rx EXCEPT ![r].lost = 0] /\ UNCHANGED open
TakeHead(r) == rx' = [rx EXCEPT ![r].queue = Tail(@)] /\ UNCHANGED open

-----------------------------------------------------------------------------
(* The task.  That of a rollback reports no transitions, checks nothing and *)
(* leaves its channel open.                                                *)

IsDeploy == trigger # "rollback"

\* transition(): the row stays active; the watchers are told.
Transition ==
  /\ IsDeploy /\ engine = "running" /\ moves < MaxTransitions
  /\ moves' = moves + 1
  /\ Publish([kind |-> "status"])
  /\ UNCHANGED <<trigger, row, line, engine>>

\* The health check's callback is synchronous and hands its emit to the runtime.
SpawnLine(l) ==
  /\ IsDeploy /\ engine = "running" /\ l \in Spawned /\ line[l] = "none"
  /\ line' = [line EXCEPT ![l] = "spawned"]
  /\ UNCHANGED <<trigger, row, engine, moves, bus>>

InlineAtRest == \A l \in Inline : line[l] # "stored"

\* emit(): the row first ...
StoreLine(l) ==
  /\ \/ l \in Inline /\ line[l] = "none" /\ engine = "running" /\ InlineAtRest
     \/ l \in Spawned /\ line[l] = "spawned"
  /\ line' = [line EXCEPT ![l] = "stored"]
  /\ UNCHANGED <<trigger, row, engine, moves, bus>>

\* ... then the channel.
SendLine(l) ==
  /\ line[l] = "stored"
  /\ line' = [line EXCEPT ![l] = "sent"]
  /\ Publish([kind |-> "line", line |-> l])
  /\ UNCHANGED <<trigger, row, engine, moves>>

\* finish(), or the end of the Rollback task: the outcome in the row ...
EndRow ==
  /\ engine = "running" /\ InlineAtRest
  /\ row' \in Outcome
  /\ engine' = "ending"
  /\ UNCHANGED <<trigger, line, moves, bus>>

\* ... then Finished ...
TellEnd ==
  /\ engine = "ending"
  /\ engine' = "told"
  /\ Publish([kind |-> "finished"])
  /\ UNCHANGED <<trigger, row, line, moves>>

\* ... and five seconds later the channel goes, if there is one.
CloseChannel ==
  /\ IsDeploy /\ engine = "told"
  /\ engine' = "closed"
  /\ IF Heard
       THEN /\ open' = FALSE
            /\ rx' = [r \in Receiver |-> IF rx[r].state = "attached"
                                           THEN [rx[r] EXCEPT !.state = "dropped"]
                                           ELSE rx[r]]
       ELSE UNCHANGED bus
  /\ UNCHANGED <<trigger, row, line, moves>>

EngineStep ==
  \/ Transition \/ EndRow \/ TellEnd
  \/ \E l \in Line : SpawnLine(l) \/ StoreLine(l) \/ SendLine(l)
=============================================================================
