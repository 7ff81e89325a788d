-------------------------- MODULE DeploymentWatch ---------------------------
(***************************************************************************)
(* The Watch stream of a deployment: the snapshot of the row, the          *)
(* subscription, the replay of stored output, and the live events up to    *)
(* the verdict.                                                            *)
(***************************************************************************)
EXTENDS DeploymentEvents

VARIABLE watcher

vars == <<events, bus, watcher>>

NoWatcher == [pc |-> "idle", snapshot |-> "active", seen |-> {}, told |-> FALSE,
              verdict |-> "none"]

Init == EventsInit /\ watcher = [w \in Receiver |-> NoWatcher]

-----------------------------------------------------------------------------
\* watch() reads the row ...
ReadRow(w) ==
  /\ watcher[w].pc = "idle"
  /\ watcher' = [watcher EXCEPT ![w].pc = "read", ![w].snapshot = row]
  /\ UNCHANGED <<events, bus>>

\* ... then subscribes, before the stream replays the history.
Subscribe(w) ==
  /\ watcher[w].pc = "read"
  /\ SubscribeTo(w)
  /\ watcher' = [watcher EXCEPT ![w].pc = "history"]
  /\ UNCHANGED events

Stored == {l \in Line : line[l] \in {"stored", "sent"}}

\* The stored lines; a row that was already terminal goes on to its verdict.
Replay(w) ==
  /\ watcher[w].pc = "history"
  /\ watcher' = [watcher EXCEPT ![w].seen = Stored,
                                ![w].pc = IF watcher[w].snapshot \in Outcome THEN "verdict"
                                                                             ELSE "live"]
  /\ UNCHANGED <<events, bus>>

\* Variant of Receive: the end of the channel is taken for a passing error.
ReceiveIgnoringClose(w) ==
  /\ watcher[w].pc = "live"
  /\ \/ /\ Lagged(w) /\ TakeLag(w)
        /\ watcher' = [watcher EXCEPT ![w].told = TRUE]
     \/ /\ \E kind \in {"status", "line"} : Hears(w, kind)
        /\ TakeHead(w)
        /\ UNCHANGED watcher
     \/ /\ Hears(w, "finished") /\ TakeHead(w)
        /\ watcher' = [watcher EXCEPT ![w].pc = "verdict"]
  /\ UNCHANGED events

\* Variant of Receive: the viewer is not told that it fell behind.
ReceiveHidingLag(w) ==
  /\ watcher[w].pc = "live"
  /\ \/ /\ Lagged(w) /\ TakeLag(w)
        /\ UNCHANGED watcher
     \/ /\ Hears(w, "line") /\ TakeHead(w)
        /\ watcher' = [watcher EXCEPT ![w].seen = @ \cup {Head(rx[w].queue).line}]
     \/ /\ Hears(w, "status") /\ TakeHead(w)
        /\ UNCHANGED watcher
     \/ /\ Hears(w, "finished") /\ TakeHead(w)
        /\ watcher' = [watcher EXCEPT ![w].pc = "verdict"]
     \/ /\ ClosedFor(w) /\ UNCHANGED bus
        /\ watcher' = [watcher EXCEPT ![w].pc = "verdict"]
  /\ UNCHANGED events

\* One turn of the loop over recv().
Receive(w) ==
  /\ watcher[w].pc = "live"
  /\ \/ /\ Lagged(w) /\ TakeLag(w)
        /\ watcher' = [watcher EXCEPT ![w].told = TRUE]
     \/ /\ Hears(w, "status") /\ TakeHead(w)
        /\ UNCHANGED watcher
     \/ /\ Hears(w, "line") /\ TakeHead(w)
        /\ watcher' = [watcher EXCEPT ![w].seen = @ \cup {Head(rx[w].queue).line}]
     \/ /\ Hears(w, "finished") /\ TakeHead(w)
        /\ watcher' = [watcher EXCEPT ![w].pc = "verdict"]
     \/ /\ ClosedFor(w) /\ UNCHANGED bus
        /\ watcher' = [watcher EXCEPT ![w].pc = "verdict"]
  /\ UNCHANGED events

\* The row is read again, delivered as the terminal state, and the stream ends.
Deliver(w) ==
  /\ watcher[w].pc = "verdict"
  /\ watcher' = [watcher EXCEPT ![w].pc = "done", ![w].verdict = row]
  /\ Detach(w)
  /\ UNCHANGED events

\* The client goes away and drops the stream.
Leave(w) ==
  /\ watcher[w].pc \in {"history", "live"}
  /\ watcher' = [watcher EXCEPT ![w].pc = "done"]
  /\ Detach(w)
  /\ UNCHANGED events

\* Nothing is awaited between reading the row and subscribing, so a watcher
\* is never there for the five seconds the channel outlives its deployment.
Close ==
  /\ \A w \in Receiver : watcher[w].pc # "read"
  /\ CloseChannel
  /\ UNCHANGED watcher

Stream(w) == Subscribe(w) \/ Replay(w) \/ Receive(w) \/ Deliver(w)

Next ==
  \/ EngineStep /\ UNCHANGED watcher
  \/ Close
  \/ \E w \in Receiver : ReadRow(w) \/ Stream(w) \/ Leave(w)

\* The runtime polls what is ready, the task ends, the timer fires.  Nobody has
\* to watch, and nobody has to leave.
Fairness ==
  /\ WF_vars(EngineStep /\ UNCHANGED watcher)
  /\ WF_vars(EndRow /\ UNCHANGED watcher)
  /\ WF_vars(Close)
  /\ \A w \in Receiver : WF_vars(Stream(w))

Spec == Init /\ [][Next]_vars
FairSpec == Spec /\ Fairness

-----------------------------------------------------------------------------
Shown(w) == watcher[w].pc = "done" /\ watcher[w].verdict # "none"

\* A viewer who is shown the verdict was shown every line the task itself wrote,
\* or was told that it fell behind (watch: "Subscribe before replaying history,
\* so an event that lands between the two is not lost").
NothingLost ==
  \A w \in Receiver : Shown(w) /\ ~watcher[w].told =>
    {l \in Inline : line[l] = "sent"} \subseteq watcher[w].seen

\* It does at least when the deployment is a Deploy: the row, Finished or the
\* close of the channel reaches it, whichever it could still see.
DeployWatchEnds ==
  \A w \in Receiver :
    trigger = "api" /\ watcher[w].pc = "history" ~> watcher[w].pc = "done"
=============================================================================
