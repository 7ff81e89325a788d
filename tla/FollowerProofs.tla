--------------------------- MODULE FollowerProofs ---------------------------
(***************************************************************************)
(* Proofs about those who follow a stream to its end: the task that writes *)
(* a commit's status (StatusWriteback) and the readers of the dashboard,   *)
(* the command line and the agent (Viewers), composed as in MCOutside.     *)
(***************************************************************************)
EXTENDS MCOutside, TLAPS

-----------------------------------------------------------------------------
(* The writeback.  What it is about to write is the passing "pending", or  *)
(* the outcome the row has, which no later step changes: an outcome can    *)
(* have been heard of only once it was in the row.                         *)

Final == row \in Outcome

WritebackInv ==
    /\ row \in Outcome \cup {"active"}
    /\ engine = "running" <=> row = "active"
    /\ engine \in {"running", "ending", "told", "closed"}
    /\ about = "pending" \/ (Final /\ about = CommitStatus[row])
    /\ commit \in {"none", "pending"} \/ (Final /\ commit = CommitStatus[row])

LEMMA Statuses ==
    /\ CommitStatus["active"] = "pending"
    /\ \A o \in Outcome : CommitStatus[o] \in {"success", "failure", "error"}
    /\ "active" \notin Outcome
BY DEF CommitStatus, Outcome

LEMMA WritebackInit_Inv == Init => WritebackInv
BY DEF Init, EventsInit, WritebackInv

LEMMA Engine_Inv == WritebackInv /\ Engine => WritebackInv'
<1>. SUFFICES ASSUME WritebackInv, Engine PROVE WritebackInv'
  OBVIOUS
<1>1. UNCHANGED <<about, commit>> /\ EngineStep
  BY DEF Engine
<1>2. \/ row' = row /\ engine' = engine
      \/ row' = row /\ engine = "ending" /\ engine' = "told"
      \/ row' \in Outcome /\ engine = "running" /\ engine' = "ending"
  BY <1>1 DEF EngineStep, Transition, EndRow, TellEnd, SpawnLine, StoreLine, SendLine
<1>. QED  BY <1>1, <1>2, Statuses DEF WritebackInv, Final

LEMMA WritebackNext_Inv == WritebackInv /\ [Next]_vars => WritebackInv'
<1>. SUFFICES ASSUME WritebackInv, [Next]_vars PROVE WritebackInv'
  OBVIOUS
<1>1. CASE Engine
  BY <1>1, Engine_Inv
<1>2. CASE Close
  BY <1>2 DEF Close, CloseChannel, WritebackInv, Final
<1>3. CASE WritePending \/ Write
  BY <1>3 DEF WritePending, Write, Written, events, WritebackInv, Final
<1>4. CASE Subscribe
  BY <1>4 DEF Subscribe, events, WritebackInv, Final
<1>5. CASE Listen
  <2>1. UNCHANGED <<row, engine, commit>> /\ (about' = about \/ about' = CommitStatus[row])
    BY <1>5 DEF Listen, events
  <2>. QED  BY <2>1, Statuses DEF WritebackInv, Final
<1>6. CASE UNCHANGED vars
  BY <1>6 DEF vars, events, WritebackInv, Final
<1>. QED  BY <1>1, <1>2, <1>3, <1>4, <1>5, <1>6 DEF Next, Step

-----------------------------------------------------------------------------
(* The readers.  A good report is about an outcome that is settled: of a   *)
(* deployment because its verdict was taken and no fetch comes after that, *)
(* of a command because nothing was served for it at all.                  *)

Settled ==
    /\ report = "success" /\ kind = "follow" => outcome = "success" /\ stream.verdict = "taken"
    /\ kind \in Commands /\ code = "success" => outcome = "success"
    /\ report = "success" /\ kind \in Commands => outcome = "success"
    /\ listener # "none" => kind = "follow"

Rendered ==
    /\ report = "done" => kind = "deployment pane"
    /\ report = "done" /\ reader = "over" => ~dirty

Stream == [line : BOOLEAN, verdict : {"none", "sent", "taken"}, end : {"open", "closed", "broken"}]

(* The listener is down because the verdict came or the stream broke, and  *)
(* the stream of a deployment ends with its verdict or breaks.             *)
Served ==
    /\ stream \in Stream
    /\ kind = "follow" /\ stream.end = "closed" => stream.verdict # "none"
    /\ listener \in {"none", "up", "down", "left"}
    /\ listener = "down" => stream.verdict # "none" \/ stream.end = "broken"
    /\ fetch = "refused" => stream.end = "broken" \/ listener = "left"
    /\ reader = "calling" => listener = "none"
    /\ listener = "none" => fetch = "none"

ViewersInv == kind \in Kinds /\ outcome \in {"success", "failure"} /\ Settled /\ Rendered /\ Served

LEMMA ViewersInit_Inv == ViewersInit => ViewersInv
<1>. SUFFICES ASSUME ViewersInit PROVE ViewersInv
  OBVIOUS
<1>1. /\ kind \in Kinds /\ outcome \in {"success", "failure"} /\ report = "none"
      /\ listener = "none" /\ fetch = "none" /\ stream = Fresh
  BY DEF ViewersInit
<1>2. kind \in Commands => code = "none"
  BY DEF ViewersInit, Commands
<1>3. Settled /\ Rendered
  BY <1>1, <1>2 DEF Settled, Rendered
<1>4. Served
  BY <1>1 DEF Served, Fresh, Stream
<1>. QED  BY <1>1, <1>3, <1>4 DEF ViewersInv

(* What a reader's next() does to the stream.                              *)
LEMMA Gets ==
    ASSUME stream \in Stream
    PROVE  /\ GetsLine => /\ stream' \in Stream
                          /\ stream'.verdict = stream.verdict /\ stream'.end = stream.end
           /\ GetsVerdict => /\ stream' \in Stream
                             /\ stream'.verdict = "taken" /\ stream'.end = stream.end
           /\ GetsEnd => stream' = stream /\ stream.end = "closed" /\ stream.verdict # "sent"
           /\ GetsError => stream' = stream /\ stream.end = "broken"
BY DEF Stream, GetsLine, GetsVerdict, GetsEnd, GetsError

LEMMA Upstream_Inv == ViewersInv /\ Upstream => ViewersInv'
<1>. SUFFICES ASSUME ViewersInv, Upstream PROVE ViewersInv'
  OBVIOUS
<1>1. UNCHANGED <<kind, outcome, report, reader, code, dirty, listener, fetch>>
  BY DEF Upstream, rest
<1>2. stream \in Stream /\ stream.end = "open" /\ (Sends \/ SendsVerdict \/ Ends \/ Breaks)
  BY DEF Upstream, Sends, SendsVerdict, Ends, Breaks, ViewersInv, Served, Stream
<1>3. /\ stream' \in Stream
      /\ stream'.verdict = stream.verdict \/ (stream.verdict = "none" /\ stream'.verdict = "sent")
      /\ kind = "follow" /\ stream'.end = "closed" => stream'.verdict # "none"
  <2>1. CASE Sends
    BY <1>2, <2>1 DEF Sends, Stream
  <2>2. CASE SendsVerdict
    BY <1>2, <2>2 DEF SendsVerdict, Stream
  <2>3. CASE Ends
    BY <1>2, <2>3 DEF Ends, Stream, Verdicts
  <2>4. CASE Breaks
    BY <1>2, <2>4 DEF Breaks, Stream
  <2>. QED  BY <1>2, <2>1, <2>2, <2>3, <2>4
<1>4. Settled' /\ Rendered'
  BY <1>1, <1>3 DEF ViewersInv, Settled, Rendered, Commands
<1>5. Served'
  BY <1>1, <1>2, <1>3 DEF ViewersInv, Served, Stream
<1>. QED  BY <1>1, <1>4, <1>5 DEF ViewersInv

LEMMA Pane_Inv == ViewersInv /\ Pane => ViewersInv'
<1>. SUFFICES ASSUME ViewersInv, Pane PROVE ViewersInv'
  OBVIOUS
<1>1. UNCHANGED <<code, kind, outcome, listener, fetch>> /\ reader = "reading"
  BY DEF Pane, rest
<1>2. stream \in Stream
  BY DEF ViewersInv, Served, Stream
<1>3. kind \in Panes /\ kind # "follow" /\ kind \notin Commands
  BY DEF Pane, DeploymentTick, DeploymentFrame, JournalTick, JournalFrame, RowsTick, RowsFrame,
         Panes, Commands
<1>4. stream' \in Stream /\ stream'.end = stream.end
      /\ stream'.verdict \in {stream.verdict, "taken"}
  BY <1>2, Gets DEF Pane, DeploymentTick, DeploymentFrame, JournalTick, JournalFrame, RowsTick, RowsFrame
<1>r. reader' # "calling"
  BY <1>1 DEF Pane, DeploymentTick, DeploymentFrame, JournalTick, JournalFrame, RowsTick, RowsFrame, Says
<1>5. Rendered'
  BY <1>1 DEF Pane, DeploymentTick, DeploymentFrame, JournalTick, JournalFrame, RowsTick, RowsFrame,
              Says, ViewersInv, Rendered
<1>6. Settled' /\ Served'
  BY <1>1, <1>2, <1>3, <1>4, <1>r DEF ViewersInv, Settled, Served
<1>. QED  BY <1>1, <1>5, <1>6 DEF ViewersInv

LEMMA Process_Inv == ViewersInv /\ Process => ViewersInv'
<1>. SUFFICES ASSUME ViewersInv, Process PROVE ViewersInv'
  OBVIOUS
<1>1. UNCHANGED <<kind, outcome, dirty, fetch>> /\ reader = "reading"
  BY DEF Process
<1>2. stream \in Stream
  BY DEF ViewersInv, Served, Stream
<1>3. stream' \in Stream /\ stream'.end = stream.end
      /\ stream'.verdict \in {stream.verdict, "taken"}
  BY <1>2, Gets DEF Process, FollowDeployment, Logs, Exec, AgentExec, Terminal
<1>r. reader' # "calling"
  BY <1>1 DEF Process, FollowDeployment, Logs, Exec, AgentExec, Terminal, Says
<1>4. kind \notin Panes
  BY DEF Process, FollowDeployment, Logs, Exec, AgentExec, Terminal, Panes
<1>5. Rendered'
  BY <1>1, <1>4 DEF Rendered, ViewersInv, Panes, Process, FollowDeployment, Logs, Exec, AgentExec,
                    Terminal, Says, Exit, Hangs
<1>6. CASE FollowDeployment
  <2>1. /\ kind = "follow" /\ kind \notin Commands /\ code' = code
        /\ \/ UNCHANGED <<report, listener>>
           \/ report' = outcome /\ stream'.verdict = "taken" /\ Hangs
           \/ report' = "failure" /\ Hangs /\ stream' = stream
              /\ stream.end \in {"broken", "closed"}
    BY <1>2, <1>6, Gets DEF FollowDeployment, Says, Commands
  <2>2. Settled'
    BY <1>1, <1>3, <2>1 DEF ViewersInv, Settled, Hangs
  <2>3. Served'
    BY <1>1, <1>2, <1>3, <1>r, <2>1 DEF ViewersInv, Served, Hangs
  <2>. QED  BY <1>1, <1>5, <2>2, <2>3 DEF ViewersInv
<1>7. CASE Logs \/ Exec \/ AgentExec \/ Terminal
  <2>1. /\ kind # "follow" /\ listener' = listener
        /\ code' \in {code, outcome}
        /\ kind \in Commands => report' \in {report, Exit, "failure"}
    BY <1>7 DEF Logs, Exec, AgentExec, Terminal, Says, Commands
  <2>2. Settled'
    BY <1>1, <2>1 DEF ViewersInv, Settled, Exit
  <2>3. Served'
    BY <1>1, <1>2, <1>3, <1>r, <2>1 DEF ViewersInv, Served
  <2>. QED  BY <1>1, <1>5, <2>2, <2>3 DEF ViewersInv
<1>. QED  BY <1>6, <1>7 DEF Process

LEMMA Bounded_Inv == ViewersInv /\ Bounded => ViewersInv'
<1>. SUFFICES ASSUME ViewersInv, Bounded PROVE ViewersInv'
  OBVIOUS
<1>1. UNCHANGED <<code, dirty, kind, outcome, listener, fetch>>
  BY DEF Bounded, rest
<1>2. stream \in Stream
  BY DEF ViewersInv, Served, Stream
<1>3. /\ kind \in {"deployment page", "log page", "agent logs"}
      /\ report' \in {report, "read"}
  BY DEF Bounded, CollectLines, ReadLogsOnce, AgentLogs, OneMore, Says
<1>4. stream' \in Stream /\ stream'.end = stream.end
      /\ stream'.verdict \in {stream.verdict, "taken"}
  BY <1>2, Gets DEF Bounded, CollectLines, ReadLogsOnce, AgentLogs
<1>r. reader' # "calling"
  BY DEF Bounded, CollectLines, ReadLogsOnce, AgentLogs, OneMore, Says
<1>5. Settled' /\ Served'
  BY <1>1, <1>2, <1>3, <1>4, <1>r DEF ViewersInv, Settled, Served, Commands
<1>6. Rendered'
  BY <1>1, <1>3 DEF ViewersInv, Rendered
<1>. QED  BY <1>1, <1>5, <1>6 DEF ViewersInv

LEMMA QueueDeploy_Inv == ViewersInv /\ QueueDeploy => ViewersInv'
<1>. SUFFICES ASSUME ViewersInv, QueueDeploy PROVE ViewersInv'
  OBVIOUS
<1>1. /\ UNCHANGED <<kind, outcome, stream, code, dirty, fetch>> /\ kind = "follow"
      /\ listener' \in {"none", "up", "left"}
      /\ report' \in {report, "failure", "queued"} /\ reader = "calling"
  <2>1. PICK local \in BOOLEAN, wait \in BOOLEAN :
           /\ listener' = CASE ~local -> "none" [] local /\ wait -> "up" [] OTHER -> "left"
           /\ IF wait THEN reader' = "reading" /\ UNCHANGED report
              ELSE Says(IF local THEN "failure" ELSE "queued")
    BY DEF QueueDeploy
  <2>. QED  BY <2>1 DEF QueueDeploy, Says
<1>2. reader' # "calling"
  BY DEF QueueDeploy, Says
<1>3. Settled' /\ Rendered'
  BY <1>1 DEF ViewersInv, Settled, Rendered, Commands
<1>4. Served'
  BY <1>1, <1>2 DEF ViewersInv, Served
<1>. QED  BY <1>1, <1>3, <1>4 DEF ViewersInv

LEMMA Fetch_Inv == ViewersInv /\ Fetch => ViewersInv'
<1>. SUFFICES ASSUME ViewersInv, Fetch PROVE ViewersInv'
  OBVIOUS
<1>1. /\ UNCHANGED <<kind, stream, reader, code, dirty, report, listener>>
      /\ listener # "none" /\ fetch = "none" /\ stream.verdict = "none"
      /\ fetch' = IF listener = "up" THEN "found" ELSE "refused"
      /\ outcome' = IF listener = "up" THEN outcome ELSE "failure"
  BY DEF Fetch
<1>2. kind = "follow" /\ kind \notin Commands /\ report # "success"
  BY <1>1 DEF ViewersInv, Settled, Commands
<1>3. Settled' /\ Rendered' /\ Served'
  BY <1>1, <1>2 DEF ViewersInv, Settled, Rendered, Served
<1>. QED  BY <1>1, <1>3 DEF ViewersInv

LEMMA ViewersNext_Inv == ViewersInv /\ [ViewersNext]_viewersVars => ViewersInv'
<1>. SUFFICES ASSUME ViewersInv, [ViewersNext]_viewersVars PROVE ViewersInv'
  OBVIOUS
<1>1. CASE TickComes \/ DeadlinePasses
  BY <1>1 DEF TickComes, DeadlinePasses, rest, ViewersInv, Settled, Rendered, Served
<1>2. CASE Reconnect
  <2>1. /\ UNCHANGED <<code, report, kind, outcome, listener, fetch>>
        /\ stream' = Fresh /\ reader' = "reading" /\ kind \in Panes
    BY <1>2 DEF Reconnect, rest
  <2>2. kind # "follow" /\ kind \notin Commands /\ listener = "none"
    BY <2>1 DEF Panes, Commands, ViewersInv, Settled
  <2>4. fetch # "refused"
    BY <2>2 DEF ViewersInv, Served
  <2>5. Fresh \in Stream /\ Fresh.end = "open"
    BY DEF Fresh, Stream
  <2>6. Settled' /\ Rendered'
    BY <2>1, <2>2 DEF ViewersInv, Settled, Rendered
  <2>7. Served'
    BY <2>1, <2>2, <2>4, <2>5 DEF ViewersInv, Served
  <2>. QED  BY <2>1, <2>6, <2>7 DEF ViewersInv
<1>3. CASE UNCHANGED viewersVars
  BY <1>3 DEF viewersVars, ViewersInv, Settled, Rendered, Served
<1>. QED  BY <1>1, <1>2, <1>3, Upstream_Inv, Pane_Inv, Bounded_Inv, QueueDeploy_Inv, Fetch_Inv, Process_Inv
          DEF ViewersNext

-----------------------------------------------------------------------------
OutsideInv == WritebackInv /\ ViewersInv

LEMMA OutsideInvariant == OutsideSpec => []OutsideInv
<1>1. OutsideInit => OutsideInv
  BY WritebackInit_Inv, ViewersInit_Inv DEF OutsideInit, OutsideInv
<1>2. OutsideInv /\ [OutsideNext]_outsideVars => OutsideInv'
  BY WritebackNext_Inv, ViewersNext_Inv DEF OutsideNext, outsideVars, OutsideInv
<1>. QED  BY <1>1, <1>2, PTL DEF OutsideSpec

(* A commit never shows an outcome the deployment did not have, whatever   *)
(* the channel loses and GitHub refuses (spawn_status_writeback).          *)
THEOREM FollowersTellTheTruth == OutsideSpec => []CommitTellsTheOutcome
<1>1. OutsideInv => CommitTellsTheOutcome
  BY DEF OutsideInv, WritebackInv, Final, CommitTellsTheOutcome
<1>. QED  BY <1>1, OutsideInvariant, PTL

(* No reader reports a success that was not one, calls itself done with    *)
(* something left to render, or takes down what the server still comes for *)
(* (follow_deployment, exec, run_command, live_deployment).                *)
THEOREM ReadersTellTheTruth == OutsideSpec => []ReportsAreTrue
<1>1. OutsideInv => ReportsAreTrue
  BY DEF OutsideInv, ViewersInv, Settled, Rendered, Served, ReportsAreTrue
<1>. QED  BY <1>1, OutsideInvariant, PTL
=============================================================================
