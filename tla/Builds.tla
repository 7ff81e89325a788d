------------------------------- MODULE Builds -------------------------------
(***************************************************************************)
(* Building what a git-backed deploy ships: where it is built              *)
(* (Engine::build, server/src/deploy/artifact.rs), on the control plane    *)
(* (server/src/git.rs) or over SSH on a build host                         *)
(* (server/src/build_host.rs), and the pump that carries its output into   *)
(* the deployment log.                                                     *)
(*                                                                         *)
(* Every command is a shell and what the shell has started.  On the        *)
(* control plane the output is read until the pipes close, which is when   *)
(* the last of those processes is gone, or up to a line that is not text;  *)
(* over SSH until the channel closes or the time is up.  The pump of the   *)
(* deployment log ends when everything that holds its sending half has let *)
(* go of it.                                                               *)
(***************************************************************************)
EXTENDS Naturals, Sequences

CONSTANTS
    Build,     \* deployments that build
    BuildHost, \* build hosts
    Missing,   \* build hosts that have been deleted
    Local      \* the control plane

ASSUME BuildsAssumption == Missing \subseteq BuildHost /\ Local \notin BuildHost

VARIABLES
    world,     \* what the service names and how its commands turn out
    task,      \* the step each build is at
    place,     \* where it builds
    link,      \* whether its SSH session is still up
    command,   \* external: the command it has started
    holders,   \* who holds the sending half of its output
    workspace, \* the directory of each build: none, there, or still there
               \* though nothing was left to keep it (unremoved)
    lines,     \* the lines the deployment log got from it
    verdict    \* artifact, failed, late or unprepared; none yet

buildsVars == <<world, task, place, link, command, holders, workspace, lines, verdict>>

(* What the definition of the service lacks, and how its world turns out.  *)
World == [lacks : {"nothing", "repo", "credentials", "command", "path"},
          sha : BOOLEAN,
          fails : {"nothing", "clone", "fetch", "checkout", "head", "build"},
          output : {"text", "garbled"},  \* of the build command: UTF-8, or not all of it
          artifact : {"file", "huge", "empty", "none"}]

Commands(sha) == IF sha THEN <<"clone", "fetch", "checkout", "build">> ELSE <<"clone", "build">>

Quiet == [shell |-> "none", rest |-> FALSE]

(* BuildLocation::resolve: what the service says, then the default. *)
Resolve(service, standing) ==
    IF service = "local" THEN Local
    ELSE IF service \in BuildHost THEN service
    ELSE IF standing \in BuildHost THEN standing
    ELSE Local

(* Services name no host, the control plane or a host, which may be gone.  *)
(* A default that cannot be read counts as none.                           *)
Places == {Resolve(service, standing) : service \in {"", "local"} \cup BuildHost,
                                        standing \in {"", "local"} \cup BuildHost}

BuildsInit ==
    /\ world \in World
    /\ task = [b \in Build |-> <<"resolve">>]
    /\ place \in [Build -> Places]
    /\ link = [b \in Build |-> TRUE]
    /\ command = [b \in Build |-> Quiet]
    /\ holders = [b \in Build |-> {}]
    /\ workspace = [b \in Build |-> "none"]
    /\ lines = [b \in Build |-> <<>>]
    /\ verdict = [b \in Build |-> "none"]

At(b, step) == task[b][1] = step
Goto(b, step) == task' = [task EXCEPT ![b] = <<step>>]
OnHost(b) == place[b] # Local

(* The build is over before the pump has been started. *)
Abandon(b) ==
    /\ Goto(b, "done")
    /\ verdict' = [verdict EXCEPT ![b] = "unprepared"]

(* The build is over: its own sending half is dropped with it. *)
Return(b, outcome) ==
    /\ task' = [task EXCEPT ![b] = <<"pump">>]
    /\ verdict' = [verdict EXCEPT ![b] = outcome]
    /\ holders' = [holders EXCEPT ![b] = @ \ {"build"}]

Say(b, line) == lines' = [lines EXCEPT ![b] = Append(@, line)]

(***************************************************************************)
(* Engine::build and the beginning of build_on_host and build_from_git.    *)
(***************************************************************************)
Created(b) == workspace' = [workspace EXCEPT ![b] = "there"]

(* The host the service names or defaults to must still exist: the build   *)
(* is not moved.  build_on_host connects and creates the workspace,        *)
(* build_from_git only creates it; either may fail, over SSH also by       *)
(* losing the answer.                                                      *)
Prepare(b) ==
    /\ At(b, "resolve")
    /\ \/ /\ place[b] \notin Missing
          /\ Created(b)
          /\ holders' = [holders EXCEPT ![b] = {"engine", "build"}]
          /\ Goto(b, "check")
          /\ UNCHANGED <<verdict, link>>
       \/ Abandon(b) /\ UNCHANGED <<workspace, holders, link>>
       \/ /\ OnHost(b) /\ place[b] \notin Missing
          /\ Created(b) /\ Abandon(b) /\ link' = [link EXCEPT ![b] = FALSE]
          /\ UNCHANGED holders
    /\ UNCHANGED <<world, place, command, lines>>

(* What is looked at before the clone.  Over SSH all of the definition;    *)
(* on the control plane the repository and the credentials alone.          *)
Refused(b) ==
    IF OnHost(b) THEN world.lacks # "nothing" ELSE world.lacks \in {"repo", "credentials"}

Check(b) ==
    /\ At(b, "check")
    /\ IF Refused(b)
       THEN Return(b, "failed") /\ UNCHANGED lines
       ELSE Say(b, "cloning") /\ task' = [task EXCEPT ![b] = <<"spawn", 1>>]
            /\ UNCHANGED <<verdict, holders>>
    /\ UNCHANGED <<world, place, link, command, workspace>>

(***************************************************************************)
(* run_streaming: start a command, forward its output, wait for it.        *)
(***************************************************************************)
Current(b) == Commands(world.sha)[task[b][2]]

(* The control plane's pumps hold the sending half from here on. *)
Spawn(b) ==
    /\ At(b, "spawn")
    /\ OnHost(b) => link[b]
    /\ \E rest \in BOOLEAN : command' = [command EXCEPT ![b] = [shell |-> "running", rest |-> rest]]
    /\ holders' = IF OnHost(b) THEN holders ELSE [holders EXCEPT ![b] = @ \cup {"pipes"}]
    /\ task' = [task EXCEPT ![b] = <<"wait", @[2]>>]
    /\ UNCHANGED <<world, place, link, workspace, lines, verdict>>

(* External: the shell ends; what it started may outlive it, and ends.     *)
ShellEnds(b) ==
    /\ command[b].shell = "running"
    /\ \E rest \in {FALSE, command[b].rest} :
          command' = [command EXCEPT ![b] = [shell |-> "ended", rest |-> rest]]
    /\ UNCHANGED <<world, task, place, link, holders, workspace, lines, verdict>>

RestEnds(b) ==
    /\ command[b].shell # "running" /\ command[b].rest
    /\ command' = [command EXCEPT ![b].rest = FALSE]
    /\ UNCHANGED <<world, task, place, link, holders, workspace, lines, verdict>>

(* The pipes of a process nobody has left anything of are at their end. *)
PipesClose(b) ==
    /\ "pipes" \in holders[b]
    /\ command[b].shell = "ended" /\ ~command[b].rest
    /\ holders' = [holders EXCEPT ![b] = @ \ {"pipes"}]
    /\ UNCHANGED <<world, task, place, link, command, workspace, lines, verdict>>

(* On the control plane a line that is not UTF-8 ends the pump that reads  *)
(* it, be it after the time is up, and whoever writes on writes into a     *)
(* broken pipe.                                                            *)
Garbles(b) == ~OnHost(b) /\ world.output = "garbled"

PumpBreaks(b) ==
    /\ Garbles(b) /\ "pipes" \in holders[b]
    /\ (At(b, "wait") /\ Current(b) = "build") \/ At(b, "pump")
    /\ holders' = [holders EXCEPT ![b] = @ \ {"pipes"}]
    /\ UNCHANGED <<world, task, place, link, command, workspace, lines, verdict>>

(* What the build command writes: a line, and the rest.                    *)
Output(b) == IF Garbles(b) THEN <<"output">> ELSE <<"output", "rest">>

(* The command is over and its output read: the next one, or what follows. *)
(* A missing build command is found out here on the control plane.         *)
Waited(b) ==
    /\ At(b, "wait")
    /\ command[b].shell = "ended" /\ "pipes" \notin holders[b]
    /\ OnHost(b) => link[b] /\ ~command[b].rest
    /\ lines' = IF Current(b) = "build" THEN [lines EXCEPT ![b] = @ \o Output(b)] ELSE lines
    /\ \/ /\ world.fails = Current(b) \/ (Current(b) = "build" /\ Garbles(b))
          /\ Return(b, "failed")
       \/ /\ world.fails # Current(b)
          /\ LET i == task[b][2] IN
             task' = [task EXCEPT ![b] = CASE i = Len(Commands(world.sha)) -> <<"collect">>
                                           [] i = Len(Commands(world.sha)) - 1 -> <<"head">>
                                           [] OTHER -> <<"spawn", i + 1>>]
          /\ UNCHANGED <<holders, verdict>>
    /\ command' = [command EXCEPT ![b].shell = "none"]
    /\ UNCHANGED <<world, place, link, workspace>>

(* The time is up.  On the control plane the shell is killed and nothing   *)
(* else; over SSH the channel is dropped and the command goes on.          *)
TimeOut(b) ==
    /\ At(b, "wait")
    /\ OnHost(b) \/ command[b].shell = "running"
    /\ Return(b, "late")
    /\ command' = IF OnHost(b) THEN command ELSE [command EXCEPT ![b].shell = "ended"]
    /\ UNCHANGED <<world, place, link, workspace, lines>>

(* The line about the commit, then the build command or the lack of one.  *)
HeadRead(b, out) ==
    /\ At(b, "head")
    /\ OnHost(b) => link[b]
    /\ IF world.lacks = "command"
       THEN Return(b, "failed") /\ lines' = [lines EXCEPT ![b] = @ \o out]
       ELSE /\ lines' = [lines EXCEPT ![b] = @ \o out \o <<"running">>]
            /\ task' = [task EXCEPT ![b] = <<"spawn", Len(Commands(world.sha))>>]
            /\ UNCHANGED <<verdict, holders>>
    /\ UNCHANGED <<world, place, link, command, workspace>>

\* Variant of ReadHead: the build host's log keeps quiet about the commit.
QuietReadHead(b) ==
    HeadRead(b, IF world.fails = "head" \/ OnHost(b) THEN <<>> ELSE <<"checked_out">>)

(* resolve_head_sha, whose failure costs a line. *)
ReadHead(b) == HeadRead(b, IF world.fails = "head" THEN <<>> ELSE <<"checked_out">>)

(* The file the build was to produce, read whole; an empty one is none,    *)
(* and only what comes over SSH may be too much (MAX_ARTIFACT_BYTES).      *)
Collect(b) ==
    /\ At(b, "collect")
    /\ OnHost(b) => link[b]
    /\ IF world.lacks # "path" /\ world.artifact \in {"file"} \cup (IF OnHost(b) THEN {} ELSE {"huge"})
       THEN Say(b, "built") /\ Return(b, "artifact")
       ELSE Return(b, "failed") /\ UNCHANGED lines
    /\ UNCHANGED <<world, place, link, command, workspace>>

(* A lost connection fails whatever the build does over it. *)
Lose(b) ==
    /\ OnHost(b) /\ link[b] /\ ~At(b, "resolve") /\ ~At(b, "done")
    /\ link' = [link EXCEPT ![b] = FALSE]
    /\ UNCHANGED <<world, task, place, command, holders, workspace, lines, verdict>>

Broken(b) ==
    /\ OnHost(b) /\ ~link[b]
    /\ task[b][1] \in {"check", "spawn", "wait", "head", "collect"}
    /\ Return(b, "failed")
    /\ UNCHANGED <<world, place, link, command, workspace, lines>>

(***************************************************************************)
(* However the build ended.                                                *)
(***************************************************************************)
\* Variant of DropSender: the engine's own half outlives the wait.
KeepSender(b) ==
    /\ At(b, "pump") /\ "engine" \in holders[b]
    /\ UNCHANGED buildsVars

DropSender(b) ==
    /\ At(b, "pump") /\ "engine" \in holders[b]
    /\ holders' = [holders EXCEPT ![b] = @ \ {"engine"}]
    /\ UNCHANGED <<world, task, place, link, command, workspace, lines, verdict>>

(* pump.await: every holder has let go and the log has every line. *)
PumpEnds(b) ==
    /\ At(b, "pump") /\ holders[b] = {}
    /\ Goto(b, "cleanup")
    /\ UNCHANGED <<world, place, link, command, holders, workspace, lines, verdict>>

(* The removal is tried, and its failure is only logged.  A process that   *)
(* still writes into the directory can keep it from being removed, a lost  *)
(* session removes nothing, and any removal can fail.                      *)
Quieted(b) == ~command[b].rest /\ command[b].shell # "running"
Kept(b) == IF (OnHost(b) => link[b]) /\ Quieted(b) THEN "unremoved" ELSE workspace[b]

\* Variant of CleanUp: a failed build leaves its directory behind.
CleanUpAfterSuccess(b) ==
    /\ At(b, "cleanup")
    /\ \E left \in IF verdict[b] = "artifact" THEN {"none", Kept(b)} ELSE {workspace[b]} :
          workspace' = [workspace EXCEPT ![b] = left]
    /\ Goto(b, "done")
    /\ UNCHANGED <<world, place, link, command, holders, lines, verdict>>

CleanUp(b) ==
    /\ At(b, "cleanup")
    /\ \E left \in {Kept(b)} \cup (IF OnHost(b) /\ ~link[b] THEN {} ELSE {"none"}) :
          workspace' = [workspace EXCEPT ![b] = left]
    /\ Goto(b, "done")
    /\ UNCHANGED <<world, place, link, command, holders, lines, verdict>>

(* The server dies; the processes it started do not.  The next boot does   *)
(* not look into the workspaces.                                           *)
ServerDies ==
    /\ \E b \in Build : ~At(b, "done") /\ ~At(b, "lost")
    /\ task' = [b \in Build |-> IF At(b, "done") THEN task[b] ELSE <<"lost">>]
    /\ holders' = [b \in Build |-> {}]
    /\ UNCHANGED <<world, place, link, command, workspace, lines, verdict>>

Step(b) ==
    \/ Prepare(b) \/ Check(b) \/ Spawn(b) \/ Waited(b) \/ ReadHead(b) \/ Collect(b)
    \/ Broken(b) \/ DropSender(b) \/ PumpEnds(b) \/ CleanUp(b)

BuildsNext ==
    \/ \E b \in Build :
          Step(b) \/ TimeOut(b) \/ PipesClose(b) \/ PumpBreaks(b) \/ ShellEnds(b) \/ RestEnds(b) \/ Lose(b)
    \/ ServerDies

(* A task runs, a pipe at its end is seen to be, and a timer goes off; a   *)
(* shell need not end, but what a shell has left behind does.              *)
BuildsFair ==
    \A b \in Build :
        /\ WF_buildsVars(Step(b)) /\ WF_buildsVars(PipesClose(b)) /\ WF_buildsVars(TimeOut(b))
BackgroundEnds == \A b \in Build : WF_buildsVars(RestEnds(b))

(***************************************************************************)
(* Properties.                                                             *)
(***************************************************************************)
Over(b) == At(b, "done") \/ At(b, "lost")

(* A build ends however its commands behave, if what they leave behind in  *)
(* the background ends: with an artifact or without, and with the log's    *)
(* pump drained.                                                           *)
BuildEnds == \A b \in Build : <>Over(b)

(* A build that has exceeded its time ends, whatever its commands have     *)
(* left running: "so a timeout can stop the whole build and not just the   *)
(* shell that spawned it" (server/src/git.rs:345-346).                     *)
TimeoutEndsTheBuild == \A b \in Build : verdict[b] = "late" ~> Over(b)

(* A build that is over has left no directory behind but one that could    *)
(* not be removed when nothing ran in it any more, unless it was on a      *)
(* build host and its session was lost or a command of it was cut off, or  *)
(* its output on the control plane could not be read to its end.           *)
WorkspaceGone ==
    \A b \in Build :
        At(b, "done") /\ workspace[b] = "there" =>
            (OnHost(b) /\ (~link[b] \/ verdict[b] = "late")) \/ Garbles(b)

(* The lines of a build that ran its course, by its world alone. *)
LogOf(w) ==
    LET head == IF w.fails = "head" THEN <<>> ELSE <<"checked_out">>
        cloned == w.fails \notin {"clone"} \cup (IF w.sha THEN {"fetch", "checkout"} ELSE {})
        built == w.fails # "build" /\ w.artifact = "file"
    IN  <<"cloning">>
        \o (IF cloned THEN head \o <<"running">> \o <<"output", "rest">> ELSE <<>>)
        \o (IF cloned /\ built THEN <<"built">> ELSE <<>>)

RanItsCourse(b) == At(b, "done") /\ verdict[b] \in {"artifact", "failed"} /\ link[b]

(* A build of a complete definition that ran its course has logged the     *)
(* same lines in the same order wherever it ran, if its output was text    *)
(* and its artifact no more than a build host may send.                    *)
SameLogWherever ==
    \A b \in Build :
        RanItsCourse(b) /\ world.lacks = "nothing" /\ world.output = "text" /\ world.artifact # "huge"
            => lines[b] = LogOf(world)

=============================================================================
