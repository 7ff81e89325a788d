# nudo in TLA+

nudo deploys binaries over SSH to systemd services: a control plane (a gRPC
server), a dashboard with its own HTTP server and push webhook, a command line
and an MCP server in front of the gRPC API. This directory models the parts of
it where steps of several actors, failures and restarts meet, checks them with
TLC on small instances, and proves every safety property of a passing run with
TLAPS for every instance.

Paths below are relative to `src/crates/server/src/` unless they start with
`crates/`.

## Running it

    tlasany MCControl.tla
    tlc -workers 2 -config control.cfg MCControl
    tlapm ControlProofs.tla

`PROJECT.json` lists every run with its module and configuration, the source
lines behind every definition, the hazards, the findings, the mutants (one
deliberately wrong version of a definition per property, which TLC must catch)
and the theorems.

## Inventory

| Part | State | Operations | What is hard | What makes it correct | Modules |
|---|---|---|---|---|---|
| deploy engine (`deploy.rs`, `deploy/`) | deployment row, release rows, `services.current_release_id`; on the target: release directories, `current`, `current.new`, the unit | start_deploy, run_deploy, activate_release, prune_releases, check_cancelled, finish | nothing serializes deployments of one service; every remote command can fail with or without effect; the process dies; cancel against checkpoints | the reported outcome is true; the previous and the live release stay on the target; every deployment ends once | `DeployEngine`, `DeployLifecycle` |
| retention (`systemd.rs:319-388`) | none | releases_to_prune, rollback_target | window edges, keep 0, the live release outside the window | exactly the releases out of the window go; a rollback names a retained release | `ReleaseRetention`, `ReleaseTable` |
| deployments API (`api/deployments.rs`, `store/deployments.rs`) | the rows above, `deployment_logs` | Deploy, Rollback, Cancel, Watch; the others read | read, authorize, write are separate steps | as above; a stream ends with the outcome | `DeployEngine`, `DeploymentWatch` |
| boot (`serve.rs`, `crates/allinone`) | which processes are up | reconcile, start of server and dashboard | one or two processes, each with an engine | exactly the rows without a task are failed | `DeployEngine` |
| events (`events.rs`) | channels by deployment id, receivers | watch, publish, close | lag, late subscription, close against subscribe | nothing lost unannounced | `DeploymentEvents` |
| push webhook (`crates/web/src/webhook.rs`) | handlers of deliveries, the follower, the commit's status | handle_push, handle_installation, spawn_status_writeback | redelivery, edits under way, slow GitHub, lag | every service that watches the branch is deployed, no critical one; the commit shows the outcome | `Push`, `Installation`, `StatusWriteback` |
| idempotency (`store/idempotency.rs`) | `idempotency_keys` | replayed, record, around Deploy and RunCommand | calls break off; keys shared by actions | a retried call acts once | `Idempotency` |
| log streaming (`api/logs.rs`, `logs.rs`, `events.rs`) | ring buffer per service | Stream, backfill, push | several writers to one buffer, cursors | a line is shown once, in order | `LogStream`, `OutputLines` |
| self-upgrade and boot guard (`self_upgrade.rs`, `crates/bootguard`) | journal and counter files, `current`, staged releases | start, run, reconcile, guard, prune | crash at every step, writes and swaps that fail, exec that fails | a bootable release is linked; a bad one is reverted; an upgrade ends | `SelfUpgrade` |
| update check (`updates.rs`) | recorded version and manifest, switch | check_now | two checks at once, a manifest that regresses | an instance never goes back on its own | `UpdateCheck` |
| hosts (`api/targets.rs`, `api/build_hosts.rs`, `store/host_keys.rs`, `ssh.rs`) | target and build host rows, pinned and pending keys, the default | create, update, delete, check, accept, forget, set default | first connections, a changed key and a review overlap; a delete breaks off | a pin moves by review or first use only; the default host exists | `HostKeys`, `Fleet` |
| ingress (`ingress/`, `api/targets.rs`) | ingress columns, files and process on the target | enable, disable, reload | a step fails or breaks off, reloads overlap | what is live was accepted; Active means served | `Ingress` |
| services (`api/services.rs`, `store/services.rs`, `units.rs`) | rows, routes, units on the target | create, update, delete, unit actions | deletion against deploys, ports checked then claimed | a running unit has its row; ports are not shared | `Services` |
| secrets (`api/secrets.rs`, `store/secrets.rs`) | rows, references by services, targets and build hosts | put, delete | check then write; a check of some of the users | none is lost but on purpose | `Secrets` |
| GitHub sources (`api/sources.rs`, `store/sources.rs`, `github.rs`) | source rows, setup states, cached tokens | manifest flow, delete, installation_token | replayed redirects, a check of some of the services, tokens that age in use | a source keeps its App; a token outlives its use | `Sources`, `Installation` |
| builds (`git.rs`, `build_host.rs`, `deploy/artifact.rs`) | workspace, processes, log pump | checkout, build, stage, clean up | timeouts, processes left behind, lost sessions, output that is not text | a build ends and cleans up; both builders agree | `Builds` |
| terminals (`api/terminals.rs`, `crates/web/src/terminal.rs`) | grants, PTY pump | open, redeem, sweep, pump | expiry and use at once, backpressure, chunks that cut characters | a grant opens one terminal; output in order, and whole where no chunk cut it | `Terminals` |
| users, sessions, tokens (`auth.rs`, `store/auth.rs`) | users, sessions, API tokens | setup, sign in, change password, revoke | statements of two calls interleave, boots cut off | what was revoked stays out | `Sessions`, `ApiTokens` |
| audit, guardrail, dry runs (`api/mod.rs`) and everything that calls (`crates/web`, `crates/cli`, `crates/mcp`) | audit rows; forms rendered earlier | authorize in 30 handlers; routes, pages, commands, tools | each handler has its own order; a flag set under way | a critical host is touched on purpose; the record tells what was done | `Mutations` |
| service form (`crates/web/src/render/services/form.rs`, `routes/services.rs`) | an open form | open, edit, save | whole-row save of a stale form, fields a browser reshapes | a save makes nothing up | `ServiceForm` |
| readers of streams (`crates/web`, `crates/cli`, `crates/mcp`) | what a pane or command has so far | render, follow, report | streams stall, break, end early | what is reported is true; panes move on | `Viewers` |

How they meet: Deploy, Rollback and the webhook each insert a row and spawn a
task of the deploy engine. The task writes the database, runs commands on the
target over a connection that pins or checks its key, builds on some host,
publishes on a Bus, and reloads the proxy at the end. Watch streams and the
commit-status follower subscribe to a Bus; the server and the dashboard have one
each (`crates/web/src/lib.rs:141`), also inside the all-in-one binary. At boot
the server fails the rows that look active. Every call that changes something
passes the gate of `api/mod.rs`; idempotency keys wrap Deploy and RunCommand and
nothing else.

## Modules

| Module | Built on | Explored by |
|---|---|---|
| `Subsequences` the positions a filter or a scan visits, in order | | |
| `ReleaseRetention` the pure choices of `systemd.rs`, over lists and over sets with ranks | `Subsequences` | |
| `ReleaseTable` a release table under record, commit with sweep, rollback | `ReleaseRetention` | control |
| `DeployEngine` the deployments of one service on one target | `ReleaseRetention` | deploy_* |
| `DeployLifecycle` what a deployment row promises, abstractly | refined by `DeployEngine` | deploy_overlap |
| `DeploymentEvents`, `DeploymentWatch` what a task tells; Watch streams | | watch |
| `StatusWriteback` the commit-status follower | `DeploymentEvents` | outside |
| `Viewers` panes, pages, commands and tools that read streams | | outside |
| `Sessions`, `ApiTokens`, `Terminals`, `Idempotency`, `Push`, `Installation`, `ServiceForm`, `Mutations` | | access |
| `UpdateCheck`, `SelfUpgrade` | one on the other | upgrade |
| `Builds`, `OutputLines`, `LogStream` | the last two on `Subsequences` | output |
| `HostKeys`, `Fleet` | one on the other | control |
| `Ingress`, `Services`, `Secrets`, `Sources` | | control |
| `MC*` | model values, symmetry, and the parts one run explores | |
| `DeployEngineInvariants` the inductive invariants of the engine | `DeployEngine` | |
| `*Proofs` theorems | the component or the `MC*` module of its run | |

Components that share no state are explored side by side: `MCAccess`,
`MCControl`, `MCOutput` and `MCOutside` have a variable `part` that says which
of their components moves while the others rest in a fixed initial state. Their
runs are unions of separate explorations, not products. Components that do meet
are composed in one module: deploys, rollbacks, cancels, sweeps and boots in
`DeployEngine`; connections, reviews and row changes in `Fleet`; deploys, route
changes and the proxy in `Ingress`; deploys, unit actions and row changes in
`Services`; update checks and upgrades in `SelfUpgrade`.

### DeployEngine

State: `row` is the deployments table (status, cancel_requested, whether
finished_at is set, previous_release_id, release_id); `current`, `rank`,
`recorded` and `pruned` are services.current_release_id and the releases table,
with the creation order in place of timestamps; `installed`, `link`, `temp` and
`running` are the target's release directories, its `current` and `current.new`
links and the release whose binary the unit started; `task` holds the program
counter and locals of each engine task; `proc`, `orphans` and `crashes` are the
processes and the boot. `vetted` is history: the releases seen healthy.

Steps: one remote command or one database write, with the reads and early
returns next to it. `StartDeploy` to `Finish` follow `try_deploy` and
`run_deploy` in order, one action per stretch between two checkpoints or effects
others can see. `Stage`, `Move`, `Restage`, `MoveInto` take apart the one shell
command that swaps the link, because it runs on the target and two of them
interleave on one temporary name. Every command can fail before or after its
effect. Manual rollback reads the service (`RollbackRead`), chooses and records
(`RollbackResolve`) and then runs `activate_release`, the code an automatic
rollback runs. `Crash` kills a process and the tasks it hosts; `BootServer`,
`Reconcile`, `Serve`, `BootWeb` are the boot. Cancel is refused once finished_at
is set, and no status write ever clears it.

Abstractions: a release is named after the deployment that makes it; downloads
and builds are one step that may fail (`Builds` has the builds); connecting,
staging and uploading are one step with the rename, since the staging directory
has a fresh name nobody else reads; secrets and unit file are one step without
an effect on the properties; the health check is one step that sees which
release runs; the reload of the proxy after the sweep is `Ingress`'s. SQLite
writes do not fail. `ln` fails the same way when the fallback repeats it. A
handler that inserts a row also spawns its task. A remote command ends with the
task that issued it. The all-in-one's server is up before its dashboard takes
webhooks (it waits five seconds for it, `crates/allinone/src/main.rs:140`).

`OneProcess` is the all-in-one binary (`crates/allinone`), where either half
exiting ends both; otherwise `nudo-server` and `nudo-web` die and restart alone.
`Overlap = FALSE` is not code: it describes people who wait for one deployment
to end before they start the next, and it is how the runs tell what the code
guarantees by itself from what it guarantees to careful users.

### DeploymentEvents, DeploymentWatch, StatusWriteback, Viewers

A row write and the publication after it are two steps (`EndRow`, `TellEnd`;
`StoreLine`, `SendLine`). Health-check lines are `Spawned`: written by detached
tasks at any later time, Finished included. A receiver is a bounded queue with a
count of lost events, as tokio's broadcast channel has it (external).

`trigger` says who asked for the deployment. The task of a rollback reports no
transitions and never calls close_deployment; and a task publishes on the Bus of
its own process (`HostOf`), so receivers that subscribe at `ListensAt` hear it
only when the two agree (`Heard`). The five seconds between Finished and close
are one assumption per module: in `DeploymentWatch` nothing is awaited between
reading the row and subscribing, so `Close` does not fall in between; in
`StatusWriteback` the first write goes over the network and may outlast it.

`Viewers` is the far end: one reader of any kind (live pane, page, command,
agent's tool) of a stream that brings lines and a verdict, stalls, ends early or
breaks, with its `select!` in the order the code gives the arms.

### Idempotency

A call is checked against the table, then a Deploy acts and records, and a
RunCommand connects, records and acts. `Drop` ends a handler wherever it awaits:
its client hung up or the process died. `keys` has the primary key of the
migration (the key alone), while the lookup is by key and action. `of` and
`after` are history: whose result a replay returned, and which attempts had
ended when a call came in. A call retries those of the same key and action among
them; calls that overlap are not retries.

`RepeatedCallsActOnce` holds with the exceptions it names: a Deploy that broke
off between its deployment and its record is deployed again when it is retried,
and one key used for both actions is recorded for the first of them only.

### Mutations

Every call that changes something, as the code lets it: the pages with their
forms and routes, the commands, the agent's tools and any other client. A
handler is a record, `Gate` with the fields it differs in: what the guardrail is
asked about, where it may refuse before and after, whether and when the audit
entry is written, whether it heeds `dry_run`, and the changes it makes in order.
One host (a target or a build host, `boxKind`) stands for what is guarded.
`late` is history: the flag was set while the call was on its way, after its row
had been read.

### Fleet, Ingress, Services, Secrets, Sources, Installation

These are the rows operators change while the engine works. The rule is the same
in all of them: a handler is cut at every `await` between a read and the write
that relies on it, and a long-running caller (a connection, a deploy, a build)
works on the row it began with. Where a property cannot hold for calls that overtake
each other, it says which: `raced`, `broken`, `late`, `missed`, `unseen`,
`excuse`, `reason` and `untidy` are history variables that record the overlap or
the failure, so that a property is silent about exactly the cases named here and
no others. What they are silent about is under "Known races".

In `Fleet` every handler can break off at any of its statements (`BreakOff`): the
statement fails, or the caller hangs up and the handler is dropped. For most of
them that is one write that is not made. Deleting a build host reads the default
and clears it after the row is gone; a default that cannot be read counts as none,
and a clear that fails is a warning (`api/build_hosts.rs:214-224`), so the default
then names a host that is not there. `broken` keeps the hosts this happened to.

In `Secrets` the users of a secret are services, targets and build hosts
(`HostUser`). A delete asks every service, then the targets of the first page
(`TargetPage`, 500 in the code, newest first), and no build host
(`api/secrets.rs:128-187`). `missed` are the users that came behind the look or
were too old for it; that a build host may lose its key without any race is what
the code does, and the property says nothing for it. A secret kept for a target or
a service goes with it (`GoWithScope`), whoever refers to it.

In `Sources` a delete counts its dependents among the newest `ServicePage`
services of the whole instance (500, `api/sources.rs:245-259`); `unseen` are those
it missed. `listing` (and `targets` in `Secrets`) is the order of creation the
window is cut from; `Refer`, `Bind` and their kin are the columns.

`Services` keeps SQLite's rule that a transaction which has written excludes
every other writer; the check that a port is free depends on it, because no
index backs it up.

### SelfUpgrade, UpdateCheck

The files on disk (journal, counter, `current`, the staged releases), the
process (down, booting, serving, or a release that cannot start), the upgrade
task, and what updates.rs has recorded of the channel. A version is its number;
`Broken` cannot come up, `NotExecutable` cannot be executed. `Crash` may come
between any two steps.

Every write of the journal, of the counter and of the link goes through `Puts`: a
rename and then a sync of the directory, of which the second can fail after the
first was done, so that an operation which failed has left the old value or the
new one. The steps of `run` leave by `?`: from the swap on, an error of the swap
itself (`self_upgrade.rs:400`), of the journal's `swapped` (403), of the way back
after an exec that returned (446) or of its record (451) is an error of the whole
upgrade, whose error arm writes `failed` without a look at the link. `strayed` is
history: an upgrade gave up like that with the link on its release, and none has
started anew from the release that is linked. Then, and only then, the guard
stands aside for a release nobody confirmed, and a retry of the same version
clears the directory the link names; `WayBack` and `PageTellsTheTruth` say nothing
of the link while it lasts, and still promise that what runs is whole. An
unreadable journal stops neither guard nor boot (`GuardCannotRead`, `Reconcile`);
an unreadable counter is at zero (`GuardMiscounts`). `MaxFaults` bounds how many
of these operations fail in the run.

Not modelled: a rename that was done, not synced, and lost again with the power.

### Builds, OutputLines, LogStream

`Builds` runs the same definition on the control plane (`git.rs`), on a build
host (`build_host.rs`) or on one that has been deleted, command by command; a
shell can leave processes behind, time out, or lose its session, and the log
pump ends when all who hold its sending half have let go. The two builders differ
in three places, and the model has them. A line that is not UTF-8 ends the pump of
the control plane (`git.rs:393`), so that its log stops there and the command may
write into a broken pipe (`Garbles`, `PumpBreaks`); over SSH it is decoded with
replacements. Only an artifact that comes over SSH can be too large
(`MAX_ARTIFACT_BYTES`, `ssh.rs:572`, against `git.rs:128-137`): `huge`. And the
removal of the workspace is tried once, its failure only logged
(`deploy/artifact.rs:283-286`, `build_host.rs:397-402`): a directory is then
`unremoved`, or `there` when something was still running in it. Of the output only
the build command's is modelled; git's own lines depend on the repository.
`OutputLines` is the
splitter of `ssh.rs` under chunks cut anywhere. `LogStream` is a journal, the
ring buffer and viewers who resume at a cursor.

### Sessions, ApiTokens, Terminals, Push, ServiceForm

Statement by statement, as their headers say.

In `ServiceForm` a service is a record of the groups a form handles together, and
reading a form back is what a browser and the handler make of it. A map (`env`,
`extra_directives`) is written one "name=value" a line (`directives_text`,
`form.rs:458-462`) and read line by line, trimmed (`parse_labels`,
`routes/targets.rs:392-403`): an entry is its value together with the assignments
its lines read as, so that a variable of two lines comes back as two, or as one
and a line that is dropped. A text in a box of one line loses its line breaks, and
every field its outer spaces (`Tidy`). The units of `after` are joined with commas
and read back by lines, of which the box has one. A choice the form does not
offer, a git source its list does not have, and routes of two protocols come back
as something else. A group the form cannot hold is in `Lossy`, by what its value
is (`WellWritten`, `FormHolds`) and not by what happened to it, and the property
is about every other group.

In `Terminals` output is bytes: characters of one byte, and the two halves of one
of two, which stand for longer ones. `Chunks` cuts the stream anywhere, a run that
is not held is decoded by itself (`Text`, `from_utf8_lossy` at
`terminal.rs:208,240`), and a character with an end of the run inside it is
replaced. `ShellHasOneReader` says what is left of "as written": in order, once,
in full unless a pause overflowed, and damaged only in a character that a chunk
ended in or after an overflow; a pause that cuts nothing damages nothing, because
held chunks are decoded as one.

## Runs and bounds

| Run | Bounds | Shows |
|---|---|---|
| `deploy_serial` | 3 deployments one after the other, 1 seeded release, keep 1, 1 crash | previous and live release stay; commits what it checked; outcomes are true |
| `deploy_overlap` | 2 overlapping, all triggers, keep 1, 1 crash, one process | rows and tasks agree; pruned means gone; refines `DeployLifecycle` |
| `deploy_ends` | 2 deployments, 1 crash | each ends; a cancel before the swap keeps it from starting |
| `watch` | 2 viewers at the server, all triggers, 1 inline and 1 health-check line, capacity 2 | nothing lost unannounced; a stream on a Deploy ends |
| `outside` | follower: 3 lines, 2 transitions, capacity 2, failing GitHub; readers: 2 lines kept | the commit never shows a wrong outcome, a follower that subscribed in time ends; reports are true, panes move on |
| `access` | 2 accounts, 4 requests, 2 password changes; 4 tokens, 3 boots; 1 grant, 2 sockets, 3 bytes of output, 2 of them held; 3 keyed calls, 2 keys; 2 deliveries, 2 services; 2 users of installation tokens living 4 units with a margin of 2; 1 form, 3 places, 1 other save; 2 calls through the gate, one of them any call | what was revoked opens nothing; a shell has one reader, in order; repeated calls act once; a push deploys its watchers; tokens outlive their use; a save makes nothing up; a critical host is touched on purpose, and the record tells what was done |
| `upgrade` | 3 versions, one that cannot start, keep 2, 3 boots, 1 crash, 2 failing operations on the disk | a way back stays; the page tells the truth; no instance goes back on its own; upgrades end and bad ones are reverted |
| `output` | 1 build in all its places and failures, text or not, its artifact of any size; 5 bytes, longest line 2; 2 viewers, 4 journal lines, buffer 2 | builds end, clean up and log the same anywhere; lines arrive as written |
| `control` | 2 hosts, 2 keys, 2 connections, 2 requests; 2 proxy calls, 1 route edit; 2 services, 2 units, 1 port; 2 secrets, 2 handlers, 4 users (a service, 2 targets, a build host), 1 target looked at; 2 codes, 2 services, 1 looked at; 7 releases, keep 0-3 | pins move by review or first use; the default dangles only by a race or a fault; Active serves the rows, only accepted configs go live; units have rows, ports are not shared; secrets are lost on purpose; sources stay bound; retention serves rollback |

Three runs show a disagreement between the code and what it or its comments say;
`findings` in PROJECT.json quotes both sides.

| Run | Bounds | What TLC finds |
|---|---|---|
| `overlap_live_pruned` | 2 overlapping Deploys, keep 1 | the sweep of one removes the release the other has made live |
| `runaway_build` | as `output`, processes left behind need not end | a build that timed out keeps its deployment waiting |
| `form_health` | 1 form | saving a service's form resets its health check |

Why the bounds are enough. Keep 1 with one seeded release makes every commit
sweep, and the second deployment already goes back to, prunes or relinks what
the first one made; the third lets a rollback or a failed deploy come between
two commits. Two overlapping actors are what every race here needs, a victim and
another; where a third matters (a retry of a call beside one of another action)
there are three. A page of one beside two rows is what a page of 500 is beside
501: an older row that is not looked at, a newer one that is, and rows that move
between the two as others come and go. Two failing operations are what the worst
of an upgrade takes, a swap whose sync fails and then the record of the failure.
Any exec may fail, so no version needs to be one that cannot be executed. Three
bytes give a character before, inside and after a cut. One crash at any step covers
the restart; a second repeats it, except in the boots that mint tokens, where a
boot cut off is followed by one cut off again. A channel smaller than the number
of events makes lag happen (512 and 513 events differ from 2 and 3 in nothing the
model sees), a ring buffer smaller than the journal makes a cursor age out, and a
longest line shorter than the output makes a line be cut. A token's life of 4 and
margin of 2 allow ages fresh, usable, within the margin and expired. `HasMvT` is
TRUE in every run; the theorems cover both kinds of mv.

`control` has a state constraint, `Alone`: once two calls have met at a config
the ingress property says nothing more, and once a unit is excused the host no
longer matters to what is left to check, so these states are not extended.

Symmetry is used only in runs without liveness: deployments are interchangeable
until they are created, attempts until they come in. Deadlock is checked in no
run: when nobody calls and every task has ended, nothing happens until the next
call. A type invariant is part of each inductive invariant and proved with it
(`TypeInvariant`, `FleetInv`, `SecretsTypeOK`, ...), so no run spends a property
on one.

## Fairness

The deploy runs assume weak fairness of each task's next step and of the boot:
the runtime polls every ready task, and a remote command ends, by its exit, a
connect timeout, a download or build timeout (`deploy/artifact.rs:12-16`) or the
session's inactivity limit (`ssh.rs`); the supervisor restarts a dead process
(`restart: unless-stopped`, systemd). The event runs assume it of the task, of
the task's end (a deployment does not emit lines for ever), of the close timer,
of each stream and of the follower, and that GitHub answers, with a success or
an error. `Viewers` assumes it of a reader's ticks and reads, not of the sender.
`SelfUpgrade` assumes it of the boot (Restart=always) and of the task. `output`
assumes it of each build's own steps and timers (`BuildsFair`) and that what a
shell leaves running ends (`BackgroundEnds`); `runaway_build` drops the second.
In `MCOutside` and `MCOutput` fairness is asked of the part that moves.
Nobody has to call, cancel, watch, leave or crash anything.

## Proofs

Eight modules of theorems, each for every value of the constants that satisfies
the ASSUMEs of its component: any set of deployments, hosts, keys, handlers,
services, forms or viewers (finite or not), any retention window, any bound on
crashes, any channel. Every safety property of a passing run is stated by one,
under the behaviour of its component (`FleetSpec`, `PushSpec`, ...), of which the
run's is a part.

### The deploy engine (`DeployEngineProofs`)

**Any configuration.** `TypeInvariant` is by action. The
two safety facts `PrunedMeansGone` and `LiveIsRecorded` are not inductive: a
`Mark` keeps the first only if the release it marks is really gone, a `Move` the
second only if whatever another task left in `current.new` was recorded.
`ReleasesAgree` adds what makes them so: ranks order the recorded releases
without ties (`RankIsAnOrder`), so that the release `Remove` deletes and the one
`Mark` marks are the same; a deployment owns the release of its name until it
records it (`Owned`), so that no upload recreates a pruned directory; what a
task is about to link or commit is recorded (`GoalIsRecorded`); what a sweep is
about to mark is recorded and gone (`SweepIsAhead`). The proof has one step per
action; lemmas `QuietStep`, `OthersAgree` and `OnwardStep` carry the conjuncts
an action does not touch.

**Rows.** With one process (`ASSUME OneProcess`), `RowsAgree`
says that tasks run only in a server that is up, that a booting server has
listed exactly the active rows it has still to fail, that finished_at is set
with the outcome, and that rows and tasks match. It is needed because
`RowMatchesTask` alone says nothing about a boot in progress, from which it must
be re-established. From it follow `RowsHaveTheirTasks`, the refinement
`ImplementsLifecycleAlways` (every step of a row is an acceptance, an accepted
cancel, an end, or a stutter of `DeployLifecycle`) and, from the refinement,
`OutcomesAreFinal`. `CancelIsHonoured` needs neither: a deploy that was cancelled
while it had a checkpoint ahead of it stays `CaughtInTime`: it is before the
swap, failing, or over, and no step leads from there to `stage`.

**One deployment at a time.** Under `~Overlap` and `HasMvT`,
whatever fails, is cancelled or dies and in one process or two, `PreviousIsKept`,
`LiveIsKept`, `CommittedWasChecked` and `OutcomesAreTrue`. None of the four
properties is inductive: what a rollback finds depends on what the deploy read
minutes before, what a sweep may remove on what the swap did. `SerialAgrees` says
that at most one task is at work (`OneAtATime`), which steps belong to a deploy and
which to each kind of rollback (`PathAgrees`), that until the commit the previous
release of the row is the current one and after it the goal is (`GoalAgrees`), and
how far the goal has come on the target: uploaded, in `current.new`, linked, running,
seen healthy (`TargetAgrees`). Lemmas `PreparingKeeps`, `SwappingKeeps`,
`CommittingKeeps`, `FailingKeeps` and `StartingKeeps` take one phase each;
`SerialStep` and `OutsideStep` carry the rest. Both assumptions are needed: run
overlap_live_pruned shows the one, and without -T the swap switches nothing (below).

### What comes in from outside (`AccessProofs`)

- *Sessions and API tokens* (`CredentialsEnd`). `SessionsInv`: every session's
  handler is over, and a sign-in has verified a password no newer than the last
  purge, an older one if what it typed is not the password any more. It has to
  speak of handlers that have not written their session yet, because the row comes
  after the check, whatever happens in between. `TokensInv`: the list a boot works
  through has every dashboard token that still admits, so that when it is empty
  the new one is alone.
- *Installation tokens* (`TokensOutliveTheirUse`). `InstallationInv`: a token in
  use has lost no more of the margin it began with than the time it has been used,
  and the last event under way decides what the row will say. The margin must be
  above zero, as the code's is (`REFRESH_MARGIN_SECONDS`).
- *Terminals* (`ShellHasOneReader`). `GrantsInv` follows a grant from its one
  handler to the socket that spent it. `OutputInv`: what the browser has and what
  is held for it are two stretches of what was written, the first before the
  second, and together all of it unless something was dropped; each byte of the
  first stretch was decoded with its neighbours, or a chunk ended between them.
- *Idempotency* (`RepeatedCallsActOnce`). `KeysAgree` adds to `DeployReplayIsReal`
  that every row belongs to an attempt with that key and action which got past its
  record (`RowsAreEarned`), what an attempt's place says of what it has done
  (`PcAgrees`), and that an attempt which passed its check although an earlier one
  had acted found the key held for the other action (`PassedItsCheck`): rows are
  never deleted, so what held at the check still holds when the retry acts.
- *Mutations* (`RecordTellsWhatWasDone`, `CriticalIsTouchedOnPurpose`). `Obeys`
  is what all handlers have in common; `ServedObey` shows it of each of the 31, and
  `RoutesServed` that no route of a page calls another. `MutationsInv` then argues
  about one call: once it acts, it is on record and no dry run its handler heeds,
  and what still has something to do to a latency-critical host means to or was
  overtaken.
- *Pushes* (`PushDeploysItsWatchers`). `PushInv`: a handler loses none of what it
  found and takes none twice, and deployments queued plus deliveries that may
  still queue one are no more than GitHub's sends; that needs deliveries counted
  in finite sets, not one at a time.
- *The service form* (`SavesMakeNothingUp`). `FormInv`: what a save would make of
  every group that was left alone, and that the form could hold, is what it was
  when the form was opened. A service is what `row_to_service` can return
  (`IsService`, assumed of the services other clients wrote): maps and texts are
  any values, with line breaks or without, ordered-after lists are of any length.

### Rows operators change (`ControlProofs`)

- *Keys* (`PinMovesByReviewOrFirstUse`). The property is about one step; all it
  needs of the past (`FleetInv`) is that a connection about to pin was started
  while nothing was pinned.
- *The default build host* (`DefaultDanglesByRaceOrFault`). A request about to write
  the default has seen its host live, or that host is on record as deleted since
  (`Heeds`); one that deletes a default goes on to take it out (`Undoes`), or is on
  record as having failed to.
- *Secrets, sources* (`SecretsAreLostOnPurpose`, `SourcesStayBound`). `SecretsInv`
  says what a delete that has looked at services, and then at a window of targets,
  may still rely on: whoever refers to its secret by then is a build host, or is
  in `missed`. The theorems hold for any window, and promise build hosts nothing.
  A source's setup state is open only while it has no App, is spent by the one
  handler that goes on to attach, and nothing opens it again (`SourcesInv`).
- *Ports* (`PortsAreNotShared`). Whoever looks or is about to commit holds the
  write lock, and what it is about to commit nobody has claimed (`ServicesInv`).
- *Units* (`UnitsHaveRows`). It is not enough that a running unit is named: a
  handler may be about to take that row away. In `UnitsInv` every running unit is
  named by a row no handler is leaving, and every handler is at a row that still
  says what it read, until one of the named overlaps excuses it.
- *Ingress* (`OnlyAcceptedConfigsGoLive`, `ActiveServesTheRows`). While no two
  calls have met at the config, the one about to move the staged file is the only
  one that could have staged another since it was validated (`IngressInv`). For
  the second, `FreshInv` follows what the rows say from the call that reads them
  to the staged file, the file on disk and the proxy; a change of the rows leaves
  a call that has yet to read them (`Owing`).
- *Retention* (`RetentionServesRollback`). `TableInv`: what is listed is strictly
  descending, so that a position tells how many newer releases there are, and a
  window of two or more keeps two. This is also where the list functions of
  `systemd.rs` and their definitions by rank are shown to agree, for lists of any
  length.

### Upgrades (`UpgradeProofs`)

`UpgradeInv` has four parts. `RunInv`: what ran last is whole, and a boot is at
the link. `TaskInv`: a task installs a newer release than the one it runs in, and
from the journal on it is the upgrade the journal is about. `LinkInv` relates link
and journal: the link is ahead of the process only between swap and exec or revert,
and the journal names a way back that is whole and has run. It holds until an
upgrade gives up with the link on its release (`~strayed`), and again once one has
started from the release that is linked. `WayBack` and `PageTellsTheTruth` follow,
whichever operations on the disk fail. `GoesBackOnlyByTheJournal` rests on a
smaller invariant, `ForwardInv`, and needs no such exception.

### Streams (`WatchProofs`, `FollowerProofs`, `OutputProofs`)

- *Watch streams* (`NothingLost`). `WatchInv`: what was sent is seen, queued, or
  counted as lost (`Follows`), no line of the task follows the end in a queue
  (`EndIsLast`), and the task has left no line of its own half written when its
  row is final.
- *The follower and the readers* (`CommitTellsTheOutcome`, `ReportsAreTrue`).
  `WritebackInv`: what the follower is about to write is the passing "pending" or
  the outcome the row has, which no later step changes.
  `ViewersInv`: a good report is about an outcome that is settled, a pane is done
  with nothing left to render, and a listener is down because the verdict came or
  the stream broke.
- *Builds* (`WorkspaceGone`, `SameLogWherever`). `BuildsInv`: where a build is and
  what of it can still be running there (`OnTrack`), and what a build of a
  complete definition, whose output is text and whose artifact a host may send, has
  logged at each of its steps, written once for all three places (`Logged`).
- *Lines* (`LinesArriveAsWritten`). `LinesInv`: as long as no line has outgrown the
  buffer, what was sent is the complete lines of what has arrived and the buffer
  is the rest. Its lemma is that cutting `w \o c` gives the lines of `w` and then
  those of its remainder followed by `c`, so that it does not matter where a chunk
  ends. `StreamInv`: with one viewer at a time the buffer is an unbroken run of
  the journal that ends where the viewer's call goes on.

### Positions instead of recursion (`SubsequenceProofs`)

A filter over a list and a scan for newlines are stated in `Subsequences` as the
positions they visit. The lemmas say that positions are visited in order, each
once, which is all the two proofs above need of them; as recursive definitions
they would call for an induction that is out of the prover's reach.

### What the proofs showed about the models

Proof attempts found CASE expressions with guards that overlap (`Look` of `Push`,
`Resolve` of `Builds`, `RecordReload` of `Ingress`, `Connect` of `LogStream`, the
listener of `Viewers`). TLA+ leaves the value of such an expression open where TLC
takes the first arm, which is what the code does; the guards are disjoint now. They
also named what constants must satisfy: a margin above zero, limits that are
numbers, a `NoRow` that is not a row.

### Only model-checked

Liveness (`EveryDeploymentEnds`, `DeployWatchEnds`, `FollowerEnds`, `ViewsMoveOn`,
`UpgradeEnds`, `BuildEnds`), because fairness and ENABLED are out of the prover's
reach; and the properties of the three runs that expect a violation, which are
false. Theorems that no run repeats: `LiveIsRecorded`, `OutcomeIsFinal`,
`DeployReplayIsReal` and the inductive invariants.

## Where docs and code differ

Three of these are runs (above). The others were met while modelling, at the
lines given; the models have the code's side.

- The link of an upgrade is swapped (`self_upgrade.rs:400`) before the journal
  says so (403). If the host stops in between, the guard stands aside
  (`crates/bootguard/src/main.rs:52`), and a release that cannot start is not
  reverted, as `README.md:144-145` and `packaging/nudo.service:6-7` promise. The
  same happens when the swap fails after its rename, or the journal's write does:
  the upgrade page then says `failed` of a release that is linked, and a retry
  clears the linked directory first (332-348). `strayed` in `SelfUpgrade`.
- A rollback that names no release goes to the newest other one
  (`systemd.rs:373`), which after a rollback or a failed deploy is newer than the
  current one; `crates/mcp/src/model.rs:62` and `crates/cli/src/main.rs:104` say
  "the one before the current".
- With two processes, the server's boot fails rows of webhook deploys whose tasks
  go on in the dashboard (`serve.rs:265` says "Their engine task is gone"), and a
  dashboard that dies alone leaves its rows active until the server restarts. A
  Watch on such a deploy listens on the server's Bus, which hears nothing of it.
- The task of a rollback never closes its channel, so a stream opened as it ends
  waits for ever (`api/deployments.rs:194`, against 388-389).
- A commit stays pending when the first status takes longer than the deployment
  and its five seconds (`crates/web/src/webhook.rs:396`, against 427-429); a
  follower that lags takes it for the end.
- A cancel that arrives after the swap leaves the new release linked and running,
  uncommitted, although `crates/web/src/render/deployments.rs:107` promises
  otherwise.
- `controlplane.proto:28-36` promises dry runs and idempotency keys for every
  mutation. CreateSession (a terminal) and CreateGithubAppManifest ignore
  `dry_run`; only Deploy and RunCommand heed a key.
- "Every mutating operation lands here, including dry runs" (`store/audit.rs:1`) is
  not so for first-run setup, installation events, the pinning of a host key by
  a check, and calls refused before they are authorized (AcceptHostKey,
  ReloadIngress, an empty RunCommand). Dry runs of calls that would be refused
  (a name taken, a deployment already over) answer OK.
- The opt-in for latency-critical hosts is not "present on every form that can
  touch a target" (`crates/web/src/routes.rs:71-80`): only the target and build
  host pages carry it, as a hidden input. Such a host cannot be deployed to, nor
  its secrets rotated, from the dashboard.
- On the dashboard, "Run checks" and "Edit" of a target lead to a page that
  ignores them and to one that does not exist (`crates/web/src/render/targets.rs`
  against `crates/web/src/lib.rs`).
- The live page of a deployment never stops
  (`crates/web/src/routes/deployments.rs:289`): its EventSource connects again and
  re-creates the channel on the Bus, which nothing removes.
- `to_service` says lines that do not parse are dropped; parse_routes refuses
  them, after the other columns were saved.
- "A target's SSH key is also a secret; removing it would leave the host unreachable"
  (`api/secrets.rs:172`), but the keys of build hosts (`migrations/0007:25-27`) are
  not asked about, and only the newest 500 targets are. Likewise "A service bound to
  this source would lose its ability to build" (`api/sources.rs:243`) is asked of
  the newest 500 services.
- "An instance default pointing at a deleted host would fail every git-backed deploy
  at once, so it is cleared rather than left dangling" (`api/build_hosts.rs:210`),
  unless the read or the clear fails, or the caller is gone by then.
- "Byte-identical to the local path's final line" (`build_host.rs:169`) holds for
  artifacts both builders take, and the lines before it for output that is UTF-8.
- "The index still backstops a race" (`store/secrets.rs:66`), but the statement is
  an upsert, so the second put overwrites the first.

## Known races

What the history variables excuse, or what the code leaves open:

- hosts: overlapping first connections overwrite each other's pin; a refusal
  recorded after an acceptance leaves a pending key equal to the pinned one; a
  connection that matched clears a pending key recorded meanwhile; overlapping
  checks write a stale status; a default set while its host is deleted dangles, as
  does one whose host is deleted by a request that breaks off or cannot read or
  clear it, and the deletion can clear a newer default; a default that cannot be
  read moves the build to the control plane;
- deploys: the sweep of one deploy can remove the release another would go back
  to; a mv without -T moves the new link into the directory `current` points at
  and the swap switches nothing;
- ingress: a new admin port makes every later reload fail until Caddy restarts;
  overlapping reloads share the staged path; a reload that breaks off returns
  before it records, so the row stays Active; a deploy with a target read earlier
  restarts a proxy disabled meanwhile; External and then Disable leaves a managed
  proxy running; a created service's routes wait for the next reload;
- services: a lost connection during a delete is ignored; a unit renamed is
  orphaned; two services may name one unit; a crash between row and routes leaves
  a service without routes;
- secrets and sources: references are never validated; a secret deleted with its
  scope may still be referred to; a build host's key is deleted without a
  question, and so is the key of a target older than the newest 500; a source
  whose services are all older than the newest 500 can be deleted; an uninstall
  marks the source installed with installation 0; installation events out of turn
  leave a stale installation; a cached token survives an uninstall; a failed
  conversion strands the source; a deletion that races a service turns it into a
  public one;
- keys: the first boots of two processes can each write the verifier
  (`store/key_verifier.rs:13-62`);
- accounts: two setups at once each make an account; a sign-in that has passed
  its check outlives the change of its password;
- guardrail: a call overtaken by the flag acts on the row it read, and an update
  without a mask then clears the flag; a failed audit write is only logged;
- logs: a cursor that aged out skips lines; a filtered follower leaves holes in
  the shared buffer and two followers duplicate lines in it, which is why
  `OneByOneUnbroken` is about viewers who come one after the other;
- builds: the workspace of a server that was killed is never cleaned, nor one whose
  removal failed; output that is not UTF-8 ends the log of a build on the control
  plane, and may end the build;
- readers: `exit_code` starts at 0 in the command line's terminal; the agent's
  run_command answers a broken stream with -1; lines not yet rendered when a
  journal or unit stream ends are dropped; `deploy --artifact` without `--wait`
  queues a deployment and then refuses; output held for a paused terminal that
  ends is dropped, and a character cut between two chunks is replaced;
- service form: a save undoes what others saved since it was opened; a variable of
  two lines becomes two variables, two `after` units become one, a restart policy
  the form does not offer becomes "always", one grpc box turns every route into
  h2c, and a list of sources that failed to load resets the service's source.

## Not modelled

- Database errors and handlers dropped between a row and its task
  (`deploy.rs:139`): the models take the two together and let writes succeed; the
  boot that cleans up after them is modelled.
- SSH itself (exec, upload, read_file, the PTY stream of the gRPC API): what a
  command may do is a step of the module that runs it.
- Health checks (`health.rs`), probes and what they measure: an outcome.
- The reachability probe (`serve.rs:110-169`), which repeats `HostKeys`'
  connection, and the log tailers, which nothing starts.
- The ingress check (`ingress/reconcile.rs:358-487`), Get and List calls and their
  pages (clients read the first one), overview, settings, update and audit pages:
  they read.
- Rendering of units, environment and proxy configurations, parsing of journald's
  JSON, formatting, wire types, configuration.
- Cryptography: sealing, digests, signatures, password hashes. A signature or
  digest that does not match is a step that fails.
- A power failure that undoes a rename whose directory was not synced.
- Changes to the filesystem of a target by anyone but nudo.

## What could come next

Database errors in `DeployEngine` (`deploy.rs:139`), and the numbers of a service
form (`restart_sec`, `keep_releases`), which are read back with defaults.
