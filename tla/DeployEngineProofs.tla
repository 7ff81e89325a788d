------------------------- MODULE DeployEngineProofs -------------------------
(***************************************************************************)
(* Proofs about DeployEngine, for every set of deployments, every history  *)
(* of seeded releases and every retention window.                          *)
(***************************************************************************)
EXTENDS DeployEngineInvariants, TLAPS

-----------------------------------------------------------------------------
(* The retention operators choose among the releases they are given.       *)

LEMMA PrunableListed ==
  ASSUME NEW L, NEW k, NEW rk, NEW c
  PROVE  Prunable(L, rk, k, c) \subseteq L
BY DEF Prunable

LEMMA NewestListed ==
  ASSUME NEW L, NEW rk
  PROVE  Newest(L, rk) \subseteq L
BY DEF Newest

LEMMA ChoiceListed ==
  ASSUME NEW L, NEW rk, NEW c, NEW req
  PROVE  RollbackChoice(L, rk, c, req) \subseteq L
BY DEF RollbackChoice, Newest

-----------------------------------------------------------------------------
(* The pieces of the steps keep the types.                                 *)

LEMMA VerdictType ==
  /\ DOMAIN Verdict = {"endSucceeded", "endFailed", "endCancelled", "endRolledBack"}
  /\ \A pc \in DOMAIN Verdict : Verdict[pc] \in Terminal
BY DEF Verdict, Terminal

\* A task with another step, or another set of releases to sweep, is a task.
LEMMA TaskAt ==
  ASSUME NEW t \in Task, NEW pc \in PC
  PROVE  [t EXCEPT !.pc = pc] \in Task
BY DEF Task

LEMMA TaskWith ==
  ASSUME NEW t \in Task, NEW pc \in PC, NEW doomed \in SUBSET Release
  PROVE  [t EXCEPT !.doomed = doomed, !.pc = pc] \in Task
<1>. DEFINE u == [t EXCEPT !.doomed = doomed]
<1>1. u \in Task
  BY DEF Task
<1>2. [t EXCEPT !.doomed = doomed, !.pc = pc] = [u EXCEPT !.pc = pc]
  OBVIOUS
<1>. HIDE DEF u
<1>. QED  BY <1>1, <1>2, TaskAt

LEMMA TaskGoesBack ==
  ASSUME NEW t \in Task, NEW pc \in PC, NEW goal \in Release \cup {NoRelease}
  PROVE  [t EXCEPT !.pc = pc, !.mode = "revert", !.goal = goal] \in Task
<1>. DEFINE u == [t EXCEPT !.pc = pc]
            v == [u EXCEPT !.mode = "revert"]
<1>1. u \in Task
  BY TaskAt
<1>2. v \in Task
  <2>. HIDE DEF u
  <2>. QED  BY <1>1 DEF Task
<1>3. [v EXCEPT !.goal = goal] \in Task
  <2>. HIDE DEF v
  <2>. QED  BY <1>2 DEF Task
<1>4. [t EXCEPT !.pc = pc, !.mode = "revert", !.goal = goal] = [v EXCEPT !.goal = goal]
  OBVIOUS
<1>. QED  BY <1>3, <1>4

LEMMA GotoType ==
  ASSUME NEW d \in Deployment, NEW pc \in PC, task \in [Deployment -> Task], Goto(d, pc)
  PROVE  task' \in [Deployment -> Task]
<1>. DEFINE t == [task[d] EXCEPT !.pc = pc]
<1>1. t \in Task
  BY TaskAt
<1>2. task' = [task EXCEPT ![d] = t]
  BY DEF Goto
<1>. HIDE DEF t
<1>. QED  BY <1>1, <1>2

LEMMA BailType ==
  ASSUME NEW d \in Deployment, task \in [Deployment -> Task], Bail(d)
  PROVE  task' \in [Deployment -> Task]
<1>1. {"failed", "endFailed"} \subseteq PC  BY VerdictType DEF PC
<1>. QED  BY <1>1, GotoType DEF Bail

LEMMA SetStatusType ==
  ASSUME NEW d \in Deployment, NEW s \in Active \cup Terminal,
         row \in [Deployment -> Row], SetStatus(d, s)
  PROVE  row' \in [Deployment -> Row]
<1>. DEFINE f == row[d].finished \/ s \in Terminal
            r == [row[d] EXCEPT !.status = s]
            t == [r EXCEPT !.finished = f]
<1>1. r \in Row /\ r.finished = row[d].finished
  BY DEF Row
<1>2. f \in BOOLEAN
  OBVIOUS
<1>3. t \in Row
  <2>. HIDE DEF f, r
  <2>. QED  BY <1>1, <1>2 DEF Row
<1>4. row' = [row EXCEPT ![d] = t]
  BY DEF SetStatus
<1>. HIDE DEF t
<1>. QED  BY <1>3, <1>4

LEMMA CheckedGotoType ==
  ASSUME NEW d \in Deployment, NEW pc \in PC, NEW s \in Active,
         task \in [Deployment -> Task], row \in [Deployment -> Row],
         CheckedGoto(d, pc, s)
  PROVE  task' \in [Deployment -> Task] /\ row' \in [Deployment -> Row]
BY GotoType, BailType, SetStatusType DEF CheckedGoto

LEMMA NoRowType == NoRow \in Row /\ NoTask \in Task
BY VerdictType DEF NoRow, NoTask, Row, Task, PC, Release
-----------------------------------------------------------------------------
(* Type correctness.                                                       *)

LEMMA InitType == Init => TypeOK
<1>. SUFFICES ASSUME Init PROVE TypeOK
  OBVIOUS
<1>. USE ConstantsAssumption
<1>1. DOMAIN Seeded = 1 .. Len(Seeded) /\ Len(Seeded) \in Nat
  OBVIOUS
<1>2. rank \in [Release -> Nat]
  <2>1. ASSUME NEW r \in SeededRelease
        PROVE  (CHOOSE i \in DOMAIN Seeded : Seeded[i] = r) \in Nat
    BY <1>1 DEF SeededRelease
  <2>. QED  BY <2>1 DEF Init
<1>3. current \in Release \cup {NoRelease}
  BY <1>1 DEF Init, Release, SeededRelease
<1>4. row \in [Deployment -> Row] /\ task \in [Deployment -> Task]
  BY NoRowType DEF Init
<1>5. SeededRelease \subseteq Release
  BY DEF Release
<1>6. {current, link, temp, running} \subseteq Release \cup {NoRelease}
  BY <1>3 DEF Init
<1>7. /\ pruned \subseteq Release /\ installed \subseteq Release /\ vetted \subseteq Release
      /\ orphans \subseteq Deployment
  BY <1>5 DEF Init
<1>8. recorded \in Nat /\ crashes \in 0 .. MaxCrashes /\ proc \in [Process -> {"down", "booting", "up"}]
  BY <1>1 DEF Init
<1>. QED  BY <1>2, <1>4, <1>6, <1>7, <1>8, Zenon DEF TypeOK

LEMMA NextType == TypeOK /\ [Next]_vars => TypeOK'
<1>. SUFFICES ASSUME TypeOK, [Next]_vars PROVE TypeOK'
  OBVIOUS
<1>. USE DEF TypeOK
<1>pc. /\ {"idle", "resolve", "begin", "obtain", "upload", "record", "configure", "stage",
            "move", "restage", "moveInto", "restart", "gate", "health", "commit", "list",
            "remove", "mark", "failed", "find", "endSucceeded", "endFailed",
            "endCancelled", "endRolledBack"} \subseteq PC
       /\ {"queued", "building", "uploading", "activating", "health_checking"} = Active
       /\ Deployment \subseteq Release
  BY VerdictType DEF PC, Active, Release
<1>1. ASSUME NEW d \in Deployment, NEW tr \in Triggers, NEW skip \in BOOLEAN,
             NEW auto \in BOOLEAN, StartDeploy(d, tr, skip, auto)
      PROVE  TypeOK'
  <2>1. [NoRow EXCEPT !.status = "queued", !.previous = current] \in Row
    BY NoRowType, <1>pc DEF NoRow, Row
  <2>2. [NoTask EXCEPT !.pc = "begin", !.trigger = tr, !.goal = d,
                       !.skip = skip, !.auto = auto] \in Task
    BY NoRowType, <1>pc, ConstantsAssumption DEF NoTask, Task
  <2>. DEFINE now == [NoTask EXCEPT !.pc = "begin", !.trigger = tr, !.goal = d,
                                    !.skip = skip, !.auto = auto]
              fresh == [NoRow EXCEPT !.status = "queued", !.previous = current]
  <2>3. /\ task' = [task EXCEPT ![d] = now] /\ row' = [row EXCEPT ![d] = fresh]
        /\ UNCHANGED <<db, target, procs>>
    BY <1>1 DEF StartDeploy
  <2>4. now \in Task /\ fresh \in Row
    BY <2>1, <2>2
  <2>. HIDE DEF now, fresh
  <2>5. task' \in [Deployment -> Task] /\ row' \in [Deployment -> Row]
    BY <2>3, <2>4
  <2>. QED  BY <2>3, <2>5 DEF db, target, procs
<1>2. ASSUME NEW d \in Deployment, RollbackRead(d) PROVE TypeOK'
  <2>. DEFINE now == [NoTask EXCEPT !.pc = "resolve", !.trigger = "rollback",
                                    !.mode = "revert", !.goal = current]
  <2>1. now \in Task
    BY NoRowType, <1>pc DEF NoTask, Task
  <2>2. task' = [task EXCEPT ![d] = now] /\ UNCHANGED <<row, db, target, procs>>
    BY <1>2 DEF RollbackRead
  <2>. HIDE DEF now
  <2>3. task' \in [Deployment -> Task]
    BY <2>1, <2>2
  <2>. QED  BY <2>2, <2>3 DEF db, target, procs
<1>3. ASSUME NEW d \in Deployment, Cancel(d) PROVE TypeOK'
  <2>. DEFINE r == [row[d] EXCEPT !.cancel = TRUE]
  <2>1. r \in Row
    BY DEF Row
  <2>2. row' = [row EXCEPT ![d] = r] /\ UNCHANGED <<db, target, task, procs>>
    BY <1>3 DEF Cancel
  <2>. HIDE DEF r
  <2>3. row' \in [Deployment -> Row]
    BY <2>1, <2>2
  <2>. QED  BY <2>2, <2>3 DEF db, target, procs
<1>4. ASSUME NEW d \in Deployment, NEW req, RollbackResolve(d, req) PROVE TypeOK'
  <2>. DEFINE choice == RollbackChoice(Listed, rank, task[d].goal, req)
  <2>1. UNCHANGED <<db, target, procs>>
    BY <1>4 DEF RollbackResolve
  <2>2. CASE task' = [task EXCEPT ![d] = NoTask] /\ UNCHANGED row
    BY <2>1, <2>2, NoRowType DEF db, target, procs
  <2>3. CASE \E chosen \in choice :
               /\ row' = [row EXCEPT ![d] =
                           [NoRow EXCEPT !.status = "activating",
                                         !.previous = task[d].goal, !.release = chosen]]
               /\ task' = [task EXCEPT ![d].pc = "find", ![d].goal = chosen]
    <3>1. PICK chosen \in choice :
               /\ row' = [row EXCEPT ![d] =
                           [NoRow EXCEPT !.status = "activating",
                                         !.previous = task[d].goal, !.release = chosen]]
               /\ task' = [task EXCEPT ![d].pc = "find", ![d].goal = chosen]
      BY <2>3
    <3>2. chosen \in Release
      BY ChoiceListed DEF Listed
    <3>3. row' \in [Deployment -> Row]
      BY <3>1, <3>2, <1>pc, NoRowType DEF NoRow, Row, Task
    <3>. DEFINE t == [task[d] EXCEPT !.pc = "find", !.goal = chosen]
    <3>4. t \in Task
      <4>1. "find" \in PC /\ task[d] \in Task
        BY <1>pc
      <4>. HIDE DEF choice, TypeOK
      <4>. QED  BY <3>2, <4>1 DEF Task
    <3>5. task' = [task EXCEPT ![d] = t]
      BY <3>1
    <3>6. task' \in [Deployment -> Task]
      <4>. HIDE DEF t, choice
      <4>. QED  BY <3>4, <3>5
    <3>. QED  BY <2>1, <3>3, <3>6 DEF db, target, procs
  <2>. QED  BY <1>4, <2>2, <2>3 DEF RollbackResolve
<1>5. ASSUME NEW d \in Deployment, Begin(d) PROVE TypeOK'
  BY <1>5, <1>pc, CheckedGotoType DEF Begin, db, target, procs
<1>6. ASSUME NEW d \in Deployment, Obtain(d) PROVE TypeOK'
  BY <1>6, <1>pc, CheckedGotoType, BailType DEF Obtain, db, target, procs
<1>7. ASSUME NEW d \in Deployment, Upload(d) PROVE TypeOK'
  BY <1>7, <1>pc, GotoType, BailType DEF Upload, db, procs
<1>8. ASSUME NEW d \in Deployment, Record(d) PROVE TypeOK'
  <2>1. task' \in [Deployment -> Task]
    BY <1>8, <1>pc, GotoType, BailType DEF Record
  <2>2. row' \in [Deployment -> Row]
    BY <1>8, <1>pc DEF Record, Row
  <2>. QED  BY <1>8, <1>pc, <2>1, <2>2 DEF Record, target, procs
<1>9. ASSUME NEW d \in Deployment, Configure(d) PROVE TypeOK'
  BY <1>9, <1>pc, CheckedGotoType, BailType DEF Configure, db, target, procs
<1>10. ASSUME NEW d \in Deployment, Stage(d) PROVE TypeOK'
  <2>1. task' \in [Deployment -> Task]
    BY <1>10, <1>pc, GotoType, BailType DEF Stage
  <2>. QED  BY <1>10, <2>1 DEF Stage, Task, db, procs
<1>11. ASSUME NEW d \in Deployment, Move(d) PROVE TypeOK'
  <2>1. task' \in [Deployment -> Task]
    BY <1>11, <1>pc, GotoType, BailType DEF Move
  <2>. QED  BY <1>11, <2>1 DEF Move, db, procs
<1>12. ASSUME NEW d \in Deployment, Restage(d) PROVE TypeOK'
  <2>1. task' \in [Deployment -> Task]
    BY <1>12, <1>pc, GotoType DEF Restage
  <2>. QED  BY <1>12, <2>1 DEF Restage, Task, db, procs
<1>13. ASSUME NEW d \in Deployment, MoveInto(d) PROVE TypeOK'
  <2>1. task' \in [Deployment -> Task]
    BY <1>13, <1>pc, GotoType, BailType DEF MoveInto
  <2>. QED  BY <1>13, <2>1 DEF MoveInto, db, procs
<1>14. ASSUME NEW d \in Deployment, Restart(d) PROVE TypeOK'
  <2>1. task' \in [Deployment -> Task]
    BY <1>14, <1>pc, GotoType, BailType DEF Restart
  <2>. QED  BY <1>14, <2>1 DEF Restart, db, procs
<1>15. ASSUME NEW d \in Deployment, Gate(d) PROVE TypeOK'
  BY <1>15, <1>pc, CheckedGotoType, GotoType DEF Gate, db, target, procs
<1>16. ASSUME NEW d \in Deployment, Health(d) PROVE TypeOK'
  <2>1. task' \in [Deployment -> Task]
    BY <1>16, <1>pc, GotoType, BailType DEF Health
  <2>. QED  BY <1>16, <2>1 DEF Health, db, procs
<1>17. ASSUME NEW d \in Deployment, Commit(d) PROVE TypeOK'
  <2>1. task' \in [Deployment -> Task]
    BY <1>17, <1>pc, GotoType DEF Commit
  <2>. QED  BY <1>17, <2>1 DEF Commit, Task, target, procs
<1>18. ASSUME NEW d \in Deployment, List(d) PROVE TypeOK'
  <2>1. Prunable(Listed, rank, Keep, d) \in SUBSET Release
    BY PrunableListed DEF Listed
  <2>. DEFINE doomed == Prunable(Listed, rank, Keep, d)
              pc == IF doomed = {} THEN "endSucceeded" ELSE "remove"
              t == [task[d] EXCEPT !.doomed = doomed, !.pc = pc]
  <2>2. task' = [task EXCEPT ![d] = t]
    BY <1>18 DEF List
  <2>3. pc \in PC
    BY <1>pc
  <2>4. t \in Task
    <3>1. task[d] \in Task /\ doomed \in SUBSET Release
      BY <2>1
    <3>. HIDE DEF doomed, pc
    <3>. QED  BY <2>3, <3>1, TaskWith
  <2>5. task' \in [Deployment -> Task]
    <3>. HIDE DEF t
    <3>. QED  BY <2>2, <2>4
  <2>. QED  BY <1>18, <2>5 DEF List, db, target, procs
<1>19. ASSUME NEW d \in Deployment, Remove(d) PROVE TypeOK'
  <2>1. task' \in [Deployment -> Task]
    BY <1>19, <1>pc, GotoType DEF Remove
  <2>. QED  BY <1>19, <2>1 DEF Remove, db, procs
<1>20. ASSUME NEW d \in Deployment, Mark(d) PROVE TypeOK'
  <2>1. PICK r \in Newest(task[d].doomed, rank) :
          /\ pruned' = pruned \cup {r}
          /\ task' = [task EXCEPT ![d].doomed = @ \ {r},
                                  ![d].pc = IF task[d].doomed = {r} THEN "endSucceeded"
                                                                    ELSE "remove"]
    BY <1>20 DEF Mark
  <2>2. r \in Release
    BY NewestListed DEF Task
  <2>. DEFINE pc == IF task[d].doomed = {r} THEN "endSucceeded" ELSE "remove"
              t == [task[d] EXCEPT !.doomed = @ \ {r}, !.pc = pc]
  <2>3. task' = [task EXCEPT ![d] = t]
    BY <2>1
  <2>4. pc \in PC
    BY <1>pc
  <2>5. t \in Task
    <3>1. task[d] \in Task
      OBVIOUS
    <3>2. task[d].doomed \ {r} \in SUBSET Release
      BY <3>1 DEF Task
    <3>. HIDE DEF pc
    <3>. QED  BY <2>4, <3>1, <3>2, TaskWith
  <2>6. task' \in [Deployment -> Task]
    <3>. HIDE DEF t
    <3>. QED  BY <2>3, <2>5
  <2>. QED  BY <1>20, <2>1, <2>2, <2>6 DEF Mark, target, procs
<1>21. ASSUME NEW d \in Deployment, Fail(d) PROVE TypeOK'
  <2>1. task' \in [Deployment -> Task]
    <3>1. CASE \E pc \in {"endCancelled", "endFailed"} : Goto(d, pc)
      BY <1>pc, <3>1, GotoType
    <3>2. CASE task' = [task EXCEPT ![d].pc = "find", ![d].mode = "revert",
                                    ![d].goal = row[d].previous]
      <4>. DEFINE t == [task[d] EXCEPT !.pc = "find", !.mode = "revert", !.goal = row[d].previous]
      <4>1. task[d] \in Task /\ row[d].previous \in Release \cup {NoRelease}
        BY DEF Row
      <4>2. t \in Task
        BY <1>pc, <4>1, TaskGoesBack
      <4>3. task' = [task EXCEPT ![d] = t]
        BY <3>2
      <4>. HIDE DEF t
      <4>. QED  BY <4>2, <4>3
    <3>. QED  BY <1>21, <3>1, <3>2 DEF Fail
  <2>. QED  BY <1>21, <2>1 DEF Fail, db, target, procs
<1>22. ASSUME NEW d \in Deployment, FindRelease(d) PROVE TypeOK'
  BY <1>22, <1>pc, GotoType, BailType DEF FindRelease, db, target, procs
<1>23. ASSUME NEW d \in Deployment, Finish(d) PROVE TypeOK'
  <2>1. row' \in [Deployment -> Row]
    BY <1>23, VerdictType, SetStatusType DEF Finish
  <2>. QED  BY <1>23, <2>1, NoRowType DEF Finish, db, target, procs
<1>24. ASSUME NEW p \in Process, Crash(p) PROVE TypeOK'
  <2>1. task' \in [Deployment -> Task] /\ proc' \in [Process -> {"down", "booting", "up"}]
    BY <1>24, NoRowType DEF Crash
  <2>2. crashes' \in 0 .. MaxCrashes
    BY <1>24, ConstantsAssumption DEF Crash
  <2>. QED  BY <1>24, <2>1, <2>2 DEF Crash, db, target
<1>25. ASSUME BootServer PROVE TypeOK'
  BY <1>25 DEF BootServer, db, target
<1>26. ASSUME Serve \/ BootWeb PROVE TypeOK'
  BY <1>26 DEF Serve, BootWeb, db, target
<1>27. ASSUME NEW d \in Deployment, Reconcile(d) PROVE TypeOK'
  <2>1. row' \in [Deployment -> Row]
    BY <1>27, SetStatusType DEF Reconcile, Terminal
  <2>. QED  BY <1>27, <2>1 DEF Reconcile, db, target
<1>28. ASSUME UNCHANGED vars PROVE TypeOK'
  BY <1>28 DEF vars, db, target, procs
<1>. QED
  BY <1>1, <1>2, <1>3, <1>4, <1>5, <1>6, <1>7, <1>8, <1>9, <1>10, <1>11, <1>12, <1>13,
     <1>14, <1>15, <1>16, <1>17, <1>18, <1>19, <1>20, <1>21, <1>22, <1>23, <1>24, <1>25,
     <1>26, <1>27, <1>28
  DEF Next, Call, TaskStep, Boot

\* Every state the engine reaches is well-typed: no step writes a status, a
\* release or a program counter the rest of the code does not know.
THEOREM TypeInvariant == Spec => []TypeOK
BY InitType, NextType, PTL DEF Spec

-----------------------------------------------------------------------------
(* The releases: what is recorded, what is removed, and what tasks know.    *)

\* With an order by creation the newest of a set is one release.
LEMMA NewestIsOne ==
  ASSUME NEW L, L \subseteq Release, rank \in [Release -> Nat], RankIsAnOrder,
         \A r \in L : rank[r] # 0, NEW q \in Newest(L, rank), NEW r \in Newest(L, rank)
  PROVE  q = r
<1>1. q \in Release /\ r \in Release /\ rank[q] \in Nat /\ rank[r] \in Nat
  BY DEF Newest
<1>2. ~ rank[q] > rank[r] /\ ~ rank[r] > rank[q]
  BY DEF Newest, NewerThan
<1>3. rank[q] = rank[r] /\ rank[q] # 0
  BY <1>1, <1>2 DEF Newest
<1>. QED  BY <1>1, <1>3 DEF RankIsAnOrder

\* Releases recorded meanwhile do not change which of the others is the newest.
LEMMA NewestIsStable ==
  ASSUME NEW L, NEW rk, NEW rk2, \A r \in L : rk2[r] = rk[r]
  PROVE  Newest(L, rk2) = Newest(L, rk)
BY DEF Newest, NewerThan

\* What a step of one deployment may do to the releases: it records at most its
\* own, and installs only what is not recorded.
OwnReleaseOnly(d) ==
  /\ \A r \in Release : rank[r] # 0 => rank'[r] = rank[r]
  /\ \A r \in Release \ {d} : rank'[r] = rank[r]
  /\ \A r \in installed' \ installed : rank[r] = 0

LEMMA RecordedStays ==
  ASSUME NEW d, OwnReleaseOnly(d)
  PROVE  \A r : Recorded(r) => Recorded(r)'
BY DEF OwnReleaseOnly, Recorded

\* Such a step does not disturb what the other tasks know.
LEMMA OthersAgree ==
  ASSUME NEW d \in Deployment, OwnReleaseOnly(d), NEW e \in Deployment \ {d},
         row'[e] = row[e], task'[e] = task[e], TaskAgrees(e)
  PROVE  TaskAgrees(e)'
<1>1. e \in Release /\ rank'[e] = rank[e]
  BY DEF OwnReleaseOnly, Release
<1>2. Owned(e)'
  BY <1>1 DEF TaskAgrees, Owned
<1>3. GoalIsRecorded(e)'
  BY RecordedStays DEF TaskAgrees, GoalIsRecorded, At
<1>4. SweepIsAhead(e)'
  <2>1. \A r \in task[e].doomed : Recorded(r) /\ Recorded(r)' /\ rank'[r] = rank[r]
    BY RecordedStays DEF TaskAgrees, SweepIsAhead, OwnReleaseOnly, Recorded
  <2>2. Newest(task[e].doomed, rank') = Newest(task[e].doomed, rank)
    BY <2>1, NewestIsStable
  <2>3. Newest(task[e].doomed, rank) \cap (installed' \ installed) = {}
    BY <2>1, NewestListed DEF OwnReleaseOnly, Recorded
  <2>. QED  BY <2>1, <2>2, <2>3 DEF TaskAgrees, SweepIsAhead, At
<1>. QED  BY <1>2, <1>3, <1>4 DEF TaskAgrees

\* A step of one deployment that neither records nor removes a release keeps the
\* agreement if it keeps that of the deployment itself and what is live.
LEMMA QuietStep ==
  ASSUME NEW d \in Deployment, TypeOK, ReleasesAgree,
         UNCHANGED <<rank, recorded, pruned, installed>>,
         \A e \in Deployment \ {d} : row'[e] = row[e] /\ task'[e] = task[e],
         TaskAgrees(d)', LiveIsRecorded'
  PROVE  ReleasesAgree'
<1>1. OwnReleaseOnly(d)
  BY DEF OwnReleaseOnly
<1>2. \A e \in Deployment : TaskAgrees(e)'
  BY <1>1, OthersAgree DEF ReleasesAgree
<1>. QED  BY <1>2 DEF ReleasesAgree, RankIsAnOrder, Recorded, PrunedMeansGone

\* A step of d, once it has a row, that keeps the locals of its task.
Onward(d) ==
  /\ \A e \in Deployment \ {d} : row'[e] = row[e] /\ task'[e] = task[e]
  /\ task'[d].mode = task[d].mode /\ task'[d].goal = task[d].goal
  /\ task'[d].doomed = task[d].doomed
  /\ row'[d].previous = row[d].previous
  /\ row'[d].status = "none" => row[d].status = "none"
  /\ task[d].pc \notin {"idle", "resolve"} /\ task'[d].pc \notin {"resolve", "mark"}
  /\ task'[d].pc \in BeforeSwap =>
       task[d].pc \in BeforeSwap \ {"configure"} /\ task'[d].pc # "configure"
  /\ task'[d].pc \in Acting => task[d].pc \in Acting

LEMMA OnwardAgrees ==
  ASSUME NEW d \in Deployment, TaskAgrees(d), Onward(d), OwnReleaseOnly(d), rank' = rank
  PROVE  TaskAgrees(d)'
<1>1. Owned(d)'
  BY DEF Onward, TaskAgrees, Owned
<1>2. GoalIsRecorded(d)'
  BY RecordedStays DEF Onward, TaskAgrees, GoalIsRecorded, At
<1>3. SweepIsAhead(d)'
  BY RecordedStays DEF Onward, TaskAgrees, SweepIsAhead, At
<1>. QED  BY <1>1, <1>2, <1>3 DEF TaskAgrees

\* What may be live after a step: what was, or what is recorded.
LiveIsKnown ==
  \A r \in {link', temp', running', current'} :
    r \in {link, temp, running, current, NoRelease} \/ Recorded(r)

LEMMA LiveStays ==
  ASSUME TypeOK, LiveIsRecorded, rank' = rank, LiveIsKnown
  PROVE  LiveIsRecorded'
BY DEF LiveIsRecorded, LiveIsKnown, Recorded

LEMMA OnwardStep ==
  ASSUME NEW d \in Deployment, TypeOK, ReleasesAgree, Onward(d),
         UNCHANGED <<rank, recorded, pruned, installed>>, LiveIsKnown
  PROVE  ReleasesAgree'
<1>1. OwnReleaseOnly(d) /\ rank' = rank
  BY DEF OwnReleaseOnly
<1>2. TaskAgrees(d)'
  BY <1>1, OnwardAgrees DEF ReleasesAgree
<1>3. LiveIsRecorded'
  BY <1>1, LiveStays DEF ReleasesAgree
<1>. QED  BY <1>2, <1>3, QuietStep DEF Onward

LEMMA GotoEffect ==
  ASSUME NEW d \in Deployment, NEW pc, task \in [Deployment -> Task], Goto(d, pc)
  PROVE  /\ task'[d].pc = pc /\ task'[d].mode = task[d].mode
         /\ task'[d].goal = task[d].goal /\ task'[d].doomed = task[d].doomed
         /\ \A e \in Deployment \ {d} : task'[e] = task[e]
BY DEF Goto, Task

LEMMA BailEffect ==
  ASSUME NEW d \in Deployment, task \in [Deployment -> Task], Bail(d)
  PROVE  /\ task'[d].pc = (IF task[d].mode = "deploy" THEN "failed" ELSE "endFailed")
         /\ task'[d].mode = task[d].mode
         /\ task'[d].goal = task[d].goal /\ task'[d].doomed = task[d].doomed
         /\ \A e \in Deployment \ {d} : task'[e] = task[e]
BY GotoEffect DEF Bail

LEMMA SetStatusEffect ==
  ASSUME NEW d \in Deployment, NEW s, row \in [Deployment -> Row], SetStatus(d, s)
  PROVE  /\ row'[d].status = s /\ row'[d].previous = row[d].previous
         /\ row'[d].cancel = row[d].cancel
         /\ row'[d].finished = (row[d].finished \/ s \in Terminal)
         /\ \A e \in Deployment \ {d} : row'[e] = row[e]
BY DEF SetStatus, Row

\* The step from one checkpoint to the next.
LEMMA CheckedGotoEffect ==
  ASSUME NEW d \in Deployment, NEW pc, NEW s \in Active, task \in [Deployment -> Task],
         row \in [Deployment -> Row], CheckedGoto(d, pc, s)
  PROVE  /\ task'[d].pc \in {pc, "failed", "endFailed"} /\ task'[d].mode = task[d].mode
         /\ task'[d].goal = task[d].goal /\ task'[d].doomed = task[d].doomed
         /\ row'[d].previous = row[d].previous
         /\ row'[d].status \in {row[d].status, s} /\ s # "none"
         /\ \A e \in Deployment \ {d} : row'[e] = row[e] /\ task'[e] = task[e]
<1>1. CASE row[d].cancel
  BY <1>1, BailEffect DEF CheckedGoto, Active
<1>2. CASE ~row[d].cancel
  BY <1>2, GotoEffect, SetStatusEffect DEF CheckedGoto, Active
<1>. QED  BY <1>1, <1>2

LEMMA ReleasesInit == Init => ReleasesAgree
<1>. SUFFICES ASSUME Init PROVE ReleasesAgree
  OBVIOUS
<1>. USE ConstantsAssumption
<1>1. DOMAIN Seeded = 1 .. Len(Seeded) /\ Len(Seeded) \in Nat
  OBVIOUS
<1>2. \A r \in SeededRelease : rank[r] \in DOMAIN Seeded /\ Seeded[rank[r]] = r
  <2>1. ASSUME NEW r \in SeededRelease
        PROVE  LET i == CHOOSE i \in DOMAIN Seeded : Seeded[i] = r
               IN i \in DOMAIN Seeded /\ Seeded[i] = r
    BY DEF SeededRelease
  <2>. QED  BY <2>1 DEF Init, Release
<1>3. \A r \in Release \ SeededRelease : rank[r] = 0
  BY DEF Init
<1>4. RankIsAnOrder
  <2>1. ASSUME NEW r \in Release PROVE rank[r] <= recorded
    <3>1. rank[r] \in 1 .. Len(Seeded) \/ rank[r] = 0
      BY <1>1, <1>2, <1>3
    <3>2. recorded = Len(Seeded)
      BY DEF Init
    <3>. QED  BY <1>1, <3>1, <3>2
  <2>2. ASSUME NEW q \in Release, NEW r \in Release, rank[q] # 0, rank[q] = rank[r]
        PROVE  q = r
    BY <1>2, <1>3, <2>2
  <2>. QED  BY <2>1, <2>2 DEF RankIsAnOrder
<1>5. ASSUME NEW d \in Deployment PROVE TaskAgrees(d)
  <2>1. rank[d] = 0
    BY <1>3 DEF Release
  <2>. QED  BY <2>1 DEF Init, NoRow, NoTask, TaskAgrees, Owned, GoalIsRecorded, SweepIsAhead,
                        At, BeforeSwap, Acting
<1>6. LiveIsRecorded
  <2>1. {link, temp, running, current} \ {NoRelease} \subseteq SeededRelease
    BY <1>1 DEF Init, SeededRelease
  <2>. QED  BY <1>1, <1>2, <2>1 DEF LiveIsRecorded
<1>. QED  BY <1>4, <1>5, <1>6 DEF Init, ReleasesAgree, PrunedMeansGone

LEMMA ReleasesNext == TypeOK /\ TypeOK' /\ ReleasesAgree /\ [Next]_vars => ReleasesAgree'
<1>. SUFFICES ASSUME TypeOK, TypeOK', ReleasesAgree, [Next]_vars PROVE ReleasesAgree'
  OBVIOUS
<1>r. /\ row \in [Deployment -> Row] /\ task \in [Deployment -> Task]
      /\ row' \in [Deployment -> Row] /\ task' \in [Deployment -> Task]
      /\ rank \in [Release -> Nat] /\ recorded \in Nat
      /\ {current, link, temp, running} \subseteq Release \cup {NoRelease}
      /\ Deployment \subseteq Release /\ NoRelease \notin Release
  BY ConstantsAssumption DEF TypeOK, Release
<1>l. /\ \A d \in Deployment : TaskAgrees(d)
      /\ RankIsAnOrder /\ PrunedMeansGone /\ LiveIsRecorded
      /\ \A r \in pruned : Recorded(r)
      /\ \A r \in {current, link, temp, running} \ {NoRelease} : Recorded(r)
  BY <1>r DEF ReleasesAgree, LiveIsRecorded, Recorded
<1>1. ASSUME NEW d \in Deployment, NEW tr \in Triggers, NEW skip \in BOOLEAN,
             NEW auto \in BOOLEAN, StartDeploy(d, tr, skip, auto)
      PROVE  ReleasesAgree'
  <2>1. \A e \in Deployment \ {d} : row'[e] = row[e] /\ task'[e] = task[e]
    BY <1>r, <1>1 DEF StartDeploy
  <2>2. /\ row'[d].status = "queued" /\ row'[d].previous = current
        /\ task'[d].pc = "begin" /\ task'[d].mode = "deploy" /\ task'[d].goal = d
        /\ task'[d].doomed = {}
    BY <1>r, <1>1 DEF StartDeploy, NoRow, NoTask
  <2>3. UNCHANGED <<db, target>> /\ rank[d] = 0
    BY <1>l, <1>1 DEF StartDeploy, TaskAgrees, Owned
  <2>4. TaskAgrees(d)'
    BY <1>l, <2>2, <2>3
    DEF TaskAgrees, Owned, GoalIsRecorded, SweepIsAhead, At, Acting, BeforeSwap, Recorded, db
  <2>. QED  BY <1>l, <2>1, <2>3, <2>4, QuietStep DEF db, target, LiveIsRecorded
<1>2. ASSUME NEW d \in Deployment, RollbackRead(d) PROVE ReleasesAgree'
  <2>1. \A e \in Deployment \ {d} : row'[e] = row[e] /\ task'[e] = task[e]
    BY <1>r, <1>2 DEF RollbackRead
  <2>2. /\ row' = row /\ task'[d].pc = "resolve" /\ task'[d].goal = current
        /\ task'[d].doomed = {}
    BY <1>r, <1>2 DEF RollbackRead, NoTask
  <2>3. UNCHANGED <<db, target>>
    BY <1>2 DEF RollbackRead
  <2>4. TaskAgrees(d)'
    BY <1>l, <2>2, <2>3
    DEF TaskAgrees, Owned, GoalIsRecorded, SweepIsAhead, At, Acting, BeforeSwap, Recorded, db
  <2>. QED  BY <1>l, <2>1, <2>3, <2>4, QuietStep DEF db, target, LiveIsRecorded
<1>3. ASSUME NEW d \in Deployment, Cancel(d) PROVE ReleasesAgree'
  <2>1. /\ \A e \in Deployment \ {d} : row'[e] = row[e] /\ task'[e] = task[e]
        /\ task' = task /\ UNCHANGED <<db, target>>
        /\ row'[d].status = row[d].status /\ row'[d].previous = row[d].previous
    BY <1>r, <1>3 DEF Cancel, Row
  <2>2. TaskAgrees(d)'
    BY <1>l, <2>1
    DEF TaskAgrees, Owned, GoalIsRecorded, SweepIsAhead, At, Recorded, db, target
  <2>. QED  BY <1>l, <2>1, <2>2, QuietStep DEF db, target, LiveIsRecorded
<1>4. ASSUME NEW d \in Deployment, NEW req, RollbackResolve(d, req) PROVE ReleasesAgree'
  <2>. DEFINE choice == RollbackChoice(Listed, rank, task[d].goal, req)
  <2>1. UNCHANGED <<db, target>> /\ task[d].pc = "resolve"
    BY <1>4 DEF RollbackResolve, At
  <2>2. CASE task' = [task EXCEPT ![d] = NoTask] /\ UNCHANGED row
    <3>1. task'[d] = NoTask /\ \A e \in Deployment \ {d} : task'[e] = task[e]
      BY <1>r, <2>2
    <3>2. TaskAgrees(d)'
      BY <1>l, <2>1, <2>2, <3>1
      DEF TaskAgrees, Owned, GoalIsRecorded, SweepIsAhead, At, Acting, BeforeSwap, Recorded,
          NoTask, db, target
    <3>. QED  BY <1>l, <2>1, <2>2, <3>1, <3>2, QuietStep DEF db, target, LiveIsRecorded
  <2>3. CASE \E chosen \in choice :
               /\ row' = [row EXCEPT ![d] =
                           [NoRow EXCEPT !.status = "activating",
                                         !.previous = task[d].goal, !.release = chosen]]
               /\ task' = [task EXCEPT ![d].pc = "find", ![d].goal = chosen]
    <3>1. PICK chosen \in choice :
               /\ row' = [row EXCEPT ![d] =
                           [NoRow EXCEPT !.status = "activating",
                                         !.previous = task[d].goal, !.release = chosen]]
               /\ task' = [task EXCEPT ![d].pc = "find", ![d].goal = chosen]
      BY <2>3
    <3>2. Recorded(chosen)
      BY ChoiceListed DEF Listed, Recorded
    <3>3. /\ \A e \in Deployment \ {d} : row'[e] = row[e] /\ task'[e] = task[e]
          /\ row'[d].status = "activating" /\ row'[d].previous = task[d].goal
          /\ task'[d].pc = "find" /\ task'[d].goal = chosen
          /\ task'[d].doomed = task[d].doomed
      <4>. HIDE DEF choice
      <4>. QED  BY <1>r, <3>1 DEF NoRow, Row, Task
    <3>4. task[d].goal # NoRelease => Recorded(task[d].goal)
      BY <1>l, <2>1 DEF TaskAgrees, GoalIsRecorded, At
    <3>5. \A r \in task[d].doomed : Recorded(r)
      BY <1>l DEF TaskAgrees, SweepIsAhead
    <3>6. TaskAgrees(d)'
      <4>. HIDE DEF choice
      <4>. QED  BY <2>1, <3>2, <3>3, <3>4, <3>5
                DEF TaskAgrees, Owned, GoalIsRecorded, SweepIsAhead, At, Acting, BeforeSwap,
                    Recorded, db, target
    <3>. QED  BY <1>l, <2>1, <3>3, <3>6, QuietStep DEF db, target, LiveIsRecorded
  <2>. QED  BY <1>4, <2>2, <2>3 DEF RollbackResolve
<1>5. ASSUME NEW d \in Deployment, Begin(d) PROVE ReleasesAgree'
  <2>1. Onward(d)
    BY <1>r, <1>5, CheckedGotoEffect DEF Begin, Onward, At, Active, BeforeSwap, Acting
  <2>. QED  BY <1>5, <2>1, OnwardStep DEF Begin, db, target, LiveIsKnown
<1>6. ASSUME NEW d \in Deployment, Obtain(d) PROVE ReleasesAgree'
  <2>1. Onward(d)
    BY <1>r, <1>6, CheckedGotoEffect, BailEffect
    DEF Obtain, Onward, At, Active, BeforeSwap, Acting
  <2>. QED  BY <1>6, <2>1, OnwardStep DEF Obtain, db, target, LiveIsKnown
<1>7. ASSUME NEW d \in Deployment, Upload(d) PROVE ReleasesAgree'
  <2>1. Onward(d)
    BY <1>r, <1>7, GotoEffect, BailEffect DEF Upload, Onward, At, BeforeSwap, Acting
  <2>2. rank[d] = 0
    BY <1>l, <1>7 DEF Upload, At, TaskAgrees, Owned, BeforeSwap
  <2>3. /\ UNCHANGED <<rank, recorded, pruned, current, link, temp, running>>
        /\ installed' \subseteq installed \cup {d}
    BY <1>7 DEF Upload, db
  <2>4. OwnReleaseOnly(d)
    BY <2>2, <2>3 DEF OwnReleaseOnly
  <2>5. \A e \in Deployment : TaskAgrees(e)'
    BY <1>l, <2>1, <2>3, <2>4, OnwardAgrees, OthersAgree DEF Onward
  <2>6. PrunedMeansGone'
    BY <1>l, <2>2, <2>3 DEF PrunedMeansGone, Recorded
  <2>. QED  BY <1>l, <2>3, <2>5, <2>6 DEF ReleasesAgree, RankIsAnOrder, Recorded, LiveIsRecorded
<1>8. ASSUME NEW d \in Deployment, Record(d) PROVE ReleasesAgree'
  <2>1. /\ rank[d] = 0 /\ task[d].goal = d /\ task[d].mode = "deploy"
        /\ row[d].status # "none" /\ task[d].pc = "record"
    BY <1>l, <1>8 DEF Record, At, TaskAgrees, Owned, BeforeSwap
  <2>2. /\ rank' = [rank EXCEPT ![d] = recorded + 1] /\ recorded' = recorded + 1
        /\ UNCHANGED <<pruned, installed, current, link, temp, running>>
    BY <1>8 DEF Record, target
  <2>3. /\ \A e \in Deployment \ {d} : row'[e] = row[e] /\ task'[e] = task[e]
        /\ row'[d].status = row[d].status /\ row'[d].previous = row[d].previous
        /\ task'[d].pc \in {"configure", "failed", "endFailed"}
        /\ task'[d].mode = "deploy" /\ task'[d].goal = d
        /\ task'[d].doomed = task[d].doomed
    BY <1>r, <1>8, <2>1, GotoEffect, BailEffect DEF Record, Row
  <2>4. OwnReleaseOnly(d)
    BY <1>r, <2>1, <2>2 DEF OwnReleaseOnly
  <2>5. Recorded(d)'
    BY <1>r, <2>2 DEF Recorded
  <2>6. TaskAgrees(d)'
    <3>1. row'[d].previous # NoRelease => Recorded(row[d].previous)'
      BY <1>l, <2>3, <2>4, RecordedStays DEF TaskAgrees, GoalIsRecorded
    <3>2. \A r \in task[d].doomed : Recorded(r)'
      BY <1>l, <2>4, RecordedStays DEF TaskAgrees, SweepIsAhead
    <3>. QED  BY <2>1, <2>3, <2>5, <3>1, <3>2
              DEF TaskAgrees, Owned, GoalIsRecorded, SweepIsAhead, At, BeforeSwap, Acting
  <2>7. \A e \in Deployment : TaskAgrees(e)'
    BY <1>l, <2>3, <2>4, <2>6, OthersAgree
  <2>8. RankIsAnOrder'
    BY <1>r, <1>l, <2>1, <2>2 DEF RankIsAnOrder
  <2>9. \A r \in pruned' : Recorded(r)'
    BY <1>l, <2>2, <2>4, RecordedStays
  <2>10. LiveIsRecorded'
    BY <1>l, <2>2, <2>4, RecordedStays DEF LiveIsRecorded, Recorded
  <2>. QED  BY <1>l, <2>2, <2>7, <2>8, <2>9, <2>10 DEF ReleasesAgree, PrunedMeansGone
<1>9. ASSUME NEW d \in Deployment, Configure(d) PROVE ReleasesAgree'
  <2>1. Onward(d)
    BY <1>r, <1>9, CheckedGotoEffect, BailEffect
    DEF Configure, Onward, At, Active, BeforeSwap, Acting
  <2>. QED  BY <1>9, <2>1, OnwardStep DEF Configure, db, target, LiveIsKnown
<1>10. ASSUME NEW d \in Deployment, Stage(d) PROVE ReleasesAgree'
  <2>1. Onward(d)
    BY <1>r, <1>10, GotoEffect, BailEffect DEF Stage, Onward, At, BeforeSwap, Acting
  <2>2. Recorded(task[d].goal)
    BY <1>l, <1>10 DEF Stage, At, TaskAgrees, GoalIsRecorded, Acting
  <2>3. LiveIsKnown
    BY <1>10, <2>2 DEF Stage, LiveIsKnown, db
  <2>. QED  BY <1>10, <2>1, <2>3, OnwardStep DEF Stage, db
<1>11. ASSUME NEW d \in Deployment, Move(d) PROVE ReleasesAgree'
  <2>1. Onward(d)
    BY <1>r, <1>11, GotoEffect, BailEffect DEF Move, Onward, At, BeforeSwap, Acting
  <2>2. LiveIsKnown
    BY <1>11 DEF Move, LiveIsKnown, db
  <2>. QED  BY <1>11, <2>1, <2>2, OnwardStep DEF Move, db
<1>12. ASSUME NEW d \in Deployment, Restage(d) PROVE ReleasesAgree'
  <2>1. Onward(d)
    BY <1>r, <1>12, GotoEffect DEF Restage, Onward, At, BeforeSwap, Acting
  <2>2. Recorded(task[d].goal)
    BY <1>l, <1>12 DEF Restage, At, TaskAgrees, GoalIsRecorded, Acting
  <2>3. LiveIsKnown
    BY <1>12, <2>2 DEF Restage, LiveIsKnown, db
  <2>. QED  BY <1>12, <2>1, <2>3, OnwardStep DEF Restage, db
<1>13. ASSUME NEW d \in Deployment, MoveInto(d) PROVE ReleasesAgree'
  <2>1. Onward(d)
    BY <1>r, <1>13, GotoEffect, BailEffect DEF MoveInto, Onward, At, BeforeSwap, Acting
  <2>2. LiveIsKnown
    BY <1>13 DEF MoveInto, LiveIsKnown, db
  <2>. QED  BY <1>13, <2>1, <2>2, OnwardStep DEF MoveInto, db
<1>14. ASSUME NEW d \in Deployment, Restart(d) PROVE ReleasesAgree'
  <2>1. Onward(d)
    BY <1>r, <1>14, GotoEffect, BailEffect DEF Restart, Onward, At, BeforeSwap, Acting
  <2>2. LiveIsKnown
    BY <1>14 DEF Restart, LiveIsKnown, db
  <2>. QED  BY <1>14, <2>1, <2>2, OnwardStep DEF Restart, db
<1>15. ASSUME NEW d \in Deployment, Gate(d) PROVE ReleasesAgree'
  <2>1. Onward(d)
    BY <1>r, <1>15, CheckedGotoEffect, GotoEffect
    DEF Gate, Onward, At, Active, BeforeSwap, Acting
  <2>. QED  BY <1>15, <2>1, OnwardStep DEF Gate, db, target, LiveIsKnown
<1>16. ASSUME NEW d \in Deployment, Health(d) PROVE ReleasesAgree'
  <2>1. Onward(d)
    BY <1>r, <1>16, GotoEffect, BailEffect DEF Health, Onward, At, BeforeSwap, Acting
  <2>. QED  BY <1>16, <2>1, OnwardStep DEF Health, db, LiveIsKnown
<1>17. ASSUME NEW d \in Deployment, Commit(d) PROVE ReleasesAgree'
  <2>1. Onward(d)
    BY <1>r, <1>17, GotoEffect DEF Commit, Onward, At, BeforeSwap, Acting
  <2>2. Recorded(task[d].goal)
    BY <1>l, <1>17 DEF Commit, At, TaskAgrees, GoalIsRecorded, Acting
  <2>3. LiveIsKnown
    BY <1>17, <2>2 DEF Commit, LiveIsKnown, target
  <2>. QED  BY <1>17, <2>1, <2>3, OnwardStep DEF Commit, target
<1>18. ASSUME NEW d \in Deployment, List(d) PROVE ReleasesAgree'
  <2>. DEFINE doomed == Prunable(Listed, rank, Keep, d)
              pc == IF doomed = {} THEN "endSucceeded" ELSE "remove"
  <2>1. doomed \subseteq Listed
    BY PrunableListed
  <2>2. task' = [task EXCEPT ![d].doomed = doomed, ![d].pc = pc]
    BY <1>18 DEF List
  <2>3. /\ \A e \in Deployment \ {d} : row'[e] = row[e] /\ task'[e] = task[e]
        /\ row' = row /\ UNCHANGED <<db, target>>
        /\ task'[d].doomed = doomed /\ task'[d].pc = pc
    <3>1. row' = row /\ UNCHANGED <<db, target>>
      BY <1>18 DEF List
    <3>. HIDE DEF doomed, pc
    <3>. QED  BY <1>r, <2>2, <3>1 DEF Task
  <2>4. \A r \in doomed : Recorded(r)
    BY <2>1 DEF Listed, Recorded
  <2>5. row[d].status # "none"
    BY <1>l, <1>18 DEF List, At, TaskAgrees, Owned
  <2>6. pc \in {"endSucceeded", "remove"}
    OBVIOUS
  <2>7. TaskAgrees(d)'
    <3>. HIDE DEF doomed, pc
    <3>. QED  BY <1>l, <2>3, <2>4, <2>5, <2>6
              DEF TaskAgrees, Owned, GoalIsRecorded, SweepIsAhead, At, Acting, BeforeSwap,
                  Recorded, db, target
  <2>. QED  BY <1>l, <2>3, <2>7, QuietStep DEF db, target, LiveIsRecorded
<1>19. ASSUME NEW d \in Deployment, Remove(d) PROVE ReleasesAgree'
  <2>1. PICK r \in Newest(task[d].doomed, rank) :
          \/ installed' = installed \ {r} /\ Goto(d, "mark")
          \/ installed' \in {installed, installed \ {r}} /\ Goto(d, "endSucceeded")
    BY <1>19 DEF Remove
  <2>2. UNCHANGED <<row, rank, recorded, pruned, current, link, temp, running>>
        /\ installed' \subseteq installed
    BY <1>19, <2>1 DEF Remove, db
  <2>3. OwnReleaseOnly(d)
    BY <2>2 DEF OwnReleaseOnly
  <2>4. /\ \A e \in Deployment \ {d} : task'[e] = task[e]
        /\ task'[d].doomed = task[d].doomed /\ task'[d].pc \in {"mark", "endSucceeded"}
    BY <1>r, <2>1, GotoEffect
  <2>5. \A q \in task[d].doomed : Recorded(q)
    BY <1>l DEF TaskAgrees, SweepIsAhead
  <2>6. task'[d].pc = "mark" => Newest(task[d].doomed, rank) \cap installed' = {}
    <3>1. SUFFICES ASSUME task'[d].pc = "mark", NEW q \in Newest(task[d].doomed, rank)
                   PROVE  q \notin installed'
      OBVIOUS
    <3>2. installed' = installed \ {r}
      BY <1>r, <2>1, <3>1, GotoEffect
    <3>3. q = r
      BY <1>r, <1>l, <2>5, NewestIsOne DEF Recorded
    <3>. QED  BY <3>2, <3>3
  <2>7. row[d].status # "none"
    BY <1>l, <1>19 DEF Remove, At, TaskAgrees, Owned
  <2>8. TaskAgrees(d)'
    BY <1>l, <2>2, <2>4, <2>5, <2>6, <2>7
    DEF TaskAgrees, Owned, GoalIsRecorded, SweepIsAhead, At, Acting, BeforeSwap, Recorded
  <2>9. \A e \in Deployment : TaskAgrees(e)'
    BY <1>l, <2>2, <2>3, <2>4, <2>8, OthersAgree
  <2>. QED  BY <1>l, <2>2, <2>9
            DEF ReleasesAgree, RankIsAnOrder, Recorded, PrunedMeansGone, LiveIsRecorded
<1>20. ASSUME NEW d \in Deployment, Mark(d) PROVE ReleasesAgree'
  <2>1. PICK r \in Newest(task[d].doomed, rank) :
          /\ pruned' = pruned \cup {r}
          /\ task' = [task EXCEPT ![d].doomed = @ \ {r},
                                  ![d].pc = IF task[d].doomed = {r} THEN "endSucceeded"
                                                                    ELSE "remove"]
    BY <1>20 DEF Mark
  <2>2. UNCHANGED <<row, rank, recorded, installed, current, link, temp, running>>
    BY <1>20 DEF Mark, target
  <2>3. /\ \A e \in Deployment \ {d} : task'[e] = task[e]
        /\ task'[d].doomed = task[d].doomed \ {r}
        /\ task'[d].pc \in {"remove", "endSucceeded"}
    <3>. DEFINE pc == IF task[d].doomed = {r} THEN "endSucceeded" ELSE "remove"
    <3>1. task' = [task EXCEPT ![d].doomed = task[d].doomed \ {r}, ![d].pc = pc]
      BY <2>1
    <3>2. pc \in {"remove", "endSucceeded"}
      OBVIOUS
    <3>. HIDE DEF pc
    <3>. QED  BY <1>r, <3>1, <3>2 DEF Task
  <2>4. \A q \in task[d].doomed : Recorded(q)
    BY <1>l DEF TaskAgrees, SweepIsAhead
  <2>5. r \in task[d].doomed /\ r \notin installed /\ row[d].status # "none"
    BY <1>l, <1>20, NewestListed DEF Mark, At, TaskAgrees, SweepIsAhead, Owned
  <2>6. TaskAgrees(d)'
    BY <1>l, <2>2, <2>3, <2>4, <2>5
    DEF TaskAgrees, Owned, GoalIsRecorded, SweepIsAhead, At, Acting, BeforeSwap, Recorded
  <2>7. OwnReleaseOnly(d)
    BY <2>2 DEF OwnReleaseOnly
  <2>8. \A e \in Deployment : TaskAgrees(e)'
    BY <1>l, <2>2, <2>3, <2>6, <2>7, OthersAgree
  <2>. QED  BY <1>l, <2>1, <2>2, <2>4, <2>5, <2>8
            DEF ReleasesAgree, RankIsAnOrder, Recorded, PrunedMeansGone, LiveIsRecorded
<1>21. ASSUME NEW d \in Deployment, Fail(d) PROVE ReleasesAgree'
  <2>1. row' = row /\ UNCHANGED <<db, target>> /\ task[d].pc = "failed"
    BY <1>21 DEF Fail, At
  <2>2. row[d].status # "none" /\ \A q \in task[d].doomed : Recorded(q)
    BY <1>l, <2>1 DEF TaskAgrees, Owned, SweepIsAhead
  <2>3. /\ \A e \in Deployment \ {d} : task'[e] = task[e]
        /\ task'[d].doomed = task[d].doomed
        /\ \/ task'[d].pc \in {"endCancelled", "endFailed"}
           \/ /\ task'[d].pc = "find" /\ task'[d].goal = row[d].previous
              /\ row[d].previous # NoRelease
    BY <1>r, <1>21, GotoEffect DEF Fail, Task
  <2>4. TaskAgrees(d)'
    BY <1>l, <2>1, <2>2, <2>3
    DEF TaskAgrees, Owned, GoalIsRecorded, SweepIsAhead, At, Acting, BeforeSwap, Recorded,
        db, target
  <2>. QED  BY <1>l, <2>1, <2>3, <2>4, QuietStep DEF db, target, LiveIsRecorded
<1>22. ASSUME NEW d \in Deployment, FindRelease(d) PROVE ReleasesAgree'
  <2>1. Onward(d)
    BY <1>r, <1>22, GotoEffect, BailEffect DEF FindRelease, Onward, At, BeforeSwap, Acting
  <2>. QED  BY <1>22, <2>1, OnwardStep DEF FindRelease, db, target, LiveIsKnown
<1>23. ASSUME NEW d \in Deployment, Finish(d) PROVE ReleasesAgree'
  <2>1. Verdict[task[d].pc] \in Terminal
    BY <1>23, VerdictType DEF Finish
  <2>2. /\ \A e \in Deployment \ {d} : row'[e] = row[e] /\ task'[e] = task[e]
        /\ task'[d] = NoTask /\ row'[d].previous = row[d].previous
        /\ row'[d].status \in Terminal /\ UNCHANGED <<db, target>>
    BY <1>r, <1>23, <2>1, SetStatusEffect DEF Finish
  <2>3. TaskAgrees(d)'
    BY <1>l, <2>2
    DEF TaskAgrees, Owned, GoalIsRecorded, SweepIsAhead, At, Acting, BeforeSwap, Recorded,
        NoTask, Terminal, db, target
  <2>. QED  BY <1>l, <2>2, <2>3, QuietStep DEF db, target, LiveIsRecorded
<1>24. ASSUME NEW p \in Process, Crash(p) PROVE ReleasesAgree'
  <2>1. UNCHANGED <<row, db, target>>
        /\ \A e \in Deployment : task'[e] = NoTask \/ task'[e] = task[e]
    BY <1>24 DEF Crash
  <2>2. ASSUME NEW e \in Deployment PROVE TaskAgrees(e)'
    BY <1>l, <2>1
    DEF TaskAgrees, Owned, GoalIsRecorded, SweepIsAhead, At, Acting, BeforeSwap, Recorded,
        NoTask, db, target
  <2>. QED  BY <1>l, <2>1, <2>2
            DEF ReleasesAgree, RankIsAnOrder, Recorded, PrunedMeansGone, LiveIsRecorded,
                db, target
<1>25. ASSUME BootServer \/ Serve \/ BootWeb \/ UNCHANGED vars PROVE ReleasesAgree'
  <2>1. UNCHANGED <<row, task, db, target>>
    BY <1>25 DEF BootServer, Serve, BootWeb, vars
  <2>. QED  BY <1>l, <2>1
            DEF ReleasesAgree, RankIsAnOrder, Recorded, PrunedMeansGone, LiveIsRecorded,
                TaskAgrees, Owned, GoalIsRecorded, SweepIsAhead, At, db, target
<1>26. ASSUME NEW d \in Deployment, Reconcile(d) PROVE ReleasesAgree'
  <2>1. /\ \A e \in Deployment \ {d} : row'[e] = row[e]
        /\ row'[d].previous = row[d].previous /\ row'[d].status = "failed"
        /\ task' = task /\ UNCHANGED <<db, target>>
    BY <1>r, <1>26, SetStatusEffect DEF Reconcile
  <2>2. TaskAgrees(d)'
    BY <1>l, <2>1
    DEF TaskAgrees, Owned, GoalIsRecorded, SweepIsAhead, At, Recorded, db, target
  <2>. QED  BY <1>l, <2>1, <2>2, QuietStep DEF db, target, LiveIsRecorded
<1>. QED
  BY <1>1, <1>2, <1>3, <1>4, <1>5, <1>6, <1>7, <1>8, <1>9, <1>10, <1>11, <1>12, <1>13,
     <1>14, <1>15, <1>16, <1>17, <1>18, <1>19, <1>20, <1>21, <1>22, <1>23, <1>24, <1>25, <1>26
  DEF Next, Call, TaskStep, Boot

\* The releases table, the target and the tasks agree on what is recorded and
\* what is removed: the invariant the two theorems below rest on.
THEOREM ReleasesInvariant == Spec => []ReleasesAgree
BY ReleasesInit, ReleasesNext, TypeInvariant, PTL DEF Spec

\* However deployments overlap, are swept and die, a release that is marked
\* pruned is gone from the target (prune_releases removes before it marks).
THEOREM PrunedIsGone == Spec => []PrunedMeansGone
<1>1. ReleasesAgree => PrunedMeansGone
  BY DEF ReleasesAgree
<1>. QED  BY <1>1, ReleasesInvariant, PTL

\* Only releases that were uploaded and recorded are ever linked, started or
\* committed, whichever deployment's link a swap takes.
THEOREM LiveWasRecorded == Spec => []LiveIsRecorded
<1>1. ReleasesAgree => LiveIsRecorded
  BY DEF ReleasesAgree
<1>. QED  BY <1>1, ReleasesInvariant, PTL

-----------------------------------------------------------------------------
(***************************************************************************)
(* Rows: that rows and tasks agree in the all-in-one binary, that every    *)
(* row lives the life of DeployLifecycle, that a cancel before the swap is *)
(* honoured, and that one deployment at a time keeps its way back and      *)
(* reports what is so.                                                     *)
(***************************************************************************)

-----------------------------------------------------------------------------
(* What the steps of a task do to its row.                                 *)

WorkStep(d) ==
  \/ Begin(d) \/ Obtain(d) \/ Upload(d) \/ Record(d) \/ Configure(d)
  \/ Stage(d) \/ Move(d) \/ Restage(d) \/ MoveInto(d) \/ Restart(d)
  \/ Gate(d) \/ Health(d) \/ Commit(d) \/ List(d) \/ Remove(d) \/ Mark(d)
  \/ Fail(d) \/ FindRelease(d)

\* A task at work goes on, and leaves its row active if it was.
Works(d) ==
  /\ \A e \in Deployment \ {d} : row'[e] = row[e] /\ task'[e] = task[e]
  /\ task[d].pc \notin {"idle", "resolve"} /\ task'[d].pc \notin {"idle", "resolve"}
  /\ row'[d].cancel = row[d].cancel
  /\ row'[d].finished = row[d].finished
  /\ row'[d].status \in Active \cup {row[d].status}
  /\ task'[d].pc = "endCancelled" => row[d].cancel
  /\ UNCHANGED procs

LEMMA ActiveStatus ==
  ASSUME NEW d \in Deployment, NEW s \in Active, row \in [Deployment -> Row], SetStatus(d, s)
  PROVE  /\ row'[d].status = s /\ row'[d].cancel = row[d].cancel
         /\ row'[d].finished = row[d].finished
         /\ \A e \in Deployment \ {d} : row'[e] = row[e]
<1>1. s \notin Terminal
  BY DEF Active, Terminal
<1>2. row[d].finished \in BOOLEAN
  BY DEF Row
<1>. QED  BY <1>1, <1>2, SetStatusEffect

LEMMA CheckedWork ==
  ASSUME NEW d \in Deployment, NEW pc, pc \notin {"idle", "resolve", "endCancelled"},
         NEW s \in Active, task \in [Deployment -> Task], row \in [Deployment -> Row],
         task[d].pc \notin {"idle", "resolve"}, CheckedGoto(d, pc, s), UNCHANGED procs
  PROVE  Works(d)
<1>1. CASE row[d].cancel
  BY <1>1, BailEffect DEF CheckedGoto, Works
<1>2. CASE ~row[d].cancel
  BY <1>2, GotoEffect, ActiveStatus DEF CheckedGoto, Works
<1>. QED  BY <1>1, <1>2

LEMMA WorkEffect ==
  ASSUME NEW d \in Deployment, TypeOK, WorkStep(d)
  PROVE  Works(d)
<1>r. row \in [Deployment -> Row] /\ task \in [Deployment -> Task]
  BY DEF TypeOK
<1>a. {"queued", "building", "uploading", "activating", "health_checking"} = Active
  BY DEF Active
<1>1. ASSUME Begin(d) PROVE Works(d)
  BY <1>r, <1>a, <1>1, CheckedWork DEF Begin, At
<1>2. ASSUME Obtain(d) PROVE Works(d)
  BY <1>r, <1>a, <1>2, CheckedWork, BailEffect DEF Obtain, At, Works
<1>3. ASSUME Record(d) PROVE Works(d)
  BY <1>r, <1>3, GotoEffect, BailEffect DEF Record, At, Works, Row
<1>4. ASSUME Configure(d) PROVE Works(d)
  BY <1>r, <1>a, <1>4, CheckedWork, BailEffect DEF Configure, At, Works
<1>5. ASSUME Gate(d) PROVE Works(d)
  BY <1>r, <1>a, <1>5, CheckedWork, GotoEffect DEF Gate, At, Works
<1>6. ASSUME Upload(d) \/ Stage(d) \/ Move(d) \/ Restage(d) \/ MoveInto(d) \/ Restart(d)
      PROVE  Works(d)
  BY <1>r, <1>6, GotoEffect, BailEffect
  DEF Upload, Stage, Move, Restage, MoveInto, Restart, At, Works
<1>7. ASSUME Health(d) \/ Commit(d) \/ Remove(d) \/ FindRelease(d) PROVE Works(d)
  BY <1>r, <1>7, GotoEffect, BailEffect DEF Health, Commit, Remove, FindRelease, At, Works
<1>8. ASSUME List(d) PROVE Works(d)
  <2>. DEFINE doomed == Prunable(Listed, rank, Keep, d)
              pc == IF doomed = {} THEN "endSucceeded" ELSE "remove"
  <2>1. /\ task' = [task EXCEPT ![d].doomed = doomed, ![d].pc = pc]
        /\ row' = row /\ UNCHANGED procs /\ task[d].pc = "list"
    BY <1>8 DEF List, At
  <2>2. pc \in {"endSucceeded", "remove"}
    OBVIOUS
  <2>. HIDE DEF doomed, pc
  <2>. QED  BY <1>r, <2>1, <2>2 DEF Works, Task
<1>9. ASSUME Mark(d) PROVE Works(d)
  <2>1. PICK r \in Newest(task[d].doomed, rank) :
          task' = [task EXCEPT ![d].doomed = @ \ {r},
                               ![d].pc = IF task[d].doomed = {r} THEN "endSucceeded"
                                                                 ELSE "remove"]
    BY <1>9 DEF Mark
  <2>. DEFINE doomed == task[d].doomed \ {r}
              pc == IF task[d].doomed = {r} THEN "endSucceeded" ELSE "remove"
  <2>2. /\ task' = [task EXCEPT ![d].doomed = doomed, ![d].pc = pc]
        /\ row' = row /\ UNCHANGED procs /\ task[d].pc = "mark"
    BY <1>9, <2>1 DEF Mark, At
  <2>3. pc \in {"endSucceeded", "remove"}
    OBVIOUS
  <2>. HIDE DEF doomed, pc
  <2>. QED  BY <1>r, <2>2, <2>3 DEF Works, Task
<1>10. ASSUME Fail(d) PROVE Works(d)
  BY <1>r, <1>10, GotoEffect DEF Fail, At, Works, Task
<1>. QED
  BY <1>1, <1>2, <1>3, <1>4, <1>5, <1>6, <1>7, <1>8, <1>9, <1>10 DEF WorkStep

\* The steps of the system, with those of a task at work taken together.
LEMMA NextCases ==
  ASSUME Next
  PROVE  \/ \E d \in Deployment :
              \/ \E tr \in Triggers, skip, auto \in BOOLEAN : StartDeploy(d, tr, skip, auto)
              \/ \E req \in {{}} \cup {{r} : r \in Release} : RollbackResolve(d, req)
              \/ RollbackRead(d) \/ Cancel(d) \/ WorkStep(d) \/ Finish(d) \/ Reconcile(d)
         \/ \E p \in Process : Crash(p)
         \/ BootServer \/ Serve \/ BootWeb
BY DEF Next, Call, TaskStep, Boot, WorkStep

-----------------------------------------------------------------------------
(* Rows and tasks agree when the processes die together.                   *)

LEMMA Statuses ==
  /\ Active \cap Terminal = {} /\ "none" \notin Active \cup Terminal
  /\ "queued" \in Active /\ "activating" \in Active /\ "failed" \in Terminal
BY DEF Active, Terminal

LEMMA RowsInit == Init => RowsAgree
BY Statuses, ConstantsAssumption
DEF Init, RowsAgree, BootIsOrdered, StampsAgree, RowMatchesTask, NoTaskBehindAnOutcome,
    NoRow, NoTask, At, Process

\* A step of one deployment, in a server that takes calls, keeps the agreement if
\* it keeps that of the deployment itself.
LEMMA RowStep ==
  ASSUME NEW d \in Deployment, RowsAgree, proc["server"] = "up", proc' = proc,
         \A e \in Deployment \ {d} : row'[e] = row[e] /\ task'[e] = task[e],
         StampsAgree(d)',
         task'[d].pc \notin {"idle", "resolve"} => row'[d].status \in Active,
         row'[d].status \in Active => task'[d].pc # "idle"
  PROVE  RowsAgree'
<1>1. BootIsOrdered'
  BY DEF BootIsOrdered
<1>2. \A e \in Deployment : StampsAgree(e)'
  BY DEF RowsAgree, StampsAgree, At
<1>3. RowMatchesTask'
  BY DEF RowsAgree, RowMatchesTask, NoTaskBehindAnOutcome, At
<1>. QED  BY <1>1, <1>2, <1>3 DEF RowsAgree

LEMMA WorksInServer ==
  ASSUME NEW d \in Deployment, RowsAgree, TypeOK, task[d].pc # "idle"
  PROVE  /\ proc["server"] = "up"
         /\ task[d].pc # "resolve" => row[d].status \in Active /\ ~row[d].finished
<1>1. proc["server"] = "up"
  BY DEF RowsAgree, BootIsOrdered, At
<1>2. task[d].pc # "resolve" => row[d].status \in Active
  BY DEF RowsAgree, RowMatchesTask, NoTaskBehindAnOutcome
<1>3. row[d].status \in Active => ~row[d].finished
  BY Statuses DEF RowsAgree, StampsAgree
<1>. QED  BY <1>1, <1>2, <1>3

LEMMA RowsNext ==
  OneProcess /\ TypeOK /\ TypeOK' /\ RowsAgree /\ [Next]_vars => RowsAgree'
<1>. SUFFICES ASSUME OneProcess, TypeOK, TypeOK', RowsAgree, [Next]_vars PROVE RowsAgree'
  OBVIOUS
<1>r. /\ row \in [Deployment -> Row] /\ task \in [Deployment -> Task]
      /\ row' \in [Deployment -> Row] /\ task' \in [Deployment -> Task]
      /\ proc \in [Process -> {"down", "booting", "up"}]
      /\ "server" \in Process /\ "web" \in Process
  BY DEF TypeOK, Process
<1>l. /\ BootIsOrdered /\ \A d \in Deployment : StampsAgree(d)
      /\ RowMatchesTask /\ NoTaskBehindAnOutcome
  BY DEF RowsAgree, RowMatchesTask
<1>1. ASSUME NEW d \in Deployment, NEW tr \in Triggers, NEW skip \in BOOLEAN,
             NEW auto \in BOOLEAN, StartDeploy(d, tr, skip, auto)
      PROVE  RowsAgree'
  <2>1. proc["server"] = "up" /\ proc' = proc
    BY <1>l, <1>1 DEF StartDeploy, HostOf, BootIsOrdered, procs
  <2>2. /\ \A e \in Deployment \ {d} : row'[e] = row[e] /\ task'[e] = task[e]
        /\ row'[d].status = "queued" /\ row'[d].finished = FALSE /\ task'[d].pc = "begin"
    BY <1>r, <1>1 DEF StartDeploy, NoRow, NoTask
  <2>3. StampsAgree(d)'
    BY <2>2, Statuses DEF StampsAgree, At
  <2>. QED  BY <2>1, <2>2, <2>3, Statuses, RowStep
<1>2. ASSUME NEW d \in Deployment, RollbackRead(d) PROVE RowsAgree'
  <2>1. /\ \A e \in Deployment \ {d} : row'[e] = row[e] /\ task'[e] = task[e]
        /\ row' = row /\ row[d].status = "none" /\ task'[d].pc = "resolve"
        /\ proc["server"] = "up" /\ proc' = proc
    BY <1>r, <1>2 DEF RollbackRead, NoTask, procs
  <2>2. StampsAgree(d)'
    BY <1>l, <2>1 DEF StampsAgree, At
  <2>. QED  BY <2>1, <2>2, Statuses, RowStep
<1>3. ASSUME NEW d \in Deployment, Cancel(d) PROVE RowsAgree'
  <2>1. /\ \A e \in Deployment \ {d} : row'[e] = row[e] /\ task'[e] = task[e]
        /\ task' = task /\ row'[d].status = row[d].status
        /\ row'[d].finished = row[d].finished /\ row'[d].cancel = TRUE
        /\ row[d].status # "none" /\ proc["server"] = "up" /\ proc' = proc
    BY <1>r, <1>3 DEF Cancel, Row, procs
  <2>2. StampsAgree(d)'
    BY <1>l, <2>1 DEF StampsAgree, At
  <2>. QED  BY <1>l, <2>1, <2>2, RowStep DEF RowMatchesTask, NoTaskBehindAnOutcome, At
<1>4. ASSUME NEW d \in Deployment, NEW req, RollbackResolve(d, req) PROVE RowsAgree'
  <2>1. task[d].pc = "resolve" /\ proc' = proc
    BY <1>4 DEF RollbackResolve, At, procs
  <2>2. proc["server"] = "up" /\ row[d].status = "none"
    BY <1>l, <2>1, WorksInServer DEF StampsAgree, At
  <2>3. /\ \A e \in Deployment \ {d} : row'[e] = row[e] /\ task'[e] = task[e]
        /\ \/ row'[d] = row[d] /\ task'[d].pc = "idle"
           \/ /\ row'[d].status = "activating" /\ row'[d].finished = FALSE
              /\ task'[d].pc = "find"
    <3>1. CASE task' = [task EXCEPT ![d] = NoTask] /\ UNCHANGED row
      BY <1>r, <3>1 DEF NoTask
    <3>2. CASE \E chosen :
                 /\ row' = [row EXCEPT ![d] =
                             [NoRow EXCEPT !.status = "activating",
                                           !.previous = task[d].goal, !.release = chosen]]
                 /\ task' = [task EXCEPT ![d].pc = "find", ![d].goal = chosen]
      BY <1>r, <3>2 DEF NoRow, Task
    <3>. QED  BY <1>4, <3>1, <3>2 DEF RollbackResolve
  <2>4. StampsAgree(d)'
    BY <1>l, <2>2, <2>3, Statuses DEF StampsAgree, At
  <2>. QED  BY <2>1, <2>2, <2>3, <2>4, Statuses, RowStep
<1>5. ASSUME NEW d \in Deployment, WorkStep(d) PROVE RowsAgree'
  <2>1. Works(d)
    BY <1>5, WorkEffect
  <2>2. proc["server"] = "up" /\ row[d].status \in Active /\ ~row[d].finished
    BY <2>1, WorksInServer DEF Works
  <2>3. row'[d].status \in Active /\ proc' = proc
    BY <2>1, <2>2 DEF Works, procs
  <2>4. StampsAgree(d)'
    BY <2>1, <2>2, <2>3, Statuses DEF Works, StampsAgree, At
  <2>. QED  BY <2>1, <2>2, <2>3, <2>4, RowStep DEF Works
<1>6. ASSUME NEW d \in Deployment, Finish(d) PROVE RowsAgree'
  <2>1. Verdict[task[d].pc] \in Terminal /\ task[d].pc \notin {"idle", "resolve"}
    BY <1>6, VerdictType DEF Finish
  <2>2. /\ \A e \in Deployment \ {d} : row'[e] = row[e] /\ task'[e] = task[e]
        /\ task'[d] = NoTask /\ row'[d].status \in Terminal /\ row'[d].finished = TRUE
        /\ proc' = proc
    <3>. DEFINE s == Verdict[task[d].pc]
    <3>1. SetStatus(d, s) /\ task' = [task EXCEPT ![d] = NoTask] /\ proc' = proc
      BY <1>6 DEF Finish, procs
    <3>. HIDE DEF s
    <3>2. /\ row'[d].status = s /\ row'[d].finished = (row[d].finished \/ s \in Terminal)
          /\ \A e \in Deployment \ {d} : row'[e] = row[e]
      BY <1>r, <3>1, SetStatusEffect, Zenon
    <3>3. s \in Terminal
      BY <2>1 DEF s
    <3>4. \A e \in Deployment \ {d} : task'[e] = task[e]
      BY <1>r, <3>1
    <3>5. task'[d] = NoTask
      BY <1>r, <3>1
    <3>6. row'[d].finished = TRUE
      BY <3>2, <3>3, Zenon
    <3>. QED  BY <3>1, <3>2, <3>3, <3>4, <3>5, <3>6, Zenon
  <2>3. proc["server"] = "up"
    BY <2>1, WorksInServer
  <2>4. StampsAgree(d)'
    BY <2>2, Statuses DEF StampsAgree, At, NoTask
  <2>. QED  BY <2>2, <2>3, <2>4, Statuses, RowStep DEF NoTask
<1>7. ASSUME NEW d \in Deployment, Reconcile(d) PROVE RowsAgree'
  <2>1. /\ proc["server"] = "booting" /\ proc' = proc /\ task' = task
        /\ d \in orphans /\ orphans' = orphans \ {d}
    BY <1>7 DEF Reconcile
  <2>2. /\ \A e \in Deployment \ {d} : row'[e] = row[e]
        /\ row'[d].status = "failed" /\ row'[d].finished = TRUE
    BY <1>r, <1>7, Statuses, SetStatusEffect DEF Reconcile
  <2>3. \A e \in Deployment : At(e, "idle")
    BY <1>l, <2>1 DEF BootIsOrdered
  <2>4. BootIsOrdered'
    <3>1. orphans' = ActiveRows'
      BY <1>l, <2>1, <2>2, Statuses DEF BootIsOrdered, ActiveRows
    <3>. QED  BY <1>l, <2>1, <2>3, <3>1 DEF BootIsOrdered, At
  <2>5. \A e \in Deployment : StampsAgree(e)'
    BY <1>l, <2>1, <2>2, <2>3, Statuses DEF StampsAgree, At
  <2>6. RowMatchesTask'
    BY <2>1, <2>3 DEF RowMatchesTask, NoTaskBehindAnOutcome, At
  <2>. QED  BY <2>4, <2>5, <2>6 DEF RowsAgree
<1>8. ASSUME NEW p \in Process, Crash(p) PROVE RowsAgree'
  <2>1. /\ proc'["server"] = "down" /\ proc'["web"] = "down" /\ row' = row
        /\ \A e \in Deployment : task'[e] = NoTask
    BY <1>r, <1>8 DEF Crash, HostOf, Process
  <2>. QED  BY <1>l, <2>1
            DEF RowsAgree, BootIsOrdered, StampsAgree, RowMatchesTask, NoTaskBehindAnOutcome,
                At, NoTask
<1>9. ASSUME BootServer PROVE RowsAgree'
  <2>1. /\ proc["server"] = "down" /\ proc'["server"] = "booting"
        /\ proc'["web"] = proc["web"]
        /\ row' = row /\ task' = task /\ orphans' = ActiveRows
    BY <1>r, <1>9 DEF BootServer, ActiveRows
  <2>. QED  BY <1>l, <2>1
            DEF RowsAgree, BootIsOrdered, StampsAgree, RowMatchesTask, NoTaskBehindAnOutcome,
                ActiveRows, At
<1>10. ASSUME Serve PROVE RowsAgree'
  <2>1. /\ proc["server"] = "booting" /\ proc'["server"] = "up" /\ orphans = {}
        /\ row' = row /\ task' = task
    BY <1>r, <1>10 DEF Serve
  <2>. QED  BY <1>l, <2>1
            DEF RowsAgree, BootIsOrdered, StampsAgree, RowMatchesTask, NoTaskBehindAnOutcome,
                ActiveRows, At
<1>11. ASSUME BootWeb PROVE RowsAgree'
  <2>1. /\ proc["server"] = "up" /\ proc'["server"] = "up"
        /\ row' = row /\ task' = task
    BY <1>r, <1>11 DEF BootWeb
  <2>. QED  BY <1>l, <2>1
            DEF RowsAgree, BootIsOrdered, StampsAgree, RowMatchesTask, NoTaskBehindAnOutcome, At
<1>12. ASSUME UNCHANGED vars PROVE RowsAgree'
  BY <1>l, <1>12
  DEF vars, procs, RowsAgree, BootIsOrdered, StampsAgree, RowMatchesTask,
      NoTaskBehindAnOutcome, ActiveRows, At
<1>. QED
  BY <1>1, <1>2, <1>3, <1>4, <1>5, <1>6, <1>7, <1>8, <1>9, <1>10, <1>11, <1>12, NextCases

\* Rows, tasks and processes of the all-in-one binary agree through every crash
\* and every boot.
THEOREM RowsInvariant ==
  ASSUME OneProcess
  PROVE  Spec => []RowsAgree
<1>1. TypeOK /\ TypeOK' /\ RowsAgree /\ [Next]_vars => RowsAgree'
  BY RowsNext
<1>. QED  BY <1>1, RowsInit, TypeInvariant, PTL DEF Spec

\* In the all-in-one binary no task works for a row that reports an outcome, and
\* no row is left active without a task while the server takes calls
\* (reconcile_interrupted_deployments).
THEOREM RowsHaveTheirTasks ==
  ASSUME OneProcess
  PROVE  Spec => []RowMatchesTask
<1>1. RowsAgree => RowMatchesTask
  BY DEF RowsAgree
<1>. QED  BY <1>1, RowsInvariant, PTL

-----------------------------------------------------------------------------
(* The life of a row.                                                      *)

phase == [d \in Deployment |-> IF row[d].status \in Active THEN "active" ELSE row[d].status]
asked == [d \in Deployment |-> row[d].cancel]

\* What happens to one row is what happens to the abstract state.
LEMMA PhaseChanges ==
  ASSUME NEW d \in Deployment, \A e \in Deployment \ {d} : row'[e] = row[e]
  PROVE  /\ phase' = [phase EXCEPT ![d] = IF row'[d].status \in Active THEN "active"
                                                                   ELSE row'[d].status]
         /\ asked' = [asked EXCEPT ![d] = row'[d].cancel]
         /\ phase[d] = IF row[d].status \in Active THEN "active" ELSE row[d].status
         /\ asked[d] = row[d].cancel
         /\ row'[d].status = row[d].status => phase' = phase
         /\ row'[d].cancel = row[d].cancel => asked' = asked
BY DEF phase, asked

LEMMA AcceptsHere ==
  ASSUME NEW d \in Deployment, \A e \in Deployment \ {d} : row'[e] = row[e],
         row[d].status = "none", row'[d].status \in Active,
         row'[d].cancel = FALSE, row[d].cancel = FALSE
  PROVE  Lifecycle!Accept(d)
<1>1. phase[d] = "none"
  BY Statuses DEF phase
<1>2. phase' = [phase EXCEPT ![d] = IF row'[d].status \in Active THEN "active" ELSE row'[d].status]
  BY PhaseChanges
<1>3. phase' = [phase EXCEPT ![d] = "active"]
  BY <1>2
<1>4. asked' = asked
  BY PhaseChanges
<1>. QED  BY <1>1, <1>3, <1>4, Zenon DEF Lifecycle!Accept, phase, asked

LEMMA AsksHere ==
  ASSUME NEW d \in Deployment, \A e \in Deployment \ {d} : row'[e] = row[e],
         row[d].status \in Active, row'[d].status = row[d].status, row'[d].cancel = TRUE
  PROVE  Lifecycle!Ask(d)
<1>1. phase[d] = "active"
  BY DEF phase
<1>2. phase' = phase
  BY PhaseChanges
<1>3. asked' = [asked EXCEPT ![d] = row'[d].cancel]
  BY PhaseChanges
<1>4. asked' = [asked EXCEPT ![d] = TRUE]
  BY <1>3
<1>. QED  BY <1>1, <1>2, <1>4, Zenon DEF Lifecycle!Ask, phase, asked

LEMMA EndsHere ==
  ASSUME NEW d \in Deployment, \A e \in Deployment \ {d} : row'[e] = row[e],
         NEW s \in Terminal, row[d].status \in Active, row'[d].status = s,
         row'[d].cancel = row[d].cancel, s = "cancelled" => row[d].cancel
  PROVE  Lifecycle!End(d, s)
<1>1. phase[d] = "active" /\ asked[d] = row[d].cancel
  BY DEF phase, asked
<1>2. s \notin Active
  BY Statuses
<1>3. phase' = [phase EXCEPT ![d] = IF row'[d].status \in Active THEN "active" ELSE row'[d].status]
  BY PhaseChanges
<1>4. asked' = asked
  BY PhaseChanges
<1>5. phase' = [phase EXCEPT ![d] = s]
  BY <1>2, <1>3
<1>6. s = "cancelled" => asked[d]
  BY <1>1
<1>. QED  BY <1>1, <1>4, <1>5, <1>6, Zenon DEF Lifecycle!End, phase, asked

LEMMA RowsStayHere ==
  ASSUME row' = row
  PROVE  phase' = phase /\ asked' = asked
BY DEF phase, asked

\* Each step, as a step of DeployLifecycle: an acceptance, an accepted cancel, an
\* end, or nothing.
Accepts(d) == Lifecycle!Accept(d)
Asks(d)    == Lifecycle!Ask(d)
Ends(d)    == \E outcome \in Lifecycle!Outcome : Lifecycle!End(d, outcome)

LEMMA LifecycleStep ==
  OneProcess /\ TypeOK /\ RowsAgree /\ [Next]_vars =>
    \/ \E d \in Deployment : Accepts(d) \/ Asks(d) \/ Ends(d)
    \/ UNCHANGED <<phase, asked>>
<1>. SUFFICES ASSUME OneProcess, TypeOK, RowsAgree, [Next]_vars
              PROVE  \/ \E d \in Deployment : Accepts(d) \/ Asks(d) \/ Ends(d)
                     \/ UNCHANGED <<phase, asked>>
  OBVIOUS
<1>r. row \in [Deployment -> Row] /\ task \in [Deployment -> Task]
  BY DEF TypeOK
<1>l. BootIsOrdered /\ (\A d \in Deployment : StampsAgree(d))
  BY DEF RowsAgree
<1>1. ASSUME NEW d \in Deployment, NEW tr \in Triggers, NEW skip \in BOOLEAN,
             NEW auto \in BOOLEAN, StartDeploy(d, tr, skip, auto)
      PROVE  Accepts(d)
  <2>1. /\ \A e \in Deployment \ {d} : row'[e] = row[e]
        /\ row[d].status = "none" /\ row'[d].status = "queued" /\ row'[d].cancel = FALSE
    BY <1>r, <1>1 DEF StartDeploy, NoRow
  <2>2. row[d].cancel = FALSE
    BY <1>r, <1>l, <2>1 DEF StampsAgree, Row
  <2>3. row'[d].status \in Active
    BY <2>1, Statuses
  <2>4. Lifecycle!Accept(d)
    BY <2>1, <2>2, <2>3, AcceptsHere
  <2>. QED  BY <2>4, Zenon DEF Accepts, phase, asked
<1>2. ASSUME NEW d \in Deployment, RollbackRead(d) PROVE UNCHANGED <<phase, asked>>
  BY <1>2, RowsStayHere DEF RollbackRead
<1>3. ASSUME NEW d \in Deployment, Cancel(d) PROVE Asks(d)
  <2>1. /\ \A e \in Deployment \ {d} : row'[e] = row[e]
        /\ row'[d].status = row[d].status /\ row'[d].cancel = TRUE
        /\ row[d].status # "none" /\ ~row[d].finished
    BY <1>r, <1>3 DEF Cancel, Row
  <2>2. row[d].status \in Active
    <3>1. row[d].status \in {"none"} \cup Active \cup Terminal
      BY <1>r DEF Row
    <3>2. row[d].status \notin Terminal
      BY <1>l, <2>1 DEF StampsAgree
    <3>. QED  BY <2>1, <3>1, <3>2
  <2>3. Lifecycle!Ask(d)
    BY <2>1, <2>2, AsksHere
  <2>. QED  BY <2>3, Zenon DEF Asks, phase, asked
<1>4. ASSUME NEW d \in Deployment, NEW req, RollbackResolve(d, req)
      PROVE  Accepts(d) \/ UNCHANGED <<phase, asked>>
  <2>1. row[d].status = "none" /\ ~row[d].cancel
    BY <1>l, <1>4 DEF RollbackResolve, StampsAgree
  <2>2. \/ row' = row
        \/ \E chosen : row' = [row EXCEPT ![d] = [NoRow EXCEPT !.status = "activating",
                                                              !.previous = task[d].goal,
                                                              !.release = chosen]]
    BY <1>4 DEF RollbackResolve
  <2>3. CASE \E chosen : row' = [row EXCEPT ![d] = [NoRow EXCEPT !.status = "activating",
                                                                !.previous = task[d].goal,
                                                                !.release = chosen]]
    <3>1. /\ \A e \in Deployment \ {d} : row'[e] = row[e]
          /\ row'[d].status = "activating" /\ row'[d].cancel = FALSE
      BY <1>r, <2>3 DEF NoRow
    <3>2. row[d].cancel = FALSE
      BY <1>r, <2>1 DEF Row
    <3>3. row'[d].status \in Active
      BY <3>1, Statuses
    <3>4. Lifecycle!Accept(d)
      BY <2>1, <3>1, <3>2, <3>3, AcceptsHere
    <3>. QED  BY <3>4, Zenon DEF Accepts, phase, asked
  <2>. QED  BY <2>2, <2>3, RowsStayHere
<1>5. ASSUME NEW d \in Deployment, WorkStep(d) PROVE UNCHANGED <<phase, asked>>
  <2>1. Works(d)
    BY <1>5, WorkEffect
  <2>2. row[d].status \in Active
    BY <2>1, WorksInServer DEF Works
  <2>. QED  BY <2>1, <2>2 DEF Works, phase, asked
<1>6. ASSUME NEW d \in Deployment, Finish(d) PROVE Ends(d)
  <2>. PICK s \in Terminal : s = Verdict[task[d].pc]
    BY <1>6, VerdictType DEF Finish
  <2>1. /\ task[d].pc \notin {"idle", "resolve"}
        /\ s = "cancelled" => task[d].pc = "endCancelled"
    BY <1>6, VerdictType DEF Finish, Verdict
  <2>2. /\ \A e \in Deployment \ {d} : row'[e] = row[e]
        /\ row'[d].status = s /\ row'[d].cancel = row[d].cancel
    BY <1>r, <1>6, SetStatusEffect DEF Finish
  <2>3. row[d].status \in Active /\ (s = "cancelled" => row[d].cancel)
    BY <1>l, <2>1, WorksInServer DEF StampsAgree, At
  <2>4. s \in Lifecycle!Outcome
    BY DEF Lifecycle!Outcome, Terminal
  <2>5. Lifecycle!End(d, s)
    BY <2>2, <2>3, EndsHere
  <2>. QED  BY <2>4, <2>5 DEF Ends
<1>7. ASSUME NEW d \in Deployment, Reconcile(d) PROVE Ends(d)
  <2>1. row[d].status \in Active
    BY <1>l, <1>7 DEF Reconcile, BootIsOrdered, ActiveRows
  <2>2. /\ \A e \in Deployment \ {d} : row'[e] = row[e]
        /\ row'[d].status = "failed" /\ row'[d].cancel = row[d].cancel
    BY <1>r, <1>7, SetStatusEffect DEF Reconcile
  <2>3. Lifecycle!End(d, "failed")
    BY <2>1, <2>2, EndsHere, Statuses
  <2>. QED  BY <2>3 DEF Ends, Lifecycle!Outcome
<1>8. ASSUME (\E p \in Process : Crash(p)) \/ BootServer \/ Serve \/ BootWeb \/ UNCHANGED vars
      PROVE  UNCHANGED <<phase, asked>>
  BY <1>8, RowsStayHere DEF Crash, BootServer, Serve, BootWeb, vars
<1>. QED
  BY <1>1, <1>2, <1>3, <1>4, <1>5, <1>6, <1>7, <1>8, NextCases

LEMMA LifecycleInit == Init => Lifecycle!Init
BY Statuses DEF Init, NoRow, Lifecycle!Init, Lifecycle!Phase

LEMMA LifecycleNext ==
  OneProcess /\ TypeOK /\ RowsAgree /\ [Next]_vars => [Lifecycle!Next]_<<phase, asked>>
BY LifecycleStep DEF Accepts, Asks, Ends, Lifecycle!Next

\* The row of every deployment of the all-in-one binary lives the abstract life:
\* accepted once, cancelled only on request, ended once, for good.
THEOREM ImplementsLifecycleAlways ==
  ASSUME OneProcess
  PROVE  Spec => ImplementsLifecycle
<1>1. TypeOK /\ RowsAgree /\ [Next]_vars => [Lifecycle!Next]_<<phase, asked>>
  BY LifecycleNext
<1>. QED
  BY <1>1, LifecycleInit, TypeInvariant, RowsInvariant, PTL
  DEF Spec, ImplementsLifecycle, Lifecycle!Spec, phase, asked

\* A reported outcome never changes, whatever fails, is cancelled or restarts.
THEOREM OutcomesAreFinal ==
  ASSUME OneProcess
  PROVE  Spec => OutcomeIsFinal
<1>1. TypeOK /\ RowsAgree /\ [Next]_vars =>
        [\A d \in Deployment :
           row[d].status \in Terminal => row'[d].status = row[d].status]_vars
  <2>. SUFFICES ASSUME TypeOK, RowsAgree, [Next]_vars, NEW d \in Deployment,
                       row[d].status \in Terminal
                PROVE  row'[d].status = row[d].status
    OBVIOUS
  <2>1. phase[d] = row[d].status
    BY Statuses DEF phase
  <2>2. phase[d] \notin {"none", "active"}
    BY <2>1 DEF Terminal
  <2>3. phase'[d] = phase[d]
    <3>1. CASE UNCHANGED <<phase, asked>>
      BY <3>1
    <3>2. ASSUME NEW e \in Deployment, Accepts(e) \/ Asks(e) \/ Ends(e)
          PROVE  phase'[d] = phase[d]
      BY <2>2, <3>2
      DEF Accepts, Asks, Ends, Lifecycle!Accept, Lifecycle!Ask, Lifecycle!End, phase
    <3>. QED  BY <3>1, <3>2, LifecycleStep
  <2>. QED  BY <2>1, <2>2, <2>3 DEF phase
<1>. QED  BY <1>1, TypeInvariant, RowsInvariant, PTL DEF Spec, OutcomeIsFinal

-----------------------------------------------------------------------------
(* A cancel before the swap.                                               *)

\* Where a deploy that was cancelled in time can still be.
CaughtInTime(d) ==
  /\ row[d].cancel /\ row[d].status # "none"
  /\ task[d].pc \in BeforeSwap \cup {"idle", "failed", "endCancelled"}

LEMMA CatchInTime ==
  ASSUME NEW d \in Deployment, ReleasesAgree, row[d].cancel, task[d].pc \in BeforeSwap
  PROVE  CaughtInTime(d)
BY DEF ReleasesAgree, TaskAgrees, Owned, CaughtInTime, BeforeSwap

LEMMA CaughtStays ==
  ASSUME NEW d \in Deployment, TypeOK, ReleasesAgree, CaughtInTime(d), [Next]_vars
  PROVE  CaughtInTime(d)'
<1>r. row \in [Deployment -> Row] /\ task \in [Deployment -> Task]
  BY DEF TypeOK
<1>c. /\ row[d].cancel /\ row[d].status # "none"
      /\ task[d].pc \in BeforeSwap \cup {"idle", "failed", "endCancelled"}
      /\ task[d].pc \in BeforeSwap => task[d].mode = "deploy"
  BY DEF CaughtInTime, ReleasesAgree, TaskAgrees, Owned
<1>2. ASSUME NEW e \in Deployment, NEW tr \in Triggers, NEW skip \in BOOLEAN,
             NEW auto \in BOOLEAN, StartDeploy(e, tr, skip, auto)
      PROVE  CaughtInTime(d)'
  BY <1>r, <1>c, <1>2 DEF StartDeploy, CaughtInTime
<1>3. ASSUME NEW e \in Deployment, RollbackRead(e) PROVE CaughtInTime(d)'
  BY <1>r, <1>c, <1>3 DEF RollbackRead, CaughtInTime
<1>4. ASSUME NEW e \in Deployment, Cancel(e) PROVE CaughtInTime(d)'
  BY <1>r, <1>c, <1>4 DEF Cancel, CaughtInTime, Row
<1>5. ASSUME NEW e \in Deployment, NEW req, RollbackResolve(e, req) PROVE CaughtInTime(d)'
  <2>1. e # d
    BY <1>c, <1>5 DEF RollbackResolve, At, BeforeSwap
  <2>2. row'[d] = row[d] /\ task'[d] = task[d]
    <3>1. CASE task' = [task EXCEPT ![e] = NoTask] /\ UNCHANGED row
      BY <1>r, <2>1, <3>1
    <3>2. CASE \E chosen :
                 /\ row' = [row EXCEPT ![e] =
                             [NoRow EXCEPT !.status = "activating",
                                           !.previous = task[e].goal, !.release = chosen]]
                 /\ task' = [task EXCEPT ![e].pc = "find", ![e].goal = chosen]
      BY <1>r, <2>1, <3>2
    <3>. QED  BY <1>5, <3>1, <3>2 DEF RollbackResolve
  <2>. QED  BY <2>2 DEF CaughtInTime
<1>6. ASSUME WorkStep(d) PROVE CaughtInTime(d)'
  <2>1. row'[d].cancel /\ row'[d].status # "none"
    BY <1>c, <1>6, WorkEffect, Statuses DEF Works
  <2>2. task'[d].pc \in BeforeSwap \cup {"failed", "endCancelled"}
    <3>1. CASE Begin(d) \/ Obtain(d) \/ Configure(d)
      BY <1>r, <1>c, <3>1, BailEffect
      DEF Begin, Obtain, Configure, CheckedGoto, At, BeforeSwap
    <3>2. CASE Upload(d) \/ Record(d)
      BY <1>r, <1>c, <3>2, BailEffect, GotoEffect DEF Upload, Record, At, BeforeSwap
    <3>3. CASE Fail(d)
      BY <1>r, <1>c, <3>3, GotoEffect DEF Fail, At
    <3>4. CASE \/ Stage(d) \/ Move(d) \/ Restage(d) \/ MoveInto(d) \/ Restart(d) \/ Gate(d)
               \/ Health(d) \/ Commit(d) \/ List(d) \/ Remove(d) \/ Mark(d) \/ FindRelease(d)
      BY <1>c, <3>4
      DEF Stage, Move, Restage, MoveInto, Restart, Gate, Health, Commit, List, Remove, Mark,
          FindRelease, At, BeforeSwap
    <3>. QED  BY <1>6, <3>1, <3>2, <3>3, <3>4 DEF WorkStep
  <2>. QED  BY <2>1, <2>2 DEF CaughtInTime
<1>7. ASSUME NEW e \in Deployment \ {d}, WorkStep(e) PROVE CaughtInTime(d)'
  BY <1>7, WorkEffect DEF Works, CaughtInTime
<1>8. ASSUME NEW e \in Deployment, Finish(e) PROVE CaughtInTime(d)'
  <2>1. Verdict[task[e].pc] # "none"
    BY <1>8, VerdictType, Statuses DEF Finish
  <2>. QED  BY <1>r, <1>c, <1>8, <2>1, SetStatusEffect DEF Finish, NoTask, CaughtInTime
<1>9. ASSUME NEW e \in Deployment, Reconcile(e) PROVE CaughtInTime(d)'
  BY <1>r, <1>c, <1>9, SetStatusEffect DEF Reconcile, CaughtInTime
<1>10. ASSUME NEW p \in Process, Crash(p) PROVE CaughtInTime(d)'
  BY <1>c, <1>10 DEF Crash, NoTask, CaughtInTime
<1>11. ASSUME BootServer \/ Serve \/ BootWeb \/ UNCHANGED vars PROVE CaughtInTime(d)'
  BY <1>c, <1>11 DEF BootServer, Serve, BootWeb, vars, CaughtInTime
<1>. QED
  BY <1>2, <1>3, <1>4, <1>5, <1>6, <1>7, <1>8, <1>9, <1>10, <1>11, NextCases

\* A deploy whose cancel is accepted before the last checkpoint ahead of the swap
\* never starts the swap, in any configuration (try_deploy's check_cancelled).
THEOREM CancelIsHonoured == Spec => CancelBeforeSwapIsHonoured
<1>. SUFFICES ASSUME NEW d \in Deployment
              PROVE  Spec => [](row[d].cancel /\ task[d].pc \in BeforeSwap =>
                                  [](task[d].mode = "deploy" => ~At(d, "stage")))
  BY DEF CancelBeforeSwapIsHonoured
<1>1. ReleasesAgree /\ row[d].cancel /\ task[d].pc \in BeforeSwap => CaughtInTime(d)
  BY CatchInTime
<1>2. TypeOK /\ ReleasesAgree /\ CaughtInTime(d) /\ [Next]_vars => CaughtInTime(d)'
  BY CaughtStays
<1>3. CaughtInTime(d) => (task[d].mode = "deploy" => ~At(d, "stage"))
  BY DEF CaughtInTime, At, BeforeSwap
<1>. QED
  BY <1>1, <1>2, <1>3, TypeInvariant, ReleasesInvariant, PTL DEF Spec

-----------------------------------------------------------------------------
(* One deployment at a time.                                               *)

LEMMA SerialInit == Init => SerialAgrees
<1>. SUFFICES ASSUME Init PROVE SerialAgrees
  OBVIOUS
<1>1. \A d \in Deployment : At(d, "idle")
  BY DEF Init, At, NoTask
<1>2. OneAtATime /\ \A d \in Deployment : SerialTask(d)
  BY <1>1 DEF OneAtATime, SerialTask
<1>3. current # NoRelease => current \in installed
  <2>1. Seeded # <<>> => Len(Seeded) \in DOMAIN Seeded
    BY ConstantsAssumption
  <2>2. Seeded # <<>> => Seeded[Len(Seeded)] \in SeededRelease
    BY <2>1 DEF SeededRelease
  <2>. QED  BY <2>2 DEF Init
<1>. QED  BY <1>2, <1>3 DEF Init, SerialAgrees, CurrentIsInstalled, LiveIsInstalled

\* A step of the only task, which says of itself what it should afterwards.
LEMMA SerialStep ==
  ASSUME NEW d \in Deployment, SerialAgrees,
         \A e \in Deployment \ {d} : At(e, "idle"),
         \A e \in Deployment \ {d} : task'[e] = task[e],
         SerialTask(d)', CurrentIsInstalled', LiveIsInstalled'
  PROVE  SerialAgrees'
<1>1. \A e \in Deployment \ {d} : At(e, "idle")'
  BY DEF At
<1>2. OneAtATime'
  BY <1>1 DEF OneAtATime
<1>3. \A e \in Deployment : SerialTask(e)'
  BY <1>1 DEF SerialTask
<1>. QED  BY <1>2, <1>3 DEF SerialAgrees

\* A step that leaves every task alone or ends it, and of the rows changes what is
\* no concern of theirs.
LEMMA OutsideStep ==
  ASSUME SerialAgrees, UNCHANGED <<current, installed, link, temp, running, vetted>>,
         \A d \in Deployment :
           /\ task'[d] = task[d] \/ At(d, "idle")'
           /\ row'[d].previous = row[d].previous /\ row'[d].release = row[d].release
  PROVE  SerialAgrees'
<1>1. \A d \in Deployment : ~At(d, "idle")' => task'[d] = task[d] /\ ~At(d, "idle")
  BY DEF At
<1>2. OneAtATime'
  BY <1>1 DEF SerialAgrees, OneAtATime
<1>3. ASSUME NEW d \in Deployment PROVE SerialTask(d)'
  BY <1>1 DEF SerialAgrees, SerialTask, PathAgrees, GoalAgrees, TargetAgrees, At
<1>4. CurrentIsInstalled' /\ LiveIsInstalled'
  BY DEF SerialAgrees, CurrentIsInstalled, LiveIsInstalled
<1>. QED  BY <1>2, <1>3, <1>4 DEF SerialAgrees

\* The locals of a task that a step to another pc leaves alone.
Locals(d) == <<task[d].trigger, task[d].mode, task[d].goal, task[d].skip, task[d].doomed>>
Names(d)  == <<row[d].previous, row[d].release>>

LEMMA GotoLocals ==
  ASSUME NEW d \in Deployment, NEW pc, task \in [Deployment -> Task], Goto(d, pc)
  PROVE  task'[d].pc = pc /\ UNCHANGED Locals(d)
BY DEF Goto, Task, Locals

LEMMA BailLocals ==
  ASSUME NEW d \in Deployment, task \in [Deployment -> Task], Bail(d)
  PROVE  /\ task'[d].pc = (IF task[d].mode = "deploy" THEN "failed" ELSE "endFailed")
         /\ UNCHANGED Locals(d)
BY GotoLocals DEF Bail

LEMMA CheckedLocals ==
  ASSUME NEW d \in Deployment, NEW pc, NEW s,
         task \in [Deployment -> Task], row \in [Deployment -> Row], CheckedGoto(d, pc, s)
  PROVE  /\ \/ task'[d].pc = pc
            \/ task'[d].pc = (IF task[d].mode = "deploy" THEN "failed" ELSE "endFailed")
         /\ UNCHANGED Locals(d) /\ UNCHANGED Names(d)
<1>1. CASE row[d].cancel
  BY <1>1, BailLocals DEF CheckedGoto, Names
<1>2. CASE ~row[d].cancel
  BY <1>2, GotoLocals DEF CheckedGoto, SetStatus, Names, Row
<1>. QED  BY <1>1, <1>2

\* An error before the commit: the target is as it is, and current is still the
\* previous release.
LEMMA BailedTask ==
  ASSUME NEW d \in Deployment, SerialTask(d), ~At(d, "idle"), ~At(d, "resolve"),
         task[d].pc \notin Committed,
         task'[d].pc = (IF task[d].mode = "deploy" THEN "failed" ELSE "endFailed"),
         UNCHANGED Locals(d), UNCHANGED Names(d), UNCHANGED current
  PROVE  SerialTask(d)'
<1>1. PathAgrees(d)'
  BY DEF SerialTask, PathAgrees, At, BeforeSwap, Locals
<1>2. GoalAgrees(d)'
  BY DEF SerialTask, GoalAgrees, At, Locals, Names, Committed, Present, Restarted
<1>3. TargetAgrees(d)'
  BY DEF SerialTask, TargetAgrees, At, Locals, Committed, Present, Restarted
<1>. QED  BY <1>1, <1>2, <1>3 DEF SerialTask

\* Nothing but a commit and a swap touches what is current and what is live, and
\* nothing but a sweep what is installed.
LEMMA LiveStaysInstalled ==
  ASSUME SerialAgrees, UNCHANGED <<current, link>>, installed \subseteq installed'
  PROVE  CurrentIsInstalled' /\ LiveIsInstalled'
BY DEF SerialAgrees, CurrentIsInstalled, LiveIsInstalled

\* From the request to the release row and the files around it.
LEMMA PreparingKeeps ==
  ASSUME NEW d \in Deployment, TypeOK, SerialAgrees,
         Begin(d) \/ Obtain(d) \/ Upload(d) \/ Record(d) \/ Configure(d)
  PROVE  SerialTask(d)' /\ CurrentIsInstalled' /\ LiveIsInstalled'
<1>r. row \in [Deployment -> Row] /\ task \in [Deployment -> Task]
  BY DEF TypeOK
<1>p. task[d].pc \in BeforeSwap
  BY DEF Begin, Obtain, Upload, Record, Configure, At, BeforeSwap
<1>s. SerialTask(d) /\ ~At(d, "idle") /\ ~At(d, "resolve") /\ task[d].pc \notin Committed
  BY <1>p DEF SerialAgrees, At, BeforeSwap, Committed
<1>d. /\ PathAgrees(d) /\ GoalAgrees(d) /\ TargetAgrees(d)
      /\ task[d].mode = "deploy" /\ task[d].goal = d
      /\ row[d].previous = current /\ task[d].trigger # "rollback"
      /\ task[d].pc \in {"record", "configure"} => d \in installed
      /\ At(d, "configure") => row[d].release = d
  BY <1>p, <1>s DEF SerialTask, PathAgrees, GoalAgrees, TargetAgrees, Present, At
<1>u. /\ UNCHANGED <<current, link, temp, running, vetted>>
      /\ installed \subseteq installed'
  BY DEF Begin, Obtain, Upload, Record, Configure, db, target
<1>1. CurrentIsInstalled' /\ LiveIsInstalled'
  BY <1>u, LiveStaysInstalled
<1>. SUFFICES SerialTask(d)'
  BY <1>1
\* Where such a step leads when it does not fail.
<1>2. ASSUME task'[d].pc \in {"obtain", "upload", "record", "configure", "stage"},
             task'[d].pc \in {"record", "configure", "stage"} => d \in installed',
             task'[d].pc \in {"configure", "stage"} => row'[d].release = d,
             row'[d].previous = row[d].previous, UNCHANGED Locals(d)
      PROVE  SerialTask(d)'
  <2>1. PathAgrees(d)'
    BY <1>d, <1>2 DEF PathAgrees, At, Locals, BeforeSwap
  <2>2. GoalAgrees(d)'
    BY <1>d, <1>u, <1>2 DEF GoalAgrees, At, Locals, Present, Restarted, Committed
  <2>3. TargetAgrees(d)'
    BY <1>d, <1>2 DEF TargetAgrees, At, Locals, Present, Restarted, Committed
  <2>. QED  BY <2>1, <2>2, <2>3 DEF SerialTask
\* And when it fails.
<1>3. ASSUME task'[d].pc = (IF task[d].mode = "deploy" THEN "failed" ELSE "endFailed"),
             row'[d].previous = row[d].previous, UNCHANGED Locals(d)
      PROVE  SerialTask(d)'
  <2>1. PathAgrees(d)'
    BY <1>d, <1>3 DEF PathAgrees, At, Locals, BeforeSwap
  <2>2. GoalAgrees(d)'
    BY <1>d, <1>u, <1>3 DEF GoalAgrees, At, Locals, Present, Restarted, Committed
  <2>3. TargetAgrees(d)'
    BY <1>d, <1>3 DEF TargetAgrees, At, Locals, Present, Restarted, Committed
  <2>. QED  BY <2>1, <2>2, <2>3 DEF SerialTask
<1>4. CASE Begin(d)
  BY <1>r, <1>2, <1>3, <1>4, CheckedLocals DEF Begin, Names
<1>5. CASE Obtain(d)
  <2>1. CASE Bail(d) /\ UNCHANGED row
    BY <1>r, <1>3, <2>1, BailLocals
  <2>2. CASE CheckedGoto(d, "upload", "uploading")
    BY <1>r, <1>2, <1>3, <2>2, CheckedLocals DEF Names
  <2>. QED  BY <1>5, <2>1, <2>2 DEF Obtain
<1>6. CASE Upload(d)
  <2>1. CASE Goto(d, "record") /\ installed' = installed \cup {d}
    BY <1>r, <1>2, <1>6, <2>1, GotoLocals DEF Upload
  <2>2. CASE Bail(d)
    BY <1>r, <1>3, <1>6, <2>2, BailLocals DEF Upload
  <2>. QED  BY <1>6, <2>1, <2>2 DEF Upload
<1>7. CASE Record(d)
  <2>1. /\ row'[d].release = d /\ row'[d].previous = row[d].previous
        /\ d \in installed'
    BY <1>r, <1>d, <1>u, <1>7 DEF Record, Row, At
  <2>2. CASE Goto(d, "configure")
    BY <1>r, <1>2, <2>1, <2>2, GotoLocals
  <2>3. CASE Bail(d)
    BY <1>r, <1>3, <2>1, <2>3, BailLocals
  <2>. QED  BY <1>7, <2>2, <2>3 DEF Record
<1>8. CASE Configure(d)
  <2>1. d \in installed' /\ row[d].release = d
    BY <1>d, <1>u, <1>8 DEF Configure, At
  <2>2. CASE Bail(d) /\ UNCHANGED row
    BY <1>r, <1>3, <2>2, BailLocals
  <2>3. CASE CheckedGoto(d, "stage", "activating")
    BY <1>r, <1>2, <1>3, <2>1, <2>3, CheckedLocals DEF Names
  <2>. QED  BY <1>8, <2>2, <2>3 DEF Configure
<1>. QED  BY <1>4, <1>5, <1>6, <1>7, <1>8

\* The swap, the restart and the check: the link, then the unit, follow the goal.
LEMMA SwappingKeeps ==
  ASSUME NEW d \in Deployment, HasMvT, TypeOK, SerialAgrees,
         \/ Stage(d) \/ Move(d) \/ Restage(d) \/ MoveInto(d) \/ Restart(d)
         \/ Gate(d) \/ Health(d) \/ FindRelease(d)
  PROVE  SerialTask(d)' /\ CurrentIsInstalled' /\ LiveIsInstalled'
<1>r. /\ row \in [Deployment -> Row] /\ task \in [Deployment -> Task]
      /\ NoRelease \notin installed
  BY ConstantsAssumption DEF TypeOK
<1>p. task[d].pc \in {"stage", "move", "restage", "moveInto", "restart", "gate", "health",
                      "find"}
  BY DEF Stage, Move, Restage, MoveInto, Restart, Gate, Health, FindRelease, At
<1>s. SerialTask(d) /\ ~At(d, "idle") /\ ~At(d, "resolve") /\ task[d].pc \notin Committed
  BY <1>p DEF SerialAgrees, At, Committed
<1>d. PathAgrees(d) /\ GoalAgrees(d) /\ TargetAgrees(d) /\ row[d].previous = current
  BY <1>p, <1>s DEF SerialTask, GoalAgrees, At
<1>m. ~Restage(d) /\ ~MoveInto(d)
  BY <1>d DEF PathAgrees, Restage, MoveInto, At
<1>u. UNCHANGED <<current, installed>>
  BY DEF Stage, Move, Restage, MoveInto, Restart, Gate, Health, FindRelease, db, target
<1>l. CurrentIsInstalled' /\ LiveIsInstalled'
  <2>1. CASE Move(d)
    <3>1. temp = task[d].goal /\ temp \in installed
      BY <1>d, <2>1 DEF Move, At, TargetAgrees, Present
    <3>2. link' = temp
      BY <1>r, <2>1, <3>1 DEF Move
    <3>. QED
      BY <1>u, <3>1, <3>2 DEF SerialAgrees, CurrentIsInstalled, LiveIsInstalled
  <2>2. CASE ~Move(d)
    <3>1. UNCHANGED link
      BY <1>m, <2>2 DEF Stage, Restart, Gate, Health, FindRelease, target
    <3>. QED  BY <1>u, <3>1, LiveStaysInstalled
  <2>. QED  BY <2>1, <2>2
<1>. SUFFICES SerialTask(d)'
  BY <1>l
<1>b. ASSUME task'[d].pc = (IF task[d].mode = "deploy" THEN "failed" ELSE "endFailed"),
             UNCHANGED Locals(d), UNCHANGED Names(d)
      PROVE  SerialTask(d)'
  BY <1>s, <1>u, <1>b, BailedTask
\* Where such a step leads when it does not fail.
<1>g. ASSUME task'[d].pc \in {"stage", "move", "restart", "gate", "health", "commit"},
             UNCHANGED Locals(d), UNCHANGED Names(d),
             task'[d].pc \in {"gate", "health"} => task[d].mode = "deploy",
             task[d].pc = "find" \/ task[d].pc \in Present, task[d].goal \in installed,
             task'[d].pc = "move" => temp' = task[d].goal,
             task'[d].pc \in {"restart", "gate", "health", "commit"} => link' = task[d].goal,
             task'[d].pc \in {"gate", "health", "commit"} => running' = task[d].goal,
             task'[d].pc = "commit" /\ task[d].mode = "deploy" /\ ~task[d].skip
               => d \in vetted'
      PROVE  SerialTask(d)'
  <2>1. PathAgrees(d)'
    BY <1>d, <1>g DEF PathAgrees, At, Locals, BeforeSwap
  <2>2. task[d].mode = "deploy" => task[d].pc \in Present \ {"record"}
    BY <1>d, <1>p, <1>g DEF PathAgrees
  <2>3. GoalAgrees(d)'
    BY <1>d, <1>u, <1>s, <1>g, <2>2 DEF GoalAgrees, At, Locals, Names, Committed
  <2>4. TargetAgrees(d)'
    BY <1>u, <1>g DEF TargetAgrees, At, Locals, Present, Restarted, Committed
  <2>. QED  BY <2>1, <2>3, <2>4 DEF SerialTask
<1>1. CASE Stage(d)
  <2>2. task[d].pc \in Present /\ task[d].goal \in installed /\ UNCHANGED Names(d)
    BY <1>1, <1>d DEF Stage, At, Present, TargetAgrees, Names
  <2>3. CASE Goto(d, "move") /\ temp' = task[d].goal
    BY <1>r, <1>g, <2>2, <2>3, GotoLocals
  <2>4. CASE Bail(d)
    BY <1>r, <1>b, <2>2, <2>4, BailLocals
  <2>. QED  BY <1>1, <2>3, <2>4 DEF Stage
<1>2. CASE Move(d)
  <2>1. /\ task[d].pc \in Present /\ task[d].goal \in installed /\ temp = task[d].goal
        /\ UNCHANGED Names(d)
    BY <1>2, <1>d DEF Move, At, Present, TargetAgrees, Names
  <2>2. link' = task[d].goal /\ (Goto(d, "restart") \/ Bail(d))
    BY <1>2, <1>r, <2>1 DEF Move
  <2>4. CASE Goto(d, "restart")
    BY <1>r, <1>g, <2>1, <2>2, <2>4, GotoLocals
  <2>5. CASE Bail(d)
    BY <1>r, <1>b, <2>1, <2>5, BailLocals
  <2>. QED  BY <2>2, <2>4, <2>5
<1>3. CASE Restart(d)
  <2>2. /\ task[d].pc \in Present /\ task[d].goal \in installed /\ link = task[d].goal
        /\ UNCHANGED Names(d) /\ UNCHANGED link
    BY <1>3, <1>d DEF Restart, At, Present, TargetAgrees, Names
  <2>3. \/ /\ running' = task[d].goal
           /\ Goto(d, IF task[d].mode = "deploy" THEN "gate" ELSE "commit")
        \/ Bail(d)
    BY <1>3, <2>2 DEF Restart
  <2>4. CASE Bail(d)
    BY <1>r, <1>b, <2>2, <2>4, BailLocals
  <2>5. CASE Goto(d, IF task[d].mode = "deploy" THEN "gate" ELSE "commit")
             /\ running' = task[d].goal
    <3>1. CASE task[d].mode = "deploy"
      BY <1>r, <1>g, <2>2, <2>5, <3>1, GotoLocals
    <3>2. CASE task[d].mode # "deploy"
      BY <1>r, <1>g, <2>2, <2>5, <3>2, GotoLocals
    <3>. QED  BY <3>1, <3>2
  <2>. QED  BY <2>3, <2>4, <2>5
<1>4. CASE Gate(d)
  <2>2. /\ task[d].pc \in Present /\ task[d].goal \in installed /\ link' = task[d].goal
        /\ running' = task[d].goal /\ task[d].mode = "deploy"
    BY <1>4, <1>d
    DEF Gate, At, Present, Restarted, TargetAgrees, PathAgrees, target
  <2>3. CASE task[d].skip /\ Goto(d, "commit") /\ UNCHANGED row
    BY <1>r, <1>g, <2>2, <2>3, GotoLocals DEF Names
  <2>4. CASE CheckedGoto(d, "health", "health_checking")
    BY <1>r, <1>b, <1>g, <2>2, <2>4, CheckedLocals
  <2>. QED  BY <1>4, <2>3, <2>4 DEF Gate
<1>5. CASE Health(d)
  <2>2. /\ task[d].pc \in Present /\ task[d].goal \in installed /\ link' = task[d].goal
        /\ running = task[d].goal /\ task[d].mode = "deploy" /\ task[d].goal = d
        /\ UNCHANGED running /\ UNCHANGED Names(d)
    BY <1>5, <1>d
    DEF Health, At, Present, Restarted, TargetAgrees, PathAgrees, GoalAgrees, Names
  <2>3. CASE vetted' = vetted \cup {running} /\ Goto(d, "commit")
    BY <1>r, <1>g, <2>2, <2>3, GotoLocals
  <2>4. CASE Bail(d)
    BY <1>r, <1>b, <2>2, <2>4, BailLocals
  <2>. QED  BY <1>5, <2>3, <2>4 DEF Health
<1>6. CASE FindRelease(d)
  <2>1. UNCHANGED Names(d)
    BY <1>6 DEF FindRelease, Names
  <2>2. CASE task[d].goal \in installed /\ Goto(d, "stage")
    BY <1>6, <1>r, <1>g, <2>1, <2>2, GotoLocals DEF FindRelease, At
  <2>3. CASE Bail(d)
    BY <1>r, <1>b, <2>1, <2>3, BailLocals
  <2>. QED  BY <1>6, <2>2, <2>3 DEF FindRelease
<1>. QED  BY <1>m, <1>1, <1>2, <1>3, <1>4, <1>5, <1>6

\* The commit and the sweep, which never takes the release just committed.
LEMMA CommittingKeeps ==
  ASSUME NEW d \in Deployment, TypeOK, SerialAgrees,
         Commit(d) \/ List(d) \/ Remove(d) \/ Mark(d)
  PROVE  SerialTask(d)' /\ CurrentIsInstalled' /\ LiveIsInstalled'
<1>r. row \in [Deployment -> Row] /\ task \in [Deployment -> Task]
  BY DEF TypeOK
<1>p. task[d].pc \in {"commit", "list", "remove", "mark"}
  BY DEF Commit, List, Remove, Mark, At
<1>s. SerialTask(d) /\ ~At(d, "idle") /\ ~At(d, "resolve")
  BY <1>p DEF SerialAgrees, At
<1>d. PathAgrees(d) /\ GoalAgrees(d) /\ TargetAgrees(d)
  BY <1>s DEF SerialTask
<1>g. /\ task[d].goal \in installed /\ link = task[d].goal /\ running = task[d].goal
      /\ ~Commit(d) => task[d].mode = "deploy" /\ current = task[d].goal
      /\ task[d].mode = "deploy" => task[d].goal = d /\ row[d].release = d
      /\ task[d].mode = "deploy" /\ ~task[d].skip => d \in vetted
  BY <1>p, <1>d
  DEF PathAgrees, GoalAgrees, TargetAgrees, Present, Restarted, Committed, List, Remove, Mark,
      At
<1>u. UNCHANGED <<link, running, vetted>> /\ UNCHANGED row
  BY DEF Commit, List, Remove, Mark, target
<1>c. current' = task[d].goal
  BY <1>g DEF Commit, List, Remove, Mark, db
\* What is left to show: where the step leads, and that the goal is still there.
<1>e. ASSUME task'[d].pc \in Committed,
             task[d].goal \in installed',
             /\ task'[d].trigger = task[d].trigger /\ task'[d].mode = task[d].mode
             /\ task'[d].goal = task[d].goal /\ task'[d].skip = task[d].skip,
             task'[d].pc \in {"remove", "mark"} => task[d].goal \notin task'[d].doomed,
             task'[d].pc \in {"list", "remove", "mark"} => task[d].mode = "deploy",
             task'[d].pc = "endSucceeded" /\ task[d].mode = "revert"
               => task[d].trigger = "rollback",
             task'[d].pc = "endRolledBack"
               => task[d].mode = "revert" /\ task[d].trigger # "rollback"
      PROVE  SerialTask(d)' /\ CurrentIsInstalled' /\ LiveIsInstalled'
  <2>1. CurrentIsInstalled' /\ LiveIsInstalled'
    BY <1>g, <1>u, <1>c, <1>e DEF CurrentIsInstalled, LiveIsInstalled
  <2>2. PathAgrees(d)'
    BY <1>d, <1>e DEF PathAgrees, At, BeforeSwap, Committed
  <2>3. GoalAgrees(d)'
    BY <1>d, <1>s, <1>g, <1>u, <1>c, <1>e DEF GoalAgrees, At, Committed
  <2>4. TargetAgrees(d)'
    BY <1>g, <1>u, <1>e DEF TargetAgrees, At, Committed
  <2>. QED  BY <2>1, <2>2, <2>3, <2>4 DEF SerialTask
<1>1. CASE Commit(d)
  <2>1. installed' = installed
    BY <1>1 DEF Commit, target
  <2>. DEFINE end == IF task[d].mode = "deploy" THEN "list"
                     ELSE IF task[d].trigger = "rollback" THEN "endSucceeded"
                     ELSE "endRolledBack"
  <2>2. Goto(d, end)
    BY <1>1 DEF Commit
  <2>3. task'[d].pc = end /\ UNCHANGED Locals(d)
    BY <1>r, <2>2, GotoLocals
  <2>4. end \in Committed /\ end \notin {"remove", "mark"}
    BY DEF Committed
  <2>5. task[d].mode \in {"deploy", "revert"}
    BY <1>r DEF Task
  <2>. QED  BY <1>e, <1>g, <2>1, <2>3, <2>4, <2>5 DEF Locals
<1>2. CASE List(d)
  <2>. DEFINE doomed == Prunable(Listed, rank, Keep, d)
              pc == IF doomed = {} THEN "endSucceeded" ELSE "remove"
  <2>1. /\ task' = [task EXCEPT ![d].doomed = doomed, ![d].pc = pc]
        /\ installed' = installed /\ task[d].mode = "deploy"
    BY <1>2, <1>g DEF List, target, Commit, At
  <2>2. pc \in {"endSucceeded", "remove"} /\ d \notin doomed
    BY DEF Prunable
  <2>. HIDE DEF doomed, pc
  <2>3. /\ task'[d].pc = pc /\ task'[d].doomed = doomed
        /\ task'[d].trigger = task[d].trigger /\ task'[d].mode = task[d].mode
        /\ task'[d].goal = task[d].goal /\ task'[d].skip = task[d].skip
    BY <1>r, <2>1 DEF Task
  <2>. QED  BY <1>e, <1>g, <2>1, <2>2, <2>3 DEF Committed
<1>3. CASE Remove(d)
  <2>1. PICK r \in task[d].doomed :
          \/ installed' = installed \ {r} /\ Goto(d, "mark")
          \/ installed' \in {installed, installed \ {r}} /\ Goto(d, "endSucceeded")
    BY <1>3, NewestListed DEF Remove
  <2>2. task[d].goal \notin task[d].doomed /\ task[d].mode = "deploy"
    BY <1>3, <1>d, <1>g DEF Remove, Commit, At, TargetAgrees
  <2>3. task[d].goal \in installed'
    BY <1>g, <2>1, <2>2
  <2>4. task'[d].pc \in {"mark", "endSucceeded"} /\ UNCHANGED Locals(d)
    BY <1>r, <2>1, GotoLocals
  <2>. QED  BY <1>e, <2>2, <2>3, <2>4 DEF Locals, Committed
<1>4. CASE Mark(d)
  <2>1. PICK r \in Newest(task[d].doomed, rank) :
          task' = [task EXCEPT ![d].doomed = @ \ {r},
                               ![d].pc = IF task[d].doomed = {r} THEN "endSucceeded"
                                                                 ELSE "remove"]
    BY <1>4 DEF Mark
  <2>. DEFINE doomed == task[d].doomed \ {r}
              pc == IF task[d].doomed = {r} THEN "endSucceeded" ELSE "remove"
  <2>2. task' = [task EXCEPT ![d].doomed = doomed, ![d].pc = pc]
    BY <2>1
  <2>3. pc \in {"endSucceeded", "remove"}
    OBVIOUS
  <2>4. task[d].goal \notin doomed /\ task[d].mode = "deploy" /\ installed' = installed
    BY <1>4, <1>d, <1>g DEF Mark, Commit, At, TargetAgrees, target
  <2>. HIDE DEF doomed, pc
  <2>5. /\ task'[d].pc = pc /\ task'[d].doomed = doomed
        /\ task'[d].trigger = task[d].trigger /\ task'[d].mode = task[d].mode
        /\ task'[d].goal = task[d].goal /\ task'[d].skip = task[d].skip
    BY <1>r, <2>2 DEF Task
  <2>. QED  BY <1>e, <1>g, <2>3, <2>4, <2>5 DEF Committed
<1>. QED  BY <1>1, <1>2, <1>3, <1>4

\* The error arm, and the start of an automatic rollback.
LEMMA FailingKeeps ==
  ASSUME NEW d \in Deployment, TypeOK, SerialAgrees, Fail(d)
  PROVE  SerialTask(d)' /\ CurrentIsInstalled' /\ LiveIsInstalled'
<1>r. row \in [Deployment -> Row] /\ task \in [Deployment -> Task]
  BY DEF TypeOK
<1>s. SerialTask(d) /\ task[d].pc = "failed"
  BY DEF SerialAgrees, At, Fail
<1>d. /\ PathAgrees(d) /\ task[d].mode = "deploy" /\ task[d].goal = d
      /\ task[d].trigger # "rollback" /\ row[d].previous = current
  BY <1>s DEF SerialTask, PathAgrees, GoalAgrees, At, Committed
<1>u. UNCHANGED <<current, link, installed>> /\ UNCHANGED row
  BY DEF Fail, db, target
<1>. SUFFICES SerialTask(d)'
  BY <1>u, LiveStaysInstalled
<1>1. CASE Goto(d, "endCancelled") \/ Goto(d, "endFailed")
  <2>1. task'[d].pc \in {"endCancelled", "endFailed"} /\ UNCHANGED Locals(d)
    BY <1>r, <1>1, GotoLocals
  <2>. QED
    BY <1>d, <1>u, <2>1
    DEF SerialTask, PathAgrees, GoalAgrees, TargetAgrees, At, Locals, BeforeSwap, Committed,
        Restarted, Present
<1>2. CASE task' = [task EXCEPT ![d].pc = "find", ![d].mode = "revert",
                                ![d].goal = row[d].previous]
  <2>1. /\ task'[d].pc = "find" /\ task'[d].mode = "revert"
        /\ task'[d].goal = row[d].previous /\ task'[d].trigger = task[d].trigger
    BY <1>r, <1>2 DEF Task
  <2>. QED
    BY <1>d, <1>u, <2>1
    DEF SerialTask, PathAgrees, GoalAgrees, TargetAgrees, At, BeforeSwap, Committed,
        Restarted, Present
<1>. QED  BY <1>1, <1>2 DEF Fail

\* The calls that start a task, and the resolution of a rollback.
LEMMA StartingKeeps ==
  ASSUME NEW d \in Deployment, TypeOK, SerialAgrees,
         \/ \E tr \in Triggers, skip, auto \in BOOLEAN : StartDeploy(d, tr, skip, auto)
         \/ RollbackRead(d)
         \/ \E req : RollbackResolve(d, req)
  PROVE  SerialTask(d)' /\ CurrentIsInstalled' /\ LiveIsInstalled'
<1>r. row \in [Deployment -> Row] /\ task \in [Deployment -> Task]
  BY DEF TypeOK
<1>. SUFFICES SerialTask(d)'
  BY LiveStaysInstalled DEF StartDeploy, RollbackRead, RollbackResolve, db, target
<1>1. ASSUME NEW tr \in Triggers, NEW skip \in BOOLEAN, NEW auto \in BOOLEAN,
             StartDeploy(d, tr, skip, auto)
      PROVE  SerialTask(d)'
  <2>1. /\ task'[d].pc = "begin" /\ task'[d].mode = "deploy" /\ task'[d].goal = d
        /\ task'[d].trigger # "rollback"
        /\ row'[d].previous = current /\ current' = current
    BY <1>r, <1>1 DEF StartDeploy, NoTask, NoRow, db
  <2>. QED
    BY <2>1
    DEF SerialTask, PathAgrees, GoalAgrees, TargetAgrees, At, Committed, Restarted, Present
<1>2. CASE RollbackRead(d)
  <2>1. /\ task'[d].pc = "resolve" /\ task'[d].mode = "revert" /\ task'[d].goal = current
        /\ task'[d].trigger = "rollback" /\ current' = current
    BY <1>r, <1>2 DEF RollbackRead, NoTask, db
  <2>. QED
    BY <2>1
    DEF SerialTask, PathAgrees, GoalAgrees, TargetAgrees, At, BeforeSwap, Committed,
        Restarted, Present
<1>3. ASSUME NEW req, RollbackResolve(d, req) PROVE SerialTask(d)'
  <2>1. /\ At(d, "resolve") /\ ~At(d, "idle") /\ current' = current
    BY <1>3 DEF RollbackResolve, At, db
  <2>2. task[d].mode = "revert" /\ task[d].goal = current
    BY <2>1 DEF SerialAgrees, SerialTask, PathAgrees, GoalAgrees, At
  <2>3. CASE task' = [task EXCEPT ![d] = NoTask]
    BY <1>r, <2>3 DEF NoTask, SerialTask, At
  <2>4. ASSUME NEW chosen,
               row' = [row EXCEPT ![d] = [NoRow EXCEPT !.status = "activating",
                                                       !.previous = task[d].goal,
                                                       !.release = chosen]],
               task' = [task EXCEPT ![d].pc = "find", ![d].goal = chosen]
        PROVE  SerialTask(d)'
    <3>1. /\ task'[d].pc = "find" /\ task'[d].goal = chosen /\ task'[d].mode = "revert"
          /\ task'[d].trigger = task[d].trigger
          /\ row'[d].previous = current /\ row'[d].release = chosen
      BY <1>r, <2>2, <2>4 DEF Task, NoRow
    <3>2. task[d].trigger = "rollback"
      BY <2>1 DEF SerialAgrees, SerialTask, PathAgrees, At
    <3>. QED
      BY <2>1, <3>1, <3>2
      DEF SerialTask, PathAgrees, GoalAgrees, TargetAgrees, At, BeforeSwap, Committed,
          Restarted, Present
  <2>5. \/ task' = [task EXCEPT ![d] = NoTask]
        \/ \E chosen :
             /\ row' = [row EXCEPT ![d] = [NoRow EXCEPT !.status = "activating",
                                                       !.previous = task[d].goal,
                                                       !.release = chosen]]
             /\ task' = [task EXCEPT ![d].pc = "find", ![d].goal = chosen]
    BY <1>3 DEF RollbackResolve
  <2>. QED  BY <2>3, <2>4, <2>5
<1>. QED  BY <1>1, <1>2, <1>3

LEMMA SerialNext ==
  ASSUME ~Overlap, HasMvT, TypeOK, SerialAgrees, [Next]_vars
  PROVE  SerialAgrees'
<1>r. row \in [Deployment -> Row] /\ task \in [Deployment -> Task]
  BY DEF TypeOK
<1>alone. ASSUME NEW d \in Deployment, ~At(d, "idle")
          PROVE  \A e \in Deployment \ {d} : At(e, "idle")
  BY <1>alone DEF SerialAgrees, OneAtATime
<1>1. ASSUME NEW d \in Deployment, NEW tr \in Triggers, NEW skip \in BOOLEAN,
             NEW auto \in BOOLEAN, StartDeploy(d, tr, skip, auto)
      PROVE  SerialAgrees'
  <2>1. /\ \A e \in Deployment \ {d} : At(e, "idle")
        /\ \A e \in Deployment \ {d} : task'[e] = task[e]
    BY <1>r, <1>1 DEF StartDeploy, MayStart
  <2>. QED  BY <1>1, <2>1, StartingKeeps, SerialStep
<1>2. ASSUME NEW d \in Deployment, RollbackRead(d) PROVE SerialAgrees'
  <2>1. /\ \A e \in Deployment \ {d} : At(e, "idle")
        /\ \A e \in Deployment \ {d} : task'[e] = task[e]
    BY <1>r, <1>2 DEF RollbackRead, MayStart
  <2>. QED  BY <1>2, <2>1, StartingKeeps, SerialStep
<1>3. ASSUME NEW d \in Deployment, NEW req, RollbackResolve(d, req) PROVE SerialAgrees'
  <2>1. \A e \in Deployment \ {d} : At(e, "idle")
    BY <1>3, <1>alone DEF RollbackResolve, At
  <2>2. \A e \in Deployment \ {d} : task'[e] = task[e]
    <3>1. CASE task' = [task EXCEPT ![d] = NoTask]
      BY <1>r, <3>1
    <3>2. CASE \E chosen : task' = [task EXCEPT ![d].pc = "find", ![d].goal = chosen]
      BY <1>r, <3>2
    <3>. QED  BY <1>3, <3>1, <3>2 DEF RollbackResolve
  <2>. QED  BY <1>3, <2>1, <2>2, StartingKeeps, SerialStep
<1>4. ASSUME NEW d \in Deployment, WorkStep(d) PROVE SerialAgrees'
  <2>1. ~At(d, "idle") /\ \A e \in Deployment \ {d} : task'[e] = task[e]
    BY <1>4, WorkEffect DEF Works, At
  <2>2. \A e \in Deployment \ {d} : At(e, "idle")
    BY <1>alone, <2>1
  <2>3. SerialTask(d)' /\ CurrentIsInstalled' /\ LiveIsInstalled'
    BY <1>4, PreparingKeeps, SwappingKeeps, CommittingKeeps, FailingKeeps DEF WorkStep
  <2>. QED  BY <2>1, <2>2, <2>3, SerialStep
<1>5. ASSUME NEW d \in Deployment, Finish(d) PROVE SerialAgrees'
  BY <1>r, <1>5, OutsideStep DEF Finish, SetStatus, NoTask, At, Row, db, target
<1>6. ASSUME NEW d \in Deployment, Cancel(d) \/ Reconcile(d) PROVE SerialAgrees'
  BY <1>r, <1>6, OutsideStep DEF Cancel, Reconcile, SetStatus, Row, db, target
<1>7. ASSUME NEW p \in Process, Crash(p) PROVE SerialAgrees'
  BY <1>r, <1>7, OutsideStep DEF Crash, NoTask, At, db, target
<1>8. ASSUME BootServer \/ Serve \/ BootWeb \/ UNCHANGED vars PROVE SerialAgrees'
  BY <1>8, OutsideStep DEF BootServer, Serve, BootWeb, vars, db, target
<1>. QED
  BY <1>1, <1>2, <1>3, <1>4, <1>5, <1>6, <1>7, <1>8, NextCases

LEMMA SerialInvariant ==
  ASSUME ~Overlap, HasMvT
  PROVE  Spec => []SerialAgrees
<1>1. TypeOK /\ SerialAgrees /\ [Next]_vars => SerialAgrees'
  BY SerialNext
<1>. QED  BY <1>1, SerialInit, TypeInvariant, PTL DEF Spec

\* While deployments do not overlap, the release a deploy would go back to is on the
\* target until the deploy has committed, so a rollback is always possible, through
\* failures, cancels and restarts (README: "The previous release is untouched").
THEOREM PreviousIsKept ==
  ASSUME ~Overlap, HasMvT
  PROVE  Spec => []PreviousStaysInstalled
<1>1. SerialAgrees => PreviousStaysInstalled
  <2>. SUFFICES ASSUME SerialAgrees, NEW d \in Deployment, task[d].mode = "deploy",
                       task[d].pc \notin {"idle", "resolve", "list", "remove", "mark"}
                                           \cup DOMAIN Verdict,
                       row[d].previous # NoRelease
                PROVE  row[d].previous \in installed
    BY DEF PreviousStaysInstalled
  <2>1. task[d].pc \notin Committed \cup {"resolve"} /\ ~At(d, "idle")
    BY VerdictType DEF Committed, At
  <2>2. row[d].previous = current
    BY <2>1 DEF SerialAgrees, SerialTask, GoalAgrees
  <2>. QED  BY <2>2 DEF SerialAgrees, CurrentIsInstalled
<1>. QED  BY <1>1, SerialInvariant, PTL

\* While deployments do not overlap, no sweep removes what the symlink names
\* (releases_to_prune: "The currently-live release is never a candidate").
THEOREM LiveIsKept ==
  ASSUME ~Overlap, HasMvT
  PROVE  Spec => []LiveIsInstalled
<1>1. SerialAgrees => LiveIsInstalled
  BY DEF SerialAgrees
<1>. QED  BY <1>1, SerialInvariant, PTL

\* While deployments do not overlap, a deploy commits the release its health check
\* saw running, unless the check was to be skipped.
THEOREM CommittedWasChecked ==
  ASSUME ~Overlap, HasMvT
  PROVE  Spec => []CommitsWhatItChecked
<1>1. SerialAgrees => CommitsWhatItChecked
  BY DEF SerialAgrees, SerialTask, TargetAgrees, At, CommitsWhatItChecked
<1>. QED  BY <1>1, SerialInvariant, PTL

\* While deployments do not overlap, the outcome a task reports is what the link, the
\* unit and the current release say at that moment (run_deploy, finish).
THEOREM OutcomesAreTrue ==
  ASSUME ~Overlap, HasMvT
  PROVE  Spec => OutcomeIsTrue
<1>1. SerialAgrees /\ TypeOK =>
        \A d \in Deployment : Finish(d) =>
          CASE task[d].pc = "endSucceeded"  -> {link, running, current} = {row[d].release}
            [] task[d].pc = "endRolledBack" -> {link, running, current} = {row[d].previous}
            [] OTHER                        -> current = row[d].previous
  <2>. SUFFICES ASSUME SerialAgrees, TypeOK, NEW d \in Deployment, Finish(d)
                PROVE  CASE task[d].pc = "endSucceeded"  -> {link, running, current} = {row[d].release}
                         [] task[d].pc = "endRolledBack" -> {link, running, current} = {row[d].previous}
                         [] OTHER                        -> current = row[d].previous
    OBVIOUS
  <2>1. task[d].pc \in {"endSucceeded", "endFailed", "endCancelled", "endRolledBack"}
    BY VerdictType DEF Finish
  <2>2. PathAgrees(d) /\ GoalAgrees(d) /\ TargetAgrees(d)
    BY <2>1 DEF SerialAgrees, SerialTask, At
  <2>3. task[d].pc \in {"endSucceeded", "endRolledBack"} =>
          link = task[d].goal /\ running = task[d].goal /\ current = task[d].goal
    BY <2>2 DEF TargetAgrees, GoalAgrees, Restarted, Committed
  <2>4. task[d].pc = "endSucceeded" => row[d].release = task[d].goal
    <3>1. task[d].mode \in {"deploy", "revert"}
      BY DEF TypeOK, Task
    <3>2. task[d].pc = "endSucceeded" => task[d].pc \in Present \ {"record"}
      BY DEF Present, Restarted, Committed
    <3>. QED  BY <2>2, <3>1, <3>2 DEF PathAgrees, GoalAgrees, At
  <2>5. task[d].pc = "endRolledBack" => row[d].previous = task[d].goal
    BY <2>2 DEF PathAgrees, GoalAgrees, At
  <2>6. task[d].pc \in {"endFailed", "endCancelled"} => current = row[d].previous
    BY <2>2 DEF GoalAgrees, Committed
  <2>. QED  BY <2>1, <2>3, <2>4, <2>5, <2>6
<1>. QED  BY <1>1, SerialInvariant, TypeInvariant, PTL DEF Spec, OutcomeIsTrue
=============================================================================
