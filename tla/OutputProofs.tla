---------------------------- MODULE OutputProofs ----------------------------
(***************************************************************************)
(* Proofs about what MCOutput composes: builds, for any number of them,    *)
(* any host, any definition and whatever their commands do; the lines of a *)
(* remote command, for any output and any chunks; and the viewers of a     *)
(* journal, for any number of them and any capacity of the buffer.         *)
(***************************************************************************)
EXTENDS MCOutput, SubsequenceProofs, SequenceTheorems, TLAPS

-----------------------------------------------------------------------------
(* A build.  Its directory goes because nothing it started is left by then *)
(* that could keep it: on the control plane the pipes, which hold the pump *)
(* open, close after the last process; over SSH only a lost session or the *)
(* time being up leaves a command running.  Its log is followed from step  *)
(* to step.                                                                *)

Verdict == {"none", "artifact", "failed", "late", "unprepared"}
Text == {"cloning", "checked_out", "running", "output", "rest", "built"}

BuildsTypeOK ==
    /\ world \in World
    /\ DOMAIN task = Build /\ task = [b \in Build |-> task[b]]
    /\ DOMAIN place = Build
    /\ link \in [Build -> BOOLEAN]
    /\ command \in [Build -> [shell : {"none", "running", "ended"}, rest : BOOLEAN]]
    /\ holders \in [Build -> SUBSET {"engine", "build", "pipes"}]
    /\ workspace \in [Build -> {"none", "there", "unremoved"}]
    /\ lines \in [Build -> Seq(Text)]
    /\ verdict \in [Build -> Verdict]

CommandCount == Len(Commands(world.sha))

(* A world in which it does not matter where a build runs.                 *)
Comparable == world.lacks = "nothing" /\ world.output = "text" /\ world.artifact # "huge"

(* Where the build is, and what of it can still be running there.          *)
OnTrack(b) ==
    /\ ~OnHost(b) => link[b]
    /\ task[b][1] \in {"spawn", "wait"} => task[b][2] \in 1 .. CommandCount
    /\ task[b][1] \in {"resolve", "check", "spawn", "head"} => command[b] = Quiet
    /\ At(b, "wait") => OnHost(b) \/ "pipes" \in holders[b] \/ Quieted(b)
                          \/ (Garbles(b) /\ task[b][2] = CommandCount)
    /\ At(b, "collect") => Quieted(b) \/ Garbles(b)
    /\ task[b][1] \in {"pump", "cleanup"} =>
          /\ ~OnHost(b) => "pipes" \in holders[b] \/ Quieted(b) \/ Garbles(b)
          /\ OnHost(b) /\ link[b] /\ verdict[b] # "late" => Quieted(b)
    /\ At(b, "cleanup") => holders[b] = {}
    /\ At(b, "resolve") => workspace[b] = "none"
    /\ At(b, "done") /\ workspace[b] = "there" =>
          (OnHost(b) /\ (~link[b] \/ verdict[b] = "late")) \/ Garbles(b)

HeadLine == IF world.fails = "head" THEN <<>> ELSE <<"checked_out">>
Cloned == world.fails \notin {"clone"} \cup (IF world.sha THEN {"fetch", "checkout"} ELSE {})
UpToRunning == <<"cloning">> \o HeadLine \o <<"running">>
Said == UpToRunning \o <<"output", "rest">>

(* What a build of a complete definition has logged at each of its steps.  *)
Logged(b) ==
    /\ task[b][1] \in {"resolve", "check"} => lines[b] = <<>>
    /\ task[b][1] \in {"spawn", "wait"} /\ task[b][2] < CommandCount =>
          /\ lines[b] = <<"cloning">>
          /\ \A j \in 1 .. task[b][2] - 1 : world.fails # Commands(world.sha)[j]
    /\ At(b, "head") => lines[b] = <<"cloning">> /\ Cloned
    /\ task[b][1] \in {"spawn", "wait"} /\ task[b][2] = CommandCount => lines[b] = UpToRunning /\ Cloned
    /\ At(b, "collect") => lines[b] = Said /\ Cloned /\ world.fails # "build"
    /\ task[b][1] \in {"pump", "cleanup", "done"} /\ verdict[b] \in {"artifact", "failed"} /\ link[b] =>
          lines[b] = LogOf(world)

BuildsInv ==
    /\ BuildsTypeOK
    /\ \A b \in Build : OnTrack(b) /\ (Comparable => Logged(b))

LEMMA OneLine == \A S : \A e \in S : <<e>> \in Seq(S)
OBVIOUS

LEMMA TwoLines == \A S : \A e, f \in S : <<e, f>> \in Seq(S)
OBVIOUS

LEMMA OutputIs ==
    ASSUME NEW b
    PROVE  /\ <<"output", "rest">> \in Seq(Text) /\ Output(b) \in Seq(Text)
           /\ world.output = "text" => Output(b) = <<"output", "rest">>
<1>1. "output" \in Text /\ "rest" \in Text
  BY DEF Text
<1>2. <<"output">> \in Seq(Text) /\ <<"output", "rest">> \in Seq(Text)
  BY <1>1, OneLine, TwoLines, Zenon
<1>3. world.output = "text" => ~Garbles(b)
  BY DEF Garbles
<1>. QED  BY <1>2, <1>3, Zenon DEF Output

(* The commands of a build.                                                *)
LEMMA CommandsAre ==
    ASSUME BuildsTypeOK
    PROVE  /\ world.sha => CommandCount = 4
           /\ ~world.sha => CommandCount = 2
           /\ CommandCount \in {2, 4}
           /\ Commands(world.sha)[CommandCount] = "build"
           /\ \A j \in 1 .. CommandCount : Commands(world.sha)[j] = "build" => j = CommandCount
           /\ Cloned <=> \A j \in 1 .. CommandCount - 1 : world.fails # Commands(world.sha)[j]
           /\ \A j \in 1 .. CommandCount - 1 : world.fails = Commands(world.sha)[j] => ~Cloned
           /\ HeadLine \in Seq(Text)
<1>1. world.sha \in BOOLEAN
  BY DEF BuildsTypeOK, World
<1>2. HeadLine \in Seq(Text)
  <2>1. <<>> \in Seq(Text)
    BY EmptySeq
  <2>a. "checked_out" \in Text
    BY DEF Text
  <2>2. <<"checked_out">> \in Seq(Text)
    BY <2>a, OneLine, Zenon
  <2>. QED  BY <2>1, <2>2, Zenon DEF HeadLine
<1>3. CASE world.sha
  <2>1. CommandCount = 4 /\ Commands(world.sha) = <<"clone", "fetch", "checkout", "build">>
    BY <1>3 DEF CommandCount, Commands
  <2>2. \A j \in 1 .. 3 : j = 1 \/ j = 2 \/ j = 3
    OBVIOUS
  <2>b. \A j \in 1 .. 4 : j = 1 \/ j = 2 \/ j = 3 \/ j = 4
    OBVIOUS
  <2>3. Cloned <=> world.fails # "clone" /\ world.fails # "fetch" /\ world.fails # "checkout"
    BY <1>3 DEF Cloned
  <2>4. Commands(world.sha)[1] = "clone" /\ Commands(world.sha)[2] = "fetch"
        /\ Commands(world.sha)[3] = "checkout" /\ Commands(world.sha)[4] = "build"
    BY <2>1
  <2>5. CommandCount - 1 = 3
    BY <2>1
  <2>6. Cloned <=> \A j \in 1 .. CommandCount - 1 : world.fails # Commands(world.sha)[j]
    BY <2>2, <2>3, <2>4, <2>5
  <2>7. \A j \in 1 .. CommandCount : Commands(world.sha)[j] = "build" => j = CommandCount
    BY <2>1, <2>4, <2>b
  <2>. QED  BY <1>2, <1>3, <2>1, <2>4, <2>6, <2>7
<1>4. CASE ~world.sha
  <2>1. CommandCount = 2 /\ Commands(world.sha) = <<"clone", "build">>
    BY <1>4 DEF CommandCount, Commands
  <2>2. \A j \in 1 .. 1 : j = 1
    OBVIOUS
  <2>3. Cloned <=> world.fails # "clone"
    BY <1>4 DEF Cloned
  <2>4. \A j \in 1 .. 2 : j = 1 \/ j = 2
    OBVIOUS
  <2>5. \A j \in 1 .. CommandCount : Commands(world.sha)[j] = "build" => j = CommandCount
    BY <2>1, <2>4
  <2>. QED  BY <1>2, <1>4, <2>1, <2>2, <2>3, <2>5
<1>. QED  BY <1>1, <1>3, <1>4

(* LogOf in the terms of the steps.                                        *)
LEMMA LogOfIs ==
    ASSUME BuildsTypeOK
    PROVE  /\ UpToRunning \in Seq(Text) /\ Said \in Seq(Text)
           /\ ~Cloned => LogOf(world) = <<"cloning">>
           /\ Cloned /\ (world.fails = "build" \/ world.artifact # "file") => LogOf(world) = Said
           /\ Cloned /\ world.fails # "build" /\ world.artifact = "file" =>
                 LogOf(world) = Append(Said, "built")
<1>. DEFINE c == <<"cloning">>
            r == <<"running">>
            o == <<"output", "rest">>
            u == <<"built">>
            built == world.fails # "build" /\ world.artifact = "file"
<1>0. HeadLine \in Seq(Text) /\ "cloning" \in Text /\ "running" \in Text /\ "built" \in Text
  BY CommandsAre DEF Text
<1>1. HeadLine \in Seq(Text) /\ c \in Seq(Text) /\ r \in Seq(Text) /\ u \in Seq(Text) /\ o \in Seq(Text)
  BY <1>0, OneLine, OutputIs, Zenon
<1>2. LogOf(world) = (c \o (IF Cloned THEN (HeadLine \o r) \o o ELSE <<>>))
                     \o (IF Cloned /\ built THEN u ELSE <<>>)
  BY Zenon DEF LogOf, HeadLine, Cloned
<1>3. Said = ((c \o HeadLine) \o r) \o o /\ UpToRunning = (c \o HeadLine) \o r
  BY Zenon DEF UpToRunning, Said
<1>. HIDE DEF c, r, u, o
<1>4. /\ HeadLine \o r \in Seq(Text) /\ c \o HeadLine \in Seq(Text)
      /\ (c \o HeadLine) \o r \in Seq(Text) /\ c \o (HeadLine \o r) \in Seq(Text)
  BY <1>1, ConcatProperties
<1>a. ((c \o HeadLine) \o r) \o o \in Seq(Text) /\ (HeadLine \o r) \o o \in Seq(Text)
  BY <1>1, <1>4, ConcatProperties
<1>5. c \o ((HeadLine \o r) \o o) = ((c \o HeadLine) \o r) \o o
  <2>1. Associative(Text)
    BY Regrouped, Zenon
  <2>a. ASSUME NEW x \in Seq(Text), NEW y \in Seq(Text), NEW z \in Seq(Text)
        PROVE  (x \o y) \o z = x \o (y \o z)
    BY ONLY <2>1, x \in Seq(Text), y \in Seq(Text), z \in Seq(Text), Zenon DEF Associative
  <2>. DEFINE hr == HeadLine \o r
  <2>b. c \in Seq(Text) /\ HeadLine \in Seq(Text) /\ r \in Seq(Text)
    BY <1>1, Zenon
  <2>c. c \in Seq(Text) /\ hr \in Seq(Text) /\ o \in Seq(Text)
    BY <1>1, <1>4, Zenon
  <2>2. (c \o HeadLine) \o r = c \o (HeadLine \o r)
    BY ONLY <2>a, <2>b, Zenon
  <2>. HIDE DEF hr
  <2>d. (c \o hr) \o o = c \o (hr \o o)
    BY ONLY <2>a, <2>c, Zenon
  <2>3. (c \o (HeadLine \o r)) \o o = c \o ((HeadLine \o r) \o o)
    BY ONLY <2>d, Zenon DEF hr
  <2>. QED  BY <2>2, <2>3, Zenon
<1>6. c \o <<>> = c /\ Said \o <<>> = Said
  BY <1>1, <1>3, <1>a, ConcatEmptySeq
<1>7. Append(Said, "built") = Said \o u
  BY <1>3, <1>a, AppendIsConcat DEF u
<1>8. CASE ~Cloned
  BY <1>2, <1>3, <1>4, <1>a, <1>6, <1>8, Zenon DEF c
<1>9. CASE Cloned /\ ~built
  <2>1. LogOf(world) = (c \o ((HeadLine \o r) \o o)) \o <<>>
    BY <1>2, <1>9, Zenon
  <2>. QED  BY <1>3, <1>4, <1>a, <1>5, <1>6, <1>9, <2>1, Zenon
<1>10. CASE Cloned /\ built
  <2>1. LogOf(world) = (c \o ((HeadLine \o r) \o o)) \o u
    BY <1>2, <1>10, Zenon
  <2>. QED  BY <1>3, <1>4, <1>a, <1>5, <1>7, <1>10, <2>1, Zenon
<1>. QED  BY <1>8, <1>9, <1>10, Zenon

(* A step of one build needs to be looked at for that build only.          *)
Elsewhere(b) ==
    \A a \in Build \ {b} :
        /\ task'[a] = task[a] /\ link'[a] = link[a] /\ command'[a] = command[a]
        /\ holders'[a] = holders[a] /\ lines'[a] = lines[a] /\ verdict'[a] = verdict[a]
        /\ workspace'[a] = workspace[a]

LEMMA SameWorld ==
    ASSUME UNCHANGED <<world, place>>
    PROVE  /\ CommandCount' = CommandCount /\ HeadLine' = HeadLine /\ Cloned' = Cloned /\ UpToRunning' = UpToRunning
           /\ Said' = Said /\ Comparable' = Comparable
           /\ Commands(world.sha)' = Commands(world.sha) /\ LogOf(world)' = LogOf(world)
           /\ \A b : OnHost(b)' = OnHost(b) /\ Garbles(b)' = Garbles(b)
BY DEF CommandCount, HeadLine, Cloned, UpToRunning, Said, Comparable, OnHost, Garbles

(* What does not move stays as it was.                                     *)
LEMMA Unmoved ==
    ASSUME NEW b, UNCHANGED <<world, place>>, OnTrack(b), Comparable => Logged(b),
           task'[b] = task[b], link'[b] = link[b], command'[b] = command[b], holders'[b] = holders[b],
           lines'[b] = lines[b], verdict'[b] = verdict[b], workspace'[b] = workspace[b]
    PROVE  OnTrack(b)' /\ (Comparable => Logged(b)')
<1>1. OnHost(b)' = OnHost(b) /\ Garbles(b)' = Garbles(b) /\ Quieted(b)' = Quieted(b)
  BY DEF OnHost, Garbles, Quieted
<1>2. CommandCount' = CommandCount
  BY SameWorld
<1>3. OnTrack(b)'
  BY <1>1, <1>2 DEF OnTrack, At
<1>4. Logged(b)' = Logged(b)
  <2>1. /\ UpToRunning' = UpToRunning /\ Said' = Said /\ Cloned' = Cloned
        /\ LogOf(world)' = LogOf(world) /\ Commands(world.sha)' = Commands(world.sha)
        /\ world' = world
    BY SameWorld
  <2>. QED  BY <1>2, <2>1 DEF Logged, At
<1>. QED  BY <1>3, <1>4

LEMMA OneBuild ==
    ASSUME BuildsInv, NEW b \in Build, BuildsTypeOK', UNCHANGED <<world, place>>, Elsewhere(b),
           OnTrack(b)', Comparable => Logged(b)'
    PROVE  BuildsInv'
<1>1. ASSUME NEW a \in Build, a # b PROVE OnTrack(a)' /\ (Comparable => Logged(a)')
  <2>1. /\ task'[a] = task[a] /\ link'[a] = link[a] /\ command'[a] = command[a]
        /\ holders'[a] = holders[a] /\ lines'[a] = lines[a] /\ verdict'[a] = verdict[a]
        /\ workspace'[a] = workspace[a]
    BY <1>1 DEF Elsewhere
  <2>. QED  BY <2>1, Unmoved DEF BuildsInv
<1>2. Comparable' = Comparable
  BY SameWorld
<1>. QED  BY <1>1, <1>2 DEF BuildsInv

LEMMA TaskOf ==
    ASSUME BuildsTypeOK, NEW b \in Build, NEW t, task' = [task EXCEPT ![b] = t]
    PROVE  /\ DOMAIN task' = Build /\ task' = [a \in Build |-> task'[a]]
           /\ task'[b] = t /\ \A a \in Build \ {b} : task'[a] = task[a]
BY DEF BuildsTypeOK

LEMMA BuildsInit_Inv == BuildsInit => BuildsInv
<1>. SUFFICES ASSUME BuildsInit PROVE BuildsInv
  OBVIOUS
<1>1. BuildsTypeOK
  <2>1. <<>> \in Seq(Text)
    BY EmptySeq
  <2>2. lines \in [Build -> Seq(Text)]
    BY <2>1, Zenon DEF BuildsInit
  <2>. QED  BY <2>2 DEF BuildsInit, BuildsTypeOK, Quiet, Verdict
<1>2. \A b \in Build : task[b][1] = "resolve" /\ command[b] = Quiet /\ lines[b] = <<>> /\ link[b]
                        /\ workspace[b] = "none"
  BY DEF BuildsInit
<1>. QED  BY <1>1, <1>2 DEF BuildsInv, OnTrack, Logged, At

LEMMA Prepare_Inv == ASSUME BuildsInv, NEW b \in Build, Prepare(b) PROVE BuildsInv'
<1>1. task[b][1] = "resolve" /\ UNCHANGED <<world, place, command, lines>>
  BY DEF Prepare, At
<1>2. OnTrack(b) /\ BuildsTypeOK /\ (Comparable => Logged(b))
  BY DEF BuildsInv
<1>a. ASSUME Created(b)
      PROVE  /\ workspace' \in [Build -> {"none", "there", "unremoved"}]
             /\ \A a \in Build \ {b} : workspace'[a] = workspace[a]
  BY <1>2, <1>a DEF Created, BuildsTypeOK
<1>3. CASE Created(b) /\ holders' = [holders EXCEPT ![b] = {"engine", "build"}]
           /\ Goto(b, "check") /\ UNCHANGED <<verdict, link>>
  <2>1. /\ DOMAIN task' = Build /\ task' = [a \in Build |-> task'[a]]
        /\ task'[b] = <<"check">> /\ \A a \in Build \ {b} : task'[a] = task[a]
    BY <1>2, <1>3, TaskOf DEF Goto
  <2>2. BuildsTypeOK' /\ Elsewhere(b)
    BY <1>1, <1>2, <1>3, <1>a, <2>1 DEF BuildsTypeOK, Elsewhere
  <2>3. OnTrack(b)' /\ (Comparable => Logged(b)')
    BY <1>1, <1>2, <1>3, <2>1, SameWorld DEF OnTrack, Logged, At, Quieted
  <2>. QED  BY <1>1, <2>2, <2>3, OneBuild
<1>4. ASSUME Abandon(b)
      PROVE  /\ DOMAIN task' = Build /\ task' = [a \in Build |-> task'[a]]
             /\ task'[b] = <<"done">> /\ \A a \in Build \ {b} : task'[a] = task[a]
             /\ verdict' \in [Build -> Verdict] /\ verdict'[b] = "unprepared"
             /\ \A a \in Build \ {b} : verdict'[a] = verdict[a]
  <2>1. /\ DOMAIN task' = Build /\ task' = [a \in Build |-> task'[a]]
        /\ task'[b] = <<"done">> /\ \A a \in Build \ {b} : task'[a] = task[a]
    BY <1>2, <1>4, TaskOf DEF Abandon, Goto
  <2>. QED  BY <1>2, <1>4, <2>1 DEF Abandon, BuildsTypeOK, Verdict
<1>5. CASE Abandon(b) /\ UNCHANGED <<workspace, holders, link>>
  <2>1. BuildsTypeOK' /\ Elsewhere(b)
    BY <1>1, <1>2, <1>4, <1>5 DEF BuildsTypeOK, Elsewhere
  <2>2. OnTrack(b)' /\ (Comparable => Logged(b)')
    BY <1>1, <1>2, <1>4, <1>5, SameWorld DEF OnTrack, Logged, At, Quieted
  <2>. QED  BY <1>1, <2>1, <2>2, OneBuild
<1>6. CASE OnHost(b) /\ Created(b) /\ Abandon(b) /\ link' = [link EXCEPT ![b] = FALSE]
           /\ UNCHANGED holders
  <2>1. link' \in [Build -> BOOLEAN] /\ ~link'[b] /\ \A a \in Build \ {b} : link'[a] = link[a]
    BY <1>2, <1>6 DEF BuildsTypeOK
  <2>2. BuildsTypeOK' /\ Elsewhere(b)
    BY <1>1, <1>2, <1>4, <1>6, <1>a, <2>1 DEF BuildsTypeOK, Elsewhere
  <2>3. OnTrack(b)' /\ (Comparable => Logged(b)')
    BY <1>1, <1>2, <1>4, <1>6, <2>1, SameWorld DEF OnTrack, Logged, At, Quieted
  <2>. QED  BY <1>1, <2>2, <2>3, OneBuild
<1>. QED  BY <1>3, <1>5, <1>6 DEF Prepare

(* However a build returns, it is then at the pump.                        *)
LEMMA ReturnIs ==
    ASSUME BuildsTypeOK, NEW b \in Build, NEW v \in Verdict, Return(b, v)
    PROVE  /\ DOMAIN task' = Build /\ task' = [a \in Build |-> task'[a]]
           /\ task'[b] = <<"pump">> /\ \A a \in Build \ {b} : task'[a] = task[a]
           /\ verdict' \in [Build -> Verdict] /\ verdict'[b] = v
           /\ \A a \in Build \ {b} : verdict'[a] = verdict[a]
           /\ holders' \in [Build -> SUBSET {"engine", "build", "pipes"}]
           /\ "pipes" \in holders'[b] <=> "pipes" \in holders[b]
           /\ \A a \in Build \ {b} : holders'[a] = holders[a]
<1>1. /\ DOMAIN task' = Build /\ task' = [a \in Build |-> task'[a]]
      /\ task'[b] = <<"pump">> /\ \A a \in Build \ {b} : task'[a] = task[a]
  BY TaskOf DEF Return
<1>. QED  BY <1>1 DEF Return, BuildsTypeOK

(* ... with nothing of it left but what its session or its time left, and  *)
(* with the log it has.                                                    *)
LEMMA Returns ==
    ASSUME BuildsInv, NEW b \in Build, NEW v \in Verdict, Return(b, v), BuildsTypeOK',
           UNCHANGED <<world, place, link, workspace>>, task[b][1] \notin {"resolve", "done"},
           \A a \in Build \ {b} : command'[a] = command[a] /\ lines'[a] = lines[a],
           ~OnHost(b) => "pipes" \in holders[b] \/ Quieted(b)' \/ Garbles(b),
           OnHost(b) /\ link[b] /\ v # "late" => Quieted(b)',
           Comparable /\ v \in {"artifact", "failed"} /\ link[b] => lines'[b] = LogOf(world)
    PROVE  BuildsInv'
<1>1. /\ task'[b][1] = "pump" /\ verdict'[b] = v
      /\ "pipes" \in holders'[b] <=> "pipes" \in holders[b]
      /\ \A a \in Build \ {b} : task'[a] = task[a] /\ verdict'[a] = verdict[a] /\ holders'[a] = holders[a]
  BY ReturnIs DEF BuildsInv
<1>2. Elsewhere(b)
  BY <1>1 DEF Elsewhere
<1>3. ~OnHost(b) => link[b]
  BY DEF BuildsInv, OnTrack
<1>4. OnTrack(b)'
  BY <1>1, <1>3, SameWorld DEF OnTrack, At
<1>5. Comparable => Logged(b)'
  BY <1>1, SameWorld DEF Logged, At
<1>. QED  BY <1>2, <1>4, <1>5, OneBuild

LEMMA SayIs ==
    ASSUME BuildsTypeOK, NEW b \in Build, NEW l \in Text, Say(b, l)
    PROVE  /\ lines' \in [Build -> Seq(Text)] /\ lines'[b] = Append(lines[b], l)
           /\ \A a \in Build \ {b} : lines'[a] = lines[a]
<1>1. Append(lines[b], l) \in Seq(Text)
  BY AppendProperties DEF BuildsTypeOK
<1>. QED  BY <1>1 DEF Say, BuildsTypeOK

LEMMA Check_Inv == ASSUME BuildsInv, NEW b \in Build, Check(b) PROVE BuildsInv'
<1>1. /\ task[b][1] = "check" /\ UNCHANGED <<world, place, link, command, workspace>>
  BY DEF Check, At
<1>2. OnTrack(b) /\ BuildsTypeOK /\ (Comparable => Logged(b))
  BY DEF BuildsInv
<1>3. command[b] = Quiet /\ Quieted(b)
  BY <1>1, <1>2 DEF OnTrack, Quiet, Quieted
<1>4. CASE Refused(b)
  <2>1. Return(b, "failed") /\ UNCHANGED lines
    BY <1>4 DEF Check
  <2>2. BuildsTypeOK'
    BY <1>1, <1>2, <2>1, ReturnIs DEF BuildsTypeOK, Verdict
  <2>3. ~Comparable
    BY <1>4 DEF Refused, Comparable
  <2>. QED  BY <1>1, <1>3, <2>1, <2>2, <2>3, Returns DEF Verdict, Quieted
<1>5. CASE ~Refused(b)
  <2>1. /\ Say(b, "cloning") /\ task' = [task EXCEPT ![b] = <<"spawn", 1>>]
        /\ UNCHANGED <<verdict, holders>>
    BY <1>5 DEF Check
  <2>2. /\ DOMAIN task' = Build /\ task' = [a \in Build |-> task'[a]]
        /\ task'[b] = <<"spawn", 1>> /\ \A a \in Build \ {b} : task'[a] = task[a]
    BY <1>2, <2>1, TaskOf
  <2>3. /\ lines' \in [Build -> Seq(Text)] /\ lines'[b] = Append(lines[b], "cloning")
        /\ \A a \in Build \ {b} : lines'[a] = lines[a]
    BY <1>2, <2>1, SayIs DEF Text
  <2>4. BuildsTypeOK' /\ Elsewhere(b)
    BY <1>1, <1>2, <2>1, <2>2, <2>3 DEF BuildsTypeOK, Elsewhere
  <2>5. Append(<<>>, "cloning") = <<"cloning">>
    OBVIOUS
  <2>6. CommandCount \in {2, 4}
    BY <1>2, CommandsAre
  <2>7. OnTrack(b)'
    BY <1>1, <1>2, <2>1, <2>2, <2>6, SameWorld DEF OnTrack, At
  <2>8. ASSUME Comparable PROVE Logged(b)'
    <3>1. lines[b] = <<>>
      BY <1>1, <1>2, <2>8 DEF Logged
    <3>2. lines'[b] = <<"cloning">>
      BY <2>3, <2>5, <3>1
    <3>3. task'[b][1] = "spawn" /\ task'[b][2] = 1
      BY <2>2
    <3>. QED  BY <1>1, <2>6, <3>2, <3>3, SameWorld DEF Logged, At
  <2>. QED  BY <1>1, <2>4, <2>7, <2>8, OneBuild
<1>. QED  BY <1>4, <1>5

LEMMA Spawn_Inv == ASSUME BuildsInv, NEW b \in Build, Spawn(b) PROVE BuildsInv'
<1>1. /\ task[b][1] = "spawn" /\ UNCHANGED <<world, place, link, workspace, lines, verdict>>
      /\ task' = [task EXCEPT ![b] = <<"wait", task[b][2]>>]
      /\ holders' = IF OnHost(b) THEN holders ELSE [holders EXCEPT ![b] = @ \cup {"pipes"}]
  BY DEF Spawn, At, BuildsInv, BuildsTypeOK
<1>2. OnTrack(b) /\ BuildsTypeOK /\ (Comparable => Logged(b))
  BY DEF BuildsInv
<1>3. PICK more \in BOOLEAN : command' = [command EXCEPT ![b] = [shell |-> "running", rest |-> more]]
  BY DEF Spawn
<1>4. /\ DOMAIN task' = Build /\ task' = [a \in Build |-> task'[a]]
      /\ task'[b] = <<"wait", task[b][2]>> /\ \A a \in Build \ {b} : task'[a] = task[a]
  BY <1>1, <1>2, TaskOf
<1>5. /\ holders' \in [Build -> SUBSET {"engine", "build", "pipes"}]
      /\ \A a \in Build \ {b} : holders'[a] = holders[a]
      /\ ~OnHost(b) => "pipes" \in holders'[b]
  BY <1>1, <1>2 DEF BuildsTypeOK
<1>6. BuildsTypeOK' /\ Elsewhere(b)
  BY <1>1, <1>2, <1>3, <1>4, <1>5 DEF BuildsTypeOK, Elsewhere
<1>7. task'[b][1] = "wait" /\ task'[b][2] = task[b][2] /\ task[b][2] \in 1 .. CommandCount
  BY <1>1, <1>2, <1>4 DEF OnTrack
<1>8. OnTrack(b)'
  BY <1>1, <1>2, <1>5, <1>7, SameWorld DEF OnTrack, At
<1>9. Comparable => Logged(b)'
  BY <1>1, <1>2, <1>7, SameWorld DEF Logged, At
<1>. QED  BY <1>1, <1>6, <1>8, <1>9, OneBuild

LEMMA Waited_Inv == ASSUME BuildsInv, NEW b \in Build, Waited(b) PROVE BuildsInv'
<1>. DEFINE i == task[b][2]
            heard == IF Current(b) = "build" THEN lines[b] \o Output(b) ELSE lines[b]
<1>1. /\ task[b][1] = "wait" /\ UNCHANGED <<world, place, link, workspace>>
      /\ command' = [command EXCEPT ![b].shell = "none"]
      /\ command[b].shell = "ended" /\ "pipes" \notin holders[b]
      /\ (OnHost(b) => link[b] /\ ~command[b].rest)
      /\ lines' = IF Current(b) = "build" THEN [lines EXCEPT ![b] = lines[b] \o Output(b)] ELSE lines
  BY DEF Waited, At
<1>2. OnTrack(b) /\ BuildsTypeOK /\ (Comparable => Logged(b))
  BY DEF BuildsInv
<1>4. i \in 1 .. CommandCount /\ CommandCount \in {2, 4}
  BY <1>1, <1>2, CommandsAre DEF OnTrack
<1>a. ~command[b].rest \/ (Garbles(b) /\ i = CommandCount)
  BY <1>1, <1>2 DEF OnTrack, At, Quieted
<1>3. /\ command' \in [Build -> [shell : {"none", "running", "ended"}, rest : BOOLEAN]]
      /\ \A a \in Build \ {b} : command'[a] = command[a]
      /\ command'[b].shell = "none" /\ command'[b].rest = command[b].rest
  <2>1. command \in [Build -> [shell : {"none", "running", "ended"}, rest : BOOLEAN]]
    BY <1>2 DEF BuildsTypeOK
  <2>. QED  BY <1>1, <2>1
<1>b. Quieted(b)' \/ (Garbles(b) /\ i = CommandCount)
  BY <1>3, <1>a DEF Quieted
<1>c. ~command[b].rest => command'[b] = Quiet
  <2>1. command'[b] \in [shell : {"none", "running", "ended"}, rest : BOOLEAN]
    BY <1>3
  <2>2. command'[b] = [shell |-> "none", rest |-> command'[b].rest] /\ command'[b].rest \in BOOLEAN
    BY <1>3, <2>1
  <2>. QED  BY <1>3, <2>2 DEF Quiet
<1>d. /\ lines' \in [Build -> Seq(Text)] /\ lines'[b] = heard
      /\ \A a \in Build \ {b} : lines'[a] = lines[a]
  <2>1. Output(b) \in Seq(Text) /\ lines \in [Build -> Seq(Text)]
    BY <1>2, OutputIs DEF BuildsTypeOK
  <2>2. lines[b] \o Output(b) \in Seq(Text)
    BY <2>1, ConcatProperties
  <2>3. CASE Current(b) = "build"
    BY <1>1, <2>1, <2>2, <2>3
  <2>4. CASE Current(b) # "build"
    BY <1>1, <2>1, <2>4
  <2>. QED  BY <2>3, <2>4
<1>e. (Current(b) = "build") <=> (i = CommandCount)
  <2>1. Current(b) = Commands(world.sha)[i]
    BY DEF Current
  <2>. QED  BY <1>2, <1>4, <2>1, CommandsAre
<1>f. /\ i < CommandCount => lines'[b] = lines[b]
      /\ i = CommandCount /\ Comparable /\ lines[b] = UpToRunning => lines'[b] = Said
  <2>1. i < CommandCount => i # CommandCount
    BY <1>4
  <2>2. i < CommandCount => lines'[b] = lines[b]
    BY <1>d, <1>e, <2>1
  <2>3. ASSUME i = CommandCount, Comparable, lines[b] = UpToRunning PROVE lines'[b] = Said
    <3>1. Output(b) = <<"output", "rest">>
      BY <2>3, OutputIs DEF Comparable
    <3>2. lines'[b] = UpToRunning \o <<"output", "rest">>
      BY <1>d, <1>e, <2>3, <3>1, Zenon
    <3>. QED  BY <3>2, Zenon DEF Said
  <2>. QED  BY <2>2, <2>3
<1>. HIDE DEF heard
<1>5. CASE (world.fails = Current(b) \/ (Current(b) = "build" /\ Garbles(b))) /\ Return(b, "failed")
  <2>2. BuildsTypeOK'
    BY <1>1, <1>2, <1>3, <1>5, <1>d, ReturnIs DEF BuildsTypeOK, Verdict
  <2>4. ASSUME Comparable PROVE lines'[b] = LogOf(world)
    <3>0. world.fails = Commands(world.sha)[i]
      <4>1. ~Garbles(b)
        BY <2>4 DEF Comparable, Garbles
      <4>. QED  BY <1>5, <4>1 DEF Current
    <3>1. CASE i < CommandCount
      <4>1. lines'[b] = <<"cloning">>
        BY <1>1, <1>2, <1>f, <2>4, <3>1 DEF Logged
      <4>2. ~Cloned
        <5>1. i \in 1 .. CommandCount - 1
          BY <1>4, <3>1
        <5>. QED  BY <1>2, <3>0, <5>1, CommandsAre
      <4>. QED  BY <1>1, <1>2, <4>1, <4>2, LogOfIs, Zenon
    <3>2. CASE i = CommandCount
      <4>1. lines[b] = UpToRunning /\ Cloned
        BY <1>1, <1>2, <2>4, <3>2 DEF Logged
      <4>2. world.fails = "build"
        BY <1>2, <3>0, <3>2, CommandsAre
      <4>3. lines'[b] = Said
        BY <1>f, <2>4, <3>2, <4>1
      <4>. QED  BY <1>1, <1>2, <4>1, <4>2, <4>3, LogOfIs, Zenon
    <3>. QED  BY <1>4, <3>1, <3>2
  <2>5. ~OnHost(b) => "pipes" \in holders[b] \/ Quieted(b)' \/ Garbles(b)
    BY <1>b
  <2>6. OnHost(b) /\ link[b] /\ "failed" # "late" => Quieted(b)'
    BY <1>b DEF Garbles
  <2>. QED  BY <1>1, <1>3, <1>5, <1>d, <2>2, <2>4, <2>5, <2>6, Returns DEF Verdict
<1>6. CASE world.fails # Current(b)
           /\ task' = [task EXCEPT ![b] = CASE i = Len(Commands(world.sha)) -> <<"collect">>
                                            [] i = Len(Commands(world.sha)) - 1 -> <<"head">>
                                            [] OTHER -> <<"spawn", i + 1>>]
           /\ UNCHANGED <<holders, verdict>>
  <2>. DEFINE t == CASE i = CommandCount -> <<"collect">>
                     [] i = CommandCount - 1 -> <<"head">>
                     [] OTHER -> <<"spawn", i + 1>>
  <2>1. task' = [task EXCEPT ![b] = t] /\ UNCHANGED <<holders, verdict>>
    BY <1>6 DEF CommandCount
  <2>2. \/ i = CommandCount /\ t = <<"collect">>
        \/ i = CommandCount - 1 /\ t = <<"head">>
        \/ i < CommandCount - 1 /\ t = <<"spawn", i + 1>>
    BY <1>4
  <2>. HIDE DEF t
  <2>3. /\ DOMAIN task' = Build /\ task' = [a \in Build |-> task'[a]]
        /\ task'[b] = t /\ \A a \in Build \ {b} : task'[a] = task[a]
    BY <1>2, <2>1, TaskOf
  <2>4. BuildsTypeOK' /\ Elsewhere(b)
    BY <1>1, <1>2, <1>3, <1>d, <2>1, <2>3 DEF BuildsTypeOK, Elsewhere
  <2>5. \/ i = CommandCount /\ task'[b][1] = "collect"
        \/ i = CommandCount - 1 /\ task'[b][1] = "head"
        \/ i < CommandCount - 1 /\ task'[b][1] = "spawn" /\ task'[b][2] = i + 1
    BY <2>2, <2>3
  <2>6. OnTrack(b)'
    <3>1. CASE i = CommandCount /\ task'[b][1] = "collect"
      BY <1>1, <1>2, <1>b, <3>1, SameWorld DEF OnTrack, At
    <3>2. CASE i < CommandCount
      <4>1. command'[b] = Quiet
        BY <1>4, <1>a, <1>c, <3>2
      <4>2. /\ task'[b][1] \in {"head", "spawn"}
            /\ task'[b][1] = "spawn" => task'[b][2] \in 1 .. CommandCount
        BY <1>4, <2>5, <3>2
      <4>3. (~OnHost(b) => link[b]) /\ UNCHANGED <<world, place, link>>
        BY <1>1, <1>2 DEF OnTrack
      <4>4. CommandCount' = CommandCount /\ OnHost(b)' = OnHost(b) /\ link'[b] = link[b]
        BY <4>3, SameWorld
      <4>. QED  BY <4>1, <4>2, <4>3, <4>4 DEF OnTrack, At, Quiet
    <3>. QED  BY <1>4, <2>5, <3>1, <3>2
  <2>7. ASSUME Comparable PROVE Logged(b)'
    <3>1. Logged(b) /\ world.fails # Commands(world.sha)[i]
      BY <1>2, <1>6, <2>7 DEF Current
    <3>2. CASE i = CommandCount /\ task'[b][1] = "collect"
      <4>1. world.fails # "build"
        BY <1>2, <3>1, <3>2, CommandsAre
      <4>2. lines'[b] = Said /\ Cloned
        BY <1>1, <1>f, <2>7, <3>1, <3>2 DEF Logged
      <4>. QED  BY <1>1, <3>2, <4>1, <4>2, SameWorld DEF Logged, At
    <3>3. CASE i < CommandCount
      <4>1. lines[b] = <<"cloning">> /\ \A j \in 1 .. i - 1 : world.fails # Commands(world.sha)[j]
        BY <1>1, <3>1, <3>3 DEF Logged
      <4>a. lines'[b] = <<"cloning">>
        BY <1>f, <3>3, <4>1
      <4>2. \A j \in 1 .. i : world.fails # Commands(world.sha)[j]
        <5>1. \A j \in 1 .. i : j = i \/ j \in 1 .. i - 1
          BY <1>4
        <5>. QED  BY <3>1, <4>1, <5>1
      <4>3. CASE i = CommandCount - 1 /\ task'[b][1] = "head"
        <5>1. Cloned
          BY <1>2, <4>2, <4>3, CommandsAre
        <5>. QED  BY <1>1, <4>a, <4>3, <5>1, SameWorld DEF Logged, At
      <4>4. CASE i < CommandCount - 1 /\ task'[b][1] = "spawn" /\ task'[b][2] = i + 1
        <5>. DEFINE k == task'[b][2]
        <5>1. k - 1 = i /\ k < CommandCount /\ CommandCount' = CommandCount
          BY <1>1, <1>4, <4>4, SameWorld
        <5>a. world' = world
          BY <1>1
        <5>2. lines'[b] = <<"cloning">> /\ \A j \in 1 .. k - 1 : world'.fails # Commands(world'.sha)[j]
          BY <4>a, <4>2, <5>1, <5>a
        <5>b. CommandCount \in Int /\ k \in Int
          BY <1>4, <4>4
        <5>. HIDE DEF k
        <5>3. task'[b][1] = "spawn" /\ ~(k = CommandCount') /\ k < CommandCount'
          BY <4>4, <5>1, <5>b
        <5>4. /\ task'[b][2] = k
              /\ \A j \in 1 .. task'[b][2] - 1 : world'.fails # Commands(world'.sha)[j]
          BY <5>2 DEF k
        <5>5. ~(task'[b][2] = CommandCount')
          BY <5>3, <5>4
        <5>. QED  BY <5>2, <5>3, <5>4, <5>5, Zenon DEF Logged, At
      <4>. QED  BY <1>4, <2>5, <3>3, <4>3, <4>4
    <3>. QED  BY <1>4, <2>5, <3>2, <3>3
  <2>. QED  BY <1>1, <2>4, <2>6, <2>7, OneBuild
<1>7. \/ (world.fails = Current(b) \/ (Current(b) = "build" /\ Garbles(b))) /\ Return(b, "failed")
      \/ /\ world.fails # Current(b)
         /\ task' = [task EXCEPT ![b] = CASE i = Len(Commands(world.sha)) -> <<"collect">>
                                          [] i = Len(Commands(world.sha)) - 1 -> <<"head">>
                                          [] OTHER -> <<"spawn", i + 1>>]
         /\ UNCHANGED <<holders, verdict>>
  BY Zenon DEF Waited
<1>. QED  BY <1>5, <1>6, <1>7

(* The time is up: the pipes of a killed shell still hold the pump.        *)
LEMMA TimeOut_Inv == ASSUME BuildsInv, NEW b \in Build, TimeOut(b) PROVE BuildsInv'
<1>1. /\ task[b][1] = "wait" /\ UNCHANGED <<world, place, link, workspace, lines>>
      /\ OnHost(b) \/ command[b].shell = "running"
      /\ Return(b, "late")
      /\ command' = IF OnHost(b) THEN command ELSE [command EXCEPT ![b].shell = "ended"]
  BY DEF TimeOut, At
<1>2. OnTrack(b) /\ BuildsTypeOK
  BY DEF BuildsInv
<1>3. ~OnHost(b) => "pipes" \in holders[b] \/ Garbles(b)
  BY <1>1, <1>2 DEF OnTrack, At, Quieted
<1>4. /\ command' \in [Build -> [shell : {"none", "running", "ended"}, rest : BOOLEAN]]
      /\ \A a \in Build \ {b} : command'[a] = command[a]
  <2>1. command \in [Build -> [shell : {"none", "running", "ended"}, rest : BOOLEAN]]
    BY <1>2 DEF BuildsTypeOK
  <2>2. CASE OnHost(b)
    BY <1>1, <2>1, <2>2
  <2>3. CASE ~OnHost(b)
    BY <1>1, <2>1, <2>3
  <2>. QED  BY <2>2, <2>3
<1>5. BuildsTypeOK'
  BY <1>1, <1>2, <1>4, ReturnIs DEF BuildsTypeOK, Verdict
<1>. QED  BY <1>1, <1>3, <1>4, <1>5, Returns DEF Verdict

(* What the world does to a command, and a pipe that closes.               *)
LEMMA World_Inv ==
    ASSUME BuildsInv, NEW b \in Build, ShellEnds(b) \/ RestEnds(b) \/ PipesClose(b)
    PROVE  BuildsInv'
<1>1. UNCHANGED <<world, task, place, link, workspace, lines, verdict>>
  BY DEF ShellEnds, RestEnds, PipesClose
<1>2. OnTrack(b) /\ BuildsTypeOK /\ (Comparable => Logged(b))
  BY DEF BuildsInv
<1>3. /\ command' \in [Build -> [shell : {"none", "running", "ended"}, rest : BOOLEAN]]
      /\ \A a \in Build \ {b} : command'[a] = command[a]
      /\ command[b] = Quiet => command'[b] = Quiet
      /\ Quieted(b) => Quieted(b)'
  <2>1. CASE ShellEnds(b)
    <3>1. command[b] # Quiet /\ ~Quieted(b)
      BY <2>1 DEF ShellEnds, Quiet, Quieted
    <3>2. PICK more \in {FALSE, command[b].rest} :
             command' = [command EXCEPT ![b] = [shell |-> "ended", rest |-> more]]
      BY <2>1 DEF ShellEnds
    <3>3. more \in BOOLEAN
      BY <1>2 DEF BuildsTypeOK
    <3>. QED  BY <1>2, <3>1, <3>2, <3>3 DEF BuildsTypeOK
  <2>2. CASE RestEnds(b)
    <3>1. command[b] # Quiet /\ command' = [command EXCEPT ![b].rest = FALSE]
      BY <2>2 DEF RestEnds, Quiet
    <3>2. command \in [Build -> [shell : {"none", "running", "ended"}, rest : BOOLEAN]]
      BY <1>2 DEF BuildsTypeOK
    <3>3. command' \in [Build -> [shell : {"none", "running", "ended"}, rest : BOOLEAN]]
      BY <3>1, <3>2
    <3>4. \A a \in Build \ {b} : command'[a] = command[a]
      BY <3>1, <3>2
    <3>5. command'[b].shell = command[b].shell /\ command'[b].rest = FALSE
      BY <3>1, <3>2
    <3>. QED  BY <3>1, <3>3, <3>4, <3>5 DEF Quieted
  <2>3. CASE PipesClose(b)
    <3>1. command' = command
      BY <2>3 DEF PipesClose
    <3>. QED  BY <1>2, <3>1 DEF BuildsTypeOK, Quieted
  <2>. QED  BY <2>1, <2>2, <2>3
<1>4. /\ holders' \in [Build -> SUBSET {"engine", "build", "pipes"}]
      /\ \A a \in Build \ {b} : holders'[a] = holders[a]
      /\ "pipes" \in holders[b] => "pipes" \in holders'[b] \/ Quieted(b)'
      /\ holders[b] = {} => holders'[b] = {}
  <2>1. CASE holders' = holders
    BY <1>2, <2>1 DEF BuildsTypeOK
  <2>2. CASE PipesClose(b)
    <3>1. Quieted(b)' /\ holders' = [holders EXCEPT ![b] = holders[b] \ {"pipes"}]
      BY <2>2 DEF PipesClose, Quieted
    <3>. QED  BY <1>2, <3>1 DEF BuildsTypeOK
  <2>. QED  BY <2>1, <2>2 DEF ShellEnds, RestEnds
<1>5. BuildsTypeOK' /\ Elsewhere(b)
  BY <1>1, <1>2, <1>3, <1>4 DEF BuildsTypeOK, Elsewhere
<1>6. OnTrack(b)'
  BY <1>1, <1>2, <1>3, <1>4, SameWorld DEF OnTrack, At
<1>7. Comparable => Logged(b)'
  BY <1>1, <1>2, SameWorld DEF Logged, At
<1>. QED  BY <1>1, <1>5, <1>6, <1>7, OneBuild

(* A pump that breaks leaves whatever still writes on its own.             *)
LEMMA PumpBreaks_Inv == ASSUME BuildsInv, NEW b \in Build, PumpBreaks(b) PROVE BuildsInv'
<1>1. /\ UNCHANGED <<world, task, place, link, command, workspace, lines, verdict>>
      /\ holders' = [holders EXCEPT ![b] = holders[b] \ {"pipes"}] /\ Garbles(b)
      /\ (task[b][1] = "wait" /\ Current(b) = "build") \/ task[b][1] = "pump"
  BY DEF PumpBreaks, At
<1>2. OnTrack(b) /\ BuildsTypeOK /\ (Comparable => Logged(b))
  BY DEF BuildsInv
<1>3. BuildsTypeOK' /\ Elsewhere(b)
  BY <1>1, <1>2 DEF BuildsTypeOK, Elsewhere
<1>4. task[b][1] = "wait" => task[b][2] = CommandCount
  <2>1. SUFFICES ASSUME task[b][1] = "wait" PROVE task[b][2] = CommandCount
    OBVIOUS
  <2>2. task[b][2] \in 1 .. CommandCount /\ Commands(world.sha)[task[b][2]] = "build"
    BY <1>1, <1>2, <2>1 DEF OnTrack, Current
  <2>. QED  BY <1>2, <2>2, CommandsAre
<1>5. OnTrack(b)'
  BY <1>1, <1>2, <1>4, SameWorld DEF OnTrack, At, Quieted, Garbles
<1>6. Comparable => Logged(b)'
  BY <1>1, <1>2, SameWorld DEF Logged, At
<1>. QED  BY <1>1, <1>3, <1>5, <1>6, OneBuild

LEMMA Lose_Inv == ASSUME BuildsInv, NEW b \in Build, Lose(b) PROVE BuildsInv'
<1>1. /\ UNCHANGED <<world, task, place, command, holders, workspace, lines, verdict>>
      /\ link' = [link EXCEPT ![b] = FALSE] /\ OnHost(b)
  BY DEF Lose
<1>2. OnTrack(b) /\ BuildsTypeOK /\ (Comparable => Logged(b))
  BY DEF BuildsInv
<1>3. BuildsTypeOK' /\ Elsewhere(b) /\ ~link'[b]
  BY <1>1, <1>2 DEF BuildsTypeOK, Elsewhere
<1>4. OnTrack(b)'
  BY <1>1, <1>2, <1>3, SameWorld DEF OnTrack, At, Quieted
<1>5. Comparable => Logged(b)'
  BY <1>1, <1>2, <1>3, SameWorld DEF Logged, At
<1>. QED  BY <1>1, <1>3, <1>4, <1>5, OneBuild

LEMMA Broken_Inv == ASSUME BuildsInv, NEW b \in Build, Broken(b) PROVE BuildsInv'
<1>1. /\ OnHost(b) /\ ~link[b] /\ Return(b, "failed")
      /\ task[b][1] \in {"check", "spawn", "wait", "head", "collect"}
      /\ UNCHANGED <<world, place, link, command, workspace, lines>>
  BY DEF Broken
<1>2. BuildsTypeOK'
  BY <1>1, ReturnIs DEF BuildsInv, BuildsTypeOK, Verdict
<1>. QED  BY <1>1, <1>2, Returns DEF Verdict

LEMMA ReadHead_Inv == ASSUME BuildsInv, NEW b \in Build, ReadHead(b) PROVE BuildsInv'
<1>1. /\ task[b][1] = "head" /\ UNCHANGED <<world, place, link, command, workspace>>
      /\ (OnHost(b) => link[b])
  BY DEF ReadHead, HeadRead, At
<1>2. OnTrack(b) /\ BuildsTypeOK /\ (Comparable => Logged(b))
  BY DEF BuildsInv
<1>3. command[b] = Quiet /\ Quieted(b)
  BY <1>1, <1>2 DEF OnTrack, Quiet, Quieted
<1>4. HeadLine \in Seq(Text) /\ CommandCount \in {2, 4} /\ lines[b] \in Seq(Text)
  BY <1>2, CommandsAre DEF BuildsTypeOK
<1>5. CASE world.lacks = "command"
  <2>1. Return(b, "failed") /\ lines' = [lines EXCEPT ![b] = lines[b] \o HeadLine]
    BY <1>5 DEF ReadHead, HeadRead, HeadLine
  <2>2. lines' \in [Build -> Seq(Text)] /\ \A a \in Build \ {b} : lines'[a] = lines[a]
    <3>1. lines[b] \o HeadLine \in Seq(Text)
      BY <1>4, ConcatProperties
    <3>. QED  BY <1>2, <2>1, <3>1 DEF BuildsTypeOK
  <2>3. BuildsTypeOK'
    BY <1>1, <1>2, <2>1, <2>2, ReturnIs DEF BuildsTypeOK, Verdict
  <2>4. ~Comparable /\ Quieted(b)' /\ "failed" \in Verdict
    BY <1>1, <1>3, <1>5 DEF Comparable, Quieted, Verdict
  <2>. QED  BY <1>1, <2>1, <2>2, <2>3, <2>4, Returns
<1>6. CASE world.lacks # "command"
  <2>. DEFINE text == (lines[b] \o HeadLine) \o <<"running">>
  <2>1. /\ lines' = [lines EXCEPT ![b] = text]
        /\ task' = [task EXCEPT ![b] = <<"spawn", CommandCount>>]
        /\ UNCHANGED <<verdict, holders>>
    BY <1>6 DEF ReadHead, HeadRead, HeadLine, CommandCount
  <2>2. text \in Seq(Text)
    <3>1. "running" \in Text
      BY DEF Text
    <3>2. <<"running">> \in Seq(Text)
      BY <3>1, OneLine, Zenon
    <3>3. lines[b] \o HeadLine \in Seq(Text)
      BY <1>4, ConcatProperties
    <3>. QED  BY <3>2, <3>3, ConcatProperties
  <2>3. lines[b] = <<"cloning">> => text = UpToRunning
    BY Zenon DEF UpToRunning
  <2>. HIDE DEF text
  <2>4. /\ lines' \in [Build -> Seq(Text)] /\ lines'[b] = text
        /\ \A a \in Build \ {b} : lines'[a] = lines[a]
    BY <1>2, <2>1, <2>2 DEF BuildsTypeOK
  <2>5. /\ DOMAIN task' = Build /\ task' = [a \in Build |-> task'[a]]
        /\ task'[b] = <<"spawn", CommandCount>> /\ \A a \in Build \ {b} : task'[a] = task[a]
    BY <1>2, <2>1, TaskOf
  <2>6. task'[b][1] = "spawn" /\ task'[b][2] = CommandCount
    BY <2>5
  <2>7. BuildsTypeOK' /\ Elsewhere(b)
    BY <1>1, <1>2, <2>1, <2>4, <2>5 DEF BuildsTypeOK, Elsewhere
  <2>8. OnTrack(b)'
    BY <1>1, <1>2, <1>3, <1>4, <2>1, <2>6, SameWorld DEF OnTrack, At
  <2>9. ASSUME Comparable PROVE Logged(b)'
    <3>1. lines'[b] = UpToRunning /\ Cloned
      BY <1>1, <1>2, <2>3, <2>4, <2>9 DEF Logged, At
    <3>2. ~(task'[b][2] < CommandCount) /\ CommandCount' = CommandCount /\ UpToRunning' = UpToRunning /\ Cloned' = Cloned
      BY <1>1, <1>4, <2>6, SameWorld
    <3>. QED  BY <2>6, <3>1, <3>2 DEF Logged, At
  <2>. QED  BY <1>1, <2>7, <2>8, <2>9, OneBuild
<1>. QED  BY <1>5, <1>6

LEMMA Collect_Inv == ASSUME BuildsInv, NEW b \in Build, Collect(b) PROVE BuildsInv'
<1>. DEFINE whole == {"file"} \cup (IF OnHost(b) THEN {} ELSE {"huge"})
<1>1. /\ task[b][1] = "collect" /\ UNCHANGED <<world, place, link, command, workspace>>
      /\ (OnHost(b) => link[b])
  BY DEF Collect, At
<1>2. OnTrack(b) /\ BuildsTypeOK /\ (Comparable => Logged(b))
  BY DEF BuildsInv
<1>3. Quieted(b) \/ Garbles(b)
  BY <1>1, <1>2 DEF OnTrack, At
<1>a. Quieted(b)' = Quieted(b) /\ (OnHost(b) => Quieted(b))
  BY <1>1, <1>3 DEF Quieted, Garbles
<1>4. Comparable => lines[b] = Said /\ Cloned /\ world.fails # "build"
  BY <1>1, <1>2 DEF Logged, At
<1>b. Comparable => (world.lacks # "path" /\ world.artifact \in whole <=> world.artifact = "file")
  <2>1. world.artifact # "huge" => (world.artifact \in whole <=> world.artifact = "file")
    OBVIOUS
  <2>. QED  BY <2>1 DEF Comparable
<1>c. \/ world.lacks # "path" /\ world.artifact \in whole /\ Say(b, "built") /\ Return(b, "artifact")
      \/ ~(world.lacks # "path" /\ world.artifact \in whole) /\ Return(b, "failed") /\ UNCHANGED lines
  BY Zenon DEF Collect
<1>. HIDE DEF whole
<1>5. CASE world.lacks # "path" /\ world.artifact \in whole /\ Say(b, "built") /\ Return(b, "artifact")
  <2>1. /\ lines' \in [Build -> Seq(Text)] /\ lines'[b] = Append(lines[b], "built")
        /\ \A a \in Build \ {b} : lines'[a] = lines[a]
    BY <1>2, <1>5, SayIs DEF Text
  <2>2. BuildsTypeOK'
    BY <1>1, <1>2, <1>5, <2>1, ReturnIs DEF BuildsTypeOK, Verdict
  <2>3. Comparable => world.artifact = "file"
    BY <1>5, <1>b
  <2>4. Comparable => lines'[b] = LogOf(world)
    BY <1>2, <1>4, <2>1, <2>3, LogOfIs, Zenon
  <2>. QED  BY <1>1, <1>3, <1>5, <1>a, <2>1, <2>2, <2>4, Returns DEF Verdict
<1>6. CASE ~(world.lacks # "path" /\ world.artifact \in whole) /\ Return(b, "failed") /\ UNCHANGED lines
  <2>2. BuildsTypeOK'
    BY <1>1, <1>2, <1>6, ReturnIs DEF BuildsTypeOK, Verdict
  <2>3. Comparable => world.artifact # "file"
    BY <1>6, <1>b
  <2>4. Comparable => lines'[b] = LogOf(world)
    BY <1>2, <1>4, <1>6, <2>3, LogOfIs, Zenon
  <2>. QED  BY <1>1, <1>3, <1>6, <1>a, <2>2, <2>4, Returns DEF Verdict
<1>. QED  BY <1>5, <1>6, <1>c

(* The pump, and what is cleaned up behind it.                             *)
LEMMA DropSender_Inv == ASSUME BuildsInv, NEW b \in Build, DropSender(b) PROVE BuildsInv'
<1>1. /\ task[b][1] = "pump" /\ holders' = [holders EXCEPT ![b] = holders[b] \ {"engine"}]
      /\ UNCHANGED <<world, task, place, link, command, workspace, lines, verdict>>
  BY DEF DropSender, At
<1>2. OnTrack(b) /\ BuildsTypeOK /\ (Comparable => Logged(b))
  BY DEF BuildsInv
<1>3. /\ holders' \in [Build -> SUBSET {"engine", "build", "pipes"}]
      /\ "pipes" \in holders'[b] <=> "pipes" \in holders[b]
      /\ \A a \in Build \ {b} : holders'[a] = holders[a]
  BY <1>1, <1>2 DEF BuildsTypeOK
<1>4. BuildsTypeOK' /\ Elsewhere(b)
  BY <1>1, <1>2, <1>3 DEF BuildsTypeOK, Elsewhere
<1>5. OnTrack(b)'
  BY <1>1, <1>2, <1>3, SameWorld DEF OnTrack, At, Quieted
<1>6. Comparable => Logged(b)'
  BY <1>1, <1>2, SameWorld DEF Logged, At
<1>. QED  BY <1>1, <1>4, <1>5, <1>6, OneBuild

LEMMA PumpEnds_Inv == ASSUME BuildsInv, NEW b \in Build, PumpEnds(b) PROVE BuildsInv'
<1>1. /\ task[b][1] = "pump" /\ holders[b] = {} /\ task' = [task EXCEPT ![b] = <<"cleanup">>]
      /\ UNCHANGED <<world, place, link, command, holders, workspace, lines, verdict>>
  BY DEF PumpEnds, At, Goto
<1>2. OnTrack(b) /\ BuildsTypeOK /\ (Comparable => Logged(b))
  BY DEF BuildsInv
<1>3. /\ DOMAIN task' = Build /\ task' = [a \in Build |-> task'[a]]
      /\ task'[b] = <<"cleanup">> /\ \A a \in Build \ {b} : task'[a] = task[a]
  BY <1>1, <1>2, TaskOf
<1>4. BuildsTypeOK' /\ Elsewhere(b) /\ task'[b][1] = "cleanup"
  BY <1>1, <1>2, <1>3 DEF BuildsTypeOK, Elsewhere
<1>5. OnTrack(b)'
  BY <1>1, <1>2, <1>4, SameWorld DEF OnTrack, At, Quieted
<1>6. Comparable => Logged(b)'
  BY <1>1, <1>2, <1>4, SameWorld DEF Logged, At
<1>. QED  BY <1>1, <1>4, <1>5, <1>6, OneBuild

LEMMA CleanUp_Inv == ASSUME BuildsInv, NEW b \in Build, CleanUp(b) PROVE BuildsInv'
<1>1. /\ task[b][1] = "cleanup" /\ task' = [task EXCEPT ![b] = <<"done">>]
      /\ UNCHANGED <<world, place, link, command, holders, lines, verdict>>
  BY DEF CleanUp, At, Goto
<1>2. OnTrack(b) /\ BuildsTypeOK /\ (Comparable => Logged(b))
  BY DEF BuildsInv
<1>3. /\ DOMAIN task' = Build /\ task' = [a \in Build |-> task'[a]]
      /\ task'[b] = <<"done">> /\ \A a \in Build \ {b} : task'[a] = task[a]
  BY <1>1, <1>2, TaskOf
<1>a. PICK left \in {Kept(b)} \cup (IF OnHost(b) /\ ~link[b] THEN {} ELSE {"none"}) :
         workspace' = [workspace EXCEPT ![b] = left]
  BY DEF CleanUp
<1>b. left = Kept(b) \/ left = "none"
  BY <1>a
<1>4. left \in {"none", "there", "unremoved"}
  BY <1>2, <1>b DEF Kept, BuildsTypeOK
<1>5. /\ workspace' \in [Build -> {"none", "there", "unremoved"}] /\ workspace'[b] = left
      /\ \A a \in Build \ {b} : workspace'[a] = workspace[a]
  BY <1>2, <1>a, <1>4 DEF BuildsTypeOK
<1>6. BuildsTypeOK' /\ Elsewhere(b) /\ task'[b][1] = "done"
  BY <1>1, <1>2, <1>3, <1>5 DEF BuildsTypeOK, Elsewhere
<1>7. left = "there" => (OnHost(b) /\ ~link[b]) \/ ~Quieted(b)
  BY <1>b DEF Kept
<1>8. ~Quieted(b) => (OnHost(b) /\ (~link[b] \/ verdict[b] = "late")) \/ Garbles(b)
  BY <1>1, <1>2 DEF OnTrack, At
<1>9. OnTrack(b)'
  BY <1>1, <1>2, <1>5, <1>6, <1>7, <1>8, SameWorld DEF OnTrack, At
<1>10. Comparable => Logged(b)'
  BY <1>1, <1>2, <1>6, SameWorld DEF Logged, At
<1>. QED  BY <1>1, <1>6, <1>9, <1>10, OneBuild

LEMMA ServerDies_Inv == BuildsInv /\ ServerDies => BuildsInv'
<1>. SUFFICES ASSUME BuildsInv, ServerDies PROVE BuildsInv'
  OBVIOUS
<1>1. /\ task' = [b \in Build |-> IF At(b, "done") THEN task[b] ELSE <<"lost">>]
      /\ holders' = [b \in Build |-> {}]
      /\ UNCHANGED <<world, place, link, command, workspace, lines, verdict>>
  BY DEF ServerDies
<1>2. BuildsTypeOK'
  BY <1>1 DEF BuildsInv, BuildsTypeOK
<1>3. ASSUME NEW b \in Build PROVE OnTrack(b)' /\ (Comparable => Logged(b)')
  <2>1. OnTrack(b) /\ (Comparable => Logged(b))
    BY DEF BuildsInv
  <2>2. CASE task[b][1] = "done"
    <3>1. task'[b] = task[b]
      BY <1>1, <2>2 DEF At
    <3>2. UNCHANGED <<world, place>> /\ holders'[b] = {}
      BY <1>1
    <3>3. OnTrack(b)'
      BY <1>1, <2>1, <2>2, <3>1, SameWorld DEF OnTrack, At
    <3>4. Comparable => Logged(b)'
      BY <1>1, <2>1, <3>1, SameWorld DEF Logged, At
    <3>. QED  BY <3>3, <3>4
  <2>3. CASE task[b][1] # "done"
    <3>1. task'[b][1] = "lost"
      BY <1>1, <2>3 DEF At
    <3>. QED  BY <1>1, <2>1, <3>1, SameWorld DEF OnTrack, Logged, At
  <2>. QED  BY <2>2, <2>3
<1>4. Comparable' = Comparable
  BY <1>1, SameWorld
<1>. QED  BY <1>2, <1>3, <1>4 DEF BuildsInv

LEMMA BuildsNext_Inv == BuildsInv /\ [BuildsNext]_buildsVars => BuildsInv'
<1>. SUFFICES ASSUME BuildsInv, [BuildsNext]_buildsVars PROVE BuildsInv'
  OBVIOUS
<1>1. ASSUME NEW b \in Build, Step(b) PROVE BuildsInv'
  BY <1>1, Prepare_Inv, Check_Inv, Spawn_Inv, Waited_Inv, ReadHead_Inv, Collect_Inv, Broken_Inv,
     DropSender_Inv, PumpEnds_Inv, CleanUp_Inv DEF Step
<1>2. ASSUME NEW b \in Build,
             TimeOut(b) \/ PipesClose(b) \/ PumpBreaks(b) \/ ShellEnds(b) \/ RestEnds(b) \/ Lose(b)
      PROVE  BuildsInv'
  BY <1>2, TimeOut_Inv, World_Inv, PumpBreaks_Inv, Lose_Inv
<1>3. CASE UNCHANGED buildsVars
  <2>1. UNCHANGED <<world, task, place, link, command, holders, workspace, lines, verdict>>
    BY <1>3 DEF buildsVars
  <2>2. BuildsTypeOK'
    BY <2>1 DEF BuildsInv, BuildsTypeOK
  <2>a. ASSUME NEW b \in Build PROVE OnTrack(b)' /\ (Comparable => Logged(b)')
    BY <2>1, Unmoved DEF BuildsInv
  <2>3. \A b \in Build : OnTrack(b)' /\ (Comparable' => Logged(b)')
    BY <2>1, <2>a, SameWorld
  <2>. QED  BY <2>1, <2>2, <2>3 DEF BuildsInv
<1>. QED  BY <1>1, <1>2, <1>3, ServerDies_Inv DEF BuildsNext

LEMMA BuildsInvariant == Spec => []BuildsInv
<1>1. Init => BuildsInv
  BY BuildsInit_Inv DEF Init
<1>2. BuildsInv /\ [Next]_vars => BuildsInv'
  BY BuildsNext_Inv DEF Next, vars
<1>. QED  BY <1>1, <1>2, PTL DEF Spec

(* A build that is over has left no directory behind but one that could    *)
(* not be removed when nothing ran in it any more, but for a lost session  *)
(* or a command cut off on a build host and for output on the control      *)
(* plane that is not text (Engine::build, git.rs, build_host.rs).          *)
THEOREM BuildsCleanUp == Spec => []WorkspaceGone
<1>1. BuildsInv => WorkspaceGone
  BY DEF BuildsInv, OnTrack, WorkspaceGone
<1>. QED  BY <1>1, BuildsInvariant, PTL

(* A build of a complete definition that ran its course has logged the     *)
(* same lines on the control plane and on a build host, if its output is   *)
(* text and its artifact no more than a build host may send (git.rs,       *)
(* build_host.rs).                                                         *)
THEOREM BuildsLogAlike == Spec => []SameLogWherever
<1>1. BuildsInv => SameLogWherever
  BY DEF BuildsInv, Logged, Comparable, SameLogWherever, RanItsCourse, At
<1>. QED  BY <1>1, BuildsInvariant, PTL

(***************************************************************************)
(* The lines of a command.                                                 *)
(***************************************************************************)
Line == Seq(Byte) \cup {Trimmed(line) : line \in Seq(Byte)}

\* A sequence of bytes that is nothing or whole lines.
Whole(a) == a # <<>> => a[Len(a)] = Newline

LEMMA NewlinesAreFew ==
  ASSUME NEW a \in Seq(Byte)
  PROVE  /\ Len(a) \in Nat /\ Newlines(a) \in SUBSET (1 .. Len(a))
         /\ Cardinality(Newlines(a)) \in Nat
         /\ \A n \in 1 .. Cardinality(Newlines(a)) : Nth(Newlines(a), n) \in 1 .. Len(a)
<1>1. Len(a) \in Nat
  BY LenProperties
<1>2. Newlines(a) \in SUBSET (1 .. Len(a))
  BY DEF Newlines
<1>3. Cardinality(Newlines(a)) \in Nat /\ \A n \in 1 .. Cardinality(Newlines(a)) : Nth(Newlines(a), n) \in Newlines(a)
  BY <1>1, <1>2, NthInOrder
<1>. QED  BY <1>1, <1>2, <1>3

\* Where the n-th line of some bytes starts.
Start(a, n) == IF n = 1 THEN 1 ELSE Nth(Newlines(a), n - 1) + 1

LEMMA StartType ==
  ASSUME NEW a \in Seq(Byte), NEW n \in 1 .. Cardinality(Newlines(a))
  PROVE  Start(a, n) \in 1 .. Len(a) + 1
<1>1. Len(a) \in Nat /\ Cardinality(Newlines(a)) \in Nat
  BY NewlinesAreFew
<1>2. CASE n = 1
  BY <1>1, <1>2 DEF Start
<1>3. CASE n # 1
  <2>1. n - 1 \in 1 .. Cardinality(Newlines(a))
    BY <1>1, <1>3
  <2>2. Nth(Newlines(a), n - 1) \in 1 .. Len(a)
    BY <2>1, NewlinesAreFew
  <2>. QED  BY <1>1, <1>3, <2>2 DEF Start
<1>. QED  BY <1>2, <1>3

LEMMA PartType ==
  ASSUME NEW a \in Seq(Byte), NEW i \in 1 .. Len(a) + 1, NEW j \in 0 .. Len(a)
  PROVE  /\ SubSeq(a, i, j) \in Seq(Byte)
         /\ Len(SubSeq(a, i, j)) = IF i <= j THEN j - i + 1 ELSE 0
         /\ \A k \in 1 .. j - i + 1 : SubSeq(a, i, j)[k] = a[i + k - 1]
<1>1. Len(a) \in Nat
  BY LenProperties
<1>2. i \in Int /\ j \in Int
  BY <1>1
<1>3. \A k \in i .. j : a[k] \in Byte
  <2>1. i .. j \subseteq 1 .. Len(a)
    BY <1>1
  <2>. QED  BY <2>1, ElementOfSeq
<1>. QED  BY <1>2, <1>3, SubSeqProperties

LEMMA CompleteType ==
  ASSUME NEW a \in Seq(Byte)
  PROVE  /\ Complete(a) \in Seq(Line) /\ Len(Complete(a)) = Cardinality(Newlines(a))
         /\ \A n \in 1 .. Cardinality(Newlines(a)) :
               Complete(a)[n] = Trimmed(SubSeq(a, Start(a, n), Nth(Newlines(a), n)))
<1>. DEFINE c == Cardinality(Newlines(a))  e(n) == Trimmed(SubSeq(a, Start(a, n), Nth(Newlines(a), n)))
<1>1. Len(a) \in Nat /\ c \in Nat
  BY NewlinesAreFew
<1>2. ASSUME NEW n \in 1 .. c PROVE e(n) \in Line
  <2>1. Start(a, n) \in 1 .. Len(a) + 1 /\ Nth(Newlines(a), n) \in 0 .. Len(a)
    BY <1>1, StartType, NewlinesAreFew
  <2>2. SubSeq(a, Start(a, n), Nth(Newlines(a), n)) \in Seq(Byte)
    BY <2>1, PartType
  <2>. QED  BY <2>2 DEF Line
<1>3. Complete(a) = [n \in 1 .. c |-> e(n)]
  BY DEF Complete, Start
<1>. HIDE DEF c, e
<1>4. [n \in 1 .. c |-> e(n)] \in Seq(Line)
  BY <1>1, <1>2, IsASeq
<1>5. Len([n \in 1 .. c |-> e(n)]) = c
  BY <1>1
<1>. QED  BY <1>3, <1>4, <1>5 DEF c, e

\* The end of the last line.
LastEnd(a) == IF Newlines(a) = {} THEN 0 ELSE Nth(Newlines(a), Cardinality(Newlines(a)))

LEMMA LastEndIs ==
  ASSUME NEW a \in Seq(Byte)
  PROVE  /\ LastEnd(a) \in 0 .. Len(a) /\ (LastEnd(a) # 0 => LastEnd(a) \in Newlines(a))
         /\ \A i \in Newlines(a) : i <= LastEnd(a)
         /\ Remainder(a) = SubSeq(a, LastEnd(a) + 1, Len(a))
<1>. DEFINE ends == Newlines(a)  c == Cardinality(ends)
<1>1. Len(a) \in Nat /\ ends \in SUBSET (1 .. Len(a))
  BY NewlinesAreFew
<1>2. CASE ends = {}
  <2>1. SubSeq(a, 1, Len(a)) = a
    <3>1. /\ SubSeq(a, 1, Len(a)) \in Seq(Byte) /\ Len(SubSeq(a, 1, Len(a))) = Len(a)
          /\ \A k \in 1 .. Len(a) : SubSeq(a, 1, Len(a))[k] = a[k]
      BY <1>1, PartType
    <3>. QED  BY <3>1, SeqEqual
  <2>2. LastEnd(a) = 0 /\ Remainder(a) = a
    BY <1>2 DEF LastEnd, Remainder
  <2>. QED  BY <1>1, <1>2, <2>1, <2>2
<1>3. CASE ends # {}
  <2>1. /\ c \in Nat
        /\ \A n \in 1 .. c : Nth(ends, n) \in ends
        /\ \A n, k \in 1 .. c : n < k => Nth(ends, n) < Nth(ends, k)
        /\ \A i \in ends : \E n \in 1 .. c : Nth(ends, n) = i
    BY <1>1, NthInOrder
  <2>. DEFINE last == Nth(ends, c)
  <2>2. c \in 1 .. c
    <3>1. PICK n \in 1 .. c : TRUE
      BY <1>3, <2>1
    <3>. QED  BY <2>1, <3>1
  <2>3. last \in ends
    BY <2>1, <2>2
  <2>4. \A i \in ends : i \in Nat
    BY <1>1
  <2>5. ASSUME NEW i \in ends PROVE i <= last
    <3>1. PICK n \in 1 .. c : Nth(ends, n) = i
      BY <2>1
    <3>2. n = c \/ n < c
      BY <2>1
    <3>. QED  BY <2>1, <2>2, <2>3, <2>4, <3>1, <3>2
  <2>6. LastEnd(a) = last
    BY <1>3 DEF LastEnd
  <2>. HIDE DEF last
  <2>7. \A i \in ends : (\A j \in ends : j <= i) => i = last
    BY <2>3, <2>4, <2>5
  <2>8. (CHOOSE i \in ends : \A j \in ends : j <= i) = last
    BY <2>3, <2>5, <2>7
  <2>9. Remainder(a) = SubSeq(a, 1 + last, Len(a))
    BY <1>3, <2>8 DEF Remainder
  <2>10. last \in 1 .. Len(a)
    BY <1>1, <2>3
  <2>. QED  BY <1>1, <2>3, <2>5, <2>6, <2>9, <2>10
<1>. QED  BY <1>2, <1>3

LEMMA RemainderType ==
  ASSUME NEW a \in Seq(Byte)
  PROVE  Remainder(a) \in Seq(Byte) /\ Len(Remainder(a)) \in Nat /\ Newlines(Remainder(a)) = {}
<1>1. /\ LastEnd(a) \in 0 .. Len(a) /\ Remainder(a) = SubSeq(a, LastEnd(a) + 1, Len(a))
      /\ \A i \in Newlines(a) : i <= LastEnd(a)
  BY LastEndIs
<1>2. Len(a) \in Nat
  BY LenProperties
<1>3. LastEnd(a) + 1 \in 1 .. Len(a) + 1 /\ Len(a) \in 0 .. Len(a)
  BY <1>1, <1>2
<1>4. /\ Remainder(a) \in Seq(Byte)
      /\ Len(Remainder(a)) = IF LastEnd(a) + 1 <= Len(a) THEN Len(a) - (LastEnd(a) + 1) + 1 ELSE 0
      /\ \A k \in 1 .. Len(a) - (LastEnd(a) + 1) + 1 : Remainder(a)[k] = a[LastEnd(a) + 1 + k - 1]
  <2>. DEFINE i == LastEnd(a) + 1  j == Len(a)
  <2>1. i \in 1 .. Len(a) + 1 /\ j \in 0 .. Len(a) /\ Remainder(a) = SubSeq(a, i, j)
    BY <1>1, <1>3
  <2>. HIDE DEF i, j
  <2>2. /\ SubSeq(a, i, j) \in Seq(Byte)
        /\ Len(SubSeq(a, i, j)) = IF i <= j THEN j - i + 1 ELSE 0
        /\ \A k \in 1 .. j - i + 1 : SubSeq(a, i, j)[k] = a[i + k - 1]
    BY <2>1, PartType
  <2>. QED  BY <2>1, <2>2, Zenon DEF i, j
<1>5. Len(Remainder(a)) = Len(a) - LastEnd(a)
  BY <1>1, <1>2, <1>4
<1>6. ASSUME NEW k \in Newlines(Remainder(a)) PROVE FALSE
  <2>1. k \in 1 .. Len(a) - LastEnd(a) /\ Remainder(a)[k] = Newline
    BY <1>5 DEF Newlines
  <2>2. Remainder(a)[k] = a[LastEnd(a) + k] /\ LastEnd(a) + k \in 1 .. Len(a)
    BY <1>1, <1>2, <1>4, <2>1
  <2>3. LastEnd(a) + k \in Newlines(a)
    BY <2>1, <2>2 DEF Newlines
  <2>. QED  BY <1>1, <1>2, <2>1, <2>3
<1>. QED  BY <1>4, <1>6, LenProperties

LEMMA PartOfConcat ==
  ASSUME NEW a \in Seq(Byte), NEW d \in Seq(Byte)
  PROVE  /\ a \o d \in Seq(Byte) /\ Len(a \o d) = Len(a) + Len(d) /\ Len(a) \in Nat /\ Len(d) \in Nat
         /\ \A k \in 1 .. Len(a) : (a \o d)[k] = a[k]
         /\ \A k \in 1 .. Len(d) : (a \o d)[Len(a) + k] = d[k]
         /\ \A i \in 1 .. Len(a) + 1, j \in 0 .. Len(a) : SubSeq(a \o d, i, j) = SubSeq(a, i, j)
         /\ \A i \in 1 .. Len(d) + 1, j \in 0 .. Len(d) :
               SubSeq(a \o d, Len(a) + i, Len(a) + j) = SubSeq(d, i, j)
<1>. DEFINE w == a \o d
<1>1. Len(a) \in Nat /\ Len(d) \in Nat
  BY LenProperties
<1>2. /\ w \in Seq(Byte) /\ Len(w) = Len(a) + Len(d)
      /\ \A k \in 1 .. Len(a) + Len(d) : w[k] = IF k <= Len(a) THEN a[k] ELSE d[k - Len(a)]
  BY ConcatProperties
<1>. HIDE DEF w
<1>3. ASSUME NEW k \in 1 .. Len(a) PROVE w[k] = a[k]
  BY <1>1, <1>2
<1>4. ASSUME NEW k \in 1 .. Len(d) PROVE w[Len(a) + k] = d[k]
  <2>1. Len(a) + k \in 1 .. Len(a) + Len(d) /\ ~(Len(a) + k <= Len(a)) /\ (Len(a) + k) - Len(a) = k
    BY <1>1
  <2>. QED  BY <1>2, <2>1
<1>5. ASSUME NEW i \in 1 .. Len(a) + 1, NEW j \in 0 .. Len(a) PROVE SubSeq(w, i, j) = SubSeq(a, i, j)
  <2>1. /\ SubSeq(a, i, j) \in Seq(Byte)
        /\ Len(SubSeq(a, i, j)) = IF i <= j THEN j - i + 1 ELSE 0
        /\ \A k \in 1 .. j - i + 1 : SubSeq(a, i, j)[k] = a[i + k - 1]
    BY PartType
  <2>2. i \in 1 .. Len(w) + 1 /\ j \in 0 .. Len(w)
    BY <1>1, <1>2
  <2>3. /\ SubSeq(w, i, j) \in Seq(Byte)
        /\ Len(SubSeq(w, i, j)) = IF i <= j THEN j - i + 1 ELSE 0
        /\ \A k \in 1 .. j - i + 1 : SubSeq(w, i, j)[k] = w[i + k - 1]
    BY <1>2, <2>2, PartType
  <2>4. ASSUME NEW k \in 1 .. Len(SubSeq(w, i, j)) PROVE SubSeq(w, i, j)[k] = SubSeq(a, i, j)[k]
    <3>1. k \in 1 .. j - i + 1 /\ i + k - 1 \in 1 .. Len(a)
      BY <1>1, <2>3
    <3>. QED  BY <1>3, <2>1, <2>3, <3>1
  <2>. QED  BY <2>1, <2>3, <2>4, SeqEqual
<1>6. ASSUME NEW i \in 1 .. Len(d) + 1, NEW j \in 0 .. Len(d)
      PROVE  SubSeq(w, Len(a) + i, Len(a) + j) = SubSeq(d, i, j)
  <2>. DEFINE m == Len(a) + i  n == Len(a) + j
  <2>1. /\ SubSeq(d, i, j) \in Seq(Byte)
        /\ Len(SubSeq(d, i, j)) = IF i <= j THEN j - i + 1 ELSE 0
        /\ \A k \in 1 .. j - i + 1 : SubSeq(d, i, j)[k] = d[i + k - 1]
    BY PartType
  <2>2. /\ m \in 1 .. Len(w) + 1 /\ n \in 0 .. Len(w) /\ n - m + 1 = j - i + 1
        /\ (m <= n <=> i <= j)
    BY <1>1, <1>2
  <2>. HIDE DEF m, n
  <2>3. /\ SubSeq(w, m, n) \in Seq(Byte)
        /\ Len(SubSeq(w, m, n)) = IF m <= n THEN n - m + 1 ELSE 0
        /\ \A k \in 1 .. n - m + 1 : SubSeq(w, m, n)[k] = w[m + k - 1]
    BY <1>2, <2>2, PartType
  <2>5. Len(SubSeq(w, m, n)) = Len(SubSeq(d, i, j))
    BY <2>1, <2>2, <2>3
  <2>4. ASSUME NEW k \in 1 .. Len(SubSeq(w, m, n)) PROVE SubSeq(w, m, n)[k] = SubSeq(d, i, j)[k]
    <3>. DEFINE l == Len(SubSeq(w, m, n))
    <3>0. l = (IF i <= j THEN j - i + 1 ELSE 0) /\ k \in 1 .. l
      BY <2>1, <2>5
    <3>. HIDE DEF l
    <3>1. k \in 1 .. j - i + 1 /\ i + k - 1 \in 1 .. Len(d) /\ m + k - 1 = Len(a) + (i + k - 1)
      BY <1>1, <3>0 DEF m
    <3>2. w[m + k - 1] = d[i + k - 1]
      BY <1>4, <3>1
    <3>. QED  BY <2>1, <2>2, <2>3, <3>1, <3>2
  <2>6. SubSeq(w, m, n) = SubSeq(d, i, j)
    BY <2>1, <2>3, <2>4, <2>5, SeqEqual
  <2>. QED  BY <2>6 DEF m, n
<1>7. \A i \in 1 .. Len(a) + 1, j \in 0 .. Len(a) : SubSeq(w, i, j) = SubSeq(a, i, j)
  BY <1>5
<1>8. \A i \in 1 .. Len(d) + 1, j \in 0 .. Len(d) :
         SubSeq(w, Len(a) + i, Len(a) + j) = SubSeq(d, i, j)
  BY <1>6
<1>9. (\A k \in 1 .. Len(a) : w[k] = a[k]) /\ \A k \in 1 .. Len(d) : w[Len(a) + k] = d[k]
  BY <1>3, <1>4
<1>. QED  BY <1>1, <1>2, <1>7, <1>8, <1>9, Zenon DEF w

\* What is behind whole lines is read by itself.
LEMMA NewlinesOfConcat ==
  ASSUME NEW a \in Seq(Byte), NEW d \in Seq(Byte)
  PROVE  LET ca == Cardinality(Newlines(a))
             cd == Cardinality(Newlines(d))
         IN  /\ Cardinality(Newlines(a \o d)) = ca + cd
             /\ \A n \in 1 .. ca : Nth(Newlines(a \o d), n) = Nth(Newlines(a), n)
             /\ \A n \in 1 .. cd : Nth(Newlines(a \o d), ca + n) = Len(a) + Nth(Newlines(d), n)
<1>. DEFINE w == a \o d  Na == Newlines(a)  Nd == Newlines(d)  Nw == Newlines(w)
            ca == Cardinality(Na)  cd == Cardinality(Nd)
            p(n) == Nth(Na, n)  q(n) == Nth(Nd, n)
            g(n) == IF n <= ca THEN p(n) ELSE Len(a) + q(n - ca)
            f == [n \in 1 .. ca + cd |-> g(n)]
<1>1. /\ w \in Seq(Byte) /\ Len(w) = Len(a) + Len(d) /\ Len(a) \in Nat /\ Len(d) \in Nat
      /\ \A k \in 1 .. Len(a) : w[k] = a[k]
      /\ \A k \in 1 .. Len(d) : w[Len(a) + k] = d[k]
  BY PartOfConcat
<1>2. Na \in SUBSET (1 .. Len(a)) /\ Nd \in SUBSET (1 .. Len(d)) /\ Nw \in SUBSET (1 .. Len(w)) /\ Len(w) \in Nat
  BY <1>1, NewlinesAreFew
<1>3. /\ ca \in Nat
      /\ \A n \in 1 .. ca : p(n) \in Na
      /\ \A n, k \in 1 .. ca : n < k => p(n) < p(k)
      /\ \A i \in Na : \E n \in 1 .. ca : p(n) = i
  BY <1>1, <1>2, NthInOrder
<1>4. /\ cd \in Nat
      /\ \A n \in 1 .. cd : q(n) \in Nd
      /\ \A n, k \in 1 .. cd : n < k => q(n) < q(k)
      /\ \A i \in Nd : \E n \in 1 .. cd : q(n) = i
  BY <1>1, <1>2, NthInOrder
<1>5. /\ \A i \in Na : i \in 1 .. Len(a) /\ i \in Nw
      /\ \A i \in Nd : i \in 1 .. Len(d) /\ Len(a) + i \in Nw
      /\ \A i \in Nw : i \in Na \/ i - Len(a) \in Nd
  <2>1. ASSUME NEW i \in Na PROVE i \in 1 .. Len(a) /\ i \in Nw
    <3>1. i \in 1 .. Len(a) /\ a[i] = Newline /\ i \in 1 .. Len(w)
      BY <1>1 DEF Newlines
    <3>. QED  BY <1>1, <3>1 DEF Newlines
  <2>2. ASSUME NEW i \in Nd PROVE i \in 1 .. Len(d) /\ Len(a) + i \in Nw
    <3>1. i \in 1 .. Len(d) /\ d[i] = Newline
      BY DEF Newlines
    <3>2. Len(a) + i \in 1 .. Len(w)
      BY <1>1, <3>1
    <3>. QED  BY <1>1, <3>1, <3>2 DEF Newlines
  <2>3. ASSUME NEW i \in Nw PROVE i \in Na \/ i - Len(a) \in Nd
    <3>1. i \in 1 .. Len(w) /\ w[i] = Newline
      BY DEF Newlines
    <3>2. CASE i <= Len(a)
      <4>1. i \in 1 .. Len(a)
        BY <1>1, <3>1, <3>2
      <4>. QED  BY <1>1, <3>1, <4>1 DEF Newlines
    <3>3. CASE ~(i <= Len(a))
      <4>1. i - Len(a) \in 1 .. Len(d) /\ Len(a) + (i - Len(a)) = i
        BY <1>1, <3>1, <3>3
      <4>2. d[i - Len(a)] = Newline
        BY <1>1, <3>1, <4>1
      <4>. QED  BY <4>1, <4>2 DEF Newlines
    <3>. QED  BY <3>2, <3>3
  <2>. QED  BY <2>1, <2>2, <2>3
<1>. HIDE DEF p, q, w, Na, Nd, Nw, ca, cd
<1>6. ASSUME NEW n \in 1 .. ca + cd
      PROVE  /\ n <= ca => n \in 1 .. ca /\ p(n) \in Na /\ p(n) \in 1 .. Len(a)
             /\ ~(n <= ca) => n - ca \in 1 .. cd /\ q(n - ca) \in Nd /\ q(n - ca) \in 1 .. Len(d)
  <2>1. n <= ca => n \in 1 .. ca
    BY <1>3, <1>4
  <2>2. ~(n <= ca) => n - ca \in 1 .. cd
    BY <1>3, <1>4
  <2>. QED  BY <1>3, <1>4, <1>5, <2>1, <2>2
<1>7. ASSUME NEW n \in 1 .. ca + cd PROVE g(n) \in Nw
  BY <1>5, <1>6
<1>8. f \in [1 .. ca + cd -> Nw]
  BY <1>7
<1>9. ASSUME NEW k \in 1 .. ca + cd, NEW l \in 1 .. ca + cd, k < l PROVE g(k) < g(l)
  <2>1. k \in Nat /\ l \in Nat
    BY <1>3, <1>4
  <2>2. CASE l <= ca
    BY <1>3, <1>6, <1>9, <2>1, <2>2
  <2>3. CASE ~(l <= ca) /\ k <= ca
    BY <1>1, <1>3, <1>6, <2>1, <2>3
  <2>4. CASE ~(k <= ca)
    <3>1. ~(l <= ca) /\ k - ca < l - ca
      BY <1>3, <1>9, <2>1, <2>4
    <3>2. q(k - ca) < q(l - ca)
      BY <1>4, <1>6, <2>4, <3>1
    <3>. QED  BY <1>1, <1>6, <2>4, <3>1, <3>2
  <2>. QED  BY <2>2, <2>3, <2>4
<1>10. ASSUME NEW i \in Nw PROVE \E k \in 1 .. ca + cd : g(k) = i
  <2>0. i \in Nat
    BY <1>1, <1>2
  <2>1. CASE i \in Na
    <3>1. PICK n \in 1 .. ca : p(n) = i
      BY <1>3, <2>1
    <3>2. n \in 1 .. ca + cd /\ n <= ca
      BY <1>3, <1>4
    <3>. QED  BY <3>1, <3>2
  <2>2. CASE i - Len(a) \in Nd
    <3>1. PICK n \in 1 .. cd : q(n) = i - Len(a)
      BY <1>4, <2>2
    <3>2. ca + n \in 1 .. ca + cd /\ ~(ca + n <= ca) /\ (ca + n) - ca = n
      BY <1>3, <1>4
    <3>3. g(ca + n) = Len(a) + (i - Len(a))
      BY <3>1, <3>2
    <3>. QED  BY <1>1, <2>0, <3>2, <3>3
  <2>. QED  BY <1>5, <2>1, <2>2
<1>11. \A k \in 1 .. ca + cd : f[k] = g(k)
  OBVIOUS
<1>. HIDE DEF g, f
<1>12. ca + cd \in Nat
  BY <1>3, <1>4
<1>13. /\ \A k, l \in 1 .. ca + cd : k < l => f[k] < f[l]
       /\ \A i \in Nw : \E k \in 1 .. ca + cd : f[k] = i
  BY <1>9, <1>10, <1>11
<1>. DEFINE many == ca + cd
<1>14. Cardinality(Nw) = many /\ \A k \in 1 .. many : Nth(Nw, k) = f[k]
  <2>1. /\ many \in Nat /\ f \in [1 .. many -> Nw]
        /\ \A k, l \in 1 .. many : k < l => f[k] < f[l]
        /\ \A i \in Nw : \E k \in 1 .. many : f[k] = i
    BY <1>8, <1>12, <1>13
  <2>. HIDE DEF many
  <2>2. Lists(f, many, Nw, Len(w))
    BY <1>2, <2>1 DEF Lists
  <2>. QED  BY <2>2, NthListed, Zenon
<1>15. ASSUME NEW n \in 1 .. ca PROVE Nth(Nw, n) = p(n)
  <2>1. n \in 1 .. ca + cd /\ n <= ca
    BY <1>3, <1>4
  <2>. QED  BY <1>11, <1>14, <2>1 DEF g
<1>16. ASSUME NEW n \in 1 .. cd PROVE Nth(Nw, ca + n) = Len(a) + q(n)
  <2>1. ca + n \in 1 .. ca + cd /\ ~(ca + n <= ca) /\ (ca + n) - ca = n
    BY <1>3, <1>4
  <2>. QED  BY <1>11, <1>14, <2>1 DEF g
<1>. QED  BY <1>14, <1>15, <1>16 DEF w, Na, Nd, Nw, ca, cd, p, q

\* Whole lines in front of some bytes: the lines are those of both.
LEMMA Cut ==
  ASSUME NEW a \in Seq(Byte), NEW d \in Seq(Byte), LastEnd(a) = Len(a)
  PROVE  Complete(a \o d) = Complete(a) \o Complete(d) /\ Remainder(a \o d) = Remainder(d)
<1>. DEFINE w == a \o d
            ca == Cardinality(Newlines(a))  cd == Cardinality(Newlines(d))
            line(n) == SubSeq(w, Start(w, n), Nth(Newlines(w), n))
<1>1. /\ w \in Seq(Byte) /\ Len(w) = Len(a) + Len(d) /\ Len(a) \in Nat /\ Len(d) \in Nat
      /\ \A i \in 1 .. Len(a) + 1, j \in 0 .. Len(a) : SubSeq(w, i, j) = SubSeq(a, i, j)
      /\ \A i \in 1 .. Len(d) + 1, j \in 0 .. Len(d) :
            SubSeq(w, Len(a) + i, Len(a) + j) = SubSeq(d, i, j)
  BY PartOfConcat
<1>2. /\ Cardinality(Newlines(w)) = ca + cd
      /\ \A n \in 1 .. ca : Nth(Newlines(w), n) = Nth(Newlines(a), n)
      /\ \A n \in 1 .. cd : Nth(Newlines(w), ca + n) = Len(a) + Nth(Newlines(d), n)
  BY NewlinesOfConcat
<1>3. /\ ca \in Nat /\ cd \in Nat
      /\ \A n \in 1 .. ca : Nth(Newlines(a), n) \in 1 .. Len(a)
      /\ \A n \in 1 .. cd : Nth(Newlines(d), n) \in 1 .. Len(d)
  BY NewlinesAreFew
<1>4. /\ Complete(a) \in Seq(Line) /\ Len(Complete(a)) = ca
      /\ \A n \in 1 .. ca : Complete(a)[n] = Trimmed(SubSeq(a, Start(a, n), Nth(Newlines(a), n)))
  BY CompleteType
<1>5. /\ Complete(d) \in Seq(Line) /\ Len(Complete(d)) = cd
      /\ \A n \in 1 .. cd : Complete(d)[n] = Trimmed(SubSeq(d, Start(d, n), Nth(Newlines(d), n)))
  BY CompleteType
<1>6. /\ Complete(w) \in Seq(Line) /\ Len(Complete(w)) = ca + cd
      /\ \A n \in 1 .. ca + cd : Complete(w)[n] = Trimmed(line(n))
  BY <1>1, <1>2, CompleteType
<1>7. /\ Complete(a) \o Complete(d) \in Seq(Line) /\ Len(Complete(a) \o Complete(d)) = ca + cd
      /\ \A n \in 1 .. ca + cd : (Complete(a) \o Complete(d))[n]
                                = IF n <= ca THEN Complete(a)[n] ELSE Complete(d)[n - ca]
  <2>. DEFINE s == Complete(a)  t == Complete(d)
  <2>1. s \in Seq(Line) /\ t \in Seq(Line) /\ Len(s) = ca /\ Len(t) = cd
    BY <1>4, <1>5
  <2>. HIDE DEF s, t, ca, cd
  <2>2. /\ s \o t \in Seq(Line) /\ Len(s \o t) = Len(s) + Len(t)
        /\ \A n \in 1 .. Len(s) + Len(t) : (s \o t)[n] = IF n <= Len(s) THEN s[n] ELSE t[n - Len(s)]
    <3>1. IsConcat(Line, s, t)
      BY <2>1, Concatenated, Zenon
    <3>. QED  BY <3>1 DEF IsConcat
  <2>3. /\ s \o t \in Seq(Line) /\ Len(s \o t) = ca + cd
        /\ \A n \in 1 .. ca + cd : (s \o t)[n] = IF n <= ca THEN s[n] ELSE t[n - ca]
    BY <2>1, <2>2
  <2>. QED  BY <2>3 DEF s, t
<1>8. ca # 0 => Nth(Newlines(a), ca) = Len(a)
  <2>1. SUFFICES ASSUME ca # 0 PROVE Nth(Newlines(a), ca) = Len(a)
    OBVIOUS
  <2>2. Nth(Newlines(a), ca) \in Newlines(a)
    <3>1. ca \in 1 .. ca /\ Newlines(a) \in SUBSET (1 .. Len(a))
      BY <1>3, <2>1, NewlinesAreFew
    <3>. QED  BY <1>1, <3>1, NthInOrder
  <2>. QED  BY <2>2 DEF LastEnd
<1>9. ca = 0 => Len(a) = 0
  <2>1. SUFFICES ASSUME ca = 0, Newlines(a) # {} PROVE FALSE
    BY DEF LastEnd
  <2>2. PICK i \in Newlines(a) : TRUE
    BY <2>1
  <2>3. \E n \in 1 .. ca : Nth(Newlines(a), n) = i
    <3>1. Newlines(a) \in SUBSET (1 .. Len(a))
      BY NewlinesAreFew
    <3>. QED  BY <1>1, <3>1, NthInOrder
  <2>. QED  BY <2>1, <2>3
<1>10. ASSUME NEW n \in 1 .. ca PROVE line(n) = SubSeq(a, Start(a, n), Nth(Newlines(a), n))
  <2>1. Start(w, n) = Start(a, n)
    <3>1. n # 1 => n - 1 \in 1 .. ca
      BY <1>3
    <3>. QED  BY <1>2, <3>1 DEF Start
  <2>2. Start(a, n) \in 1 .. Len(a) + 1 /\ Nth(Newlines(a), n) \in 0 .. Len(a)
    BY <1>1, <1>3, StartType
  <2>. QED  BY <1>1, <1>2, <2>1, <2>2
<1>11. ASSUME NEW n \in 1 .. cd PROVE line(ca + n) = SubSeq(d, Start(d, n), Nth(Newlines(d), n))
  <2>1. Start(w, ca + n) = Len(a) + Start(d, n)
    <3>1. CASE n = 1 /\ ca = 0
      BY <1>9, <3>1 DEF Start
    <3>2. CASE n = 1 /\ ca # 0
      <4>1. ca + n # 1 /\ (ca + n) - 1 = ca /\ ca \in 1 .. ca
        BY <1>3, <3>2
      <4>2. Start(w, ca + n) = Nth(Newlines(w), ca) + 1
        BY <4>1 DEF Start
      <4>. QED  BY <1>2, <1>8, <3>2, <4>1, <4>2 DEF Start
    <3>3. CASE n # 1
      <4>1. ca + n # 1 /\ (ca + n) - 1 = ca + (n - 1) /\ n - 1 \in 1 .. cd
        <5>1. ca \in Nat /\ cd \in Nat
          BY <1>3
        <5>. HIDE DEF ca, cd
        <5>. QED  BY <3>3, <5>1
      <4>2. Start(w, ca + n) = Nth(Newlines(w), ca + (n - 1)) + 1
        BY <4>1 DEF Start
      <4>3. Nth(Newlines(w), ca + (n - 1)) = Len(a) + Nth(Newlines(d), n - 1) /\ Nth(Newlines(d), n - 1) \in Nat
        BY <1>2, <1>3, <4>1
      <4>. QED  BY <1>1, <3>3, <4>2, <4>3 DEF Start
    <3>. QED  BY <3>1, <3>2, <3>3
  <2>2. Start(d, n) \in 1 .. Len(d) + 1 /\ Nth(Newlines(d), n) \in 0 .. Len(d)
    BY <1>1, <1>3, StartType
  <2>. QED  BY <1>1, <1>2, <2>1, <2>2
<1>. HIDE DEF w, ca, cd, line
<1>12. ASSUME NEW n \in 1 .. ca + cd PROVE Complete(w)[n] = (Complete(a) \o Complete(d))[n]
  <2>1. CASE n <= ca
    <3>1. n \in 1 .. ca
      BY <1>3, <2>1
    <3>. QED  BY <1>4, <1>6, <1>7, <1>10, <2>1, <3>1
  <2>2. CASE ~(n <= ca)
    <3>1. n - ca \in 1 .. cd /\ ca + (n - ca) = n
      BY <1>3, <2>2
    <3>2. line(ca + (n - ca)) = SubSeq(d, Start(d, n - ca), Nth(Newlines(d), n - ca))
      BY <1>11, <3>1
    <3>. QED  BY <1>5, <1>6, <1>7, <2>2, <3>1, <3>2
  <2>. QED  BY <2>1, <2>2
<1>13. Complete(w) = Complete(a) \o Complete(d)
  BY <1>6, <1>7, <1>12, SeqEqual
<1>14. LastEnd(w) = Len(a) + LastEnd(d)
  <2>1. /\ LastEnd(w) \in 0 .. Len(w) /\ (LastEnd(w) # 0 => LastEnd(w) \in Newlines(w))
        /\ \A i \in Newlines(w) : i <= LastEnd(w)
    BY <1>1, LastEndIs
  <2>2. /\ LastEnd(d) \in 0 .. Len(d) /\ (LastEnd(d) # 0 => LastEnd(d) \in Newlines(d))
        /\ \A i \in Newlines(d) : i <= LastEnd(d)
    BY LastEndIs
  <2>3. /\ \A k \in 1 .. Len(a) : w[k] = a[k]
        /\ \A k \in 1 .. Len(d) : w[Len(a) + k] = d[k]
    BY PartOfConcat DEF w
  <2>4. Len(a) # 0 => Len(a) \in Newlines(a)
    BY LastEndIs
  <2>5. Len(a) # 0 => Len(a) \in Newlines(w)
    BY <1>1, <2>3, <2>4 DEF Newlines
  <2>6. LastEnd(d) # 0 => Len(a) + LastEnd(d) \in Newlines(w)
    <3>1. SUFFICES ASSUME LastEnd(d) # 0 PROVE Len(a) + LastEnd(d) \in Newlines(w)
      OBVIOUS
    <3>2. LastEnd(d) \in 1 .. Len(d) /\ d[LastEnd(d)] = Newline
      BY <2>2, <3>1 DEF Newlines
    <3>3. Len(a) + LastEnd(d) \in 1 .. Len(w)
      BY <1>1, <3>2
    <3>. QED  BY <2>3, <3>2, <3>3 DEF Newlines
  <2>7. Len(a) + LastEnd(d) <= LastEnd(w)
    BY <1>1, <2>1, <2>2, <2>5, <2>6
  <2>8. ASSUME LastEnd(w) > Len(a) + LastEnd(d) PROVE FALSE
    <3>1. LastEnd(w) - Len(a) \in 1 .. Len(d) /\ Len(a) + (LastEnd(w) - Len(a)) = LastEnd(w) /\ LastEnd(w) # 0
      <4>. DEFINE ew == LastEnd(w)  ed == LastEnd(d)  la == Len(a)  ld == Len(d)  lw == Len(w)
      <4>1. ew \in 0 .. lw /\ ed \in 0 .. ld /\ la \in Nat /\ ld \in Nat /\ lw = la + ld /\ ew > la + ed
        BY <1>1, <2>1, <2>2, <2>8
      <4>. HIDE DEF ew, ed, la, ld, lw
      <4>2. ew - la \in 1 .. ld /\ la + (ew - la) = ew /\ ew # 0
        BY <4>1
      <4>. QED  BY <4>2 DEF ew, ed, la, ld, lw
    <3>2. w[LastEnd(w)] = Newline
      BY <2>1, <3>1 DEF Newlines
    <3>3. d[LastEnd(w) - Len(a)] = Newline
      BY <2>3, <3>1, <3>2
    <3>4. LastEnd(w) - Len(a) \in Newlines(d)
      BY <3>1, <3>3 DEF Newlines
    <3>. QED  BY <1>1, <2>1, <2>2, <2>8, <3>4
  <2>9. LastEnd(w) \in Nat /\ LastEnd(d) \in Nat /\ Len(a) \in Nat
    BY <1>1, <2>1, <2>2
  <2>. QED  BY <2>7, <2>8, <2>9
<1>15. Remainder(w) = Remainder(d)
  <2>1. /\ Remainder(w) = SubSeq(w, LastEnd(w) + 1, Len(w))
        /\ Remainder(d) = SubSeq(d, LastEnd(d) + 1, Len(d))
    BY <1>1, LastEndIs
  <2>2. LastEnd(d) \in 0 .. Len(d)
    BY LastEndIs
  <2>3. LastEnd(d) + 1 \in 1 .. Len(d) + 1 /\ Len(d) \in 0 .. Len(d) /\ LastEnd(w) + 1 = Len(a) + (LastEnd(d) + 1)
    BY <1>1, <1>14, <2>2
  <2>. QED  BY <1>1, <2>1, <2>3
<1>. QED  BY <1>13, <1>15 DEF w

LEMMA Split ==
  ASSUME NEW w \in Seq(Byte)
  PROVE  \E a \in Seq(Byte) :
            /\ LastEnd(a) = Len(a) /\ w = a \o Remainder(w)
            /\ Complete(w) = Complete(a) /\ Remainder(a) = <<>>
<1>. DEFINE m == LastEnd(w)  a == SubSeq(w, 1, m)
<1>1. /\ m \in 0 .. Len(w) /\ (m # 0 => m \in Newlines(w))
      /\ \A i \in Newlines(w) : i <= m
      /\ Remainder(w) = SubSeq(w, m + 1, Len(w)) /\ Len(w) \in Nat
  BY LastEndIs, LenProperties
<1>. HIDE DEF m
<1>2. a \in Seq(Byte) /\ Len(a) = m /\ \A k \in 1 .. m : a[k] = w[k]
  <2>1. 1 \in 1 .. Len(w) + 1 /\ m \in 0 .. Len(w)
    BY <1>1
  <2>2. /\ a \in Seq(Byte) /\ Len(a) = IF 1 <= m THEN m - 1 + 1 ELSE 0
        /\ \A k \in 1 .. m - 1 + 1 : a[k] = w[1 + k - 1]
    BY <2>1, PartType
  <2>3. m \in Nat
    BY <1>1
  <2>. HIDE DEF a
  <2>. QED  BY <2>2, <2>3
<1>3. w = a \o Remainder(w)
  <2>1. 1 \in 1 .. Len(w) + 1 /\ m \in 1 - 1 .. Len(w) /\ Len(w) \in m .. Len(w)
    BY <1>1
  <2>2. SubSeq(w, 1, m) \o SubSeq(w, m + 1, Len(w)) = SubSeq(w, 1, Len(w))
    BY <2>1, ConcatAdjacentSubSeq
  <2>. QED  BY <1>1, <2>2, SubSeqFull
<1>. HIDE DEF a
<1>4. LastEnd(a) = m
  <2>1. /\ LastEnd(a) \in 0 .. Len(a) /\ \A i \in Newlines(a) : i <= LastEnd(a)
    BY <1>2, LastEndIs
  <2>2. m # 0 => m \in Newlines(a)
    BY <1>1, <1>2 DEF Newlines
  <2>. QED  BY <1>1, <1>2, <2>1, <2>2
<1>5. Newlines(Remainder(w)) = {}
  BY RemainderType
<1>6. Complete(Remainder(w)) = <<>>
  <2>1. Complete(Remainder(w)) \in Seq(Line) /\ Len(Complete(Remainder(w))) = Cardinality(Newlines(Remainder(w)))
    BY RemainderType, CompleteType
  <2>2. Len(Complete(Remainder(w))) = 0
    BY <1>5, <2>1, FS_EmptySet
  <2>. QED  BY <2>1, <2>2, EmptySeq
<1>7. Complete(w) = Complete(a) \o <<>>
  <2>1. Remainder(w) \in Seq(Byte) /\ LastEnd(a) = Len(a)
    BY <1>2, <1>4, RemainderType
  <2>2. Complete(a \o Remainder(w)) = Complete(a) \o Complete(Remainder(w))
    BY <1>2, <2>1, Cut
  <2>. QED  BY <1>3, <1>6, <2>2, Zenon
<1>8. Complete(w) = Complete(a)
  BY <1>2, <1>7, CompleteType, ConcatEmptySeq
<1>9. Remainder(a) = <<>>
  <2>1. Remainder(a) = SubSeq(a, m + 1, m)
    BY <1>2, <1>4, LastEndIs
  <2>. QED  BY <1>1, <2>1, SubSeqEmpty
<1>. QED  BY <1>2, <1>3, <1>4, <1>8, <1>9

\* What came before the rest that is kept back need not be looked at again.
LEMMA Feed ==
  ASSUME NEW w \in Seq(Byte), NEW c \in Seq(Byte)
  PROVE  /\ Complete(w \o c) = Complete(w) \o Complete(Remainder(w) \o c)
         /\ Remainder(w \o c) = Remainder(Remainder(w) \o c)
<1>1. PICK a \in Seq(Byte) : LastEnd(a) = Len(a) /\ w = a \o Remainder(w) /\ Complete(w) = Complete(a)
  BY Split
<1>2. Remainder(w) \in Seq(Byte)
  BY RemainderType
<1>3. w \o c = a \o (Remainder(w) \o c)
  <2>1. Associative(Byte)
    BY Regrouped, Zenon
  <2>2. (a \o Remainder(w)) \o c = a \o (Remainder(w) \o c)
    BY <1>2, <2>1, Zenon DEF Associative
  <2>. QED  BY <1>1, <2>2, Zenon
<1>4. Remainder(w) \o c \in Seq(Byte)
  BY <1>2, ConcatProperties
<1>. DEFINE d == Remainder(w) \o c
<1>5. Complete(a \o d) = Complete(a) \o Complete(d) /\ Remainder(a \o d) = Remainder(d)
  <2>1. d \in Seq(Byte)
    BY <1>4
  <2>. HIDE DEF d
  <2>. QED  BY <1>1, <2>1, Cut
<1>. QED  BY <1>1, <1>3, <1>5, Zenon

LEMMA Prefix ==
  ASSUME NEW S, NEW s \in Seq(S), NEW t \in Seq(S)
  PROVE  IsPrefix(s, s \o t)
<1>. DEFINE u == s \o t  l == Len(s)
<1>1. /\ u \in Seq(S) /\ Len(u) = Len(s) + Len(t)
      /\ \A i \in 1 .. Len(s) + Len(t) : u[i] = IF i <= Len(s) THEN s[i] ELSE t[i - Len(s)]
  BY ConcatProperties
<1>2. l \in Nat /\ Len(t) \in Nat
  BY LenProperties
<1>3. SubSeq(s, 1, l) = s
  BY SubSeqFull
<1>. HIDE DEF u
<1>4. \A i \in 1 .. l : u[i] \in S
  BY <1>1, <1>2, ElementOfSeq
<1>5. l <= Len(u) /\ \A i \in 1 .. l : u[i] = s[i]
  BY <1>1, <1>2
<1>6. SubSeq(u, 1, l) = s
  <2>. HIDE DEF l
  <2>1. /\ SubSeq(u, 1, l) \in Seq(S) /\ Len(SubSeq(u, 1, l)) = IF 1 <= l THEN l - 1 + 1 ELSE 0
        /\ \A i \in 1 .. l - 1 + 1 : SubSeq(u, 1, l)[i] = u[1 + i - 1]
    BY <1>2, <1>4, SubSeqProperties
  <2>2. /\ Len(SubSeq(u, 1, l)) = l /\ \A i \in 1 .. l : SubSeq(u, 1, l)[i] = u[i]
    BY <1>2, <2>1
  <2>3. \A i \in 1 .. l : SubSeq(u, 1, l)[i] = s[i]
    BY <1>5, <2>2
  <2>. QED  BY <2>1, <2>2, <2>3, SeqEqual DEF l
<1>. QED  BY <1>3, <1>5, <1>6 DEF IsPrefix, u

\* What has arrived, and whether no line in the first n bytes is too long.
Sofar == SubSeq(written, 1, arrived)
FitsTo(n) == \A i \in 1 .. n : Len(Remainder(SubSeq(written, 1, i))) <= MaxPartial

\* The lines of everything written.
LastLine == Trimmed(Remainder(written))
AllLines == Complete(written) \o (IF LastLine = <<>> THEN <<>> ELSE <<LastLine>>)

LinesInv ==
  /\ written \in Seq(Byte) /\ arrived \in 0 .. Len(written)
  /\ channel = "over" => arrived = Len(written)
  /\ FitsTo(arrived) =>
        IF channel = "over" THEN sent = AllLines
        ELSE sent = Complete(Sofar) /\ buf = Remainder(Sofar)

LEMMA SofarType ==
  ASSUME LinesInv
  PROVE  /\ Sofar \in Seq(Byte) /\ Len(written) \in Nat /\ arrived \in Nat
         /\ arrived = Len(written) => Sofar = written
<1>1. Len(written) \in Nat /\ written \in Seq(Byte) /\ arrived \in 0 .. Len(written)
  BY LenProperties DEF LinesInv
<1>2. Sofar \in Seq(Byte)
  <2>1. 1 \in 1 .. Len(written) + 1
    BY <1>1
  <2>. QED  BY <1>1, <2>1, PartType DEF Sofar
<1>. QED  BY <1>1, <1>2, SubSeqFull DEF Sofar

LEMMA LinesStart ==
  ASSUME LinesInit PROVE LinesInv
<1>1. /\ written \in Seq(Byte) /\ Len(written) = 0 /\ written = <<>> /\ arrived = 0
      /\ channel = "open" /\ sent = <<>> /\ buf = <<>>
  BY EmptySeq DEF LinesInit
<1>2. Sofar = <<>>
  BY <1>1, SubSeqFull DEF Sofar
<1>3. Newlines(written) = {}
  BY <1>1 DEF Newlines
<1>4. Remainder(written) = <<>>
  BY <1>1, <1>3 DEF Remainder
<1>5. Complete(written) = <<>>
  <2>1. Complete(written) \in Seq(Line) /\ Len(Complete(written)) = 0
    BY <1>1, <1>3, CompleteType, FS_EmptySet
  <2>. QED  BY <2>1, EmptySeq
<1>6. sent = Complete(Sofar) /\ buf = Remainder(Sofar)
  BY <1>1, <1>2, <1>4, <1>5
<1>. QED  BY <1>1, <1>6 DEF LinesInv

LEMMA WritesKeepLines ==
  ASSUME LinesInv, CommandWrites PROVE LinesInv'
<1>1. PICK byte \in Byte : written' = Append(written, byte)
  BY DEF CommandWrites
<1>2. channel = "open" /\ UNCHANGED <<arrived, buf, sent, channel>>
  BY DEF CommandWrites
<1>3. written \in Seq(Byte) /\ arrived \in 0 .. Len(written) /\ Len(written) \in Nat
  BY SofarType DEF LinesInv
<1>4. <<byte>> \in Seq(Byte) /\ written' = written \o <<byte>>
  BY <1>1, <1>3, AppendIsConcat
<1>5. /\ written' \in Seq(Byte) /\ Len(written') = Len(written) + 1
      /\ \A i \in 1 .. Len(written) + 1, j \in 0 .. Len(written) :
            SubSeq(written', i, j) = SubSeq(written, i, j)
  <2>1. Len(<<byte>>) = 1
    OBVIOUS
  <2>. QED  BY <1>3, <1>4, <2>1, PartOfConcat
<1>6. \A j \in 0 .. Len(written) : SubSeq(written', 1, j) = SubSeq(written, 1, j)
  BY <1>3, <1>5
<1>7. Sofar' = Sofar
  BY <1>2, <1>3, <1>6 DEF Sofar
<1>8. FitsTo(arrived)' => FitsTo(arrived)
  <2>1. \A i \in 1 .. arrived : i \in 0 .. Len(written)
    BY <1>3
  <2>. QED  BY <1>2, <1>6, <2>1 DEF FitsTo
<1>9. arrived' \in 0 .. Len(written') /\ channel' = "open"
  BY <1>2, <1>3, <1>5
<1>. QED  BY <1>2, <1>5, <1>7, <1>8, <1>9 DEF LinesInv

LEMMA DataKeepsLines ==
  ASSUME LinesInv, Data PROVE LinesInv'
<1>1. PICK n \in arrived + 1 .. Len(written) :
        /\ arrived' = n
        /\ buf' = Drained(buf \o SubSeq(written, arrived + 1, n)).rest
        /\ sent' = sent \o Drained(buf \o SubSeq(written, arrived + 1, n)).lines
  BY DEF Data
<1>2. channel \in {"open", "closed"} /\ written' = written /\ channel' = channel
  BY DEF Data
<1>. DEFINE c == SubSeq(written, arrived + 1, n)
<1>3. /\ written \in Seq(Byte) /\ arrived \in 0 .. Len(written) /\ Len(written) \in Nat
      /\ Sofar \in Seq(Byte)
  BY SofarType DEF LinesInv
<1>4. c \in Seq(Byte)
  <2>1. arrived + 1 \in 1 .. Len(written) + 1 /\ n \in 0 .. Len(written)
    BY <1>3
  <2>. QED  BY <1>3, <2>1, PartType
<1>5. Sofar' = Sofar \o c
  <2>1. /\ 1 \in 1 .. Len(written) + 1 /\ arrived \in 1 - 1 .. Len(written) /\ n \in arrived .. Len(written)
    BY <1>3
  <2>2. SubSeq(written, 1, arrived) \o SubSeq(written, arrived + 1, n) = SubSeq(written, 1, n)
    BY <1>3, <2>1, ConcatAdjacentSubSeq
  <2>. QED  BY <1>1, <1>2, <2>2 DEF Sofar
<1>6. n \in Nat /\ n \in 0 .. Len(written) /\ n \in 1 .. n /\ 1 .. arrived \subseteq 1 .. n
  BY <1>3
<1>7. ASSUME FitsTo(arrived)' PROVE sent' = Complete(Sofar') /\ buf' = Remainder(Sofar')
  <2>1. \A i \in 1 .. n : Len(Remainder(SubSeq(written, 1, i))) <= MaxPartial
    BY <1>1, <1>2, <1>7 DEF FitsTo
  <2>2. FitsTo(arrived) /\ Len(Remainder(Sofar')) <= MaxPartial
    BY <1>1, <1>2, <1>6, <2>1 DEF FitsTo, Sofar
  <2>3. sent = Complete(Sofar) /\ buf = Remainder(Sofar)
    BY <1>2, <2>2 DEF LinesInv
  <2>. HIDE DEF c
  <2>4. /\ Complete(Sofar \o c) = Complete(Sofar) \o Complete(buf \o c)
        /\ Remainder(Sofar \o c) = Remainder(buf \o c)
    BY <1>3, <1>4, <2>3, Feed
  <2>5. Sofar \o c \in Seq(Byte)
    BY <1>3, <1>4, ConcatProperties
  <2>6. Len(Remainder(buf \o c)) \in Nat /\ Len(Remainder(buf \o c)) <= MaxPartial
    BY <1>5, <2>2, <2>4, <2>5, RemainderType
  <2>7. ~(Len(Remainder(buf \o c)) > MaxPartial)
    BY <2>6, LinesAssumption
  <2>8. Drained(buf \o c) = [lines |-> Complete(buf \o c), rest |-> Remainder(buf \o c)]
    BY <2>7 DEF Drained
  <2>9. sent' = sent \o Complete(buf \o c) /\ buf' = Remainder(buf \o c)
    BY <1>1, <2>8 DEF c
  <2>. QED  BY <1>5, <2>3, <2>4, <2>9
<1>8. channel' # "over"
  BY <1>2
<1>. QED  BY <1>1, <1>2, <1>3, <1>6, <1>7, <1>8 DEF LinesInv

LEMMA FlushKeepsLines ==
  ASSUME LinesInv, FlushRemainder PROVE LinesInv'
<1>1. /\ channel = "closed" /\ arrived = Len(written)
      /\ sent' = (IF Trimmed(buf) = <<>> THEN sent ELSE Append(sent, Trimmed(buf)))
      /\ channel' = "over" /\ UNCHANGED <<written, arrived>>
  BY DEF FlushRemainder
<1>2. written \in Seq(Byte) /\ arrived \in 0 .. Len(written) /\ Sofar = written
  BY <1>1, SofarType DEF LinesInv
<1>3. ASSUME FitsTo(arrived)' PROVE sent' = AllLines'
  <2>1. FitsTo(arrived)
    BY <1>1, <1>3 DEF FitsTo
  <2>2. sent = Complete(written) /\ buf = Remainder(written)
    BY <1>1, <1>2, <2>1 DEF LinesInv
  <2>3. Complete(written) \in Seq(Line) /\ LastLine \in Line
    BY <1>2, CompleteType, RemainderType DEF Line, LastLine
  <2>4. CASE LastLine = <<>>
    <3>1. AllLines = Complete(written)
      BY <2>3, <2>4, ConcatEmptySeq DEF AllLines
    <3>. QED  BY <1>1, <2>2, <2>4, <3>1 DEF LastLine, AllLines
  <2>5. CASE LastLine # <<>>
    <3>1. Append(Complete(written), LastLine) = AllLines
      BY <2>3, <2>5, AppendIsConcat DEF AllLines
    <3>. QED  BY <1>1, <2>2, <2>5, <3>1 DEF LastLine, AllLines
  <2>. QED  BY <2>4, <2>5
<1>. QED  BY <1>1, <1>2, <1>3 DEF LinesInv

LEMMA LinesNextKeeps ==
  ASSUME LinesInv, [LinesNext]_linesVars PROVE LinesInv'
<1>1. CASE UNCHANGED <<written, arrived, buf, sent>> /\ (channel' = "over" => channel = "over")
                     /\ (channel = "over" => channel' = "over")
  BY <1>1 DEF LinesInv, FitsTo, Sofar, AllLines, LastLine
<1>2. CASE HangUp
  BY <1>1, <1>2 DEF HangUp
<1>3. CASE CommandEnds
  BY <1>1, <1>3 DEF CommandEnds
<1>4. CASE UNCHANGED linesVars
  BY <1>1, <1>4 DEF linesVars
<1>. QED  BY <1>2, <1>3, <1>4, WritesKeepLines, DataKeepsLines, FlushKeepsLines DEF LinesNext

LEMMA LinesInvImplies ==
  ASSUME LinesInv PROVE LinesAsWritten
<1>. DEFINE fits == \A i \in 1 .. Len(written) : Len(Remainder(SubSeq(written, 1, i))) <= MaxPartial
<1>1. /\ written \in Seq(Byte) /\ arrived \in 0 .. Len(written) /\ Len(written) \in Nat
      /\ Sofar \in Seq(Byte)
  BY SofarType DEF LinesInv
<1>2. fits => FitsTo(arrived)
  <2>1. 1 .. arrived \subseteq 1 .. Len(written)
    BY <1>1
  <2>. QED  BY <2>1 DEF FitsTo
<1>. HIDE DEF fits
<1>3. channel = "over" /\ fits => sent = AllLines
  BY <1>2 DEF LinesInv
<1>. DEFINE last == IF LastLine = <<>> THEN <<>> ELSE <<LastLine>>
<1>4. Complete(written) \in Seq(Line) /\ last \in Seq(Line)
  <2>1. LastLine \in Line
    BY <1>1, RemainderType DEF Line, LastLine
  <2>. QED  BY <1>1, <2>1, CompleteType
<1>5. AllLines = Complete(written) \o last
  BY DEF AllLines
<1>. HIDE DEF last
<1>6. ASSUME fits, channel = "over" PROVE IsPrefix(sent, AllLines)
  <2>1. AllLines \in Seq(Line)
    BY <1>4, <1>5, ConcatProperties
  <2>2. AllLines \o <<>> = AllLines
    BY <2>1, ConcatEmptySeq
  <2>3. <<>> \in Seq(Line)
    OBVIOUS
  <2>4. IsPrefix(AllLines, AllLines \o <<>>)
    BY <2>1, <2>3, Prefix
  <2>. QED  BY <1>3, <1>6, <2>2, <2>4
<1>7. ASSUME fits, channel # "over" PROVE IsPrefix(sent, AllLines)
  <2>1. sent = Complete(Sofar)
    BY <1>2, <1>7 DEF LinesInv
  <2>. DEFINE c == SubSeq(written, arrived + 1, Len(written))
              more == Complete(Remainder(Sofar) \o c)
  <2>2. c \in Seq(Byte)
    <3>1. arrived + 1 \in 1 .. Len(written) + 1 /\ Len(written) \in 0 .. Len(written)
      BY <1>1
    <3>. QED  BY <1>1, <3>1, PartType
  <2>3. written = Sofar \o c
    <3>1. /\ 1 \in 1 .. Len(written) + 1 /\ arrived \in 1 - 1 .. Len(written)
          /\ Len(written) \in arrived .. Len(written)
      BY <1>1
    <3>2. SubSeq(written, 1, arrived) \o c = SubSeq(written, 1, Len(written))
      BY <1>1, <3>1, ConcatAdjacentSubSeq
    <3>. QED  BY <1>1, <3>2, SubSeqFull DEF Sofar
  <2>. HIDE DEF c
  <2>4. Complete(Sofar \o c) = Complete(Sofar) \o more
    BY <1>1, <2>2, Feed
  <2>5. more \in Seq(Line) /\ Complete(Sofar) \in Seq(Line)
    <3>1. Remainder(Sofar) \o c \in Seq(Byte)
      BY <1>1, <2>2, RemainderType, ConcatProperties
    <3>. QED  BY <1>1, <3>1, CompleteType
  <2>. HIDE DEF more
  <2>6. AllLines = (Complete(Sofar) \o more) \o last
    BY <1>5, <2>3, <2>4, Zenon
  <2>7. (Complete(Sofar) \o more) \o last = Complete(Sofar) \o (more \o last)
    <3>1. Associative(Line)
      BY Regrouped, Zenon
    <3>. QED  BY <1>4, <2>5, <3>1, Zenon DEF Associative
  <2>8. more \o last \in Seq(Line)
    BY <1>4, <2>5, ConcatProperties
  <2>9. IsPrefix(Complete(Sofar), Complete(Sofar) \o (more \o last))
    BY <2>5, <2>8, Prefix
  <2>. QED  BY <2>1, <2>6, <2>7, <2>9
<1>8. fits => IsPrefix(sent, AllLines)
  BY <1>6, <1>7
<1>. QED  BY <1>3, <1>8, Zenon DEF LinesAsWritten, fits, AllLines, LastLine

(***************************************************************************)
(* The journal's viewers.                                                  *)
(***************************************************************************)
JournalLine == Nat \ {0}

\* Some lines, if any, end with this one.
EndsWith(shown, line) == shown # <<>> => shown[Len(shown)] = line

LEMMA LastIsALine ==
  ASSUME NEW s \in Seq(JournalLine), s # <<>>
  PROVE  Len(s) \in 1 .. Len(s) /\ s[Len(s)] \in JournalLine
<1>1. Len(s) \in Nat \ {0}
  BY EmptySeq
<1>2. Len(s) \in 1 .. Len(s)
  BY <1>1
<1>. QED  BY <1>2, ElementOfSeq

LEMMA OneMore ==
  ASSUME NEW s \in Seq(JournalLine), NEW n \in Nat, Gapless(s), EndsWith(s, n)
  PROVE  LET t == Append(s, n + 1) IN
         t \in Seq(JournalLine) /\ Gapless(t) /\ EndsWith(t, n + 1)
<1>. DEFINE t == Append(s, n + 1)  l == Len(s)
<1>1. n + 1 \in JournalLine /\ l \in Nat
  BY LenProperties DEF JournalLine
<1>2. /\ t \in Seq(JournalLine) /\ Len(t) = l + 1
      /\ \A i \in 1 .. l : t[i] = s[i]
      /\ t[l + 1] = n + 1
  BY <1>1, AppendProperties
<1>. HIDE DEF t
<1>3. l # 0 => s[l] = n
  <2>1. l # 0 => s # <<>>
    BY EmptySeq
  <2>. QED  BY <2>1 DEF EndsWith
<1>4. ASSUME NEW i \in 1 .. Len(t) - 1 PROVE t[i + 1] = t[i] + 1
  <2>1. CASE i = l
    BY <1>1, <1>2, <1>3, <2>1
  <2>2. CASE i # l
    <3>1. i \in 1 .. l /\ i + 1 \in 1 .. l /\ i \in 1 .. Len(s) - 1
      BY <1>1, <1>2, <2>2
    <3>2. s[i + 1] = s[i] + 1
      BY <3>1 DEF Gapless
    <3>. QED  BY <1>2, <3>1, <3>2
  <2>. QED  BY <2>1, <2>2
<1>. QED  BY <1>2, <1>4 DEF t, Gapless, EndsWith

\* What is left of some lines behind one of them.
LEMMA Later ==
  ASSUME NEW s \in Seq(JournalLine), NEW i \in 1 .. Len(s) + 1
  PROVE  LET t == SubSeq(s, i, Len(s)) IN
         /\ t \in Seq(JournalLine)
         /\ Gapless(s) => Gapless(t)
         /\ i <= Len(s) => t # <<>> /\ t[Len(t)] = s[Len(s)]
         /\ i = Len(s) + 1 => t = <<>>
<1>. DEFINE l == Len(s)  t == SubSeq(s, i, l)
<1>1. l \in Nat /\ i \in Int
  BY LenProperties
<1>2. \A k \in i .. l : s[k] \in JournalLine
  <2>1. i .. l \subseteq 1 .. Len(s)
    BY <1>1
  <2>. QED  BY <2>1, ElementOfSeq
<1>3. /\ t \in Seq(JournalLine) /\ Len(t) = IF i <= l THEN l - i + 1 ELSE 0
      /\ \A k \in 1 .. l - i + 1 : t[k] = s[i + k - 1]
  BY <1>1, <1>2, SubSeqProperties
<1>. HIDE DEF t
<1>4. ASSUME Gapless(s) PROVE Gapless(t)
  <2>1. ASSUME NEW k \in 1 .. Len(t) - 1 PROVE t[k + 1] = t[k] + 1
    <3>1. i <= l
      BY <1>1, <1>3, <2>1
    <3>2. /\ k \in 1 .. l - i + 1 /\ k + 1 \in 1 .. l - i + 1 /\ i + k - 1 \in 1 .. Len(s) - 1
          /\ i + (k + 1) - 1 = (i + k - 1) + 1
      BY <1>1, <1>3, <3>1
    <3>3. s[(i + k - 1) + 1] = s[i + k - 1] + 1
      BY <1>4, <3>2 DEF Gapless
    <3>. QED  BY <1>3, <3>2, <3>3
  <2>. QED  BY <2>1 DEF Gapless
<1>5. ASSUME i <= l PROVE t # <<>> /\ t[Len(t)] = s[l]
  <2>1. Len(t) = l - i + 1 /\ l - i + 1 \in 1 .. l - i + 1 /\ i + (l - i + 1) - 1 = l
    BY <1>1, <1>3, <1>5
  <2>2. t # <<>>
    BY <1>1, <2>1, EmptySeq
  <2>. QED  BY <1>3, <2>1, <2>2
<1>6. ASSUME i = l + 1 PROVE t = <<>>
  <2>1. Len(t) = 0
    BY <1>1, <1>3, <1>6
  <2>. QED  BY <1>3, <2>1, EmptySeq
<1>. QED  BY <1>3, <1>4, <1>5, <1>6 DEF t

LEMMA PublishedKeeps ==
  ASSUME NEW s \in Seq(JournalLine), NEW line \in JournalLine
  PROVE  /\ Published(s, line) \in Seq(JournalLine)
         /\ \A n \in Nat : Gapless(s) /\ EndsWith(s, n) /\ line = n + 1
               => Gapless(Published(s, line)) /\ EndsWith(Published(s, line), line)
<1>. DEFINE t == IF Len(s) >= Capacity THEN Tail(s) ELSE s
<1>1. Len(s) \in Nat
  BY LenProperties
<1>2. /\ t \in Seq(JournalLine)
      /\ Gapless(s) => Gapless(t)
      /\ \A n \in Nat : EndsWith(s, n) => EndsWith(t, n)
  <2>1. CASE Len(s) >= Capacity
    <3>1. s # <<>>
      BY <1>1, <2>1, LogStreamAssumption
    <3>2. t = SubSeq(s, 2, Len(s))
      BY <2>1, <3>1, TailIsSubSeq
    <3>3. 2 \in 1 .. Len(s) + 1
      BY <1>1, <2>1, LogStreamAssumption
    <3>4. /\ t \in Seq(JournalLine)
          /\ Gapless(s) => Gapless(t)
          /\ 2 <= Len(s) => t # <<>> /\ t[Len(t)] = s[Len(s)]
          /\ 2 = Len(s) + 1 => t = <<>>
      BY <3>2, <3>3, Later
    <3>5. 2 <= Len(s) \/ 2 = Len(s) + 1
      BY <1>1, <3>3
    <3>. QED  BY <3>1, <3>4, <3>5 DEF EndsWith
  <2>2. CASE ~(Len(s) >= Capacity)
    BY <2>2
  <2>. QED  BY <2>1, <2>2
<1>3. Published(s, line) = Append(t, line)
  BY DEF Published
<1>. HIDE DEF t
<1>4. Append(t, line) \in Seq(JournalLine)
  BY <1>2, AppendProperties
<1>5. ASSUME NEW n \in Nat, Gapless(s), EndsWith(s, n), line = n + 1
      PROVE  Gapless(Append(t, line)) /\ EndsWith(Append(t, line), line)
  BY <1>2, <1>5, OneMore
<1>. QED  BY <1>3, <1>4, <1>5

LEMMA AllPicked ==
  ASSUME NEW S, NEW s \in Seq(S)
  PROVE  Picked(s, DOMAIN s) = s
<1>. DEFINE l == Len(s)  f == [n \in 1 .. l |-> n]
<1>1. l \in Nat /\ DOMAIN s = 1 .. l
  BY LenProperties
<1>2. /\ f \in [1 .. l -> 1 .. l]
      /\ \A k, m \in 1 .. l : k < m => f[k] < f[m]
      /\ \A i \in 1 .. l : \E k \in 1 .. l : f[k] = i
  OBVIOUS
<1>3. \A k \in 1 .. l : f[k] = k
  OBVIOUS
<1>. HIDE DEF l, f
<1>4. Cardinality(1 .. l) = l /\ \A k \in 1 .. l : Nth(1 .. l, k) = f[k]
  <2>. DEFINE at == 1 .. l
  <2>1. at \in SUBSET (1 .. l) /\ f \in [1 .. l -> at] /\ \A i \in at : \E k \in 1 .. l : f[k] = i
    BY <1>2
  <2>. HIDE DEF at
  <2>2. Lists(f, l, at, l)
    BY <1>1, <1>2, <2>1 DEF Lists
  <2>3. Cardinality(at) = l /\ \A k \in 1 .. l : Nth(at, k) = f[k]
    BY <2>2, NthListed, Zenon
  <2>. QED  BY <2>3 DEF at
<1>5. Picked(s, DOMAIN s) = [n \in 1 .. l |-> s[n]]
  BY <1>1, <1>3, <1>4 DEF Picked
<1>6. s = [n \in 1 .. l |-> s[n]]
  BY LenProperties DEF l
<1>. QED  BY <1>5, <1>6

\* What a call reads of the buffer when it is opened.
Filled(since, tail) == IF since = NoLine THEN Backfill(tail) ELSE BackfillAfter(since)

LEMMA FilledKeeps ==
  ASSUME buffer \in Seq(JournalLine), NEW since \in Nat, NEW tail \in Nat \ {0}
  PROVE  LET shown == Filled(since, tail)
             after == After(shown, since)
         IN  /\ shown \in Seq(JournalLine) /\ after \in Nat
             /\ Gapless(buffer) => Gapless(shown)
             /\ EndsWith(buffer, after) /\ EndsWith(shown, after)
             /\ after = NoLine => shown = <<>> /\ buffer = <<>>
<1>. DEFINE shown == Filled(since, tail)  after == After(shown, since)  l == Len(buffer)
<1>1. l \in Nat
  BY LenProperties
<1>2. PICK i \in 1 .. l + 1 : /\ shown = SubSeq(buffer, i, l)
                              /\ i = l + 1 => buffer = <<>> \/ since = buffer[l]
  <2>1. CASE since = NoLine
    <3>. DEFINE i == 1 + (IF l > tail THEN l - tail ELSE 0)
    <3>1. i \in 1 .. l + 1 /\ (i = l + 1 => l = 0)
      BY <1>1
    <3>2. shown = SubSeq(buffer, i, l)
      BY <2>1 DEF Filled, Backfill
    <3>3. l = 0 => buffer = <<>>
      BY EmptySeq
    <3>. HIDE DEF i, shown
    <3>. QED  BY <3>1, <3>2, <3>3
  <2>2. CASE since # NoLine
    <3>. DEFINE at == {k \in 1 .. Len(buffer) : buffer[k] = since}
    <3>1. CASE at = {}
      <4>1. shown = buffer
        BY <2>2, <3>1 DEF Filled, BackfillAfter
      <4>2. buffer = SubSeq(buffer, 1, l)
        BY SubSeqFull
      <4>3. l = 0 => buffer = <<>>
        BY EmptySeq
      <4>4. 1 \in 1 .. l + 1 /\ (1 = l + 1 => l = 0)
        BY <1>1
      <4>. HIDE DEF shown
      <4>. QED  BY <4>1, <4>2, <4>3, <4>4
    <3>2. CASE at # {}
      <4>. DEFINE k == CHOOSE j \in at : \A m \in at : j <= m
      <4>1. at \in SUBSET (1 .. l)
        OBVIOUS
      <4>2. Nth(at, 1) \in at /\ \A m \in at : Nth(at, 1) <= m
        BY <1>1, <3>2, <4>1, FirstIsLeast
      <4>3. k \in at
        BY <4>2
      <4>4. shown = SubSeq(buffer, 1 + k, l)
        BY <2>2, <3>2 DEF Filled, BackfillAfter
      <4>5. k \in 1 .. l /\ buffer[k] = since
        BY <4>3
      <4>. HIDE DEF k, shown
      <4>6. 1 + k \in 1 .. l + 1 /\ (1 + k = l + 1 => k = l)
        BY <1>1, <4>5
      <4>. QED  BY <4>4, <4>5, <4>6
    <3>. QED  BY <3>1, <3>2
  <2>. QED  BY <2>1, <2>2
<1>. HIDE DEF shown
<1>3. /\ shown \in Seq(JournalLine)
      /\ Gapless(buffer) => Gapless(shown)
      /\ i <= l => shown # <<>> /\ shown[Len(shown)] = buffer[l]
      /\ i = l + 1 => shown = <<>>
  BY <1>2, Later
<1>4. i <= l \/ i = l + 1
  BY <1>1
<1>5. CASE shown = <<>>
  <2>1. after = since /\ (buffer = <<>> \/ since = buffer[l])
    BY <1>2, <1>3, <1>4, <1>5 DEF After
  <2>2. buffer # <<>> => buffer[l] # NoLine
    BY LastIsALine DEF JournalLine, NoLine
  <2>. QED  BY <1>3, <1>5, <2>1, <2>2 DEF EndsWith, shown
<1>6. CASE shown # <<>>
  <2>1. after = shown[Len(shown)] /\ after = buffer[l]
    BY <1>3, <1>4, <1>6 DEF After
  <2>2. after \in Nat /\ after # NoLine
    BY <1>3, <1>6, <2>1, LastIsALine DEF JournalLine, NoLine
  <2>. QED  BY <1>3, <1>6, <2>1, <2>2 DEF EndsWith, shown
<1>. QED  BY <1>5, <1>6

\* A call, as far as it has got.
Call ==
  {Closed}
    \cup [at : {"connect"}, filtered : BOOLEAN, follow : BOOLEAN, after : Nat, tail : Nat]
    \cup [at : {"reading"}, filtered : BOOLEAN, from : Nat, until : Nat]

\* One viewer alone: where its call goes on, the buffer and what it has ends.
Joined(b, call, g) ==
  /\ Gapless(g)
  /\ call.at = "closed" => g = <<>>
  /\ call.at = "connect" =>
        /\ ~call.filtered
        /\ EndsWith(b, call.after) /\ EndsWith(g, call.after)
        /\ call.after = NoLine => b = <<>> /\ g = <<>>
  /\ call.at = "reading" => ~call.filtered /\ EndsWith(b, call.from) /\ EndsWith(g, call.from)

StreamTypes(b, w, g, s) ==
  /\ b \in Seq(JournalLine) /\ w \in [Viewer -> Call]
  /\ g \in [Viewer -> Seq(JournalLine)] /\ s \in [Viewer -> Nat]
  /\ \A v \in Viewer : w[v].at = "closed" => g[v] = <<>>

Alone(b, w, g) ==
  /\ Gapless(b)
  /\ \A v, u \in Viewer : w[v].at # "closed" /\ w[u].at # "closed" => v = u
  /\ \A v \in Viewer : Joined(b, w[v], g[v])

StreamInv ==
  /\ journal \in Nat /\ others \in BOOLEAN /\ StreamTypes(buffer, view, given, seen)
  /\ others = FALSE => Alone(buffer, view, given)

LEMMA NothingIsGapless == Gapless(<<>>)
BY DEF Gapless

LEMMA StreamStart ==
  ASSUME StreamInit PROVE StreamInv
<1>1. <<>> \in Seq(JournalLine) /\ NoLine \in Nat /\ Closed \in Call /\ Closed.at = "closed"
  BY DEF NoLine, Closed, Call
<1>. QED  BY <1>1, NothingIsGapless DEF StreamInit, StreamInv, StreamTypes, Alone, Joined

LEMMA ConnectedCall ==
  ASSUME NEW filtered \in BOOLEAN, NEW follow \in BOOLEAN, NEW after \in Nat, NEW tail \in Nat
  PROVE  LET call == [at |-> "connect", filtered |-> filtered, follow |-> follow, after |-> after, tail |-> tail] IN
         /\ call \in Call /\ call.at = "connect" /\ call.filtered = filtered /\ call.after = after
BY DEF Call

LEMMA ReadingCall ==
  ASSUME NEW filtered \in BOOLEAN, NEW from \in Nat, NEW until \in Nat
  PROVE  LET call == [at |-> "reading", filtered |-> filtered, from |-> from, until |-> until] IN
         /\ call \in Call /\ call.at = "reading" /\ call.filtered = filtered /\ call.from = from
BY DEF Call

LEMMA OpenCall ==
  ASSUME NEW call \in Call
  PROVE  /\ call.at = "connect" =>
               /\ call.filtered \in BOOLEAN /\ call.follow \in BOOLEAN /\ call.after \in Nat /\ call.tail \in Nat
         /\ call.at = "reading" =>
               /\ call.filtered \in BOOLEAN /\ call.from \in Nat /\ call.until \in Nat
               /\ \A n \in Nat : LET next == [call EXCEPT !.from = n] IN
                     /\ next \in Call /\ next.at = "reading"
                     /\ next.filtered = call.filtered /\ next.from = n
BY DEF Call, Closed

LEMMA JournalKeepsStream ==
  ASSUME StreamInv, JournalWrites PROVE StreamInv'
BY DEF StreamInv, JournalWrites

LEMMA ForgetKeepsStream ==
  ASSUME StreamInv, Forget PROVE StreamInv'
<1>1. /\ buffer' = <<>> /\ UNCHANGED <<journal, view, given, seen>>
      /\ others' = (\E v \in Viewer : view[v].at # "closed")
  BY DEF Forget
<1>2. <<>> \in Seq(JournalLine)
  OBVIOUS
<1>3. StreamTypes(buffer', view', given', seen') /\ journal' \in Nat
  BY <1>1, <1>2 DEF StreamInv, StreamTypes
<1>4. ASSUME others' = FALSE PROVE Alone(buffer', view', given')
  <2>1. \A v \in Viewer : view[v].at = "closed" /\ given[v] = <<>>
    BY <1>1, <1>4 DEF StreamInv, StreamTypes
  <2>. QED  BY <1>1, <2>1, NothingIsGapless DEF Alone, Joined
<1>5. others' \in BOOLEAN
  BY <1>1, Zenon
<1>. QED  BY <1>3, <1>4, <1>5 DEF StreamInv

LEMMA LeaveKeepsStream ==
  ASSUME StreamInv, NEW v \in Viewer, Leave(v) PROVE StreamInv'
<1>1. /\ view' = [view EXCEPT ![v] = Closed]
      /\ seen' = [seen EXCEPT ![v] = IF given[v] = <<>> THEN @ ELSE given[v][Len(given[v])]]
      /\ given' = [given EXCEPT ![v] = <<>>]
      /\ UNCHANGED <<journal, buffer, others>>
  BY DEF Leave
<1>2. StreamTypes(buffer, view, given, seen) /\ journal \in Nat
  BY DEF StreamInv
<1>3. /\ Closed \in Call /\ Closed.at = "closed" /\ <<>> \in Seq(JournalLine)
  BY DEF Closed, Call
<1>4. given[v] # <<>> => given[v][Len(given[v])] \in Nat
  BY <1>2, LastIsALine DEF StreamTypes, JournalLine
<1>5. /\ view' \in [Viewer -> Call] /\ given' \in [Viewer -> Seq(JournalLine)]
      /\ view'[v] = Closed /\ given'[v] = <<>>
      /\ \A u \in Viewer \ {v} : view'[u] = view[u] /\ given'[u] = given[u]
  BY <1>1, <1>2, <1>3 DEF StreamTypes
<1>6. seen' \in [Viewer -> Nat]
  BY <1>1, <1>2, <1>4 DEF StreamTypes
<1>7. StreamTypes(buffer', view', given', seen')
  BY <1>1, <1>2, <1>3, <1>5, <1>6 DEF StreamTypes
<1>8. ASSUME Alone(buffer, view, given) PROVE Alone(buffer, view', given')
  <2>1. \A u \in Viewer : Joined(buffer, view'[u], given'[u])
    BY <1>3, <1>5, <1>8, NothingIsGapless DEF Alone, Joined
  <2>2. \A u, w \in Viewer : view'[u].at # "closed" /\ view'[w].at # "closed" => u = w
    BY <1>3, <1>5, <1>8 DEF Alone
  <2>. QED  BY <1>8, <2>1, <2>2 DEF Alone
<1>. QED  BY <1>1, <1>2, <1>7, <1>8 DEF StreamInv

LEMMA OpenKeepsStream ==
  ASSUME StreamInv, NEW v \in Viewer, Open(v) PROVE StreamInv'
<1>0. StreamTypes(buffer, view, given, seen) /\ journal \in Nat
  BY DEF StreamInv
<1>1. PICK filtered \in BOOLEAN, follow \in BOOLEAN, tail \in 1 .. MaxTail, since \in {NoLine, seen[v]} :
        LET shown == Filled(since, tail)
            kept == Picked(shown, {i \in DOMAIN shown : Passes(filtered, shown[i])})
            after == After(kept, since)
        IN  /\ view' = [view EXCEPT ![v] =
                            [at |-> "connect", filtered |-> filtered, follow |-> follow,
                             after |-> after, tail |-> IF after = NoLine THEN tail ELSE 0]]
            /\ given' = [given EXCEPT ![v] = kept]
            /\ others' = (others \/ filtered \/ \E w \in Viewer \ {v} : view[w].at # "closed")
  BY DEF Open, Filled
<1>. DEFINE shown == Filled(since, tail)
            kept == Picked(shown, {i \in DOMAIN shown : Passes(filtered, shown[i])})
            after == After(kept, since)
            call == [at |-> "connect", filtered |-> filtered, follow |-> follow,
                     after |-> after, tail |-> IF after = NoLine THEN tail ELSE 0]
<1>2. view[v].at = "closed" /\ UNCHANGED <<journal, buffer, seen>>
  BY DEF Open
<1>3. since \in Nat /\ tail \in Nat \ {0}
  BY <1>0, LogStreamAssumption DEF StreamTypes, NoLine
<1>4. /\ shown \in Seq(JournalLine)
      /\ Gapless(buffer) => Gapless(shown)
      /\ EndsWith(buffer, After(shown, since)) /\ EndsWith(shown, After(shown, since))
      /\ After(shown, since) = NoLine => shown = <<>> /\ buffer = <<>>
  BY <1>0, <1>3, FilledKeeps DEF StreamTypes
<1>. HIDE DEF shown
<1>5. kept \in Seq(JournalLine)
  <2>. DEFINE at == {i \in DOMAIN shown : Passes(filtered, shown[i])}
  <2>1. at \in SUBSET (1 .. Len(shown))
    BY <1>4, LenProperties
  <2>. HIDE DEF at
  <2>2. Picked(shown, at) \in Seq(JournalLine)
    BY <1>4, <2>1, PickedInOrder
  <2>. QED  BY <2>2 DEF at
<1>6. ~filtered => kept = shown
  <2>1. SUFFICES ASSUME ~filtered PROVE kept = shown
    OBVIOUS
  <2>2. {i \in DOMAIN shown : Passes(filtered, shown[i])} = DOMAIN shown
    BY <2>1 DEF Passes
  <2>. QED  BY <1>4, <2>2, AllPicked
<1>. HIDE DEF kept
<1>7. after \in Nat
  BY <1>3, <1>5, LastIsALine DEF After, JournalLine
<1>8. call \in Call /\ call.at = "connect" /\ call.filtered = filtered /\ call.after = after
  <2>1. (IF after = NoLine THEN tail ELSE 0) \in Nat
    BY <1>3
  <2>. HIDE DEF after
  <2>. QED  BY <1>7, <2>1, ConnectedCall
<1>9. /\ view' = [view EXCEPT ![v] = call] /\ given' = [given EXCEPT ![v] = kept]
      /\ others' = (others \/ filtered \/ \E w \in Viewer \ {v} : view[w].at # "closed")
  BY <1>1 DEF kept, shown
<1>. HIDE DEF call, after
<1>10. /\ view' \in [Viewer -> Call] /\ given' \in [Viewer -> Seq(JournalLine)]
       /\ view'[v] = call /\ given'[v] = kept
       /\ \A u \in Viewer \ {v} : view'[u] = view[u] /\ given'[u] = given[u]
  BY <1>0, <1>5, <1>8, <1>9 DEF StreamTypes
<1>11. StreamTypes(buffer', view', given', seen') /\ journal' \in Nat
  BY <1>0, <1>2, <1>8, <1>10 DEF StreamTypes
<1>12. ASSUME others' = FALSE PROVE Alone(buffer, view', given')
  <2>0. others \in BOOLEAN /\ others' = (others \/ filtered \/ \E w \in Viewer \ {v} : view[w].at # "closed")
    BY <1>9 DEF StreamInv
  <2>1. /\ others = FALSE /\ ~filtered /\ \A w \in Viewer \ {v} : view[w].at = "closed"
    BY <1>12, <2>0, Zenon
  <2>2. Alone(buffer, view, given)
    BY <2>1 DEF StreamInv
  <2>3. kept = shown /\ after = After(shown, since)
    BY <1>6, <2>1 DEF after
  <2>4. Joined(buffer, call, kept)
    BY <1>4, <1>8, <2>1, <2>2, <2>3 DEF Joined, Alone
  <2>5. \A u \in Viewer : Joined(buffer, view'[u], given'[u])
    BY <1>10, <2>2, <2>4 DEF Alone
  <2>6. \A u, w \in Viewer : view'[u].at # "closed" /\ view'[w].at # "closed" => u = w
    BY <1>10, <2>1
  <2>. QED  BY <2>2, <2>5, <2>6 DEF Alone
<1>13. others' \in BOOLEAN
  BY <1>9, Zenon
<1>. QED  BY <1>2, <1>11, <1>12, <1>13 DEF StreamInv

LEMMA ConnectKeepsStream ==
  ASSUME StreamInv, NEW v \in Viewer, Connect(v) PROVE StreamInv'
<1>0. StreamTypes(buffer, view, given, seen) /\ journal \in Nat
  BY DEF StreamInv
<1>. DEFINE tail == LastLines(view[v].filtered, view[v].tail)
            from == CASE view[v].after # NoLine -> view[v].after
                      [] view[v].after = NoLine /\ tail = {} -> journal
                      [] OTHER -> (CHOOSE line \in tail : \A l \in tail : line <= l) - 1
            until == IF view[v].follow THEN MaxJournal ELSE journal
            call == [at |-> "reading", filtered |-> view[v].filtered, from |-> from, until |-> until]
<1>1. view[v].at = "connect" /\ view' = [view EXCEPT ![v] = call]
      /\ UNCHANGED <<journal, buffer, given, seen, others>>
  BY DEF Connect
<1>2. view[v].filtered \in BOOLEAN /\ view[v].after \in Nat
  BY <1>0, <1>1, OpenCall DEF StreamTypes
<1>3. tail \in SUBSET (1 .. journal)
  BY DEF LastLines
<1>. HIDE DEF tail
<1>4. from \in Nat /\ (view[v].after # NoLine => from = view[v].after)
  <2>1. CASE view[v].after # NoLine
    BY <1>2, <2>1
  <2>2. CASE view[v].after = NoLine /\ tail = {}
    BY <1>0, <2>2
  <2>3. CASE view[v].after = NoLine /\ tail # {}
    <3>. DEFINE line == CHOOSE line \in tail : \A l \in tail : line <= l
    <3>1. Nth(tail, 1) \in tail /\ \A l \in tail : Nth(tail, 1) <= l
      BY <1>0, <1>3, <2>3, FirstIsLeast
    <3>2. line \in tail
      BY <3>1
    <3>3. line \in 1 .. journal
      BY <1>3, <3>2
    <3>4. from = line - 1
      BY <2>3
    <3>. HIDE DEF line, from
    <3>5. line - 1 \in Nat
      BY <1>0, <3>3
    <3>. QED  BY <2>3, <3>4, <3>5
  <2>. QED  BY <2>1, <2>2, <2>3
<1>5. until \in Nat
  BY <1>0, LogStreamAssumption
<1>. HIDE DEF from, until
<1>6. call \in Call /\ call.at = "reading" /\ call.filtered = view[v].filtered /\ call.from = from
  BY <1>2, <1>4, <1>5, ReadingCall
<1>. HIDE DEF call
<1>7. /\ view' \in [Viewer -> Call] /\ view'[v] = call
      /\ \A u \in Viewer \ {v} : view'[u] = view[u]
  BY <1>0, <1>1, <1>6 DEF StreamTypes
<1>8. StreamTypes(buffer', view', given', seen')
  BY <1>0, <1>1, <1>6, <1>7 DEF StreamTypes
<1>9. ASSUME Alone(buffer, view, given) PROVE Alone(buffer, view', given)
  <2>1. Joined(buffer, view[v], given[v])
    BY <1>9 DEF Alone
  <2>2. Joined(buffer, call, given[v])
    BY <1>1, <1>4, <1>6, <2>1 DEF Joined, EndsWith
  <2>3. \A u \in Viewer : Joined(buffer, view'[u], given[u])
    BY <1>7, <1>9, <2>2 DEF Alone
  <2>4. \A u, w \in Viewer : view'[u].at # "closed" /\ view'[w].at # "closed" => u = w
    BY <1>1, <1>7, <1>9 DEF Alone
  <2>. QED  BY <1>9, <2>3, <2>4 DEF Alone
<1>. QED  BY <1>0, <1>1, <1>8, <1>9 DEF StreamInv

LEMMA ForwardKeepsStream ==
  ASSUME StreamInv, NEW v \in Viewer, Forward(v) PROVE StreamInv'
<1>0. StreamTypes(buffer, view, given, seen) /\ journal \in Nat
  BY DEF StreamInv
<1>. DEFINE line == CHOOSE l \in Pending(v) : \A k \in Pending(v) : l <= k
            call == [view[v] EXCEPT !.from = line]
<1>1. /\ view[v].at = "reading" /\ Pending(v) # {}
      /\ buffer' = Published(buffer, line)
      /\ given' = [given EXCEPT ![v] = Append(@, line)]
      /\ view' = [view EXCEPT ![v].from = line]
      /\ UNCHANGED <<journal, seen, others>>
  BY DEF Forward
<1>2. /\ view[v].filtered \in BOOLEAN /\ view[v].from \in Nat /\ view[v].until \in Nat
      /\ \A n \in Nat : LET next == [view[v] EXCEPT !.from = n] IN
            /\ next \in Call /\ next.at = "reading"
            /\ next.filtered = view[v].filtered /\ next.from = n
  BY <1>0, <1>1, OpenCall DEF StreamTypes
<1>3. Pending(v) \in SUBSET (1 .. journal)
  BY <1>0, <1>2 DEF Pending
<1>4. Nth(Pending(v), 1) \in Pending(v) /\ \A k \in Pending(v) : Nth(Pending(v), 1) <= k
  BY <1>0, <1>1, <1>3, FirstIsLeast
<1>5. line \in Pending(v) /\ \A k \in Pending(v) : line <= k
  BY <1>4
<1>. HIDE DEF line
<1>6. line \in JournalLine /\ line \in Nat
  BY <1>0, <1>3, <1>5 DEF JournalLine
<1>7. call \in Call /\ call.at = "reading" /\ call.filtered = view[v].filtered /\ call.from = line
  BY <1>2, <1>6
<1>8. view' = [view EXCEPT ![v] = call]
  BY <1>1
<1>. HIDE DEF call
<1>9. /\ view' \in [Viewer -> Call] /\ view'[v] = call
      /\ \A u \in Viewer \ {v} : view'[u] = view[u]
  BY <1>0, <1>7, <1>8 DEF StreamTypes
<1>10. given[v] \in Seq(JournalLine) /\ Append(given[v], line) \in Seq(JournalLine)
  BY <1>0, <1>6, AppendProperties DEF StreamTypes
<1>11. /\ given' \in [Viewer -> Seq(JournalLine)] /\ given'[v] = Append(given[v], line)
       /\ \A u \in Viewer \ {v} : given'[u] = given[u]
  BY <1>0, <1>1, <1>10 DEF StreamTypes
<1>12. buffer' \in Seq(JournalLine)
  BY <1>0, <1>1, <1>6, PublishedKeeps DEF StreamTypes
<1>13. StreamTypes(buffer', view', given', seen')
  BY <1>0, <1>1, <1>7, <1>9, <1>11, <1>12 DEF StreamTypes
<1>14. ASSUME Alone(buffer, view, given) PROVE Alone(buffer', view', given')
  <2>1. /\ Gapless(buffer) /\ Gapless(given[v]) /\ ~view[v].filtered
        /\ EndsWith(buffer, view[v].from) /\ EndsWith(given[v], view[v].from)
    BY <1>1, <1>14 DEF Alone, Joined
  <2>2. line = view[v].from + 1
    <3>1. line \in view[v].from + 1 .. journal /\ line <= view[v].until
      BY <1>5 DEF Pending
    <3>2. /\ view[v].from + 1 \in view[v].from + 1 .. journal /\ view[v].from + 1 <= view[v].until
      BY <1>0, <1>2, <3>1
    <3>3. view[v].from + 1 \in Pending(v)
      BY <2>1, <3>2 DEF Pending, Passes
    <3>4. line <= view[v].from + 1
      BY <1>5, <3>3
    <3>. QED  BY <1>0, <1>2, <3>1, <3>4
  <2>3. Gapless(buffer') /\ EndsWith(buffer', line)
    BY <1>0, <1>1, <1>2, <1>6, <2>1, <2>2, PublishedKeeps DEF StreamTypes
  <2>4. Gapless(given'[v]) /\ EndsWith(given'[v], line)
    BY <1>2, <1>10, <1>11, <2>1, <2>2, OneMore
  <2>5. Joined(buffer', view'[v], given'[v])
    BY <1>7, <1>9, <2>1, <2>3, <2>4 DEF Joined
  <2>6. ASSUME NEW u \in Viewer \ {v} PROVE Joined(buffer', view'[u], given'[u]) /\ view'[u].at = "closed"
    <3>1. view[u].at = "closed"
      BY <1>1, <1>14 DEF Alone
    <3>2. given[u] = <<>>
      BY <1>0, <3>1 DEF StreamTypes
    <3>. QED  BY <1>9, <1>11, <3>1, <3>2, NothingIsGapless DEF Joined
  <2>. QED  BY <2>3, <2>5, <2>6 DEF Alone
<1>. QED  BY <1>0, <1>1, <1>13, <1>14 DEF StreamInv

LEMMA StreamNextKeeps ==
  ASSUME StreamInv, [StreamNext]_streamVars PROVE StreamInv'
<1>1. CASE UNCHANGED streamVars
  BY <1>1 DEF StreamInv, streamVars
<1>. QED  BY <1>1, JournalKeepsStream, ForgetKeepsStream, OpenKeepsStream, ConnectKeepsStream,
             ForwardKeepsStream, LeaveKeepsStream DEF StreamNext

LEMMA StreamInvImplies ==
  ASSUME StreamInv PROVE OneByOneUnbroken
<1>1. ~others => others = FALSE
  BY DEF StreamInv
<1>. QED  BY <1>1 DEF StreamInv, Alone, Joined, OneByOneUnbroken

(* Lines reach a reader as they were written: on the way from a remote     *)
(* command, however its output is cut into chunks (exec_streaming,         *)
(* drain_lines and flush_remainder, ssh.rs), and from a journal to viewers *)
(* that come one after the other (LogsService::stream, api/logs.rs).       *)
THEOREM LinesArrive == Spec => []LinesArriveAsWritten
<1>1. Init => LinesInv /\ StreamInv
  BY LinesStart, StreamStart DEF Init
<1>2. LinesInv /\ StreamInv /\ [Next]_vars => (LinesInv /\ StreamInv)'
  <2>1. [Next]_vars => [LinesNext]_linesVars /\ [StreamNext]_streamVars
    BY DEF Next, vars, linesVars, streamVars
  <2>. QED  BY <2>1, LinesNextKeeps, StreamNextKeeps
<1>3. LinesInv /\ StreamInv => LinesArriveAsWritten
  BY LinesInvImplies, StreamInvImplies DEF LinesArriveAsWritten
<1>. QED  BY <1>1, <1>2, <1>3, PTL DEF Spec
=============================================================================
