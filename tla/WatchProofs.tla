----------------------------- MODULE WatchProofs ----------------------------
(***************************************************************************)
(* Proofs about DeploymentWatch: a viewer who is shown the verdict has     *)
(* been shown every line, or told that it fell behind, for any number of   *)
(* viewers, lines and status changes and any capacity of the channel.      *)
(*                                                                         *)
(* The argument follows one line to one viewer.  Once sent it was either   *)
(* stored before the viewer replayed the history, or published after the   *)
(* viewer subscribed, which is earlier; then it is in the viewer's queue   *)
(* or has been read from it, until something is lost.  The verdict cannot  *)
(* overtake it, because the task writes no line after its last row, and    *)
(* tells the end after that.                                               *)
(***************************************************************************)
EXTENDS DeploymentWatch, SequenceTheorems, TLAPS

Event == {[kind |-> "status"], [kind |-> "finished"]} \cup {[kind |-> "line", line |-> l] : l \in Line}
Rx == [state : {"none", "attached", "dropped"}, queue : Seq(Event), lost : Nat]
Watcher == [pc : {"idle", "read", "history", "live", "verdict", "done"},
            snapshot : Outcome \cup {"active"}, seen : SUBSET Line, told : BOOLEAN,
            verdict : Outcome \cup {"active", "none"}]

TypeOK ==
    /\ trigger \in Triggers
    /\ row \in Outcome \cup {"active"}
    /\ line \in [Line -> {"none", "spawned", "stored", "sent"}]
    /\ engine \in {"running", "ending", "told", "closed"}
    /\ rx \in [Receiver -> Rx]
    /\ watcher \in [Receiver -> Watcher]

(* The task: its row is final once it has stopped, and it leaves no line   *)
(* of its own half written.                                                *)
TaskAtItsEnd ==
    /\ row = "active" <=> engine = "running"
    /\ engine # "running" => InlineAtRest

IsInline(e) == \E l \in Inline : e = [kind |-> "line", line |-> l]
IsEnd(e) == e = [kind |-> "finished"]

(* A queue in which no line of the task follows the end.                   *)
EndIsLast(q) == \A i, j \in 1..Len(q) : i < j /\ IsEnd(q[i]) => ~IsInline(q[j])

Queued(l, q) == \E i \in 1..Len(q) : q[i] = [kind |-> "line", line |-> l]

(* The channel of one receiver: it holds the end only once it was told,    *)
(* and nothing at all of a deployment of the other process.                *)
ChannelTells(x) ==
    /\ EndIsLast(x.queue)
    /\ \A i \in 1..Len(x.queue) : IsEnd(x.queue[i]) => engine \in {"told", "closed"}
    /\ x.state = "dropped" => engine = "closed"
    /\ ~Heard => x.queue = <<>> /\ x.lost = 0 /\ x.state # "dropped"

Behind(w) == watcher[w].told \/ rx[w].lost > 0
Sent == {l \in Inline : line[l] = "sent"}

(* Nothing that was sent has missed the viewer.                            *)
Follows(w) ==
    /\ watcher[w].snapshot # "active" => engine # "running"
    /\ watcher[w].pc \in {"history", "live"} => rx[w].state # "none"
    /\ watcher[w].pc \in {"idle", "read", "history", "live", "verdict"} => watcher[w].verdict = "none"
    /\ watcher[w].pc = "live" /\ Heard /\ ~Behind(w) =>
          \A l \in Sent : l \in watcher[w].seen \/ Queued(l, rx[w].queue)
    /\ watcher[w].pc = "verdict" => engine # "running"
    /\ watcher[w].pc = "verdict" /\ ~watcher[w].told => Sent \subseteq watcher[w].seen
    /\ watcher[w].pc = "done" /\ watcher[w].verdict # "none" => engine # "running"
    /\ watcher[w].pc = "done" /\ watcher[w].verdict # "none" /\ ~watcher[w].told =>
          Sent \subseteq watcher[w].seen

WatchInv ==
    /\ TypeOK /\ TaskAtItsEnd
    /\ \A r \in Receiver : ChannelTells(rx[r])
    /\ \A w \in Receiver : Follows(w)

-----------------------------------------------------------------------------
(* Queues.                                                                 *)

LEMMA EventKinds ==
    ASSUME NEW e \in Event
    PROVE  /\ e.kind = "finished" <=> IsEnd(e)
           /\ e.kind = "line" => e.line \in Line /\ e = [kind |-> "line", line |-> e.line]
           /\ IsInline(e) => e.kind = "line"
           /\ e.kind \in {"status", "line", "finished"}
           /\ ~(IsEnd(e) /\ IsInline(e))
BY DEF Event, IsEnd, IsInline

(* A line at the back of a queue that holds the end is none of the task's. *)
LEMMA AppendLast ==
    ASSUME NEW q \in Seq(Event), NEW e \in Event, EndIsLast(q),
           IsInline(e) => \A i \in 1..Len(q) : ~IsEnd(q[i])
    PROVE  LET t == Append(q, e) IN
           /\ t \in Seq(Event) /\ Len(t) = Len(q) + 1 /\ t[Len(t)] = e
           /\ \A i \in 1..Len(q) : t[i] = q[i]
           /\ EndIsLast(t)
<1>. DEFINE t == Append(q, e)
<1>1. /\ t \in Seq(Event) /\ Len(t) = Len(q) + 1 /\ t[Len(q) + 1] = e
      /\ \A i \in 1..Len(q) : t[i] = q[i]
  BY AppendProperties
<1>2. Len(q) \in Nat
  OBVIOUS
<1>. HIDE DEF t
<1>3. ASSUME NEW i \in 1..Len(t), NEW j \in 1..Len(t), i < j, IsEnd(t[i])
      PROVE  ~IsInline(t[j])
  <2>1. i \in 1..Len(q) /\ t[i] = q[i]
    BY <1>1, <1>2, <1>3
  <2>2. CASE j = Len(t)
    BY <1>1, <1>3, <2>1, <2>2
  <2>3. CASE j # Len(t)
    BY <1>1, <1>2, <1>3, <2>1, <2>3 DEF EndIsLast
  <2>. QED  BY <2>2, <2>3
<1>4. EndIsLast(t)
  BY <1>3 DEF EndIsLast
<1>. QED  BY <1>1, <1>4 DEF t

LEMMA TailLast ==
    ASSUME NEW q \in Seq(Event), q # <<>>, EndIsLast(q)
    PROVE  /\ Tail(q) \in Seq(Event) /\ EndIsLast(Tail(q))
           /\ \A i \in 1..Len(Tail(q)) : i + 1 \in 1..Len(q) /\ Tail(q)[i] = q[i + 1]
           /\ \A i \in 1..Len(q) : i # 1 => i - 1 \in 1..Len(Tail(q)) /\ Tail(q)[i - 1] = q[i]
           /\ 1 \in 1..Len(q) /\ Head(q) = q[1] /\ Head(q) \in Event
<1>1. Tail(q) \in Seq(Event) /\ Len(Tail(q)) = Len(q) - 1
      /\ Head(q) = q[1] /\ Head(q) \in Event
  BY HeadTailProperties
<1>2. \A i \in 1 .. Len(Tail(q)) : Tail(q)[i] = q[i + 1]
  BY HeadTailProperties
<1>3. Len(q) \in Nat \ {0}
  BY EmptySeq
<1>4. EndIsLast(Tail(q))
  BY <1>1, <1>2, <1>3 DEF EndIsLast
<1>. QED  BY <1>1, <1>2, <1>3, <1>4

LEMMA TailQueued ==
    ASSUME NEW q \in Seq(Event), q # <<>>, EndIsLast(q), NEW l \in Line, Queued(l, q),
           Head(q) # [kind |-> "line", line |-> l]
    PROVE  Queued(l, Tail(q))
BY TailLast DEF Queued

(* What publishing does to one receiver.                                   *)
LEMMA PushTells ==
    ASSUME NEW x \in Rx, NEW e \in Event, EndIsLast(x.queue),
           IsInline(e) => \A i \in 1..Len(x.queue) : ~IsEnd(x.queue[i])
    PROVE  LET y == Push(x, e) IN
           /\ y \in Rx /\ y.state = x.state
           /\ EndIsLast(y.queue)
           /\ \A i \in 1..Len(y.queue) : IsEnd(y.queue[i]) =>
                 IsEnd(e) \/ \E j \in 1..Len(x.queue) : IsEnd(x.queue[j])
           /\ x.lost > 0 => y.lost > 0
           /\ y.lost = 0 => \A l \in Line : Queued(l, x.queue) => Queued(l, y.queue)
           /\ y.lost = 0 /\ x.state = "attached" =>
                 \A l \in Line : e = [kind |-> "line", line |-> l] => Queued(l, y.queue)
<1>. DEFINE y == Push(x, e)
<1>0. x.queue \in Seq(Event) /\ x.lost \in Nat /\ Len(x.queue) \in Nat
  BY DEF Rx
<1>1. CASE x.state # "attached"
  BY <1>0, <1>1 DEF Push
<1>2. CASE x.state = "attached" /\ Len(x.queue) < Capacity
  <2>. DEFINE q == Append(x.queue, e)
  <2>1. y = [x EXCEPT !.queue = q]
    BY <1>2 DEF Push, Rx
  <2>2. /\ q \in Seq(Event) /\ EndIsLast(q) /\ Len(q) = Len(x.queue) + 1 /\ q[Len(q)] = e
        /\ \A i \in 1..Len(x.queue) : q[i] = x.queue[i]
    BY <1>0, AppendLast
  <2>. HIDE DEF q
  <2>3. y \in Rx /\ y.state = x.state /\ y.queue = q /\ y.lost = x.lost
    BY <2>1, <2>2 DEF Rx
  <2>4. \A i \in 1..Len(q) : IsEnd(q[i]) => IsEnd(e) \/ \E j \in 1..Len(x.queue) : IsEnd(x.queue[j])
    BY <1>0, <2>2
  <2>5. ASSUME NEW l \in Line, Queued(l, x.queue) PROVE Queued(l, q)
    <3>1. PICK i \in 1..Len(x.queue) : x.queue[i] = [kind |-> "line", line |-> l]
      BY <2>5 DEF Queued
    <3>2. i \in 1..Len(q) /\ q[i] = x.queue[i]
      BY <1>0, <2>2
    <3>. QED  BY <3>1, <3>2 DEF Queued
  <2>6. \A l \in Line : e = [kind |-> "line", line |-> l] => Queued(l, q)
    BY <1>0, <2>2 DEF Queued
  <2>. HIDE DEF y
  <2>. QED  BY <2>2, <2>3, <2>4, <2>5, <2>6 DEF y
<1>3. CASE x.state = "attached" /\ ~(Len(x.queue) < Capacity)
  <2>1. x.queue # <<>>
    <3>1. Len(x.queue) # 0
      BY <1>0, <1>3, EventsAssumption
    <3>. QED  BY <1>0, <3>1
  <2>. DEFINE p == Tail(x.queue)
              q == Append(p, e)
  <2>2. y = [x EXCEPT !.queue = q, !.lost = x.lost + 1]
    BY <1>3 DEF Push, Rx
  <2>3. /\ p \in Seq(Event) /\ EndIsLast(p)
        /\ \A i \in 1..Len(p) : i + 1 \in 1..Len(x.queue) /\ p[i] = x.queue[i + 1]
    BY <1>0, <2>1, TailLast
  <2>. HIDE DEF p
  <2>4. /\ q \in Seq(Event) /\ EndIsLast(q) /\ Len(q) = Len(p) + 1 /\ q[Len(q)] = e
        /\ \A i \in 1..Len(p) : q[i] = p[i]
    BY <2>3, AppendLast
  <2>. HIDE DEF q
  <2>. DEFINE n == x.lost + 1
  <2>n. n \in Nat /\ n > 0 /\ y = [x EXCEPT !.queue = q, !.lost = n]
    BY <1>0, <2>2
  <2>. HIDE DEF n
  <2>5. y \in Rx /\ y.state = x.state /\ y.queue = q /\ y.lost = n
    BY <2>4, <2>n DEF Rx
  <2>6. Len(p) \in Nat
    BY <2>3
  <2>7. \A i \in 1..Len(q) : IsEnd(q[i]) => IsEnd(e) \/ \E j \in 1..Len(x.queue) : IsEnd(x.queue[j])
    BY <2>3, <2>4, <2>6
  <2>8. y.lost > 0
    BY <2>5, <2>n
  <2>. HIDE DEF y
  <2>. QED  BY <1>0, <2>4, <2>5, <2>7, <2>8 DEF y
<1>. QED  BY <1>1, <1>2, <1>3

-----------------------------------------------------------------------------
(* The task.                                                               *)

LEMMA LinesAreEvents ==
    /\ \A l \in Line : [kind |-> "line", line |-> l] \in Event
    /\ [kind |-> "status"] \in Event /\ [kind |-> "finished"] \in Event
    /\ \A l \in Line : ~IsEnd([kind |-> "line", line |-> l])
    /\ \A l \in Line : IsInline([kind |-> "line", line |-> l]) => l \in Inline
    /\ ~IsEnd([kind |-> "status"]) /\ ~IsInline([kind |-> "status"])
    /\ ~IsInline([kind |-> "finished"])
BY DEF Event, IsEnd, IsInline

(* Publishing leaves every channel in order, and takes nothing from a      *)
(* receiver that it has not told of a loss.                                *)
LEMMA PublishKeeps ==
    ASSUME WatchInv, NEW e \in Event, Publish(e), trigger' = trigger,
           IsInline(e) => engine = "running",
           IsEnd(e) => engine' \in {"told", "closed"},
           engine \in {"told", "closed"} => engine' = engine
    PROVE  /\ rx' \in [Receiver -> Rx]
           /\ \A r \in Receiver :
                 /\ ChannelTells(rx[r])'
                 /\ rx'[r].state = rx[r].state
                 /\ rx[r].lost > 0 => rx'[r].lost > 0
                 /\ rx'[r].lost = 0 => \A l \in Line : Queued(l, rx[r].queue) => Queued(l, rx'[r].queue)
                 /\ Heard /\ rx'[r].lost = 0 /\ rx[r].state = "attached" =>
                       \A l \in Line : e = [kind |-> "line", line |-> l] => Queued(l, rx'[r].queue)
<1>1. Heard' = Heard
  BY DEF Heard
<1>2. CASE ~Heard
  BY <1>1, <1>2 DEF WatchInv, TypeOK, Publish, ChannelTells
<1>3. CASE Heard
  <2>1. \A r \in Receiver : rx[r] \in Rx /\ rx'[r] = Push(rx[r], e)
    BY <1>3 DEF WatchInv, TypeOK, Publish
  <2>2. rx' = [r \in Receiver |-> Push(rx[r], e)]
    BY <1>3 DEF Publish
  <2>3. ASSUME NEW r \in Receiver
        PROVE  /\ ChannelTells(rx[r])' /\ rx'[r] \in Rx
               /\ rx'[r].state = rx[r].state
               /\ rx[r].lost > 0 => rx'[r].lost > 0
               /\ rx'[r].lost = 0 => \A l \in Line : Queued(l, rx[r].queue) => Queued(l, rx'[r].queue)
               /\ Heard /\ rx'[r].lost = 0 /\ rx[r].state = "attached" =>
                     \A l \in Line : e = [kind |-> "line", line |-> l] => Queued(l, rx'[r].queue)
    <3>1. ChannelTells(rx[r])
      BY DEF WatchInv
    <3>2. IsInline(e) => \A i \in 1..Len(rx[r].queue) : ~IsEnd(rx[r].queue[i])
      BY <3>1 DEF ChannelTells
    <3>3. EndIsLast(rx[r].queue)
      BY <3>1 DEF ChannelTells
    <3>. DEFINE x == rx[r]
                y == Push(rx[r], e)
    <3>4. /\ y \in Rx /\ y.state = x.state
          /\ EndIsLast(y.queue)
          /\ \A i \in 1..Len(y.queue) : IsEnd(y.queue[i]) =>
                IsEnd(e) \/ \E j \in 1..Len(x.queue) : IsEnd(x.queue[j])
          /\ x.lost > 0 => y.lost > 0
          /\ y.lost = 0 => \A l \in Line : Queued(l, x.queue) => Queued(l, y.queue)
          /\ y.lost = 0 /\ x.state = "attached" =>
                \A l \in Line : e = [kind |-> "line", line |-> l] => Queued(l, y.queue)
      BY <2>1, <3>2, <3>3, PushTells
    <3>5. rx'[r] = y
      BY <2>1
    <3>. HIDE DEF y
    <3>6. ChannelTells(rx[r])'
      BY <1>1, <1>3, <3>1, <3>4, <3>5 DEF ChannelTells
    <3>. QED  BY <3>4, <3>5, <3>6
  <2>. QED  BY <2>2, <2>3, <1>3
<1>. QED  BY <1>2, <1>3

LEMMA InlineLines == Inline \subseteq Line
BY DEF Line

(* A step of the task in which no line is sent loses none.                 *)
LEMMA FollowsOn ==
    ASSUME WatchInv, NEW w \in Receiver, UNCHANGED <<watcher, trigger>>, Sent' = Sent,
           engine # "running" => engine' # "running",
           rx'[w].state = rx[w].state,
           rx[w].lost > 0 => rx'[w].lost > 0,
           rx[w].lost \in Nat /\ rx'[w].lost \in Nat,
           rx'[w].lost = 0 => \A l \in Line : Queued(l, rx[w].queue) => Queued(l, rx'[w].queue)
    PROVE  Follows(w)'
<1>1. Follows(w)
  BY DEF WatchInv
<1>2. Heard' = Heard
  BY DEF Heard
<1>3. Sent \subseteq Line
  BY InlineLines DEF Sent
<1>. QED  BY <1>1, <1>2, <1>3 DEF Follows, Behind

LEMMA Transition_Inv == WatchInv /\ Transition /\ UNCHANGED watcher => WatchInv'
<1>. SUFFICES ASSUME WatchInv, Transition, UNCHANGED watcher PROVE WatchInv'
  OBVIOUS
<1>1. Publish([kind |-> "status"]) /\ UNCHANGED <<trigger, row, line, engine>>
  BY DEF Transition
<1>. DEFINE e == [kind |-> "status"]
<1>2. e \in Event /\ ~IsInline(e) /\ ~IsEnd(e)
  BY LinesAreEvents
<1>. HIDE DEF e
<1>3. Publish(e)
  BY <1>1 DEF e
<1>4. /\ rx' \in [Receiver -> Rx]
      /\ \A r \in Receiver :
            /\ ChannelTells(rx[r])'
            /\ rx'[r].state = rx[r].state
            /\ rx[r].lost > 0 => rx'[r].lost > 0
            /\ rx'[r].lost = 0 => \A l \in Line : Queued(l, rx[r].queue) => Queued(l, rx'[r].queue)
  BY <1>1, <1>2, <1>3, PublishKeeps
<1>5. TypeOK' /\ TaskAtItsEnd'
  BY <1>1, <1>4 DEF WatchInv, TypeOK, TaskAtItsEnd, InlineAtRest
<1>6. Sent' = Sent /\ engine' = engine
  BY <1>1 DEF Sent
<1>7. \A r \in Receiver : rx[r].lost \in Nat /\ rx'[r].lost \in Nat
  BY <1>5 DEF WatchInv, TypeOK, Rx
<1>8. \A w \in Receiver : Follows(w)'
  BY <1>1, <1>4, <1>6, <1>7, FollowsOn
<1>. QED  BY <1>4, <1>5, <1>8 DEF WatchInv

LEMMA TellEnd_Inv == WatchInv /\ TellEnd /\ UNCHANGED watcher => WatchInv'
<1>. SUFFICES ASSUME WatchInv, TellEnd, UNCHANGED watcher PROVE WatchInv'
  OBVIOUS
<1>1. /\ Publish([kind |-> "finished"]) /\ UNCHANGED <<trigger, row, line, moves>>
      /\ engine = "ending" /\ engine' = "told"
  BY DEF TellEnd
<1>. DEFINE e == [kind |-> "finished"]
<1>2. e \in Event /\ ~IsInline(e)
  BY LinesAreEvents
<1>. HIDE DEF e
<1>3. Publish(e)
  BY <1>1 DEF e
<1>4. /\ rx' \in [Receiver -> Rx]
      /\ \A r \in Receiver :
            /\ ChannelTells(rx[r])'
            /\ rx'[r].state = rx[r].state
            /\ rx[r].lost > 0 => rx'[r].lost > 0
            /\ rx'[r].lost = 0 => \A l \in Line : Queued(l, rx[r].queue) => Queued(l, rx'[r].queue)
  BY <1>1, <1>2, <1>3, PublishKeeps
<1>5. TypeOK' /\ TaskAtItsEnd'
  BY <1>1, <1>4 DEF WatchInv, TypeOK, TaskAtItsEnd, InlineAtRest
<1>6. Sent' = Sent
  BY <1>1 DEF Sent
<1>7. \A r \in Receiver : rx[r].lost \in Nat /\ rx'[r].lost \in Nat
  BY <1>5 DEF WatchInv, TypeOK, Rx
<1>8. \A w \in Receiver : Follows(w)'
  BY <1>1, <1>4, <1>6, <1>7, FollowsOn
<1>. QED  BY <1>4, <1>5, <1>8 DEF WatchInv

(* Spawning a line, storing it and the last row tell nobody anything.      *)
LEMMA Quiet_Inv ==
    ASSUME WatchInv, NEW l, SpawnLine(l) \/ StoreLine(l) \/ EndRow, UNCHANGED watcher
    PROVE  WatchInv'
<1>1. UNCHANGED <<trigger, rx>>
  BY DEF SpawnLine, StoreLine, EndRow, bus
<1>2. TypeOK'
  <2>1. CASE SpawnLine(l)
    BY <1>1, <2>1 DEF SpawnLine, Line, WatchInv, TypeOK
  <2>2. CASE StoreLine(l)
    BY <1>1, <2>2 DEF StoreLine, Line, WatchInv, TypeOK
  <2>3. CASE EndRow
    BY <1>1, <2>3 DEF EndRow, WatchInv, TypeOK
  <2>. QED  BY <2>1, <2>2, <2>3
<1>3. TaskAtItsEnd'
  <2>1. CASE SpawnLine(l)
    BY <1>1, <2>1 DEF SpawnLine, Line, WatchInv, TypeOK, TaskAtItsEnd, InlineAtRest
  <2>2. CASE StoreLine(l)
    BY <1>1, <2>2, EventsAssumption DEF StoreLine, Line, WatchInv, TypeOK, TaskAtItsEnd, InlineAtRest
  <2>3. CASE EndRow
    BY <1>1, <2>3 DEF EndRow, WatchInv, TypeOK, TaskAtItsEnd, InlineAtRest, Outcome
  <2>. QED  BY <2>1, <2>2, <2>3
<1>4. Sent' = Sent
  <2>1. CASE SpawnLine(l)
    BY <2>1, InlineLines DEF SpawnLine, WatchInv, TypeOK, Sent
  <2>2. CASE StoreLine(l)
    BY <2>2, InlineLines DEF StoreLine, Line, WatchInv, TypeOK, Sent
  <2>3. CASE EndRow
    BY <2>3 DEF EndRow, Sent
  <2>. QED  BY <2>1, <2>2, <2>3
<1>5. engine' = engine \/ (engine = "running" /\ engine' = "ending")
  BY DEF SpawnLine, StoreLine, EndRow
<1>6. \A r \in Receiver : ChannelTells(rx[r])'
  BY <1>1, <1>5 DEF WatchInv, ChannelTells, Heard
<1>7. \A r \in Receiver : rx[r].lost \in Nat
  BY DEF WatchInv, TypeOK, Rx
<1>8. \A w \in Receiver : Follows(w)'
  BY <1>1, <1>4, <1>5, <1>7, FollowsOn
<1>. QED  BY <1>2, <1>3, <1>6, <1>8 DEF WatchInv

LEMMA SendLine_Inv ==
    ASSUME WatchInv, NEW l \in Line, SendLine(l), UNCHANGED watcher
    PROVE  WatchInv'
<1>. DEFINE e == [kind |-> "line", line |-> l]
<1>1. /\ Publish(e) /\ UNCHANGED <<trigger, row, engine>>
      /\ line[l] = "stored" /\ line' = [line EXCEPT ![l] = "sent"]
  BY DEF SendLine
<1>2. /\ e \in Event /\ ~IsEnd(e) /\ (IsInline(e) => l \in Inline)
  BY LinesAreEvents
<1>3. l \in Inline => engine = "running"
  BY <1>1 DEF WatchInv, TaskAtItsEnd, InlineAtRest
<1>. HIDE DEF e
<1>4. /\ rx' \in [Receiver -> Rx]
      /\ \A r \in Receiver :
            /\ ChannelTells(rx[r])'
            /\ rx'[r].state = rx[r].state
            /\ rx[r].lost > 0 => rx'[r].lost > 0
            /\ rx'[r].lost = 0 => \A k \in Line : Queued(k, rx[r].queue) => Queued(k, rx'[r].queue)
            /\ Heard /\ rx'[r].lost = 0 /\ rx[r].state = "attached" =>
                  \A k \in Line : e = [kind |-> "line", line |-> k] => Queued(k, rx'[r].queue)
  BY <1>1, <1>2, <1>3, PublishKeeps
<1>5. TypeOK' /\ TaskAtItsEnd'
  BY <1>1, <1>4 DEF WatchInv, TypeOK, TaskAtItsEnd, InlineAtRest
<1>6. Sent' \subseteq Sent \cup ({l} \cap Inline) /\ Sent \subseteq Line
  BY <1>1, InlineLines DEF WatchInv, TypeOK, Sent
<1>7. \A r \in Receiver : rx[r].lost \in Nat /\ rx'[r].lost \in Nat
  BY <1>5 DEF WatchInv, TypeOK, Rx
<1>8. ASSUME NEW w \in Receiver PROVE Follows(w)'
  <2>1. Follows(w) /\ ChannelTells(rx[w])
    BY DEF WatchInv
  <2>2. Heard' = Heard
    BY <1>1 DEF Heard
  <2>3. rx[w].state \in {"none", "attached", "dropped"}
    BY DEF WatchInv, TypeOK, Rx
  <2>4. CASE l \in Inline
    <3>1. engine = "running" /\ rx[w].state # "dropped"
      BY <1>3, <2>1, <2>4 DEF ChannelTells
    <3>2. watcher[w].pc = "live" /\ Heard /\ ~Behind(w)' => Queued(l, rx'[w].queue)
      BY <1>1, <1>4, <1>7, <2>1, <2>3, <2>4, <3>1 DEF Follows, Behind, e
    <3>. QED  BY <1>1, <1>4, <1>6, <1>7, <2>1, <2>2, <3>1, <3>2 DEF Follows, Behind
  <2>5. CASE l \notin Inline
    BY <1>1, <1>4, <1>6, <1>7, <2>1, <2>2, <2>5 DEF Follows, Behind
  <2>. QED  BY <2>4, <2>5
<1>. QED  BY <1>4, <1>5, <1>8 DEF WatchInv

LEMMA Close_Inv == WatchInv /\ Close => WatchInv'
<1>. SUFFICES ASSUME WatchInv, Close PROVE WatchInv'
  OBVIOUS
<1>1. /\ engine = "told" /\ engine' = "closed" /\ UNCHANGED <<trigger, row, line, watcher>>
  BY DEF Close, CloseChannel
<1>2. rx' = rx \/ (Heard /\ rx' = [r \in Receiver |-> IF rx[r].state = "attached"
                                                        THEN [rx[r] EXCEPT !.state = "dropped"]
                                                        ELSE rx[r]])
  BY DEF Close, CloseChannel, bus
<1>3. /\ rx' \in [Receiver -> Rx]
      /\ \A r \in Receiver :
            /\ rx'[r].queue = rx[r].queue /\ rx'[r].lost = rx[r].lost
            /\ rx'[r].state = rx[r].state \/ (Heard /\ rx'[r].state = "dropped" /\ rx[r].state # "none")
  <2>1. CASE rx' = rx
    BY <2>1 DEF WatchInv, TypeOK
  <2>2. CASE rx' # rx
    <3>1. \A x \in Rx : LET y == [x EXCEPT !.state = "dropped"] IN
             y \in Rx /\ y.queue = x.queue /\ y.lost = x.lost /\ y.state = "dropped"
      BY DEF Rx
    <3>2. rx \in [Receiver -> Rx]
      BY DEF WatchInv, TypeOK
    <3>3. ASSUME NEW r \in Receiver
          PROVE  /\ rx'[r] \in Rx /\ rx'[r].queue = rx[r].queue /\ rx'[r].lost = rx[r].lost
                 /\ rx'[r].state = rx[r].state \/ (Heard /\ rx'[r].state = "dropped" /\ rx[r].state # "none")
      <4>1. CASE rx[r].state = "attached"
        <5>1. Heard /\ rx'[r] = [rx[r] EXCEPT !.state = "dropped"]
          BY <1>2, <2>2, <4>1
        <5>. QED  BY <3>1, <3>2, <4>1, <5>1
      <4>2. CASE rx[r].state # "attached"
        BY <1>2, <2>2, <3>2, <4>2
      <4>. QED  BY <4>1, <4>2
    <3>. QED  BY <1>2, <2>2, <3>3
  <2>. QED  BY <2>1, <2>2
<1>4. TypeOK' /\ TaskAtItsEnd'
  BY <1>1, <1>3 DEF WatchInv, TypeOK, TaskAtItsEnd, InlineAtRest
<1>5. Heard' = Heard /\ Sent' = Sent
  BY <1>1 DEF Heard, Sent
<1>6. \A r \in Receiver : ChannelTells(rx[r])'
  BY <1>1, <1>3, <1>5 DEF WatchInv, ChannelTells
<1>7. \A w \in Receiver : Follows(w)'
  BY <1>1, <1>3, <1>5 DEF WatchInv, Follows, Behind
<1>. QED  BY <1>4, <1>6, <1>7 DEF WatchInv

-----------------------------------------------------------------------------
(* The viewers.                                                            *)

(* A step of one viewer needs to be looked at for that viewer only.        *)
LEMMA OneViewer ==
    ASSUME WatchInv, UNCHANGED events, NEW w \in Receiver, NEW v \in Watcher, NEW x \in Rx,
           watcher' = [watcher EXCEPT ![w] = v], rx' = [rx EXCEPT ![w] = x],
           ChannelTells(x), Follows(w)'
    PROVE  WatchInv'
<1>1. /\ \A r \in Receiver \ {w} : watcher'[r] = watcher[r] /\ rx'[r] = rx[r]
      /\ rx'[w] = x
  BY DEF WatchInv, TypeOK
<1>2. TypeOK' /\ TaskAtItsEnd'
  BY DEF events, WatchInv, TypeOK, TaskAtItsEnd, InlineAtRest
<1>3. Heard' = Heard /\ Sent' = Sent /\ engine' = engine
  BY DEF events, Heard, Sent
<1>4. \A r \in Receiver : ChannelTells(rx[r])'
  BY <1>1, <1>3 DEF WatchInv, ChannelTells
<1>5. ASSUME NEW r \in Receiver PROVE Follows(r)'
  <2>1. CASE r = w
    BY <2>1
  <2>2. CASE r # w
    BY <1>1, <1>3, <2>2 DEF WatchInv, Follows, Behind
  <2>. QED  BY <2>1, <2>2
<1>. QED  BY <1>2, <1>4, <1>5 DEF WatchInv

(* A new receiver has heard nothing.                                       *)
LEMMA NewRx ==
    /\ NoRx \in Rx /\ ChannelTells(NoRx) /\ NoRx.lost = 0 /\ NoRx.state = "none"
    /\ LET x == [NoRx EXCEPT !.state = "attached"] IN
       x \in Rx /\ ChannelTells(x) /\ x.lost = 0 /\ x.state = "attached"
<1>1. <<>> \in Seq(Event) /\ Len(<<>>) = 0
  BY EmptySeq
<1>2. EndIsLast(<<>>) /\ \A i \in 1..Len(<<>>) : FALSE
  BY <1>1 DEF EndIsLast
<1>3. NoRx \in Rx /\ NoRx.queue = <<>> /\ NoRx.lost = 0 /\ NoRx.state = "none"
  BY <1>1 DEF NoRx, Rx
<1>4. ASSUME NEW x \in Rx, x.queue = <<>>, x.lost = 0, x.state # "dropped" PROVE ChannelTells(x)
  BY <1>2, <1>4 DEF ChannelTells
<1>. DEFINE x == [NoRx EXCEPT !.state = "attached"]
<1>5. x \in Rx /\ x.queue = <<>> /\ x.lost = 0 /\ x.state = "attached"
  BY <1>1 DEF NoRx, Rx
<1>. QED  BY <1>3, <1>4, <1>5

LEMMA ReadRow_Inv == ASSUME WatchInv, NEW w \in Receiver, ReadRow(w) PROVE WatchInv'
<1>. DEFINE v == [watcher[w] EXCEPT !.pc = "read", !.snapshot = row]
<1>1. /\ watcher[w] \in Watcher /\ rx[w] \in Rx /\ row \in Outcome \cup {"active"}
      /\ watcher[w].pc = "idle" /\ Follows(w) /\ ChannelTells(rx[w]) /\ TaskAtItsEnd
  BY DEF ReadRow, WatchInv, TypeOK
<1>2. /\ v \in Watcher /\ v.pc = "read" /\ v.snapshot = row /\ v.verdict = watcher[w].verdict
  BY <1>1 DEF Watcher
<1>3. watcher' = [watcher EXCEPT ![w] = v] /\ UNCHANGED <<events, rx>>
  BY DEF ReadRow, bus
<1>. HIDE DEF v
<1>4. watcher'[w] = v /\ rx' = [rx EXCEPT ![w] = rx[w]]
  BY <1>3 DEF WatchInv, TypeOK
<1>5. Follows(w)'
  BY <1>1, <1>2, <1>3, <1>4 DEF Follows, events, TaskAtItsEnd
<1>. QED  BY <1>1, <1>2, <1>3, <1>4, <1>5, OneViewer

LEMMA Subscribe_Inv == ASSUME WatchInv, NEW w \in Receiver, Subscribe(w) PROVE WatchInv'
<1>. DEFINE v == [watcher[w] EXCEPT !.pc = "history"]
            x == [NoRx EXCEPT !.state = "attached"]
<1>1. /\ watcher[w] \in Watcher /\ watcher[w].pc = "read" /\ Follows(w)
  BY DEF Subscribe, WatchInv, TypeOK
<1>2. /\ v \in Watcher /\ v.pc = "history" /\ v.snapshot = watcher[w].snapshot
      /\ v.verdict = watcher[w].verdict
  BY <1>1 DEF Watcher
<1>3. x \in Rx /\ ChannelTells(x) /\ x.state = "attached"
  BY NewRx
<1>4. /\ watcher' = [watcher EXCEPT ![w] = v] /\ rx' = [rx EXCEPT ![w] = x]
      /\ UNCHANGED events
  BY DEF Subscribe, SubscribeTo
<1>. HIDE DEF v, x
<1>5. watcher'[w] = v /\ rx'[w] = x
  BY <1>4 DEF WatchInv, TypeOK
<1>6. Follows(w)'
  BY <1>1, <1>2, <1>3, <1>4, <1>5 DEF Follows, events
<1>. QED  BY <1>2, <1>3, <1>4, <1>6, OneViewer

LEMMA Replay_Inv == ASSUME WatchInv, NEW w \in Receiver, Replay(w) PROVE WatchInv'
<1>. DEFINE next == IF watcher[w].snapshot \in Outcome THEN "verdict" ELSE "live"
            v == [watcher[w] EXCEPT !.seen = Stored, !.pc = next]
<1>1. /\ watcher[w] \in Watcher /\ rx[w] \in Rx /\ watcher[w].pc = "history" /\ Follows(w)
      /\ ChannelTells(rx[w])
  BY DEF Replay, WatchInv, TypeOK
<1>2. Stored \in SUBSET Line /\ Sent \subseteq Stored
  BY InlineLines DEF Stored, Sent
<1>3. /\ v \in Watcher /\ v.pc = next /\ v.snapshot = watcher[w].snapshot
      /\ v.verdict = watcher[w].verdict /\ v.seen = Stored
  BY <1>1, <1>2 DEF Watcher
<1>4. watcher' = [watcher EXCEPT ![w] = v] /\ UNCHANGED <<events, rx>>
  BY DEF Replay, bus
<1>. HIDE DEF v
<1>5. watcher'[w] = v /\ rx' = [rx EXCEPT ![w] = rx[w]]
  BY <1>4 DEF WatchInv, TypeOK
<1>6. Sent' = Sent /\ UNCHANGED <<engine, rx>>
  BY <1>4 DEF Sent, events
<1>7. Follows(w)'
  BY <1>1, <1>2, <1>3, <1>5, <1>6 DEF Follows, Outcome
<1>. QED  BY <1>1, <1>3, <1>4, <1>5, <1>7, OneViewer

LEMMA Deliver_Inv == ASSUME WatchInv, NEW w \in Receiver, Deliver(w) PROVE WatchInv'
<1>. DEFINE v == [watcher[w] EXCEPT !.pc = "done", !.verdict = row]
<1>1. /\ watcher[w] \in Watcher /\ row \in Outcome \cup {"active"} /\ watcher[w].pc = "verdict"
      /\ Follows(w)
  BY DEF Deliver, WatchInv, TypeOK
<1>2. /\ v \in Watcher /\ v.pc = "done" /\ v.snapshot = watcher[w].snapshot
      /\ v.seen = watcher[w].seen /\ v.told = watcher[w].told
  BY <1>1 DEF Watcher
<1>3. /\ watcher' = [watcher EXCEPT ![w] = v] /\ rx' = [rx EXCEPT ![w] = NoRx] /\ UNCHANGED events
  BY DEF Deliver, Detach
<1>. HIDE DEF v
<1>4. watcher'[w] = v /\ Sent' = Sent /\ engine' = engine
  BY <1>3 DEF WatchInv, TypeOK, events, Sent
<1>5. Follows(w)'
  BY <1>1, <1>2, <1>4 DEF Follows
<1>. QED  BY <1>2, <1>3, <1>5, NewRx, OneViewer

LEMMA Leave_Inv == ASSUME WatchInv, NEW w \in Receiver, Leave(w) PROVE WatchInv'
<1>. DEFINE v == [watcher[w] EXCEPT !.pc = "done"]
<1>1. /\ watcher[w] \in Watcher /\ watcher[w].pc \in {"history", "live"} /\ Follows(w)
  BY DEF Leave, WatchInv, TypeOK
<1>2. /\ v \in Watcher /\ v.pc = "done" /\ v.snapshot = watcher[w].snapshot
      /\ v.verdict = "none"
  BY <1>1 DEF Watcher, Follows
<1>3. /\ watcher' = [watcher EXCEPT ![w] = v] /\ rx' = [rx EXCEPT ![w] = NoRx] /\ UNCHANGED events
  BY DEF Leave, Detach
<1>. HIDE DEF v
<1>4. watcher'[w] = v /\ Sent' = Sent /\ engine' = engine
  BY <1>3 DEF WatchInv, TypeOK, events, Sent
<1>5. Follows(w)'
  BY <1>1, <1>2, <1>4 DEF Follows
<1>. QED  BY <1>2, <1>3, <1>5, NewRx, OneViewer

(* One turn of the loop: the news of a loss, a status, a line, or the end. *)
LEMMA TakeHeadIs ==
    ASSUME WatchInv, NEW w \in Receiver, Pending(w), TakeHead(w)
    PROVE  LET x == [rx[w] EXCEPT !.queue = Tail(rx[w].queue)] IN
           /\ rx' = [rx EXCEPT ![w] = x] /\ rx'[w] = x
           /\ x \in Rx /\ ChannelTells(x)
           /\ x.queue = Tail(rx[w].queue) /\ x.lost = 0 /\ x.state = rx[w].state
           /\ rx[w].queue \in Seq(Event) /\ rx[w].queue # <<>> /\ EndIsLast(rx[w].queue)
           /\ Heard
<1>. DEFINE x == [rx[w] EXCEPT !.queue = Tail(rx[w].queue)]
<1>1. /\ rx[w] \in Rx /\ ChannelTells(rx[w]) /\ rx[w].queue # <<>> /\ rx[w].lost = 0
  BY DEF WatchInv, TypeOK, Pending
<1>2. rx' = [rx EXCEPT ![w] = x] /\ rx'[w] = x
  BY DEF TakeHead, WatchInv, TypeOK
<1>3. rx[w].queue \in Seq(Event) /\ EndIsLast(rx[w].queue) /\ Heard
  BY <1>1 DEF ChannelTells, Rx
<1>4. /\ Tail(rx[w].queue) \in Seq(Event) /\ EndIsLast(Tail(rx[w].queue))
      /\ \A i \in 1..Len(Tail(rx[w].queue)) :
            i + 1 \in 1..Len(rx[w].queue) /\ Tail(rx[w].queue)[i] = rx[w].queue[i + 1]
  BY <1>1, <1>3, TailLast
<1>5. x \in Rx /\ x.queue = Tail(rx[w].queue) /\ x.lost = 0 /\ x.state = rx[w].state
  BY <1>1, <1>4 DEF Rx
<1>. HIDE DEF x
<1>6. ChannelTells(x)
  BY <1>1, <1>3, <1>4, <1>5 DEF ChannelTells
<1>. QED  BY <1>1, <1>2, <1>3, <1>5, <1>6 DEF x

LEMMA ReceiveLag_Inv ==
    ASSUME WatchInv, NEW w \in Receiver, watcher[w].pc = "live", Lagged(w), TakeLag(w),
           watcher' = [watcher EXCEPT ![w].told = TRUE], UNCHANGED events
    PROVE  WatchInv'
<1>. DEFINE v == [watcher[w] EXCEPT !.told = TRUE]
            x == [rx[w] EXCEPT !.lost = 0]
<1>1. watcher[w] \in Watcher /\ rx[w] \in Rx /\ Follows(w) /\ ChannelTells(rx[w])
  BY DEF WatchInv, TypeOK
<1>2. /\ v \in Watcher /\ v.pc = "live" /\ v.snapshot = watcher[w].snapshot /\ v.told
      /\ v.verdict = watcher[w].verdict
  BY <1>1 DEF Watcher
<1>3. x \in Rx /\ x.queue = rx[w].queue /\ x.lost = 0 /\ x.state = rx[w].state
  BY <1>1 DEF Rx
<1>4. watcher' = [watcher EXCEPT ![w] = v] /\ rx' = [rx EXCEPT ![w] = x]
  BY DEF TakeLag
<1>. HIDE DEF v, x
<1>5. ChannelTells(x)
  BY <1>1, <1>3 DEF ChannelTells
<1>6. watcher'[w] = v /\ rx'[w] = x /\ engine' = engine
  BY <1>4 DEF WatchInv, TypeOK, events
<1>7. Follows(w)'
  BY <1>1, <1>2, <1>3, <1>6 DEF Follows, Behind
<1>. QED  BY <1>2, <1>3, <1>4, <1>5, <1>7, OneViewer

LEMMA ReceiveOther_Inv ==
    ASSUME WatchInv, NEW w \in Receiver, watcher[w].pc = "live", Pending(w), TakeHead(w),
           Head(rx[w].queue).kind = "status", UNCHANGED watcher, UNCHANGED events
    PROVE  WatchInv'
<1>. DEFINE x == [rx[w] EXCEPT !.queue = Tail(rx[w].queue)]
            q == rx[w].queue
<1>1. /\ rx' = [rx EXCEPT ![w] = x] /\ rx'[w] = x /\ x \in Rx /\ ChannelTells(x)
      /\ x.queue = Tail(q) /\ x.lost = 0 /\ x.state = rx[w].state
      /\ q \in Seq(Event) /\ q # <<>> /\ EndIsLast(q) /\ Heard
  BY TakeHeadIs
<1>. HIDE DEF x
<1>2. Head(q) \in Event /\ rx[w].lost = 0
  BY <1>1, TailLast DEF Pending
<1>3. \A l \in Line : Head(q) # [kind |-> "line", line |-> l]
  OBVIOUS
<1>4. \A l \in Line : Queued(l, q) => Queued(l, Tail(q))
  BY <1>1, <1>3, TailQueued
<1>5. Follows(w) /\ watcher[w] \in Watcher /\ watcher' = [watcher EXCEPT ![w] = watcher[w]]
  BY DEF WatchInv, TypeOK
<1>6. Sent' = Sent /\ Heard' = Heard /\ engine' = engine /\ Sent \subseteq Line
  BY InlineLines DEF events, Sent, Heard
<1>7. Follows(w)'
  BY <1>1, <1>2, <1>4, <1>5, <1>6 DEF Follows, Behind
<1>. QED  BY <1>1, <1>5, <1>7, OneViewer

LEMMA ReceiveLine_Inv ==
    ASSUME WatchInv, NEW w \in Receiver, watcher[w].pc = "live", Pending(w), TakeHead(w),
           Head(rx[w].queue).kind = "line", UNCHANGED events,
           watcher' = [watcher EXCEPT ![w].seen = @ \cup {Head(rx[w].queue).line}]
    PROVE  WatchInv'
<1>. DEFINE x == [rx[w] EXCEPT !.queue = Tail(rx[w].queue)]
            q == rx[w].queue
            e == Head(q)
            seen == watcher[w].seen \cup {e.line}
            v == [watcher[w] EXCEPT !.seen = seen]
<1>1. /\ rx' = [rx EXCEPT ![w] = x] /\ rx'[w] = x /\ x \in Rx /\ ChannelTells(x)
      /\ x.queue = Tail(q) /\ x.lost = 0 /\ x.state = rx[w].state
      /\ q \in Seq(Event) /\ q # <<>> /\ EndIsLast(q) /\ Heard
  BY TakeHeadIs
<1>. HIDE DEF x
<1>2. e \in Event /\ rx[w].lost = 0
  BY <1>1, TailLast DEF Pending
<1>3. e.line \in Line
  BY <1>2, EventKinds
<1>4. \A l \in Line : Queued(l, q) => Queued(l, Tail(q)) \/ l = e.line
  <2>. SUFFICES ASSUME NEW l \in Line, Queued(l, q), l # e.line PROVE Queued(l, Tail(q))
    OBVIOUS
  <2>1. e # [kind |-> "line", line |-> l]
    OBVIOUS
  <2>. QED  BY <1>1, <2>1, TailQueued
<1>5. Follows(w) /\ watcher[w] \in Watcher
  BY DEF WatchInv, TypeOK
<1>6. seen \subseteq Line
  BY <1>3, <1>5 DEF Watcher
<1>. HIDE DEF e
<1>7. /\ v \in Watcher /\ v.pc = "live" /\ v.snapshot = watcher[w].snapshot
      /\ v.told = watcher[w].told /\ v.verdict = watcher[w].verdict /\ v.seen = seen
  BY <1>5, <1>6 DEF Watcher
<1>8. watcher' = [watcher EXCEPT ![w] = v]
  BY <1>5 DEF e
<1>. HIDE DEF v
<1>9. watcher'[w] = v
  BY <1>8 DEF WatchInv, TypeOK
<1>10. Sent' = Sent /\ Heard' = Heard /\ engine' = engine /\ Sent \subseteq Line
  BY InlineLines DEF events, Sent, Heard
<1>11. Follows(w)'
  BY <1>1, <1>2, <1>4, <1>5, <1>7, <1>9, <1>10 DEF Follows, Behind
<1>. QED  BY <1>1, <1>7, <1>8, <1>11, OneViewer

(* When the end is next, no line of the task is left in the queue.         *)
LEMMA ReceiveEnd_Inv ==
    ASSUME WatchInv, NEW w \in Receiver, watcher[w].pc = "live", Pending(w), TakeHead(w),
           Head(rx[w].queue).kind = "finished", UNCHANGED events,
           watcher' = [watcher EXCEPT ![w].pc = "verdict"]
    PROVE  WatchInv'
<1>. DEFINE x == [rx[w] EXCEPT !.queue = Tail(rx[w].queue)]
            q == rx[w].queue
            v == [watcher[w] EXCEPT !.pc = "verdict"]
<1>1. /\ rx' = [rx EXCEPT ![w] = x] /\ rx'[w] = x /\ x \in Rx /\ ChannelTells(x)
      /\ x.queue = Tail(q) /\ x.lost = 0 /\ x.state = rx[w].state
      /\ q \in Seq(Event) /\ q # <<>> /\ EndIsLast(q) /\ Heard
  BY TakeHeadIs
<1>. HIDE DEF x
<1>2. Head(q) \in Event /\ 1 \in 1..Len(q) /\ Head(q) = q[1] /\ rx[w].lost = 0 /\ Len(q) \in Nat
  BY <1>1, TailLast DEF Pending
<1>3. IsEnd(q[1])
  BY <1>2, EventKinds
<1>4. Follows(w) /\ watcher[w] \in Watcher /\ ChannelTells(rx[w])
  BY DEF WatchInv, TypeOK
<1>5. engine \in {"told", "closed"}
  BY <1>2, <1>3, <1>4 DEF ChannelTells
<1>6. ASSUME NEW l \in Inline, Queued(l, q) PROVE FALSE
  <2>1. PICK i \in 1..Len(q) : q[i] = [kind |-> "line", line |-> l]
    BY <1>6 DEF Queued
  <2>2. IsInline(q[i])
    BY <2>1 DEF IsInline
  <2>3. i # 1
    BY <1>2, <1>3, <2>2, EventKinds
  <2>. QED  BY <1>1, <1>2, <1>3, <2>2, <2>3 DEF EndIsLast
<1>7. /\ v \in Watcher /\ v.pc = "verdict" /\ v.snapshot = watcher[w].snapshot
      /\ v.told = watcher[w].told /\ v.verdict = watcher[w].verdict /\ v.seen = watcher[w].seen
  BY <1>4 DEF Watcher
<1>8. watcher' = [watcher EXCEPT ![w] = v]
  OBVIOUS
<1>. HIDE DEF v
<1>9. watcher'[w] = v
  BY <1>8 DEF WatchInv, TypeOK
<1>10. Sent' = Sent /\ engine' = engine /\ Sent \subseteq Inline
  BY DEF events, Sent
<1>11. ~watcher[w].told => Sent \subseteq watcher[w].seen
  BY <1>1, <1>2, <1>4, <1>6, <1>10 DEF Follows, Behind
<1>12. Follows(w)'
  BY <1>4, <1>5, <1>7, <1>9, <1>10, <1>11 DEF Follows
<1>. QED  BY <1>1, <1>7, <1>8, <1>12, OneViewer

LEMMA ReceiveClose_Inv ==
    ASSUME WatchInv, NEW w \in Receiver, watcher[w].pc = "live", ClosedFor(w), UNCHANGED bus,
           UNCHANGED events, watcher' = [watcher EXCEPT ![w].pc = "verdict"]
    PROVE  WatchInv'
<1>. DEFINE v == [watcher[w] EXCEPT !.pc = "verdict"]
<1>1. Follows(w) /\ watcher[w] \in Watcher /\ ChannelTells(rx[w]) /\ rx[w] \in Rx
  BY DEF WatchInv, TypeOK
<1>2. rx[w].state = "dropped" /\ rx[w].queue = <<>> /\ rx[w].lost = 0
  BY DEF ClosedFor, NoRx
<1>3. engine = "closed" /\ Heard
  BY <1>1, <1>2 DEF ChannelTells
<1>4. \A l \in Line : ~Queued(l, rx[w].queue)
  BY <1>2, EmptySeq DEF Queued
<1>5. /\ v \in Watcher /\ v.pc = "verdict" /\ v.snapshot = watcher[w].snapshot
      /\ v.told = watcher[w].told /\ v.verdict = watcher[w].verdict /\ v.seen = watcher[w].seen
  BY <1>1 DEF Watcher
<1>6. watcher' = [watcher EXCEPT ![w] = v] /\ rx' = [rx EXCEPT ![w] = rx[w]]
  BY DEF bus, WatchInv, TypeOK
<1>. HIDE DEF v
<1>7. watcher'[w] = v
  BY <1>6 DEF WatchInv, TypeOK
<1>8. Sent' = Sent /\ engine' = engine /\ Sent \subseteq Line
  BY InlineLines DEF events, Sent
<1>9. ~watcher[w].told => Sent \subseteq watcher[w].seen
  BY <1>1, <1>2, <1>3, <1>4, <1>8 DEF Follows, Behind
<1>10. Follows(w)'
  BY <1>1, <1>3, <1>5, <1>7, <1>8, <1>9 DEF Follows
<1>. QED  BY <1>1, <1>5, <1>6, <1>10, OneViewer

LEMMA Receive_Inv == ASSUME WatchInv, NEW w \in Receiver, Receive(w) PROVE WatchInv'
<1>1. watcher[w].pc = "live" /\ UNCHANGED events
  BY DEF Receive
<1>2. \/ /\ Lagged(w) /\ TakeLag(w)
         /\ watcher' = [watcher EXCEPT ![w].told = TRUE]
      \/ Hears(w, "status") /\ TakeHead(w) /\ UNCHANGED watcher
      \/ /\ Hears(w, "line") /\ TakeHead(w)
         /\ watcher' = [watcher EXCEPT ![w].seen = @ \cup {Head(rx[w].queue).line}]
      \/ /\ Hears(w, "finished") /\ TakeHead(w)
         /\ watcher' = [watcher EXCEPT ![w].pc = "verdict"]
      \/ /\ ClosedFor(w) /\ UNCHANGED bus
         /\ watcher' = [watcher EXCEPT ![w].pc = "verdict"]
  BY DEF Receive
<1>3. \A k : Hears(w, k) => Pending(w) /\ Head(rx[w].queue).kind = k
  BY DEF Hears
<1>. QED  BY <1>1, <1>2, <1>3, ReceiveLag_Inv, ReceiveOther_Inv, ReceiveLine_Inv, ReceiveEnd_Inv,
             ReceiveClose_Inv

-----------------------------------------------------------------------------
LEMMA WatchInit_Inv == Init => WatchInv
<1>. SUFFICES ASSUME Init PROVE WatchInv
  OBVIOUS
<1>1. rx \in [Receiver -> Rx] /\ \A r \in Receiver : rx[r] = NoRx
  BY NewRx DEF Init, EventsInit
<1>2. NoWatcher \in Watcher /\ NoWatcher.pc = "idle" /\ NoWatcher.verdict = "none"
      /\ NoWatcher.snapshot = "active"
  BY DEF NoWatcher, Watcher
<1>3. watcher \in [Receiver -> Watcher] /\ \A w \in Receiver : watcher[w] = NoWatcher
  BY <1>2 DEF Init
<1>. HIDE DEF NoWatcher, NoRx
<1>4. TypeOK /\ TaskAtItsEnd
  BY <1>1, <1>3 DEF Init, EventsInit, TypeOK, TaskAtItsEnd
<1>5. \A r \in Receiver : ChannelTells(rx[r]) /\ Follows(r)
  BY <1>1, <1>2, <1>3, NewRx DEF Follows
<1>. QED  BY <1>4, <1>5 DEF WatchInv

LEMMA WatchNext_Inv == WatchInv /\ [Next]_vars => WatchInv'
<1>. SUFFICES ASSUME WatchInv, [Next]_vars PROVE WatchInv'
  OBVIOUS
<1>1. CASE EngineStep /\ UNCHANGED watcher
  <2>1. CASE Transition
    BY <1>1, <2>1, Transition_Inv
  <2>2. CASE TellEnd
    BY <1>1, <2>2, TellEnd_Inv
  <2>3. ASSUME NEW l, SpawnLine(l) \/ StoreLine(l) \/ EndRow PROVE WatchInv'
    BY <1>1, <2>3, Quiet_Inv
  <2>4. ASSUME NEW l \in Line, SendLine(l) PROVE WatchInv'
    BY <1>1, <2>4, SendLine_Inv
  <2>. QED  BY <1>1, <2>1, <2>2, <2>3, <2>4 DEF EngineStep
<1>2. CASE Close
  BY <1>2, Close_Inv
<1>3. ASSUME NEW w \in Receiver, ReadRow(w) \/ Stream(w) \/ Leave(w) PROVE WatchInv'
  BY <1>3, ReadRow_Inv, Subscribe_Inv, Replay_Inv, Receive_Inv, Deliver_Inv, Leave_Inv DEF Stream
<1>4. CASE UNCHANGED vars
  BY <1>4 DEF vars, events, bus, WatchInv, TypeOK, TaskAtItsEnd, InlineAtRest, ChannelTells, Heard,
              Follows, Behind, Sent
<1>. QED  BY <1>1, <1>2, <1>3, <1>4 DEF Next

(* NothingLost: a viewer who is shown the verdict was shown every line the *)
(* task itself wrote, or was told that it fell behind (watch: "Subscribe   *)
(* before replaying history, so an event that lands between the two is not *)
(* lost").                                                                 *)
THEOREM WatchersMissNothing == Spec => []NothingLost
<1>1. WatchInv => NothingLost
  BY DEF WatchInv, Follows, NothingLost, Shown, Sent
<1>. QED  BY <1>1, WatchInit_Inv, WatchNext_Inv, PTL DEF Spec
=============================================================================
