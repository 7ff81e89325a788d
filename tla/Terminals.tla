----------------------------- MODULE Terminals -----------------------------
(***************************************************************************)
(* Terminal grants and the websocket that spends them:                     *)
(* server/src/store/terminals.rs, server/src/api/terminals.rs,             *)
(* web/src/terminal.rs and the sweeper of serve.rs.  A token is known to   *)
(* whoever was given it, so a socket may present any token, more than once *)
(* and late.  What a program writes is text, in bytes that are numbered;   *)
(* a character is one byte, or two, which stand for any more.  SSH brings  *)
(* them in chunks that end where they end.                                 *)
(***************************************************************************)
EXTENDS Integers, Sequences, FiniteSets, SequencesExt

CONSTANTS
    Grant, Socket, Target,
    MaxOutput,  \* bytes a PTY produces: a bound
    MaxHeld     \* MAX_HELD of a paused browser

ASSUME TerminalsAssumption == MaxHeld \in Nat /\ MaxOutput \in Nat

VARIABLES
    targets,   \* the targets that exist
    critical,  \* the targets marked latency-critical
    creation,      \* CreateSession handlers, one per grant
    grant,     \* terminal_sessions
    socket,    \* websockets
    pty        \* what each socket's PTY and pump hold

terminalsVars == <<targets, critical, creation, grant, socket, pty>>

NoGrant == [state |-> "none", expired |-> FALSE]
NotAsked == [pc |-> "none"]

ByteKind == {"one", "lead", "rest"}

\* `last` and `ends` are history: the last byte that was written, and after which
\* bytes a chunk ended.
NoPty == [made |-> 0, last |-> "one", ends |-> {0}, paused |-> FALSE,
          held |-> <<>>, got |-> <<>>, lost |-> FALSE]

TerminalsInit ==
    /\ targets = Target
    /\ critical \in SUBSET Target
    /\ creation = [g \in Grant |-> NotAsked]
    /\ grant = [g \in Grant |-> NoGrant]
    /\ socket = [s \in Socket |-> [pc |-> "idle", grant |-> {}, strays |-> 0]]
    /\ pty = [s \in Socket |-> NoPty]

(* CreateSession: the target is read, the guardrail judges what was read,  *)
(* and the answer of authorize is not looked at for dry_run or a key.      *)
Authorize(g) ==
    /\ creation[g] = NotAsked
    /\ \E t \in targets, allow \in BOOLEAN :
          /\ t \in critical => allow
          /\ creation' = [creation EXCEPT ![g] = [pc |-> "create", target |-> t]]
    /\ UNCHANGED <<targets, critical, grant, socket, pty>>

(* create_terminal_session looks for the target again. *)
Issue(g) ==
    /\ creation[g].pc = "create"
    /\ grant' = IF creation[g].target \in targets
                  THEN [grant EXCEPT ![g] = [state |-> "issued", expired |-> FALSE]]
                  ELSE grant
    /\ creation' = [creation EXCEPT ![g].pc = "done"]
    /\ UNCHANGED <<targets, critical, socket, pty>>

ExpireGrant(g) ==
    /\ grant[g].state # "none" /\ ~grant[g].expired
    /\ grant' = [grant EXCEPT ![g].expired = TRUE]
    /\ UNCHANGED <<targets, critical, creation, socket, pty>>

(* sweep_terminal_sessions. *)
Swept == {g \in Grant : grant[g].expired \/ grant[g].state = "consumed"}

Sweep ==
    /\ Swept # {}
    /\ grant' = [g \in Grant |-> IF g \in Swept THEN NoGrant ELSE grant[g]]
    /\ UNCHANGED <<targets, critical, creation, socket, pty>>

(* Deleting a target takes its grants with it. *)
DeleteTarget(t) ==
    /\ t \in targets
    /\ targets' = targets \ {t}
    /\ grant' = [g \in Grant |->
                   IF creation[g] # NotAsked /\ creation[g].target = t THEN NoGrant ELSE grant[g]]
    /\ UNCHANGED <<critical, creation, socket, pty>>

Spend(s, g) == socket' = [socket EXCEPT ![s].pc = "redeemed", ![s].grant = {g}]
Close(s) == socket' = [socket EXCEPT ![s].pc = "closed"]

(* first_attach: four stray frames are let pass, the fifth ends it. *)
Stray(s) ==
    /\ socket[s].pc = "idle"
    /\ IF socket[s].strays = 4 THEN Close(s)
         ELSE socket' = [socket EXCEPT ![s].strays = @ + 1]
    /\ UNCHANGED <<targets, critical, creation, grant, pty>>

Redeemable(g) == grant[g].state = "issued" /\ ~grant[g].expired

(* consume_terminal_session: one UPDATE with its conditions inside. *)
Redeem(s, g) ==
    /\ socket[s].pc = "idle"
    /\ IF Redeemable(g)
         THEN /\ grant' = [grant EXCEPT ![g].state = "consumed"]
              /\ Spend(s, g)
         ELSE Close(s) /\ UNCHANGED grant
    /\ UNCHANGED <<targets, critical, creation, pty>>

(* The target is looked up in nudo's own record, then connected to. *)
OpenPty(s) ==
    /\ socket[s].pc = "redeemed"
    /\ \E g \in socket[s].grant :
          \/ creation[g].target \in targets
               /\ socket' = [socket EXCEPT ![s].pc = "open"]
          \/ Close(s)
    /\ UNCHANGED <<targets, critical, creation, grant, pty>>

(* What may come next on p: bytes that go on with the text.               *)
Chunks(p) ==
    UNION {{[i \in 1 .. n |-> [at |-> p.made + i, kind |-> kinds[i]]] :
              kinds \in {k \in [1 .. n -> ByteKind] :
                 \A i \in 1 .. n : k[i] = "rest" <=> "lead" = IF i = 1 THEN p.last ELSE k[i - 1]}} :
           n \in 1 .. (MaxOutput - p.made)}

(* from_utf8_lossy of a run of bytes of that text: the halves of a         *)
(* character that is cut at an end of the run are each replaced.           *)
Whole(run, i) ==
    /\ run[i].kind = "lead" => i < Len(run)
    /\ run[i].kind = "rest" => i > 1

Text(run) ==
    [i \in 1 .. Len(run) |-> [at |-> run[i].at, kind |-> run[i].kind, whole |-> Whole(run, i)]]

Overflow(run) == IF Len(run) > MaxHeld THEN Len(run) - MaxHeld ELSE 0

(* The pump, target to browser: each chunk is decoded and sent at once, or *)
(* held as it is while paused, with the oldest dropped beyond MaxHeld.     *)
Output(s) ==
    /\ socket[s].pc = "open"
    /\ \E chunk \in Chunks(pty[s]) :
          LET p == pty[s]
              made == p.made + Len(chunk)
              all == p.held \o chunk
              over == Overflow(all)
          IN pty' = [pty EXCEPT ![s] =
               [made |-> made, last |-> chunk[Len(chunk)].kind, ends |-> p.ends \cup {made},
                paused |-> p.paused,
                got |-> IF p.paused THEN p.got ELSE p.got \o Text(chunk),
                held |-> IF p.paused THEN SubSeq(all, over + 1, Len(all)) ELSE p.held,
                lost |-> p.lost \/ (p.paused /\ over > 0)]]
    /\ UNCHANGED <<targets, critical, creation, grant, socket>>

Pause(s) ==
    /\ socket[s].pc = "open" /\ ~pty[s].paused
    /\ pty' = [pty EXCEPT ![s].paused = TRUE]
    /\ UNCHANGED <<targets, critical, creation, grant, socket>>

\* Variant of Resume: what was held is left for the next pause.
ResumeUnflushed(s) ==
    /\ socket[s].pc = "open" /\ pty[s].paused
    /\ pty' = [pty EXCEPT ![s].paused = FALSE]
    /\ UNCHANGED <<targets, critical, creation, grant, socket>>

Resume(s) ==
    /\ socket[s].pc = "open" /\ pty[s].paused
    /\ pty' = [pty EXCEPT ![s].paused = FALSE, ![s].held = <<>>,
                          ![s].got = @ \o Text(pty[s].held)]
    /\ UNCHANGED <<targets, critical, creation, grant, socket>>

(* The program exits, the channel ends or the browser leaves.  What is     *)
(* still held then is not sent.                                            *)
Hangup(s) ==
    /\ socket[s].pc = "open"
    /\ Close(s)
    /\ UNCHANGED <<targets, critical, creation, grant, pty>>

TerminalsNext ==
    \/ \E g \in Grant : Authorize(g) \/ Issue(g) \/ ExpireGrant(g)
    \/ Sweep
    \/ \E t \in Target : DeleteTarget(t)
    \/ \E s \in Socket : \/ Stray(s) \/ OpenPty(s) \/ Output(s)
                         \/ Pause(s) \/ Resume(s) \/ Hangup(s)
                         \/ \E g \in Grant : Redeem(s, g)

TerminalsSpec == TerminalsInit /\ [][TerminalsNext]_terminalsVars

(* A grant opens one PTY at most, whoever else holds its token, however    *)
(* late, swept or not.                                                     *)
GrantOpensOnce ==
    \A s1, s2 \in Socket :
        s1 # s2 => socket[s1].grant \cap socket[s2].grant = {}

(* Where a chunk has to end to cut the character of a byte.                *)
Within(byte) == IF byte.kind = "rest" THEN byte.at - 1 ELSE byte.at

(* A browser that is not paused has everything the program wrote, once and *)
(* in order; only a pause longer than MaxHeld loses any, and then the      *)
(* oldest of what it held.  A character arrives whole unless a chunk ended *)
(* inside it or something was lost: a pause alone breaks none.             *)
OutputInOrder ==
    \A s \in Socket :
        LET p == pty[s] IN
        /\ \A i, j \in DOMAIN p.got : i < j => p.got[i].at < p.got[j].at
        /\ ~p.paused /\ ~p.lost => Len(p.got) = p.made
        /\ p.paused => Len(p.held) <= MaxHeld
        /\ \A i \in DOMAIN p.got : p.got[i].whole \/ p.lost \/ Within(p.got[i]) \in p.ends

(* Property.  What a program writes in a shell reaches one browser, the    *)
(* one that redeemed its grant, and reaches it in order, all of it, and    *)
(* damaged only where a chunk cut a character or a pause overflowed.       *)
ShellHasOneReader == GrantOpensOnce /\ OutputInOrder

=============================================================================
