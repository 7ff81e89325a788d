---------------------------- MODULE Idempotency -----------------------------
(***************************************************************************)
(* Idempotency keys around the two calls that take one: Deploy acts first  *)
(* and records after, RunCommand records first and acts after.  Calls with *)
(* the same key and action are retries of one another.                     *)
(*                                                                         *)
(* A handler ends early, wherever it awaits, when its client hangs up or   *)
(* the process dies; only the table outlives it.                           *)
(***************************************************************************)
EXTENDS Naturals, FiniteSets

CONSTANTS
  Call,         \* the attempts
  Key, NoKey    \* idempotency keys; NoKey is the empty one

Action == {"Deploy", "RunCommand"}

ASSUME IdempotencyAssumption == NoKey \notin Key

VARIABLES
  call,       \* the handler of each attempt
  keys,       \* the table idempotency_keys
  performed   \* attempts whose deploy or command really happened

vars == <<call, keys, performed>>

Handled == {"check", "deploy", "connect", "record", "run"}
PC == {"idle", "ok", "replayed", "error", "dropped"} \cup Handled

NoCall == [pc |-> "idle", action |-> "Deploy", key |-> NoKey, dry |-> FALSE, of |-> {},
           after |-> {}]

TypeOK ==
  /\ call \in [Call -> [pc : PC, action : Action, key : Key \cup {NoKey}, dry : BOOLEAN,
                        of : SUBSET Call,        \* whose result a replay returns
                        after : SUBSET Call]]    \* what had ended when it came in
  /\ keys \subseteq [key : Key, action : Action, by : Call]
  /\ \A e, f \in keys : e.key = f.key => e = f   \* PRIMARY KEY
  /\ performed \subseteq Call

Init ==
  /\ call = [c \in Call |-> NoCall]
  /\ keys = {}
  /\ performed = {}

Goto(c, pc) == call' = [call EXCEPT ![c].pc = pc]

-----------------------------------------------------------------------------
Ended == {d \in Call : call[d].pc \notin Handled \cup {"idle"}}

\* A call comes in and is authorized.
Arrive(c, action, k, dry) ==
  /\ call[c].pc = "idle"
  /\ call' = [call EXCEPT ![c] = [pc |-> "check", action |-> action, key |-> k,
                                  dry |-> dry, of |-> {}, after |-> Ended]]
  /\ UNCHANGED <<keys, performed>>

\* replayed(), and the dry run that comes after it.
Check(c) ==
  /\ call[c].pc = "check"
  /\ LET found == {e \in keys : e.key = call[c].key /\ e.action = call[c].action}
         next == IF call[c].dry THEN "ok"
                 ELSE IF call[c].action = "Deploy" THEN "deploy" ELSE "connect"
     IN call' = [call EXCEPT ![c].of = {e.by : e \in found},
                             ![c].pc = IF found # {} THEN "replayed" ELSE next]
  /\ UNCHANGED <<keys, performed>>

\* start_deploy succeeds, or refuses.
Deploy(c) ==
  /\ call[c].pc = "deploy"
  /\ \/ Goto(c, "record") /\ performed' = performed \cup {c}
     \/ Goto(c, "error") /\ UNCHANGED performed
  /\ UNCHANGED keys

\* Variant of Connect: the command is run on the way.
ConnectAndRun(c) ==
  /\ call[c].pc = "connect"
  /\ Goto(c, "record") /\ performed' = performed \cup {c}
  /\ UNCHANGED keys

Connect(c) ==
  /\ call[c].pc = "connect"
  /\ Goto(c, "record") \/ Goto(c, "error")
  /\ UNCHANGED <<keys, performed>>

\* record(): INSERT ... ON CONFLICT (key) DO NOTHING, whatever the action is.
Record(c) ==
  /\ call[c].pc = "record"
  /\ keys' = keys \cup {[key |-> k, action |-> call[c].action, by |-> c] :
                          k \in {call[c].key} \ ({NoKey} \cup {e.key : e \in keys})}
  /\ Goto(c, IF call[c].action = "Deploy" THEN "ok" ELSE "run")
  /\ UNCHANGED performed

\* The command starts when the client polls the output stream.
Run(c) ==
  /\ call[c].pc = "run"
  /\ Goto(c, "ok")
  /\ performed' = performed \cup {c}
  /\ UNCHANGED keys

Drop(c) ==
  /\ call[c].pc \in Handled
  /\ Goto(c, "dropped")
  /\ UNCHANGED <<keys, performed>>

Next ==
  \E c \in Call :
    \/ \E a \in Action, k \in Key \cup {NoKey}, dry \in BOOLEAN : Arrive(c, a, k, dry)
    \/ Check(c) \/ Deploy(c) \/ Connect(c) \/ Record(c) \/ Run(c) \/ Drop(c)

Spec == Init /\ [][Next]_vars

-----------------------------------------------------------------------------
\* c repeats d: same action, same key, sent after d had ended.
Retries(c, d) ==
  /\ d \in call[c].after
  /\ call[c].action = call[d].action
  /\ call[c].key = call[d].key /\ call[c].key # NoKey

Held(k, action) == \E e \in keys : e.key = k /\ e.action = action

\* A replayed Deploy returns a deployment that was really started, by a Deploy
\* under the same key (deploy: "the recorded deployment"); whatever overlaps,
\* breaks off or shares keys.
DeployReplayIsReal ==
  \A c \in Call : call[c].pc = "replayed" /\ call[c].action = "Deploy" =>
    \A d \in call[c].of : /\ d \in performed
                          /\ call[d].action = "Deploy" /\ call[d].key = call[c].key

\* A retried RunCommand never runs a second time (logs.rs: "a retry under the same
\* key must not run it again"), wherever the first attempt broke off; the one
\* way is a key that a Deploy holds, which keeps both from being recorded.
CommandRunsOnce ==
  \A c, d \in performed :
    Retries(c, d) /\ call[c].action = "RunCommand" => Held(call[c].key, "Deploy")

\* A retried Deploy never deploys a second time (deployments.rs: "A retry after
\* a dropped connection must not deploy twice"); the two ways are a handler that
\* broke off between the deployment and its record, and a key that a
\* RunCommand holds.
DeployHappensOnce ==
  \A c, d \in performed :
    Retries(c, d) /\ call[c].action = "Deploy" =>
      call[d].pc = "dropped" \/ Held(call[c].key, "RunCommand")

\* What the keys are for: a call a client repeats under its key has its effect once.
RepeatedCallsActOnce == CommandRunsOnce /\ DeployHappensOnce

-----------------------------------------------------------------------------
(* The inductive invariant behind the theorems of AccessProofs about keys. *)

SomeRow(k) == \E e \in keys : e.key = k

\* A row belongs to an attempt that asked for just that, and got through it.
RowsAreEarned ==
  \A e \in keys :
    /\ call[e.by].pc \notin {"idle", "check", "deploy", "connect", "record"}
    /\ call[e.by].key = e.key /\ call[e.by].action = e.action
    /\ e.action = "Deploy" => e.by \in performed

\* Where an attempt is says what it has done and left behind.
PcAgrees(c) ==
  /\ call[c].pc = "deploy" => call[c].action = "Deploy"
  /\ call[c].pc \in {"connect", "run"} => call[c].action = "RunCommand"
  /\ call[c].action = "Deploy" /\ call[c].pc = "record" => c \in performed
  /\ c \in performed =>
       call[c].pc \in {"ok", "dropped"} \/ (call[c].action = "Deploy" /\ call[c].pc = "record")
  /\ c \in performed /\ call[c].action = "RunCommand" => call[c].pc = "ok"
  /\ (call[c].pc = "run" \/ (c \in performed /\ call[c].pc = "ok")) /\ call[c].key # NoKey =>
       SomeRow(call[c].key)
  /\ call[c].after \subseteq Ended
  /\ call[c].pc \in {"idle", "check"} => c \notin performed

\* An attempt that passed its check although an earlier one had acted found the
\* key held for the other action.
PassedItsCheck(c) ==
  c \in performed \/ call[c].pc \in {"deploy", "connect", "record", "run"} =>
    \A d \in performed :
      Retries(c, d) /\ call[d].pc = "ok" =>
        Held(call[c].key, IF call[c].action = "Deploy" THEN "RunCommand" ELSE "Deploy")

\* Handlers and table agree: the strengthening of DeployReplayIsReal,
\* RepeatedCallsActOnce.
KeysAgree ==
  /\ RowsAreEarned /\ DeployReplayIsReal
  /\ \A c \in Call : PcAgrees(c) /\ PassedItsCheck(c)
=============================================================================
