-------------------------------- MODULE Push --------------------------------
(***************************************************************************)
(* GitHub's deliveries to the webhook endpoint (web/src/webhook.rs): a     *)
(* push, and the deployments it queues.                                    *)
(*                                                                         *)
(* A handler looks the services up once and takes them one after the       *)
(* other, reading each one's target as it comes to it.  Meanwhile          *)
(* operators edit, delete and flag, other deliveries come, GitHub delivers *)
(* one more time, and the dashboard dies.  Following a deployment to write *)
(* its outcome back is StatusWriteback.                                    *)
(***************************************************************************)
EXTENDS Naturals, FiniteSets

CONSTANTS
    Delivery,  \* handlers of deliveries under way
    Commit,    \* pushes of a branch, by the commit they end at
    Pushed,    \* services that may be built from that branch
    MaxSends   \* how often GitHub sends a push: a bound

ASSUME PushAssumption == MaxSends \in Nat

VARIABLES
    watching,  \* the services whose source, repository and branch match,
               \* with auto-deploy on
    standing,  \* those whose row and target's row are there
    hot,       \* those whose target is latency-critical
    sends,     \* external: how often each push has been sent
    delivery,  \* the handlers
    queued     \* the deployments they have queued: commit and service, counted

pushVars == <<watching, standing, hot, sends, delivery, queued>>

NoDelivery == [pc |-> "out"]

PushInit ==
    /\ watching \in SUBSET Pushed
    /\ standing = Pushed
    /\ hot \in SUBSET Pushed
    /\ sends = [c \in Commit |-> 0]
    /\ delivery = [d \in Delivery |-> NoDelivery]
    /\ queued = [push \in Commit \X Pushed |-> 0]

(***************************************************************************)
(* Operators.                                                              *)
(***************************************************************************)
Edit(s) ==
    /\ s \in standing
    /\ watching' = IF s \in watching THEN watching \ {s} ELSE watching \cup {s}
    /\ UNCHANGED <<standing, hot, sends, delivery, queued>>

Flag(s) ==
    /\ hot' = IF s \in hot THEN hot \ {s} ELSE hot \cup {s}
    /\ delivery' = [d \in Delivery |->
                      IF delivery[d].pc = "start" /\ delivery[d].at = s
                      THEN [delivery[d] EXCEPT !.raced = TRUE] ELSE delivery[d]]
    /\ UNCHANGED <<watching, standing, sends, queued>>

RemoveWatcher(s) ==
    /\ s \in standing
    /\ standing' = standing \ {s} /\ watching' = watching \ {s}
    /\ UNCHANGED <<hot, sends, delivery, queued>>

(***************************************************************************)
(* A delivery.                                                             *)
(***************************************************************************)
Answer(d) == delivery' = [delivery EXCEPT ![d] = NoDelivery]

(* One that is answered before it is looked into: a ping, an App nobody    *)
(* configured, a source without a secret, a signature that does not        *)
(* verify, a body that is not JSON, another event than a push, a tag, or a *)
(* push whose every commit asks to be skipped.                             *)
Dismiss(c) ==
    /\ sends[c] < MaxSends
    /\ sends' = [sends EXCEPT ![c] = @ + 1]
    /\ UNCHANGED <<watching, standing, hot, delivery, queued>>

(* Of the services found, those left, queued and refused; the one at hand,  *)
(* and, for the record, whether it was flagged since it was looked at.     *)
Handling(c) ==
    [pc |-> "next", commit |-> c, found |-> watching, left |-> watching, at |-> "none",
     done |-> {}, refused |-> {}, raced |-> FALSE]

(* services_for_push; with none, the delivery is answered there.           *)
Resolve(d, c) ==
    /\ delivery[d].pc = "out" /\ sends[c] < MaxSends
    /\ sends' = [sends EXCEPT ![c] = @ + 1]
    /\ watching # {}
    /\ delivery' = [delivery EXCEPT ![d] = Handling(c)]
    /\ UNCHANGED <<watching, standing, hot, queued>>

\* Variant of Look: the guardrail is left to the API.
LookOnly(d) ==
    /\ delivery[d].pc = "next"
    /\ \E s \in delivery[d].left :
          delivery' = [delivery EXCEPT ![d].left = @ \ {s}, ![d].at = s,
                                       ![d].pc = "start", ![d].raced = FALSE]
    /\ UNCHANGED <<watching, standing, hot, sends, queued>>

(* The next service and its target.  One whose target is gone is passed    *)
(* over; a latency-critical target refuses a push.                         *)
Look(d) ==
    /\ delivery[d].pc = "next"
    /\ \E s \in delivery[d].left :
          delivery' =
            CASE s \notin standing -> [delivery EXCEPT ![d].left = @ \ {s}]
              [] s \in standing \cap hot ->
                   [delivery EXCEPT ![d].left = @ \ {s}, ![d].refused = @ \cup {s}]
              [] OTHER -> [delivery EXCEPT ![d].left = @ \ {s}, ![d].at = s,
                                       ![d].pc = "start", ![d].raced = FALSE]
    /\ UNCHANGED <<watching, standing, hot, sends, queued>>

(* Engine::start_deploy reads the service again, not the target.           *)
Start(d) ==
    /\ delivery[d].pc = "start"
    /\ LET s == delivery[d].at IN
       IF s \in standing
       THEN /\ queued' = [queued EXCEPT ![<<delivery[d].commit, s>>] = @ + 1]
            /\ delivery' = [delivery EXCEPT ![d].pc = "next", ![d].done = @ \cup {s}]
       ELSE /\ delivery' = [delivery EXCEPT ![d].pc = "next", ![d].refused = @ \cup {s}]
            /\ UNCHANGED queued
    /\ UNCHANGED <<watching, standing, hot, sends>>

(* 200, with what was queued and what was refused. *)
Acknowledge(d) ==
    /\ delivery[d].pc = "next" /\ delivery[d].left = {}
    /\ Answer(d)
    /\ UNCHANGED <<watching, standing, hot, sends, queued>>

(* The dashboard dies, or GitHub hangs up after ten seconds and the        *)
(* handler is dropped.  What it had queued stays.                          *)
Abandon(d) ==
    /\ delivery[d].pc # "out"
    /\ Answer(d)
    /\ UNCHANGED <<watching, standing, hot, sends, queued>>

PushNext ==
    \/ \E s \in Pushed : Edit(s) \/ Flag(s) \/ RemoveWatcher(s)
    \/ \E c \in Commit : Dismiss(c)
    \/ \E d \in Delivery : Look(d) \/ Start(d) \/ Acknowledge(d) \/ Abandon(d)
    \/ \E d \in Delivery, c \in Commit : Resolve(d, c)

PushSpec == PushInit /\ [][PushNext]_pushVars

(***************************************************************************)
(* Properties.                                                             *)
(***************************************************************************)
(* A push that is acknowledged has queued or refused every service it      *)
(* found, whatever became of the others; none is queued more often than    *)
(* the push was delivered; and none whose target is latency-critical ("a   *)
(* push must never restart the hot-path box unattended", webhook.rs)       *)
(* unless it was flagged in the moment between the look at it and its      *)
(* deployment.                                                             *)
PushDeploysItsWatchers ==
    /\ [](\A d \in Delivery : delivery[d].pc = "next" /\ delivery[d].left = {} =>
             delivery[d].found \cap standing \subseteq delivery[d].done \cup delivery[d].refused)
    /\ [](\A c \in Commit, s \in Pushed : queued[<<c, s>>] <= sends[c])
    /\ [][\A d \in Delivery :
             queued' # queued /\ delivery'[d] # delivery[d] /\ delivery[d].at \in hot
                => delivery[d].raced]_pushVars

=============================================================================
