------------------------------ MODULE Secrets ------------------------------
(***************************************************************************)
(* One place in the secret store, a name within a scope, and who refers to *)
(* the secret kept there: put, rotation and deletion, statement by         *)
(* statement (server/src/store/secrets.rs, server/src/api/secrets.rs).     *)
(*                                                                         *)
(* Services list the ids of their secrets, and targets and build hosts     *)
(* name their SSH key, in columns no foreign key guards, and nothing       *)
(* checks an id that is written there.  Values are named by the handler    *)
(* that stored them.                                                       *)
(***************************************************************************)
EXTENDS Naturals, Sequences

CONSTANTS
    Client,     \* handlers under way
    User,       \* services, targets and build hosts that may refer to the secret
    Target,     \* the users that are targets
    HostUser,   \* the users that are build hosts
    TargetPage, \* the targets a delete looks at: 500 in the code
    MaxSecrets  \* ids that can be given out: a bound

VARIABLES
    secret,   \* the row, [id, value]; id 0 when there is none
    ids,      \* ids given out so far
    uses,     \* the id each user refers to, 0 for none
    putter,   \* the handlers under way
    targets,  \* the registered targets, newest first
    missed    \* history: users that came to their id behind a delete's look,
              \* or were too old for it

secretsVars == <<secret, ids, uses, putter, targets, missed>>

NoSecret == [id |-> 0, value |-> "none"]
Quiet == [pc |-> "quiet"]

SecretsInit ==
    /\ secret = NoSecret
    /\ ids = 0
    /\ uses = [u \in User |-> 0]
    /\ putter = [p \in Client |-> Quiet]
    /\ targets = <<>>
    /\ missed = {}

Puts(p, pc) == putter[p].pc = pc
Quieten(p) == putter' = [putter EXCEPT ![p] = Quiet]

(***************************************************************************)
(* Secrets.Put.                                                            *)
(***************************************************************************)
(* A name that is taken is refused, unless it is to be replaced.           *)
Find(p) ==
    /\ Puts(p, "quiet")
    /\ \E replace \in BOOLEAN :
          /\ secret.id = 0 \/ replace
          /\ putter' = [putter EXCEPT ![p] = [pc |-> "upsert", replace |-> replace, raced |-> FALSE]]
    /\ UNCHANGED <<secret, ids, uses, targets, missed>>

(* The upsert overwrites whatever is there by now and keeps its id.  Puts   *)
(* that have looked before it are raced.                                   *)
Upsert(p) ==
    /\ Puts(p, "upsert")
    /\ IF secret.id # 0 THEN secret' = [secret EXCEPT !.value = p] /\ UNCHANGED ids
       ELSE /\ ids < MaxSecrets
            /\ ids' = ids + 1
            /\ secret' = [id |-> ids', value |-> p]
    /\ putter' = [q \in Client |->
                    CASE q = p -> Quiet
                      [] Puts(q, "upsert") /\ q # p -> [putter[q] EXCEPT !.raced = TRUE]
                      [] OTHER -> putter[q]]
    /\ UNCHANGED <<uses, targets, missed>>

(* A secret kept for one target or service goes with it (ON DELETE         *)
(* CASCADE), whoever refers to it.                                         *)
GoWithScope ==
    /\ secret.id # 0
    /\ secret' = NoSecret
    /\ UNCHANGED <<ids, uses, putter, targets, missed>>

(***************************************************************************)
(* Who refers to it: create, update and delete of services, targets and    *)
(* build hosts.                                                            *)
(***************************************************************************)
Registered(u) == \E i \in DOMAIN targets : targets[i] = u
Without(u) == SelectSeq(targets, LAMBDA t : t # u)
LookedPast(p, u) == Puts(p, "delete") \/ (Puts(p, "targets") /\ u \notin Target)

(* Any id a client was ever told of can be written, or none. *)
Names(u, id) ==
    /\ uses' = [uses EXCEPT ![u] = id]
    /\ missed' = IF \E p \in Client : LookedPast(p, u) /\ putter[p].sees = id
                 THEN missed \cup {u} ELSE missed \ {u}
    /\ UNCHANGED <<secret, ids, putter>>

Refer(u) ==
    /\ u \in Target => Registered(u)
    /\ \E id \in 0..ids : Names(u, id)
    /\ UNCHANGED targets

RegisterTarget(u) ==
    /\ u \in Target /\ ~Registered(u)
    /\ \E id \in 0..ids : Names(u, id)
    /\ targets' = <<u>> \o targets

RemoveTarget(u) ==
    /\ Registered(u)
    /\ Names(u, 0)
    /\ targets' = Without(u)

(***************************************************************************)
(* Secrets.Delete: what services refer to, then what the newest targets    *)
(* do, then the row.  Build hosts are not asked about.                     *)
(***************************************************************************)
BeginDelete(p) ==
    /\ Puts(p, "quiet") /\ secret.id # 0
    /\ putter' = [putter EXCEPT ![p] = [pc |-> "services", sees |-> secret.id]]
    /\ UNCHANGED <<secret, ids, uses, targets, missed>>

\* Variant of ReferencedBy: services that refer to it are counted, for the audit, and no more.
ReferencedUncounted(p) ==
    /\ Puts(p, "services")
    /\ putter' = [putter EXCEPT ![p].pc = "targets"]
    /\ UNCHANGED <<secret, ids, uses, targets, missed>>

ReferencedBy(p) ==
    /\ Puts(p, "services")
    /\ putter' = [putter EXCEPT ![p] =
                    IF \E u \in User \ (Target \cup HostUser) : uses[u] = @.sees
                    THEN Quiet ELSE [@ EXCEPT !.pc = "targets"]]
    /\ UNCHANGED <<secret, ids, uses, targets, missed>>

(* list_targets("", 500, 0): by creation, the newest first. *)
Shown == {targets[i] : i \in {j \in DOMAIN targets : j <= TargetPage}}
Keyed(p) == {u \in Target : uses[u] = putter[p].sees}

KeyOfTargets(p) ==
    /\ Puts(p, "targets")
    /\ IF Keyed(p) \cap Shown # {}
       THEN Quieten(p) /\ UNCHANGED missed
       ELSE /\ putter' = [putter EXCEPT ![p].pc = "delete"]
            /\ missed' = missed \cup Keyed(p)
    /\ UNCHANGED <<secret, ids, uses, targets>>

DeleteSecret(p) ==
    /\ Puts(p, "delete")
    /\ secret' = IF secret.id = putter[p].sees THEN NoSecret ELSE secret
    /\ Quieten(p)
    /\ UNCHANGED <<ids, uses, targets, missed>>

SecretsNext ==
    \/ \E p \in Client :
          \/ Find(p) \/ Upsert(p)
          \/ BeginDelete(p) \/ ReferencedBy(p) \/ KeyOfTargets(p) \/ DeleteSecret(p)
    \/ \E u \in User : Refer(u) \/ RegisterTarget(u) \/ RemoveTarget(u)
    \/ GoWithScope

SecretsSpec == SecretsInit /\ [][SecretsNext]_secretsVars

(***************************************************************************)
(* Properties.                                                             *)
(***************************************************************************)
(* What a secret held cannot be read back, so it is only lost on purpose:  *)
(* overwritten by a put that was told to replace, or behind whose look      *)
(* another one stored it; and deleted by a request while no service uses   *)
(* it but one that came to it behind the look, and no target but such a    *)
(* one or one too old to be looked at.  Build hosts are not protected.     *)
SecretsAreLostOnPurpose ==
    [][/\ \A p \in Client :
             secret.id # 0 /\ secret'.id = secret.id /\ Puts(p, "upsert") /\ putter'[p] = Quiet
                => putter[p].replace \/ putter[p].raced
       /\ secret.id # 0 /\ secret'.id = 0 /\ (\E p \in Client : Puts(p, "delete") /\ putter'[p] = Quiet)
             => \A u \in User \ HostUser : uses[u] = secret.id => u \in missed]_secretsVars

=============================================================================
