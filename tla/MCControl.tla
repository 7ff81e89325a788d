----------------------------- MODULE MCControl -----------------------------
(***************************************************************************)
(* The rows operators change while connections, checks and deploys go on:  *)
(* hosts and their keys, the ingress of a target, its services and their   *)
(* releases, a secret and a source.  They share no state here, so one run  *)
(* explores each with the others at rest; the key of one host under        *)
(* overlapping connections and the rows of hosts under overlapping         *)
(* operators are two such parts.                                           *)
(***************************************************************************)
EXTENDS Fleet, Ingress, Services, Secrets, Sources, ReleaseTable, TLC

VARIABLE part

vars == <<part, fleetVars, ingressVars, servicesVars, secretsVars, sourcesVars, tableVars>>

MCAsked ==
    {[mode |-> "managed", port |-> 1, good |-> TRUE], [mode |-> "managed", port |-> 2, good |-> TRUE],
     [mode |-> "managed", port |-> 1, good |-> FALSE], [mode |-> "external", port |-> 1, good |-> TRUE]}

Init ==
    /\ part \in {"keys", "rows", "ingress", "services", "secrets", "sources", "releases"}
    /\ FleetInit /\ IngressInit /\ ServicesInit /\ SecretsInit /\ SourcesInit /\ TableInit
    /\ part = "keys" => \A h \in Host :
                          IF h = CHOOSE one \in Host : TRUE
                          THEN rows[h] # Unborn /\ ~rows[h].critical
                          ELSE rows[h] = Unborn
    /\ part = "rows" => \A h \in Host : rows[h] # Unborn => rows[h].key = NoKey
    /\ part # "keys" => \E k \in Key : machine = [a \in Address |-> k]
    /\ part # "releases" => keep = 0
    /\ part \notin {"keys", "rows"} => \A h \in Host : rows[h] = Unborn

Rests ==
    IF part = "keys" THEN \A r \in Request : request'[r].pc \in {"idle", "accept", "forget"}
                     ELSE machine' = machine /\ conn' = conn

Next ==
    /\ part' = part
    /\ \/ /\ part \in {"keys", "rows"} /\ FleetNext /\ Rests
          /\ UNCHANGED <<ingressVars, servicesVars, secretsVars, sourcesVars, tableVars>>
       \/ /\ part = "ingress" /\ IngressNext
          /\ UNCHANGED <<fleetVars, servicesVars, secretsVars, sourcesVars, tableVars>>
       \/ /\ part = "services" /\ ServicesNext
          /\ UNCHANGED <<fleetVars, ingressVars, secretsVars, sourcesVars, tableVars>>
       \/ /\ part = "secrets" /\ SecretsNext
          /\ UNCHANGED <<fleetVars, ingressVars, servicesVars, sourcesVars, tableVars>>
       \/ /\ part = "sources" /\ SourcesNext
          /\ UNCHANGED <<fleetVars, ingressVars, servicesVars, secretsVars, tableVars>>
       \/ /\ part = "releases" /\ TableNext
          /\ UNCHANGED <<fleetVars, ingressVars, servicesVars, secretsVars, sourcesVars>>

Spec == Init /\ [][Next]_vars

(* Once two calls have met at a config, or one has acted on settings that  *)
(* have changed, the property of Ingress is silent or as good as; after a  *)
(* fault one call at a time is enough for it.  Once a unit is excused the  *)
(* host no longer matters to Services, whose ports do not depend on it.    *)
Alone ==
    /\ \/ excuse = {}
       \/ excuse = {"fault"} /\ \E c \in Call : \A d \in Call \ {c} : In(d, "idle")
    /\ reason = {} \/ host = [files |-> {}, runs |-> {}]

(* Whoever acts is one of the same few actors in every part. *)
Anonymous == Permutations(Call) \cup Permutations(Service) \cup Permutations(Key)

=============================================================================
