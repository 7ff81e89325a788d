------------------------------ MODULE Sources ------------------------------
(***************************************************************************)
(* A GitHub App source: the manifest flow that gives it its credentials,   *)
(* and its deletion while services build from it                           *)
(* (server/src/api/sources.rs, server/src/store/sources.rs).               *)
(*                                                                         *)
(* The redirect that ends the flow may come more than once, and GitHub     *)
(* converts each code once.  Installations, their tokens and deploy keys   *)
(* are left out.                                                           *)
(***************************************************************************)
EXTENDS Naturals, Sequences

CONSTANTS
    Worker,      \* handlers under way
    Code,        \* manifest codes, each the App its conversion creates
    Builder,     \* services that may build from the source
    ServicePage, \* the services a delete looks at: 500 in the code
    NoApp

ASSUME SourcesAssumption == NoApp \notin Code /\ {"none", "gone"} \cap (Code \cup {NoApp}) = {}

VARIABLES
    source,     \* the row: "none" before it, its App or NoApp, "gone"
    state,      \* the setup state: "none", "open", "expired"
    converted,  \* external: the codes GitHub has converted
    builds,     \* services whose git_source_id is this source
    listing,    \* the services there are, newest first
    unseen,     \* history: those that build from it and came after a delete
                \* had looked, or were too old for it
    worker      \* the handlers under way

sourcesVars == <<source, state, converted, builds, listing, unseen, worker>>

Out == [pc |-> "out"]

SourcesInit ==
    /\ source = "none"
    /\ state = "none"
    /\ converted = {}
    /\ builds = {} /\ listing = <<>> /\ unseen = {}
    /\ worker = [w \in Worker |-> Out]

Live == source \notin {"none", "gone"}
IsAt(w, pc) == worker[w].pc = pc
Goes(w, pc) == worker' = [worker EXCEPT ![w].pc = pc]
Leaves(w) == worker' = [worker EXCEPT ![w] = Out]

(***************************************************************************)
(* The manifest flow.                                                      *)
(***************************************************************************)
(* The row and the state, before GitHub knows of the App.                  *)
CreateManifest ==
    /\ source = "none"
    /\ source' = NoApp /\ state' = "open"
    /\ UNCHANGED <<converted, builds, listing, unseen, worker>>

Expire == state = "open" /\ state' = "expired" /\ UNCHANGED <<source, converted, builds, listing, unseen, worker>>

\* Variant of Exchange: the state is read when the callback comes and deleted when it is done.
ExchangeUnspent(w) ==
    /\ IsAt(w, "out") /\ state = "open"
    /\ \E code \in Code : worker' = [worker EXCEPT ![w] = [pc |-> "urls", code |-> code]]
    /\ UNCHANGED <<source, state, converted, builds, listing, unseen>>

(* consume_setup_state deletes the state as it reads it, whatever else is  *)
(* wrong with it.                                                          *)
Exchange(w) ==
    /\ IsAt(w, "out") /\ state # "none"
    /\ state' = "none"
    /\ IF state = "open"
       THEN \E code \in Code : worker' = [worker EXCEPT ![w] = [pc |-> "urls", code |-> code]]
       ELSE UNCHANGED worker
    /\ UNCHANGED <<source, converted, builds, listing, unseen>>

ReadUrls(w) ==
    /\ IsAt(w, "urls")
    /\ IF Live THEN Goes(w, "convert") ELSE Leaves(w)
    /\ UNCHANGED <<source, state, converted, builds, listing, unseen>>

(* A conversion that fails leaves a source without credentials and without *)
(* a way to get them.                                                      *)
Convert(w) ==
    /\ IsAt(w, "convert")
    /\ \/ /\ worker[w].code \notin converted
          /\ converted' = converted \cup {worker[w].code}
          /\ Goes(w, "look")
       \/ Leaves(w) /\ UNCHANGED converted
    /\ UNCHANGED <<source, state, builds, listing, unseen>>

(* attach_github_credentials looks first and writes then.                  *)
LookForCredentials(w) ==
    /\ IsAt(w, "look")
    /\ IF source = NoApp THEN Goes(w, "attach") ELSE Leaves(w)
    /\ UNCHANGED <<source, state, converted, builds, listing, unseen>>

Attach(w) ==
    /\ IsAt(w, "attach")
    /\ source' = IF Live THEN worker[w].code ELSE source
    /\ Leaves(w)
    /\ UNCHANGED <<state, converted, builds, listing, unseen>>

(***************************************************************************)
(* Who builds from it, and its deletion.                                   *)
(***************************************************************************)
Exists(s) == \E i \in DOMAIN listing : listing[i] = s
OtherServices(s) == SelectSeq(listing, LAMBDA t : t # s)

(* The foreign key wants the row to be there. *)
Bind(s) ==
    /\ Live
    /\ builds' = builds \cup {s}
    /\ unseen' = IF \E w \in Worker : IsAt(w, "delete") THEN unseen \cup {s} ELSE unseen \ {s}

Unbind(s) == builds' = builds \ {s} /\ unseen' = unseen \ {s}

(* A service is created with the source or without it, and given it or     *)
(* another one later.                                                      *)
CreateService(s) ==
    /\ ~Exists(s)
    /\ listing' = <<s>> \o listing
    /\ Bind(s) \/ Unbind(s)
    /\ UNCHANGED <<source, state, converted, worker>>

BuildFrom(s) ==
    /\ Exists(s) /\ s \notin builds
    /\ Bind(s)
    /\ UNCHANGED <<source, state, converted, listing, worker>>

BuildFromElsewhere(s) ==
    /\ s \in builds
    /\ Unbind(s)
    /\ UNCHANGED <<source, state, converted, listing, worker>>

RemoveService(s) ==
    /\ Exists(s)
    /\ listing' = OtherServices(s)
    /\ Unbind(s)
    /\ UNCHANGED <<source, state, converted, worker>>

(* Sources.Delete counts its dependents among the newest services          *)
(* (list_services("", 500, 0), of every source and target).                *)
NewestServices == {listing[i] : i \in {j \in DOMAIN listing : j <= ServicePage}}

LookForDependents(w) ==
    /\ IsAt(w, "out") /\ Live
    /\ builds \cap NewestServices = {}
    /\ worker' = [worker EXCEPT ![w] = [pc |-> "delete"]]
    /\ unseen' = unseen \cup builds
    /\ UNCHANGED <<source, state, converted, builds, listing>>

(* The setup state goes with the row, and services that build from it are  *)
(* set to no source, which means a public repository.                      *)
DeleteSource(w) ==
    /\ IsAt(w, "delete")
    /\ source' = IF Live THEN "gone" ELSE source
    /\ state' = IF Live THEN "none" ELSE state
    /\ builds' = {} /\ unseen' = {}
    /\ Leaves(w)
    /\ UNCHANGED <<converted, listing>>

SourcesNext ==
    \/ CreateManifest \/ Expire
    \/ \E w \in Worker :
          \/ Exchange(w) \/ ReadUrls(w) \/ Convert(w) \/ LookForCredentials(w) \/ Attach(w)
          \/ LookForDependents(w) \/ DeleteSource(w)
    \/ \E s \in Builder :
          CreateService(s) \/ BuildFrom(s) \/ BuildFromElsewhere(s) \/ RemoveService(s)

SourcesSpec == SourcesInit /\ [][SourcesNext]_sourcesVars

(***************************************************************************)
(* Properties.                                                             *)
(***************************************************************************)
(* A source stays what it is: once it has the credentials of an App they   *)
(* are never those of another, whatever redirects come and however they    *)
(* overlap; and it goes only from under services that came to it after its *)
(* deletion had looked for them, or that were too old for it to see.       *)
SourcesStayBound ==
    [][/\ source \in Code => source' \in {source, "gone"}
       /\ Live /\ source' = "gone" => builds \subseteq unseen]_sourcesVars

=============================================================================
