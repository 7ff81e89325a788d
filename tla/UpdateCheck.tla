---------------------------- MODULE UpdateCheck ----------------------------
(***************************************************************************)
(* The release check (server/src/updates.rs) and the rows it keeps         *)
(* (server/src/store/settings.rs).  A version is a number, ordered as      *)
(* compare_versions orders version strings; 0 is "none recorded".  A       *)
(* manifest is the set of versions it lists with a published digest.  The  *)
(* manifest is served by a mirror nudo does not control: a fetch may       *)
(* answer with any of Manifests, an older one included.                    *)
(***************************************************************************)
EXTENDS Integers, FiniteSets, FiniteSetsExt

CONSTANTS
    MaxVersion,   \* the newest version there is: a bound
    Manifests     \* the manifests the mirror may answer with

Version == 1 .. MaxVersion
None == 0

ASSUME UpdateAssumption ==
    /\ MaxVersion \in Nat \ {0}
    /\ Manifests \subseteq (SUBSET Version \ {{}})

VARIABLES
    releaseCheck,      \* the operator's tick in settings
    latestVersion,     \* release_check.latest_version
    recordedManifest,  \* release_check.manifest; {} when there is none
    fetched            \* the manifest a check in flight holds, {} when none

checkVars == <<releaseCheck, latestVersion, recordedManifest, fetched>>

CheckInit ==
    /\ releaseCheck = TRUE
    /\ latestVersion = None
    /\ recordedManifest = {}
    /\ fetched = {}

Latest(manifest) == IF manifest = {} THEN None ELSE Max(manifest)

BestKnownVersion(fromManifest, recorded, running) ==
    Max({fromManifest, recorded, running})

(* check_now up to the answer of the mirror: both switches are consulted   *)
(* before the request, neither after it.                                   *)
Fetch ==
    /\ releaseCheck
    /\ fetched = {}
    /\ \E m \in Manifests : fetched' = m
    /\ UNCHANGED <<releaseCheck, latestVersion, recordedManifest>>

(* The rest of check_now: the best version is recorded, and beside it the  *)
(* manifest that was fetched, whichever of the two is newer.               *)
Record(running) ==
    /\ fetched # {}
    /\ latestVersion' = BestKnownVersion(Latest(fetched), latestVersion, running)
    /\ recordedManifest' = fetched
    /\ fetched' = {}
    /\ UNCHANGED releaseCheck

SetReleaseCheck ==
    /\ releaseCheck' = ~releaseCheck
    /\ UNCHANGED <<latestVersion, recordedManifest, fetched>>

=============================================================================
