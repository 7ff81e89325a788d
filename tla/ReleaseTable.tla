---------------------------- MODULE ReleaseTable ----------------------------
(***************************************************************************)
(* The release table of one service under every sequence of recorded       *)
(* releases, commits (each followed by its sweep) and rollbacks, so that   *)
(* the operators of ReleaseRetention are evaluated on every table that can *)
(* arise and not on hand-picked lists.                                     *)
(***************************************************************************)
EXTENDS ReleaseRetention

CONSTANTS MaxReleases,  \* bound on the number of releases ever recorded
          Keeps         \* the values of keep_releases

ASSUME TableAssumption == MaxReleases \in Nat /\ Keeps \subseteq Nat

VARIABLES listed,       \* retained release ids, newest first
          current,      \* current_release_id, 0 when empty
          recorded,     \* how many releases were recorded; also the last id
          keep          \* keep_releases of the service

tableVars == <<listed, current, recorded, keep>>

Rank == [r \in 1 .. MaxReleases |-> r]
Elems(s) == {s[i] : i \in DOMAIN s}

TableInit ==
  /\ listed = <<>>
  /\ current = 0
  /\ recorded = 0
  /\ keep \in Keeps

\* A deploy has put its release in place; whether it will be healthy is open.
AddRelease ==
  /\ recorded < MaxReleases
  /\ recorded' = recorded + 1
  /\ listed' = <<recorded + 1>> \o listed
  /\ UNCHANGED <<current, keep>>

\* A deploy commits its release, maybe not the newest one, and sweeps.
CommitAndSweep(r) ==
  /\ r \in Elems(listed)
  /\ current' = r
  /\ LET doomed == Elems(releases_to_prune(listed, keep, r))
     IN listed' = Picked(listed, {i \in DOMAIN listed : listed[i] \notin doomed})
  /\ UNCHANGED <<recorded, keep>>

\* A rollback, with the release it asks for if it names one, comes through.
GoBack(requested) ==
  /\ \E r \in rollback_target(listed, current, requested).release : current' = r
  /\ UNCHANGED <<listed, recorded, keep>>

Requests == {{}} \cup {{r} : r \in 1 .. MaxReleases}

TableNext ==
  \/ AddRelease
  \/ \E r \in 1 .. MaxReleases : CommitAndSweep(r)
  \/ \E requested \in Requests : GoBack(requested)

TableSpec == TableInit /\ [][TableNext]_tableVars

-----------------------------------------------------------------------------
(* Walking the list newest first and skipping `keep' deletes exactly the   *)
(* releases with at least `keep' newer ones, whichever is the current one  *)
(* (systemd::releases_to_prune); a rollback resolves to the release that   *)
(* the definition by rank chooses, and is refused exactly when there is    *)
(* none (systemd::rollback_target); and the one leaves what the other may  *)
(* need: with a window of two or more, a service that has recorded two     *)
(* releases and committed one has a release to go back to, whichever it    *)
(* has committed since.                                                    *)
PruneMatchesRank ==
  \A cur \in 0 .. MaxReleases :
    Elems(releases_to_prune(listed, keep, cur))
      = Prunable(Elems(listed), Rank, keep, cur)

RollbackMatchesRank ==
  \A requested \in Requests :
    rollback_target(listed, current, requested).release
      = RollbackChoice(Elems(listed), Rank, current, requested)

CommitLeavesAWayBack ==
  (current # 0 /\ recorded >= 2 /\ EffectiveKeep(keep) >= 2) =>
    rollback_target(listed, current, {}).release # {}

RetentionServesRollback == PruneMatchesRank /\ RollbackMatchesRank /\ CommitLeavesAWayBack

=============================================================================
