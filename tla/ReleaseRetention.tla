-------------------------- MODULE ReleaseRetention --------------------------
(***************************************************************************)
(* Which releases a retention sweep deletes, and which release a rollback  *)
(* goes to: the pure functions of crates/server/src/systemd.rs.            *)
(*                                                                         *)
(* They are stated twice.  The first form walks a list, newest first, the  *)
(* way the Rust iterators do.  The second form works on a set of releases  *)
(* and the rank of each (the order of creation); DeployEngine uses it, and *)
(* ReleaseTable states that the two agree.                                 *)
(***************************************************************************)
EXTENDS Subsequences

DEFAULT_KEEP_RELEASES == 5

\* keep_releases = 0 means the default, never "keep nothing".
EffectiveKeep(keep) == IF keep = 0 THEN DEFAULT_KEEP_RELEASES ELSE keep

-----------------------------------------------------------------------------
(* The list form: `releases' is a sequence, newest first.                  *)

\* Variant of releases_to_prune: an off-by-one in skip.
prune_off_by_one(releases, keep, current) ==
  Picked(releases, {i \in EffectiveKeep(keep) .. Len(releases) : releases[i] # current})
\* .iter().skip(keep).filter(id != current)
releases_to_prune(releases, keep, current) ==
  Picked(releases, {i \in EffectiveKeep(keep) + 1 .. Len(releases) : releases[i] # current})

Chosen(id)   == [release |-> {id}, error |-> "none"]
Refused(why) == [release |-> {}, error |-> why]

\* .iter().find(...): the first of the hits.
First(releases, hits, otherwise) ==
  IF hits = {} THEN Refused(otherwise) ELSE Chosen(releases[Nth(hits, 1)])

Others(releases, current) == {i \in DOMAIN releases : releases[i] # current}

\* `requested' is the set of ids asked for: empty for "the previous release".
rollback_target(releases, current, requested) ==
  IF requested # {}
    THEN IF requested = {current}
           THEN Refused("AlreadyCurrent")
           ELSE First(releases, {i \in DOMAIN releases : releases[i] \in requested}, "NotRetained")
    ELSE First(releases, Others(releases, current), "NoPreviousRelease")

-----------------------------------------------------------------------------
(* The set form: `rank' orders the releases by creation.                   *)

NewerThan(r, listed, rank) == {q \in listed : rank[q] > rank[r]}

Newest(listed, rank) == {r \in listed : NewerThan(r, listed, rank) = {}}

Prunable(listed, rank, keep, current) ==
  {r \in listed : /\ Cardinality(NewerThan(r, listed, rank)) >= EffectiveKeep(keep)
                  /\ r # current}

RollbackChoice(listed, rank, current, requested) ==
  IF requested # {} THEN (requested \cap listed) \ {current}
                    ELSE Newest(listed \ {current}, rank)
=============================================================================
