----------------------------- MODULE MCRegistry -----------------------------
(* Instances of Registry for TLC. *)
EXTENDS Registry

\* One distribution: a release at a time, in any order, or two at once.
MCBackfill ==
  {<<<<1, v>>>> : v \in 1..NumReleases} \cup {<<<<1, 1>>, <<1, 2>>>>}

\* --formats at its default, or JSON alone as older registries were filled.
MCBoth  == {<<"yaml", "json">>}
MCMixed == {<<"yaml", "json">>, <<"json">>}

\* One manifest.
MCBackfillOne == {<<<<1, 1>>>>}

\* The first release is a milestone.
MCMilestones == {1}

MCNoMilestones == {}
=============================================================================
