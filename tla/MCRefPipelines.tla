---------------------------- MODULE MCRefPipelines ----------------------------
(***************************************************************************)
(* Small instances of RefPipelines.                                        *)
(***************************************************************************)
EXTENDS RefPipelines

\* Four releases (v1 and v3 may be candidates) and a branch.
Timeline == <<"v1", "v2", "v3", "v4", "dev">>
Releases == {"v1", "v2", "v3", "v4"}

\* All of them; without the candidates (then a repair finds two gaps); named one
\* by one with a branch in the end; and one commit that is no tag.
AllReleases == <<"v1", "v2", "v3", "v4">>
NoCandidates == <<"v2", "v4">>
Lists == {AllReleases, NoCandidates, <<"v1", "v2", "dev">>, <<"dev">>}
RepairStarts == {AllReleases, NoCandidates}
Branches == {<<"dev">>}

\* A new database; one with a complete and a partial version of old.
SomeLegacy == {<<{}, {}>>, <<{"v2"}, {"v3"}>>}
=============================================================================
