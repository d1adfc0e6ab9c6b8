--------------------------- MODULE MCVersionIngest ---------------------------
(***************************************************************************)
(* Instances of VersionIngest for TLC.                                     *)
(***************************************************************************)
EXTENDS VersionIngest

TwoCommits == <<"c1", "c2">>
\* Release v1b is a second tag on the commit of v1.
ThreeTags == [v1 |-> "c1", v1b |-> "c1", v2 |-> "c2"]
TwoTags == [v1 |-> "c1", v2 |-> "c2"]

\* `b` is first the blob of an intermediate commit, then a file of c2; `a` is
\* unchanged; `a` and `b` have the same tag.
Trees == [c1 |-> {"a"}, c2 |-> {"a", "b", "c"}]
Intermediate == [c1 |-> {"b"}, c2 |-> {}]
Tags == [a |-> "s", b |-> "s", c |-> "t"]

\* The default: the releases, oldest first, without and with pre-releases.
AllReleases == { <<"v1", "v2">>, <<"v1", "v1b", "v2">> }

\* A small history, with the newer release also ingested alone: with --ref v2,
\* or because v1 is a pre-release.
SmallTrees == [c1 |-> {"a"}, c2 |-> {"b"}]
NoIntermediate == [c1 |-> {}, c2 |-> {}]
SmallTags == [a |-> "s", b |-> "t"]
AnyOrder == { <<"v1", "v2">>, <<"v2">> }
=============================================================================
