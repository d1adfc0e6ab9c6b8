------------------------ MODULE MCDependencyScheduler ------------------------
(***************************************************************************)
(* Instances of DependencyScheduler for TLC.                               *)
(***************************************************************************)
EXTENDS DependencyScheduler, TLC

Paths == {"h1", "h2", "h3", "s1", "s2", "s3", "m", "p", "old"}
PlainPaths == {"p"}
Outside == "/usr/include/stdint.h"

NoRefs == [f \in Paths |-> << >>]

\* Two cycles, one in each stage; "old" is unchanged.
Cycles == [ headers |-> {"h1", "h2"}, sources |-> {"s1", "s2"}, missing |-> {}, undelivered |-> {},
            refs |-> "h1" :> <<"h2">> @@ "h2" :> <<"old", "h1">>
                     @@ "s1" :> <<"h1", "s2">> @@ "s2" :> <<"s1", "h2">> @@ NoRefs ]

\* A chain of headers through a file missing from the previous version; one header refers to a source.
Chain == [ headers |-> {"h1", "h2", "h3"}, sources |-> {"s1"}, missing |-> {"m"}, undelivered |-> {},
           refs |-> "h1" :> <<"h2", "m">> @@ "h2" :> <<"h3">> @@ "h3" :> <<"s1">>
                    @@ "m" :> <<"h3">> @@ "s1" :> <<"h1", "h2">> @@ NoRefs ]

\* No cycle and nothing lost: every reference must be bound.
Acyclic == [ headers |-> {"h1", "h2"}, sources |-> {"s1", "s2", "s3"}, missing |-> {}, undelivered |-> {},
             refs |-> "h1" :> <<"h2">> @@ "s1" :> <<"s2", "h1", "s3">> @@ "s2" :> <<"h2", "s3">> @@ NoRefs ]

\* Sources only; s3 is delivered by no worker, and two operations refer outside the repository.
Lost == [ headers |-> {}, sources |-> {"s1", "s2", "s3", "p"}, missing |-> {"m"}, undelivered |-> {"s3"},
          refs |-> "s1" :> <<"s2", Outside, "m", "p">> @@ "s2" :> <<"s3">> @@ "m" :> <<Outside>> @@ NoRefs ]

\* A header behind one that no worker delivers, and one with an operation that refers outside.
LostHeader == [ headers |-> {"h1", "h2", "h3"}, sources |-> {"s1"}, missing |-> {}, undelivered |-> {"h3"},
                refs |-> "h1" :> <<"h2", "h3">> @@ "h2" :> <<Outside>> @@ "s1" :> <<"h1", "h3">> @@ NoRefs ]

\* Every reference graph over two headers and a source, and over three sources, with at
\* most one file undelivered.
Graphs(S) ==
    { [f \in Paths |-> IF f \in S THEN SetToSeq(g[f]) ELSE << >>] :
        g \in { h \in [S -> SUBSET S] : \A f \in S : f \notin h[f] } }
SmallVersions(headers, sources) ==
    { [headers |-> headers, sources |-> sources, missing |-> {}, undelivered |-> lost, refs |-> g] :
        lost \in { {} } \cup { {f} : f \in headers \cup sources }, g \in Graphs(headers \cup sources) }

AllVersions ==
    {Cycles, Chain, Acyclic, Lost, LostHeader}
    \cup SmallVersions({"h1", "h2"}, {"s1"})
    \cup SmallVersions({}, {"s1", "s2", "s3"})
=============================================================================
