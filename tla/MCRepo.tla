------------------------------- MODULE MCRepo --------------------------------
(* The fetching of articles: in one part of the behaviours two requests for    *)
(* similar articles, in the other one command to fetch along a feed.           *)
EXTENDS FetchSimilar

CONSTANTS Workers, SearchPrefixes, Feeds, Desired, DepthTolerance, Prefixed, MaxClimb  \* FetchPipeline

\* Three levels of directories and articles at two depths.  In Dated one page
\* is dated back and one may fail; in Sparse the middle level does not exist and
\* one page is only a redirect.
A == <<1, 1, 1>>
B == <<1, 1, 2>>
C == <<1, 2>>
D == <<2, 1, 1>>
Serves(pairs) == [p \in {pr[1] : pr \in pairs} |-> (CHOOSE pr \in pairs : pr[1] = p)[2]]
Dated == [links |-> Serves({<<<<>>, {<<1, 1>>, C}>>, <<<<1>>, {A, B, C}>>,
                            <<<<1, 1>>, {A, B}>>, <<A, {B, <<>>}>>, <<B, {D}>>}),
          old |-> {C}, faulty |-> {<<1, 1>>}, moved |-> {}]
Sparse == [links |-> Serves({<<<<>>, {C}>>, <<<<1>>, {A, B}>>, <<A, {}>>, <<B, {C}>>}),
           old |-> {}, faulty |-> {<<>>}, moved |-> {C}]
MCSites == {Dated, Sparse}
MCUrls == {<<>>, A, C}

MCSearchPrefixes == {<<1, 1>>, <<2>>}
MCPrefixed == {<<1>>}
MCFeeds == {{}, {<<1, 1>>, C, <<1, 3>>}, {A, <<2>>}}

VARIABLES part, main, cell, worker, collector, articles, saved
P == INSTANCE FetchPipeline
pipe == <<main, cell, worker, collector, articles, saved>>

MCInit == part \in {"similar", "feed"} /\ SInit /\ P!PInit /\ (part = "feed" => site = Dated)
MCNext == \/ part = "similar" /\ SNext /\ UNCHANGED <<part, pipe>>
          \/ part = "feed" /\ P!PNext /\ UNCHANGED <<part, simvars>>
MCSpec == MCInit /\ [][MCNext]_<<part, simvars, pipe>>
LiveSpec == MCSpec /\ P!PFairness

\* A body is saved under the URL it was fetched from.
OwnBody == P!OwnBody
\* What the collector has taken is saved, with its directory.
AllCollectedSaved == P!AllCollectedSaved
\* The handler returns, and no worker is left waiting.
PipelineEnds == P!PipelineEnds
=============================================================================
