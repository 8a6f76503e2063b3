--------------------------- MODULE MCSearchSnatch ---------------------------
\* Model-checking instance of SearchSnatch: a release of one episode, which two
\* providers have, and a pack of a preferred quality with both episodes.
EXTENDS SearchSnatch

CONSTANTS e1, e2, a, b, pack

MCEpisodesOf == [r \in Result |-> IF r = pack THEN {e1, e2} ELSE {e1}]
MCNameOf == [r \in Result |-> IF r = pack THEN "pack" ELSE "single"]
MCSizeOf == [r \in Result |-> IF r = pack THEN 2 ELSE 1]
MCProviderOf == [r \in Result |-> IF r = a THEN "one" ELSE "other"]
=============================================================================
