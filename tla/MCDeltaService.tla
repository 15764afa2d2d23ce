--------------------------- MODULE MCDeltaService ---------------------------
(* Small instances of DeltaService.                                        *)
EXTENDS DeltaService, TLC

CONSTANTS v1, v2, v3

\* v1 and v2 are single files; v3, where there is one, has two layers and is
\* compatible with neither.
FileLayers == [i \in Images |-> IF i = v3 THEN 2 ELSE 1]
FileUnpack == [i \in Images |-> FALSE]

\* v1 and v2 are packed directories; v3, where there is one, is a single file.
DirLayers == [i \in Images |-> 1]
DirUnpack == [i \in Images |-> i # v3]

Query(from, want, accepted) == [from |-> from, want |-> want, accepted |-> accepted]

\* Everyone wants the same delta.
SameDelta == {Query(v1, v2, {"bsdiff"})}

\* Everyone has v1 and wants whatever is the latest image.
Upgrade == {Query(v1, LatestTag, {"bsdiff"})}

\* An update of a directory and one of a file or directory, by clients with
\* different algorithms, to a moving tag.
Mixed == {Query(v1, LatestTag, {"bsdiff", "tardiff", "zstd"}),
          Query(v1, LatestTag, {"gzip"})}

Symmetry == Permutations(Requests) \cup Permutations(Servers)
=============================================================================
