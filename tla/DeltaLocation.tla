--------------------------- MODULE DeltaLocation ---------------------------
(***************************************************************************)
(* What the server computes from two image manifests and a client's list   *)
(* of accepted algorithms: whether a delta can be built, with which        *)
(* algorithms, and at which tag of the repository it is stored.            *)
(*                                                                         *)
(* A manifest is reduced to the two things the server looks at: how many   *)
(* layers (or legacy blobs) it lists, and whether the first one carries    *)
(* the annotation that says it is a packed directory.  Image strings with  *)
(* a digest are abstracted to the members of Images, so that the SHA-256   *)
(* of a delta tag is the triple it is computed from.                       *)
(***************************************************************************)
EXTENDS Naturals

CONSTANTS
    Images,     \* the image manifests of the repository, named by digest
    Layers,     \* Layers[i]: number of layers (or blobs) image i lists
    Unpack      \* Unpack[i]: its first layer is annotated as a packed directory

ASSUME ImagesAssumption ==
    /\ Layers \in [Images -> Nat]
    /\ Unpack \in [Images -> BOOLEAN]

\* The names a client may put in its list of accepted algorithms ...
AlgorithmNames == {"bsdiff", "tardiff", "gzip", "zstd"}

\* ... and the choices (differ and compressor) the server makes from a list.
Algorithms == {"tardiff", "bsdiff", "bsdiff_gzip", "bsdiff_zstd"}

\* tardiff needs a packed directory and the client's consent and is never
\* compressed; bsdiff is the fallback whether or not the client lists it, and
\* zstd wins over gzip.
ChooseAlgorithms(accepted, from) ==
    CASE Unpack[from] /\ "tardiff" \in accepted -> "tardiff"
      [] ~(Unpack[from] /\ "tardiff" \in accepted) /\ "zstd" \in accepted -> "bsdiff_zstd"
      [] ~(Unpack[from] /\ "tardiff" \in accepted) /\ "zstd" \notin accepted
           /\ "gzip" \in accepted -> "bsdiff_gzip"
      [] OTHER -> "bsdiff"

\* A delta location: the tag at which the delta between two images with one
\* choice of algorithms is stored.  From, To and DifferChoice are also what
\* the manifest options carry to the code that computes the delta.
Locations == [from : Images, to : Images, alg : Algorithms]

GetDeltaLocation(from, to, accepted) ==
    [from |-> from, to |-> to, alg |-> ChooseAlgorithms(accepted, from)]

\* Two artifacts are compatible when both list something, the same number of
\* things, and agree on being packed directories.
checkCompatability(from, to) ==
    /\ Layers[from] > 0
    /\ Layers[from] = Layers[to]
    /\ Unpack[from] = Unpack[to]

\* Mutant: the condition is turned around.
CanLoadOtherArtifact(i) == Layers[i] # 1

\* Only artifacts of exactly one layer can be opened for diffing.  Compatible
\* artifacts of several layers pass the check above and fail here.
CanLoadArtifact(i) == Layers[i] = 1
=============================================================================
