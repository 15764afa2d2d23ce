------------------------------- MODULE Ingest -------------------------------
(***************************************************************************)
(* The resumable download of one blob by the update client's artifact      *)
(* loader (fetcher.go): a file in the download directory grows under a     *)
(* lock, is verified against the expected digest, renamed into the         *)
(* completed directory and from there to where the caller wants it.        *)
(*                                                                         *)
(* Loaders are processes that share the loader's working directory.  They  *)
(* may be interrupted by the network, killed, or hit by a power loss that  *)
(* takes what was not yet synced.  Paths (download, completed) and the     *)
(* files behind them are kept apart: an open file stays the same file when *)
(* its path is renamed, which is what the order of open, lock and rename   *)
(* in the code is about.                                                   *)
(*                                                                         *)
(* A byte is TRUE when it is the blob's byte for its position, so a file   *)
(* or hash input is the blob exactly when it equals Whole.  Directory      *)
(* entries survive a power loss: ReplaceFile syncs the directory, and an   *)
(* entry that was lost would leave a state an earlier power loss leaves.   *)
(***************************************************************************)
EXTENDS Naturals, Sequences, FiniteSets

CONSTANTS
    Loaders,    \* processes that load the blob
    Files,      \* enough files (inodes) for all of them
    Size,       \* the size in the blob's descriptor
    Streams,    \* can the registry's response seek?  A subset of BOOLEAN
    Faults,     \* what may go wrong: "network", "garbage", "kill", "power"
    MaxFaults,  \* how often
    NoLoader, NoFile

ASSUME IngestAssumption ==
    /\ Size \in Nat \ {0}
    /\ Streams \subseteq BOOLEAN /\ Streams # {}
    /\ MaxFaults \in Nat
    /\ NoLoader \notin Loaders /\ NoFile \notin Files

\* Each of the other loaders holds at most one file, and one is completed.
ASSUME EnoughFiles ==
    /\ IsFiniteSet(Loaders) /\ IsFiniteSet(Files)
    /\ Cardinality(Files) > Cardinality(Loaders)

VARIABLES
    download,   \* the file at download/<digest>
    completed,  \* the file at completed/<digest>
    file,       \* file[f]: its bytes
    dirty,      \* dirty[f]: positions written and not synced
    lock,       \* the loader holding download/<digest>.lock
    pc,         \* pc[l]: where its ingest is
    fd,         \* fd[l]: the file it has open
    hashed,     \* hashed[l]: what its hasher has seen; also its write offset
    out,        \* out[l]: the file it was given
    faults      \* number of faults so far

diskVars == <<download, completed, file, dirty>>
vars == <<diskVars, lock, pc, fd, hashed, out, faults>>

Whole == [i \in 1..Size |-> TRUE]

\* A stream is cut off, or detected as too long, at most one byte too late.
Positions == 1..(Size + 1)
Contents  == UNION {[1..n -> BOOLEAN] : n \in 0..(Size + 1)}

HasFileOpen == {"opened", "locked", "copy", "verify", "unlock", "sync"}

TypeOK ==
    /\ download \in Files \cup {NoFile}
    /\ completed \in Files \cup {NoFile}
    /\ file \in [Files -> Contents]
    /\ dirty \in [Files -> SUBSET Positions]
    /\ lock \in Loaders \cup {NoLoader}
    /\ pc \in [Loaders -> HasFileOpen \cup {"idle", "rename", "move", "loaded", "failed"}]
    /\ fd \in [Loaders -> Files \cup {NoFile}]
    /\ \A l \in Loaders : fd[l] # NoFile <=> pc[l] \in HasFileOpen
    /\ hashed \in [Loaders -> Contents]
    /\ out \in [Loaders -> Files \cup {NoFile}]
    /\ \A l \in Loaders : out[l] # NoFile <=> pc[l] = "loaded"
    /\ faults \in 0..MaxFaults

Init ==
    /\ download = NoFile
    /\ completed = NoFile
    /\ file = [f \in Files |-> <<>>]
    /\ dirty = [f \in Files |-> {}]
    /\ lock = NoLoader
    /\ pc = [l \in Loaders |-> "idle"]
    /\ fd = [l \in Loaders |-> NoFile]
    /\ hashed = [l \in Loaders |-> <<>>]
    /\ out = [l \in Loaders |-> NoFile]
    /\ faults = 0

-----------------------------------------------------------------------------
Goto(l, where) == pc' = [pc EXCEPT ![l] = where]

Fault(kind) ==
    /\ kind \in Faults
    /\ faults < MaxFaults
    /\ faults' = faults + 1

\* Mutant: the file is not given up.
FailWithOpenFile(l) ==
    /\ Goto(l, "failed")
    /\ hashed' = [hashed EXCEPT ![l] = <<>>]
    /\ UNCHANGED fd

\* An error return.  None of them closes the locked file, so the lock stays
\* taken until the garbage collector finds it.
Fail(l) ==
    /\ Goto(l, "failed")
    /\ hashed' = [hashed EXCEPT ![l] = <<>>]
    /\ fd' = [fd EXCEPT ![l] = NoFile]

InUse == {download, completed} \cup {fd[l] : l \in Loaders} \cup {out[l] : l \in Loaders}

\* The blob is requested and the file at the download path opened, or created:
\* before the lock is taken.
Open(l) ==
    /\ pc[l] = "idle"
    /\ Goto(l, "opened")
    /\ \/ /\ download # NoFile
          /\ fd' = [fd EXCEPT ![l] = download]
          /\ UNCHANGED <<download, file, dirty>>
       \/ /\ download = NoFile
          /\ LET f == CHOOSE f \in Files : f \notin InUse
             IN  /\ fd' = [fd EXCEPT ![l] = f]
                 /\ download' = f
                 /\ file' = [file EXCEPT ![f] = <<>>]
                 /\ dirty' = [dirty EXCEPT ![f] = {}]
    /\ UNCHANGED <<completed, lock, hashed, out, faults>>

Acquire(l) ==
    /\ pc[l] = "opened"
    /\ lock = NoLoader
    /\ lock' = l
    /\ Goto(l, "locked")
    /\ UNCHANGED <<diskVars, fd, hashed, out, faults>>

\* Mutant: off by one, a file that is complete is taken for too large.
AsLargeAsExpected(bytes) == Len(bytes) >= Size

TooLarge(bytes) == Len(bytes) > Size

\* The size of what is there is looked at and, if the response can seek, those
\* bytes are hashed and skipped; if not, the download starts from position 0
\* over them.  Seeking or reading may also fail.
Resume(l) ==
    /\ pc[l] = "locked"
    /\ LET old == file[fd[l]]
       IN  \/ /\ \/ TooLarge(old) /\ UNCHANGED faults
                 \/ Fault("network")
              /\ Fail(l)
           \/ /\ ~TooLarge(old)
              /\ UNCHANGED faults
              /\ \E seek \in Streams :
                   hashed' = [hashed EXCEPT ![l] = IF seek THEN old ELSE <<>>]
              /\ Goto(l, IF Len(hashed'[l]) < Size THEN "copy" ELSE "verify")
              /\ UNCHANGED fd
    /\ UNCHANGED <<diskVars, lock, out>>

\* Mutant: the file was opened for appending.
Appended(bytes, p, b) == Append(bytes, b)

Written(bytes, p, b) ==
    IF p <= Len(bytes) THEN [bytes EXCEPT ![p] = b] ELSE Append(bytes, b)

\* One byte arrives, is hashed and written.  A faulty registry, proxy or link
\* delivers a wrong byte, or one after the last.
Receive(l) ==
    /\ pc[l] = "copy"
    /\ LET p == Len(hashed[l]) + 1
       IN  \E b \in BOOLEAN :
             /\ \/ b /\ p <= Size /\ UNCHANGED faults
                \/ ~b /\ p <= Size + 1 /\ Fault("garbage")
             /\ hashed' = [hashed EXCEPT ![l] = Append(@, b)]
             /\ file' = [file EXCEPT ![fd[l]] = Written(@, p, b)]
             /\ dirty' = [dirty EXCEPT ![fd[l]] = @ \cup {p}]
    /\ UNCHANGED <<download, completed, lock, pc, fd, out>>

\* The response ends.  io.Copy goes on until it does, so only now is the
\* number of bytes looked at.
EndOfStream(l) ==
    /\ pc[l] = "copy"
    /\ \/ Len(hashed[l]) >= Size /\ UNCHANGED faults
       \/ Len(hashed[l]) < Size /\ Fault("network")
    /\ \/ /\ Len(hashed[l]) = Size
          /\ Goto(l, "verify")
          /\ UNCHANGED <<fd, hashed>>
       \/ /\ Len(hashed[l]) # Size
          /\ Fail(l)
    /\ UNCHANGED <<diskVars, lock, out>>

HasExpectedDigest(bytes) == bytes = Whole

Verify(l) ==
    /\ pc[l] = "verify"
    /\ \/ /\ HasExpectedDigest(hashed[l])
          /\ Goto(l, "unlock")
          /\ hashed' = [hashed EXCEPT ![l] = <<>>]
          /\ UNCHANGED fd
       \/ /\ ~HasExpectedDigest(hashed[l])
          /\ Fail(l)
    /\ UNCHANGED <<diskVars, lock, out, faults>>

\* LockedFile.Close unlocks first, then syncs and closes the file.
Unlock(l) ==
    /\ pc[l] = "unlock"
    /\ lock' = NoLoader
    /\ Goto(l, "sync")
    /\ UNCHANGED <<diskVars, fd, hashed, out, faults>>

Sync(l) ==
    /\ pc[l] = "sync"
    /\ dirty' = [dirty EXCEPT ![fd[l]] = {}]
    /\ fd' = [fd EXCEPT ![l] = NoFile]
    /\ Goto(l, "rename")
    /\ UNCHANGED <<download, completed, file, lock, hashed, out, faults>>

\* ReplaceFile works on the path: whatever file is at the download path by
\* now becomes the completed one.
Rename(l) ==
    /\ pc[l] = "rename"
    /\ \/ /\ download # NoFile
          /\ completed' = download
          /\ download' = NoFile
          /\ Goto(l, "move")
       \/ /\ download = NoFile
          /\ Goto(l, "failed")
          /\ UNCHANGED <<download, completed>>
    /\ UNCHANGED <<file, dirty, lock, fd, hashed, out, faults>>

\* ResolveAndLoadToPath hands the completed file over to its caller.
Move(l) ==
    /\ pc[l] = "move"
    /\ \/ /\ completed # NoFile
          /\ out' = [out EXCEPT ![l] = completed]
          /\ completed' = NoFile
          /\ Goto(l, "loaded")
       \/ /\ completed = NoFile
          /\ Goto(l, "failed")
          /\ UNCHANGED <<completed, out>>
    /\ UNCHANGED <<download, file, dirty, lock, fd, hashed, faults>>

\* The caller has used the file, or reported the error; it may load again.
Return(l) ==
    /\ pc[l] \in {"loaded", "failed"}
    /\ Goto(l, "idle")
    /\ out' = [out EXCEPT ![l] = NoFile]
    /\ UNCHANGED <<diskVars, lock, fd, hashed, faults>>

\* The Go runtime closes the lock file of an ingest that returned an error.
CollectGarbage(l) ==
    /\ lock = l
    /\ pc[l] \in {"failed", "idle", "opened"}
    /\ lock' = NoLoader
    /\ UNCHANGED <<diskVars, pc, fd, hashed, out, faults>>

-----------------------------------------------------------------------------
\* The operating system closes the files and drops the locks of a process that
\* is killed; what it wrote stays.
Kill(l) ==
    /\ Fault("kill")
    /\ pc[l] # "idle"
    /\ Goto(l, "idle")
    /\ fd' = [fd EXCEPT ![l] = NoFile]
    /\ hashed' = [hashed EXCEPT ![l] = <<>>]
    /\ out' = [out EXCEPT ![l] = NoFile]
    /\ lock' = IF lock = l THEN NoLoader ELSE lock
    /\ UNCHANGED diskVars

Remains(f, lost, n) == SubSeq([i \in DOMAIN file[f] |-> file[f][i] /\ i \notin lost], 1, n)

\* Unsynced bytes may be missing from the end of a file or be zeroes in it.
PowerLoss ==
    /\ Fault("power")
    /\ LET linked == {download, completed} \ {NoFile}
       IN  \E lost \in [linked -> SUBSET Positions], n \in [linked -> 0..(Size + 1)] :
             /\ \A f \in linked :
                  /\ lost[f] \subseteq dirty[f]
                  /\ n[f] <= Len(file[f])
                  /\ \A i \in DOMAIN file[f] : i > n[f] => i \in dirty[f]
             /\ file' = [f \in Files |-> IF f \in linked THEN Remains(f, lost[f], n[f])
                                                         ELSE <<>>]
    /\ dirty' = [f \in Files |-> {}]
    /\ lock' = NoLoader
    /\ pc' = [l \in Loaders |-> "idle"]
    /\ fd' = [l \in Loaders |-> NoFile]
    /\ hashed' = [l \in Loaders |-> <<>>]
    /\ out' = [l \in Loaders |-> NoFile]
    /\ UNCHANGED <<download, completed>>

Step(l) ==
    \/ Open(l) \/ Acquire(l) \/ Resume(l) \/ Receive(l) \/ EndOfStream(l) \/ Verify(l)
    \/ Unlock(l) \/ Sync(l) \/ Rename(l) \/ Move(l) \/ Return(l)

Next ==
    \/ \E l \in Loaders : Step(l) \/ CollectGarbage(l) \/ Kill(l)
    \/ PowerLoss

Spec == Init /\ [][Next]_vars

\* A device that wants an update keeps trying, bytes keep arriving unless the
\* network fails, and the runtime forces a collection every two minutes.
Fairness ==
    \A l \in Loaders : WF_vars(Step(l)) /\ WF_vars(CollectGarbage(l))

FairSpec == Spec /\ Fairness

-----------------------------------------------------------------------------
\* The digest that is compared is the digest of the file: what the hasher has
\* seen is what the file holds up to the write offset, whatever was there when
\* the download was picked up and whether or not the response could seek
\* (ingest, hashOldContents).  So a loader
\* that has compared the digests, and still has the lock, has the whole blob.
HashIsOfFile ==
    \A l \in Loaders :
        /\ pc[l] \in {"copy", "verify"} =>
             /\ Len(hashed[l]) <= Len(file[fd[l]])
             /\ hashed[l] = SubSeq(file[fd[l]], 1, Len(hashed[l]))
        /\ pc[l] = "unlock" => file[fd[l]] = Whole

\* The comment in ingest: "Move to new completed dir.  This happens after the
\* file was downloaded and written to the disk entirely."  What is at the
\* completed path, and so what a caller is given, is the whole blob, and synced.
CompletedIsWhole ==
    /\ completed # NoFile => file[completed] = Whole /\ dirty[completed] = {}
    /\ \A l \in Loaders : pc[l] = "loaded" => file[out[l]] = Whole

\* The partial download holds nothing but bytes of the blob.
Intact == download # NoFile =>
    /\ Len(file[download]) <= Size
    /\ \A i \in DOMAIN file[download] : file[download][i]

LoadsAgainAndAgain == []<>(\E l \in Loaders : pc[l] = "loaded")

\* "It implements the ability to pick up interrupted fetches" (NewArtifactLoader):
\* as long as the partial download is not spoiled, whatever was interrupted or
\* killed, and whatever lock was left behind, loading succeeds in the end.
PicksUpInterruptedFetches == <>[]Intact => LoadsAgainAndAgain

\* The design goal "Robustness against power loss during the update flow" and
\* the comment in ingest on flushing writes: a power loss does not keep a
\* device from ever loading the blob again.
SurvivesPowerLoss == LoadsAgainAndAgain
=============================================================================
