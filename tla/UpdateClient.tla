---------------------------- MODULE UpdateClient ----------------------------
(***************************************************************************)
(* The update client: one output directory that must follow an image tag   *)
(* (updater/client.go), the record of what is installed in it              *)
(* (statemanager.go), and the processes that pull, one after the other.    *)
(*                                                                         *)
(* A pull loads the record, compares the directory with the recorded hash, *)
(* and patches the directory with a delta when they agree, or replaces it  *)
(* by the whole image when they do not.  A process may die at any step;    *)
(* calls may fail; somebody may edit the directory between pulls.          *)
(*                                                                         *)
(* The content of the directory is the image it holds, or says that it     *)
(* holds none.  Its hash stands for the content.  Delta service and        *)
(* artifact loader appear as what they promise: a delta, if there is one,  *)
(* is between the image asked for and the one the tag named, and files are *)
(* verified.  Whether there ever is a delta is left open.                  *)
(***************************************************************************)
EXTENDS Naturals

CONSTANTS
    Images,
    Compatible,     \* the pairs of images the service accepts for a delta
    Inapplicable,   \* those whose delta cannot be applied, or not always
    Patchers,       \* how deltas are applied: "file", "directory", "in place"
    Troubles,       \* what may go wrong: "crash", "failure", "edit"
    MaxTroubles,    \* how often
    NoRecord,       \* a state file that knows nothing of the directory
    NoFile,         \* no state file
    Torn,           \* a state file that was truncated and not written
    Legacy,         \* a state file of version 1
    Missing, Empty, Mixed   \* directories that hold no image

NotImages == {Missing, Empty, Mixed}
Contents  == Images \cup NotImages
Records   == [image : Images, hash : Contents]

ASSUME ClientAssumption ==
    /\ Images # {} /\ Images \cap NotImages = {}
    /\ Compatible \subseteq Images \X Images
    /\ Inapplicable \subseteq Compatible
    /\ Patchers \subseteq {"file", "directory", "in place"} /\ Patchers # {}
    /\ MaxTroubles \in Nat
    /\ {NoRecord, NoFile, Torn, Legacy} \cap Records = {}

VARIABLES
    latest,     \* the image the tag names
    dir,        \* what is in the output directory
    disk,       \* what is in doras-state.json
    mem,        \* the process's copy of the record
    pc,         \* where the process is, "off" when there is none
    goal,       \* the image being installed
    staged,     \* what was extracted or patched, ready to be moved in
    result,     \* what the pull returned
    troubles    \* number of troubles so far

storage == <<dir, disk>>
process == <<mem, goal, staged, result>>
vars == <<latest, storage, process, pc, troubles>>

PCs == {"off", "initTruncate", "initWrite", "idle", "ask", "fetchDelta", "patch",
        "swapFile", "swapInPlace", "fetchFull", "remove", "rename", "hash",
        "truncate", "write", "returned"}

TypeOK ==
    /\ latest \in Images
    /\ dir \in Contents
    /\ disk \in Records \cup {NoRecord, NoFile, Torn, Legacy}
    /\ mem \in Records \cup {NoRecord}
    /\ pc \in PCs
    /\ goal \in Images
    /\ staged \in Contents
    /\ result \in {"none", "ok", "error"}
    /\ troubles \in 0..MaxTroubles

\* A device comes with anything in the directory, and perhaps with the state
\* file of an old version.
Init ==
    /\ latest \in Images
    /\ dir \in Contents
    /\ disk \in {NoFile, Legacy}
    /\ mem = NoRecord
    /\ pc = "off"
    /\ goal = latest
    /\ staged = Empty
    /\ result = "none"
    /\ troubles = 0

-----------------------------------------------------------------------------
Trouble(kind) ==
    /\ kind \in Troubles
    /\ troubles < MaxTroubles
    /\ troubles' = troubles + 1

Returns(r) == pc' = "returned" /\ result' = r

\* A call fails and the pull returns its error.
Fail ==
    /\ Trouble("failure")
    /\ Returns("error")

\* Mutant: whatever the file holds is taken for the state.
Whatever(known) == disk

\* What Load leaves in memory: a state file that is absent or torn does not
\* change what is known, an entry in the file replaces it.
Loaded(known) == IF disk \in Records THEN disk ELSE known

\* NewClient, up to Commit.  A state file that cannot be read, or is of version
\* 1, goes, with the whole internal directory; a missing output directory is
\* created; the state is loaded.
Start ==
    /\ pc = "off"
    /\ disk' = IF disk \in {Torn, Legacy} THEN NoFile ELSE disk
    /\ dir' = IF dir = Missing THEN Empty ELSE dir
    /\ mem' = Loaded(NoRecord)
    /\ result' = "none"
    /\ pc' = "initTruncate"
    /\ UNCHANGED <<latest, goal, staged, troubles>>

\* Commit and ModifyState write the file in place: it is truncated, then
\* written and synced.
Truncate ==
    /\ pc \in {"initTruncate", "truncate"}
    /\ disk' = Torn
    /\ pc' = IF pc = "truncate" THEN "write" ELSE "initWrite"
    /\ UNCHANGED <<latest, dir, process, troubles>>

Write ==
    /\ pc \in {"initWrite", "write"}
    /\ \/ /\ disk' = mem
          /\ \/ pc = "initWrite" /\ pc' = "idle" /\ UNCHANGED result
             \/ pc = "write" /\ Returns("ok")
          /\ UNCHANGED troubles
       \/ Fail /\ UNCHANGED disk
    /\ UNCHANGED <<latest, dir, mem, goal, staged>>

-----------------------------------------------------------------------------
\* Mutant: the directory is not compared with the record.
Assumed(record) == TRUE

Unmodified(record) == dir = record.hash

\* PullAsync: without a record, or with a directory that is not the recorded
\* one, the full image is pulled.  A directory that is gone cannot be hashed.
BeginPull ==
    /\ pc = "idle"
    /\ mem' = Loaded(mem)
    /\ \/ /\ mem' = NoRecord
          /\ pc' = "fetchFull"
          /\ UNCHANGED result
       \/ /\ mem' # NoRecord /\ dir = Missing
          /\ Returns("error")
       \/ /\ mem' # NoRecord /\ dir # Missing
          /\ pc' = IF Unmodified(mem') THEN "ask" ELSE "fetchFull"
          /\ UNCHANGED result
    /\ UNCHANGED <<latest, storage, goal, staged, troubles>>

\* The recorded image is another than the tag's, and the service would build a
\* delta between the two.
NeedsDelta ==
    /\ pc = "ask"
    /\ mem.image # latest
    /\ <<mem.image, latest>> \in Compatible

\* 202 or 500: there is no delta yet, or there never will be.  Compatible images
\* of several layers, for instance, are accepted and then cannot be loaded.  On
\* 202 Pull waits and starts over; PullAsync, a Pull that has run out of
\* attempts, and either of them on 500, return.
AskInVain ==
    /\ NeedsDelta
    /\ \/ pc' = "idle" /\ UNCHANGED result
       \/ Returns("error")
    /\ UNCHANGED <<latest, storage, mem, goal, staged, troubles>>

\* 200.
ReceiveDelta ==
    /\ NeedsDelta
    /\ goal' = latest
    /\ pc' = "fetchDelta"
    /\ UNCHANGED <<latest, storage, mem, staged, result, troubles>>

\* 204, or 400 for incompatible images; other errors end the pull.
AskNoDelta ==
    /\ pc = "ask" /\ ~NeedsDelta
    /\ \/ /\ goal' = latest
          /\ \/ latest = mem.image /\ Returns("ok")
             \/ latest # mem.image /\ pc' = "fetchFull" /\ UNCHANGED result
          /\ UNCHANGED troubles
       \/ Fail /\ UNCHANGED goal
    /\ UNCHANGED <<latest, storage, mem, staged>>

FetchDelta ==
    /\ pc = "fetchDelta"
    /\ \/ pc' = "patch" /\ UNCHANGED <<result, troubles>>
       \/ Fail
    /\ UNCHANGED <<latest, storage, mem, goal, staged>>

\* A delta turns the image it was made from into its target, and anything else
\* into nothing useful, unnoticed: there is no digest to compare with.  Images
\* are taken to be proper archives (TarDelta); of others a delta may be wrong.
Patched(content) == IF content = mem.image THEN goal ELSE Mixed

\* PatchFilesystem builds the new file or directory aside.  It fails each time on
\* a delta that names a file which the patcher does not find (TarDelta!Entries).
Patch ==
    /\ pc = "patch"
    /\ \/ /\ staged' = Patched(dir)
          /\ \E p \in Patchers :
               pc' = CASE p = "file"      -> "swapFile"
                       [] p = "directory" -> "remove"
                       [] p = "in place"  -> "swapInPlace"
          /\ UNCHANGED <<result, troubles>>
       \/ Fail /\ UNCHANGED staged
       \/ /\ <<mem.image, goal>> \in Inapplicable
          /\ Returns("error")
          /\ UNCHANGED <<staged, troubles>>
    /\ UNCHANGED <<latest, storage, mem, goal>>

\* bsdiff renames one file over another.
SwapFile ==
    /\ pc = "swapFile"
    /\ \/ /\ dir' = staged
          /\ pc' = "hash"
          /\ UNCHANGED <<result, troubles>>
       \/ Fail /\ UNCHANGED dir
    /\ UNCHANGED <<latest, disk, mem, goal, staged>>

\* tardiff with WithKeepOldDir replaces, then removes, entry by entry.
SwapInPlace ==
    /\ pc = "swapInPlace"
    /\ <<mem.image, goal>> \notin Inapplicable
    /\ \/ /\ dir # Mixed
          /\ dir' = Mixed
          /\ UNCHANGED <<pc, result, troubles>>
       \/ /\ dir = Mixed
          /\ dir' = staged
          /\ pc' = "hash"
          /\ UNCHANGED <<result, troubles>>
       \/ Fail /\ UNCHANGED dir
    /\ UNCHANGED <<latest, disk, mem, goal, staged>>

\* No entry is renamed over a directory, and no directory removed that is not
\* empty: each time the patch is tried, it ends there.  Entries before may have
\* been replaced by others.
SwapObstructed ==
    /\ pc = "swapInPlace"
    /\ <<mem.image, goal>> \in Inapplicable
    /\ dir' \in {dir, Mixed}
    /\ Returns("error")
    /\ UNCHANGED <<latest, disk, mem, goal, staged, troubles>>

\* pullFullImage, up to the extracted directory.
FetchFull ==
    /\ pc = "fetchFull"
    /\ \/ /\ goal' = latest
          /\ staged' = latest
          /\ pc' = "remove"
          /\ UNCHANGED <<result, troubles>>
       \/ Fail /\ UNCHANGED <<goal, staged>>
    /\ UNCHANGED <<latest, storage, mem>>

\* ReplaceDirectory removes what is there, entry by entry, and then renames.
Remove ==
    /\ pc = "remove"
    /\ \/ /\ dir \notin {Missing, Mixed}
          /\ dir' = Mixed
          /\ UNCHANGED <<pc, result, troubles>>
       \/ /\ dir \in {Missing, Mixed}
          /\ dir' = Missing
          /\ pc' = "rename"
          /\ UNCHANGED <<result, troubles>>
       \/ Fail /\ UNCHANGED dir
    /\ UNCHANGED <<latest, disk, mem, goal, staged>>

Rename ==
    /\ pc = "rename"
    /\ \/ /\ dir' = staged
          /\ pc' = "hash"
          /\ UNCHANGED <<result, troubles>>
       \/ Fail /\ UNCHANGED dir
    /\ UNCHANGED <<latest, disk, mem, goal, staged>>

\* Mutant: the tag is resolved again for the record.
LatestAgain == latest

InstalledImage == goal

\* The directory as it is now is recorded as the image that was installed.
\* What ModifyState reads from the file before is overwritten by this entry.
HashAndSet ==
    /\ pc = "hash"
    /\ \/ /\ mem' = [image |-> InstalledImage, hash |-> dir]
          /\ pc' = "truncate"
          /\ UNCHANGED <<result, troubles>>
       \/ Fail /\ UNCHANGED mem
    /\ UNCHANGED <<latest, storage, goal, staged>>

\* The process ends once its pull has returned, as the command line's does.
Exit ==
    /\ pc = "returned"
    /\ pc' = "off"
    /\ mem' = NoRecord
    /\ staged' = Empty
    /\ result' = "none"
    /\ UNCHANGED <<latest, storage, goal, troubles>>

-----------------------------------------------------------------------------
Crash ==
    /\ Trouble("crash")
    /\ pc # "off"
    /\ pc' = "off"
    /\ mem' = NoRecord
    /\ staged' = Empty
    /\ result' = "none"
    /\ UNCHANGED <<latest, storage, goal>>

\* Somebody changes or deletes what is in the directory while nothing is being
\* installed; they may also put an old image back.
Edit ==
    /\ Trouble("edit")
    /\ pc \in {"off", "initTruncate", "initWrite", "idle", "returned"}
    /\ dir' \in Contents \ {dir}
    /\ UNCHANGED <<latest, disk, process, pc>>

Release ==
    /\ latest' \in Images \ {latest}
    /\ UNCHANGED <<storage, process, pc, troubles>>

Step ==
    \/ Start \/ Truncate \/ Write \/ BeginPull
    \/ AskInVain \/ ReceiveDelta \/ AskNoDelta
    \/ FetchDelta \/ Patch \/ SwapFile \/ SwapInPlace \/ SwapObstructed
    \/ FetchFull \/ Remove \/ Rename \/ HashAndSet \/ Exit

Next == Step \/ Crash \/ Edit \/ Release

Spec == Init /\ [][Next]_vars

\* Pulls are made again and again and do not stop half way.  Nothing is asked of
\* the service.
FairSpec == Spec /\ WF_vars(Step)

-----------------------------------------------------------------------------
\* The record is true: whenever the directory has the recorded hash, it holds
\* the recorded image, so a delta is only ever applied to the image it was made
\* from.  Neither a crash between patching, swapping and recording, nor a torn
\* state file, nor edits between pulls, nor releases during one break this
\* (PullAsync, pullDeltaImageAsync, pullFullImage, ModifyState).
RecordIsTrue ==
    /\ disk \in Records /\ dir = disk.hash => dir = disk.image
    /\ pc = "patch" => dir = mem.image

\* When a pull reports success, by whichever of its ways, the directory holds
\* the image that was this pull's goal and the state file on disk says so: the
\* next pull will ask for a delta from it (Pull).
SuccessIsInstalled ==
    [][result # "ok" /\ result' = "ok" =>
          dir' = goal' /\ disk' = [image |-> goal', hash |-> goal']]_vars

SourcesOf(i, pairs) == {j \in Images \ {i} : <<j, i>> \in pairs}

\* After any crashes, failures and edits, when there is no new release, the
\* directory comes to hold the released image for good; or it holds, for good,
\* another image whole, from which the service accepts to make a delta but never
\* has one, or has one that cannot be applied.  No torn state, half replaced
\* directory or stale record keeps a client from the release, and these two do
\* because there is no way from them to a full pull (PullAsync,
\* pullDeltaImageAsync, replaceInPlace).
Converges ==
    \A i \in Images : <>[](latest = i) =>
        \/ <>[](dir = i)
        \/ <>[](dir \in SourcesOf(i, Compatible)) /\ <>[][~ReceiveDelta]_vars
        \/ <>[](dir \in SourcesOf(i, Inapplicable))
=============================================================================
