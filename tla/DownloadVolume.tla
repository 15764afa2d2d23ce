--------------------------- MODULE DownloadVolume ---------------------------
(***************************************************************************)
(* The limit on what clients download within a period.  While a blob is    *)
(* read, a goroutine takes what was counted since it last did and writes   *)
(* it to a file named after the second (inspector.go, observer.go); before *)
(* an artifact is loaded, the files of the period are summed up            *)
(* (validator.go).  One client is modelled in detail; of a second one that *)
(* shares the directory, what it may still record and how it writes files. *)
(* Nothing keeps the two from writing to the same file at once.            *)
(*                                                                         *)
(* Sizes are in chunks, one chunk per Read.  Time goes in seconds, as the  *)
(* names of the files do.  A file is known by its age; one age stands for  *)
(* all that are older than the period.  The interval of the observer is    *)
(* one second or more.                                                     *)
(***************************************************************************)
EXTENDS Integers, Sequences, FiniteSetsExt, SequencesExt

CONSTANTS
    Artifacts,      \* sequences of blob sizes
    ManifestSize,
    Limit, Period,
    Absent, Torn,   \* no file; one that was opened, and not written or cut badly
    Mixed,          \* one that two have written to at once: some number or none
    MaxFaults       \* number of crashes and failing writes

SumOf(sizes) == FoldSeq(LAMBDA x, y : x + y, 0, sizes)
Size(artifact) == ManifestSize + SumOf(artifact)

ASSUME VolumeAssumption ==
    /\ Artifacts # {} /\ Artifacts \subseteq Seq(Nat)
    /\ \A a \in Artifacts : Size(a) <= Limit
    /\ {ManifestSize, Limit, Period, MaxFaults} \subseteq Nat
    /\ Absent # Torn /\ Mixed \notin {Absent, Torn}
    /\ {Absent, Torn, Mixed} \cap Nat = {}

VARIABLES
    stats,      \* the files
    pc,
    queue,      \* sizes of the blobs still to be loaded, the present one first
    left,       \* chunks of the present blob still to be read
    counter,    \* bytesRead
    observer,   \* the goroutine: what it does next
    held,       \* what it took from the counter to write
    others,     \* chunks a second client may still record
    other,      \* where it is in WriteUintToFile, or "out"
    faults,
    unwritten   \* history: chunks of the present blob read, less those written

download == <<queue, left, counter, observer, held, unwritten>>
second == <<others, other>>
volumeVars == <<stats, download, second, faults>>

Ages == 0 .. Period + 1

VolumeTypeOK ==
    /\ stats \in [Ages -> Nat \cup {Absent, Torn, Mixed}]
    /\ queue \in Seq(Nat)
    /\ left \in Nat
    /\ counter \in Nat
    /\ observer \in {"none", "take", "write", "cut", "sleep", "due", "ended"}
    /\ held \in Nat
    /\ others \in Nat /\ other \in {"out", "write", "cut"}
    /\ faults \in 0..MaxFaults
    /\ unwritten \in Nat

VolumeInit ==
    /\ stats = [a \in Ages |-> Absent]
    /\ queue = <<>>
    /\ left = 0
    /\ counter = 0
    /\ observer = "none"
    /\ held = 0
    /\ others = 0 /\ other = "out"
    /\ faults = 0
    /\ unwritten = 0

Goto(l) == pc' = l

-----------------------------------------------------------------------------
\* Mutant: files are kept for ever.
Kept(age) == FALSE

Old(age) == age > Period

Unreadable == \E a \in Ages : ~Old(a) /\ stats[a] = Torn

\* It may parse, or not, and be read as any volume.
Doubtful == \E a \in Ages : ~Old(a) /\ stats[a] = Mixed

Consumed == FoldSet(LAMBDA a, sum : sum + stats[a], 0,
                    {a \in Ages : ~Old(a) /\ stats[a] \in Nat})

\* SumUpDownloadStats and checkSizeLimit: old files come first and are removed;
\* a file that does not parse, or too much volume, is an error.
SumUp == stats' = [a \in Ages |-> IF Old(a) THEN Absent ELSE stats[a]]

\* Mutant: an artifact is only compared with the limit by itself.
FitsAlone(artifact) == ~Unreadable /\ Size(artifact) <= Limit

Fits(artifact) == ~Unreadable /\ Size(artifact) + Consumed <= Limit

Validate ==
    /\ pc = "validate"
    /\ SumUp
    /\ \E artifact \in Artifacts :
          \/ Fits(artifact) /\ Goto("load") /\ queue' = artifact
          \/ (~Fits(artifact) \/ Doubtful) /\ Goto("returned") /\ UNCHANGED queue
    /\ UNCHANGED <<left, counter, observer, held, second, faults, unwritten>>

\* InspectContents.  Part of the blob may be there from an earlier download.
Inspect ==
    /\ pc = "load" /\ queue # <<>>
    /\ \E n \in 0 .. Head(queue) : left' = n
    /\ counter' = 0
    /\ observer' = "take"
    /\ Goto("read")
    /\ UNCHANGED <<stats, queue, held, second, faults, unwritten>>

Read ==
    /\ pc = "read" /\ left > 0
    /\ left' = left - 1
    /\ unwritten' = unwritten + 1
    /\ counter' = counter + 1
    /\ UNCHANGED <<stats, pc, queue, observer, held, second, faults>>

\* What comes with an error is not counted: the last chunk of a blob may come
\* with io.EOF, any chunk with an error that ends the download.
ReadError ==
    /\ pc = "read" /\ left > 0
    /\ left' = 0
    /\ unwritten' = unwritten + 1
    /\ Goto("over")
    /\ UNCHANGED <<stats, queue, counter, observer, held, second, faults>>

Reading == pc \in {"read", "over"}

\* Close closes the stop channel and waits for the observer.  The blob is
\* complete, or the download has failed.
Close ==
    /\ Reading
    /\ \/ left = 0 /\ queue' = Tail(queue)
       \/ queue' = <<>>
    /\ left' = 0
    /\ Goto("closing")
    /\ UNCHANGED <<stats, counter, observer, held, second, faults, unwritten>>

\* What is left in the counter is not used any more (see Inspect).
Closed ==
    /\ pc = "closing" /\ observer = "ended"
    /\ observer' = "none"
    /\ counter' = 0
    /\ Goto(IF queue = <<>> THEN "returned" ELSE "load")
    /\ unwritten' = 0
    /\ UNCHANGED <<stats, queue, left, held, second, faults>>

-----------------------------------------------------------------------------
Observer(l) == observer' = l

Here  == observer \in {"write", "cut"}
There == other # "out"

\* WriteUintToFile: the file of this second, another one of the same second or
\* not, is opened with O_TRUNC, written from its beginning, and cut to the length
\* of what was written.  A second writer in it meanwhile leaves digits of both,
\* or zero bytes; once there is more than the own number in it, it stays so.
File(v)           == stats' = [stats EXCEPT ![0] = v]
Open              == File(Torn)
WriteIn(v, both)  == File(IF both \/ stats[0] # Torn THEN Mixed ELSE v)
CutIn(both)       == IF both THEN File(Mixed) ELSE UNCHANGED stats

\* The F of ObserveDownloadStats: Swap, then WriteUintToFile.
Take ==
    /\ observer = "take"
    /\ held' = counter
    /\ counter' = 0
    /\ Open
    /\ Observer("write")
    /\ UNCHANGED <<pc, queue, left, second, faults, unwritten>>

\* Mutant: the counter is set to zero once the file is written.
WriteAndReset ==
    /\ observer = "write"
    /\ WriteIn(held, There)
    /\ held' = 0
    /\ counter' = 0
    /\ unwritten' = unwritten - held
    /\ Observer("cut")
    /\ UNCHANGED <<pc, queue, left, second, faults>>

WriteStats ==
    /\ observer = "write"
    /\ WriteIn(held, There)
    /\ held' = 0
    /\ unwritten' = unwritten - held
    /\ Observer("cut")
    /\ UNCHANGED <<pc, queue, left, counter, second, faults>>

Cut ==
    /\ observer = "cut"
    /\ CutIn(There)
    /\ Observer("sleep")
    /\ UNCHANGED <<pc, queue, left, counter, held, second, faults, unwritten>>

\* An error of F ends the observer; the download goes on.
WriteFails ==
    /\ observer \in {"take", "write", "cut"}
    /\ faults < MaxFaults
    /\ faults' = faults + 1
    /\ counter' = IF observer = "take" THEN 0 ELSE counter
    /\ held' = 0
    /\ Observer("ended")
    /\ UNCHANGED <<stats, pc, queue, left, second, unwritten>>

\* The select of Observe: when both are ready it takes either, and F is not run
\* once more before Observe returns.
Wake ==
    /\ observer = "due"
    /\ Observer("take")
    /\ UNCHANGED <<stats, pc, queue, left, counter, held, second, faults, unwritten>>

Stop ==
    /\ observer \in {"sleep", "due"} /\ pc = "closing"
    /\ Observer("ended")
    /\ UNCHANGED <<stats, pc, queue, left, counter, held, second, faults, unwritten>>

\* Time passes.  What is in a file is of its time: no second ends while one is
\* being written.
Tick ==
    /\ ~Here /\ ~There
    /\ stats' = [a \in Ages |->
                    CASE a = 0 -> Absent
                      [] a \in 1 .. Period -> stats[a - 1]
                      [] a = Period + 1 ->
                            IF {stats[Period], stats[a]} = {Absent} THEN Absent ELSE Torn]
    /\ Observer(IF observer = "sleep" THEN "due" ELSE observer)
    /\ UNCHANGED <<pc, queue, left, counter, held, second, faults, unwritten>>

\* What a process that dies leaves: the files.
VolumeCrash ==
    /\ faults < MaxFaults
    /\ faults' = faults + 1
    /\ queue' = <<>>
    /\ left' = 0
    /\ counter' = 0
    /\ held' = 0
    /\ unwritten' = 0
    /\ Observer("none")
    /\ UNCHANGED <<stats, second>>

-----------------------------------------------------------------------------
\* The second client checks the volume before it downloads, as the first does.
OtherValidates ==
    /\ others = 0 /\ ~There
    /\ SumUp
    /\ \E artifact \in Artifacts : Fits(artifact) /\ others' = SumOf(artifact)
    /\ UNCHANGED <<pc, download, other, faults>>

\* Its observer writes what has been counted, which may be nothing.
OtherOpens ==
    /\ others > 0 /\ ~There
    /\ Open
    /\ other' = "write"
    /\ UNCHANGED <<pc, download, others, faults>>

OtherWrites ==
    /\ other = "write"
    /\ \E n \in 0 .. others : WriteIn(n, Here) /\ others' = others - n
    /\ other' = "cut"
    /\ UNCHANGED <<pc, download, faults>>

OtherCuts ==
    /\ other = "cut"
    /\ CutIn(Here)
    /\ other' = "out"
    /\ UNCHANGED <<pc, download, others, faults>>

\* Its download ends, or its process, wherever it is in the file.
OtherStops ==
    /\ others > 0 \/ There
    /\ others' = 0
    /\ other' = "out"
    /\ UNCHANGED <<stats, pc, download, faults>>

Observes == Take \/ WriteStats \/ Cut \/ WriteFails \/ Wake \/ Stop

Other == OtherValidates \/ OtherOpens \/ OtherWrites \/ OtherCuts \/ OtherStops

-----------------------------------------------------------------------------
\* What the download may still add to the files.
Outstanding ==
    held + (IF observer \in {"none", "ended"} THEN 0 ELSE counter)
    + left + SumOf(IF Reading THEN Tail(queue) ELSE queue)

\* The limit holds for what is recorded and for all that is yet to be: at no
\* time is there more of one period in the files that one client wrote alone, and
\* on its way to files, than the limit, and one artifact of the second client on
\* top, for both check first and download later.  Nothing is counted twice, and
\* nothing is admitted without regard to what is on record.  Volume does get
\* lost: with a file that is overwritten in the same second, a write that fails,
\* and one that two clients mix, which says nothing or anything (Validate, Swap,
\* WriteUintToFile).
WithinLimit ==
    Consumed + Outstanding + others
        <= Limit + Max({SumOf(a) : a \in Artifacts})

\* While a blob is read and its observer is alive, every chunk read has been
\* written to a file, is in the hands of the observer or in the counter: a Read
\* that comes between Swap and the write is not lost.  All that can be missing is
\* the one chunk that came with the error or io.EOF after which no more is read
\* (CountingReader.Read, ObserveDownloadStats).
NoReadIsLost ==
    Reading /\ observer # "ended" =>
        LET missing == unwritten - (held + counter)
        IN  missing = IF pc = "over" THEN 1 ELSE 0
=============================================================================
