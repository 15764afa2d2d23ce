------------------------------ MODULE TarDelta ------------------------------
(***************************************************************************)
(* Deltas between tar archives: the differ walks over the new archive and  *)
(* writes operations that refer to files of the old one where it can; the  *)
(* patcher runs them over the old image's extracted files and must produce *)
(* the new archive, byte for byte.                                         *)
(*                                                                         *)
(* Differ and patcher never meet, and both keep a cursor, an old file and  *)
(* a position in it.  The differ leaves out every open and seek it takes   *)
(* for redundant, so the two cursors have to agree although each is        *)
(* updated by code of its own.                                             *)
(*                                                                         *)
(* A byte is a number below Base.  A header, or the end of an archive, is  *)
(* one item of the stream that no byte equals.                             *)
(***************************************************************************)
EXTENDS Integers, Sequences, FiniteSets, FiniteSetsExt, SequencesExt

CONSTANTS
    Pairs,          \* old and new archives
    Base,           \* number of values a byte has
    MaxBsdiffSize,  \* size from which files are compared chunk by chunk
    SmallSize,      \* files below this size are always of similar size,
    Factor,         \* others when neither is this many times as large
    ChunkSize       \* the buffer is flushed when it has this many bytes

ASSUME TarDeltaAssumption ==
    /\ Base \in Nat \ {0} /\ ChunkSize \in Nat \ {0}
    /\ MaxBsdiffSize \in Nat /\ SmallSize \in Nat /\ Factor \in Nat

Bytes  == Seq(0..(Base - 1))
Stream == Seq(Nat)

\* An archive is a sequence of entries.  Differ and delta call them by their path
\* below the root.  Some are called otherwise in the archive, by a name that is
\* absolute or leads out of the directory: those are the rooted ones.  plain
\* tells the regular, not sparse, world-readable files.  NoPath is the name of
\* the file before any is opened.
NoPath   == [dir |-> "", stem |-> "", ext |-> ""]
Paths    == [dir : STRING, stem : STRING, ext : STRING] \cup {NoPath}
Archives == Seq([path : Paths, rooted : BOOLEAN, data : Bytes, plain : BOOLEAN])

ASSUME ArchiveAssumption == Pairs \subseteq Archives \X Archives

VARIABLES
    old, new,   \* the archives
    phase,      \* what is being done
    source,     \* source[k]: the old entry that new entry k is made from, or 0
    offset,     \* offset[i]: where the stored data of old entry i begins
    sourceData, \* the stored data
    at,         \* the entry of new that is being read
    scan,       \* how much of its data has been dealt with
    writer,     \* the delta writer: buffer, its cursor, operations written
    patch       \* the patcher: next operation, its cursor, output

archives == <<old, new>>
analysis == <<source, offset, sourceData>>
vars == <<archives, analysis, phase, at, scan, writer, patch>>

TypeOK ==
    /\ <<old, new>> \in Pairs
    /\ phase \in {"analyze", "next", "file", "bsdiff", "rollsums", "patch", "patched", "failed"}
    /\ source \in [DOMAIN new -> 0..Len(old)]
    /\ offset \in [DOMAIN old -> 0..Len(sourceData)]
    /\ sourceData \in Bytes
    /\ at \in 0..Len(new)
    /\ scan \in 0..Max({0} \cup {Len(new[i].data) : i \in DOMAIN new})
    /\ writer.buffer \in Stream /\ Len(writer.buffer) < ChunkSize
    /\ writer.pos \in Nat
    /\ patch.next \in 1..(Len(writer.ops) + 1)
    /\ patch.pos \in Nat
    /\ patch.out \in Stream

Init ==
    /\ \E pair \in Pairs : old = pair[1] /\ new = pair[2]
    /\ phase = "analyze"
    /\ source = [k \in DOMAIN new |-> 0]
    /\ offset = [i \in DOMAIN old |-> 0]
    /\ sourceData = <<>>
    /\ at = 0
    /\ scan = 0
    /\ writer = [buffer |-> <<>>, file |-> NoPath, pos |-> 0, ops |-> <<>>]
    /\ patch = [next |-> 1, file |-> NoPath, pos |-> 0, out |-> <<>>]

-----------------------------------------------------------------------------
(* The analysis: which old file is the source of a new one.                *)

Size(f) == Len(f.data)

UseTarFile(f) == f.plain /\ Size(f) > 0

\* Mutant: files are not marked.
NeverOverwritten(a, i) == FALSE

\* A later entry of the archive, of whatever kind, has the same path.
Overwritten(a, i) == \E j \in DOMAIN a : j > i /\ a[j].path = a[i].path

TarFiles(a) == {i \in DOMAIN a : UseTarFile(a[i])}
Present(a)  == {i \in TarFiles(a) : ~Overwritten(a, i)}

\* The code looks for a prefix of the base name: ".xz", not "a.xz".
IsDeltaCandidate(f) == ~(f.path.stem = "." /\ f.path.ext = "xz")

NameIsSimilar(f, g, fuzzy) ==
    f.path.stem = g.path.stem /\ (fuzzy \/ f.path.ext = g.path.ext)

SizeIsSimilar(f, g) ==
    \/ Size(f) < SmallSize /\ Size(g) < SmallSize
    \/ Size(f) < Factor * Size(g) /\ Size(g) < Factor * Size(f)

CanDelta(f, g) == IsDeltaCandidate(f) /\ IsDeltaCandidate(g) /\ SizeIsSimilar(f, g)

\* The sources that are considered for f, best first: the same contents, the
\* same path, the same base name, a similar name.
Exact(a, f) == {i \in Present(a) : a[i].data = f.data}

Preferences(a, f) ==
    << Exact(a, f),
       {i \in Present(a)  : a[i].path = f.path /\ CanDelta(f, a[i])},
       {i \in TarFiles(a) : NameIsSimilar(f, a[i], FALSE) /\ CanDelta(f, a[i])},
       {i \in TarFiles(a) : NameIsSimilar(f, a[i], TRUE) /\ CanDelta(f, a[i])} >>

Distance(f, g) == IF Size(f) < Size(g) THEN Size(g) - Size(f) ELSE Size(f) - Size(g)

\* The last one of those whose size is nearest.
Nearest(a, f, S) ==
    Max({i \in S : \A j \in S : Distance(a[i], f) <= Distance(a[j], f)})

\* Entry of archive a that the entry f of the new one is made from; 0 if none.
SourceOf(a, f) ==
    LET prefs == Preferences(a, f)
        found == {k \in DOMAIN prefs : prefs[k] # {}}
    IN  IF UseTarFile(f) /\ found # {} THEN Nearest(a, f, prefs[Min(found)]) ELSE 0

\* Old files that new ones will be compared with byte by byte.
UsedForDelta(a, b) ==
    {SourceOf(a, b[k]) : k \in {m \in DOMAIN b : Exact(a, b[m]) = {}}}

\* The entries that the patcher finds, and no other, under their path.
Found(a) == {i \in Present(a) : ~a[i].rooted}

\* Pairs in which no file is compared to one that a later entry overwrites, and
\* none is copied from or compared to one that is found under another name only.
Proper(a, b) == \A k \in DOMAIN b : SourceOf(a, b[k]) \in Found(a) \cup {0}

\* Their data is stored in one file.  Where it begins is known by archive index,
\* which overwritten files do not have: for them it is taken to be 0.
Analyze ==
    /\ phase = "analyze"
    /\ LET used    == UsedForDelta(old, new) \cap Present(old)
           kept    == [i \in DOMAIN old |-> IF i \in used THEN old[i].data ELSE <<>>]
       IN  /\ sourceData' = FlattenSeq(kept)
           /\ offset' = [i \in DOMAIN old |->
                           IF i \in used THEN Len(FlattenSeq(SubSeq(kept, 1, i - 1))) ELSE 0]
    /\ source' = [k \in DOMAIN new |-> SourceOf(old, new[k])]
    /\ phase' = "next"
    /\ UNCHANGED <<archives, at, scan, writer, patch>>

-----------------------------------------------------------------------------
(* The delta writer.  Literal bytes are collected; whatever else is written *)
(* flushes them first.                                                      *)

Write(w, op) == [w EXCEPT !.ops = Append(@, op)]

FlushBuffer(w) ==
    IF w.buffer = <<>> THEN w
    ELSE [Write(w, [op |-> "data", data |-> w.buffer]) EXCEPT !.buffer = <<>>]

\* Mutant: the buffer is flushed one byte late.
WriteContentLate(w, data) ==
    LET v == [w EXCEPT !.buffer = @ \o data]
    IN  IF Len(v.buffer) > ChunkSize THEN FlushBuffer(v) ELSE v

WriteContent(w, data) ==
    LET v == [w EXCEPT !.buffer = @ \o data]
    IN  IF Len(v.buffer) >= ChunkSize THEN FlushBuffer(v) ELSE v

SetCurrentFile(w, path) ==
    IF w.file = path THEN w
    ELSE [Write(FlushBuffer(w), [op |-> "open", file |-> path])
            EXCEPT !.file = path, !.pos = 0]

Seek(w, pos) ==
    IF w.pos = pos THEN w
    ELSE [Write(FlushBuffer(w), [op |-> "seek", pos |-> pos]) EXCEPT !.pos = pos]

\* Mutant: the position is written but not remembered.
SeekForwardUnnoticed(w, n) == Write(FlushBuffer(w), [op |-> "seek", pos |-> w.pos + n])

\* The distance may be negative: it is added as a 64 bit number that wraps.
SeekForward(w, n) ==
    [Write(FlushBuffer(w), [op |-> "seek", pos |-> w.pos + n]) EXCEPT !.pos = @ + n]

\* Mutant: the writer forgets that the patcher's position moves.
CopyFileInPlace(w, n) == Write(FlushBuffer(w), [op |-> "copy", size |-> n])

CopyFile(w, n) ==
    [Write(FlushBuffer(w), [op |-> "copy", size |-> n]) EXCEPT !.pos = @ + n]

WriteAddContent(w, data) ==
    [Write(FlushBuffer(w), [op |-> "add", data |-> data]) EXCEPT !.pos = @ + Len(data)]

CopyFileAt(w, pos, n) == CopyFile(Seek(w, pos), n)

WriteOldFile(w, path, n) == CopyFile(Seek(SetCurrentFile(w, path), 0), n)

-----------------------------------------------------------------------------
(* The differ reads the new archive from front to end.  What it reads goes  *)
(* into the delta unless it is told to skip it.                             *)

Header(i)     == Base + i
EndOfArchive  == Base
File          == new[at]
HasSource     == source[at] # 0
SourceFile    == old[source[at]]

\* n bytes of the source's stored data from position pos on, if there are as many.
Start == offset[source[at]]
CanReadSourceData(pos, n) == Start + pos + n <= Len(sourceData)
ReadSourceData(pos, n)    == SubSeq(sourceData, Start + pos + 1, Start + pos + n)

\* What is read and not skipped.
Steal(items) == WriteContent(writer, items)

Continue == UNCHANGED <<archives, analysis, patch>>

\* The rest of the file before has been stolen along with the next header.
NextHeader ==
    /\ phase = "next"
    /\ at < Len(new)
    /\ at' = at + 1
    /\ scan' = 0
    /\ writer' = Steal(<<Header(at + 1)>>)
    /\ phase' = "file"
    /\ Continue

HasCopy == HasSource /\ SourceFile.data = File.data

SmallEnough ==
    MaxBsdiffSize = 0 \/ (Size(File) < MaxBsdiffSize /\ Size(SourceFile) < MaxBsdiffSize)

ReuseOldFile ==
    /\ phase = "file"
    /\ HasCopy
    /\ writer' = WriteOldFile(writer, SourceFile.path, Size(SourceFile))
    /\ phase' = "next"
    /\ UNCHANGED <<at, scan>>
    /\ Continue

StartBsdiff ==
    /\ phase = "file"
    /\ HasSource /\ ~HasCopy /\ SmallEnough
    /\ writer' = Seek(SetCurrentFile(writer, SourceFile.path), 0)
    /\ phase' = IF CanReadSourceData(0, Size(SourceFile)) THEN "bsdiff" ELSE "failed"
    /\ UNCHANGED <<at, scan>>
    /\ Continue

\* One round of bsdiff: n bytes as differences to the old file, the bytes up to
\* next as they are, and the old file from pos on for what follows.  Where the
\* suffix sort finds matches is left open; in the code a round that consumes
\* nothing only moves the position, which is worth a step at the start.
Bsdiff ==
    /\ phase = "bsdiff"
    /\ LET oldbin == ReadSourceData(0, Size(SourceFile))
           lastpos == writer.pos
       IN  \E n \in 0..(Size(File) - scan), next \in scan..Size(File), pos \in 0..Len(oldbin) :
             /\ lastpos + n <= Len(oldbin)
             /\ scan + n <= next
             /\ next > scan \/ (scan = 0 /\ lastpos = 0 /\ pos > 0)
             /\ LET db == [i \in 1..n |->
                             (File.data[scan + i] - oldbin[lastpos + i]) % Base]
                    eb == SubSeq(File.data, scan + n + 1, next)
                IN  writer' = SeekForward(WriteContent(WriteAddContent(writer, db), eb),
                                          pos - (lastpos + n))
             /\ scan' = next
             /\ phase' = IF next = Size(File) THEN "next" ELSE "bsdiff"
    /\ UNCHANGED at
    /\ Continue

\* Chunks end where the rolling checksum says: here, after every byte 0.
Ends(data) == {i \in DOMAIN data : data[i] = 0} \cup {Len(data)}

Blobs(data) ==
    {[offset |-> b, size |-> Min({e \in Ends(data) : e > b}) - b]
        : b \in ({0} \cup Ends(data)) \ {Len(data)}}

Chunk(data, blob) == SubSeq(data, blob.offset + 1, blob.offset + blob.size)

\* Different chunks may have the same checksum.
Crc(bytes) == Head(bytes)

FoundIn(from, to, t) ==
    {b \in Blobs(from) : b.size = t.size /\ Crc(Chunk(from, b)) = Crc(Chunk(to, t))}

Matches(from, to) == {t \in Blobs(to) : FoundIn(from, to, t) # {}}

First(blobs) == CHOOSE b \in blobs : \A c \in blobs : b.offset <= c.offset

MatchRatio(from, to) == (Cardinality(Matches(from, to)) * 100) \div Cardinality(Blobs(to))

WorthMatching == MatchRatio(SourceFile.data, File.data) > 20

StartRollsums ==
    /\ phase = "file"
    /\ HasSource /\ ~HasCopy /\ ~SmallEnough /\ WorthMatching
    /\ writer' = SetCurrentFile(writer, SourceFile.path)
    /\ phase' = "rollsums"
    /\ UNCHANGED <<at, scan>>
    /\ Continue

MatchesLeft == {t \in Matches(SourceFile.data, File.data) : t.offset >= scan}

\* A chunk is referred to only if it really is the same.  A differ that cannot
\* read the old one fails, and what it has written is dropped.
NextMatch ==
    /\ phase = "rollsums"
    /\ MatchesLeft # {}
    /\ LET to   == First(MatchesLeft)
           from == First(FoundIn(SourceFile.data, File.data, to))
           skipped == Steal(SubSeq(File.data, scan + 1, to.offset))
           dst  == Chunk(File.data, to)
           can  == CanReadSourceData(from.offset, from.size)
           same == can /\ ReadSourceData(from.offset, from.size) = dst
       IN  /\ writer' = IF same THEN CopyFileAt(skipped, from.offset, from.size)
                                ELSE WriteContent(skipped, dst)
           /\ scan' = to.offset + to.size
           /\ phase' = IF can THEN "rollsums" ELSE "failed"
    /\ UNCHANGED at
    /\ Continue

EndRollsums ==
    /\ phase = "rollsums"
    /\ MatchesLeft = {}
    /\ writer' = Steal(SubSeq(File.data, scan + 1, Size(File)))
    /\ phase' = "next"
    /\ UNCHANGED <<at, scan>>
    /\ Continue

CopyRest ==
    /\ phase = "file"
    /\ HasSource => ~HasCopy /\ ~SmallEnough /\ ~WorthMatching
    /\ writer' = Steal(File.data)
    /\ phase' = "next"
    /\ UNCHANGED <<at, scan>>
    /\ Continue

EndDelta ==
    /\ phase = "next"
    /\ at = Len(new)
    /\ writer' = FlushBuffer(Steal(<<EndOfArchive>>))
    /\ phase' = "patch"
    /\ UNCHANGED <<at, scan>>
    /\ Continue

-----------------------------------------------------------------------------
(* The patcher.  Its data source holds, for a name in the old archive, the  *)
(* last entry with that name, as extracting the archive does.               *)

\* No path in a delta is absolute or leads out, so none is the name of a rooted
\* entry.
Entries(path) == {i \in DOMAIN old : old[i].path = path /\ ~old[i].rooted}
Entry(path)   == old[Max(Entries(path))]

Op       == writer.ops[patch.next]
Applying(op) == phase = "patch" /\ patch.next <= Len(writer.ops) /\ Op.op = op

\* What is left of the current file can be read, and no more.
Readable(n) ==
    /\ Entries(patch.file) # {}
    /\ patch.pos + n <= Size(Entry(patch.file))
Current(n) == SubSeq(Entry(patch.file).data, patch.pos + 1, patch.pos + n)

Output(bytes) == [patch EXCEPT !.out = @ \o bytes, !.next = @ + 1]

Applied(succeeds, result) ==
    /\ phase' = IF succeeds THEN phase ELSE "failed"
    /\ patch' = IF succeeds THEN result ELSE patch
    /\ UNCHANGED <<archives, analysis, at, scan, writer>>

ApplyData == Applying("data") /\ Applied(TRUE, Output(Op.data))

ApplyOpen ==
    /\ Applying("open")
    /\ Applied(Entries(Op.file) # {},
               [patch EXCEPT !.file = Op.file, !.pos = 0, !.next = @ + 1])

ApplySeek ==
    /\ Applying("seek")
    /\ Applied(Entries(patch.file) # {} /\ Op.pos <= Size(Entry(patch.file)),
               [patch EXCEPT !.pos = Op.pos, !.next = @ + 1])

ApplyCopy ==
    /\ Applying("copy")
    /\ Applied(Readable(Op.size),
               [Output(Current(Op.size)) EXCEPT !.pos = @ + Op.size])

ApplyAdd ==
    /\ Applying("add")
    /\ LET n == Len(Op.data)
       IN  Applied(Readable(n),
                   [Output([i \in 1..n |-> (Op.data[i] + Current(n)[i]) % Base])
                       EXCEPT !.pos = @ + n])

EndPatch ==
    /\ phase = "patch"
    /\ patch.next > Len(writer.ops)
    /\ phase' = "patched"
    /\ UNCHANGED <<archives, analysis, at, scan, writer, patch>>

Next ==
    \/ Analyze \/ NextHeader \/ ReuseOldFile \/ StartBsdiff \/ Bsdiff
    \/ StartRollsums \/ NextMatch \/ EndRollsums \/ CopyRest \/ EndDelta
    \/ ApplyData \/ ApplyOpen \/ ApplySeek \/ ApplyCopy \/ ApplyAdd \/ EndPatch

\* Both are sequential programs that run to their end.
Spec == Init /\ [][Next]_vars /\ WF_vars(Next)

-----------------------------------------------------------------------------
NewStream ==
    FlattenSeq([i \in DOMAIN new |-> <<Header(i)>> \o new[i].data]) \o <<EndOfArchive>>

\* What the patcher produces of a proper pair is the new archive, byte for byte,
\* whichever of its files are copied, compared or carried along
\* (TestApplier_Apply and Patch: "want" is the new archive; generateForFile,
\* DataSource).
Reproduces ==
    Proper(old, new) =>
        /\ IsPrefix(patch.out, NewStream)
        /\ phase = "patched" => patch.out = NewStream

\* The position and file in deltaWriter, from which it decides which operations
\* it can leave out, are those of the patcher's data source (deltaWriter.Seek,
\* SetCurrentFile, SeekForward; DataSource.Seek).
CursorsAgree ==
    phase = "patched" => /\ patch.file = writer.file
                         /\ patch.pos = writer.pos

\* Differ and patcher come to an end on every pair of archives.  On a proper pair
\* they do not fail: no operation opens a file that is not there, or leaves it
\* (readSourceData, DataSource.SetCurrentFile, Read and Seek).  On the others
\* they may: analyzeForDelta takes overwritten files for sources once it looks
\* for similar names, and the data source does not know rooted entries by the
\* paths that the differ writes.
Rebuilt ==
    /\ <>(phase \in {"patched", "failed"})
    /\ Proper(old, new) => <>(phase = "patched")
=============================================================================
