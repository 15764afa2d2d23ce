---------------------------- MODULE TarDeltaProofs ----------------------------
(***************************************************************************)
(* Proofs about TarDelta: for archives of any number and size of files,    *)
(* any chunk and buffer sizes and whatever matches the differ finds, the   *)
(* operations it writes can be carried out, and give the new archive.      *)
(***************************************************************************)
EXTENDS TarDelta, DataLemmas

(***************************************************************************)
(* Archives and streams                                                    *)
(***************************************************************************)

\* What a stream is made of.
LEMMA BytesStream ==
    /\ Bytes \subseteq Stream
    /\ \A s, t \in Stream : s \o t \in Stream /\ Len(s \o t) = Len(s) + Len(t)
    /\ <<>> \in Stream
<1>1. 0 .. (Base - 1) \subseteq Nat
  BY TarDeltaAssumption
<1>2. Bytes \subseteq Stream
  BY <1>1, SeqMonotonic DEF Bytes, Stream
<1>3. \A s, t \in Stream : s \o t \in Stream /\ Len(s \o t) = Len(s) + Len(t)
  BY ConcatProperties DEF Stream
<1> QED BY <1>2, <1>3, EmptySeq DEF Stream

\* Streams are put together in any order.
LEMMA StreamAlgebra ==
    /\ \A s, t, u \in Stream : (s \o t) \o u = s \o (t \o u)
    /\ \A s \in Stream : s \o <<>> = s /\ <<>> \o s = s
BY ConcatAssociative, ConcatEmptySeq DEF Stream

\* What a stream begins with.
LEMMA Beginning == \A s, t \in Stream : IsPrefix(s, s \o t)
<1> SUFFICES ASSUME NEW s \in Stream, NEW t \in Stream PROVE IsPrefix(s, s \o t)
  OBVIOUS
<1> DEFINE u == s \o t
           n == Len(s)
<1>1. /\ n \in Nat /\ Len(t) \in Nat /\ u \in Seq(Nat) /\ Len(u) = n + Len(t)
      /\ \A i \in 1 .. n : u[i] = s[i]
  BY ConcatProperties, LenProperties DEF Stream
<1> HIDE DEF u
<1>2. /\ SubSeq(u, 1, n) \in Seq(Nat) /\ Len(SubSeq(u, 1, n)) = n
      /\ \A i \in 1 .. n : SubSeq(u, 1, n)[i] = u[i]
  BY <1>1
<1>3. SubSeq(u, 1, n) = s
  <2> DEFINE v == SubSeq(u, 1, n)
  <2>1. v \in Seq(Nat) /\ Len(v) = Len(s) /\ \A i \in 1 .. Len(s) : v[i] = s[i]
    BY <1>1, <1>2
  <2> HIDE DEF v
  <2>2. v = s
    BY <2>1, SeqEqual DEF Stream
  <2> QED BY <2>2 DEF v
<1>4. SubSeq(s, 1, n) = s
  BY SubSeqFull DEF Stream
<1> QED BY <1>1, <1>3, <1>4 DEF IsPrefix, u

\* A part of some data, and the part after it.
LEMMA Parts ==
    ASSUME NEW data \in Bytes, NEW m \in Nat, NEW n \in m .. Len(data)
    PROVE  /\ SubSeq(data, m + 1, n) \in Bytes
           /\ Len(SubSeq(data, m + 1, n)) = n - m
           /\ \A i \in 1 .. (n - m) : SubSeq(data, m + 1, n)[i] = data[m + i]
           /\ SubSeq(data, 1, m) \o SubSeq(data, m + 1, n) = SubSeq(data, 1, n)
<1>1. n \in Nat /\ Len(data) \in Nat /\ \A i \in m + 1 .. n : data[i] \in 0 .. (Base - 1)
  <2>1. Len(data) \in Nat /\ \A i \in 1 .. Len(data) : data[i] \in 0 .. (Base - 1)
    BY ElementOfSeq, LenProperties, Zenon DEF Bytes
  <2>2. n \in Nat /\ \A i \in m + 1 .. n : i \in 1 .. Len(data)
    BY <2>1
  <2> QED BY <2>1, <2>2
<1>2. /\ SubSeq(data, m + 1, n) \in Bytes
      /\ Len(SubSeq(data, m + 1, n)) = IF m + 1 <= n THEN n - (m + 1) + 1 ELSE 0
      /\ \A i \in 1 .. n - (m + 1) + 1 : SubSeq(data, m + 1, n)[i] = data[m + 1 + i - 1]
  <2>1. m + 1 \in Int /\ n \in Int
    BY <1>1
  <2> QED BY <1>1, <2>1, SubSeqProperties DEF Bytes
<1>3. SubSeq(data, 1, m) \o SubSeq(data, m + 1, n) = SubSeq(data, 1, n)
  <2>1. 1 \in 1 .. Len(data) + 1 /\ m \in 1 - 1 .. Len(data) /\ n \in m .. Len(data)
    BY <1>1
  <2> QED BY <2>1, ConcatAdjacentSubSeq DEF Bytes
<1>4. \A i \in 1 .. (n - m) : SubSeq(data, m + 1, n)[i] = data[m + i]
  <2>1. \A i \in 1 .. (n - m) : i \in 1 .. n - (m + 1) + 1 /\ m + 1 + i - 1 = m + i
    BY <1>1
  <2> QED BY <1>2, <2>1
<1>5. Len(SubSeq(data, m + 1, n)) = n - m
  BY <1>1, <1>2
<1> QED BY <1>2, <1>3, <1>4, <1>5

\* The entries of an archive.
LEMMA ArchiveEntries ==
    ASSUME NEW a \in Archives
    PROVE  /\ DOMAIN a = 1 .. Len(a) /\ Len(a) \in Nat /\ DOMAIN a \subseteq Nat
           /\ IsFiniteSet(DOMAIN a)
           /\ \A i \in DOMAIN a : /\ a[i].path \in Paths /\ a[i].data \in Bytes
                                  /\ a[i].plain \in BOOLEAN /\ Size(a[i]) \in Nat
<1>1. DOMAIN a = 1 .. Len(a) /\ Len(a) \in Nat
  BY DEF Archives
<1>2. IsFiniteSet(1 .. Len(a))
  BY <1>1, FS_Interval
<1>3. \A i \in DOMAIN a : a[i] \in [path : Paths, rooted : BOOLEAN, data : Bytes, plain : BOOLEAN]
  BY <1>1, ElementOfSeq DEF Archives
<1>4. \A d \in Bytes : Len(d) \in Nat
  BY DEF Bytes
<1> QED BY <1>1, <1>2, <1>3, <1>4 DEF Size

(***************************************************************************)
(* The choice of a source                                                  *)
(***************************************************************************)

\* The nearest in size of some files is one of them.
LEMMA NearestIsOne ==
    ASSUME NEW a \in Archives, NEW f, Size(f) \in Nat, NEW S, S \subseteq DOMAIN a, S # {}
    PROVE  Nearest(a, f, S) \in S
<1> DEFINE distances == {Distance(a[i], f) : i \in S}
           best == {i \in S : \A j \in S : Distance(a[i], f) <= Distance(a[j], f)}
<1>1. \A i \in S : Distance(a[i], f) \in Nat
  <2> SUFFICES ASSUME NEW i \in S PROVE Distance(a[i], f) \in Nat
    OBVIOUS
  <2>1. Size(a[i]) \in Nat
    BY ArchiveEntries
  <2> QED BY <2>1 DEF Distance
<1>2. \E d \in distances : \A e \in distances : d <= e
  <2>1. distances \subseteq Nat /\ distances # {}
    BY <1>1
  <2> HIDE DEF distances
  <2> QED BY <2>1, LeastNumber
<1>3. best # {}
  <2>1. PICK i \in S : \A e \in distances : Distance(a[i], f) <= e
    BY <1>2
  <2>2. \A j \in S : Distance(a[j], f) \in distances
    OBVIOUS
  <2>3. i \in best
    BY <2>1, <2>2, Zenon
  <2> QED BY <2>3
<1>4. best \subseteq Nat /\ IsFiniteSet(best)
  <2>1. IsFiniteSet(DOMAIN a) /\ DOMAIN a \subseteq Nat /\ best \in SUBSET DOMAIN a
    BY ArchiveEntries
  <2> QED BY <2>1, FS_Subset
<1>5. Max(best) \in best
  <2> HIDE DEF best
  <2> QED BY <1>3, <1>4, MaxExists
<1> QED BY <1>5 DEF Nearest

\* A source is a regular file that is not empty, of one that is, and a file
\* with the same contents, if there is one.
LEMMA SourceOfFile ==
    ASSUME NEW a \in Archives, NEW f, Size(f) \in Nat, SourceOf(a, f) # 0
    PROVE  /\ SourceOf(a, f) \in TarFiles(a) /\ UseTarFile(f)
           /\ Exact(a, f) # {} => SourceOf(a, f) \in Exact(a, f)
<1> DEFINE prefs == Preferences(a, f)
           found == {k \in DOMAIN prefs : prefs[k] # {}}
<1>1. UseTarFile(f) /\ found # {} /\ SourceOf(a, f) = Nearest(a, f, prefs[Min(found)])
  BY DEF SourceOf
<1>2. DOMAIN prefs = 1 .. 4 /\ \A k \in 1 .. 4 : prefs[k] \subseteq TarFiles(a)
  <2>1. /\ Present(a) \subseteq TarFiles(a)
        /\ Exact(a, f) \subseteq TarFiles(a)
    BY DEF Exact, Present
  <2> DEFINE same    == {i \in Present(a)  : a[i].path = f.path /\ CanDelta(f, a[i])}
             alike   == {i \in TarFiles(a) : NameIsSimilar(f, a[i], FALSE) /\ CanDelta(f, a[i])}
             fuzzy   == {i \in TarFiles(a) : NameIsSimilar(f, a[i], TRUE) /\ CanDelta(f, a[i])}
  <2>2. same \subseteq Present(a) /\ alike \subseteq TarFiles(a) /\ fuzzy \subseteq TarFiles(a)
    OBVIOUS
  <2>3. prefs = <<Exact(a, f), same, alike, fuzzy>>
    BY Zenon DEF Preferences
  <2> HIDE DEF same, alike, fuzzy, prefs
  <2>4. /\ DOMAIN prefs = 1 .. 4 /\ prefs[1] = Exact(a, f)
        /\ prefs[2] \subseteq Present(a)
        /\ prefs[3] \subseteq TarFiles(a) /\ prefs[4] \subseteq TarFiles(a)
    BY <2>2, <2>3
  <2>5. \A k \in 1 .. 4 : k = 1 \/ k = 2 \/ k = 3 \/ k = 4
    OBVIOUS
  <2> QED BY <2>1, <2>4, <2>5
<1>3. Min(found) \in found /\ \A k \in found : Min(found) <= k
  <2>1. found \subseteq Nat
    BY <1>2
  <2> HIDE DEF found
  <2> QED BY <1>1, <2>1, MinExists
<1>4. Nearest(a, f, prefs[Min(found)]) \in prefs[Min(found)]
  <2>1. prefs[Min(found)] # {} /\ prefs[Min(found)] \subseteq TarFiles(a)
    BY <1>2, <1>3
  <2>2. TarFiles(a) \subseteq DOMAIN a
    BY DEF TarFiles
  <2> HIDE DEF found, prefs
  <2> QED BY <2>1, <2>2, NearestIsOne
<1>5. ASSUME Exact(a, f) # {} PROVE Min(found) = 1
  <2>1. 1 \in found
    <3>1. prefs[1] = Exact(a, f)
      BY DEF Preferences
    <3> HIDE DEF prefs
    <3> QED BY <1>2, <1>5, <3>1
  <2>2. Min(found) \in 1 .. 4 /\ Min(found) <= 1
    BY <1>2, <1>3, <2>1
  <2> QED BY <2>2
<1>6. prefs[1] = Exact(a, f)
  BY DEF Preferences
<1> HIDE DEF prefs, found
<1>7. Min(found) \in 1 .. 4
  BY <1>2, <1>3 DEF found
<1> QED BY <1>1, <1>2, <1>4, <1>5, <1>6, <1>7

(***************************************************************************)
(* Chunks of a file                                                        *)
(***************************************************************************)

\* A chunk lies within its file and is not empty.
LEMMA BlobBounds ==
    ASSUME NEW data \in Bytes, NEW t \in Blobs(data)
    PROVE  /\ t.offset \in Nat /\ t.size \in Nat \ {0}
           /\ t.offset + t.size <= Len(data)
<1>1. PICK b \in ({0} \cup Ends(data)) \ {Len(data)} :
        t = [offset |-> b, size |-> Min({e \in Ends(data) : e > b}) - b]
  BY DEF Blobs
<1>2. Len(data) \in Nat /\ Ends(data) \subseteq 0 .. Len(data) /\ Len(data) \in Ends(data)
  <2>1. Len(data) \in Nat /\ DOMAIN data = 1 .. Len(data)
    BY LenProperties DEF Bytes
  <2>2. /\ Ends(data) \subseteq DOMAIN data \cup {Len(data)}
        /\ Len(data) \in Ends(data)
    BY DEF Ends
  <2> DEFINE n == Len(data)
  <2>3. n \in Nat /\ DOMAIN data = 1 .. n
    BY <2>1
  <2> HIDE DEF n
  <2>4. DOMAIN data \subseteq 0 .. n /\ n \in 0 .. n
    BY <2>3
  <2> USE DEF n
  <2> QED BY <2>1, <2>2, <2>4
<1> DEFINE later == {e \in Ends(data) : e > b}
<1>3. b \in Nat /\ b < Len(data)
  BY <1>2
<1>4. Min(later) \in later
  <2>1. later \subseteq Nat /\ later # {}
    BY <1>2, <1>3
  <2> HIDE DEF later
  <2> QED BY <2>1, MinExists
<1> DEFINE e == Min(later)
<1>5. e \in 0 .. Len(data) /\ e > b
  BY <1>2, <1>4
<1>6. t.offset = b /\ t.size = e - b
  BY <1>1
<1> HIDE DEF e
<1> QED BY <1>2, <1>3, <1>5, <1>6

\* The first of some chunks is one of them.
LEMMA FirstIsOne ==
    ASSUME NEW data \in Bytes, NEW blobs, blobs \subseteq Blobs(data), blobs # {}
    PROVE  First(blobs) \in blobs
<1> DEFINE offsets == {b.offset : b \in blobs}
<1>1. offsets \subseteq Nat /\ offsets # {}
  BY BlobBounds
<1>2. \E o \in offsets : \A p \in offsets : o <= p
  <2> HIDE DEF offsets
  <2> QED BY <1>1, LeastNumber
<1>3. PICK b \in blobs : \A p \in offsets : b.offset <= p
  BY <1>2
<1>4. \A c \in blobs : b.offset <= c.offset
  BY <1>3
<1> QED BY <1>4, Zenon DEF First

(***************************************************************************)
(* The delta writer                                                        *)
(***************************************************************************)

Ops ==
    [op : {"data", "add"}, data : Stream] \cup [op : {"open"}, file : Paths]
    \cup [op : {"seek"}, pos : Nat] \cup [op : {"copy"}, size : Nat]

\* Its buffer never holds a whole chunk between two calls.
Writers ==
    {w \in [buffer : Stream, file : Paths, pos : Nat, ops : Seq(Ops)] :
        Len(w.buffer) < ChunkSize}

\* An operation that is written after the buffer, and what it does to the cursor.
Told(w, op, file, pos) ==
    [buffer |-> <<>>, file |-> file, pos |-> pos, ops |-> Append(FlushBuffer(w).ops, op)]

\* Flushing empties the buffer and leaves the cursor alone.
LEMMA Flushing ==
    ASSUME NEW w \in [buffer : Stream, file : Paths, pos : Nat, ops : Seq(Ops)]
    PROVE  /\ FlushBuffer(w) \in Writers
           /\ FlushBuffer(w).buffer = <<>>
           /\ FlushBuffer(w).file = w.file /\ FlushBuffer(w).pos = w.pos
           /\ FlushBuffer(w) =
                [w EXCEPT !.buffer = <<>>,
                          !.ops = IF w.buffer = <<>> THEN w.ops
                                  ELSE Append(w.ops, [op |-> "data", data |-> w.buffer])]
<1> DEFINE op == [op |-> "data", data |-> w.buffer]
<1>1. op \in Ops
  BY DEF Ops
<1> HIDE DEF op
<1>2. Append(w.ops, op) \in Seq(Ops)
  BY <1>1, AppendProperties
<1>3. <<>> \in Stream /\ Len(<<>>) < ChunkSize
  BY BytesStream, TarDeltaAssumption
<1>4. CASE w.buffer = <<>>
  <2>1. FlushBuffer(w) = w
    BY <1>4 DEF FlushBuffer
  <2>2. w = [w EXCEPT !.buffer = <<>>, !.ops = w.ops]
    BY <1>4
  <2> QED BY <1>3, <1>4, <2>1, <2>2 DEF Writers
<1>5. CASE w.buffer # <<>>
  <2>1. FlushBuffer(w) = [w EXCEPT !.buffer = <<>>, !.ops = Append(w.ops, op)]
    BY <1>5 DEF FlushBuffer, Write, op
  <2>2. FlushBuffer(w) \in [buffer : Stream, file : Paths, pos : Nat, ops : Seq(Ops)]
    BY <1>2, <1>3, <2>1
  <2> QED BY <1>3, <1>5, <2>1, <2>2 DEF Writers, op
<1> QED BY <1>4, <1>5

\* Literal bytes are collected until there are enough.
LEMMA Collecting ==
    ASSUME NEW w \in Writers, NEW data \in Stream
    PROVE  /\ WriteContent(w, data) \in Writers
           /\ [w EXCEPT !.buffer = @ \o data]
                  \in [buffer : Stream, file : Paths, pos : Nat, ops : Seq(Ops)]
           /\ \/ WriteContent(w, data) = [w EXCEPT !.buffer = @ \o data]
              \/ WriteContent(w, data) = FlushBuffer([w EXCEPT !.buffer = @ \o data])
<1> DEFINE v == [w EXCEPT !.buffer = @ \o data]
<1>1. w.buffer \o data \in Stream /\ Len(w.buffer \o data) \in Nat
  <2>1. w.buffer \in Stream
    BY DEF Writers
  <2>2. w.buffer \o data \in Stream
    BY <2>1, BytesStream
  <2> QED BY <2>2, LenProperties DEF Stream
<1>2. /\ v \in [buffer : Stream, file : Paths, pos : Nat, ops : Seq(Ops)]
      /\ v.buffer = w.buffer \o data
  BY <1>1 DEF Writers
<1>3. FlushBuffer(v) \in Writers
  BY <1>2, Flushing
<1>4. WriteContent(w, data) = IF Len(v.buffer) >= ChunkSize THEN FlushBuffer(v) ELSE v
  BY DEF WriteContent
<1>5. ~(Len(v.buffer) >= ChunkSize) => Len(v.buffer) < ChunkSize
  BY <1>1, <1>2, TarDeltaAssumption
<1> HIDE DEF v
<1>6. WriteContent(w, data) \in Writers /\ WriteContent(w, data) \in {v, FlushBuffer(v)}
  BY <1>2, <1>3, <1>4, <1>5 DEF Writers
<1> QED BY <1>2, <1>6 DEF v

\* Whatever is told comes after the buffer.
LEMMA Telling ==
    ASSUME NEW w \in Writers, NEW op \in Ops, NEW file \in Paths, NEW pos \in Nat
    PROVE  Told(w, op, file, pos) \in Writers
<1>1. FlushBuffer(w).ops \in Seq(Ops)
  BY Flushing DEF Writers
<1>2. Append(FlushBuffer(w).ops, op) \in Seq(Ops)
  BY <1>1, AppendProperties
<1>3. <<>> \in Stream /\ Len(<<>>) < ChunkSize
  BY BytesStream, TarDeltaAssumption
<1> QED BY <1>2, <1>3 DEF Told, Writers

\* What each of the writer's methods tells the patcher, if anything.
LEMMA Tells ==
    ASSUME NEW w \in Writers
    PROVE  /\ \A path : w.file # path =>
                  SetCurrentFile(w, path) = Told(w, [op |-> "open", file |-> path], path, 0)
           /\ \A pos : w.pos # pos =>
                  Seek(w, pos) = Told(w, [op |-> "seek", pos |-> pos], w.file, pos)
           /\ \A n : SeekForward(w, n) =
                  Told(w, [op |-> "seek", pos |-> w.pos + n], w.file, w.pos + n)
           /\ \A n : CopyFile(w, n) =
                  Told(w, [op |-> "copy", size |-> n], w.file, w.pos + n)
           /\ \A data : WriteAddContent(w, data) =
                  Told(w, [op |-> "add", data |-> data], w.file, w.pos + Len(data))
<1> DEFINE v == FlushBuffer(w)
           o == v.ops
           Said(op) == [buffer |-> <<>>, file |-> w.file, pos |-> w.pos, ops |-> Append(o, op)]
<1>1. v \in [buffer : Stream, file : Paths, pos : Nat, ops : Seq(Ops)]
  BY Flushing DEF Writers
<1>2. v = [buffer |-> <<>>, file |-> w.file, pos |-> w.pos, ops |-> o]
  <2>1. v.buffer = <<>> /\ v.file = w.file /\ v.pos = w.pos
    BY Flushing DEF Writers
  <2> HIDE DEF v
  <2> QED BY <1>1, <2>1
<1> HIDE DEF v, o
<1>3. \A op : Write(v, op) = Said(op)
  <2> SUFFICES ASSUME NEW op PROVE [v EXCEPT !.ops = Append(@, op)] = Said(op)
    BY DEF Write
  <2>1. /\ v = [buffer |-> <<>>, file |-> w.file, pos |-> w.pos, ops |-> o]
        /\ v.ops = o
    BY <1>2
  <2> DEFINE p == Append(o, op)
  <2>2. [v EXCEPT !.ops = Append(@, op)] = [v EXCEPT !.ops = p]
    BY <2>1
  <2> HIDE DEF p
  <2>3. [v EXCEPT !.ops = p] = [buffer |-> <<>>, file |-> w.file, pos |-> w.pos, ops |-> p]
    BY <2>1
  <2> QED BY <2>2, <2>3 DEF p
<1>4. \A path : w.file # path =>
          SetCurrentFile(w, path) = Told(w, [op |-> "open", file |-> path], path, 0)
  <2> SUFFICES ASSUME NEW path, w.file # path
               PROVE  SetCurrentFile(w, path) = Told(w, [op |-> "open", file |-> path], path, 0)
    OBVIOUS
  <2>1. SetCurrentFile(w, path) = [Said([op |-> "open", file |-> path])
                                      EXCEPT !.file = path, !.pos = 0]
    BY <1>3 DEF SetCurrentFile, v
  <2> QED BY <2>1 DEF Told, v, o
<1>5. \A pos : w.pos # pos =>
          Seek(w, pos) = Told(w, [op |-> "seek", pos |-> pos], w.file, pos)
  <2> SUFFICES ASSUME NEW pos, w.pos # pos
               PROVE  Seek(w, pos) = Told(w, [op |-> "seek", pos |-> pos], w.file, pos)
    OBVIOUS
  <2>1. Seek(w, pos) = [Said([op |-> "seek", pos |-> pos]) EXCEPT !.pos = pos]
    BY <1>3 DEF Seek, v
  <2> QED BY <2>1 DEF Told, v, o
<1>6. ASSUME NEW op, NEW n
      PROVE  [Write(v, op) EXCEPT !.pos = @ + n] = Told(w, op, w.file, w.pos + n)
  <2>1. Write(v, op) = Said(op) /\ Said(op).pos = w.pos
    BY <1>3
  <2>2. [Said(op) EXCEPT !.pos = @ + n] = [Said(op) EXCEPT !.pos = w.pos + n]
    OBVIOUS
  <2>3. [Said(op) EXCEPT !.pos = w.pos + n] = Told(w, op, w.file, w.pos + n)
    <3> DEFINE p == Append(o, op)
               m == w.pos + n
    <3>1. Told(w, op, w.file, m) = [buffer |-> <<>>, file |-> w.file, pos |-> m, ops |-> p]
      BY DEF Told, v, o
    <3> HIDE DEF p, m
    <3>2. [[buffer |-> <<>>, file |-> w.file, pos |-> w.pos, ops |-> p] EXCEPT !.pos = m]
            = [buffer |-> <<>>, file |-> w.file, pos |-> m, ops |-> p]
      OBVIOUS
    <3> QED BY <3>1, <3>2 DEF p, m
  <2> HIDE DEF Said
  <2> QED BY <2>1, <2>2, <2>3
<1>7. \A n : /\ SeekForward(w, n) =
                  Told(w, [op |-> "seek", pos |-> w.pos + n], w.file, w.pos + n)
             /\ CopyFile(w, n) =
                  Told(w, [op |-> "copy", size |-> n], w.file, w.pos + n)
  BY <1>6 DEF SeekForward, CopyFile, v
<1>8. \A data : WriteAddContent(w, data) =
          Told(w, [op |-> "add", data |-> data], w.file, w.pos + Len(data))
  BY <1>6 DEF WriteAddContent, v
<1> QED BY <1>4, <1>5, <1>7, <1>8

(***************************************************************************)
(* Typing                                                                  *)
(***************************************************************************)

InFile   == {"file", "bsdiff", "rollsums"}
Patching == {"patch", "patched", "failed"}

Longest == Max({0} \cup {Len(new[i].data) : i \in DOMAIN new})

Typed ==
    /\ TypeOK
    /\ writer \in Writers
    /\ patch \in [next : Nat, file : Paths, pos : Nat, out : Stream]
    /\ phase \notin Patching => patch.next = 1
    /\ phase \in InFile => at \in DOMAIN new /\ scan <= Size(File)
    /\ phase \in {"bsdiff", "rollsums"} => HasSource
    /\ phase = "bsdiff" => CanReadSourceData(0, Size(SourceFile))

\* The archives that are chosen.
LEMMA ChosenPair == \A pair \in Pairs : pair[1] \in Archives /\ pair[2] \in Archives
BY ArchiveAssumption

\* The longest file of the new archive.
LEMMA LongestBounds ==
    ASSUME new \in Archives
    PROVE  Longest \in Nat /\ \A i \in DOMAIN new : Size(new[i]) <= Longest
<1> DEFINE sizes == {Size(new[i]) : i \in DOMAIN new}
<1>1. \A i \in DOMAIN new : Size(new[i]) \in Nat
  BY ArchiveEntries
<1>2. IsFiniteSet(sizes)
  <2> DEFINE f == [i \in DOMAIN new |-> Size(new[i])]
  <2>1. f \in Surjection(DOMAIN new, sizes)
    BY DEF Surjection
  <2>2. IsFiniteSet(DOMAIN new)
    BY ArchiveEntries
  <2> HIDE DEF f, sizes
  <2> QED BY <2>1, <2>2, FS_Surjection
<1>3. sizes \subseteq Nat
  BY <1>1
<1>4. Longest = Max({0} \cup sizes)
  BY DEF Longest, Size
<1>5. Longest \in {0} \cup sizes /\ \A n \in {0} \cup sizes : n <= Longest
  <2> HIDE DEF sizes
  <2>1. IsFiniteSet({0} \cup sizes)
    BY <1>2, FS_Singleton, FS_Union
  <2> DEFINE all == {0} \cup sizes
  <2>2. IsFiniteSet(all) /\ all \subseteq Nat /\ all # {}
    BY <1>3, <2>1
  <2> HIDE DEF all
  <2>3. Max(all) \in all /\ \A n \in all : n <= Max(all)
    BY <2>2, MaxExists
  <2> QED BY <1>4, <2>3 DEF all
<1> QED BY <1>3, <1>5

\* What the walk over the new archive must keep for the types.
LEMMA WalkTyped ==
    ASSUME Typed, phase \notin Patching, Continue,
           writer' \in Writers,
           phase' \in {"next", "patch", "failed"} \cup InFile,
           at' \in 0 .. Len(new),
           scan' = scan \/ (at' \in DOMAIN new /\ scan' \in 0 .. Size(new[at'])),
           phase' \in InFile => at' \in DOMAIN new /\ scan' \in 0 .. Size(new[at']),
           phase' \in {"bsdiff", "rollsums"} => source[at'] # 0,
           phase' = "bsdiff" => at' = at /\ CanReadSourceData(0, Size(SourceFile))
    PROVE  Typed'
<1>1. /\ old \in Archives /\ new \in Archives
      /\ UNCHANGED <<old, new, source, offset, sourceData, patch>>
  BY ChosenPair DEF Typed, TypeOK, Continue, archives, analysis
<1>2. at' \in DOMAIN new => \A n \in 0 .. Size(new[at']) : n \in 0 .. Longest
  <2>1. \A i \in DOMAIN new : Size(new[i]) \in Nat /\ Size(new[i]) <= Longest /\ Longest \in Nat
    BY <1>1, LongestBounds, ArchiveEntries
  <2> QED BY <2>1
<1>3. scan' \in 0 .. Longest
  BY <1>2 DEF Typed, TypeOK, Longest
<1>4. writer'.buffer \in Stream /\ Len(writer'.buffer) < ChunkSize /\ writer'.pos \in Nat
      /\ Len(writer'.ops) \in Nat
  BY LenProperties DEF Writers
<1>5. patch'.next = 1 /\ 1 \in 1 .. (Len(writer'.ops) + 1)
  BY <1>1, <1>4 DEF Typed
<1>6. TypeOK'
  <2>1. phase' \in {"analyze", "next", "file", "bsdiff", "rollsums", "patch", "patched", "failed"}
    BY DEF InFile
  <2>2. scan' \in 0 .. Max({0} \cup {Len(new[i].data) : i \in DOMAIN new})'
    BY <1>1, <1>3 DEF Longest
  <2> QED BY <1>1, <1>4, <1>5, <2>1, <2>2 DEF Typed, TypeOK
<1>7. phase' \in InFile => at' \in DOMAIN new' /\ scan' <= Size(File)'
  <2>1. at' \in DOMAIN new => Size(new[at']) \in Nat
    BY <1>1, ArchiveEntries
  <2> QED BY <1>1, <2>1 DEF File, Size
<1>8. phase' \in {"bsdiff", "rollsums"} => HasSource'
  BY <1>1 DEF HasSource
<1>9. phase' = "bsdiff" => CanReadSourceData(0, Size(SourceFile))'
  BY <1>1 DEF CanReadSourceData, Start, SourceFile, Size
<1>10. /\ patch' \in [next : Nat, file : Paths, pos : Nat, out : Stream]
       /\ phase' \notin Patching => patch'.next = 1
  BY <1>1, <1>5 DEF Typed
<1> QED BY <1>6, <1>7, <1>8, <1>9, <1>10 DEF Typed

Used == UsedForDelta(old, new) \cap Present(old)
Kept == [i \in DOMAIN old |-> IF i \in Used THEN old[i].data ELSE <<>>]

\* Where the data of a file begins, and what is found there.
LEMMA KeptData ==
    ASSUME old \in Archives
    PROVE  /\ FlattenSeq(Kept) \in Bytes
           /\ \A i \in DOMAIN old :
                 LET before == Len(FlattenSeq(SubSeq(Kept, 1, i - 1)))
                 IN  /\ before \in 0 .. Len(FlattenSeq(Kept))
                     /\ i \in Used =>
                           /\ before + Size(old[i]) <= Len(FlattenSeq(Kept))
                           /\ \A j \in 1 .. Size(old[i]) :
                                 FlattenSeq(Kept)[before + j] = old[i].data[j]
<1>1. Kept \in Seq(Bytes) /\ Len(Kept) = Len(old) /\ DOMAIN Kept = DOMAIN old
      /\ DOMAIN old = 1 .. Len(old)
  <2>1. DOMAIN old = 1 .. Len(old) /\ Len(old) \in Nat
    BY ArchiveEntries
  <2>2. \A i \in DOMAIN old : old[i].data \in Bytes /\ <<>> \in Bytes
    BY ArchiveEntries, EmptySeq DEF Bytes
  <2>3. Kept \in [1 .. Len(old) -> Bytes]
    BY <2>1, <2>2 DEF Kept
  <2>4. Kept \in Seq(Bytes)
    BY <2>1, <2>3
  <2> QED BY <2>1, <2>3, <2>4
<1>2. Kept \in Seq(Seq(0 .. (Base - 1)))
  BY <1>1 DEF Bytes
<1>3. FlattenSeq(Kept) \in Bytes
  BY <1>2, FlattenAll DEF Bytes
<1>4. ASSUME NEW i \in DOMAIN old
      PROVE  LET before == Len(FlattenSeq(SubSeq(Kept, 1, i - 1)))
             IN  /\ before \in 0 .. Len(FlattenSeq(Kept))
                 /\ i \in Used =>
                       /\ before + Size(old[i]) <= Len(FlattenSeq(Kept))
                       /\ \A j \in 1 .. Size(old[i]) :
                             FlattenSeq(Kept)[before + j] = old[i].data[j]
  <2> DEFINE before == Len(FlattenSeq(SubSeq(Kept, 1, i - 1)))
             all == FlattenSeq(Kept)
  <2>1. /\ before \in Nat /\ before + Len(Kept[i]) <= Len(all)
        /\ \A j \in 1 .. Len(Kept[i]) : all[before + j] = Kept[i][j]
    <3>1. i \in 1 .. Len(Kept)
      BY <1>1
    <3> QED BY <1>2, <3>1, FlattenPlace
  <2>2. Len(Kept[i]) \in Nat /\ Len(all) \in Nat
    <3>1. Kept[i] \in Bytes
      BY <1>1, ElementOfSeq
    <3> QED BY <1>3, <3>1, LenProperties DEF Bytes
  <2>3. i \in Used => Kept[i] = old[i].data
    BY DEF Kept
  <2> HIDE DEF before, all
  <2>4. before \in 0 .. Len(all)
    BY <2>1, <2>2
  <2> QED BY <2>1, <2>3, <2>4 DEF Size, before, all
<1> QED BY <1>3, <1>4

\* The analysis of any two archives.
LEMMA AnalyzeTyped == ASSUME Typed, Analyze PROVE Typed'
<1>1. /\ old \in Archives /\ new \in Archives /\ phase = "analyze"
      /\ phase' = "next" /\ UNCHANGED <<old, new, at, scan, writer, patch>>
  BY ChosenPair DEF Typed, TypeOK, Analyze, archives
<1>2. source' \in [DOMAIN new -> 0 .. Len(old)]
  <2> SUFFICES ASSUME NEW k \in DOMAIN new PROVE SourceOf(old, new[k]) \in 0 .. Len(old)
    BY DEF Analyze
  <2>1. Size(new[k]) \in Nat /\ DOMAIN old = 1 .. Len(old) /\ Len(old) \in Nat
    BY <1>1, ArchiveEntries
  <2>2. SourceOf(old, new[k]) = 0 \/ SourceOf(old, new[k]) \in DOMAIN old
    BY <1>1, <2>1, SourceOfFile DEF TarFiles
  <2> QED BY <2>1, <2>2
<1>3. /\ sourceData' = FlattenSeq(Kept)
      /\ offset' = [i \in DOMAIN old |->
                      IF i \in Used THEN Len(FlattenSeq(SubSeq(Kept, 1, i - 1))) ELSE 0]
  BY DEF Analyze, Kept, Used
<1>4. sourceData' \in Bytes /\ Len(sourceData') \in Nat
  BY <1>1, <1>3, KeptData, LenProperties DEF Bytes
<1>5. offset' \in [DOMAIN old -> 0 .. Len(sourceData')]
  <2>1. \A i \in DOMAIN old : Len(FlattenSeq(SubSeq(Kept, 1, i - 1))) \in 0 .. Len(sourceData')
    BY <1>1, <1>3, KeptData
  <2>2. 0 \in 0 .. Len(sourceData')
    BY <1>4
  <2> QED BY <1>3, <2>1, <2>2
<1> QED BY <1>1, <1>2, <1>4, <1>5 DEF Typed, TypeOK, Patching, InFile

\* The methods of the writer, and where they leave its cursor.
LEMMA Methods ==
    ASSUME NEW w \in Writers
    PROVE  /\ w.file \in Paths /\ w.pos \in Nat
           /\ \A data \in Stream : /\ WriteContent(w, data) \in Writers
                                   /\ WriteContent(w, data).file = w.file
                                   /\ WriteContent(w, data).pos = w.pos
           /\ \A path \in Paths : /\ SetCurrentFile(w, path) \in Writers
                                  /\ SetCurrentFile(w, path).file = path
           /\ \A pos \in Nat : /\ Seek(w, pos) \in Writers
                               /\ Seek(w, pos).file = w.file
                               /\ Seek(w, pos).pos = pos
           /\ \A n \in Int : w.pos + n \in Nat => /\ SeekForward(w, n) \in Writers
                                                  /\ SeekForward(w, n).file = w.file
                                                  /\ SeekForward(w, n).pos = w.pos + n
           /\ \A n \in Nat : /\ CopyFile(w, n) \in Writers
                             /\ CopyFile(w, n).file = w.file
                             /\ CopyFile(w, n).pos = w.pos + n
           /\ \A data \in Stream : /\ WriteAddContent(w, data) \in Writers
                                   /\ WriteAddContent(w, data).file = w.file
                                   /\ WriteAddContent(w, data).pos = w.pos + Len(data)
<1>1. w.file \in Paths /\ w.pos \in Nat
  BY DEF Writers
<1>2. ASSUME NEW data \in Stream
      PROVE  /\ WriteContent(w, data) \in Writers
             /\ WriteContent(w, data).file = w.file
             /\ WriteContent(w, data).pos = w.pos
  <2> DEFINE v == [w EXCEPT !.buffer = @ \o data]
  <2>1. v.file = w.file /\ v.pos = w.pos
    BY DEF Writers
  <2>2. /\ WriteContent(w, data) \in Writers
        /\ v \in [buffer : Stream, file : Paths, pos : Nat, ops : Seq(Ops)]
        /\ WriteContent(w, data) = v \/ WriteContent(w, data) = FlushBuffer(v)
    BY Collecting
  <2> HIDE DEF v
  <2>3. FlushBuffer(v).file = v.file /\ FlushBuffer(v).pos = v.pos
    BY <2>2, Flushing
  <2> QED BY <2>1, <2>2, <2>3
<1>3. ASSUME NEW op \in Ops, NEW file \in Paths, NEW pos \in Nat
      PROVE  /\ Told(w, op, file, pos) \in Writers
             /\ Told(w, op, file, pos).file = file /\ Told(w, op, file, pos).pos = pos
  BY Telling DEF Told
<1>4. /\ \A path \in Paths : [op |-> "open", file |-> path] \in Ops
      /\ \A pos \in Nat : [op |-> "seek", pos |-> pos] \in Ops
      /\ \A n \in Nat : [op |-> "copy", size |-> n] \in Ops
      /\ \A data \in Stream : [op |-> "add", data |-> data] \in Ops
  BY DEF Ops
<1>5. \A path \in Paths : SetCurrentFile(w, path) \in Writers /\ SetCurrentFile(w, path).file = path
  <2> SUFFICES ASSUME NEW path \in Paths
               PROVE  /\ SetCurrentFile(w, path) \in Writers
                      /\ SetCurrentFile(w, path).file = path
    OBVIOUS
  <2>1. CASE w.file = path
    BY <2>1 DEF SetCurrentFile
  <2>2. CASE w.file # path
    <3>1. SetCurrentFile(w, path) = Told(w, [op |-> "open", file |-> path], path, 0)
      BY <2>2, Tells
    <3> QED BY <1>3, <1>4, <3>1
  <2> QED BY <2>1, <2>2
<1>6. ASSUME NEW pos \in Nat
      PROVE  Seek(w, pos) \in Writers /\ Seek(w, pos).file = w.file /\ Seek(w, pos).pos = pos
  <2>1. CASE w.pos = pos
    BY <2>1 DEF Seek
  <2>2. CASE w.pos # pos
    <3>1. Seek(w, pos) = Told(w, [op |-> "seek", pos |-> pos], w.file, pos)
      BY <2>2, Tells
    <3> QED BY <1>1, <1>3, <1>4, <3>1
  <2> QED BY <2>1, <2>2
<1>7. ASSUME NEW n \in Int, w.pos + n \in Nat
      PROVE  /\ SeekForward(w, n) \in Writers
             /\ SeekForward(w, n).file = w.file /\ SeekForward(w, n).pos = w.pos + n
  <2>1. SeekForward(w, n) = Told(w, [op |-> "seek", pos |-> w.pos + n], w.file, w.pos + n)
    BY Tells
  <2> QED BY <1>1, <1>3, <1>4, <1>7, <2>1
<1>8. ASSUME NEW n \in Nat
      PROVE  /\ CopyFile(w, n) \in Writers
             /\ CopyFile(w, n).file = w.file /\ CopyFile(w, n).pos = w.pos + n
  <2>1. CopyFile(w, n) = Told(w, [op |-> "copy", size |-> n], w.file, w.pos + n)
    BY Tells
  <2>2. w.pos + n \in Nat
    BY <1>1
  <2> QED BY <1>1, <1>3, <1>4, <2>1, <2>2
<1>9. ASSUME NEW data \in Stream
      PROVE  /\ WriteAddContent(w, data) \in Writers
             /\ WriteAddContent(w, data).file = w.file
             /\ WriteAddContent(w, data).pos = w.pos + Len(data)
  <2>1. WriteAddContent(w, data) = Told(w, [op |-> "add", data |-> data], w.file, w.pos + Len(data))
    BY Tells
  <2>2. w.pos + Len(data) \in Nat
    BY <1>1, LenProperties DEF Stream
  <2> QED BY <1>1, <1>3, <1>4, <2>1, <2>2
<1> QED BY <1>1, <1>2, <1>5, <1>6, <1>7, <1>8, <1>9

\* The file that is read and the one it is made from.
LEMMA FileTyped ==
    ASSUME Typed, phase \in InFile
    PROVE  /\ old \in Archives /\ new \in Archives /\ at \in DOMAIN new
           /\ File.data \in Bytes /\ Size(File) = Len(File.data)
           /\ Size(File) \in Nat /\ scan \in 0 .. Size(File)
           /\ HasSource => /\ source[at] \in DOMAIN old
                           /\ SourceFile.path \in Paths /\ SourceFile.data \in Bytes
                           /\ Size(SourceFile) = Len(SourceFile.data)
                           /\ Size(SourceFile) \in Nat
                           /\ Start \in 0 .. Len(sourceData)
                           /\ sourceData \in Bytes /\ Len(sourceData) \in Nat
<1>1. /\ old \in Archives /\ new \in Archives /\ at \in DOMAIN new
      /\ scan \in 0 .. Longest /\ scan <= Size(File)
      /\ source \in [DOMAIN new -> 0 .. Len(old)]
      /\ offset \in [DOMAIN old -> 0 .. Len(sourceData)]
      /\ sourceData \in Bytes
  BY ChosenPair DEF Typed, TypeOK, Longest
<1>2. File.data \in Bytes /\ Size(File) \in Nat /\ Size(File) = Len(File.data)
  BY <1>1, ArchiveEntries DEF File, Size
<1>3. scan \in 0 .. Size(File)
  BY <1>1, <1>2
<1>4. Len(sourceData) \in Nat
  BY <1>1, LenProperties DEF Bytes
<1>5. ASSUME HasSource
      PROVE  /\ source[at] \in DOMAIN old
             /\ SourceFile.path \in Paths /\ SourceFile.data \in Bytes
             /\ Size(SourceFile) = Len(SourceFile.data)
             /\ Size(SourceFile) \in Nat
             /\ Start \in 0 .. Len(sourceData)
  <2>1. source[at] \in DOMAIN old
    <3>1. DOMAIN old = 1 .. Len(old) /\ Len(old) \in Nat
      BY <1>1, ArchiveEntries
    <3>2. source[at] \in 0 .. Len(old) /\ source[at] # 0
      BY <1>1, <1>5 DEF HasSource
    <3> QED BY <3>1, <3>2
  <2> QED BY <1>1, <2>1, ArchiveEntries DEF SourceFile, Start, Size
<1> QED BY <1>1, <1>2, <1>3, <1>4, <1>5

\* What is read of the stored data is what is asked for, if it is there.
LEMMA SourceData ==
    ASSUME sourceData \in Bytes, Start \in Nat, NEW pos \in Nat, NEW n \in Nat,
           CanReadSourceData(pos, n)
    PROVE  /\ ReadSourceData(pos, n) \in Bytes /\ Len(ReadSourceData(pos, n)) = n
           /\ \A i \in 1 .. n : ReadSourceData(pos, n)[i] = sourceData[Start + pos + i]
<1> DEFINE m == Start + pos
<1>1. Len(sourceData) \in Nat
  BY LenProperties DEF Bytes
<1>2. m \in Nat /\ m + n \in m .. Len(sourceData) /\ (m + n) - m = n
  BY <1>1 DEF CanReadSourceData
<1>3. ReadSourceData(pos, n) = SubSeq(sourceData, m + 1, m + n)
  BY DEF ReadSourceData
<1> HIDE DEF m
<1>4. /\ SubSeq(sourceData, m + 1, m + n) \in Bytes
      /\ Len(SubSeq(sourceData, m + 1, m + n)) = (m + n) - m
      /\ \A i \in 1 .. (m + n) - m : SubSeq(sourceData, m + 1, m + n)[i] = sourceData[m + i]
  BY <1>2, Parts
<1>5. \A i \in 1 .. n : SubSeq(sourceData, m + 1, m + n)[i] = sourceData[m + i]
  BY <1>2, <1>4
<1> QED BY <1>2, <1>3, <1>4, <1>5 DEF m

\* One round of bsdiff: what is compared, and what is written.
DB(n, oldbin, lastpos) ==
    [i \in 1..n |-> (File.data[scan + i] - oldbin[lastpos + i]) % Base]

Round(n, next, pos) ==
    LET oldbin  == ReadSourceData(0, Size(SourceFile))
        lastpos == writer.pos
        eb      == SubSeq(File.data, scan + n + 1, next)
    IN  SeekForward(WriteContent(WriteAddContent(writer, DB(n, oldbin, lastpos)), eb),
                    pos - (lastpos + n))

\* The parameters of a round.
LEMMA BsdiffRounds ==
    ASSUME Typed, Bsdiff
    PROVE  /\ phase = "bsdiff" /\ at' = at /\ Continue
           /\ \E n \in 0 .. Size(File) - scan, next \in scan .. Size(File),
                 pos \in 0 .. Size(SourceFile) :
                 /\ writer.pos + n <= Size(SourceFile) /\ scan + n <= next
                 /\ writer' = Round(n, next, pos) /\ scan' = next
                 /\ phase' = IF next = Size(File) THEN "next" ELSE "bsdiff"
<1>1. phase = "bsdiff" /\ HasSource /\ CanReadSourceData(0, Size(SourceFile))
  BY DEF Bsdiff, Typed
<1>2. /\ sourceData \in Bytes /\ Start \in Nat /\ Size(SourceFile) \in Nat
  BY <1>1, FileTyped DEF InFile
<1>3. Len(ReadSourceData(0, Size(SourceFile))) = Size(SourceFile)
  BY <1>1, <1>2, SourceData
<1>4. PICK n \in 0 .. Size(File) - scan, next \in scan .. Size(File),
           pos \in 0 .. Size(SourceFile) :
        /\ writer.pos + n <= Size(SourceFile) /\ scan + n <= next
        /\ writer' = Round(n, next, pos) /\ scan' = next
        /\ phase' = IF next = Size(File) THEN "next" ELSE "bsdiff"
  BY <1>3 DEF Bsdiff, Round, DB
<1> QED BY <1>1, <1>4 DEF Bsdiff

\* The differences between bytes are bytes.
LEMMA Differences ==
    ASSUME NEW data \in Bytes, NEW oldbin \in Bytes, NEW m \in Nat, NEW l \in Nat,
           NEW n \in Nat, m + n <= Len(data), l + n <= Len(oldbin)
    PROVE  /\ [i \in 1..n |-> (data[m + i] - oldbin[l + i]) % Base] \in Stream
           /\ Len([i \in 1..n |-> (data[m + i] - oldbin[l + i]) % Base]) = n
           /\ \A i \in 1 .. n : /\ data[m + i] \in 0 .. (Base - 1)
                                /\ oldbin[l + i] \in 0 .. (Base - 1)
<1>1. /\ Len(data) \in Nat /\ Len(oldbin) \in Nat
      /\ \A i \in 1 .. Len(data) : data[i] \in 0 .. (Base - 1)
      /\ \A i \in 1 .. Len(oldbin) : oldbin[i] \in 0 .. (Base - 1)
  BY ElementOfSeq, LenProperties, Zenon DEF Bytes
<1>2. \A i \in 1 .. n : /\ data[m + i] \in 0 .. (Base - 1)
                        /\ oldbin[l + i] \in 0 .. (Base - 1)
  <2>1. \A i \in 1 .. n : m + i \in 1 .. Len(data) /\ l + i \in 1 .. Len(oldbin)
    BY <1>1
  <2> QED BY <1>1, <2>1
<1>3. \A i \in 1 .. n : (data[m + i] - oldbin[l + i]) % Base \in Nat
  <2>1. \A x \in Int : x % Base \in Nat
    BY TarDeltaAssumption
  <2>2. \A i \in 1 .. n : data[m + i] - oldbin[l + i] \in Int
    BY <1>2, TarDeltaAssumption
  <2> QED BY <2>1, <2>2
<1> DEFINE db == [i \in 1..n |-> (data[m + i] - oldbin[l + i]) % Base]
<1>4. db \in [1 .. n -> Nat]
  BY <1>3
<1> HIDE DEF db
<1>5. db \in Seq(Nat) /\ Len(db) = n
  BY <1>4
<1> QED BY <1>2, <1>5 DEF db, Stream

\* The walk over the new archive.
LEMMA DifferTyped ==
    ASSUME Typed,
           \/ NextHeader \/ ReuseOldFile \/ StartBsdiff \/ Bsdiff \/ StartRollsums
           \/ NextMatch \/ EndRollsums \/ CopyRest \/ EndDelta
    PROVE  Typed'
<1>1. /\ writer \in Writers /\ at \in 0 .. Len(new)
      /\ old \in Archives /\ new \in Archives
  BY ChosenPair DEF Typed, TypeOK
<1>2. DOMAIN new = 1 .. Len(new) /\ Len(new) \in Nat
  BY <1>1, ArchiveEntries
<1> USE DEF InFile, Patching
<1>3. CASE NextHeader
  <2>1. at + 1 \in DOMAIN new /\ at + 1 \in 0 .. Len(new) /\ Header(at + 1) \in Nat
    BY <1>1, <1>2, <1>3, TarDeltaAssumption DEF NextHeader, Header
  <2>2. <<Header(at + 1)>> \in Stream
    BY <2>1 DEF Stream
  <2>3. Size(new[at + 1]) \in Nat
    BY <1>1, <2>1, ArchiveEntries
  <2>4. writer' \in Writers
    BY <1>1, <1>3, <2>2, Methods DEF NextHeader, Steal
  <2> QED BY <1>3, <2>1, <2>3, <2>4, WalkTyped DEF NextHeader
<1>4. CASE ReuseOldFile
  <2>1. SourceFile.path \in Paths /\ Size(SourceFile) \in Nat
    BY <1>4, FileTyped DEF ReuseOldFile, HasCopy
  <2>2. writer' \in Writers
    <3>1. SetCurrentFile(writer, SourceFile.path) \in Writers
      BY <1>1, <2>1, Methods
    <3>2. Seek(SetCurrentFile(writer, SourceFile.path), 0) \in Writers
      BY <3>1, Methods
    <3> QED BY <1>4, <2>1, <3>2, Methods DEF ReuseOldFile, WriteOldFile
  <2> QED BY <1>1, <1>4, <2>2, WalkTyped DEF ReuseOldFile
<1>5. CASE StartBsdiff
  <2>1. SourceFile.path \in Paths /\ at \in DOMAIN new /\ scan \in 0 .. Size(File)
    BY <1>5, FileTyped DEF StartBsdiff
  <2>2. writer' \in Writers
    <3>1. SetCurrentFile(writer, SourceFile.path) \in Writers
      BY <1>1, <2>1, Methods
    <3> QED BY <1>5, <3>1, Methods DEF StartBsdiff
  <2>3. /\ phase' \in {"bsdiff", "failed"} /\ source[at] # 0
        /\ phase' = "bsdiff" => CanReadSourceData(0, Size(SourceFile))
    BY <1>5 DEF StartBsdiff, HasSource
  <2> QED BY <1>1, <1>5, <2>1, <2>2, <2>3, WalkTyped DEF StartBsdiff, File
<1>6. CASE Bsdiff
  <2>1. phase = "bsdiff" /\ HasSource /\ CanReadSourceData(0, Size(SourceFile))
    BY <1>6 DEF Bsdiff, Typed
  <2>2. /\ at \in DOMAIN new /\ File.data \in Bytes /\ Size(File) = Len(File.data)
        /\ Size(File) \in Nat /\ scan \in 0 .. Size(File)
        /\ Size(SourceFile) \in Nat /\ Start \in Nat /\ sourceData \in Bytes
    BY <2>1, FileTyped
  <2>3. PICK n \in 0 .. Size(File) - scan, next \in scan .. Size(File),
             pos \in 0 .. Size(SourceFile) :
          /\ writer.pos + n <= Size(SourceFile) /\ scan + n <= next
          /\ writer' = Round(n, next, pos) /\ scan' = next
          /\ phase' = IF next = Size(File) THEN "next" ELSE "bsdiff"
    BY <1>6, BsdiffRounds
  <2> DEFINE oldbin == ReadSourceData(0, Size(SourceFile))
             db == DB(n, oldbin, writer.pos)
             eb == SubSeq(File.data, scan + n + 1, next)
  <2>4. writer.pos \in Nat /\ n \in Nat /\ scan + n \in Nat
    BY <1>1, <2>2, <2>3, Methods
  <2>5. db \in Stream /\ Len(db) = n
    <3>1. oldbin \in Bytes /\ Len(oldbin) = Size(SourceFile)
      BY <2>1, <2>2, SourceData
    <3>2. scan \in Nat /\ scan + n <= Len(File.data)
      BY <2>2, <2>3
    <3> DEFINE data == File.data
               l == writer.pos
    <3>3. /\ data \in Bytes /\ scan \in Nat /\ l \in Nat /\ scan + n <= Len(data)
          /\ oldbin \in Bytes /\ l + n <= Len(oldbin)
      BY <2>2, <2>3, <2>4, <3>1, <3>2
    <3> HIDE DEF oldbin, data, l
    <3>4. /\ [i \in 1..n |-> (data[scan + i] - oldbin[l + i]) % Base] \in Stream
          /\ Len([i \in 1..n |-> (data[scan + i] - oldbin[l + i]) % Base]) = n
      BY <2>4, <3>3, Differences
    <3> QED BY <3>4, Zenon DEF DB, data, l
  <2>6. eb \in Stream
    <3>1. next \in scan + n .. Len(File.data)
      BY <2>2, <2>3
    <3> QED BY <2>2, <2>4, <3>1, Parts, BytesStream
  <2> HIDE DEF db, eb
  <2>7. WriteAddContent(writer, db) \in Writers /\ WriteAddContent(writer, db).pos = writer.pos + n
    BY <1>1, <2>5, Methods
  <2> DEFINE w == WriteContent(WriteAddContent(writer, db), eb)
  <2>8. w \in Writers /\ w.pos = writer.pos + n
    BY <2>6, <2>7, Methods
  <2> HIDE DEF w
  <2>9. pos - (writer.pos + n) \in Int /\ w.pos + (pos - (writer.pos + n)) \in Nat
    BY <2>3, <2>4, <2>8
  <2>10. writer' \in Writers
    BY <2>3, <2>8, <2>9, Methods DEF Round, w, db, eb
  <2>11. next \in 0 .. Size(File)
    BY <2>2, <2>3
  <2>12. /\ phase' \in {"next", "bsdiff"} /\ source[at] # 0 /\ at' = at /\ Continue
    BY <1>6, <2>1, <2>3, BsdiffRounds DEF HasSource
  <2> QED BY <1>1, <2>1, <2>2, <2>3, <2>10, <2>11, <2>12, WalkTyped DEF File
<1>7. CASE StartRollsums
  <2>1. SourceFile.path \in Paths /\ at \in DOMAIN new /\ scan \in 0 .. Size(File)
    BY <1>7, FileTyped DEF StartRollsums
  <2>2. writer' \in Writers
    BY <1>1, <1>7, <2>1, Methods DEF StartRollsums
  <2> QED BY <1>1, <1>7, <2>1, <2>2, WalkTyped DEF StartRollsums, HasSource, File
<1>8. CASE NextMatch
  <2>1. phase = "rollsums" /\ HasSource
    BY <1>8 DEF NextMatch, Typed
  <2>2. /\ at \in DOMAIN new /\ File.data \in Bytes /\ Size(File) = Len(File.data)
        /\ Size(File) \in Nat /\ scan \in 0 .. Size(File) /\ SourceFile.data \in Bytes
    BY <2>1, FileTyped
  <2> DEFINE to   == First(MatchesLeft)
             from == First(FoundIn(SourceFile.data, File.data, to))
             skipped == Steal(SubSeq(File.data, scan + 1, to.offset))
             dst  == Chunk(File.data, to)
  <2>3. /\ writer' \in {CopyFileAt(skipped, from.offset, from.size), WriteContent(skipped, dst)}
        /\ scan' = to.offset + to.size /\ at' = at /\ Continue
        /\ phase' \in {"rollsums", "failed"}
    BY <1>8 DEF NextMatch
  <2>4. /\ to \in Matches(SourceFile.data, File.data) /\ to \in Blobs(File.data)
        /\ to.offset >= scan
    <3>1. MatchesLeft \subseteq Blobs(File.data) /\ MatchesLeft # {}
      BY <1>8 DEF NextMatch, MatchesLeft, Matches
    <3>2. to \in MatchesLeft
      BY <2>2, <3>1, FirstIsOne
    <3> QED BY <3>1, <3>2 DEF MatchesLeft
  <2>5. from \in Blobs(SourceFile.data)
    <3>1. FoundIn(SourceFile.data, File.data, to) \subseteq Blobs(SourceFile.data)
      BY DEF FoundIn
    <3>2. FoundIn(SourceFile.data, File.data, to) # {}
      BY <2>4 DEF Matches
    <3> HIDE DEF to
    <3>3. from \in FoundIn(SourceFile.data, File.data, to)
      BY <2>2, <3>1, <3>2, FirstIsOne
    <3> QED BY <3>1, <3>3
  <2> HIDE DEF to, from
  <2>6. /\ to.offset \in Nat /\ to.size \in Nat /\ to.offset + to.size <= Size(File)
        /\ from.offset \in Nat /\ from.size \in Nat
    BY <2>2, <2>4, <2>5, BlobBounds
  <2>7. skipped \in Writers
    <3>1. scan \in Nat /\ to.offset \in scan .. Len(File.data)
      BY <2>2, <2>4, <2>6
    <3>2. SubSeq(File.data, scan + 1, to.offset) \in Stream
      BY <2>2, <3>1, Parts, BytesStream
    <3> QED BY <1>1, <3>2, Methods DEF Steal
  <2>8. dst \in Stream
    <3>1. to.offset + to.size \in to.offset .. Len(File.data)
      BY <2>2, <2>6
    <3> QED BY <2>2, <2>6, <3>1, Parts, BytesStream DEF Chunk
  <2> HIDE DEF skipped, dst
  <2>9. CopyFileAt(skipped, from.offset, from.size) \in Writers
    <3>1. Seek(skipped, from.offset) \in Writers
      BY <2>6, <2>7, Methods
    <3> QED BY <2>6, <3>1, Methods DEF CopyFileAt
  <2>10. WriteContent(skipped, dst) \in Writers
    BY <2>7, <2>8, Methods
  <2>11. to.offset + to.size \in 0 .. Size(File)
    BY <2>2, <2>6
  <2> QED BY <1>1, <2>1, <2>2, <2>3, <2>9, <2>10, <2>11, WalkTyped DEF HasSource, File
<1>9. CASE EndRollsums
  <2>1. phase = "rollsums"
    BY <1>9 DEF EndRollsums
  <2>2. /\ File.data \in Bytes /\ Size(File) = Len(File.data)
        /\ Size(File) \in Nat /\ scan \in 0 .. Size(File)
    BY <2>1, FileTyped
  <2>3. SubSeq(File.data, scan + 1, Size(File)) \in Stream
    <3>1. scan \in Nat /\ Size(File) \in scan .. Len(File.data)
      BY <2>2
    <3> QED BY <2>2, <3>1, Parts, BytesStream
  <2>4. writer' \in Writers
    BY <1>1, <1>9, <2>3, Methods DEF EndRollsums, Steal
  <2> QED BY <1>1, <1>9, <2>4, WalkTyped DEF EndRollsums
<1>10. CASE CopyRest
  <2>1. File.data \in Stream
    BY <1>10, FileTyped, BytesStream DEF CopyRest
  <2>2. writer' \in Writers
    BY <1>1, <1>10, <2>1, Methods DEF CopyRest, Steal
  <2> QED BY <1>1, <1>10, <2>2, WalkTyped DEF CopyRest
<1>11. CASE EndDelta
  <2>1. <<EndOfArchive>> \in Stream
    BY TarDeltaAssumption DEF EndOfArchive, Stream
  <2>2. Steal(<<EndOfArchive>>) \in Writers
    BY <1>1, <2>1, Methods DEF Steal
  <2>3. writer' \in Writers
    BY <1>11, <2>2, Flushing DEF EndDelta, Writers
  <2> QED BY <1>1, <1>11, <2>3, WalkTyped DEF EndDelta
<1> QED BY <1>3, <1>4, <1>5, <1>6, <1>7, <1>8, <1>9, <1>10, <1>11

\* What the operations carry.
LEMMA OpFields ==
    ASSUME NEW op \in Ops
    PROVE  /\ op.op \in {"data", "add"} => op.data \in Stream
           /\ op.op = "open" => op.file \in Paths
           /\ op.op = "seek" => op.pos \in Nat
           /\ op.op = "copy" => op.size \in Nat
BY DEF Ops

\* The entry that extracting an archive leaves at a path is the last one.
LEMMA EntryIsLast ==
    ASSUME old \in Archives, NEW path, Entries(path) # {}
    PROVE  /\ Max(Entries(path)) \in Entries(path)
           /\ \A i \in Entries(path) : i <= Max(Entries(path))
           /\ Entry(path).data \in Bytes /\ Size(Entry(path)) \in Nat
           /\ Size(Entry(path)) = Len(Entry(path).data)
<1>1. IsFiniteSet(DOMAIN old) /\ DOMAIN old \subseteq Nat
  BY ArchiveEntries
<1>2. Entries(path) \in SUBSET DOMAIN old
  BY DEF Entries
<1>3. IsFiniteSet(Entries(path)) /\ Entries(path) \subseteq Nat
  BY <1>1, <1>2, FS_Subset
<1>4. /\ Max(Entries(path)) \in Entries(path)
      /\ \A i \in Entries(path) : i <= Max(Entries(path))
  BY <1>3, MaxExists
<1>5. /\ Entry(path).data \in Bytes /\ Size(Entry(path)) \in Nat
      /\ Size(Entry(path)) = Len(Entry(path).data)
  BY <1>2, <1>4, ArchiveEntries DEF Entry, Size
<1> QED BY <1>4, <1>5

\* What can be read is read.
LEMMA CurrentBytes ==
    ASSUME old \in Archives, patch.pos \in Nat, NEW n \in Nat, Readable(n)
    PROVE  /\ Current(n) \in Bytes /\ Len(Current(n)) = n
           /\ \A i \in 1 .. n : /\ Current(n)[i] = Entry(patch.file).data[patch.pos + i]
                                /\ Current(n)[i] \in 0 .. (Base - 1)
<1> DEFINE data == Entry(patch.file).data
           m == patch.pos
<1>1. data \in Bytes /\ m + n <= Len(data)
  BY EntryIsLast DEF Readable
<1>2. Current(n) = SubSeq(data, m + 1, m + n)
  BY DEF Current
<1>3. m \in Nat
  OBVIOUS
<1> HIDE DEF data, m
<1>4. m + n \in m .. Len(data) /\ (m + n) - m = n
  <2>1. Len(data) \in Nat
    BY <1>1, LenProperties DEF Bytes
  <2> QED BY <1>1, <1>3, <2>1
<1>5. /\ Current(n) \in Bytes /\ Len(Current(n)) = n
      /\ \A i \in 1 .. n : Current(n)[i] = data[m + i]
  BY <1>1, <1>2, <1>3, <1>4, Parts
<1>6. \A i \in 1 .. n : Current(n)[i] \in 0 .. (Base - 1)
  BY <1>5, ElementOfSeq, Zenon DEF Bytes
<1> QED BY <1>5, <1>6 DEF data, m

\* The operation that is next.
LEMMA NextOp ==
    ASSUME Typed, phase = "patch", patch.next <= Len(writer.ops)
    PROVE  /\ Op \in Ops /\ patch.next \in 1 .. Len(writer.ops)
           /\ patch.next + 1 \in 1 .. Len(writer.ops) + 1
<1>1. writer.ops \in Seq(Ops) /\ patch.next \in Nat
  BY DEF Typed, Writers
<1>2. Len(writer.ops) \in Nat /\ patch.next \in 1 .. Len(writer.ops) + 1
  BY <1>1, LenProperties DEF Typed, TypeOK
<1>3. patch.next \in 1 .. Len(writer.ops)
  BY <1>2
<1> QED BY <1>1, <1>2, <1>3, ElementOfSeq DEF Op

\* The patcher.
LEMMA PatcherTyped ==
    ASSUME Typed, ApplyData \/ ApplyOpen \/ ApplySeek \/ ApplyCopy \/ ApplyAdd \/ EndPatch
    PROVE  Typed'
<1>1. /\ old \in Archives /\ phase = "patch"
      /\ UNCHANGED <<archives, analysis, at, scan, writer>>
      /\ phase' \in Patching
  BY ChosenPair DEF Typed, TypeOK, Patching, ApplyData, ApplyOpen, ApplySeek, ApplyCopy,
                    ApplyAdd, EndPatch, Applying, Applied
<1>2. patch \in [next : Nat, file : Paths, pos : Nat, out : Stream]
  BY DEF Typed
<1>3. ASSUME NEW q \in [next : Nat, file : Paths, pos : Nat, out : Stream], patch' = q,
             q.next \in 1 .. (Len(writer.ops) + 1)
      PROVE  Typed'
  BY <1>1, <1>3 DEF Typed, TypeOK, Patching, InFile, archives, analysis
<1>4. patch' = patch => Typed'
  BY <1>2, <1>3 DEF Typed, TypeOK
<1>5. ASSUME NEW n \in Nat, Readable(n)
      PROVE  Current(n) \in Stream /\ patch.pos + n \in Nat
  BY <1>1, <1>2, <1>5, CurrentBytes, BytesStream
<1>6. \A s \in Stream : patch.out \o s \in Stream
  BY <1>2, BytesStream
<1>7. ASSUME NEW op, Applying(op)
      PROVE  /\ Op \in Ops /\ Op.op = op
             /\ patch.next + 1 \in 1 .. Len(writer.ops) + 1 /\ patch.next + 1 \in Nat
  BY <1>2, <1>7, NextOp DEF Applying
<1>8. CASE ApplyData
  <2>1. /\ patch' = Output(Op.data) /\ Op.data \in Stream
        /\ patch.next + 1 \in 1 .. Len(writer.ops) + 1 /\ patch.next + 1 \in Nat
    BY <1>7, <1>8, OpFields DEF ApplyData, Applied
  <2>2. patch.out \o Op.data \in Stream
    BY <1>6, <2>1
  <2>3. /\ Output(Op.data) \in [next : Nat, file : Paths, pos : Nat, out : Stream]
        /\ Output(Op.data).next = patch.next + 1
    BY <1>2, <2>1, <2>2 DEF Output
  <2> QED BY <1>3, <2>1, <2>3
<1>9. CASE ApplyOpen
  <2> DEFINE q == [patch EXCEPT !.file = Op.file, !.pos = 0, !.next = @ + 1]
  <2>1. /\ patch' = q \/ patch' = patch
        /\ Op.file \in Paths
        /\ patch.next + 1 \in 1 .. Len(writer.ops) + 1 /\ patch.next + 1 \in Nat
    BY <1>7, <1>9, OpFields DEF ApplyOpen, Applied
  <2>2. q \in [next : Nat, file : Paths, pos : Nat, out : Stream] /\ q.next = patch.next + 1
    BY <1>2, <2>1
  <2> HIDE DEF q
  <2> QED BY <1>3, <1>4, <2>1, <2>2
<1>10. CASE ApplySeek
  <2> DEFINE q == [patch EXCEPT !.pos = Op.pos, !.next = @ + 1]
  <2>1. /\ patch' = q \/ patch' = patch
        /\ Op.pos \in Nat
        /\ patch.next + 1 \in 1 .. Len(writer.ops) + 1 /\ patch.next + 1 \in Nat
    BY <1>7, <1>10, OpFields DEF ApplySeek, Applied
  <2>2. q \in [next : Nat, file : Paths, pos : Nat, out : Stream] /\ q.next = patch.next + 1
    BY <1>2, <2>1
  <2> HIDE DEF q
  <2> QED BY <1>3, <1>4, <2>1, <2>2
<1>11. CASE ApplyCopy
  <2> DEFINE n == Op.size
             q == [Output(Current(n)) EXCEPT !.pos = @ + n]
  <2>1. /\ (Readable(n) /\ patch' = q) \/ patch' = patch
        /\ n \in Nat
        /\ patch.next + 1 \in 1 .. Len(writer.ops) + 1 /\ patch.next + 1 \in Nat
    BY <1>7, <1>11, OpFields DEF ApplyCopy, Applied
  <2> HIDE DEF n
  <2>2. ASSUME Readable(n)
        PROVE  q \in [next : Nat, file : Paths, pos : Nat, out : Stream]
               /\ q.next = patch.next + 1
    <3>1. patch.out \o Current(n) \in Stream /\ patch.pos + n \in Nat
      BY <1>5, <1>6, <2>1, <2>2
    <3> QED BY <1>2, <2>1, <3>1 DEF Output
  <2> HIDE DEF q
  <2> QED BY <1>3, <1>4, <2>1, <2>2
<1>12. CASE ApplyAdd
  <2> DEFINE data == Op.data
             n == Len(data)
             sum == [i \in 1..n |-> (data[i] + Current(n)[i]) % Base]
             q == [Output(sum) EXCEPT !.pos = @ + n]
  <2>1. /\ (Readable(n) /\ patch' = q) \/ patch' = patch
        /\ data \in Stream
        /\ patch.next + 1 \in 1 .. Len(writer.ops) + 1 /\ patch.next + 1 \in Nat
    BY <1>7, <1>12, OpFields DEF ApplyAdd, Applied
  <2> HIDE DEF data
  <2>2. n \in Nat /\ \A i \in 1 .. n : data[i] \in Nat
    BY <2>1, LenProperties, ElementOfSeq, Zenon DEF Stream
  <2>3. ASSUME Readable(n)
        PROVE  q \in [next : Nat, file : Paths, pos : Nat, out : Stream]
               /\ q.next = patch.next + 1
    <3>1. \A i \in 1 .. n : Current(n)[i] \in Nat
      BY <1>1, <1>2, <2>2, <2>3, CurrentBytes, TarDeltaAssumption
    <3>2. patch.pos + n \in Nat
      BY <1>2, <2>2
    <3>3. sum \in Stream
      <4>1. \A x \in Nat : x % Base \in Nat
        BY TarDeltaAssumption
      <4>2. \A i \in 1 .. n : data[i] + Current(n)[i] \in Nat
        BY <2>2, <3>1
      <4> HIDE DEF n
      <4>3. \A i \in 1 .. n : (data[i] + Current(n)[i]) % Base \in Nat
        BY <4>1, <4>2
      <4>4. sum \in [1 .. n -> Nat]
        BY <4>3
      <4> HIDE DEF sum
      <4> QED BY <2>2, <4>4 DEF Stream
    <3> HIDE DEF sum, n
    <3>4. patch.out \o sum \in Stream
      BY <1>6, <3>3
    <3> QED BY <1>2, <2>1, <3>2, <3>4 DEF Output
  <2> HIDE DEF q
  <2> QED BY <1>3, <1>4, <2>1, <2>3
<1>13. CASE EndPatch
  BY <1>4, <1>13 DEF EndPatch
<1> QED BY <1>8, <1>9, <1>10, <1>11, <1>12, <1>13

\* At the start.
LEMMA InitTyped == Init => Typed
<1> SUFFICES ASSUME Init PROVE Typed
  OBVIOUS
<1>1. PICK pair \in Pairs : old = pair[1] /\ new = pair[2]
  BY DEF Init
<1>2. <<old, new>> \in Pairs /\ old \in Archives /\ new \in Archives
  BY <1>1, ArchiveAssumption
<1>3. DOMAIN old = 1 .. Len(old) /\ Len(old) \in Nat
  BY <1>2, ArchiveEntries
<1>4. <<>> \in Stream /\ <<>> \in Bytes /\ <<>> \in Seq(Ops) /\ Len(<<>>) = 0
  BY EmptySeq DEF Stream, Bytes
<1>5. NoPath \in Paths
  BY DEF Paths
<1>6. writer = [buffer |-> <<>>, file |-> NoPath, pos |-> 0, ops |-> <<>>]
  BY DEF Init
<1>7. writer \in Writers
  BY <1>4, <1>5, <1>6, TarDeltaAssumption DEF Writers
<1>8. patch = [next |-> 1, file |-> NoPath, pos |-> 0, out |-> <<>>]
  BY DEF Init
<1>9. patch \in [next : Nat, file : Paths, pos : Nat, out : Stream]
  BY <1>4, <1>5, <1>8
<1>10. Longest \in Nat /\ Len(new) \in Nat
  BY <1>2, LongestBounds, ArchiveEntries
<1>11. /\ source \in [DOMAIN new -> 0 .. Len(old)] /\ offset \in [DOMAIN old -> 0 .. Len(sourceData)]
       /\ sourceData \in Bytes
  BY <1>3, <1>4 DEF Init
<1>12. /\ phase = "analyze" /\ at \in 0 .. Len(new) /\ scan \in 0 .. Longest
       /\ writer.buffer \in Stream /\ Len(writer.buffer) < ChunkSize /\ writer.pos \in Nat
  BY <1>7, <1>10 DEF Init, Writers
<1>13. patch.next \in 1 .. (Len(writer.ops) + 1) /\ patch.next = 1
  BY <1>4, <1>6, <1>8
<1>14. TypeOK
  BY <1>2, <1>9, <1>11, <1>12, <1>13 DEF TypeOK, Longest
<1> QED BY <1>7, <1>9, <1>12, <1>13, <1>14 DEF Typed, Patching, InFile

\* Every step.
LEMMA NextTyped == Typed /\ [Next]_vars => Typed'
<1> SUFFICES ASSUME Typed, [Next]_vars PROVE Typed'
  OBVIOUS
<1>1. CASE UNCHANGED vars
  BY <1>1 DEF vars, archives, analysis, Typed, TypeOK, File, SourceFile, HasSource, Size,
              CanReadSourceData, Start
<1> QED BY <1>1, AnalyzeTyped, DifferTyped, PatcherTyped DEF Next

\* Typing of differ and patcher, for any archives.  The buffer of the writer
\* stays below its size between two calls.
THEOREM WellTyped == Spec => []TypeOK
<1>1. Typed => TypeOK
  BY DEF Typed
<1> QED BY <1>1, InitTyped, NextTyped, PTL DEF Spec

(***************************************************************************)
(* What the patcher will do                                                *)
(***************************************************************************)

\* The same as Entries and Entry, of any archive.
EntriesOf(a, path) == {i \in DOMAIN a : a[i].path = path /\ ~a[i].rooted}
EntryOf(a, path)   == a[Max(EntriesOf(a, path))]

\* The patcher between two operations: its cursor and what it has written.
Reader == [file : Paths, pos : Nat, out : Stream]
Fresh  == [file |-> NoPath, pos |-> 0, out |-> <<>>]

CanRead(a, s, n) ==
    EntriesOf(a, s.file) # {} /\ s.pos + n <= Size(EntryOf(a, s.file))
DataAt(a, s, n) == SubSeq(EntryOf(a, s.file).data, s.pos + 1, s.pos + n)

Sums(a, s, data) ==
    [i \in 1..Len(data) |-> (data[i] + DataAt(a, s, Len(data))[i]) % Base]

\* The operation op succeeds and leads from s to t.
Does(a, op, s, t) ==
    \/ /\ op.op = "data"
       /\ t = [file |-> s.file, pos |-> s.pos, out |-> s.out \o op.data]
    \/ /\ op.op = "open" /\ EntriesOf(a, op.file) # {}
       /\ t = [file |-> op.file, pos |-> 0, out |-> s.out]
    \/ /\ op.op = "seek" /\ EntriesOf(a, s.file) # {} /\ op.pos <= Size(EntryOf(a, s.file))
       /\ t = [file |-> s.file, pos |-> op.pos, out |-> s.out]
    \/ /\ op.op = "copy" /\ CanRead(a, s, op.size)
       /\ t = [file |-> s.file, pos |-> s.pos + op.size,
               out |-> s.out \o DataAt(a, s, op.size)]
    \/ /\ op.op = "add" /\ CanRead(a, s, Len(op.data))
       /\ t = [file |-> s.file, pos |-> s.pos + Len(op.data),
               out |-> s.out \o Sums(a, s, op.data)]

\* All operations succeed, one after the other, and lead to s.
Runs(a, run, ops, s) ==
    /\ run \in [0 .. Len(ops) -> Reader]
    /\ run[0] = Fresh /\ run[Len(ops)] = s
    /\ \A i \in 1 .. Len(ops) : Does(a, ops[i], run[i - 1], run[i])
    /\ \A i \in 0 .. Len(ops) : \E t \in Stream : s.out = run[i].out \o t

\* What has been written makes the patcher write out, but for what is in the
\* buffer, and leaves it where the writer believes it to be.
At(w, out) == [file |-> w.file, pos |-> w.pos, out |-> out]

Yields(a, w, out) ==
    \E run, made : /\ made \in Stream /\ made \o w.buffer = out
                   /\ Runs(a, run, w.ops, At(w, made))

\* One operation more.
LEMMA RunsOn ==
    ASSUME NEW a, NEW ops \in Seq(Ops), NEW op \in Ops, NEW run,
           NEW s \in Reader, NEW t \in Reader, NEW x \in Stream,
           Runs(a, run, ops, s), Does(a, op, s, t), t.out = s.out \o x
    PROVE  \E more : Runs(a, more, Append(ops, op), t)
<1> DEFINE n == Len(ops)
           more == [i \in 0 .. n + 1 |-> IF i <= n THEN run[i] ELSE t]
           all == Append(ops, op)
<1>1. /\ n \in Nat /\ Len(all) = n + 1 /\ all[n + 1] = op
      /\ \A i \in 1 .. n : all[i] = ops[i]
  BY AppendProperties, LenProperties
<1>2. /\ run \in [0 .. n -> Reader] /\ run[0] = Fresh /\ run[n] = s
      /\ \A i \in 1 .. n : Does(a, ops[i], run[i - 1], run[i])
      /\ \A i \in 0 .. n : \E u \in Stream : s.out = run[i].out \o u
  BY DEF Runs
<1> HIDE DEF n, all
<1>3. /\ \A i \in 0 .. n : more[i] = run[i] /\ more[i] \in Reader
      /\ more[n + 1] = t /\ more \in [0 .. n + 1 -> Reader]
  BY <1>1, <1>2
<1> HIDE DEF more
<1>4. \A i \in 1 .. n + 1 : Does(a, all[i], more[i - 1], more[i])
  <2> SUFFICES ASSUME NEW i \in 1 .. n + 1 PROVE Does(a, all[i], more[i - 1], more[i])
    OBVIOUS
  <2>1. CASE i = n + 1
    <3>1. i - 1 = n /\ n \in 0 .. n
      BY <1>1, <2>1
    <3> QED BY <1>1, <1>2, <1>3, <2>1, <3>1
  <2>2. CASE i # n + 1
    <3>1. i \in 1 .. n /\ i \in 0 .. n /\ i - 1 \in 0 .. n
      BY <1>1, <2>2
    <3> QED BY <1>1, <1>2, <1>3, <3>1
  <2> QED BY <2>1, <2>2
<1>5. \A i \in 0 .. n + 1 : \E u \in Stream : t.out = more[i].out \o u
  <2> SUFFICES ASSUME NEW i \in 0 .. n + 1 PROVE \E u \in Stream : t.out = more[i].out \o u
    OBVIOUS
  <2>1. CASE i = n + 1
    <3>1. t.out \in Stream
      BY DEF Reader
    <3>2. t.out = more[i].out \o <<>> /\ <<>> \in Stream
      BY <1>3, <2>1, <3>1, StreamAlgebra, BytesStream
    <3> QED BY <3>2
  <2>2. CASE i # n + 1
    <3>1. i \in 0 .. n
      BY <1>1, <2>2
    <3>2. PICK u \in Stream : s.out = run[i].out \o u
      BY <1>2, <3>1
    <3>3. run[i].out \in Stream
      BY <1>2, <3>1 DEF Reader
    <3> DEFINE r == run[i].out
    <3>4. r \in Stream /\ t.out = (r \o u) \o x
      BY <3>2, <3>3
    <3> HIDE DEF r
    <3>5. t.out = r \o (u \o x)
      BY <3>4, StreamAlgebra
    <3>6. u \o x \in Stream
      BY BytesStream
    <3> QED BY <1>3, <3>1, <3>5, <3>6 DEF r
  <2> QED BY <2>1, <2>2
<1>6. more[0] = Fresh
  BY <1>1, <1>2, <1>3
<1>7. Runs(a, more, all, t)
  BY <1>1, <1>3, <1>4, <1>5, <1>6 DEF Runs
<1> QED BY <1>7 DEF all

\* Flushing the buffer writes what was in it.
LEMMA FlushYields ==
    ASSUME NEW a, NEW w \in [buffer : Stream, file : Paths, pos : Nat, ops : Seq(Ops)],
           NEW out, Yields(a, w, out)
    PROVE  Yields(a, FlushBuffer(w), out) /\ out \in Stream
<1> DEFINE op == [op |-> "data", data |-> w.buffer]
           v == FlushBuffer(w)
<1>1. PICK run, made : /\ made \in Stream /\ made \o w.buffer = out
                       /\ Runs(a, run, w.ops, At(w, made))
  BY DEF Yields
<1>2. out \in Stream
  BY <1>1, BytesStream
<1>3. CASE w.buffer = <<>>
  BY <1>2, <1>3 DEF FlushBuffer
<1>4. CASE w.buffer # <<>>
  <2>1. op \in Ops
    BY DEF Ops
  <2>2. At(w, made) \in Reader /\ At(w, out) \in Reader
    BY <1>1, <1>2 DEF At, Reader
  <2>3. Does(a, op, At(w, made), At(w, out)) /\ At(w, out).out = At(w, made).out \o w.buffer
    <3>1. /\ op.op = "data" /\ op.data = w.buffer
          /\ At(w, made).file = w.file /\ At(w, made).pos = w.pos
          /\ At(w, made).out = made
      BY DEF At
    <3>2. At(w, out) = [file |-> w.file, pos |-> w.pos, out |-> made \o w.buffer]
      BY <1>1 DEF At
    <3>3. At(w, out).out = made \o w.buffer
      BY <1>1 DEF At
    <3> HIDE DEF op
    <3> QED BY <3>1, <3>2, <3>3 DEF Does
  <2>4. /\ v.buffer = <<>> /\ At(v, out) = At(w, out) /\ v.ops = Append(w.ops, op)
    BY <1>4, Flushing DEF At
  <2> HIDE DEF op, v
  <2>5. \E more : Runs(a, more, Append(w.ops, op), At(w, out))
    BY <1>1, <2>1, <2>2, <2>3, RunsOn
  <2>6. out \o <<>> = out
    BY <1>2, StreamAlgebra
  <2> QED BY <1>2, <2>4, <2>5, <2>6 DEF Yields, v
<1> QED BY <1>3, <1>4

\* What is collected will be written.
LEMMA CollectYields ==
    ASSUME NEW a, NEW w \in Writers, NEW out, Yields(a, w, out), NEW data \in Stream
    PROVE  Yields(a, WriteContent(w, data), out \o data) /\ out \in Stream
<1> DEFINE v == [w EXCEPT !.buffer = @ \o data]
<1>1. PICK run, made : /\ made \in Stream /\ made \o w.buffer = out
                       /\ Runs(a, run, w.ops, At(w, made))
  BY DEF Yields
<1>2. w.buffer \in Stream
  BY DEF Writers
<1>3. /\ v.buffer = w.buffer \o data /\ v.ops = w.ops /\ At(v, made) = At(w, made)
  BY DEF Writers, At
<1>4. /\ v \in [buffer : Stream, file : Paths, pos : Nat, ops : Seq(Ops)]
      /\ WriteContent(w, data) = v \/ WriteContent(w, data) = FlushBuffer(v)
  BY Collecting
<1> HIDE DEF v
<1>5. made \o v.buffer = out \o data
  <2> DEFINE b == w.buffer
  <2>1. b \in Stream /\ v.buffer = b \o data /\ out = made \o b
    BY <1>1, <1>2, <1>3
  <2> HIDE DEF b
  <2>2. (made \o b) \o data = made \o (b \o data)
    BY <1>1, <2>1, StreamAlgebra
  <2> QED BY <2>1, <2>2
<1>6. Yields(a, v, out \o data)
  BY <1>1, <1>3, <1>5 DEF Yields
<1>7. out \in Stream
  BY <1>1, <1>2, BytesStream
<1> QED BY <1>4, <1>6, <1>7, FlushYields

\* What is told will be done.
LEMMA TellYields ==
    ASSUME NEW a, NEW w \in Writers, NEW out, Yields(a, w, out),
           NEW op \in Ops, NEW file \in Paths, NEW pos \in Nat, NEW x \in Stream,
           Does(a, op, At(w, out), [file |-> file, pos |-> pos, out |-> out \o x])
    PROVE  Yields(a, Told(w, op, file, pos), out \o x)
<1> DEFINE v == FlushBuffer(w)
           t == [file |-> file, pos |-> pos, out |-> out \o x]
           u == Told(w, op, file, pos)
<1>1. w \in [buffer : Stream, file : Paths, pos : Nat, ops : Seq(Ops)]
  BY DEF Writers
<1>2. /\ Yields(a, v, out) /\ out \in Stream
      /\ v.buffer = <<>> /\ At(v, out) = At(w, out) /\ v.ops \in Seq(Ops)
  BY <1>1, FlushYields, Flushing DEF At, Writers
<1> HIDE DEF v
<1>3. PICK run, made : /\ made \in Stream /\ made \o v.buffer = out
                       /\ Runs(a, run, v.ops, At(v, made))
  BY <1>2 DEF Yields
<1>4. made = out
  BY <1>2, <1>3, StreamAlgebra
<1>5. out \o x \in Stream
  BY <1>2, BytesStream
<1>6. At(w, out) \in Reader /\ t \in Reader /\ t.out = At(w, out).out \o x
  BY <1>1, <1>2, <1>5 DEF At, Reader
<1>7. \E more : Runs(a, more, Append(v.ops, op), t)
  <2> HIDE DEF t
  <2>1. Runs(a, run, v.ops, At(w, out))
    BY <1>2, <1>3, <1>4
  <2>2. Does(a, op, At(w, out), t)
    BY DEF t
  <2> QED BY <1>2, <1>6, <2>1, <2>2, RunsOn
<1>8. u.buffer = <<>> /\ u.ops = Append(v.ops, op) /\ At(u, out \o x) = t
  BY DEF Told, At, v
<1>9. (out \o x) \o <<>> = out \o x
  BY <1>5, StreamAlgebra
<1> HIDE DEF u, t
<1> QED BY <1>5, <1>7, <1>8, <1>9 DEF Yields, u

\* What is yielded is a stream.
LEMMA YieldsStream ==
    ASSUME NEW a, NEW w \in Writers, NEW out, Yields(a, w, out)
    PROVE  out \in Stream
BY CollectYields, BytesStream

\* What can be read of an old file, and added to.
LEMMA DataRead ==
    ASSUME NEW a \in Archives, NEW s, s.pos \in Nat, NEW n \in Nat, CanRead(a, s, n)
    PROVE  /\ DataAt(a, s, n) \in Bytes /\ Len(DataAt(a, s, n)) = n
           /\ \A i \in 1 .. n : DataAt(a, s, n)[i] = EntryOf(a, s.file).data[s.pos + i]
<1> DEFINE data == EntryOf(a, s.file).data
           m == s.pos
<1>1. Max(EntriesOf(a, s.file)) \in DOMAIN a
  <2>1. IsFiniteSet(DOMAIN a) /\ DOMAIN a \subseteq Nat
    BY ArchiveEntries
  <2>2. EntriesOf(a, s.file) \in SUBSET DOMAIN a
    BY DEF EntriesOf
  <2>3. IsFiniteSet(EntriesOf(a, s.file)) /\ EntriesOf(a, s.file) \subseteq Nat
    BY <2>1, <2>2, FS_Subset
  <2>4. Max(EntriesOf(a, s.file)) \in EntriesOf(a, s.file)
    BY <2>3, MaxExists DEF CanRead
  <2> QED BY <2>2, <2>4
<1>2. data \in Bytes /\ m + n <= Len(data) /\ m \in Nat
  BY <1>1, ArchiveEntries DEF EntryOf, CanRead, Size
<1>3. DataAt(a, s, n) = SubSeq(data, m + 1, m + n)
  BY DEF DataAt
<1> HIDE DEF data, m
<1>4. m + n \in m .. Len(data) /\ (m + n) - m = n
  <2>1. Len(data) \in Nat
    BY <1>2, LenProperties DEF Bytes
  <2> QED BY <1>2, <2>1
<1>5. /\ SubSeq(data, m + 1, m + n) \in Bytes /\ Len(SubSeq(data, m + 1, m + n)) = n
      /\ \A i \in 1 .. n : SubSeq(data, m + 1, m + n)[i] = data[m + i]
  BY <1>2, <1>4, Parts
<1> QED BY <1>3, <1>5 DEF data, m

\* Opening a file that is there.
LEMMA OpenYields ==
    ASSUME NEW a, NEW w \in Writers, NEW out, Yields(a, w, out),
           NEW path \in Paths, EntriesOf(a, path) # {}
    PROVE  Yields(a, SetCurrentFile(w, path), out)
<1> DEFINE op == [op |-> "open", file |-> path]
           t == [file |-> path, pos |-> 0, out |-> out \o <<>>]
<1>1. out \in Stream /\ out \o <<>> = out /\ <<>> \in Stream
  BY YieldsStream, StreamAlgebra, BytesStream
<1>2. CASE w.file = path
  BY <1>2 DEF SetCurrentFile
<1>3. CASE w.file # path
  <2>1. op \in Ops /\ op.op = "open" /\ op.file = path
    BY DEF Ops
  <2>2. t = [file |-> path, pos |-> 0, out |-> At(w, out).out]
    BY <1>1 DEF At
  <2>3. SetCurrentFile(w, path) = Told(w, op, path, 0)
    BY <1>3, Tells
  <2> HIDE DEF op
  <2>4. Does(a, op, At(w, out), t)
    <3> HIDE DEF t
    <3> QED BY <2>1, <2>2 DEF Does
  <2>5. Yields(a, Told(w, op, path, 0), out \o <<>>)
    BY <1>1, <2>1, <2>4, TellYields
  <2> QED BY <1>1, <2>3, <2>5
<1> QED BY <1>2, <1>3

\* Moving within the open file.
LEMMA MoveYields ==
    ASSUME NEW a, NEW w \in Writers, NEW out, Yields(a, w, out),
           NEW pos \in Nat, EntriesOf(a, w.file) # {}, pos <= Size(EntryOf(a, w.file))
    PROVE  /\ Yields(a, Told(w, [op |-> "seek", pos |-> pos], w.file, pos), out)
           /\ Yields(a, Seek(w, pos), out)
           /\ \A n \in Int : w.pos + n = pos => Yields(a, SeekForward(w, n), out)
<1> DEFINE op == [op |-> "seek", pos |-> pos]
           t == [file |-> w.file, pos |-> pos, out |-> out \o <<>>]
<1>1. /\ out \in Stream /\ out \o <<>> = out /\ <<>> \in Stream
      /\ w.file \in Paths
  BY YieldsStream, StreamAlgebra, BytesStream, Methods
<1>2. op \in Ops /\ op.op = "seek" /\ op.pos = pos
  BY DEF Ops
<1>3. /\ t = [file |-> At(w, out).file, pos |-> pos, out |-> At(w, out).out]
      /\ At(w, out).file = w.file
  BY <1>1 DEF At
<1>4. Yields(a, Told(w, op, w.file, pos), out)
  <2> HIDE DEF op
  <2>1. Does(a, op, At(w, out), t)
    <3> HIDE DEF t
    <3> QED BY <1>2, <1>3 DEF Does
  <2>2. Yields(a, Told(w, op, w.file, pos), out \o <<>>)
    BY <1>1, <1>2, <2>1, TellYields
  <2> QED BY <1>1, <2>2
<1>5. Yields(a, Seek(w, pos), out)
  <2>1. CASE w.pos = pos
    BY <2>1 DEF Seek
  <2>2. CASE w.pos # pos
    BY <1>4, <2>2, Tells
  <2> QED BY <2>1, <2>2
<1>6. \A n \in Int : w.pos + n = pos => Yields(a, SeekForward(w, n), out)
  BY <1>4, Tells
<1> QED BY <1>4, <1>5, <1>6

\* Copying from the open file.
LEMMA CopyYields ==
    ASSUME NEW a \in Archives, NEW w \in Writers, NEW out, Yields(a, w, out),
           NEW n \in Nat, CanRead(a, w, n)
    PROVE  Yields(a, CopyFile(w, n), out \o DataAt(a, w, n))
<1> DEFINE op == [op |-> "copy", size |-> n]
           x == DataAt(a, w, n)
           t == [file |-> w.file, pos |-> w.pos + n, out |-> out \o x]
<1>1. w.file \in Paths /\ w.pos \in Nat /\ w.pos + n \in Nat
  BY Methods
<1>2. x \in Stream
  BY <1>1, DataRead, BytesStream
<1>3. op \in Ops /\ op.op = "copy" /\ op.size = n
  BY DEF Ops
<1>4. /\ At(w, out).file = w.file /\ At(w, out).pos = w.pos
      /\ CanRead(a, At(w, out), n) /\ DataAt(a, At(w, out), n) = x
  BY DEF At, CanRead, DataAt
<1> HIDE DEF op, x
<1>5. t = [file |-> At(w, out).file, pos |-> At(w, out).pos + n, out |-> At(w, out).out \o x]
  BY DEF At
<1>6. Does(a, op, At(w, out), t)
  <2> HIDE DEF t
  <2> QED BY <1>3, <1>4, <1>5 DEF Does
<1>7. Yields(a, Told(w, op, w.file, w.pos + n), out \o x)
  BY <1>1, <1>2, <1>3, <1>6, TellYields
<1> QED BY <1>7, Tells DEF op, x

\* Adding to what is in the open file.
LEMMA AddYields ==
    ASSUME NEW a \in Archives, NEW w \in Writers, NEW out, Yields(a, w, out),
           NEW data \in Stream, CanRead(a, w, Len(data)), Sums(a, w, data) \in Stream
    PROVE  Yields(a, WriteAddContent(w, data), out \o Sums(a, w, data))
<1> DEFINE op == [op |-> "add", data |-> data]
           x == Sums(a, w, data)
           n == Len(data)
           t == [file |-> w.file, pos |-> w.pos + n, out |-> out \o x]
<1>1. w.file \in Paths /\ w.pos \in Nat /\ n \in Nat
  BY Methods, LenProperties DEF Stream
<1>2. op \in Ops /\ op.op = "add" /\ op.data = data /\ w.pos + n \in Nat
  BY <1>1 DEF Ops
<1>3. /\ At(w, out).file = w.file /\ At(w, out).pos = w.pos
      /\ CanRead(a, At(w, out), n) /\ Sums(a, At(w, out), data) = x
  BY DEF At, CanRead, DataAt, Sums
<1> HIDE DEF op, x, n
<1>4. t = [file |-> At(w, out).file, pos |-> At(w, out).pos + n, out |-> At(w, out).out \o x]
  BY DEF At
<1>5. Does(a, op, At(w, out), t)
  <2> HIDE DEF t
  <2> QED BY <1>2, <1>3, <1>4 DEF Does, n
<1>6. x \in Stream
  BY DEF x
<1>7. Yields(a, Told(w, op, w.file, w.pos + n), out \o x)
  BY <1>1, <1>2, <1>5, <1>6, TellYields
<1> QED BY <1>7, Tells DEF op, x, n

(***************************************************************************)
(* The new archive as a stream                                             *)
(***************************************************************************)

Streamed(b)    == [i \in DOMAIN b |-> <<Header(i)>> \o b[i].data]
BeforeOf(b, k) == FlattenSeq(SubSeq(Streamed(b), 1, k))

\* The archive up to the byte n of the data of entry k.
Upto(b, k, n) == BeforeOf(b, k - 1) \o (<<Header(k)>> \o SubSeq(b[k].data, 1, n))

\* The entries one after the other.
LEMMA EntryByEntry ==
    ASSUME NEW b \in Archives
    PROVE  /\ BeforeOf(b, 0) = <<>>
           /\ \A k \in 0 .. Len(b) : BeforeOf(b, k) \in Stream
           /\ \A k \in DOMAIN b :
                 /\ <<Header(k)>> \in Stream
                 /\ BeforeOf(b, k) = BeforeOf(b, k - 1) \o (<<Header(k)>> \o b[k].data)
           /\ FlattenSeq(Streamed(b)) = BeforeOf(b, Len(b))
<1>1. DOMAIN b = 1 .. Len(b) /\ Len(b) \in Nat
  BY ArchiveEntries
<1>2. \A k \in DOMAIN b : /\ <<Header(k)>> \in Stream
                          /\ <<Header(k)>> \o b[k].data \in Stream
  <2> SUFFICES ASSUME NEW k \in DOMAIN b
               PROVE  <<Header(k)>> \in Stream /\ <<Header(k)>> \o b[k].data \in Stream
    OBVIOUS
  <2>1. Header(k) \in Nat
    BY <1>1, TarDeltaAssumption DEF Header
  <2>2. <<Header(k)>> \in Stream
    BY <2>1 DEF Stream
  <2>3. b[k].data \in Stream
    BY ArchiveEntries, BytesStream
  <2> QED BY <2>2, <2>3, BytesStream
<1>3. Streamed(b) \in Seq(Seq(Nat)) /\ Len(Streamed(b)) = Len(b)
  <2>1. Streamed(b) \in [1 .. Len(b) -> Stream]
    BY <1>1, <1>2 DEF Streamed
  <2> QED BY <1>1, <2>1 DEF Stream
<1>4. BeforeOf(b, 0) = <<>>
  <2>1. CASE Len(b) = 0
    <3>1. SubSeq(Streamed(b), 1, 0) = <<>>
      BY <1>3, SubSeqEmpty
    <3> QED BY <3>1 DEF BeforeOf, FlattenSeq
  <2>2. CASE Len(b) # 0
    <3>1. 0 \in 0 .. Len(Streamed(b)) - 1
      BY <1>1, <1>3, <2>2
    <3> QED BY <1>3, <3>1, FlattenStep DEF BeforeOf
  <2> QED BY <2>1, <2>2
<1>5. \A k \in 0 .. Len(b) : BeforeOf(b, k) \in Stream
  BY <1>3, FlattenGrows DEF BeforeOf, Stream
<1>6. \A k \in DOMAIN b :
          BeforeOf(b, k) = BeforeOf(b, k - 1) \o (<<Header(k)>> \o b[k].data)
  <2> SUFFICES ASSUME NEW k \in DOMAIN b
               PROVE  BeforeOf(b, k) = BeforeOf(b, k - 1) \o (<<Header(k)>> \o b[k].data)
    OBVIOUS
  <2> DEFINE l == k - 1
  <2>1. l \in 0 .. Len(Streamed(b)) - 1 /\ l + 1 = k
    BY <1>1, <1>3
  <2> HIDE DEF l
  <2>2. FlattenSeq(SubSeq(Streamed(b), 1, l + 1))
          = FlattenSeq(SubSeq(Streamed(b), 1, l)) \o Streamed(b)[l + 1]
    BY <1>3, <2>1, FlattenStep
  <2>3. Streamed(b)[k] = <<Header(k)>> \o b[k].data
    BY DEF Streamed
  <2> QED BY <2>1, <2>2, <2>3 DEF BeforeOf, l
<1>7. FlattenSeq(Streamed(b)) = BeforeOf(b, Len(b))
  BY <1>3, FlattenAll DEF BeforeOf
<1> QED BY <1>2, <1>4, <1>5, <1>6, <1>7

\* An entry byte by byte.
LEMMA ByteByByte ==
    ASSUME NEW b \in Archives, NEW k \in DOMAIN b
    PROVE  /\ \A n \in 0 .. Size(b[k]) : Upto(b, k, n) \in Stream
           /\ Upto(b, k, 0) = BeforeOf(b, k - 1) \o <<Header(k)>>
           /\ Upto(b, k, Size(b[k])) = BeforeOf(b, k)
           /\ \A m \in 0 .. Size(b[k]) : \A n \in m .. Size(b[k]) :
                 Upto(b, k, m) \o SubSeq(b[k].data, m + 1, n) = Upto(b, k, n)
<1> DEFINE data == b[k].data
           p == BeforeOf(b, k - 1)
           h == <<Header(k)>>
           size == Size(b[k])
<1>1. data \in Bytes /\ data \in Stream /\ size = Len(data) /\ size \in Nat
  BY ArchiveEntries, BytesStream DEF Size
<1>2. p \in Stream /\ h \in Stream /\ BeforeOf(b, k) = p \o (h \o data)
  <2>1. k - 1 \in 0 .. Len(b)
    BY ArchiveEntries
  <2> QED BY <2>1, EntryByEntry
<1>3. \A n : Upto(b, k, n) = p \o (h \o SubSeq(data, 1, n))
  BY DEF Upto
<1> HIDE DEF data, p, h, size
<1>4. \A n \in 0 .. size : SubSeq(data, 1, n) \in Stream
  <2> SUFFICES ASSUME NEW n \in 0 .. size PROVE SubSeq(data, 0 + 1, n) \in Stream
    OBVIOUS
  <2>1. 0 \in Nat /\ n \in 0 .. Len(data)
    BY <1>1
  <2> QED BY <1>1, <2>1, Parts, BytesStream
<1>5. SubSeq(data, 1, 0) = <<>> /\ SubSeq(data, 1, size) = data
  BY <1>1, SubSeqEmpty, SubSeqFull DEF Bytes
<1>6. \A n \in 0 .. size : Upto(b, k, n) \in Stream
  BY <1>2, <1>3, <1>4, BytesStream
<1>7. Upto(b, k, 0) = p \o h
  <2>1. h \o <<>> = h
    BY <1>2, StreamAlgebra
  <2> QED BY <1>3, <1>5, <2>1
<1>8. Upto(b, k, size) = BeforeOf(b, k)
  BY <1>2, <1>3, <1>5
<1>9. ASSUME NEW m \in 0 .. size, NEW n \in m .. size
      PROVE  Upto(b, k, m) \o SubSeq(data, m + 1, n) = Upto(b, k, n)
  <2> DEFINE u == SubSeq(data, 1, m)
             v == SubSeq(data, m + 1, n)
             g == h \o u
  <2>1. m \in Nat /\ n \in m .. Len(data) /\ n \in 0 .. size
    BY <1>1
  <2>2. v \in Stream /\ u \o v = SubSeq(data, 1, n)
    BY <1>1, <2>1, Parts, BytesStream
  <2>3. u \in Stream
    BY <1>4
  <2>4. Upto(b, k, m) = p \o (h \o u) /\ Upto(b, k, n) = p \o (h \o SubSeq(data, 1, n))
    BY <1>3
  <2> HIDE DEF u, v
  <2>5. g \in Stream /\ g \o v = h \o (u \o v)
    <3>1. g \in Stream
      BY <1>2, <2>3, BytesStream
    <3>2. (h \o u) \o v = h \o (u \o v)
      BY <1>2, <2>2, <2>3, StreamAlgebra
    <3> QED BY <3>1, <3>2
  <2> HIDE DEF g
  <2>6. (p \o g) \o v = p \o (g \o v)
    BY <1>2, <2>2, <2>5, StreamAlgebra
  <2> QED BY <2>2, <2>4, <2>5, <2>6 DEF v, g
<1> QED BY <1>6, <1>7, <1>8, <1>9 DEF data, p, h, size

\* The archive as a whole.
LEMMA WholeStream ==
    ASSUME new \in Archives
    PROVE  /\ NewStream = BeforeOf(new, Len(new)) \o <<EndOfArchive>>
           /\ <<EndOfArchive>> \in Stream /\ NewStream \in Stream
<1>1. NewStream = FlattenSeq(Streamed(new)) \o <<EndOfArchive>>
  BY DEF NewStream, Streamed
<1>2. FlattenSeq(Streamed(new)) = BeforeOf(new, Len(new)) /\ BeforeOf(new, Len(new)) \in Stream
  <2>1. Len(new) \in 0 .. Len(new)
    BY ArchiveEntries
  <2> QED BY <2>1, EntryByEntry
<1>3. <<EndOfArchive>> \in Stream
  BY TarDeltaAssumption DEF EndOfArchive, Stream
<1> QED BY <1>1, <1>2, <1>3, BytesStream

(***************************************************************************)
(* What the differ takes for granted                                       *)
(***************************************************************************)

Analyzed ==
    /\ source = [k \in DOMAIN new |-> SourceOf(old, new[k])]
    /\ sourceData = FlattenSeq(Kept)
    /\ offset = [i \in DOMAIN old |->
                   IF i \in Used THEN Len(FlattenSeq(SubSeq(Kept, 1, i - 1))) ELSE 0]

\* A file that no later entry overwrites, and that has no other name, is the one
\* that the patcher finds.
LEMMA LastEntry ==
    ASSUME NEW a \in Archives, NEW i \in DOMAIN a, ~Overwritten(a, i), ~a[i].rooted
    PROVE  EntriesOf(a, a[i].path) # {} /\ EntryOf(a, a[i].path) = a[i]
<1> DEFINE S == EntriesOf(a, a[i].path)
<1>1. i \in S /\ S \in SUBSET DOMAIN a
  BY DEF EntriesOf
<1>2. IsFiniteSet(DOMAIN a) /\ DOMAIN a \subseteq Nat
  BY ArchiveEntries
<1>3. \A j \in S : ~(j > i)
  BY DEF Overwritten, EntriesOf
<1> HIDE DEF S
<1>4. IsFiniteSet(S) /\ S \subseteq Nat /\ S # {}
  BY <1>1, <1>2, FS_Subset
<1>5. Max(S) \in S /\ i <= Max(S)
  BY <1>1, <1>4, MaxExists
<1>6. Max(S) = i
  BY <1>1, <1>3, <1>4, <1>5
<1> QED BY <1>1, <1>6 DEF S, EntryOf

\* A source is the file that the patcher will find at its path, and what is
\* stored of it is what it contains.
LEMMA SourceRight ==
    ASSUME Typed, Analyzed, Proper(old, new), phase \in InFile, HasSource
    PROVE  /\ EntriesOf(old, SourceFile.path) # {}
           /\ EntryOf(old, SourceFile.path) = SourceFile
           /\ ~HasCopy =>
                 \A pos, n \in Nat : pos + n <= Size(SourceFile) =>
                    /\ CanReadSourceData(pos, n)
                    /\ ReadSourceData(pos, n) = SubSeq(SourceFile.data, pos + 1, pos + n)
<1> DEFINE i == source[at]
<1>1. /\ old \in Archives /\ new \in Archives /\ at \in DOMAIN new
      /\ Size(File) \in Nat /\ i \in DOMAIN old /\ SourceFile = old[i]
      /\ SourceFile.data \in Bytes /\ Size(SourceFile) = Len(SourceFile.data)
      /\ Size(SourceFile) \in Nat
  BY FileTyped DEF SourceFile
<1>2. i = SourceOf(old, File) /\ i # 0
  BY <1>1 DEF Analyzed, File, HasSource
<1>3. Exact(old, File) # {} => i \in Exact(old, File)
  BY <1>1, <1>2, SourceOfFile
<1>4. i \in Exact(old, File) => i \in Present(old) /\ HasCopy
  BY <1>1 DEF Exact, HasCopy
<1>5. Exact(old, File) = {} => i \in UsedForDelta(old, new)
  BY <1>1, <1>2 DEF UsedForDelta, File
<1>6. i \in Present(old) /\ ~old[i].rooted
  BY <1>1, <1>2 DEF Proper, Found, File
<1>7. EntriesOf(old, SourceFile.path) # {} /\ EntryOf(old, SourceFile.path) = SourceFile
  BY <1>1, <1>6, LastEntry DEF Present
<1>8. ASSUME ~HasCopy, NEW pos \in Nat, NEW n \in Nat, pos + n <= Size(SourceFile)
      PROVE  /\ CanReadSourceData(pos, n)
             /\ ReadSourceData(pos, n) = SubSeq(SourceFile.data, pos + 1, pos + n)
  <2>1. i \in Used
    BY <1>3, <1>4, <1>5, <1>6, <1>8 DEF Used
  <2>2. Start = Len(FlattenSeq(SubSeq(Kept, 1, i - 1)))
    BY <1>1, <2>1 DEF Start, Analyzed
  <2> DEFINE data == SourceFile.data
             size == Len(data)
  <2>3. data \in Bytes /\ size \in Nat /\ pos + n <= size
    BY <1>1, <1>8
  <2>4. /\ Start \in 0 .. Len(sourceData) /\ Start + size <= Len(sourceData)
        /\ \A j \in 1 .. size : sourceData[Start + j] = data[j]
    <3> DEFINE before == Len(FlattenSeq(SubSeq(Kept, 1, i - 1)))
               all == FlattenSeq(Kept)
    <3>1. /\ before \in 0 .. Len(all) /\ before + Size(old[i]) <= Len(all)
          /\ \A j \in 1 .. Size(old[i]) : all[before + j] = old[i].data[j]
      BY <1>1, <2>1, KeptData
    <3>2. sourceData = all /\ Start = before /\ Size(old[i]) = size /\ old[i].data = data
      BY <1>1, <2>2 DEF Analyzed
    <3> HIDE DEF before, all, data
    <3> QED BY <3>1, <3>2
  <2>5. sourceData \in Bytes /\ Len(sourceData) \in Nat
    BY LenProperties DEF Typed, TypeOK, Bytes
  <2> HIDE DEF data
  <2>6. CanReadSourceData(pos, n)
    BY <2>3, <2>4, <2>5 DEF CanReadSourceData
  <2>7. /\ ReadSourceData(pos, n) \in Bytes /\ Len(ReadSourceData(pos, n)) = n
        /\ \A j \in 1 .. n : ReadSourceData(pos, n)[j] = sourceData[Start + pos + j]
    BY <2>4, <2>5, <2>6, SourceData
  <2>8. /\ SubSeq(data, pos + 1, pos + n) \in Bytes /\ Len(SubSeq(data, pos + 1, pos + n)) = n
        /\ \A j \in 1 .. n : SubSeq(data, pos + 1, pos + n)[j] = data[pos + j]
    <3>1. pos + n \in pos .. Len(data) /\ (pos + n) - pos = n
      BY <2>3
    <3> QED BY <2>3, <3>1, Parts
  <2>9. \A j \in 1 .. n : sourceData[Start + pos + j] = data[pos + j]
    <3>1. \A j \in 1 .. n : pos + j \in 1 .. size /\ Start + (pos + j) = Start + pos + j
      BY <2>3, <2>4
    <3> QED BY <2>4, <3>1
  <2> DEFINE r == ReadSourceData(pos, n)
             u == SubSeq(data, pos + 1, pos + n)
  <2>10. r \in Bytes /\ u \in Bytes /\ Len(r) = n /\ Len(u) = n /\ \A j \in 1 .. n : r[j] = u[j]
    BY <2>7, <2>8, <2>9
  <2> HIDE DEF r, u
  <2>11. r = u
    BY <2>10, SeqEqual DEF Bytes
  <2> QED BY <2>6, <2>11 DEF r, u, data
<1> QED BY <1>7, <1>8

(***************************************************************************)
(* The differ                                                              *)
(***************************************************************************)

Cursor(p) == [file |-> p.file, pos |-> p.pos, out |-> p.out]

\* What has been written so far makes the patcher write what has been read.
Walking ==
    /\ phase = "analyze" => at = 0
    /\ phase \in {"analyze", "next"} => Yields(old, writer, BeforeOf(new, at))
    /\ phase \in InFile => Yields(old, writer, Upto(new, at, scan))
    /\ phase = "file" => scan = 0
    /\ phase \in {"bsdiff", "rollsums"} => ~HasCopy /\ writer.file = SourceFile.path
    /\ phase = "bsdiff" => writer.pos <= Size(SourceFile)
    /\ phase \notin Patching => Cursor(patch) = Fresh

\* The patcher is where running the operations would have brought it.
Replaying ==
    /\ phase \in {"patch", "patched"} =>
          \E run : /\ Runs(old, run, writer.ops, At(writer, NewStream))
                   /\ run[patch.next - 1] = Cursor(patch)
    /\ phase = "patched" => patch.next = Len(writer.ops) + 1

Right ==
    /\ Typed
    /\ Proper(old, new)
    /\ phase # "analyze" => Analyzed
    /\ phase # "failed"
    /\ Walking
    /\ Replaying

\* What a step of the walk must show.
LEMMA WalkRight ==
    ASSUME Right, Typed', Continue, phase \notin Patching, phase # "analyze",
           phase' \in {"next"} \cup InFile,
           phase' = "next" => Yields(old, writer', BeforeOf(new, at')),
           phase' \in InFile => Yields(old, writer', Upto(new, at', scan')),
           phase' = "file" => scan' = 0,
           phase' \in {"bsdiff", "rollsums"} =>
               at' = at /\ ~HasCopy /\ writer'.file = SourceFile.path,
           phase' = "bsdiff" => writer'.pos <= Size(SourceFile)
    PROVE  Right'
<1>1. UNCHANGED <<old, new, source, offset, sourceData, patch>>
  BY DEF Continue, archives, analysis
<1>2. Analyzed' /\ Proper(old, new)'
  BY <1>1 DEF Right, Analyzed, Kept, Used
<1>3. phase' \notin {"analyze", "failed", "patch", "patched"}
  BY DEF InFile
<1>4. Walking'
  <2>1. BeforeOf(new, at)' = BeforeOf(new, at') /\ Upto(new, at, scan)' = Upto(new, at', scan')
    BY <1>1 DEF BeforeOf, Upto, Streamed, Header
  <2>2. phase' \in {"bsdiff", "rollsums"} => ~HasCopy' /\ (writer.file = SourceFile.path)'
    BY <1>1 DEF HasCopy, HasSource, SourceFile, File
  <2>3. phase' = "bsdiff" => (writer.pos <= Size(SourceFile))'
    BY <1>1 DEF SourceFile, Size, InFile
  <2>4. Cursor(patch)' = Fresh
    BY <1>1 DEF Right, Walking, Cursor
  <2> QED BY <1>1, <1>3, <2>1, <2>2, <2>3, <2>4 DEF Walking
<1>5. Replaying'
  BY <1>3 DEF Replaying
<1> QED BY <1>2, <1>3, <1>4, <1>5 DEF Right

\* What is carried along as it is.
LEMMA LiteralYields ==
    ASSUME new \in Archives, NEW k \in DOMAIN new, NEW w \in Writers,
           NEW m \in 0 .. Size(new[k]), NEW n \in m .. Size(new[k]),
           Yields(old, w, Upto(new, k, m))
    PROVE  LET v == WriteContent(w, SubSeq(new[k].data, m + 1, n))
           IN  v \in Writers /\ v.file = w.file /\ v.pos = w.pos
               /\ Yields(old, v, Upto(new, k, n))
<1>1. new[k].data \in Bytes /\ Size(new[k]) = Len(new[k].data) /\ Size(new[k]) \in Nat
  BY ArchiveEntries DEF Size
<1>2. SubSeq(new[k].data, m + 1, n) \in Stream
  <2>1. m \in Nat /\ n \in m .. Len(new[k].data)
    BY <1>1
  <2> QED BY <1>1, <2>1, Parts, BytesStream
<1>3. Upto(new, k, m) \o SubSeq(new[k].data, m + 1, n) = Upto(new, k, n)
  BY ByteByByte
<1> DEFINE data == SubSeq(new[k].data, m + 1, n)
           out  == Upto(new, k, m)
<1> HIDE DEF data, out
<1>4. Yields(old, WriteContent(w, data), out \o data)
  BY <1>2, CollectYields DEF data, out
<1>5. /\ WriteContent(w, data) \in Writers
      /\ WriteContent(w, data).file = w.file /\ WriteContent(w, data).pos = w.pos
  BY <1>2, Methods DEF data
<1> QED BY <1>3, <1>4, <1>5 DEF data, out

\* What is copied from an open old file.
LEMMA CopiedYields ==
    ASSUME old \in Archives, new \in Archives, NEW k \in DOMAIN new, NEW w \in Writers,
           NEW m \in 0 .. Size(new[k]), NEW n \in m .. Size(new[k]),
           Yields(old, w, Upto(new, k, m)),
           NEW f, EntriesOf(old, w.file) # {}, EntryOf(old, w.file) = f,
           NEW pos \in Nat, pos + (n - m) <= Size(f), Size(f) \in Nat,
           SubSeq(f.data, pos + 1, pos + (n - m)) = SubSeq(new[k].data, m + 1, n)
    PROVE  LET v == CopyFileAt(w, pos, n - m)
           IN  v.file = w.file /\ Yields(old, v, Upto(new, k, n))
<1> DEFINE l == n - m
           v == Seek(w, pos)
<1>1. Size(new[k]) \in Nat
  BY ArchiveEntries
<1>2. l \in Nat /\ pos <= Size(f)
  BY <1>1
<1>3. v \in Writers /\ v.file = w.file /\ v.pos = pos
  BY Methods
<1>4. Yields(old, v, Upto(new, k, m))
  BY <1>2, MoveYields
<1> HIDE DEF v
<1>5. CanRead(old, v, l)
  BY <1>3 DEF CanRead
<1>6. DataAt(old, v, l) = SubSeq(new[k].data, m + 1, n)
  BY <1>3 DEF DataAt
<1>7. Upto(new, k, m) \o SubSeq(new[k].data, m + 1, n) = Upto(new, k, n)
  BY ByteByByte
<1> HIDE DEF l
<1>8. Yields(old, CopyFile(v, l), Upto(new, k, n))
  BY <1>2, <1>3, <1>4, <1>5, <1>6, <1>7, CopyYields
<1>9. CopyFile(v, l).file = w.file
  BY <1>2, <1>3, Methods
<1> QED BY <1>8, <1>9 DEF CopyFileAt, v, l

\* Adding a difference again gives what was compared.
LEMMA DifferenceAdds ==
    ASSUME NEW x \in 0 .. (Base - 1), NEW y \in 0 .. (Base - 1)
    PROVE  (((x - y) % Base) + y) % Base = x
<1>1. Base \in Nat \ {0}
  BY TarDeltaAssumption
<1>2. /\ \A z \in 0 .. (Base - 1) : z % Base = z
      /\ \A z \in 0 .. (Base - 1) : (z + Base) % Base = z
      /\ \A z \in 0 .. (Base - 1) : (z - Base) % Base = z
  BY <1>1
<1>3. CASE x >= y
  <2>1. x - y \in 0 .. (Base - 1)
    BY <1>1, <1>3
  <2>2. (x - y) % Base = x - y
    BY <1>2, <2>1
  <2> QED BY <1>2, <2>2
<1>4. CASE x < y
  <2> DEFINE z == x - y + Base
  <2>1. z \in 0 .. (Base - 1) /\ x - y = z - Base /\ z + y = x + Base
    BY <1>1, <1>4
  <2> HIDE DEF z
  <2>2. (x - y) % Base = z
    BY <1>2, <2>1
  <2> QED BY <1>2, <2>1, <2>2
<1> QED BY <1>3, <1>4

\* db are the differences of n bytes of data from m on and of oldbin from l on.
Compares(db, n, data, m, oldbin, l) ==
    /\ data \in Bytes /\ m \in Nat /\ n \in Nat /\ m + n <= Len(data)
    /\ oldbin \in Bytes /\ l \in Nat /\ l + n <= Len(oldbin)
    /\ db \in Stream /\ Len(db) = n
    /\ \A i \in 1 .. n : /\ data[m + i] \in 0 .. (Base - 1)
                         /\ oldbin[l + i] \in 0 .. (Base - 1)
                         /\ db[i] = (data[m + i] - oldbin[l + i]) % Base

\* What a round of bsdiff compares is what the patcher puts together again.
LEMMA RoundSums ==
    ASSUME NEW data, NEW oldbin, NEW m, NEW l, NEW n, NEW db,
           Compares(db, n, data, m, oldbin, l),
           NEW w, EntryOf(old, w.file).data = oldbin, w.pos = l
    PROVE  Sums(old, w, db) = SubSeq(data, m + 1, m + n)
<1> DEFINE read == SubSeq(oldbin, l + 1, l + n)
           wanted == SubSeq(data, m + 1, m + n)
<1>1. /\ data \in Bytes /\ m \in Nat /\ n \in Nat /\ m + n <= Len(data)
      /\ oldbin \in Bytes /\ l \in Nat /\ l + n <= Len(oldbin)
  BY DEF Compares
<1>2. DataAt(old, w, n) = read
  BY DEF DataAt
<1>3. \A i \in 1 .. n : read[i] = oldbin[l + i]
  <2>1. Len(oldbin) \in Nat
    BY <1>1, LenProperties DEF Bytes
  <2>2. l + n \in l .. Len(oldbin) /\ (l + n) - l = n
    BY <1>1, <2>1
  <2> QED BY <1>1, <2>2, Parts
<1>4. /\ wanted \in Bytes /\ Len(wanted) = n
      /\ \A i \in 1 .. n : wanted[i] = data[m + i]
  <2>1. Len(data) \in Nat
    BY <1>1, LenProperties DEF Bytes
  <2>2. m + n \in m .. Len(data) /\ (m + n) - m = n
    BY <1>1, <2>1
  <2> QED BY <1>1, <2>2, Parts
<1> HIDE DEF read, wanted
<1>5. \A i \in 1 .. n : (db[i] + read[i]) % Base = wanted[i]
  <2> SUFFICES ASSUME NEW i \in 1 .. n PROVE (db[i] + read[i]) % Base = wanted[i]
    OBVIOUS
  <2> DEFINE x == data[m + i]
             y == oldbin[l + i]
  <2>1. /\ x \in 0 .. (Base - 1) /\ y \in 0 .. (Base - 1)
        /\ db[i] = (x - y) % Base /\ read[i] = y /\ wanted[i] = x
    BY <1>3, <1>4 DEF Compares
  <2> HIDE DEF x, y
  <2> QED BY <2>1, DifferenceAdds
<1>6. wanted = [i \in 1 .. n |-> wanted[i]]
  BY <1>4 DEF Bytes
<1>7. Sums(old, w, db) = [i \in 1 .. n |-> (db[i] + read[i]) % Base]
  BY <1>2 DEF Sums, Compares
<1> QED BY <1>5, <1>6, <1>7 DEF wanted

\* A round of bsdiff.
LEMMA RoundYields ==
    ASSUME Right, phase = "bsdiff",
           NEW n \in 0 .. Size(File) - scan, NEW next \in scan .. Size(File),
           NEW pos \in 0 .. Size(SourceFile),
           writer.pos + n <= Size(SourceFile), scan + n <= next
    PROVE  /\ Yields(old, Round(n, next, pos), Upto(new, at, next))
           /\ Round(n, next, pos).file = SourceFile.path
           /\ Round(n, next, pos).pos = pos
<1>1. /\ Typed /\ HasSource /\ ~HasCopy /\ writer \in Writers
      /\ writer.file = SourceFile.path
      /\ Yields(old, writer, Upto(new, at, scan))
  BY DEF Right, Typed, Walking, InFile
<1>2. /\ old \in Archives /\ new \in Archives /\ at \in DOMAIN new
      /\ File.data \in Bytes /\ Size(File) = Len(File.data) /\ Size(File) \in Nat
      /\ scan \in 0 .. Size(File) /\ scan \in Nat
      /\ SourceFile.data \in Bytes /\ Size(SourceFile) = Len(SourceFile.data)
      /\ Size(SourceFile) \in Nat
  BY <1>1, FileTyped DEF InFile
<1>3. /\ EntriesOf(old, SourceFile.path) # {} /\ EntryOf(old, SourceFile.path) = SourceFile
      /\ \A p, m \in Nat : p + m <= Size(SourceFile) =>
            ReadSourceData(p, m) = SubSeq(SourceFile.data, p + 1, p + m)
  BY <1>1, SourceRight DEF Right, InFile
<1> DEFINE data   == File.data
           oldbin == ReadSourceData(0, Size(SourceFile))
           l      == writer.pos
           db     == DB(n, oldbin, l)
           eb     == SubSeq(data, scan + n + 1, next)
           w      == WriteAddContent(writer, db)
           v      == WriteContent(w, eb)
<1>4. oldbin = SourceFile.data
  <2> DEFINE first == 0
             size  == Size(SourceFile)
  <2>1. /\ first \in Nat /\ size \in Nat /\ first + size <= size
        /\ first + size = size /\ first + 1 = 1
    BY <1>2
  <2>2. oldbin = ReadSourceData(first, size)
    OBVIOUS
  <2> HIDE DEF first, size, oldbin
  <2>3. oldbin = SubSeq(SourceFile.data, first + 1, first + size)
    BY <1>3, <2>1, <2>2 DEF size
  <2>4. SubSeq(SourceFile.data, 1, Len(SourceFile.data)) = SourceFile.data
    BY <1>2, SubSeqFull DEF Bytes
  <2> QED BY <1>2, <2>1, <2>3, <2>4 DEF size
<1>5. /\ l \in Nat /\ n \in Nat /\ scan + n <= Len(data) /\ l + n <= Len(oldbin)
      /\ scan + n \in scan .. Size(File) /\ scan + n \in 0 .. Size(File)
      /\ next \in scan + n .. Size(File) /\ pos \in Nat
  <2>1. l \in Nat
    BY <1>1, Methods
  <2>2. Len(data) = Size(File) /\ Len(oldbin) = Size(SourceFile)
    BY <1>2, <1>4
  <2> HIDE DEF oldbin, data
  <2> QED BY <1>2, <2>1, <2>2
<1>6. db = [i \in 1..n |-> (data[scan + i] - oldbin[l + i]) % Base]
  BY DEF DB
<1> HIDE DEF data, oldbin, l, db
<1>7. Compares(db, n, data, scan, oldbin, l) /\ db \in Stream /\ Len(db) = n
  <2>1. data \in Bytes /\ oldbin \in Bytes
    BY <1>2, <1>4 DEF data
  <2>2. /\ [i \in 1..n |-> (data[scan + i] - oldbin[l + i]) % Base] \in Stream
        /\ Len([i \in 1..n |-> (data[scan + i] - oldbin[l + i]) % Base]) = n
        /\ \A i \in 1 .. n : /\ data[scan + i] \in 0 .. (Base - 1)
                             /\ oldbin[l + i] \in 0 .. (Base - 1)
    BY <1>2, <1>5, <2>1, Differences
  <2>3. n \in Nat /\ scan + n <= Len(data) /\ l + n <= Len(oldbin) /\ scan \in Nat /\ l \in Nat
    BY <1>2, <1>5
  <2> QED BY <1>6, <2>1, <2>2, <2>3, Zenon DEF Compares
<1>8. Sums(old, writer, db) = SubSeq(data, scan + 1, scan + n)
  <2>1. EntryOf(old, writer.file).data = oldbin /\ writer.pos = l
    BY <1>1, <1>3, <1>4 DEF l
  <2> QED BY <1>7, <2>1, RoundSums
<1>9. w \in Writers /\ w.file = SourceFile.path /\ w.pos = l + n
  BY <1>1, <1>7, Methods DEF l
<1>10. Yields(old, w, Upto(new, at, scan + n))
  <2>1. CanRead(old, writer, Len(db))
    BY <1>1, <1>3, <1>7 DEF CanRead
  <2>2. Sums(old, writer, db) \in Stream
    <3>1. scan + n \in scan .. Len(data) /\ data \in Bytes
      BY <1>2, <1>5 DEF data
    <3> QED BY <1>2, <1>8, <3>1, Parts, BytesStream
  <2>3. Yields(old, w, Upto(new, at, scan) \o Sums(old, writer, db))
    BY <1>1, <1>2, <1>7, <2>1, <2>2, AddYields
  <2>4. Upto(new, at, scan) \o SubSeq(data, scan + 1, scan + n) = Upto(new, at, scan + n)
    BY <1>2, <1>5, ByteByByte DEF data, File
  <2> QED BY <1>8, <2>3, <2>4
<1> HIDE DEF w
<1>11. v \in Writers /\ v.file = SourceFile.path /\ v.pos = l + n
       /\ Yields(old, v, Upto(new, at, next))
  BY <1>2, <1>5, <1>9, <1>10, LiteralYields DEF data, File
<1> HIDE DEF v
<1>12. /\ pos - (l + n) \in Int /\ v.pos + (pos - (l + n)) = pos
       /\ v.pos + (pos - (l + n)) \in Nat
  BY <1>5, <1>11
<1>13. Yields(old, SeekForward(v, pos - (l + n)), Upto(new, at, next))
  <2>1. EntriesOf(old, v.file) # {} /\ pos <= Size(EntryOf(old, v.file))
    BY <1>2, <1>3, <1>11
  <2> QED BY <1>5, <1>11, <1>12, <2>1, MoveYields
<1>14. /\ SeekForward(v, pos - (l + n)).file = SourceFile.path
       /\ SeekForward(v, pos - (l + n)).pos = pos
  BY <1>11, <1>12, Methods
<1>15. Round(n, next, pos) = SeekForward(v, pos - (l + n))
  BY DEF Round, v, w, db, oldbin, l, data
<1> QED BY <1>13, <1>14, <1>15

\* While a file is dealt with.
LEMMA FileRight ==
    ASSUME Right, phase \in InFile
    PROVE  /\ writer \in Writers /\ old \in Archives /\ new \in Archives
           /\ at \in DOMAIN new /\ File = new[at]
           /\ scan \in 0 .. Size(File) /\ Size(File) \in Nat
           /\ File.data \in Bytes /\ Size(File) = Len(File.data)
           /\ SubSeq(File.data, 1, Size(File)) = File.data
           /\ Yields(old, writer, Upto(new, at, scan))
           /\ Upto(new, at, Size(File)) = BeforeOf(new, at)
           /\ HasSource =>
                 /\ SourceFile.path \in Paths /\ Size(SourceFile) \in Nat
                 /\ SourceFile.data \in Bytes /\ Size(SourceFile) = Len(SourceFile.data)
                 /\ SubSeq(SourceFile.data, 1, Size(SourceFile)) = SourceFile.data
                 /\ EntriesOf(old, SourceFile.path) # {}
                 /\ EntryOf(old, SourceFile.path) = SourceFile
<1>1. Typed /\ Analyzed /\ Proper(old, new) /\ Yields(old, writer, Upto(new, at, scan))
  BY DEF Right, Walking, InFile
<1>2. /\ old \in Archives /\ new \in Archives /\ at \in DOMAIN new /\ writer \in Writers
      /\ scan \in 0 .. Size(File) /\ Size(File) \in Nat /\ File = new[at]
      /\ File.data \in Bytes /\ Size(File) = Len(File.data)
  BY <1>1, FileTyped DEF Typed, File
<1>3. SubSeq(File.data, 1, Size(File)) = File.data
  BY <1>2, SubSeqFull DEF Bytes
<1>4. Upto(new, at, Size(File)) = BeforeOf(new, at)
  BY <1>2, ByteByByte
<1>5. ASSUME HasSource
      PROVE  /\ SourceFile.path \in Paths /\ Size(SourceFile) \in Nat
             /\ SourceFile.data \in Bytes /\ Size(SourceFile) = Len(SourceFile.data)
             /\ SubSeq(SourceFile.data, 1, Size(SourceFile)) = SourceFile.data
             /\ EntriesOf(old, SourceFile.path) # {}
             /\ EntryOf(old, SourceFile.path) = SourceFile
  <2>1. /\ SourceFile.path \in Paths /\ Size(SourceFile) \in Nat
        /\ SourceFile.data \in Bytes /\ Size(SourceFile) = Len(SourceFile.data)
    BY <1>1, <1>5, FileTyped
  <2>2. SubSeq(SourceFile.data, 1, Size(SourceFile)) = SourceFile.data
    BY <2>1, SubSeqFull DEF Bytes
  <2> QED BY <1>1, <1>5, <2>1, <2>2, SourceRight
<1> QED BY <1>1, <1>2, <1>3, <1>4, <1>5

\* A file that is referred to is opened.
LEMMA SourceOpened ==
    ASSUME Right, phase \in InFile, HasSource
    PROVE  LET w == SetCurrentFile(writer, SourceFile.path)
           IN  w \in Writers /\ w.file = SourceFile.path
               /\ Yields(old, w, Upto(new, at, scan))
BY FileRight, OpenYields, Methods

\* The next header.
LEMMA HeaderRight == ASSUME Right, Typed', NextHeader PROVE Right'
<1>1. /\ phase = "next" /\ at < Len(new) /\ at' = at + 1 /\ scan' = 0 /\ phase' = "file"
      /\ writer' = WriteContent(writer, <<Header(at + 1)>>) /\ Continue
  BY DEF NextHeader, Steal
<1>2. /\ new \in Archives /\ at \in 0 .. Len(new) /\ writer \in Writers
      /\ Yields(old, writer, BeforeOf(new, at))
  BY <1>1, ChosenPair DEF Right, Walking, Typed, TypeOK
<1>3. at + 1 \in DOMAIN new /\ (at + 1) - 1 = at
  BY <1>1, <1>2, ArchiveEntries
<1>4. Upto(new, at + 1, 0) = BeforeOf(new, at) \o <<Header(at + 1)>>
  BY <1>2, <1>3, ByteByByte
<1>5. <<Header(at + 1)>> \in Stream
  BY <1>2, <1>3, EntryByEntry
<1>6. Yields(old, writer', Upto(new, at', scan'))
  BY <1>1, <1>2, <1>4, <1>5, CollectYields
<1> QED BY <1>1, <1>6, WalkRight DEF InFile, Patching

\* A file that is copied whole.
LEMMA ReuseRight == ASSUME Right, Typed', ReuseOldFile PROVE Right'
<1>1. /\ phase = "file" /\ HasSource /\ SourceFile.data = File.data
      /\ writer' = WriteOldFile(writer, SourceFile.path, Size(SourceFile))
      /\ phase' = "next" /\ at' = at /\ Continue
  BY DEF ReuseOldFile, HasCopy
<1>2. phase \in InFile /\ scan = 0
  BY <1>1 DEF Right, Walking, InFile
<1> DEFINE w == SetCurrentFile(writer, SourceFile.path)
           n == Size(File)
<1>3. /\ w \in Writers /\ w.file = SourceFile.path /\ Yields(old, w, Upto(new, at, 0))
  BY <1>1, <1>2, SourceOpened
<1>4. writer' = CopyFileAt(w, 0, n - 0)
  <2>1. Size(SourceFile) = n /\ n - 0 = n
    BY <1>1, <1>2, FileRight DEF Size
  <2> HIDE DEF w, n
  <2> QED BY <1>1, <2>1 DEF WriteOldFile, CopyFileAt, w
<1>5. Yields(old, CopyFileAt(w, 0, n - 0), Upto(new, at, n))
  <2>1. /\ old \in Archives /\ new \in Archives /\ at \in DOMAIN new /\ n = Size(new[at])
        /\ n \in Nat /\ n - 0 = n /\ Size(SourceFile) = n
        /\ EntriesOf(old, w.file) # {} /\ EntryOf(old, w.file) = SourceFile
    BY <1>1, <1>2, <1>3, FileRight DEF Size
  <2> DEFINE first == 0
  <2>2. /\ first \in Nat /\ first \in 0 .. n /\ n \in first .. n
        /\ first + (n - first) <= Size(SourceFile) /\ n - first = n - 0
    BY <2>1
  <2>3. SubSeq(SourceFile.data, first + 1, first + (n - first)) = SubSeq(new[at].data, first + 1, n)
    BY <1>1, <2>1 DEF File
  <2>4. Yields(old, w, Upto(new, at, first))
    BY <1>3
  <2> DEFINE f == SourceFile
  <2>5. /\ EntriesOf(old, w.file) # {} /\ EntryOf(old, w.file) = f /\ Size(f) \in Nat
        /\ first + (n - first) <= Size(f)
        /\ SubSeq(f.data, first + 1, first + (n - first)) = SubSeq(new[at].data, first + 1, n)
    BY <2>1, <2>2, <2>3
  <2>6. first \in 0 .. Size(new[at]) /\ n \in first .. Size(new[at])
    BY <2>1, <2>2
  <2> HIDE DEF first, w, n, f
  <2>7. Yields(old, CopyFileAt(w, first, n - first), Upto(new, at, n))
    BY <1>3, <2>1, <2>2, <2>4, <2>5, <2>6, CopiedYields
  <2> QED BY <2>7 DEF first
<1>6. Yields(old, writer', BeforeOf(new, at'))
  BY <1>1, <1>2, <1>4, <1>5, FileRight
<1> QED BY <1>1, <1>6, WalkRight DEF InFile, Patching

\* A file that will be compared.
LEMMA StartRight == ASSUME Right, Typed', StartBsdiff \/ StartRollsums PROVE Right'
<1> DEFINE w == SetCurrentFile(writer, SourceFile.path)
<1>1. /\ phase = "file" /\ HasSource /\ ~HasCopy /\ at' = at /\ scan' = scan /\ Continue
      /\ phase \in InFile /\ phase \notin Patching
  BY DEF StartBsdiff, StartRollsums, InFile, Patching
<1>2. w \in Writers /\ w.file = SourceFile.path /\ Yields(old, w, Upto(new, at, scan))
  BY <1>1, SourceOpened
<1>3. /\ Size(SourceFile) \in Nat /\ EntriesOf(old, SourceFile.path) # {}
      /\ EntryOf(old, SourceFile.path) = SourceFile
  BY <1>1, FileRight
<1>4. CASE StartRollsums
  <2>1. writer' = w /\ phase' = "rollsums"
    BY <1>4 DEF StartRollsums
  <2> HIDE DEF w
  <2> QED BY <1>1, <1>2, <2>1, WalkRight DEF InFile
<1>5. CASE StartBsdiff
  <2>1. writer' = Seek(w, 0)
    BY <1>5 DEF StartBsdiff
  <2>2. phase' = "bsdiff"
    <3>1. 0 \in Nat /\ 0 + Size(SourceFile) <= Size(SourceFile)
      BY <1>3
    <3>2. CanReadSourceData(0, Size(SourceFile))
      BY <1>1, <1>3, <3>1, SourceRight DEF Right
    <3> QED BY <1>5, <3>2 DEF StartBsdiff
  <2> HIDE DEF w
  <2>3. 0 \in Nat /\ 0 <= Size(EntryOf(old, w.file)) /\ EntriesOf(old, w.file) # {}
    BY <1>2, <1>3
  <2>4. writer'.file = SourceFile.path /\ writer'.pos = 0
    BY <1>2, <2>1, <2>3, Methods
  <2>5. Yields(old, writer', Upto(new, at', scan'))
    BY <1>1, <1>2, <2>1, <2>3, MoveYields
  <2>6. writer'.pos <= Size(SourceFile)
    BY <1>3, <2>4
  <2> QED BY <1>1, <2>2, <2>4, <2>5, <2>6, WalkRight DEF InFile
<1> QED BY <1>4, <1>5

\* A round of bsdiff.
LEMMA BsdiffRight == ASSUME Right, Typed', Bsdiff PROVE Right'
<1>1. /\ phase = "bsdiff" /\ at' = at /\ Continue /\ Typed
      /\ phase \in InFile /\ phase \notin Patching /\ ~HasCopy
  BY BsdiffRounds DEF Right, Walking, InFile, Patching
<1>2. PICK n \in 0 .. Size(File) - scan, next \in scan .. Size(File),
           pos \in 0 .. Size(SourceFile) :
        /\ writer.pos + n <= Size(SourceFile) /\ scan + n <= next
        /\ writer' = Round(n, next, pos) /\ scan' = next
        /\ phase' = IF next = Size(File) THEN "next" ELSE "bsdiff"
  BY <1>1, BsdiffRounds
<1>3. /\ Yields(old, writer', Upto(new, at, next))
      /\ writer'.file = SourceFile.path /\ writer'.pos = pos
  BY <1>1, <1>2, RoundYields
<1>4. Upto(new, at, Size(File)) = BeforeOf(new, at) /\ pos <= Size(SourceFile)
  <2>1. HasSource
    BY <1>1 DEF Typed
  <2> QED BY <1>1, <2>1, FileRight
<1>5. phase' = "next" => Yields(old, writer', BeforeOf(new, at'))
  BY <1>1, <1>2, <1>3, <1>4
<1> QED BY <1>1, <1>2, <1>3, <1>4, <1>5, WalkRight DEF InFile

\* The next chunk that is found in the old file, or what is left after them.
LEMMA MatchRight == ASSUME Right, Typed', NextMatch PROVE Right'
<1>1. /\ phase = "rollsums" /\ HasSource /\ ~HasCopy /\ writer.file = SourceFile.path
      /\ phase \in InFile /\ phase \notin Patching
  BY DEF NextMatch, Right, Typed, Walking, InFile, Patching
<1>2. /\ writer \in Writers /\ old \in Archives /\ new \in Archives
      /\ at \in DOMAIN new /\ File = new[at]
      /\ scan \in 0 .. Size(File) /\ Size(File) \in Nat
      /\ File.data \in Bytes /\ Size(File) = Len(File.data)
      /\ Yields(old, writer, Upto(new, at, scan))
      /\ Size(SourceFile) \in Nat /\ SourceFile.data \in Bytes
      /\ Size(SourceFile) = Len(SourceFile.data)
      /\ EntriesOf(old, SourceFile.path) # {}
      /\ EntryOf(old, SourceFile.path) = SourceFile
  BY <1>1, FileRight
<1> DEFINE to   == First(MatchesLeft)
           from == First(FoundIn(SourceFile.data, File.data, to))
           skipped == WriteContent(writer, SubSeq(File.data, scan + 1, to.offset))
           dst  == Chunk(File.data, to)
           same == /\ CanReadSourceData(from.offset, from.size)
                   /\ ReadSourceData(from.offset, from.size) = dst
<1>3. /\ writer' = IF same THEN CopyFileAt(skipped, from.offset, from.size)
                           ELSE WriteContent(skipped, dst)
      /\ scan' = to.offset + to.size
      /\ phase' = IF CanReadSourceData(from.offset, from.size) THEN "rollsums" ELSE "failed"
      /\ at' = at /\ Continue
  BY DEF NextMatch, Steal
<1>4. /\ to \in Matches(SourceFile.data, File.data) /\ to \in Blobs(File.data)
      /\ to.offset >= scan
  <2>1. MatchesLeft \subseteq Blobs(File.data) /\ MatchesLeft # {}
    BY DEF NextMatch, MatchesLeft, Matches
  <2>2. to \in MatchesLeft
    BY <1>2, <2>1, FirstIsOne
  <2> QED BY <2>1, <2>2 DEF MatchesLeft
<1>5. from \in Blobs(SourceFile.data) /\ from.size = to.size
  <2>1. FoundIn(SourceFile.data, File.data, to) \subseteq Blobs(SourceFile.data)
    BY DEF FoundIn
  <2>2. FoundIn(SourceFile.data, File.data, to) # {}
    BY <1>4 DEF Matches
  <2> HIDE DEF to
  <2>3. from \in FoundIn(SourceFile.data, File.data, to)
    BY <1>2, <2>1, <2>2, FirstIsOne
  <2> HIDE DEF from
  <2> QED BY <2>1, <2>3 DEF FoundIn
<1> HIDE DEF to, from
<1> DEFINE m == to.offset
           n == to.offset + to.size
<1>6. /\ m \in scan .. Size(File) /\ m \in 0 .. Size(File) /\ n \in m .. Size(File)
      /\ from.size = n - m /\ n - m \in Nat /\ m + (n - m) = n /\ m + to.size = n
      /\ from.offset \in Nat /\ from.offset + (n - m) <= Size(SourceFile)
  <2>1. /\ to.offset \in Nat /\ to.size \in Nat /\ to.offset + to.size <= Size(File)
        /\ from.offset \in Nat /\ from.offset + from.size <= Size(SourceFile)
    BY <1>2, <1>4, <1>5, BlobBounds
  <2> QED BY <1>2, <1>4, <1>5, <2>1
<1> HIDE DEF skipped, dst, same
<1>7. skipped \in Writers /\ skipped.file = SourceFile.path /\ Yields(old, skipped, Upto(new, at, m))
  BY <1>1, <1>2, <1>6, LiteralYields DEF skipped
<1>8. /\ CanReadSourceData(from.offset, from.size)
      /\ ReadSourceData(from.offset, from.size)
            = SubSeq(SourceFile.data, from.offset + 1, from.offset + (n - m))
  BY <1>1, <1>6, SourceRight DEF Right
<1>9. dst = SubSeq(new[at].data, m + 1, n)
  BY <1>2 DEF dst, Chunk
<1> HIDE DEF m, n
<1>10. CASE same
  <2>1. SubSeq(SourceFile.data, from.offset + 1, from.offset + (n - m)) = SubSeq(new[at].data, m + 1, n)
    BY <1>8, <1>9, <1>10 DEF same
  <2>2. /\ Yields(old, CopyFileAt(skipped, from.offset, n - m), Upto(new, at, n))
        /\ CopyFileAt(skipped, from.offset, n - m).file = SourceFile.path
    <3> DEFINE p == from.offset
               f == SourceFile
    <3>1. /\ p \in Nat /\ p + (n - m) <= Size(f) /\ Size(f) \in Nat
          /\ EntriesOf(old, skipped.file) # {} /\ EntryOf(old, skipped.file) = f
          /\ SubSeq(f.data, p + 1, p + (n - m)) = SubSeq(new[at].data, m + 1, n)
      BY <1>2, <1>6, <1>7, <2>1
    <3>2. m \in 0 .. Size(new[at]) /\ n \in m .. Size(new[at])
      BY <1>2, <1>6
    <3> HIDE DEF p, f
    <3>3. /\ CopyFileAt(skipped, p, n - m).file = skipped.file
          /\ Yields(old, CopyFileAt(skipped, p, n - m), Upto(new, at, n))
      BY <1>2, <1>7, <3>1, <3>2, CopiedYields
    <3> QED BY <1>7, <3>3 DEF p
  <2>3. writer' = CopyFileAt(skipped, from.offset, n - m) /\ scan' = n /\ phase' = "rollsums"
    BY <1>3, <1>6, <1>8, <1>10 DEF n
  <2> QED BY <1>1, <1>3, <2>2, <2>3, WalkRight DEF InFile
<1>11. CASE ~same
  <2>1. /\ Yields(old, WriteContent(skipped, dst), Upto(new, at, n))
        /\ WriteContent(skipped, dst).file = SourceFile.path
    BY <1>2, <1>6, <1>7, <1>9, LiteralYields
  <2>2. writer' = WriteContent(skipped, dst) /\ scan' = n /\ phase' = "rollsums"
    BY <1>3, <1>8, <1>11 DEF n
  <2> QED BY <1>1, <1>3, <2>1, <2>2, WalkRight DEF InFile
<1> QED BY <1>10, <1>11

\* What is left of a file is carried along.
LEMMA RestRight == ASSUME Right, Typed', EndRollsums \/ CopyRest PROVE Right'
<1>1. /\ phase \in InFile /\ phase \notin Patching /\ phase # "analyze" /\ at' = at
      /\ phase' = "next" /\ Continue
  BY DEF EndRollsums, CopyRest, InFile, Patching
<1>2. /\ writer \in Writers /\ new \in Archives /\ at \in DOMAIN new /\ File = new[at]
      /\ scan \in 0 .. Size(File) /\ Size(File) \in Nat
      /\ SubSeq(File.data, 1, Size(File)) = File.data
      /\ Yields(old, writer, Upto(new, at, scan))
      /\ Upto(new, at, Size(File)) = BeforeOf(new, at)
  BY <1>1, FileRight
<1>3. writer' = WriteContent(writer, SubSeq(File.data, scan + 1, Size(File)))
  <2>1. CASE EndRollsums
    BY <2>1 DEF EndRollsums, Steal
  <2>2. CASE CopyRest
    <3>1. scan = 0
      BY <2>2 DEF CopyRest, Right, Walking
    <3>2. scan + 1 = 1
      BY <3>1
    <3> QED BY <1>2, <2>2, <3>2 DEF CopyRest, Steal
  <2> QED BY <2>1, <2>2
<1>4. Size(File) \in scan .. Size(File)
  BY <1>2
<1>5. Yields(old, writer', BeforeOf(new, at'))
  BY <1>1, <1>2, <1>3, <1>4, LiteralYields
<1> QED BY <1>1, <1>5, WalkRight DEF InFile

(***************************************************************************)
(* The patcher                                                             *)
(***************************************************************************)

\* The analysis.
LEMMA AnalyzeRight == ASSUME Right, Typed', Analyze PROVE Right'
<1>1. /\ phase = "analyze" /\ phase' = "next"
      /\ UNCHANGED <<old, new, at, scan, writer, patch>>
  BY DEF Analyze, archives
<1>2. Analyzed'
  BY <1>1 DEF Analyze, Analyzed, Kept, Used
<1>3. BeforeOf(new, at)' = BeforeOf(new, at)
  BY <1>1 DEF BeforeOf, Streamed, Header
<1> QED BY <1>1, <1>2, <1>3 DEF Right, Walking, Replaying, InFile, Patching, Cursor

\* The end of the delta: the operations are those that produce the archive.
LEMMA EndRight == ASSUME Right, Typed', EndDelta PROVE Right'
<1> DEFINE w == WriteContent(writer, <<EndOfArchive>>)
<1>1. /\ phase = "next" /\ at = Len(new) /\ writer' = FlushBuffer(w) /\ phase' = "patch"
      /\ UNCHANGED <<old, new, source, offset, sourceData, patch, at, scan>>
  BY DEF EndDelta, Steal, Continue, archives, analysis
<1>2. /\ new \in Archives /\ writer \in Writers /\ Yields(old, writer, BeforeOf(new, at))
      /\ patch.next = 1 /\ Cursor(patch) = Fresh
  BY <1>1, ChosenPair DEF Right, Walking, Typed, TypeOK, Patching
<1>3. w \in Writers /\ Yields(old, w, NewStream) /\ NewStream \in Stream
  <2>1. /\ NewStream = BeforeOf(new, at) \o <<EndOfArchive>> /\ NewStream \in Stream
        /\ <<EndOfArchive>> \in Stream
    BY <1>1, <1>2, WholeStream
  <2> QED BY <1>2, <2>1, CollectYields, Methods
<1> HIDE DEF w
<1>4. writer' \in Writers /\ writer'.buffer = <<>> /\ Yields(old, writer', NewStream)
  BY <1>1, <1>3, FlushYields, Flushing DEF Writers
<1>5. PICK run, made : /\ made \in Stream /\ made \o writer'.buffer = NewStream
                       /\ Runs(old, run, writer'.ops, At(writer', made))
  BY <1>4 DEF Yields
<1>6. made = NewStream
  BY <1>4, <1>5, StreamAlgebra
<1>7. NewStream' = NewStream
  BY <1>1 DEF NewStream, Header, EndOfArchive
<1>8. run[patch'.next - 1] = Cursor(patch')
  BY <1>1, <1>2, <1>5 DEF Runs
<1>9. Replaying'
  BY <1>1, <1>5, <1>6, <1>7, <1>8 DEF Replaying, Cursor
<1>10. Analyzed' /\ Proper(old, new)'
  BY <1>1 DEF Right, Analyzed, Kept, Used
<1> QED BY <1>1, <1>9, <1>10 DEF Right, Walking, InFile, Patching

\* The operation that is next is the one that follows in the run.
LEMMA ApplyRight ==
    ASSUME Right, Typed', phase = "patch", patch.next <= Len(writer.ops),
           UNCHANGED <<archives, analysis, at, scan, writer>>,
           phase' = "patch", patch'.next = patch.next + 1,
           \A t \in Reader : Does(old, Op, Cursor(patch), t) => Cursor(patch') = t
    PROVE  Right'
<1>1. UNCHANGED <<old, new, source, offset, sourceData, at, scan, writer>>
  BY DEF archives, analysis
<1>2. PICK run : /\ Runs(old, run, writer.ops, At(writer, NewStream))
                 /\ run[patch.next - 1] = Cursor(patch)
  BY DEF Right, Replaying
<1>3. patch.next \in 1 .. Len(writer.ops)
  BY NextOp DEF Right
<1>4. /\ Does(old, Op, Cursor(patch), run[patch.next]) /\ run[patch.next] \in Reader
  <2>1. patch.next \in 0 .. Len(writer.ops)
    BY <1>3
  <2> QED BY <1>2, <1>3, <2>1 DEF Runs, Op
<1>5. run[patch'.next - 1] = Cursor(patch')
  <2>1. patch'.next - 1 = patch.next
    BY <1>3
  <2> QED BY <1>4, <2>1
<1>6. NewStream' = NewStream
  BY <1>1 DEF NewStream, Header, EndOfArchive
<1>7. Replaying'
  BY <1>1, <1>2, <1>5, <1>6 DEF Replaying, Cursor
<1>8. Analyzed' /\ Proper(old, new)'
  BY <1>1 DEF Right, Analyzed, Kept, Used
<1> QED BY <1>7, <1>8 DEF Right, Walking, InFile, Patching

\* What the run says of the operation that is next.
LEMMA Following ==
    ASSUME Right, phase = "patch", patch.next <= Len(writer.ops)
    PROVE  \E t \in Reader : Does(old, Op, Cursor(patch), t)
<1>1. PICK run : /\ Runs(old, run, writer.ops, At(writer, NewStream))
                 /\ run[patch.next - 1] = Cursor(patch)
  BY DEF Right, Replaying
<1>2. patch.next \in 1 .. Len(writer.ops)
  BY NextOp DEF Right
<1>3. patch.next \in 0 .. Len(writer.ops)
  BY <1>2
<1>4. Does(old, Op, Cursor(patch), run[patch.next]) /\ run[patch.next] \in Reader
  BY <1>1, <1>2, <1>3 DEF Runs, Op
<1> QED BY <1>4

\* What Does asks for is what the patcher checks.
LEMMA SameRead ==
    /\ \A path : Entries(path) = EntriesOf(old, path) /\ Entry(path) = EntryOf(old, path)
    /\ \A n : /\ Readable(n) <=> CanRead(old, Cursor(patch), n)
              /\ Current(n) = DataAt(old, Cursor(patch), n)
<1>1. \A path : Entries(path) = EntriesOf(old, path) /\ Entry(path) = EntryOf(old, path)
  BY DEF Entries, Entry, EntriesOf, EntryOf
<1>2. Cursor(patch).file = patch.file /\ Cursor(patch).pos = patch.pos
  BY DEF Cursor
<1> QED BY <1>1, <1>2 DEF Readable, Current, CanRead, DataAt

\* The patcher carries out whatever operation comes next.
LEMMA PatcherRight ==
    ASSUME Right, Typed', ApplyData \/ ApplyOpen \/ ApplySeek \/ ApplyCopy \/ ApplyAdd
    PROVE  Right'
<1>1. /\ phase = "patch" /\ patch.next <= Len(writer.ops)
      /\ UNCHANGED <<archives, analysis, at, scan, writer>>
  BY DEF ApplyData, ApplyOpen, ApplySeek, ApplyCopy, ApplyAdd, Applying, Applied
<1>2. /\ patch \in [next : Nat, file : Paths, pos : Nat, out : Stream]
      /\ Op \in Ops
  BY <1>1, NextOp DEF Right, Typed
<1>3. PICK t \in Reader : Does(old, Op, Cursor(patch), t)
  BY <1>1, Following
<1>4. /\ Cursor(patch).file = patch.file /\ Cursor(patch).pos = patch.pos
      /\ Cursor(patch).out = patch.out
  BY DEF Cursor
<1>5. ASSUME NEW q, patch' = q, phase' = phase, q.next = patch.next + 1,
             \A u : Does(old, Op, Cursor(patch), u) => Cursor(q) = u
      PROVE  Right'
  BY <1>1, <1>5, ApplyRight
<1>6. CASE ApplyData
  <2>1. Op.op = "data" /\ phase' = phase /\ patch' = Output(Op.data)
    BY <1>6 DEF ApplyData, Applying, Applied
  <2>2. Output(Op.data).next = patch.next + 1
    BY <1>2 DEF Output
  <2>3. Cursor(Output(Op.data)) = [file |-> patch.file, pos |-> patch.pos, out |-> patch.out \o Op.data]
    BY <1>2 DEF Output, Cursor
  <2> QED BY <1>4, <1>5, <2>1, <2>2, <2>3 DEF Does
<1>7. CASE ApplyOpen
  <2> DEFINE q == [patch EXCEPT !.file = Op.file, !.pos = 0, !.next = @ + 1]
  <2>1. Op.op = "open" /\ Entries(Op.file) # {}
    BY <1>3, <1>7, SameRead DEF Does, ApplyOpen, Applying
  <2>2. phase' = phase /\ patch' = q
    BY <1>7, <2>1 DEF ApplyOpen, Applied
  <2>3. /\ q.next = patch.next + 1
        /\ Cursor(q) = [file |-> Op.file, pos |-> 0, out |-> patch.out]
    BY <1>2 DEF Cursor
  <2> HIDE DEF q
  <2> QED BY <1>4, <1>5, <2>1, <2>2, <2>3 DEF Does
<1>8. CASE ApplySeek
  <2> DEFINE q == [patch EXCEPT !.pos = Op.pos, !.next = @ + 1]
  <2>1. Op.op = "seek" /\ Entries(patch.file) # {} /\ Op.pos <= Size(Entry(patch.file))
    BY <1>3, <1>4, <1>8, SameRead DEF Does, ApplySeek, Applying
  <2>2. phase' = phase /\ patch' = q
    BY <1>8, <2>1 DEF ApplySeek, Applied
  <2>3. /\ q.next = patch.next + 1
        /\ Cursor(q) = [file |-> patch.file, pos |-> Op.pos, out |-> patch.out]
    BY <1>2 DEF Cursor
  <2> HIDE DEF q
  <2> QED BY <1>4, <1>5, <2>1, <2>2, <2>3 DEF Does
<1>9. CASE ApplyCopy
  <2> DEFINE n == Op.size
             q == [Output(Current(n)) EXCEPT !.pos = @ + n]
  <2>1. Op.op = "copy" /\ Readable(n)
    BY <1>3, <1>9, SameRead DEF Does, ApplyCopy, Applying
  <2>2. phase' = phase /\ patch' = q
    BY <1>9, <2>1 DEF ApplyCopy, Applied
  <2>3. /\ q.next = patch.next + 1
        /\ Cursor(q) = [file |-> patch.file, pos |-> patch.pos + n,
                        out |-> patch.out \o Current(n)]
    BY <1>2 DEF Cursor, Output
  <2> HIDE DEF q
  <2> QED BY <1>4, <1>5, <2>1, <2>2, <2>3, SameRead DEF Does
<1>10. CASE ApplyAdd
  <2> DEFINE n == Len(Op.data)
             sum == [i \in 1..n |-> (Op.data[i] + Current(n)[i]) % Base]
             q == [Output(sum) EXCEPT !.pos = @ + n]
  <2>1. Op.op = "add" /\ Readable(n)
    BY <1>3, <1>10, SameRead DEF Does, ApplyAdd, Applying
  <2>2. phase' = phase /\ patch' = q
    BY <1>10, <2>1 DEF ApplyAdd, Applied
  <2>3. sum = Sums(old, Cursor(patch), Op.data)
    BY SameRead DEF Sums
  <2> HIDE DEF sum, n
  <2>4. /\ q.next = patch.next + 1
        /\ Cursor(q) = [file |-> patch.file, pos |-> patch.pos + n, out |-> patch.out \o sum]
    BY <1>2 DEF Cursor, Output
  <2> HIDE DEF q
  <2> QED BY <1>4, <1>5, <2>1, <2>2, <2>3, <2>4 DEF Does, n
<1> QED BY <1>6, <1>7, <1>8, <1>9, <1>10

\* All operations have been carried out.
LEMMA PatchedRight == ASSUME Right, Typed', EndPatch PROVE Right'
<1>1. /\ phase = "patch" /\ phase' = "patched" /\ patch.next > Len(writer.ops)
      /\ UNCHANGED <<old, new, source, offset, sourceData, at, scan, writer, patch>>
  BY DEF EndPatch, archives, analysis
<1>2. patch.next = Len(writer.ops) + 1
  <2>1. Len(writer.ops) \in Nat /\ patch.next \in 1 .. (Len(writer.ops) + 1)
    BY LenProperties DEF Right, Typed, TypeOK, Writers
  <2> QED BY <1>1, <2>1
<1>3. NewStream' = NewStream
  BY <1>1 DEF NewStream, Header, EndOfArchive
<1>4. Replaying'
  BY <1>1, <1>2, <1>3 DEF Right, Replaying, Cursor
<1>5. Analyzed' /\ Proper(old, new)'
  BY <1>1 DEF Right, Analyzed, Kept, Used
<1> QED BY <1>1, <1>4, <1>5 DEF Right, Walking, InFile, Patching

(***************************************************************************)
(* Differ and patcher together                                             *)
(***************************************************************************)

\* At the start nothing has been written.
LEMMA InitRight == Init /\ Proper(old, new) => Right
<1> SUFFICES ASSUME Init, Proper(old, new) PROVE Right
  OBVIOUS
<1>1. Typed /\ new \in Archives
  BY InitTyped, ChosenPair DEF Init
<1>2. /\ phase = "analyze" /\ at = 0 /\ Cursor(patch) = Fresh
      /\ writer.ops = <<>> /\ writer.buffer = <<>> /\ Len(writer.ops) = 0
      /\ At(writer, <<>>) = Fresh
  BY DEF Init, Cursor, Fresh, At
<1>3. BeforeOf(new, at) = <<>>
  BY <1>1, <1>2, EntryByEntry
<1>4. <<>> \in Stream /\ <<>> \o <<>> = <<>> /\ Fresh \in Reader
  BY BytesStream, StreamAlgebra DEF Fresh, Reader, Paths
<1>5. Yields(old, writer, <<>>)
  <2> DEFINE run == [i \in 0 .. 0 |-> Fresh]
  <2>1. run \in [0 .. 0 -> Reader] /\ run[0] = Fresh /\ \A i \in 0 .. 0 : run[i] = Fresh
    BY <1>4
  <2>2. Fresh.out = <<>>
    BY DEF Fresh
  <2> HIDE DEF run
  <2>3. \A i \in 0 .. 0 : \E t \in Stream : Fresh.out = run[i].out \o t
    BY <1>4, <2>1, <2>2
  <2>4. \A i \in 1 .. 0 : FALSE
    OBVIOUS
  <2>5. Runs(old, run, writer.ops, Fresh)
    BY <1>2, <2>1, <2>3, <2>4 DEF Runs
  <2> QED BY <1>2, <1>4, <2>5 DEF Yields
<1> QED BY <1>1, <1>2, <1>3, <1>5 DEF Right, Walking, Replaying, InFile, Patching

\* Every step.
LEMMA NextRight == Right /\ [Next]_vars => Right'
<1> SUFFICES ASSUME Right, [Next]_vars PROVE Right'
  OBVIOUS
<1>1. Typed'
  BY NextTyped DEF Right
<1>2. CASE UNCHANGED vars
  <2>1. UNCHANGED <<old, new, phase, source, offset, sourceData, at, scan, writer, patch>>
    BY <1>2 DEF vars, archives, analysis
  <2>2. Analyzed' = Analyzed /\ Proper(old, new)' = Proper(old, new)
    BY <2>1 DEF Analyzed, Kept, Used
  <2>3. Walking' = Walking
    BY <2>1 DEF Walking, BeforeOf, Upto, Streamed, Header, HasCopy, HasSource, SourceFile,
                File, Size, Cursor
  <2>4. Replaying' = Replaying
    BY <2>1 DEF Replaying, NewStream, Header, EndOfArchive, Cursor
  <2> QED BY <1>1, <2>1, <2>2, <2>3, <2>4 DEF Right
<1> QED BY <1>1, <1>2, AnalyzeRight, HeaderRight, ReuseRight, StartRight, BsdiffRight,
           MatchRight, RestRight, EndRight, PatcherRight, PatchedRight DEF Next

\* What has been produced so far is the beginning of the new archive.
LEMMA RightReproduces == Right => Reproduces
<1> SUFFICES ASSUME Right PROVE Reproduces
  OBVIOUS
<1>1. new \in Archives /\ patch.out \in Stream /\ writer \in Writers
  BY ChosenPair DEF Right, Typed, TypeOK
<1>2. NewStream \in Stream
  BY <1>1, WholeStream
<1>3. CASE phase \in {"patch", "patched"}
  <2>1. PICK run : /\ Runs(old, run, writer.ops, At(writer, NewStream))
                   /\ run[patch.next - 1] = Cursor(patch)
    BY <1>3 DEF Right, Replaying
  <2>2. patch.next - 1 \in 0 .. Len(writer.ops) /\ Len(writer.ops) \in Nat
    BY LenProperties DEF Right, Typed, TypeOK, Writers
  <2>3. Cursor(patch).out = patch.out /\ At(writer, NewStream).out = NewStream
    BY DEF Cursor, At
  <2>4. PICK t \in Stream : NewStream = patch.out \o t
    BY <2>1, <2>2, <2>3 DEF Runs
  <2>5. IsPrefix(patch.out, NewStream)
    BY <1>1, <2>4, Beginning
  <2>6. phase = "patched" => patch.out = NewStream
    <3>1. phase = "patched" => patch.next - 1 = Len(writer.ops)
      BY <2>2 DEF Right, Replaying
    <3> QED BY <2>1, <2>3, <3>1 DEF Runs
  <2> QED BY <2>5, <2>6 DEF Reproduces
<1>4. CASE phase \notin {"patch", "patched"}
  <2>1. patch.out = <<>>
    BY <1>4 DEF Right, Walking, Patching, Cursor, Fresh
  <2>2. NewStream = patch.out \o NewStream
    BY <1>2, <2>1, StreamAlgebra
  <2>3. IsPrefix(patch.out, NewStream)
    BY <1>1, <1>2, <2>2, Beginning
  <2> QED BY <1>4, <2>3 DEF Reproduces
<1> QED BY <1>3, <1>4

\* Neither archive is ever changed.
LEMMA SamePair == ASSUME [Next]_vars PROVE UNCHANGED <<old, new>>
BY DEF Next, vars, archives, Continue, Applied, Analyze, NextHeader, ReuseOldFile,
       StartBsdiff, Bsdiff, StartRollsums, NextMatch, EndRollsums, CopyRest, EndDelta,
       ApplyData, ApplyOpen, ApplySeek, ApplyCopy, ApplyAdd, EndPatch

\* A pair is proper from the beginning to the end, or never.
LEMMA ProperOrNot == Spec => []Right \/ []~Proper(old, new)
<1> DEFINE P == Proper(old, new)
<1>1. Init /\ P => Right
  BY InitRight
<1>2. ~P /\ [Next]_vars => ~P'
  BY SamePair
<1> HIDE DEF P
<1>3. Spec => []Right \/ []~P
  BY <1>1, <1>2, NextRight, PTL DEF Spec
<1> QED BY <1>3 DEF P

\* What the patcher produces is the new archive, byte for byte, whichever old
\* and new archive there are, if no file is made from one that a later entry
\* overwrites or that is found under another name: the delta is a description
\* of the new archive.
THEOREM ReproducesTheorem == Spec => []Reproduces
<1>1. ~Proper(old, new) => Reproduces
  BY DEF Reproduces
<1> QED BY <1>1, ProperOrNot, RightReproduces, PTL

\* The operations that the writer leaves out are indeed redundant: at the end
\* the patcher has the writer's file and position.
THEOREM CursorsTheorem == Spec /\ Proper(old, new) => []CursorsAgree
<1>1. Right => CursorsAgree
  <2> SUFFICES ASSUME Right, phase = "patched"
               PROVE  patch.file = writer.file /\ patch.pos = writer.pos
    BY DEF CursorsAgree
  <2>1. PICK run : /\ Runs(old, run, writer.ops, At(writer, NewStream))
                   /\ run[patch.next - 1] = Cursor(patch)
    BY DEF Right, Replaying
  <2>2. patch.next - 1 = Len(writer.ops)
    <3>1. Len(writer.ops) \in Nat /\ patch.next = Len(writer.ops) + 1
      BY LenProperties DEF Right, Typed, Writers, Replaying
    <3> QED BY <3>1
  <2>3. Cursor(patch) = At(writer, NewStream)
    BY <2>1, <2>2 DEF Runs
  <2> QED BY <2>3 DEF Cursor, At
<1> QED BY <1>1, InitRight, NextRight, PTL DEF Spec

\* Differ or patcher gives up only on a pair that is not proper: otherwise what
\* the differ reads of the stored data is there, and no operation opens a file
\* that is not there or leaves it.
THEOREM FailsOnlyImproper == Spec => [](phase = "failed" => ~Proper(old, new))
<1>1. Right => (phase = "failed" => ~Proper(old, new))
  BY DEF Right
<1>2. ~Proper(old, new) => (phase = "failed" => ~Proper(old, new))
  OBVIOUS
<1> QED BY <1>1, <1>2, ProperOrNot, PTL

\* An archive in which no two entries have the same path, and none has a name
\* that is absolute or leads out of the directory.
Ordinary(a) == \A i \in DOMAIN a : /\ ~a[i].rooted
                                   /\ \A j \in DOMAIN a : a[j].path = a[i].path => i = j

\* Everything can be made from an ordinary archive.
LEMMA OrdinaryIsProper ==
    ASSUME NEW a \in Archives, NEW b \in Archives, Ordinary(a)
    PROVE  Proper(a, b)
<1> SUFFICES ASSUME NEW k \in DOMAIN b, SourceOf(a, b[k]) # 0
             PROVE  SourceOf(a, b[k]) \in Found(a)
  BY DEF Proper
<1>1. SourceOf(a, b[k]) \in TarFiles(a)
  BY ArchiveEntries, SourceOfFile
<1>2. DOMAIN a \subseteq Nat /\ TarFiles(a) \subseteq DOMAIN a
  BY ArchiveEntries DEF TarFiles
<1>3. \A i \in DOMAIN a : ~Overwritten(a, i)
  BY <1>2 DEF Overwritten, Ordinary
<1> QED BY <1>1, <1>2, <1>3 DEF Found, Present, Ordinary

\* From an ordinary old archive every new one is rebuilt, whatever is in it:
\* neither differ nor patcher fails, and the patcher ends with the new archive.
THEOREM OrdinaryTheorem ==
    Spec => [](Ordinary(old) => /\ phase # "failed"
                                /\ phase = "patched" => patch.out = NewStream)
<1> DEFINE Good == Ordinary(old) => /\ phase # "failed"
                                    /\ phase = "patched" => patch.out = NewStream
<1>1. Right => Good
  BY RightReproduces DEF Right, Reproduces
<1>2. Typed /\ ~Proper(old, new) => Good
  BY ChosenPair, OrdinaryIsProper DEF Typed, TypeOK
<1>3. Spec => []Typed
  BY InitTyped, NextTyped, PTL DEF Spec
<1> HIDE DEF Good
<1>4. Spec => []Good
  BY <1>1, <1>2, <1>3, ProperOrNot, PTL
<1> QED BY <1>4 DEF Good
===============================================================================
