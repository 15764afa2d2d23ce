---------------------------- MODULE IngestProofs ----------------------------
(* Theorems about Ingest and their proofs.                                 *)
EXTENDS Ingest, FiniteSetTheorems, TLAPS

(***************************************************************************)
(* Byte sequences.                                                         *)
(***************************************************************************)

\* Contents are the Boolean sequences up to the length at which a stream is cut.
LEMMA ContentsAreSequences ==
    Contents = {s \in Seq(BOOLEAN) : Len(s) <= Size + 1}
<1> USE IngestAssumption
<1>1. ASSUME NEW s \in Contents PROVE s \in Seq(BOOLEAN) /\ Len(s) <= Size + 1
  <2>1. PICK n \in 0..(Size + 1) : s \in [1..n -> BOOLEAN]
    BY DEF Contents
  <2> QED BY <2>1
<1>2. ASSUME NEW s \in Seq(BOOLEAN), Len(s) <= Size + 1 PROVE s \in Contents
  <2>1. Len(s) \in 0..(Size + 1) /\ s \in [1..Len(s) -> BOOLEAN]
    BY <1>2
  <2> QED BY <2>1 DEF Contents
<1> QED BY <1>1, <1>2

\* What the hasher has seen is what the file begins with.
Agrees(h, s) == Len(h) <= Len(s) /\ \A i \in 1..Len(h) : h[i] = s[i]

\* What is hashed and agrees with the file is its beginning.
LEMMA AgreesIsPrefix ==
    ASSUME NEW h \in Contents, NEW s \in Contents, Agrees(h, s)
    PROVE  h = SubSeq(s, 1, Len(h))
<1>1. h \in Seq(BOOLEAN) /\ s \in Seq(BOOLEAN)
  BY ContentsAreSequences
<1>2. SubSeq(s, 1, Len(h)) = [i \in 1..Len(h) |-> s[i]]
  BY <1>1 DEF Agrees
<1>3. h = [i \in 1..Len(h) |-> h[i]]
  BY <1>1
<1> QED BY <1>2, <1>3 DEF Agrees

\* One byte is hashed and written at the position of the hasher: the file still
\* begins with what was hashed, and has not grown beyond it or its old length.
LEMMA WrittenAgrees ==
    ASSUME NEW h \in Contents, NEW s \in Contents, NEW b \in BOOLEAN,
           Agrees(h, s), Len(h) <= Size
    PROVE  LET w == Written(s, Len(h) + 1, b)
           IN  /\ Append(h, b) \in Contents
               /\ w \in Contents
               /\ Agrees(Append(h, b), w)
               /\ Len(w) = Len(s) \/ Len(w) = Len(h) + 1
<1> DEFINE w == Written(s, Len(h) + 1, b)
<1>1. h \in Seq(BOOLEAN) /\ s \in Seq(BOOLEAN) /\ Len(s) <= Size + 1
  BY ContentsAreSequences
<1>2. Append(h, b) \in Seq(BOOLEAN) /\ Len(Append(h, b)) = Len(h) + 1
  BY <1>1
<1>3. CASE Len(h) + 1 <= Len(s)
  <2>1. w = [s EXCEPT ![Len(h) + 1] = b]
    BY <1>3 DEF Written
  <2>2. w \in Seq(BOOLEAN) /\ Len(w) = Len(s)
    BY <2>1, <1>1, <1>3
  <2>3. \A i \in 1..(Len(h) + 1) : Append(h, b)[i] = w[i]
    BY <2>1, <1>1, <1>3 DEF Agrees
  <2> QED BY <2>2, <2>3, <1>1, <1>2, <1>3, ContentsAreSequences, IngestAssumption DEF Agrees
<1>4. CASE ~(Len(h) + 1 <= Len(s))
  <2>1. w = Append(s, b) /\ Len(s) = Len(h)
    BY <1>4, <1>1 DEF Written, Agrees
  <2>2. w \in Seq(BOOLEAN) /\ Len(w) = Len(h) + 1
    BY <2>1, <1>1
  <2>3. \A i \in 1..(Len(h) + 1) : Append(h, b)[i] = w[i]
    BY <2>1, <1>1 DEF Agrees
  <2> QED BY <2>2, <2>3, <1>1, <1>2, ContentsAreSequences, IngestAssumption DEF Agrees
<1> QED BY <1>3, <1>4

\* What remains of a file after a power loss is no longer than it was.
LEMMA RemainsType ==
    ASSUME file \in [Files -> Contents], NEW f \in Files, NEW lost, NEW n \in Nat,
           n <= Len(file[f])
    PROVE  Remains(f, lost, n) \in Contents
<1> DEFINE s == [i \in DOMAIN file[f] |-> file[f][i] /\ i \notin lost]
<1>1. file[f] \in Seq(BOOLEAN) /\ Len(file[f]) <= Size + 1
  BY ContentsAreSequences
<1>2. DOMAIN file[f] = 1..Len(file[f]) /\ Len(file[f]) \in Nat
  BY <1>1
<1>3. \A i \in 1..Len(file[f]) : (file[f][i] /\ i \notin lost) \in BOOLEAN
  OBVIOUS
<1>4. s \in [1..Len(file[f]) -> BOOLEAN]
  BY <1>2, <1>3
<1>5. s \in Seq(BOOLEAN) /\ Len(s) = Len(file[f])
  BY <1>4, <1>2
<1>6. Remains(f, lost, n) = SubSeq(s, 1, n)
  BY DEF Remains
<1> HIDE DEF s
<1>7. SubSeq(s, 1, n) \in Seq(BOOLEAN) /\ Len(SubSeq(s, 1, n)) = n
  <2>1. SubSeq(s, 1, n) = [i \in 1..n |-> s[i]]
    BY <1>5
  <2> QED BY <2>1, <1>5
<1> QED BY <1>1, <1>6, <1>7, ContentsAreSequences, IngestAssumption

(***************************************************************************)
(* There is always a file to create.                                       *)
(***************************************************************************)

\* While l holds no file and nothing is being downloaded, some file is neither
\* linked nor held: every loader but l holds at most one, and one may be
\* completed, so mapping l to that one would otherwise map Loaders onto Files.
LEMMA FreshFile ==
    ASSUME TypeOK, NEW l \in Loaders, pc[l] = "idle", download = NoFile
    PROVE  \E f \in Files : f \notin InUse
<1> SUFFICES ASSUME \A f \in Files : f \in InUse
             PROVE  FALSE
  OBVIOUS
<1> USE IngestAssumption, EnoughFiles DEF TypeOK, HasFileOpen
<1>1. Cardinality(Files) \in Nat /\ Cardinality(Loaders) \in Nat
  BY FS_CardinalityType
<1>2. PICK f0 \in Files : TRUE
  BY <1>1, FS_EmptySet
<1> DEFINE held(m) == IF m = l THEN completed
                      ELSE IF fd[m] # NoFile THEN fd[m] ELSE out[m]
           M == [m \in Loaders |-> IF held(m) \in Files THEN held(m) ELSE f0]
<1>3. \A f \in Files : \E m \in Loaders : held(m) = f
  <2> SUFFICES ASSUME NEW f \in Files
               PROVE  \E m \in Loaders : held(m) = f
    OBVIOUS
  <2>1. f # NoFile
    OBVIOUS
  <2>2. CASE f = completed
    BY <2>2
  <2>3. CASE \E m \in Loaders : f = fd[m]
    BY <2>1, <2>3
  <2>4. CASE \E m \in Loaders : f = out[m]
    BY <2>1, <2>4
  <2> QED BY <2>1, <2>2, <2>3, <2>4 DEF InUse
<1>4. M \in Surjection(Loaders, Files)
  BY <1>2, <1>3 DEF Surjection
<1>5. Cardinality(Files) <= Cardinality(Loaders)
  <2> HIDE DEF M
  <2> QED BY <1>4, FS_Surjection
<1> QED BY <1>1, <1>5

(***************************************************************************)
(* The invariant: typing needs that what is hashed is in the file, which   *)
(* needs that only the holder of the lock writes.                          *)
(***************************************************************************)

Exclusive == {"locked", "copy", "verify", "unlock"}

\* The lock is held from the look at the size to the end of the copy.
LockHeld == \A l \in Loaders : pc[l] \in Exclusive => lock = l

\* What a loader at work knows of its file.  It may only have grown too long
\* together with what was hashed.
FileKnown ==
    \A l \in Loaders :
        /\ pc[l] \in {"copy", "verify"} =>
             /\ Agrees(hashed[l], file[fd[l]])
             /\ Len(file[fd[l]]) <= Size \/ Len(file[fd[l]]) = Len(hashed[l])
        /\ pc[l] = "unlock" => file[fd[l]] = Whole

IInv == TypeOK /\ LockHeld /\ FileKnown

\* An empty file has contents.
LEMMA EmptyContents == <<>> \in Contents
BY ContentsAreSequences, IngestAssumption

\* No file is open yet.
LEMMA InitIInv == Init => IInv
<1> SUFFICES ASSUME Init PROVE IInv
  OBVIOUS
<1>1. TypeOK
  BY EmptyContents, IngestAssumption DEF Init, TypeOK, HasFileOpen
<1>2. LockHeld /\ FileKnown
  BY DEF Init, LockHeld, FileKnown, Exclusive
<1> QED BY <1>1, <1>2 DEF IInv

\* A file that is opened is the download, or new and nobody else's.
LEMMA OpenIInv ==
    ASSUME IInv, NEW l \in Loaders, Open(l)
    PROVE  IInv'
<1> USE IngestAssumption DEF IInv, Open, Goto
<1>1. CASE download # NoFile
  <2> USE DEF TypeOK, HasFileOpen
  <2>1. TypeOK'
    BY <1>1
  <2>2. LockHeld'
    BY <1>1 DEF LockHeld, Exclusive
  <2>3. FileKnown'
    BY <1>1 DEF FileKnown
  <2> QED BY <2>1, <2>2, <2>3
<1>2. CASE download = NoFile
  <2> DEFINE f == CHOOSE f \in Files : f \notin InUse
  <2>1. f \in Files /\ f \notin InUse
    BY <1>2, FreshFile
  <2> HIDE DEF f
  <2>2. /\ fd' = [fd EXCEPT ![l] = f] /\ download' = f
        /\ file' = [file EXCEPT ![f] = <<>>] /\ dirty' = [dirty EXCEPT ![f] = {}]
    BY <1>2 DEF f
  <2>3. TypeOK'
    BY <1>2, <2>1, <2>2, EmptyContents DEF TypeOK, HasFileOpen
  <2>4. LockHeld'
    BY DEF LockHeld, Exclusive, TypeOK
  <2>5. \A m \in Loaders : fd[m] # f
    BY <2>1 DEF InUse
  <2>6. FileKnown'
    BY <2>1, <2>2, <2>5 DEF FileKnown, TypeOK, HasFileOpen
  <2> QED BY <2>3, <2>4, <2>6
<1> QED BY <1>1, <1>2

\* The steps that neither write nor hash.
LEMMA QuietIInv ==
    ASSUME IInv, NEW l \in Loaders,
           \/ Acquire(l) \/ Unlock(l) \/ Sync(l) \/ Rename(l) \/ Move(l)
           \/ Return(l) \/ CollectGarbage(l)
    PROVE  IInv'
<1> USE IngestAssumption DEF IInv, Goto, diskVars, TypeOK, HasFileOpen
<1>1. CASE Acquire(l)
  <2>1. TypeOK'
    BY <1>1 DEF Acquire
  <2>2. LockHeld' /\ FileKnown'
    BY <1>1 DEF Acquire, LockHeld, Exclusive, FileKnown
  <2> QED BY <2>1, <2>2
<1>2. CASE Unlock(l)
  <2>1. TypeOK'
    BY <1>2 DEF Unlock
  <2>2. LockHeld' /\ FileKnown'
    BY <1>2 DEF Unlock, LockHeld, Exclusive, FileKnown
  <2> QED BY <2>1, <2>2
<1>3. CASE Sync(l)
  <2>1. TypeOK'
    BY <1>3 DEF Sync
  <2>2. LockHeld' /\ FileKnown'
    BY <1>3 DEF Sync, LockHeld, Exclusive, FileKnown
  <2> QED BY <2>1, <2>2
<1>4. CASE Rename(l)
  <2>1. TypeOK'
    BY <1>4 DEF Rename
  <2>2. LockHeld' /\ FileKnown'
    BY <1>4 DEF Rename, LockHeld, Exclusive, FileKnown
  <2> QED BY <2>1, <2>2
<1>5. CASE Move(l)
  <2>1. TypeOK'
    BY <1>5 DEF Move
  <2>2. LockHeld' /\ FileKnown'
    BY <1>5 DEF Move, LockHeld, Exclusive, FileKnown
  <2> QED BY <2>1, <2>2
<1>6. CASE Return(l)
  <2>1. TypeOK'
    BY <1>6 DEF Return
  <2>2. LockHeld' /\ FileKnown'
    BY <1>6 DEF Return, LockHeld, Exclusive, FileKnown
  <2> QED BY <2>1, <2>2
<1>7. CASE CollectGarbage(l)
  <2>1. TypeOK'
    BY <1>7 DEF CollectGarbage
  <2>2. LockHeld' /\ FileKnown'
    BY <1>7 DEF CollectGarbage, LockHeld, Exclusive, FileKnown
  <2> QED BY <2>1, <2>2
<1> QED BY <1>1, <1>2, <1>3, <1>4, <1>5, <1>6, <1>7

\* An error return gives the file up and keeps the lock.
LEMMA FailIInv ==
    ASSUME IInv, NEW l \in Loaders, pc[l] \in HasFileOpen, Fail(l),
           UNCHANGED <<diskVars, lock, out>>, faults' \in 0..MaxFaults
    PROVE  IInv'
<1> USE EmptyContents DEF IInv, Fail, Goto, diskVars, TypeOK, HasFileOpen
<1>1. TypeOK'
  OBVIOUS
<1>2. LockHeld' /\ FileKnown'
  BY DEF LockHeld, Exclusive, FileKnown
<1> QED BY <1>1, <1>2

\* Faults are counted up to their bound.
LEMMA FaultType ==
    ASSUME TypeOK, NEW kind, Fault(kind)
    PROVE  faults' \in 0..MaxFaults
BY IngestAssumption DEF TypeOK, Fault

\* Hashing all that is in the file, or nothing, agrees with the file.
LEMMA ResumeIInv ==
    ASSUME IInv, NEW l \in Loaders, Resume(l)
    PROVE  IInv'
<1> DEFINE old == file[fd[l]]
<1> USE IngestAssumption DEF IInv
<1>1. pc[l] = "locked" /\ old \in Contents /\ UNCHANGED <<diskVars, lock, out>>
  BY DEF Resume, TypeOK, HasFileOpen
<1>4. old \in Seq(BOOLEAN) /\ Len(old) \in Nat
  BY <1>1, ContentsAreSequences
<1>2. CASE Fail(l) /\ (UNCHANGED faults \/ Fault("network"))
  <2>1. faults' \in 0..MaxFaults
    BY <1>2, FaultType DEF TypeOK
  <2> QED BY <1>1, <1>2, <2>1, FailIInv DEF HasFileOpen
<1>3. CASE /\ Len(old) <= Size
           /\ \E seek \in Streams :
                hashed' = [hashed EXCEPT ![l] = IF seek THEN old ELSE <<>>]
           /\ pc' = [pc EXCEPT ![l] = IF Len(hashed'[l]) < Size THEN "copy" ELSE "verify"]
           /\ UNCHANGED <<fd, faults>>
  <2>1. PICK h \in {old, <<>>} : hashed' = [hashed EXCEPT ![l] = h]
    BY <1>3
  <2>2. h \in Contents /\ Agrees(h, old)
    <3>1. CASE h = old
      BY <1>1, <1>4, <3>1 DEF Agrees
    <3>2. CASE h = <<>>
      BY <1>4, <3>2, EmptyContents DEF Agrees
    <3> QED BY <2>1, <3>1, <3>2
  <2>3. TypeOK'
    BY <1>1, <1>3, <2>1, <2>2 DEF TypeOK, HasFileOpen, diskVars
  <2>4. LockHeld'
    BY <1>1, <1>3 DEF LockHeld, Exclusive, TypeOK
  <2>5. FileKnown'
    BY <1>1, <1>3, <2>1, <2>2 DEF FileKnown, TypeOK, diskVars
  <2> QED BY <2>3, <2>4, <2>5
<1>5. \/ Fail(l) /\ (UNCHANGED faults \/ Fault("network"))
      \/ /\ ~TooLarge(old)
         /\ UNCHANGED <<faults, fd>>
         /\ \E seek \in Streams :
              hashed' = [hashed EXCEPT ![l] = IF seek THEN old ELSE <<>>]
         /\ Goto(l, IF Len(hashed'[l]) < Size THEN "copy" ELSE "verify")
  BY DEF Resume
<1> HIDE DEF old
<1>6. ~TooLarge(old) => Len(old) <= Size
  BY <1>4 DEF TooLarge
<1> QED BY <1>2, <1>3, <1>5, <1>6 DEF Goto

\* One loader writes at a time.
LEMMA ReceiveIInv ==
    ASSUME IInv, NEW l \in Loaders, Receive(l)
    PROVE  IInv'
<1> DEFINE h == hashed[l]
           s == file[fd[l]]
           p == Len(h) + 1
<1> USE IngestAssumption DEF IInv
<1>1. PICK b \in BOOLEAN :
        /\ \/ b /\ p <= Size /\ UNCHANGED faults
           \/ ~b /\ p <= Size + 1 /\ Fault("garbage")
        /\ hashed' = [hashed EXCEPT ![l] = Append(@, b)]
        /\ file' = [file EXCEPT ![fd[l]] = Written(@, p, b)]
        /\ dirty' = [dirty EXCEPT ![fd[l]] = @ \cup {p}]
  BY DEF Receive
<1>2. /\ pc[l] = "copy" /\ fd[l] \in Files
      /\ UNCHANGED <<download, completed, lock, pc, fd, out>>
  BY DEF Receive, TypeOK, HasFileOpen
<1>3. /\ h \in Contents /\ s \in Contents /\ Agrees(h, s)
      /\ Len(s) <= Size \/ Len(s) = Len(h)
  BY <1>2 DEF TypeOK, FileKnown
<1>4. Len(h) \in Nat /\ Len(h) <= Size /\ p \in Positions
  BY <1>1, <1>3, ContentsAreSequences DEF Positions
<1>5. /\ Append(h, b) \in Contents
      /\ Written(s, p, b) \in Contents
      /\ Agrees(Append(h, b), Written(s, p, b))
      /\ Len(Written(s, p, b)) = Len(s) \/ Len(Written(s, p, b)) = Len(h) + 1
  BY <1>3, <1>4, WrittenAgrees
<1>6. Len(Append(h, b)) = Len(h) + 1
  BY <1>3, ContentsAreSequences
<1>7. faults' \in 0..MaxFaults
  BY <1>1, FaultType DEF TypeOK
<1> HIDE DEF h, s, p
<1>8. /\ hashed' = [hashed EXCEPT ![l] = Append(h, b)]
      /\ file' = [file EXCEPT ![fd[l]] = Written(s, p, b)]
  BY <1>1 DEF h, s
<1>9. TypeOK'
  <2>1. hashed' \in [Loaders -> Contents] /\ file' \in [Files -> Contents]
    BY <1>5, <1>8 DEF TypeOK
  <2>2. dirty' \in [Files -> SUBSET Positions]
    <3>1. dirty' = [dirty EXCEPT ![fd[l]] = dirty[fd[l]] \cup {p}]
      BY <1>1
    <3>2. dirty[fd[l]] \cup {p} \in SUBSET Positions
      BY <1>2, <1>4 DEF TypeOK
    <3> QED BY <3>1, <3>2 DEF TypeOK
  <2> QED BY <1>2, <1>7, <2>1, <2>2 DEF TypeOK
<1>10. LockHeld'
  BY <1>2 DEF LockHeld
<1>11. FileKnown'
  <2> SUFFICES ASSUME NEW m \in Loaders, pc[m] \in {"copy", "verify", "unlock"}
               PROVE  /\ pc[m] \in {"copy", "verify"} =>
                           /\ Agrees(hashed'[m], file'[fd[m]])
                           /\ \/ Len(file'[fd[m]]) <= Size
                              \/ Len(file'[fd[m]]) = Len(hashed'[m])
                      /\ pc[m] = "unlock" => file'[fd[m]] = Whole
    BY <1>2 DEF FileKnown
  <2>1. m = l
    BY <1>2 DEF LockHeld, Exclusive
  <2>2. /\ hashed'[l] = Append(h, b) /\ file'[fd[l]] = Written(s, p, b)
    BY <1>2, <1>8 DEF TypeOK
  <2>3. Len(Written(s, p, b)) <= Size \/ Len(Written(s, p, b)) = Len(Append(h, b))
    BY <1>3, <1>4, <1>5, <1>6
  <2> QED BY <1>2, <1>5, <2>1, <2>2, <2>3
<1> QED BY <1>9, <1>10, <1>11

\* The end of a stream, early or not, leaves digest and file in agreement.
LEMMA EndOfStreamIInv ==
    ASSUME IInv, NEW l \in Loaders, EndOfStream(l)
    PROVE  IInv'
<1> USE DEF IInv
<1>1. faults' \in 0..MaxFaults
  BY FaultType DEF EndOfStream, TypeOK
<1>2. CASE Fail(l)
  BY <1>1, <1>2, FailIInv DEF EndOfStream, HasFileOpen
<1>3. CASE Goto(l, "verify") /\ UNCHANGED <<fd, hashed>>
  <2> USE <1>3 DEF EndOfStream, Goto, diskVars
  <2>1. TypeOK'
    BY <1>1 DEF TypeOK, HasFileOpen
  <2>2. LockHeld' /\ FileKnown'
    BY DEF TypeOK, LockHeld, Exclusive, FileKnown
  <2> QED BY <2>1, <2>2
<1> QED BY <1>2, <1>3 DEF EndOfStream

\* The digest of the hashed bytes is that of the file, which is no longer.
LEMMA VerifyIInv ==
    ASSUME IInv, NEW l \in Loaders, Verify(l)
    PROVE  IInv'
<1> USE IngestAssumption DEF IInv
<1>1. faults' \in 0..MaxFaults
  BY DEF Verify, TypeOK
<1>2. CASE Fail(l)
  BY <1>1, <1>2, FailIInv DEF Verify, HasFileOpen
<1>3. CASE /\ hashed[l] = Whole /\ Goto(l, "unlock")
           /\ hashed' = [hashed EXCEPT ![l] = <<>>] /\ UNCHANGED fd
  <2> DEFINE s == file[fd[l]]
  <2> USE <1>3 DEF Verify, Goto, diskVars
  <2>1. TypeOK'
    BY EmptyContents DEF TypeOK, HasFileOpen
  <2>2. LockHeld'
    BY DEF TypeOK, LockHeld, Exclusive
  <2>3. s \in Contents /\ Agrees(Whole, s) /\ (Len(s) <= Size \/ Len(s) = Len(Whole))
    BY DEF TypeOK, FileKnown, HasFileOpen
  <2>4. Len(Whole) = Size /\ Whole = [i \in 1..Size |-> TRUE]
    BY DEF Whole
  <2>5. s \in Seq(BOOLEAN)
    BY <2>3, ContentsAreSequences
  <2>6. Len(s) = Size
    BY <2>3, <2>4, <2>5 DEF Agrees
  <2>7. s = [i \in 1..Size |-> s[i]]
    BY <2>5, <2>6
  <2>8. s = Whole
    BY <2>3, <2>4, <2>7 DEF Agrees
  <2>9. FileKnown'
    BY <2>8 DEF TypeOK, FileKnown
  <2> QED BY <2>1, <2>2, <2>9
<1> QED BY <1>2, <1>3 DEF Verify, HasExpectedDigest

\* A loader that is killed leaves its partial file to the others.
LEMMA KillIInv ==
    ASSUME IInv, NEW l \in Loaders, Kill(l)
    PROVE  IInv'
<1> USE EmptyContents DEF IInv, Kill, Goto, diskVars
<1>1. TypeOK'
  BY FaultType DEF TypeOK, HasFileOpen
<1>2. LockHeld' /\ FileKnown'
  BY DEF TypeOK, LockHeld, Exclusive, FileKnown
<1> QED BY <1>1, <1>2

\* After a power loss nobody is at work.
LEMMA PowerLossIInv ==
    ASSUME IInv, PowerLoss
    PROVE  IInv'
<1> DEFINE linked == {download, completed} \ {NoFile}
<1> USE DEF IInv
<1>1. PICK lost \in [linked -> SUBSET Positions], n \in [linked -> 0..(Size + 1)] :
        /\ \A f \in linked : n[f] <= Len(file[f])
        /\ file' = [f \in Files |-> IF f \in linked THEN Remains(f, lost[f], n[f])
                                                     ELSE <<>>]
  BY DEF PowerLoss
<1>2. file' \in [Files -> Contents]
  <2> SUFFICES ASSUME NEW f \in Files
               PROVE  (IF f \in linked THEN Remains(f, lost[f], n[f]) ELSE <<>>) \in Contents
    BY <1>1
  <2>1. CASE f \in linked
    <3>1. n[f] \in Nat /\ n[f] <= Len(file[f])
      BY <1>1, <2>1, IngestAssumption
    <3> QED BY <2>1, <3>1, RemainsType DEF TypeOK
  <2>2. CASE f \notin linked
    BY <2>2, EmptyContents
  <2> QED BY <2>1, <2>2
<1>3. TypeOK'
  BY <1>2, EmptyContents, FaultType DEF PowerLoss, TypeOK, HasFileOpen
<1>4. LockHeld' /\ FileKnown'
  BY DEF PowerLoss, LockHeld, Exclusive, FileKnown
<1> QED BY <1>3, <1>4

\* Every step of a loader keeps what is known at its place in the code.
LEMMA NextIInv == IInv /\ [Next]_vars => IInv'
<1> SUFFICES ASSUME IInv, [Next]_vars PROVE IInv'
  OBVIOUS
<1>1. ASSUME NEW l \in Loaders, Step(l) PROVE IInv'
  BY <1>1, OpenIInv, QuietIInv, ResumeIInv, ReceiveIInv, EndOfStreamIInv, VerifyIInv
     DEF Step
<1>2. ASSUME NEW l \in Loaders, CollectGarbage(l) PROVE IInv'
  BY <1>2, QuietIInv
<1>3. CASE UNCHANGED vars
  BY <1>3 DEF vars, diskVars, IInv, TypeOK, LockHeld, FileKnown
<1> QED BY <1>1, <1>2, <1>3, KillIInv, PowerLossIInv DEF Next

\* The invariant holds in every reachable state.
LEMMA IInvHolds == Spec => []IInv
BY InitIInv, NextIInv, PTL DEF Spec

\* The state of the loaders and their files is well typed for any number of
\* loaders, any size of the blob and any number of faults.
THEOREM WellTyped == Spec => []TypeOK
<1>1. IInv => TypeOK
  BY DEF IInv
<1> QED BY <1>1, IInvHolds, PTL

\* The digest that ingest compares is the digest of the file, however many
\* loaders work on the blob and whatever was there when they picked it up.
THEOREM DigestOfFile == Spec => []HashIsOfFile
<1>1. IInv => HashIsOfFile
  <2> SUFFICES ASSUME IInv, NEW l \in Loaders
               PROVE  /\ pc[l] \in {"copy", "verify"} =>
                           /\ Len(hashed[l]) <= Len(file[fd[l]])
                           /\ hashed[l] = SubSeq(file[fd[l]], 1, Len(hashed[l]))
                      /\ pc[l] = "unlock" => file[fd[l]] = Whole
    BY DEF HashIsOfFile
  <2>1. ASSUME pc[l] \in {"copy", "verify"}
        PROVE  /\ Len(hashed[l]) <= Len(file[fd[l]])
               /\ hashed[l] = SubSeq(file[fd[l]], 1, Len(hashed[l]))
    <3>1. hashed[l] \in Contents /\ file[fd[l]] \in Contents
      BY <2>1 DEF IInv, TypeOK, HasFileOpen
    <3>2. Agrees(hashed[l], file[fd[l]])
      BY <2>1 DEF IInv, FileKnown
    <3> QED BY <3>1, <3>2, AgreesIsPrefix DEF Agrees
  <2> QED BY <2>1 DEF IInv, FileKnown
<1> QED BY <1>1, IInvHolds, PTL

(***************************************************************************)
(* One loader: nobody else renames or opens what it has verified.          *)
(***************************************************************************)

LoneInv(l) ==
    /\ download # NoFile => download # completed
    /\ completed # NoFile => file[completed] = Whole /\ dirty[completed] = {}
    /\ pc[l] \in HasFileOpen => download # NoFile /\ fd[l] = download
    /\ pc[l] \in {"sync", "rename"} => download # NoFile /\ file[download] = Whole
    /\ pc[l] = "rename" => dirty[download] = {}
    /\ pc[l] = "loaded" => file[out[l]] = Whole

\* A power loss does not touch a file that was synced.
LEMMA SyncedRemains ==
    ASSUME NEW f, NEW lost, NEW n \in Nat, file[f] = Whole, lost \subseteq {},
           n <= Len(file[f]), \A i \in DOMAIN file[f] : i > n => i \in {}
    PROVE  Remains(f, lost, n) = Whole
<1>1. Size \in Nat \ {0}
  BY IngestAssumption
<1>2. Len(Whole) = Size /\ DOMAIN Whole = 1..Size /\ Whole = [i \in 1..Size |-> TRUE]
  BY <1>1 DEF Whole
<1>3. n = Size
  BY <1>1, <1>2
<1>4. [i \in DOMAIN file[f] |-> file[f][i] /\ i \notin lost] = Whole
  BY <1>2
<1>5. Remains(f, lost, n) = SubSeq(Whole, 1, Size)
  BY <1>3, <1>4 DEF Remains
<1>6. Whole \in Seq(BOOLEAN)
  BY <1>1, <1>2
<1>7. SubSeq(Whole, 1, Size) = [i \in 1..Size |-> Whole[i]]
  BY <1>1, <1>2, <1>6
<1> QED BY <1>2, <1>5, <1>7

\* Nobody moves or writes the file of a lone loader behind its back.
LEMMA LoneNext ==
    ASSUME NEW l, Loaders = {l}, IInv, IInv', LoneInv(l), [Next]_vars
    PROVE  LoneInv(l)'
<1> USE IngestAssumption DEF IInv, TypeOK, LoneInv, HasFileOpen, Goto, diskVars
<1>1. CASE Open(l)
  <2>1. CASE download # NoFile
    BY <1>1, <2>1 DEF Open
  <2>2. CASE download = NoFile
    <3> DEFINE f == CHOOSE f \in Files : f \notin InUse
    <3>1. f \in Files /\ f \notin InUse
      BY <1>1, <2>2, FreshFile DEF Open
    <3> HIDE DEF f
    <3>2. /\ fd' = [fd EXCEPT ![l] = f] /\ download' = f
          /\ file' = [file EXCEPT ![f] = <<>>] /\ dirty' = [dirty EXCEPT ![f] = {}]
          /\ pc' = [pc EXCEPT ![l] = "opened"] /\ completed' = completed
      BY <1>1, <2>2 DEF Open, f
    <3>3. f # completed /\ f # NoFile
      BY <3>1 DEF InUse
    <3> QED BY <3>1, <3>2, <3>3
  <2> QED BY <2>1, <2>2
<1>2. CASE Acquire(l) \/ CollectGarbage(l)
  BY <1>2 DEF Acquire, CollectGarbage
<1>3. CASE Resume(l)
  BY <1>3 DEF Resume, Fail
<1>4. CASE Receive(l)
  <2>1. PICK b \in BOOLEAN :
          /\ file' = [file EXCEPT ![fd[l]] = Written(@, Len(hashed[l]) + 1, b)]
          /\ dirty' = [dirty EXCEPT ![fd[l]] = @ \cup {Len(hashed[l]) + 1}]
    BY <1>4 DEF Receive
  <2>2. \A f \in Files : f # fd[l] => file'[f] = file[f] /\ dirty'[f] = dirty[f]
    BY <2>1
  <2>3. /\ pc[l] = "copy" /\ UNCHANGED <<download, completed, pc, fd, out>>
    BY <1>4 DEF Receive
  <2> QED BY <2>2, <2>3
<1>5. CASE EndOfStream(l)
  BY <1>5 DEF EndOfStream, Fail
<1>6. CASE Verify(l)
  BY <1>6 DEF Verify, Fail
<1>7. CASE Unlock(l)
  <2>1. file[fd[l]] = Whole
    BY <1>7 DEF Unlock, FileKnown
  <2> QED BY <1>7, <2>1 DEF Unlock
<1>8. CASE Sync(l)
  BY <1>8 DEF Sync
<1>9. CASE Rename(l)
  BY <1>9 DEF Rename
<1>10. CASE Move(l)
  BY <1>10 DEF Move
<1>11. CASE Return(l)
  BY <1>11 DEF Return
<1>12. CASE Kill(l)
  BY <1>12 DEF Kill
<1>13. CASE PowerLoss
  <2> DEFINE linked == {download, completed} \ {NoFile}
  <2>1. PICK lost \in [linked -> SUBSET Positions], n \in [linked -> 0..(Size + 1)] :
          /\ \A f \in linked :
               /\ lost[f] \subseteq dirty[f]
               /\ n[f] <= Len(file[f])
               /\ \A i \in DOMAIN file[f] : i > n[f] => i \in dirty[f]
          /\ file' = [f \in Files |-> IF f \in linked THEN Remains(f, lost[f], n[f])
                                                       ELSE <<>>]
    BY <1>13 DEF PowerLoss
  <2>2. /\ dirty' = [f \in Files |-> {}] /\ pc'[l] = "idle"
        /\ UNCHANGED <<download, completed>>
    BY <1>13 DEF PowerLoss
  <2>3. ASSUME completed # NoFile
        PROVE  file'[completed] = Whole /\ dirty'[completed] = {}
    <3>1. completed \in linked /\ completed \in Files
      BY <2>3
    <3>2. file[completed] = Whole /\ dirty[completed] = {}
      BY <2>3
    <3>3. n[completed] \in Nat
      BY <2>1, <3>1
    <3>4. Remains(completed, lost[completed], n[completed]) = Whole
      BY <2>1, <3>1, <3>2, <3>3, SyncedRemains
    <3> QED BY <2>1, <2>2, <3>1, <3>4
  <2> QED BY <2>2, <2>3
<1>14. CASE UNCHANGED vars
  BY <1>14 DEF vars
<1> QED BY <1>1, <1>2, <1>3, <1>4, <1>5, <1>6, <1>7, <1>8, <1>9, <1>10, <1>11, <1>12,
           <1>13, <1>14 DEF Next, Step

\* "This happens after the file was downloaded and written to the disk
\* entirely" holds of a loader that has its working directory for itself: what
\* is completed, and what a caller is given, is the whole blob and synced,
\* through any faults, kills and losses of power.
THEOREM LoneLoader ==
    ASSUME NEW CONSTANT l, Loaders = {l}
    PROVE  Spec => []CompletedIsWhole
<1>1. Init => LoneInv(l)
  BY DEF Init, LoneInv, HasFileOpen
<1>2. IInv /\ IInv' /\ LoneInv(l) /\ [Next]_vars => LoneInv(l)'
  BY LoneNext
<1>3. LoneInv(l) => CompletedIsWhole
  BY DEF LoneInv, CompletedIsWhole
<1> QED BY <1>1, <1>2, <1>3, IInvHolds, PTL DEF Spec
=============================================================================
