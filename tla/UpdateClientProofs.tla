------------------------- MODULE UpdateClientProofs -------------------------
(***************************************************************************)
(* Proofs about UpdateClient for any images and any number of crashes,     *)
(* failures and edits: typing, that the record is true, and that success   *)
(* is installed.                                                           *)
(***************************************************************************)
EXTENDS UpdateClient, TLAPS

True(record) == record \in Records => record.hash = record.image

\* What is known at each place in the code: what was staged is the goal, what
\* was installed is too, and a record is only ever made of both.
PlaceInv ==
    /\ True(disk) /\ True(mem)
    /\ pc \in {"idle", "ask"} => disk = mem
    /\ pc \in {"ask", "fetchDelta", "patch"} => mem \in Records /\ dir = mem.hash
    /\ pc \in {"swapFile", "swapInPlace", "remove", "rename"} => staged = goal
    /\ pc = "hash" => dir = goal
    /\ pc \in {"truncate", "write"} =>
          dir = goal /\ mem = [image |-> goal, hash |-> goal]

IInv == TypeOK /\ PlaceInv

\* None of the marks for a missing or unusable state is a record.
LEMMA NoneIsRecord ==
    /\ NoRecord \notin Records /\ NoFile \notin Records
    /\ Torn \notin Records /\ Legacy \notin Records
BY ClientAssumption

\* A directory may hold every image, and what is none.
LEMMA ImagesAreContents == Images \subseteq Contents /\ NotImages \subseteq Contents
BY DEF Contents

\* Troubles are counted up to their bound.
LEMMA TroubleType ==
    ASSUME TypeOK, NEW kind, Trouble(kind)
    PROVE  troubles' \in 0..MaxTroubles
<1>1. MaxTroubles \in Nat
  BY ClientAssumption
<1>2. troubles \in 0..MaxTroubles /\ troubles < MaxTroubles /\ troubles' = troubles + 1
  BY DEF TypeOK, Trouble
<1> QED BY <1>1, <1>2

\* A new device, or one with an old state, has no record that could be false.
LEMMA InitIInv == Init => IInv
<1> SUFFICES ASSUME Init PROVE IInv
  OBVIOUS
<1> USE DEF Init
<1>1. troubles \in 0..MaxTroubles
  <2>1. MaxTroubles \in Nat
    BY ClientAssumption
  <2> QED BY <2>1
<1>2. TypeOK
  BY <1>1, ImagesAreContents DEF TypeOK, PCs, NotImages
<1>3. PlaceInv
  BY NoneIsRecord DEF PlaceInv, True
<1> QED BY <1>2, <1>3 DEF IInv

\* A call that fails ends the pull and leaves the directory and the records.
LEMMA FailIInv ==
    ASSUME IInv, Fail, UNCHANGED <<latest, dir, disk, mem>>,
           goal' \in Images, staged' \in Contents
    PROVE  IInv'
<1>1. troubles' \in 0..MaxTroubles
  BY TroubleType DEF Fail, IInv
<1>2. pc' = "returned" /\ result' = "error"
  BY DEF Fail, Returns
<1>3. TypeOK'
  BY <1>1, <1>2 DEF IInv, TypeOK, PCs
<1>4. PlaceInv'
  BY <1>2 DEF IInv, PlaceInv, True
<1> QED BY <1>3, <1>4 DEF IInv

\* Every step of the client keeps what is known at its place in the code.
LEMMA NextIInv == IInv /\ [Next]_vars => IInv'
<1> SUFFICES ASSUME IInv, [Next]_vars PROVE IInv'
  OBVIOUS
<1>0. TypeOK /\ PlaceInv
  BY DEF IInv
<1>a. goal \in Images /\ staged \in Contents
  BY <1>0 DEF TypeOK
<1> USE NoneIsRecord, ImagesAreContents DEF storage, process
<1>1. CASE Start
  <2>1. mem' \in Records \cup {NoRecord} /\ (mem' \in Records => mem' = disk)
    BY <1>1 DEF Loaded, Start
  <2>2. TypeOK'
    BY <1>0, <1>1, <2>1 DEF TypeOK, Start, PCs, NotImages
  <2>3. PlaceInv'
    BY <1>0, <1>1, <2>1 DEF Start, PlaceInv, True
  <2> QED BY <2>2, <2>3 DEF IInv
<1>2. CASE Truncate
  <2>1. TypeOK'
    BY <1>0, <1>2 DEF TypeOK, Truncate, PCs
  <2>2. PlaceInv'
    BY <1>0, <1>2 DEF Truncate, PlaceInv, True
  <2> QED BY <2>1, <2>2 DEF IInv
<1>3. CASE Write
  <2>1. CASE Fail /\ UNCHANGED disk
    BY <1>3, <1>a, <2>1, FailIInv DEF Write
  <2>2. CASE /\ disk' = mem /\ UNCHANGED troubles
             /\ \/ pc = "initWrite" /\ pc' = "idle" /\ UNCHANGED result
                \/ pc = "write" /\ Returns("ok")
    <3>1. TypeOK'
      BY <1>0, <1>3, <2>2 DEF TypeOK, Write, Returns, PCs
    <3>2. PlaceInv'
      BY <1>0, <1>3, <2>2 DEF Write, Returns, PlaceInv, True
    <3> QED BY <3>1, <3>2 DEF IInv
  <2> QED BY <1>3, <2>1, <2>2 DEF Write
<1>4. CASE BeginPull
  <2>1. mem' = mem
    BY <1>0, <1>4 DEF BeginPull, Loaded, PlaceInv
  <2>2. TypeOK'
    BY <1>0, <1>4, <2>1 DEF TypeOK, BeginPull, Returns, PCs
  <2>3. PlaceInv'
    BY <1>0, <1>4, <2>1 DEF BeginPull, Returns, Unmodified, PlaceInv, True, TypeOK
  <2> QED BY <2>2, <2>3 DEF IInv
<1>5. CASE AskInVain \/ ReceiveDelta
  <2>1. TypeOK'
    BY <1>0, <1>5 DEF TypeOK, AskInVain, ReceiveDelta, Returns, PCs
  <2>2. PlaceInv'
    BY <1>0, <1>5 DEF AskInVain, ReceiveDelta, NeedsDelta, Returns, PlaceInv, True
  <2> QED BY <2>1, <2>2 DEF IInv
<1>6. CASE AskNoDelta
  <2>1. CASE Fail /\ UNCHANGED goal
    BY <1>6, <1>a, <2>1, FailIInv DEF AskNoDelta
  <2>2. CASE /\ goal' = latest /\ UNCHANGED troubles
             /\ Returns("ok") \/ (pc' = "fetchFull" /\ UNCHANGED result)
    <3>1. TypeOK'
      BY <1>0, <1>6, <2>2 DEF TypeOK, AskNoDelta, Returns, PCs
    <3>2. PlaceInv'
      BY <1>0, <1>6, <2>2 DEF AskNoDelta, Returns, PlaceInv, True
    <3> QED BY <3>1, <3>2 DEF IInv
  <2> QED BY <1>6, <2>1, <2>2 DEF AskNoDelta
<1>7. CASE FetchDelta
  <2>1. CASE Fail
    BY <1>7, <1>a, <2>1, FailIInv DEF FetchDelta
  <2>2. CASE pc' = "patch" /\ UNCHANGED <<result, troubles>>
    <3>1. TypeOK'
      BY <1>0, <1>7, <2>2 DEF TypeOK, FetchDelta, PCs
    <3>2. PlaceInv'
      BY <1>0, <1>7, <2>2 DEF FetchDelta, PlaceInv, True
    <3> QED BY <3>1, <3>2 DEF IInv
  <2> QED BY <1>7, <2>1, <2>2 DEF FetchDelta
<1>8. CASE Patch
  <2>1. CASE Fail /\ UNCHANGED staged
    BY <1>8, <1>a, <2>1, FailIInv DEF Patch
  <2>2. CASE /\ staged' = Patched(dir) /\ UNCHANGED <<result, troubles>>
             /\ pc' \in {"swapFile", "remove", "swapInPlace"}
    <3>1. staged' = goal
      BY <1>0, <1>8, <2>2 DEF Patch, Patched, PlaceInv, True
    <3>2. TypeOK'
      BY <1>0, <1>8, <2>2, <3>1 DEF TypeOK, Patch, PCs
    <3>3. PlaceInv'
      BY <1>0, <1>8, <2>2, <3>1 DEF Patch, PlaceInv, True
    <3> QED BY <3>2, <3>3 DEF IInv
  <2>3. CASE UNCHANGED <<staged, troubles>> /\ Returns("error")
    <3>1. TypeOK'
      BY <1>0, <1>8, <2>3 DEF TypeOK, Patch, Returns, PCs
    <3>2. PlaceInv'
      BY <1>0, <1>8, <2>3 DEF Patch, Returns, PlaceInv, True
    <3> QED BY <3>1, <3>2 DEF IInv
  <2>4. (\E p \in Patchers :
            pc' = CASE p = "file"      -> "swapFile"
                    [] p = "directory" -> "remove"
                    [] p = "in place"  -> "swapInPlace")
        => pc' \in {"swapFile", "remove", "swapInPlace"}
    BY ClientAssumption
  <2> QED BY <1>8, <2>1, <2>2, <2>3, <2>4 DEF Patch
<1>9. CASE SwapFile \/ SwapInPlace \/ Remove \/ Rename
  <2>1. CASE Fail /\ UNCHANGED dir
    BY <1>9, <1>a, <2>1, FailIInv DEF SwapFile, SwapInPlace, Remove, Rename
  <2>2. CASE /\ UNCHANGED <<result, troubles>>
             /\ \/ dir' = staged /\ pc' = "hash"
                \/ dir' \in {Mixed, Missing} /\ pc' \in {pc, "rename"}
    <3>1. TypeOK'
      BY <1>0, <1>9, <2>2 DEF TypeOK, SwapFile, SwapInPlace, Remove, Rename, PCs, NotImages
    <3>2. PlaceInv'
      BY <1>0, <1>9, <2>2 DEF SwapFile, SwapInPlace, Remove, Rename, PlaceInv, True
    <3> QED BY <3>1, <3>2 DEF IInv
  <2> QED BY <1>9, <2>1, <2>2 DEF SwapFile, SwapInPlace, Remove, Rename
<1>10. CASE SwapObstructed
  <2>1. dir' \in Contents
    BY <1>0, <1>10 DEF TypeOK, SwapObstructed, NotImages
  <2>2. TypeOK'
    BY <1>0, <1>10, <2>1 DEF TypeOK, SwapObstructed, Returns, PCs
  <2>3. PlaceInv'
    BY <1>0, <1>10 DEF SwapObstructed, Returns, PlaceInv, True
  <2> QED BY <2>2, <2>3 DEF IInv
<1>11. CASE FetchFull
  <2>1. CASE Fail /\ UNCHANGED <<goal, staged>>
    BY <1>11, <1>a, <2>1, FailIInv DEF FetchFull
  <2>2. CASE /\ goal' = latest /\ staged' = latest /\ pc' = "remove"
             /\ UNCHANGED <<result, troubles>>
    <3>1. TypeOK'
      BY <1>0, <1>11, <2>2 DEF TypeOK, FetchFull, PCs
    <3>2. PlaceInv'
      BY <1>0, <1>11, <2>2 DEF FetchFull, PlaceInv, True
    <3> QED BY <3>1, <3>2 DEF IInv
  <2> QED BY <1>11, <2>1, <2>2 DEF FetchFull
<1>12. CASE HashAndSet
  <2>1. CASE Fail /\ UNCHANGED mem
    BY <1>12, <1>a, <2>1, FailIInv DEF HashAndSet
  <2>2. CASE /\ mem' = [image |-> goal, hash |-> dir] /\ pc' = "truncate"
             /\ UNCHANGED <<result, troubles>>
    <3>1. dir = goal
      BY <1>0, <1>12 DEF HashAndSet, PlaceInv
    <3>2. mem' \in Records /\ mem'.hash = mem'.image
      BY <1>a, <2>2, <3>1 DEF Records
    <3>3. TypeOK'
      BY <1>0, <1>12, <2>2, <3>2 DEF TypeOK, HashAndSet, PCs
    <3>4. PlaceInv'
      BY <1>0, <1>12, <2>2, <3>1, <3>2 DEF HashAndSet, PlaceInv, True
    <3> QED BY <3>3, <3>4 DEF IInv
  <2> QED BY <1>12, <2>1, <2>2 DEF HashAndSet, InstalledImage
<1>13. CASE Exit \/ Crash
  <2>1. troubles' \in 0..MaxTroubles
    BY <1>0, <1>13, TroubleType DEF TypeOK, Exit, Crash
  <2>2. TypeOK'
    BY <1>0, <1>13, <2>1 DEF TypeOK, Exit, Crash, PCs, NotImages
  <2>3. PlaceInv'
    BY <1>0, <1>13 DEF Exit, Crash, PlaceInv, True
  <2> QED BY <2>2, <2>3 DEF IInv
<1>14. CASE Edit
  <2>1. troubles' \in 0..MaxTroubles
    BY <1>0, <1>14, TroubleType DEF Edit
  <2>2. TypeOK'
    BY <1>0, <1>14, <2>1 DEF TypeOK, Edit
  <2>3. PlaceInv'
    BY <1>0, <1>14 DEF Edit, PlaceInv, True
  <2> QED BY <2>2, <2>3 DEF IInv
<1>15. CASE Release \/ UNCHANGED vars
  <2>1. TypeOK'
    BY <1>0, <1>15 DEF TypeOK, Release, vars
  <2>2. PlaceInv'
    BY <1>0, <1>15 DEF Release, vars, PlaceInv, True
  <2> QED BY <2>1, <2>2 DEF IInv
<1> QED BY <1>1, <1>2, <1>3, <1>4, <1>5, <1>6, <1>7, <1>8, <1>9, <1>10,
           <1>11, <1>12, <1>13, <1>14, <1>15 DEF Next, Step

\* The invariant holds in every reachable state.
LEMMA IInvHolds == Spec => []IInv
BY InitIInv, NextIInv, PTL DEF Spec

\* The state of the client is well typed, whatever images there are.
THEOREM WellTyped == Spec => []TypeOK
<1>1. IInv => TypeOK
  BY DEF IInv
<1> QED BY <1>1, IInvHolds, PTL

\* However many processes crash, fail or find the directory edited, the record
\* never names another image than the one that has its hash, so a delta is only
\* applied to the image it was made from.
THEOREM RecordTheorem == Spec => []RecordIsTrue
<1>1. IInv => RecordIsTrue
  BY DEF IInv, PlaceInv, True, RecordIsTrue
<1> QED BY <1>1, IInvHolds, PTL

\* A pull reports success only when the image it went for is in the directory
\* and on record, also when nothing had to be done.
THEOREM SuccessTheorem == Spec => SuccessIsInstalled
<1> DEFINE A == result # "ok" /\ result' = "ok" =>
                   dir' = goal' /\ disk' = [image |-> goal', hash |-> goal']
<1>1. IInv /\ [Next]_vars => A
  <2> SUFFICES ASSUME IInv, [Next]_vars, result # "ok", result' = "ok"
               PROVE  dir' = goal' /\ disk' = [image |-> goal', hash |-> goal']
    OBVIOUS
  <2>1. CASE Write
    BY <2>1 DEF Write, Fail, Returns, IInv, PlaceInv
  <2>2. CASE AskNoDelta
    <3>1. /\ goal' = latest /\ latest = mem.image /\ disk' = disk /\ dir' = dir
          /\ pc = "ask"
      BY <2>2 DEF AskNoDelta, Fail, Returns, storage
    <3>2. /\ disk = mem /\ mem \in Records /\ dir = mem.hash
          /\ mem.hash = mem.image
      BY <3>1 DEF IInv, PlaceInv, True
    <3>3. disk = [image |-> mem.image, hash |-> mem.hash]
      BY <3>2 DEF Records
    <3> QED BY <3>1, <3>2, <3>3
  <2> QED BY <2>1, <2>2
          DEF Next, Step, Start, Truncate, BeginPull, AskInVain, ReceiveDelta,
              FetchDelta, Patch, SwapFile, SwapInPlace, SwapObstructed, FetchFull, Remove, Rename, HashAndSet, Exit, Crash,
              Edit, Release, Fail, Returns, vars, process
<1> HIDE DEF A
<1>2. IInv /\ [Next]_vars => [A]_vars
  BY <1>1
<1>3. Spec => [][A]_vars
  BY <1>2, IInvHolds, PTL DEF Spec
<1> QED BY <1>3 DEF SuccessIsInstalled, A
=============================================================================
