-------------------------- MODULE StateFileProofs ---------------------------
(***************************************************************************)
(* Proofs about StateFile for any set of clients and records, and for any  *)
(* number of starts and crashes: typing, the protection the lock gives     *)
(* until the file is disturbed, and that the file is a StateMap.           *)
(***************************************************************************)
EXTENDS StateFile, TLAPS

(***************************************************************************)
(* Typing                                                                  *)
(***************************************************************************)

\* The initial state of a client is a map without records.
LEMMA BlankIsMap == Blank \in Maps
BY DEF Blank, Maps

\* What Decode leaves in memory is a map of records, whatever the file holds.
LEMMA MergeType ==
    ASSUME NEW known \in Maps, NEW found
    PROVE  Merge(known, found) \in Maps
BY DEF Merge, Maps

\* SetArtifactState keeps it one.
LEMMA SetRecordType ==
    ASSUME NEW c \in Clients, NEW state \in Maps, NEW r \in Records
    PROVE  SetRecord(c, state, r) \in Maps
BY DEF SetRecord, Maps

\* A new device, or one with an old state file, is well typed.
LEMMA InitType == Init => TypeOK
<1> SUFFICES ASSUME Init PROVE TypeOK
  OBVIOUS
<1> USE DEF Init
<1>1. /\ generation \in Nat \ {0}
      /\ starts \in 0..MaxStarts /\ crashes \in 0..MaxCrashes
  BY StateFileAssumption
<1>2. /\ disk \in Maps \cup {NoDirectory, NoFile, Torn, Legacy}
      /\ mem \in [Clients -> Maps]
      /\ past \in [Clients -> SUBSET (Records \cup {NoRecord})]
  BY BlankIsMap
<1> QED BY <1>1, <1>2 DEF TypeOK, PCs

\* Every step of a client keeps the state well typed.
LEMMA NextType == TypeOK /\ [Next]_vars => TypeOK'
<1> SUFFICES ASSUME TypeOK, [Next]_vars PROVE TypeOK'
  OBVIOUS
<1> USE StateFileAssumption, BlankIsMap
    DEF TypeOK, PCs, Starting, Locked, Writing, Calls, Goto, Close, Disturbs,
        process, history
<1>1. ASSUME NEW c \in Clients, Start(c) PROVE TypeOK'
  BY <1>1 DEF Start
<1>2. ASSUME NEW c \in Clients, Purge(c) PROVE TypeOK'
  <2>1. generation' \in Nat \ {0}
    BY <1>2 DEF Purge
  <2> QED BY <1>2, <2>1 DEF Purge
<1>3. ASSUME NEW c \in Clients, Prepare(c) PROVE TypeOK'
  BY <1>3 DEF Prepare
<1>4. ASSUME NEW c \in Clients, OpenLock(c) PROVE TypeOK'
  BY <1>4 DEF OpenLock, Fails
<1>5. ASSUME NEW c \in Clients, Load(c) PROVE TypeOK'
  <2>1. Merge(mem[c], disk) \in Maps
    BY MergeType
  <2> QED BY <1>5, <2>1 DEF Load
<1>6. ASSUME NEW c \in Clients, Modify(c) PROVE TypeOK'
  <2>1. PICK r \in Records :
          mem' = [mem EXCEPT ![c] = SetRecord(c, Merge(mem[c], disk), r)]
    BY <1>6 DEF Modify
  <2>2. SetRecord(c, Merge(mem[c], disk), r) \in Maps
    BY MergeType, SetRecordType
  <2> QED BY <1>6, <2>1, <2>2 DEF Modify
<1>7. ASSUME NEW c \in Clients, Truncate(c) PROVE TypeOK'
  <2>1. CASE disk = NoDirectory /\ Fails(c) /\ UNCHANGED <<disk, tail, history>>
    BY <1>7, <2>1 DEF Truncate, Fails
  <2>2. CASE disk # NoDirectory
    <3>1. mem[c][c] \in Records \cup {NoRecord}
      BY DEF Maps
    <3>2. past' \in [Clients -> SUBSET (Records \cup {NoRecord})]
      <4>1. past' \in {past, [past EXCEPT ![c] = past[c] \cup {mem[c][c]}]}
        BY <1>7, <2>2 DEF Truncate
      <4> QED BY <3>1, <4>1
    <3>3. /\ disk' = Torn /\ tail' = FALSE
          /\ file' = [file EXCEPT ![c] = generation]
          /\ pc' \in {[pc EXCEPT ![c] = l] : l \in Writing}
          /\ disturbed' \in BOOLEAN
          /\ UNCHANGED <<mem, lockFile, generation, starts, crashes>>
      BY <1>7, <2>2 DEF Truncate
    <3> QED BY <3>2, <3>3
  <2> QED BY <1>7, <2>1, <2>2 DEF Truncate
<1>8. ASSUME NEW c \in Clients, Write(c) PROVE TypeOK'
  BY <1>8 DEF Write
<1>9. ASSUME NEW c \in Clients, Begin(c) PROVE TypeOK'
  BY <1>9 DEF Begin
<1>10. ASSUME NEW c \in Clients, Exit(c) PROVE TypeOK'
  BY <1>10 DEF Exit
<1>11. ASSUME NEW c \in Clients, Crash(c) PROVE TypeOK'
  BY <1>11 DEF Crash
<1>12. CASE UNCHANGED vars
  BY <1>12 DEF vars
<1> QED BY <1>1, <1>2, <1>3, <1>4, <1>5, <1>6, <1>7, <1>8, <1>9, <1>10, <1>11,
           <1>12 DEF Next, Step

\* The state is always well typed.
LEMMA Typed == Spec => []TypeOK
BY InitType, NextType, PTL DEF Spec

(***************************************************************************)
(* What a process holds and knows at each place in the code, disturbed or  *)
(* not.                                                                    *)
(***************************************************************************)

Unlocked == {"off", "purge", "prepare", "idle", "loaded"}
Fresh    == {"off", "purge", "prepare", "initLoad"}

Shape ==
    \A c \in Clients :
        /\ pc[c] \in Unlocked => lockFile[c] = 0
        /\ pc[c] \in Locked => lockFile[c] # 0
        /\ pc[c] \in Writing <=> file[c] # 0
        /\ pc[c] \in Fresh => mem[c] = Blank
        /\ pc[c] \in {"truncate", "write"} => mem[c][c] \in Records
        /\ disk = Legacy => pc[c] \in {"off", "purge"}

\* No process is running yet.
LEMMA InitShape == Init => Shape
<1> SUFFICES ASSUME Init, NEW c \in Clients
             PROVE  /\ pc[c] = "off" /\ lockFile[c] = 0 /\ file[c] = 0
                    /\ mem[c] = Blank
  BY DEF Shape, Unlocked, Fresh, Locked, Writing
<1> QED BY DEF Init

\* Files are open and records set at the places in the code that Shape says.
LEMMA NextShape == TypeOK /\ Shape /\ [Next]_vars => Shape'
<1> SUFFICES ASSUME TypeOK, Shape, [Next]_vars PROVE Shape'
  OBVIOUS
<1> USE StateFileAssumption
    DEF TypeOK, Shape, PCs, Unlocked, Fresh, Starting, Locked, Writing, Calls, Goto,
        Close, process, history
<1>1. ASSUME NEW c \in Clients, Start(c) PROVE Shape'
  BY <1>1 DEF Start, Outdated
<1>2. ASSUME NEW c \in Clients, Purge(c) PROVE Shape'
  BY <1>2 DEF Purge
<1>3. ASSUME NEW c \in Clients, Prepare(c) PROVE Shape'
  BY <1>3 DEF Prepare
<1>4. ASSUME NEW c \in Clients, OpenLock(c) PROVE Shape'
  BY <1>4 DEF OpenLock, Fails
<1>5. ASSUME NEW c \in Clients, Load(c) PROVE Shape'
  BY <1>5 DEF Load, CanLock
<1>6. ASSUME NEW c \in Clients, Modify(c) PROVE Shape'
  <2>1. PICK r \in Records :
          mem' = [mem EXCEPT ![c] = SetRecord(c, Merge(mem[c], disk), r)]
    BY <1>6 DEF Modify
  <2>2. Merge(mem[c], disk) \in Maps
    BY MergeType
  <2>3. mem'[c][c] = r
    BY <2>1, <2>2 DEF SetRecord, Maps
  <2>4. \A d \in Clients : d # c => mem'[d] = mem[d]
    BY <2>1
  <2> QED BY <1>6, <2>3, <2>4 DEF Modify, CanLock
<1>7. ASSUME NEW c \in Clients, Truncate(c) PROVE Shape'
  BY <1>7 DEF Truncate, Fails, CanLock
<1>8. ASSUME NEW c \in Clients, Write(c) PROVE Shape'
  BY <1>8 DEF Write
<1>9. ASSUME NEW c \in Clients, Begin(c) PROVE Shape'
  BY <1>9 DEF Begin
<1>10. ASSUME NEW c \in Clients, Exit(c) PROVE Shape'
  BY <1>10 DEF Exit
<1>11. ASSUME NEW c \in Clients, Crash(c) PROVE Shape'
  BY <1>11 DEF Crash
<1>12. CASE UNCHANGED vars
  BY <1>12 DEF vars
<1> QED BY <1>1, <1>2, <1>3, <1>4, <1>5, <1>6, <1>7, <1>8, <1>9, <1>10, <1>11,
           <1>12 DEF Next, Step

(***************************************************************************)
(* No record is made up or passes from one client to another.              *)
(***************************************************************************)

\* What is known of another client it once wrote; so is what a client knows of
\* itself, but for what it is about to record or failed to.
Genuine ==
    /\ disk \in Maps => \A c \in Clients : disk[c] \in past[c]
    /\ \A c, d \in Clients :
          c # d \/ pc[c] \in {"off"} \cup Starting \cup Writing => mem[c][d] \in past[d]
    /\ \A c \in Clients : NoRecord \in past[c]

\* There is no record yet.
LEMMA InitGenuine == Init => Genuine
BY StateFileAssumption DEF Init, Genuine, Blank

\* Merging, recording and writing pass on only what owners recorded.
LEMMA NextGenuine == TypeOK /\ Shape /\ Genuine /\ [Next]_vars => Genuine'
<1> SUFFICES ASSUME TypeOK, Shape, Genuine, [Next]_vars PROVE Genuine'
  OBVIOUS
<1> USE StateFileAssumption
    DEF TypeOK, Genuine, PCs, Starting, Locked, Writing, Calls, Goto, Close,
        process, history
<1>1. ASSUME NEW c \in Clients, Start(c) PROVE Genuine'
  BY <1>1 DEF Start
<1>2. ASSUME NEW c \in Clients, Purge(c) PROVE Genuine'
  BY <1>2 DEF Purge
<1>3. ASSUME NEW c \in Clients, Prepare(c) PROVE Genuine'
  BY <1>3 DEF Prepare
<1>4. ASSUME NEW c \in Clients, OpenLock(c) PROVE Genuine'
  BY <1>4 DEF OpenLock, Fails, Blank
<1>5. ASSUME NEW c \in Clients, Load(c) PROVE Genuine'
  <2>1. \A d \in Clients : mem[c][d] \in past[d] => mem'[c][d] \in past[d]
    BY <1>5 DEF Load, Merge, Maps
  <2>2. \A d \in Clients : d # c => mem'[d] = mem[d]
    BY <1>5 DEF Load
  <2> QED BY <1>5, <2>1, <2>2 DEF Load
<1>6. ASSUME NEW c \in Clients, Modify(c) PROVE Genuine'
  <2>1. PICK r \in Records :
          mem' = [mem EXCEPT ![c] = SetRecord(c, Merge(mem[c], disk), r)]
    BY <1>6 DEF Modify
  <2>2. \A d \in Clients : d # c => mem'[c][d] \in past[d]
    BY <2>1 DEF SetRecord, Merge, Maps
  <2>3. \A d \in Clients : d # c => mem'[d] = mem[d]
    BY <2>1
  <2> QED BY <1>6, <2>2, <2>3 DEF Modify
<1>7. ASSUME NEW c \in Clients, Truncate(c) PROVE Genuine'
  <2>1. CASE disk = NoDirectory /\ Fails(c) /\ UNCHANGED <<disk, tail, history>>
    BY <1>7, <2>1 DEF Truncate, Fails, Blank
  <2>2. CASE disk # NoDirectory /\ pc[c] = "truncate"
    <3>1. /\ disk' = Torn /\ mem' = mem /\ pc' = [pc EXCEPT ![c] = "write"]
          /\ past' = [past EXCEPT ![c] = past[c] \cup {mem[c][c]}]
      BY <1>7, <2>2 DEF Truncate
    <3> QED BY <2>2, <3>1
  <2>3. CASE disk # NoDirectory /\ pc[c] = "initCommit"
    BY <1>7, <2>3 DEF Truncate
  <2> QED BY <1>7, <2>1, <2>2, <2>3 DEF Truncate
<1>8. ASSUME NEW c \in Clients, Write(c) PROVE Genuine'
  BY <1>8 DEF Write
<1>9. ASSUME NEW c \in Clients, Begin(c) PROVE Genuine'
  BY <1>9 DEF Begin
<1>10. ASSUME NEW c \in Clients, Exit(c) PROVE Genuine'
  BY <1>10 DEF Exit, Blank
<1>11. ASSUME NEW c \in Clients, Crash(c) PROVE Genuine'
  BY <1>11 DEF Crash, Blank
<1>12. CASE UNCHANGED vars
  BY <1>12 DEF vars
<1> QED BY <1>1, <1>2, <1>3, <1>4, <1>5, <1>6, <1>7, <1>8, <1>9, <1>10, <1>11,
           <1>12 DEF Next, Step

(***************************************************************************)
(* Until it is disturbed, all locks are on one file, and the file is torn  *)
(* exactly while somebody writes.                                          *)
(***************************************************************************)

Protected ==
    ~disturbed =>
        /\ \A c \in Clients : {lockFile[c], file[c]} \subseteq {0, generation}
        /\ \A c, d \in Clients : pc[c] \in Locked /\ pc[d] \in Locked => c = d
        /\ \A c \in Clients : pc[c] \in Writing => disk = Torn
        /\ disk = Torn => \E c \in Clients : pc[c] \in Writing
        /\ ~tail
        /\ \A c \in Clients : pc[c] = "purge" => disk = Legacy

\* No lock is held yet.
LEMMA InitProtected == Init => Protected
BY StateFileAssumption DEF Init, Protected, Locked, Writing

\* Until it is disturbed, no step lets a second process into the lock.
LEMMA NextProtected == TypeOK /\ Shape /\ Protected /\ [Next]_vars => Protected'
<1> SUFFICES ASSUME TypeOK, Shape, Protected, ~disturbed', [Next]_vars
             PROVE  Protected'
  BY DEF Protected
<1> USE StateFileAssumption
    DEF TypeOK, Shape, Protected, PCs, Unlocked, Starting, Locked, Writing, Calls,
        Goto, Close, Disturbs, Others, process, history
<1>1. ASSUME NEW c \in Clients, Start(c) PROVE Protected'
  <2>1. /\ ~disturbed /\ ~Unparsable
        /\ UNCHANGED <<disk, tail, generation, lockFile, file>>
    BY <1>1 DEF Start
  <2>2. pc' = [pc EXCEPT ![c] = IF disk = Legacy THEN "purge" ELSE "prepare"]
    BY <1>1, <2>1 DEF Start, Outdated
  <2>3. pc[c] = "off"
    BY <1>1 DEF Start
  <2> QED BY <2>1, <2>2, <2>3
<1>2. ASSUME NEW c \in Clients, Purge(c) PROVE Protected'
  <2>1. \A d \in Clients : d # c => pc[d] = "off"
    BY <1>2 DEF Purge
  <2> QED BY <1>2, <2>1 DEF Purge
<1>3. ASSUME NEW c \in Clients, Prepare(c) PROVE Protected'
  BY <1>3 DEF Prepare
<1>4. ASSUME NEW c \in Clients, OpenLock(c) PROVE Protected'
  BY <1>4 DEF OpenLock, Fails
<1>5. ASSUME NEW c \in Clients, Load(c) PROVE Protected'
  BY <1>5 DEF Load
<1>6. ASSUME NEW c \in Clients, Modify(c) PROVE Protected'
  BY <1>6 DEF Modify, CanLock
<1>7. ASSUME NEW c \in Clients, Truncate(c) PROVE Protected'
  <2>1. CASE disk = NoDirectory /\ Fails(c) /\ UNCHANGED <<disk, tail, history>>
    BY <1>7, <2>1 DEF Truncate, Fails
  <2>2. CASE disk # NoDirectory
    <3>1. \A d \in Clients : pc[d] \in Locked => d = c
      BY <1>7, <2>2 DEF Truncate, CanLock
    <3>2. \A d \in Clients : pc[d] # "purge"
      BY <1>7, <2>2 DEF Truncate
    <3> QED BY <1>7, <2>2, <3>1, <3>2 DEF Truncate
  <2> QED BY <1>7, <2>1, <2>2 DEF Truncate
<1>8. ASSUME NEW c \in Clients, Write(c) PROVE Protected'
  <2>1. disk = Torn /\ file[c] = generation
    BY <1>8 DEF Write
  <2>2. disk' = mem[c] /\ mem[c] \in Maps /\ tail' = FALSE
    BY <1>8, <2>1 DEF Write
  <2>3. disk' \notin {Torn, Legacy}
    BY <2>2
  <2>4. \A d \in Clients : pc[d] \in Writing => d = c
    BY <1>8 DEF Write
  <2>5. \A d \in Clients : pc[d] # "purge"
    BY <1>8, <2>1 DEF Write
  <2> QED BY <1>8, <2>2, <2>3, <2>4, <2>5 DEF Write
<1>9. ASSUME NEW c \in Clients, Begin(c) PROVE Protected'
  BY <1>9 DEF Begin
<1>10. ASSUME NEW c \in Clients, Exit(c) PROVE Protected'
  BY <1>10 DEF Exit
<1>11. ASSUME NEW c \in Clients, Crash(c) PROVE Protected'
  <2>1. /\ ~disturbed /\ pc[c] \notin Writing
        /\ UNCHANGED <<disk, tail, generation>>
    BY <1>11 DEF Crash
  <2>2. /\ pc' = [pc EXCEPT ![c] = "off"]
        /\ lockFile' = [lockFile EXCEPT ![c] = 0]
        /\ file' = [file EXCEPT ![c] = 0]
    BY <1>11 DEF Crash
  <2> QED BY <2>1, <2>2
<1>12. CASE UNCHANGED vars
  BY <1>12 DEF vars
<1> QED BY <1>1, <1>2, <1>3, <1>4, <1>5, <1>6, <1>7, <1>8, <1>9, <1>10, <1>11,
           <1>12 DEF Next, Step

(***************************************************************************)
(* Until it is disturbed, the file, or who writes it, knows every record.  *)
(***************************************************************************)

StoredIs ==
    ~disturbed =>
        /\ disk \in Maps => Stored = disk
        /\ \A c \in Clients : pc[c] \in Writing => Stored = mem[c]
        /\ disk \notin Maps /\ disk # Torn => Stored = Blank

\* What readers come to see, from the file or from its only writer.
LEMMA WhatIsStored == TypeOK /\ Shape /\ Protected => StoredIs
<1> SUFFICES ASSUME TypeOK, Shape, Protected, ~disturbed PROVE StoredIs
  BY DEF StoredIs
<1> USE StateFileAssumption
<1>1. disk \in Maps => Stored = disk
  BY DEF Stored
<1>2. ASSUME NEW c \in Clients, pc[c] \in Writing PROVE Stored = mem[c]
  <2>1. disk \notin Maps
    BY <1>2 DEF Protected
  <2>2. Writers = {c}
    BY <1>2 DEF Protected, Shape, Writers, Locked
  <2> QED BY <2>1, <2>2 DEF Stored
<1>3. ASSUME disk \notin Maps, disk # Torn PROVE Stored = Blank
  <2>1. Writers = {}
    BY <1>3 DEF Protected, Writers
  <2> QED BY <1>3, <2>1 DEF Stored
<1> QED BY <1>1, <1>2, <1>3 DEF StoredIs

\* Disturbed or not, what is stored is a map, of what its owners once wrote.
StoredOfOwners == Stored \in Maps /\ \A c \in Clients : Stored[c] \in past[c]

\* What readers come to see was recorded by its owners.
LEMMA StoredIsGenuine == TypeOK /\ Genuine => StoredOfOwners
<1> SUFFICES ASSUME TypeOK, Genuine PROVE StoredOfOwners
  OBVIOUS
<1> USE DEF StoredOfOwners
<1>1. CASE disk \in Maps
  BY <1>1 DEF Stored, Genuine
<1>2. CASE disk \notin Maps /\ Writers # {}
  <2> DEFINE w == CHOOSE c \in Writers : TRUE
  <2>1. w \in Writers
    BY <1>2
  <2>2. Stored = mem[w]
    BY <1>2 DEF Stored
  <2> HIDE DEF w
  <2> QED BY <2>1, <2>2 DEF Writers, TypeOK, Genuine
<1>3. CASE disk \notin Maps /\ Writers = {}
  <2>1. Stored = Blank
    BY <1>3 DEF Stored
  <2> QED BY <2>1, BlankIsMap DEF Genuine, Blank
<1> QED BY <1>1, <1>2, <1>3

\* What a process commits on its start is what is stored; it has seen no record
\* that was lost; and what it is about to record leaves the others alone.
Faithful ==
    ~disturbed =>
        /\ \A c \in Clients : pc[c] = "initCommit" => mem[c] = Stored
        /\ \A c, d \in Clients :
              c # d /\ mem[c][d] # NoRecord => Stored[d] # NoRecord
        /\ \A c, d \in Clients : pc[c] = "truncate" /\ c # d => mem[c][d] = Stored[d]

IInv == TypeOK /\ Shape /\ Genuine /\ Protected /\ Faithful

\* A client records something: the only step that changes what is stored.
Recorded(c) ==
    /\ pc[c] = "truncate"
    /\ \A d \in Clients \ {c} : pc[d] \notin Starting
    /\ pc' = [pc EXCEPT ![c] = "write"]
    /\ mem' = mem
    /\ past' = [past EXCEPT ![c] = @ \cup {mem[c][c]}]
    /\ Stored' = mem[c]

\* Nobody sees a step that leaves the file and its writer alone.
LEMMA StoredStays ==
    ASSUME TypeOK, Shape, Protected, (TypeOK /\ Shape /\ Protected)',
           ~disturbed, ~disturbed', disk' = disk,
           \A c \in Clients : pc[c] \in Writing =>
               pc'[c] \in Writing /\ mem'[c] = mem[c]
    PROVE  Stored' = Stored
<1>1. StoredIs /\ StoredIs'
  BY WhatIsStored, PTL
<1>2. CASE disk \in Maps
  BY <1>1, <1>2 DEF StoredIs
<1>3. CASE disk = Torn
  BY <1>1, <1>3 DEF StoredIs, Protected
<1>4. CASE disk \notin Maps /\ disk # Torn
  BY <1>1, <1>4 DEF StoredIs
<1> QED BY <1>2, <1>3, <1>4

\* An undisturbed step leaves what is stored, or records.
LEMMA StoredStep ==
    ASSUME TypeOK, Shape, Protected, Faithful, (TypeOK /\ Shape /\ Protected)',
           ~disturbed', [Next]_vars
    PROVE  \/ Stored' = Stored /\ past' = past
           \/ \E c \in Clients : Recorded(c)
<1> USE DEF Goto, Close, Disturbs, process, history
<1> DEFINE Stays == Stored' = Stored /\ past' = past
<1>1. StoredIs /\ StoredIs'
  BY WhatIsStored, PTL
<1>2. ASSUME NEW c \in Clients,
             Start(c) \/ OpenLock(c) \/ Load(c) \/ Modify(c) \/ Begin(c) \/ Exit(c)
      PROVE  Stays
  <2>1. disk' = disk /\ past' = past
    BY <1>2 DEF Start, OpenLock, Fails, Load, Modify, Begin, Exit
  <2>3. ~disturbed
    BY <1>2 DEF Start, OpenLock, Fails, Load, Modify, Begin, Exit
  <2>2. \A d \in Clients : pc[d] \in Writing => pc'[d] \in Writing /\ mem'[d] = mem[d]
    BY <1>2 DEF Start, OpenLock, Fails, Load, Modify, Begin, Exit, Calls, Writing, TypeOK
  <2> QED BY <2>1, <2>2, <2>3, StoredStays
<1>3. ASSUME NEW c \in Clients, Purge(c) PROVE Stays
  <2>1. ~disturbed /\ disk = Legacy /\ disk' = NoDirectory /\ past' = past
    BY <1>3 DEF Purge, Protected
  <2> QED BY <1>1, <2>1, StateFileAssumption DEF StoredIs
<1>4. ASSUME NEW c \in Clients, Prepare(c) PROVE Stays
  <2>1. ~disturbed /\ past' = past
    BY <1>4 DEF Prepare
  <2>2. CASE disk = NoDirectory
    BY <1>1, <1>4, <2>1, <2>2, StateFileAssumption DEF Prepare, StoredIs
  <2>3. CASE disk # NoDirectory
    <3>1. disk' = disk
      BY <1>4, <2>3 DEF Prepare
    <3>2. \A d \in Clients : pc[d] \in Writing => pc'[d] \in Writing /\ mem'[d] = mem[d]
      BY <1>4 DEF Prepare, Writing, TypeOK
    <3> QED BY <2>1, <3>1, <3>2, StoredStays
  <2> QED BY <2>2, <2>3
<1>5. ASSUME NEW c \in Clients, Truncate(c), ~(Stays) PROVE Recorded(c)
  <2>1. CASE disk = NoDirectory /\ Fails(c) /\ UNCHANGED <<disk, tail, history>>
    <3>1. \A d \in Clients : pc[d] \in Writing => pc'[d] \in Writing /\ mem'[d] = mem[d]
      BY <1>5, <2>1 DEF Truncate, Fails, Writing, TypeOK
    <3> QED BY <1>5, <2>1, <3>1, StoredStays
  <2>2. CASE disk # NoDirectory
    <3>1. ~disturbed /\ mem' = mem
      BY <1>5, <2>2 DEF Truncate
    <3>2. pc'[c] \in Writing
      BY <1>5, <2>2 DEF Truncate, Writing, TypeOK
    <3>3. Stored' = mem[c]
      BY <1>1, <3>1, <3>2 DEF StoredIs
    <3>4. pc[c] # "initCommit"
      BY <1>5, <2>2, <3>1, <3>3 DEF Truncate, Faithful
    <3> QED BY <1>5, <2>2, <3>3, <3>4 DEF Truncate, Recorded, Others
  <2> QED BY <1>5, <2>1, <2>2 DEF Truncate
<1>6. ASSUME NEW c \in Clients, Write(c) PROVE Stays
  <2>1. ~disturbed /\ past' = past /\ pc[c] \in Writing
    BY <1>6 DEF Write
  <2>2. file[c] = generation
    BY <2>1 DEF Protected, Shape
  <2>3. disk' = mem[c] /\ mem[c] \in Maps
    BY <1>6, <2>2 DEF Write, TypeOK
  <2>4. Stored = mem[c] /\ Stored' = mem[c]
    BY <1>1, <2>1, <2>3 DEF StoredIs
  <2> QED BY <2>1, <2>4
<1>7. ASSUME NEW c \in Clients, Crash(c) PROVE Stays
  <2>1. ~disturbed /\ pc[c] \notin Writing /\ disk' = disk /\ past' = past
    BY <1>7 DEF Crash
  <2>2. \A d \in Clients : pc[d] \in Writing => pc'[d] \in Writing /\ mem'[d] = mem[d]
    BY <1>7, <2>1 DEF Crash, TypeOK
  <2> QED BY <2>1, <2>2, StoredStays
<1>8. CASE UNCHANGED vars
  <2>1. ~disturbed /\ disk' = disk /\ past' = past /\ pc' = pc /\ mem' = mem
    BY <1>8 DEF vars
  <2> QED BY <2>1, StoredStays
<1> QED BY <1>2, <1>3, <1>4, <1>5, <1>6, <1>7, <1>8 DEF Next, Step

\* No process remembers anything yet.
LEMMA InitFaithful == Init => Faithful
BY DEF Init, Faithful, Blank

\* Until it is disturbed, a process about to write knows all others' records.
LEMMA NextFaithful ==
    ASSUME TypeOK, Shape, Protected, Faithful, (TypeOK /\ Shape /\ Protected)',
           [Next]_vars
    PROVE  Faithful'
<1> SUFFICES ASSUME ~disturbed' PROVE Faithful'
  BY DEF Faithful
<1>1. StoredIs
  BY WhatIsStored
<1>2. ~disturbed
  BY DEF Next, Step, Start, Purge, Prepare, Begin, Exit, OpenLock, Load, Modify,
         Truncate, Write, Crash, Fails, Disturbs, vars, history
<1>3. CASE \E c \in Clients : Recorded(c)
  <2>1. PICK c \in Clients : Recorded(c)
    BY <1>3
  <2>2. mem[c][c] # NoRecord
    BY <2>1, StateFileAssumption DEF Recorded, Shape
  <2>3. \A d \in Clients : d # c => Stored'[d] = Stored[d]
    BY <1>2, <2>1 DEF Recorded, Faithful
  <2>4. Stored'[c] # NoRecord
    BY <2>1, <2>2 DEF Recorded
  <2>5. \A d \in Clients : pc'[d] # "initCommit" /\ (pc'[d] = "truncate" => FALSE)
    BY <1>2, <2>1 DEF Recorded, TypeOK, Starting, Protected, Locked
  <2>6. mem' = mem
    BY <2>1 DEF Recorded
  <2> QED BY <1>2, <2>3, <2>4, <2>5, <2>6 DEF Faithful
<1>4. CASE Stored' = Stored /\ past' = past
  <2> USE DEF TypeOK, Goto, process
  <2>1. ASSUME NEW c \in Clients,
               \/ Start(c) \/ Purge(c) \/ Prepare(c) \/ Begin(c)
        PROVE  Faithful'
    <3>1. /\ mem' = mem
          /\ \A d \in Clients : pc'[d] \in {"initCommit", "truncate"} => pc'[d] = pc[d]
      BY <2>1 DEF Start, Purge, Prepare, Begin
    <3> QED BY <1>2, <1>4, <3>1 DEF Faithful
  <2>2. ASSUME NEW c \in Clients, \/ Exit(c) \/ OpenLock(c) \/ Crash(c) \/ Write(c)
                                  \/ Truncate(c)
        PROVE  Faithful'
    <3>1. \A d \in Clients : mem'[d] \in {mem[d], Blank}
      BY <2>2 DEF Exit, OpenLock, Crash, Write, Truncate, Fails
    <3>2. \A d \in Clients : pc'[d] \in {"initCommit", "truncate"} =>
             pc'[d] = pc[d] /\ mem'[d] = mem[d]
      BY <2>2 DEF Exit, OpenLock, Crash, Write, Truncate, Fails
    <3> QED BY <1>2, <1>4, <3>1, <3>2 DEF Faithful, Blank
  <2>3. ASSUME NEW c \in Clients, Load(c) PROVE Faithful'
    <3>1. /\ mem' = [mem EXCEPT ![c] = Merge(mem[c], disk)]
          /\ \A d \in Clients : d # c => pc'[d] = pc[d]
          /\ pc'[c] = IF pc[c] = "load" THEN "loaded" ELSE "initCommit"
      BY <2>3 DEF Load
    <3>2. disk # Torn
      BY <1>2, <2>3 DEF Load, CanLock, Protected, Shape, Locked, Calls
    <3>3. Merge(mem[c], disk) = Stored \/ pc'[c] = "loaded"
      BY <1>1, <1>2, <2>3, <3>1, <3>2 DEF StoredIs, Load, Merge, Shape, Fresh, Blank, Maps
    <3>4. \A d \in Clients : c # d /\ Merge(mem[c], disk)[d] # NoRecord =>
             Stored[d] # NoRecord
      BY <1>1, <1>2 DEF StoredIs, Faithful, Merge, Maps
    <3> QED BY <1>2, <1>4, <3>1, <3>3, <3>4 DEF Faithful
  <2>4. ASSUME NEW c \in Clients, Modify(c) PROVE Faithful'
    <3>1. PICK r \in Records :
            mem' = [mem EXCEPT ![c] = SetRecord(c, Merge(mem[c], disk), r)]
      BY <2>4 DEF Modify
    <3>2. disk # Torn
      BY <1>2, <2>4 DEF Modify, CanLock, Protected, Shape, Locked
    <3>3. \A d \in Clients : c # d => mem'[c][d] = Stored[d]
      BY <1>1, <1>2, <3>1, <3>2 DEF StoredIs, Faithful, SetRecord, Merge, Maps, Blank
    <3>4. \A d \in Clients : d # c => pc'[d] = pc[d] /\ mem'[d] = mem[d]
      BY <2>4, <3>1 DEF Modify
    <3>5. pc'[c] = "truncate"
      BY <2>4 DEF Modify
    <3> QED BY <1>2, <1>4, <3>3, <3>4, <3>5 DEF Faithful
  <2>5. CASE UNCHANGED vars
    BY <1>2, <1>4, <2>5 DEF vars, Faithful
  <2> QED BY <2>1, <2>2, <2>3, <2>4, <2>5 DEF Next, Step
<1> QED BY <1>3, <1>4, StoredStep

\* The invariant holds in every reachable state.
LEMMA IInvHolds == Spec => []IInv
<1>1. Init => IInv
  BY InitType, InitShape, InitGenuine, InitProtected, InitFaithful DEF IInv
<1>2. IInv /\ [Next]_vars => IInv'
  BY NextType, NextShape, NextGenuine, NextProtected, NextFaithful DEF IInv
<1> QED BY <1>1, <1>2, PTL DEF Spec

(***************************************************************************)
(* The theorems                                                            *)
(***************************************************************************)

\* The state of any number of clients is well typed, however often they start
\* and die.
THEOREM WellTyped == Spec => []TypeOK
BY Typed

\* flock protects the state file from any number of clients until it is
\* disturbed: one writer, and no reader that meets a torn file.
THEOREM LockTheorem == Spec => []LockProtects
<1>1. IInv => LockProtects
  BY DEF IInv, Protected, LockProtects, Shape, Writers, Locked
<1> QED BY <1>1, IInvHolds, PTL

\* The file the clients share is a map of records: Load, Commit and ModifyState
\* of any number of clients never lose or change another's record until it is
\* disturbed, and never make one up.
THEOREM Refinement == Spec => IsStateMap
<1>1. Init => SM!Init
  <2> SUFFICES ASSUME Init PROVE SM!Init
    OBVIOUS
  <2>1. StoredIs
    BY WhatIsStored, InitType, InitShape, InitProtected
  <2> QED BY <2>1, StateFileAssumption DEF Init, StoredIs, SM!Init, Blank
<1>2. IInv /\ IInv' /\ [Next]_vars => [SM!Next]_SM!vars
  <2> SUFFICES ASSUME IInv, IInv', [Next]_vars PROVE [SM!Next]_SM!vars
    OBVIOUS
  <2>1. CASE ~disturbed'
    <3>1. ~disturbed
      BY <2>1 DEF Next, Step, Start, Purge, Prepare, Begin, Exit, OpenLock, Load,
         Modify, Truncate, Write, Crash, Fails, Disturbs, vars, history
    <3>2. CASE Stored' = Stored /\ past' = past
      BY <2>1, <3>1, <3>2 DEF SM!vars, IInv, TypeOK
    <3>3. ASSUME NEW c \in Clients, Recorded(c) PROVE SM!Set(c, mem[c][c])
      <4>1. Stored \in Maps /\ mem[c] \in Maps
        BY StoredIsGenuine DEF StoredOfOwners, IInv, TypeOK
      <4>2. mem[c] = [Stored EXCEPT ![c] = mem[c][c]]
        BY <3>1, <3>3, <4>1 DEF Recorded, IInv, Faithful, Maps
      <4>3. disturbed' = disturbed
        BY <2>1, <3>1 DEF IInv, TypeOK
      <4> QED BY <3>3, <4>2, <4>3 DEF Recorded, SM!Set, SM!Remember
    <3>4. \A c \in Clients : Recorded(c) => mem[c][c] \in Records
      BY DEF IInv, Recorded, Shape
    <3>5. (Stored' = Stored /\ past' = past) \/ \E c \in Clients : Recorded(c)
      BY <2>1, StoredStep DEF IInv
    <3> QED BY <3>2, <3>3, <3>4, <3>5 DEF SM!Next
  <2>2. CASE disturbed'
    <3>1. Stored' \in Maps /\ \A c \in Clients : Stored'[c] \in past'[c]
      <4>1. (TypeOK /\ Genuine)'
        BY DEF IInv
      <4>2. StoredOfOwners'
        BY <4>1, StoredIsGenuine, PTL
      <4> QED BY <4>2 DEF StoredOfOwners
    <3>2. past' = past \/ \E c \in Clients, r \in Records : SM!Remember(c, r)
      <4>1. ASSUME NEW c \in Clients, Truncate(c), past' # past
            PROVE  SM!Remember(c, mem[c][c]) /\ mem[c][c] \in Records
        BY <4>1 DEF Truncate, history, SM!Remember, IInv, Shape
      <4> QED BY <4>1 DEF Next, Step, Start, Purge, Prepare, Begin, Exit, OpenLock,
                 Load, Modify, Write, Crash, vars, history
    <3>3. disturbed' = TRUE
      BY <2>2 DEF IInv, TypeOK
    <3> QED BY <3>1, <3>2, <3>3 DEF SM!Next, SM!Disturb, SM!Maps, Maps
  <2> QED BY <2>1, <2>2
<1> QED BY <1>1, <1>2, IInvHolds, PTL DEF Spec, IsStateMap, SM!Spec
=============================================================================
