------------------------------ MODULE StateFile -----------------------------
(***************************************************************************)
(* doras-state.json, as several client processes on a device share it      *)
(* (statemanager.go, builder.go): each keeps the record of its own output  *)
(* directory in one JSON map, reads and writes the whole of it, in place,  *)
(* under a lock on a second file, and may die at any step.                 *)
(*                                                                         *)
(* NewClient looks at the file without the lock first, and removes the     *)
(* whole internal directory if what it reads does not parse.  That takes   *)
(* the lock file along: who opened it before holds a lock that nobody who  *)
(* opens it later will wait for, and who was writing writes to a file that *)
(* no longer has a name.  The files between two generation are a generation. *)
(*                                                                         *)
(* A read under the shared lock is one step with taking and dropping it.   *)
(***************************************************************************)
EXTENDS Naturals

CONSTANTS
    Clients,        \* processes, each with its own output directory
    Records,        \* image and hash of a directory
    NoRecord,
    NoDirectory,    \* the internal directory is gone
    NoFile,         \* it has no state file
    Torn,           \* a state file that was truncated and not written
    Legacy,         \* a state file of version 1
    MaxStarts,      \* number of times a process starts
    MaxCrashes      \* number of times one dies

Maps == [Clients -> Records \cup {NoRecord}]
Blank == [c \in Clients |-> NoRecord]

ASSUME StateFileAssumption ==
    /\ NoRecord \notin Records
    /\ {NoDirectory, NoFile, Torn, Legacy} \cap Maps = {}
    /\ NoDirectory \notin {NoFile, Torn, Legacy}
    /\ NoFile \notin {Torn, Legacy}
    /\ Torn # Legacy
    /\ MaxStarts \in Nat /\ MaxCrashes \in Nat

VARIABLES
    disk,       \* what is at the path of the state file
    tail,       \* remains of another write follow the map in the file
    generation, \* of the files: it ends when the directory is removed
    pc,
    mem,        \* Manager.state of every process
    lockFile,   \* generation of the lock file a process has opened, or 0
    file,       \* generation of the state file it has opened to write, or 0
    starts, crashes,
    past,       \* history: what every client has written at some time
    disturbed   \* history: see Disturbs

process == <<mem, lockFile, file>>
history == <<past, disturbed>>
vars == <<disk, tail, generation, pc, process, starts, crashes, history>>

Starting == {"purge", "prepare", "initLoad", "initCommit"}
Writing  == {"initWrite", "write"}
Locked   == Writing \cup {"truncate"}      \* these hold the exclusive lock
Calls    == {"initLoad", "initCommit", "load", "modify"}
PCs      == {"off", "idle", "loaded"} \cup Starting \cup Locked \cup Calls

TypeOK ==
    /\ disk \in Maps \cup {NoDirectory, NoFile, Torn, Legacy}
    /\ tail \in BOOLEAN
    /\ generation \in Nat \ {0}
    /\ pc \in [Clients -> PCs]
    /\ mem \in [Clients -> Maps]
    /\ lockFile \in [Clients -> Nat]
    /\ file \in [Clients -> Nat]
    /\ starts \in 0..MaxStarts
    /\ crashes \in 0..MaxCrashes
    /\ past \in [Clients -> SUBSET (Records \cup {NoRecord})]
    /\ disturbed \in BOOLEAN

Init ==
    /\ disk \in {NoDirectory, Legacy}
    /\ tail = FALSE
    /\ generation = 1
    /\ pc = [c \in Clients |-> "off"]
    /\ mem = [c \in Clients |-> Blank]
    /\ lockFile = [c \in Clients |-> 0]
    /\ file = [c \in Clients |-> 0]
    /\ starts = 0 /\ crashes = 0
    /\ past = [c \in Clients |-> {NoRecord}]
    /\ disturbed = FALSE

-----------------------------------------------------------------------------
Goto(c, l) == pc' = [pc EXCEPT ![c] = l]

Close(c) ==
    /\ lockFile' = [lockFile EXCEPT ![c] = 0]
    /\ file' = [file EXCEPT ![c] = 0]

Disturbs(condition) == disturbed' = (disturbed \/ condition)

Others(c, S) == \E d \in Clients \ {c} : pc[d] \in S

\* A call that fails ends NewClient, and with it the process, or the pull.
Fails(c) ==
    /\ Goto(c, IF pc[c] \in {"initLoad", "initCommit"} THEN "off" ELSE "idle")
    /\ mem' = IF pc[c] \in {"initLoad", "initCommit"}
              THEN [mem EXCEPT ![c] = Blank] ELSE mem
    /\ Close(c)

\* What json.Unmarshal of the legacy check, which wants the whole file, refuses,
\* and what it says is old.
Unparsable == disk = Torn \/ tail
Outdated   == Unparsable \/ disk = Legacy

\* Mutants: the entries of the file are taken as they are; they are ignored by
\* a process that has a state of its own.
Replace(known, found) == found
KeepOwn(known, found) == IF known = Blank /\ found \in Maps THEN found ELSE known

\* What Decode leaves in memory: the entries of the file replace those known,
\* the others stay; a file that is absent or torn changes nothing.
Merge(known, found) ==
    IF found \in Maps
    THEN [c \in Clients |-> IF found[c] = NoRecord THEN known[c] ELSE found[c]]
    ELSE known

\* NewClient, cleanupLegacyState: the file is read without its lock.
Start(c) ==
    /\ pc[c] = "off"
    /\ starts < MaxStarts
    /\ starts' = starts + 1
    /\ Goto(c, IF Outdated THEN "purge" ELSE "prepare")
    /\ Disturbs(Unparsable)
    /\ UNCHANGED <<disk, tail, generation, process, crashes, past>>

Purge(c) ==
    /\ pc[c] = "purge"
    /\ disk' = NoDirectory
    /\ tail' = FALSE
    /\ generation' = generation + 1
    /\ Goto(c, "prepare")
    /\ Disturbs(Others(c, PCs \ {"off"}))
    /\ UNCHANGED <<process, starts, crashes, past>>

\* MkdirAll.
Prepare(c) ==
    /\ pc[c] = "prepare"
    /\ disk' = IF disk = NoDirectory THEN NoFile ELSE disk
    /\ Goto(c, "initLoad")
    /\ UNCHANGED <<tail, generation, process, starts, crashes, history>>

\* PullAsync loads the state; a pull that gets that far records what it has
\* installed; one that waits, fails or finds nothing to do loads again.
Begin(c) ==
    /\ \/ pc[c] = "idle" /\ Goto(c, "load")
       \/ pc[c] = "loaded" /\ \E l \in {"modify", "idle"} : Goto(c, l)
    /\ UNCHANGED <<disk, tail, generation, process, starts, crashes, history>>

Exit(c) ==
    /\ pc[c] = "idle"
    /\ Goto(c, "off")
    /\ mem' = [mem EXCEPT ![c] = Blank]
    /\ UNCHANGED <<disk, tail, generation, lockFile, file, starts, crashes, history>>

-----------------------------------------------------------------------------
\* flock.Lock and RLock open the lock file, then wait for it.
OpenLock(c) ==
    /\ pc[c] \in Calls /\ lockFile[c] = 0
    /\ IF disk = NoDirectory
       THEN Fails(c)
       ELSE /\ lockFile' = [lockFile EXCEPT ![c] = generation]
            /\ UNCHANGED <<pc, mem, file>>
    /\ UNCHANGED <<disk, tail, generation, starts, crashes, history>>

\* Mutants: the lock is shared by writers; ModifyState takes the shared lock to
\* load, and then asks for the exclusive one.
CanLockShared(c) == lockFile[c] # 0

CanUpgrade(c) ==
    /\ lockFile[c] # 0
    /\ \A d \in Clients \ {c} :
          pc[d] \in Locked \cup {"modify"} => lockFile[d] # lockFile[c]

CanLock(c) ==
    /\ lockFile[c] # 0
    /\ \A d \in Clients : pc[d] \in Locked => lockFile[d] # lockFile[c]

Load(c) ==
    /\ pc[c] \in {"initLoad", "load"}
    /\ CanLock(c)
    /\ mem' = [mem EXCEPT ![c] = Merge(@, disk)]
    /\ Goto(c, IF pc[c] = "load" THEN "loaded" ELSE "initCommit")
    /\ Close(c)
    /\ UNCHANGED <<disk, tail, generation, starts, crashes, history>>

\* SetArtifactState.
SetRecord(c, state, r) == [state EXCEPT ![c] = r]

\* ModifyState, up to and including its callback.
Modify(c) ==
    /\ pc[c] = "modify"
    /\ CanLock(c)
    /\ \E r \in Records :
          mem' = [mem EXCEPT ![c] = SetRecord(c, Merge(@, disk), r)]
    /\ Goto(c, "truncate")
    /\ UNCHANGED <<disk, tail, generation, lockFile, file, starts, crashes, history>>

\* Commit and the second half of ModifyState open the file with O_TRUNC ...
Truncate(c) ==
    /\ \/ pc[c] = "initCommit" /\ CanLock(c)
       \/ pc[c] = "truncate"
    /\ \/ /\ disk = NoDirectory
          /\ Fails(c)
          /\ UNCHANGED <<disk, tail, history>>
       \/ /\ disk # NoDirectory
          /\ disk' = Torn
          /\ tail' = FALSE
          /\ file' = [file EXCEPT ![c] = generation]
          /\ past' = IF pc[c] = "truncate"
                     THEN [past EXCEPT ![c] = @ \cup {mem[c][c]}] ELSE past
          /\ Disturbs(pc[c] = "truncate" /\ Others(c, Starting))
          /\ Goto(c, IF pc[c] = "truncate" THEN "write" ELSE "initWrite")
          /\ UNCHANGED <<mem, lockFile>>
    /\ UNCHANGED <<generation, starts, crashes>>

\* ... and then write the map from its start, into whatever that file has
\* become: after a removal it is no longer the one at the path, and somebody
\* with another lock may have written to it.
Write(c) ==
    /\ pc[c] \in Writing
    /\ IF file[c] = generation
       THEN disk' = mem[c] /\ tail' \in {FALSE, disk # Torn}
       ELSE UNCHANGED <<disk, tail>>
    /\ Goto(c, "idle")
    /\ Close(c)
    /\ UNCHANGED <<generation, mem, starts, crashes, history>>

\* The kernel drops the locks of a process that dies.
Crash(c) ==
    /\ pc[c] # "off"
    /\ crashes < MaxCrashes
    /\ crashes' = crashes + 1
    /\ Goto(c, "off")
    /\ mem' = [mem EXCEPT ![c] = Blank]
    /\ Close(c)
    /\ Disturbs(pc[c] \in Writing)
    /\ UNCHANGED <<disk, tail, generation, starts, past>>

Step(c) ==
    \/ Start(c) \/ Purge(c) \/ Prepare(c) \/ OpenLock(c) \/ Load(c)
    \/ Modify(c) \/ Truncate(c) \/ Write(c)

Next == \E c \in Clients : Step(c) \/ Begin(c) \/ Exit(c) \/ Crash(c)

Spec == Init /\ [][Next]_vars

\* A process that has begun a call goes on with it, and a lock that becomes
\* free again and again is granted at some time; when to pull, to exit or to
\* die is nobody's duty.
Fairness == \A c \in Clients : WF_vars(Step(c)) /\ SF_vars(Modify(c) \/ Truncate(c))

FairSpec == Spec /\ Fairness

-----------------------------------------------------------------------------
Writers == {c \in Clients : pc[c] \in Writing /\ file[c] = generation}

\* The map as its readers come to see it: a write counts from its truncation.
Stored == CASE disk \in Maps -> disk
            [] disk \notin Maps /\ Writers # {} -> mem[CHOOSE c \in Writers : TRUE]
            [] OTHER -> Blank

SM == INSTANCE StateMap WITH map <- Stored

\* The clients' file is a map whose records only change at the will of their
\* owners and are never lost, whatever the order of loads and modifications,
\* until it is disturbed: a process dies writing, a client is started while
\* another records something or is writing, or the directory is removed under
\* a running client.  Even then a record is only lost, or falls back to
\* something its owner recorded: the client pulls in full once, and does not
\* take its directory for what it is not (Load, Commit, ModifyState, NewClient).
IsStateMap == SM!Spec

\* Until it is disturbed, at most one process has the lock for writing, in
\* whichever file, a torn state file is one that process is writing, and so
\* nobody who reads under the lock meets one (flock in Load and ModifyState).
LockProtects ==
    ~disturbed =>
        /\ \A c, d \in Clients : {pc[c], pc[d]} \subseteq Locked => c = d
        /\ disk = Torn => Writers # {}
        /\ ~tail

\* Every modification that has begun is completed, fails or dies with its
\* process: no removal of the directory, crash or other client leaves it
\* waiting for a lock that is never released (ModifyState).
ModifyEnds == \A c \in Clients : pc[c] = "modify" ~> pc[c] \in {"idle", "off"}
=============================================================================
