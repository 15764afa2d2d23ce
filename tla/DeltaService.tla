---------------------------- MODULE DeltaService ----------------------------
(***************************************************************************)
(* The Doras server: HTTP handlers that look a delta up in the registry,   *)
(* and the goroutines they spawn to create one, on several server          *)
(* instances that share nothing but the registry.                          *)
(*                                                                         *)
(* A handler walks through readDelta one registry call at a time (pc).     *)
(* It answers with a stored delta, says a delta is being made, or marks    *)
(* the location with a dummy and spawns a creation goroutine (task).       *)
(* Between any two of these steps every other handler, goroutine and       *)
(* instance may run, dummies may expire, images may be released, registry  *)
(* calls may fail and an instance may stop, gracefully or not.             *)
(***************************************************************************)
EXTENDS DeltaLocation, Integers, FiniteSets

CONSTANTS
    Servers,      \* the server instances
    Requests,     \* one per HTTP request that is ever made
    LatestTag,    \* the image tag clients ask an update to
    Asks,         \* the parameters of the requests clients send
    NoImage, NoLocation, NoManifest, NoServer, NoRequest, NoAsk,
    MayFail,      \* do registry calls and diffs fail once a dummy is needed?
    MaxExits      \* how many times an instance may exit

\* The source is named by digest, the target by tag or by digest.
Questions == [from : Images, want : Images \cup {LatestTag}, accepted : SUBSET AlgorithmNames]

ASSUME ServiceAssumption ==
    /\ Asks \subseteq Questions
    /\ LatestTag \notin Images /\ NoImage \notin Images
    /\ NoServer \notin Servers /\ NoRequest \notin Requests
    /\ NoLocation \notin Locations
    /\ MayFail \in BOOLEAN
    /\ MaxExits \in Nat

\* What a delta tag can point at.  Every request pushes at most one dummy and
\* one delta, so the request that pushed a manifest is enough to tell its
\* digest (and, for a dummy, its creation time) from all others.
Dummy(l, r) == [kind |-> "dummy", loc |-> l, by |-> r]
Delta(l, r) == [kind |-> "delta", loc |-> l, by |-> r]
Manifests   == [kind : {"dummy", "delta"}, loc : Locations, by : Requests]

ASSUME NoManifestAssumption ==
    /\ NoManifest \notin Manifests
    /\ NoAsk \notin Asks

VARIABLES
    \* the registry
    latest,     \* the image LatestTag points at
    tag,        \* tag[l]: the manifest at delta location l
    deltas,     \* delta manifests the registry holds, reachable by digest
    expired,    \* requests whose dummy has outlived the expiration time
    \* the server processes
    status,     \* status[s]: running, shutting down, or gone
    exits,      \* number of exits so far
    wg,         \* wg[s]: the engine's WaitGroup
    dummyLock,  \* dummyLock[s]: request holding the registry delegate's mutex
    dummies,    \* dummies[s]: activeDummiesCreation
    creating,   \* creating[s]: activeDeltaCreations
    \* the handlers and their goroutines
    home,       \* home[r]: the instance request r was sent to
    ask,        \* ask[r]: its parameters
    pc,         \* pc[r]: where its handler is in readDelta
    target,     \* target[r]: the image the target resolved to
    loc,        \* loc[r]: its delta location (and manifest options)
    found,      \* found[r]: the manifest the delta tag resolved to
    reply,      \* reply[r]: what was answered
    served,     \* served[r]: the delta named in a positive answer
    task        \* task[r]: where its creation goroutine is

registryVars == <<latest, tag, deltas, expired>>
processVars  == <<status, exits, wg, dummyLock, dummies, creating>>
localVars    == <<home, ask, target, loc, found>>
vars == <<registryVars, processVars, localVars, pc, reply, served, task>>

HandlerPCs == {"resolveFrom", "resolveTo", "manifests", "lookup", "inspect",
               "lockDummy", "tagDummy", "artifacts"}
TaskPCs    == {"diff", "push", "tag", "release"}
Replies    == {"success", "accepted", "noNewVersion", "incompatible", "error"}

Handling(s) == {r \in Requests : home[r] = s /\ pc[r] \in HandlerPCs}
Working(s)  == {r \in Requests : home[r] = s /\ task[r] \in TaskPCs}

Serving(r) == home[r] # NoServer /\ status[home[r]] \in {"up", "draining"}

TypeOK ==
    /\ latest \in Images
    /\ tag \in [Locations -> Manifests \cup {NoManifest}]
    /\ deltas \subseteq Manifests
    /\ expired \subseteq Requests
    /\ status \in [Servers -> {"up", "draining", "stopped", "killed"}]
    /\ exits \in Nat
    /\ wg \in [Servers -> Int]
    /\ dummyLock \in [Servers -> Requests \cup {NoRequest}]
    /\ dummies \in [Servers -> SUBSET Locations]
    /\ creating \in [Servers -> SUBSET Locations]
    /\ home \in [Requests -> Servers \cup {NoServer}]
    /\ ask \in [Requests -> Asks \cup {NoAsk}]
    /\ pc \in [Requests -> HandlerPCs \cup {"idle", "done", "lost"}]
    /\ target \in [Requests -> Images \cup {NoImage}]
    /\ loc \in [Requests -> Locations \cup {NoLocation}]
    /\ found \in [Requests -> Manifests \cup {NoManifest}]
    /\ reply \in [Requests -> Replies \cup {"none"}]
    /\ served \in [Requests -> Manifests \cup {NoManifest}]
    /\ task \in [Requests -> TaskPCs \cup {"none", "ended", "lost"}]

Init ==
    /\ latest \in Images
    /\ tag = [l \in Locations |-> NoManifest]
    /\ deltas = {}
    /\ expired = {}
    /\ status = [s \in Servers |-> "up"]
    /\ exits = 0
    /\ wg = [s \in Servers |-> 0]
    /\ dummyLock = [s \in Servers |-> NoRequest]
    /\ dummies = [s \in Servers |-> {}]
    /\ creating = [s \in Servers |-> {}]
    /\ home = [r \in Requests |-> NoServer]
    /\ ask = [r \in Requests |-> NoAsk]
    /\ pc = [r \in Requests |-> "idle"]
    /\ target = [r \in Requests |-> NoImage]
    /\ loc = [r \in Requests |-> NoLocation]
    /\ found = [r \in Requests |-> NoManifest]
    /\ reply = [r \in Requests |-> "none"]
    /\ served = [r \in Requests |-> NoManifest]
    /\ task = [r \in Requests |-> "none"]

-----------------------------------------------------------------------------
(* Handlers: readDelta, one step per registry call.                        *)

At(r, where) == Serving(r) /\ pc[r] = where

Goto(r, where) == pc' = [pc EXCEPT ![r] = where]

\* The handler writes its response and returns, and its deferred wg.Done runs.
Answer(r, kind, m) ==
    /\ Goto(r, "done")
    /\ reply' = [reply EXCEPT ![r] = kind]
    /\ served' = [served EXCEPT ![r] = m]
    /\ wg' = [wg EXCEPT ![home[r]] = @ - 1]

Fail(r) == Answer(r, "error", NoManifest)

\* A request reaches a running instance.  Missing parameters, absent or
\* malformed credentials and images of different repositories are refused
\* before the registry is contacted.
Arrive(r) ==
    /\ pc[r] = "idle"
    /\ \E s \in Servers, a \in Asks :
         /\ status[s] = "up"
         /\ home' = [home EXCEPT ![r] = s]
         /\ ask' = [ask EXCEPT ![r] = a]
         /\ \/ /\ Goto(r, "resolveFrom")
               /\ wg' = [wg EXCEPT ![s] = @ + 1]
               /\ UNCHANGED <<reply, served>>
            \/ /\ Goto(r, "done")
               /\ reply' = [reply EXCEPT ![r] = "error"]
               /\ UNCHANGED <<served, wg>>
    /\ UNCHANGED <<registryVars, status, exits, dummyLock, dummies, creating,
                   target, loc, found, task>>

\* The source image must be named by digest and be in the registry.
ResolveFrom(r) ==
    /\ At(r, "resolveFrom")
    /\ \/ /\ Goto(r, "resolveTo")
          /\ UNCHANGED <<reply, served, wg>>
       \/ Fail(r)
    /\ UNCHANGED <<registryVars, status, exits, dummyLock, dummies, creating,
                   localVars, task>>

\* Mutant: the tag itself is kept where its digest belongs.
UnresolvedTarget(r) == ask[r].want

ResolvedTarget(r) == IF ask[r].want = LatestTag THEN latest ELSE ask[r].want

\* The target may be a tag: the image it points at now is the one the rest of
\* the request is about.
ResolveTo(r) ==
    /\ At(r, "resolveTo")
    /\ \/ LET to == ResolvedTarget(r)
          IN  /\ target' = [target EXCEPT ![r] = to]
              /\ \/ /\ to = ask[r].from
                    /\ Answer(r, "noNewVersion", NoManifest)
                 \/ /\ to # ask[r].from
                    /\ Goto(r, "manifests")
                    /\ UNCHANGED <<reply, served, wg>>
       \/ /\ Fail(r)
          /\ UNCHANGED target
    /\ UNCHANGED <<registryVars, status, exits, dummyLock, dummies, creating,
                   home, ask, loc, found, task>>

\* Both manifests are loaded, checked, and the delta's location computed.
LoadManifests(r) ==
    /\ At(r, "manifests")
    /\ \/ /\ checkCompatability(ask[r].from, target[r])
          /\ Goto(r, "lookup")
          /\ loc' = [loc EXCEPT ![r] =
                       GetDeltaLocation(ask[r].from, target[r], ask[r].accepted)]
          /\ UNCHANGED <<reply, served, wg>>
       \/ /\ ~checkCompatability(ask[r].from, target[r])
          /\ Answer(r, "incompatible", NoManifest)
          /\ UNCHANGED loc
       \/ /\ Fail(r)
          /\ UNCHANGED loc
    /\ UNCHANGED <<registryVars, status, exits, dummyLock, dummies, creating,
                   home, ask, target, found, task>>

\* The delta tag is resolved.  An error of any kind, not only "no such tag",
\* counts as "there is no delta".
LookupDelta(r) ==
    /\ At(r, "lookup")
    /\ \/ /\ tag[loc[r]] # NoManifest
          /\ Goto(r, "inspect")
          /\ found' = [found EXCEPT ![r] = tag[loc[r]]]
       \/ /\ tag[loc[r]] = NoManifest \/ MayFail
          /\ Goto(r, "lockDummy")
          /\ UNCHANGED found
    /\ UNCHANGED <<registryVars, processVars, home, ask, target, loc, reply,
                   served, task>>

\* Mutants: the annotation is not looked at; an expired dummy does not count.
NeverDummy(m) == FALSE
FreshDummy(m) == m.kind = "dummy" /\ m.by \notin expired

IsDummy(m)   == m.kind = "dummy"
IsExpired(m) == m.by \in expired

\* The manifest that was resolved is fetched by its digest, however old the
\* resolution is by now: a delta is served, a fresh dummy is waited for, an
\* expired one is replaced.
InspectDelta(r) ==
    /\ At(r, "inspect")
    /\ found' = [found EXCEPT ![r] = NoManifest]
    /\ \/ /\ ~IsDummy(found[r])
          /\ Answer(r, "success", found[r])
       \/ /\ IsDummy(found[r]) /\ ~IsExpired(found[r])
          /\ Answer(r, "accepted", NoManifest)
       \/ /\ IsDummy(found[r]) /\ IsExpired(found[r])
          /\ Goto(r, "lockDummy")
          /\ UNCHANGED <<reply, served, wg>>
       \/ MayFail /\ Fail(r)
    /\ UNCHANGED <<registryVars, status, exits, dummyLock, dummies, creating,
                   home, ask, target, loc, task>>

\* Mutant: an early return without the deferred unlock.
StayLocked(r) == UNCHANGED dummyLock

UnlockDummy(r) == dummyLock' = [dummyLock EXCEPT ![home[r]] = NoRequest]

\* PushDummy, entered under the registry delegate's mutex.  The early exit
\* for a location another call is working on happens with the mutex held.
LockDummy(r) ==
    /\ At(r, "lockDummy")
    /\ dummyLock[home[r]] = NoRequest
    /\ \/ /\ loc[r] \in dummies[home[r]]
          /\ Goto(r, "artifacts")
          /\ UNCHANGED <<dummyLock, dummies>>
       \/ /\ loc[r] \notin dummies[home[r]]
          /\ Goto(r, "tagDummy")
          /\ dummyLock' = [dummyLock EXCEPT ![home[r]] = r]
          /\ dummies' = [dummies EXCEPT ![home[r]] = @ \cup {loc[r]}]
    /\ UNCHANGED <<registryVars, status, exits, wg, creating, localVars, reply,
                   served, task>>

\* Mutant: the entry in activeDummiesCreation is not deleted.
KeepMark(r) == UNCHANGED dummies

Unmark(r) == dummies' = [dummies EXCEPT ![home[r]] = @ \ {loc[r]}]

\* The rest of PushDummy: the manifest is pushed and the tag moved to it,
\* whatever the tag points at by now.  On an error, which the registry may
\* also report after it has moved the tag, the entry in activeDummiesCreation
\* stays behind.
TagDummy(r) ==
    /\ At(r, "tagDummy")
    /\ UnlockDummy(r)
    /\ \/ /\ tag' = [tag EXCEPT ![loc[r]] = Dummy(loc[r], r)]
          /\ Unmark(r)
          /\ Goto(r, "artifacts")
          /\ UNCHANGED <<reply, served, wg>>
       \/ /\ MayFail
          /\ tag' \in {tag, [tag EXCEPT ![loc[r]] = Dummy(loc[r], r)]}
          /\ UNCHANGED dummies
          /\ Fail(r)
    /\ UNCHANGED <<latest, deltas, expired, status, exits, creating, localVars,
                   task>>

\* The two artifacts are opened and the creation goroutine is spawned, which
\* adds itself to the WaitGroup before the handler leaves it.
LoadArtifacts(r) ==
    /\ At(r, "artifacts")
    /\ \/ /\ CanLoadArtifact(loc[r].from) /\ CanLoadArtifact(loc[r].to)
          /\ task' = [task EXCEPT ![r] = "diff"]
          /\ Goto(r, "done")
          /\ reply' = [reply EXCEPT ![r] = "accepted"]
          /\ wg' = [wg EXCEPT ![home[r]] = (@ + 1) - 1]
          /\ UNCHANGED served
       \/ /\ MayFail \/ ~(CanLoadArtifact(loc[r].from) /\ CanLoadArtifact(loc[r].to))
          /\ Fail(r)
          /\ UNCHANGED task
    /\ UNCHANGED <<registryVars, status, exits, dummyLock, dummies, creating,
                   localVars>>

Handler(r) ==
    \/ ResolveFrom(r) \/ ResolveTo(r) \/ LoadManifests(r) \/ LookupDelta(r)
    \/ InspectDelta(r) \/ LockDummy(r) \/ TagDummy(r) \/ LoadArtifacts(r)

-----------------------------------------------------------------------------
(* Creation goroutines: CreateDelta and PushDelta.                         *)

TaskAt(r, where) == Serving(r) /\ task[r] = where

\* Mutants: the goroutine does not leave the WaitGroup; the check of
\* activeDeltaCreations is missing; its entry is not deleted.
EndTaskUncounted(r) ==
    /\ task' = [task EXCEPT ![r] = "ended"]
    /\ UNCHANGED wg
NeverClaimed(r) == FALSE
KeepClaim(r)    == UNCHANGED creating

Claimed(r) == loc[r] \in creating[home[r]]
Unclaim(r) == creating' = [creating EXCEPT ![home[r]] = @ \ {loc[r]}]

\* The goroutine returns and its deferred wg.Done runs.
EndTask(r) ==
    /\ task' = [task EXCEPT ![r] = "ended"]
    /\ wg' = [wg EXCEPT ![home[r]] = @ - 1]

\* The differ is started (it may fail), then the location is claimed under
\* the delta delegate's mutex; a second creation of the same delta on this
\* instance gives up here.
ClaimDelta(r) ==
    /\ TaskAt(r, "diff")
    /\ \/ /\ ~Claimed(r)
          /\ creating' = [creating EXCEPT ![home[r]] = @ \cup {loc[r]}]
          /\ task' = [task EXCEPT ![r] = "push"]
          /\ UNCHANGED wg
       \/ /\ Claimed(r) \/ MayFail
          /\ EndTask(r)
          /\ UNCHANGED creating
    /\ UNCHANGED <<registryVars, status, exits, dummyLock, dummies, localVars,
                   pc, reply, served>>

\* PushDelta up to the manifest: the delta stream is drained into a temporary
\* file, and blob and manifest are pushed.
PushDelta(r) ==
    /\ TaskAt(r, "push")
    /\ \/ /\ deltas' = deltas \cup {Delta(loc[r], r)}
          /\ task' = [task EXCEPT ![r] = "tag"]
       \/ /\ MayFail
          /\ task' = [task EXCEPT ![r] = "release"]
          /\ UNCHANGED deltas
    /\ UNCHANGED <<latest, tag, expired, processVars, localVars, pc, reply,
                   served>>

\* The tag is moved to the delta.  The registry may report an error with or
\* without having done so; the goroutine goes on to release its claim.
TagDelta(r) ==
    /\ TaskAt(r, "tag")
    /\ \/ tag' = [tag EXCEPT ![loc[r]] = Delta(loc[r], r)]
       \/ MayFail /\ UNCHANGED tag
    /\ task' = [task EXCEPT ![r] = "release"]
    /\ UNCHANGED <<latest, deltas, expired, processVars, localVars, pc, reply,
                   served>>

ReleaseDelta(r) ==
    /\ TaskAt(r, "release")
    /\ Unclaim(r)
    /\ EndTask(r)
    /\ UNCHANGED <<registryVars, status, exits, dummyLock, dummies, localVars,
                   pc, reply, served>>

Creation(r) ==
    ClaimDelta(r) \/ PushDelta(r) \/ TagDelta(r) \/ ReleaseDelta(r)

-----------------------------------------------------------------------------
(* The process around them, and the world around the process.              *)

\* Doras.Stop: the listener closes, so no request arrives any more.  The
\* engine's own Stop, which waits for wg, runs in a goroutine nobody awaits.
BeginStop(s) ==
    /\ status[s] = "up"
    /\ exits < MaxExits
    /\ status' = [status EXCEPT ![s] = "draining"]
    /\ UNCHANGED <<registryVars, exits, wg, dummyLock, dummies, creating,
                   localVars, pc, reply, served, task>>

\* The process is gone, with every handler, goroutine and map in it.
Terminate(s, how) ==
    /\ exits < MaxExits
    /\ exits' = exits + 1
    /\ status' = [status EXCEPT ![s] = how]
    /\ pc' = [r \in Requests |-> IF r \in Handling(s) THEN "lost" ELSE pc[r]]
    /\ task' = [r \in Requests |-> IF r \in Working(s) THEN "lost" ELSE task[r]]
    /\ wg' = [wg EXCEPT ![s] = 0]
    /\ dummyLock' = [dummyLock EXCEPT ![s] = NoRequest]
    /\ dummies' = [dummies EXCEPT ![s] = {}]
    /\ creating' = [creating EXCEPT ![s] = {}]
    /\ UNCHANGED <<registryVars, localVars, reply, served>>

\* srv.Shutdown returns as soon as the handlers have, and main returns.
ExitGracefully(s) ==
    /\ status[s] = "draining"
    /\ Handling(s) = {}
    /\ Terminate(s, "stopped")

\* A crash, or the shutdown deadline passing.
Kill(s) ==
    /\ status[s] \in {"up", "draining"}
    /\ Terminate(s, "killed")

Restart(s) ==
    /\ status[s] \in {"stopped", "killed"}
    /\ status' = [status EXCEPT ![s] = "up"]
    /\ UNCHANGED <<registryVars, exits, wg, dummyLock, dummies, creating,
                   localVars, pc, reply, served, task>>

\* A dummy that someone can still look at outlives its expiration time.
Expire(r) ==
    /\ r \notin expired
    /\ \E l \in Locations :
         \/ tag[l] = Dummy(l, r)
         \/ \E q \in Requests : found[q] = Dummy(l, r)
    /\ expired' = expired \cup {r}
    /\ UNCHANGED <<latest, tag, deltas, processVars, localVars, pc, reply,
                   served, task>>

\* A maintainer points the image tag somewhere else.
Release ==
    /\ \E i \in Images \ {latest} : latest' = i
    /\ UNCHANGED <<tag, deltas, expired, processVars, localVars, pc, reply,
                   served, task>>

Next ==
    \/ \E r \in Requests : Arrive(r) \/ Handler(r) \/ Creation(r) \/ Expire(r)
    \/ \E s \in Servers : BeginStop(s) \/ ExitGracefully(s) \/ Kill(s) \/ Restart(s)
    \/ Release

Spec == Init /\ [][Next]_vars

\* Go schedules every goroutine that can run and every registry call returns:
\* each handler and each creation keeps taking steps.  Nobody is obliged to
\* send requests, let dummies expire, release images, or stop a server.
Fairness ==
    /\ \A r \in Requests : WF_vars(Handler(r))
    /\ \A r \in Requests : WF_vars(Creation(r))

FairSpec == Spec /\ Fairness

-----------------------------------------------------------------------------
(* Safety.                                                                 *)

\* The delta named in a 200 answer is in the registry, is a delta and not a
\* dummy, and is the one for this request's source image, resolved target and
\* accepted algorithms -- whatever other handlers, instances and goroutines did
\* to the tag between the lookup and the answer (readDelta, InspectDelta).
ServedDeltaIsReal ==
    \A r \in Requests : reply[r] = "success" =>
        /\ served[r] \in deltas
        /\ served[r].loc = GetDeltaLocation(ask[r].from, target[r], ask[r].accepted)
        /\ served[r].kind = "delta"

Creating == {"push", "tag", "release"}

\* CreateDelta's comment: "This method should handle synchronization at the
\* instance level."  No two goroutines of one instance are ever past the claim
\* for the same location.
OneCreationPerInstance ==
    \A r, q \in Requests :
        /\ r # q
        /\ task[r] \in Creating /\ task[q] \in Creating
        /\ home[r] = home[q]
        => loc[r] # loc[q]

\* activeDeltaCreations holds exactly the locations whose creation is running:
\* no error path of CreateDelta leaves a claim behind that would block the
\* location until the process restarts.
ClaimsAreLive ==
    \A s \in Servers :
        creating[s] = {loc[r] : r \in {q \in Working(s) : task[q] \in Creating}}

\* The registry delegate's mutex serialises PushDummy and is not left locked:
\* it is held exactly while its holder is between the check and the return.
DummyLockIsHeldByPusher ==
    \A s \in Servers, r \in Requests :
        dummyLock[s] = r <=> r \in Handling(s) /\ pc[r] = "tagDummy"

\* activeDummiesCreation makes PushDummy return without a dummy.  It does so
\* for the location that is being pushed, and otherwise only where a request of
\* this process has failed: no successful push, lost race or restart leaves an
\* entry that disables the dummies of its location.
DummyMarksAreExplained ==
    \A s \in Servers, l \in Locations :
        l \in dummies[s] =>
            \E r \in Requests :
                /\ home[r] = s /\ loc[r] = l
                /\ pc[r] = "tagDummy" \/ reply[r] = "error"

\* The engine's WaitGroup counts the handlers and creation goroutines that are
\* running, so a wait on it returns when, and only when, all of them have.
WaitGroupCounts ==
    \A s \in Servers :
        wg[s] = Cardinality(Handling(s)) + Cardinality(Working(s))

-----------------------------------------------------------------------------
(* What comments and documents say of the service, and the code does not   *)
(* do.                                                                     *)

\* The comment on the 202 answer for an unexpired dummy: "dummy exists and has
\* not expired -> someone else is working on creating this delta".
FreshDummyMeansWork ==
    \A l \in Locations :
        tag[l] # NoManifest /\ IsDummy(tag[l]) /\ ~IsExpired(tag[l])
        => \E r \in Requests :
             /\ loc[r] = l
             /\ pc[r] \in {"tagDummy", "artifacts"} \/ task[r] \in TaskPCs

\* The engine handles delta requests "including graceful shutdowns", and its
\* Stop waits until "all delta requests have been served": a graceful exit
\* leaves no creation unfinished.
GracefulExitFinishesCreations ==
    [][\A s \in Servers : status[s] # "stopped" /\ status'[s] = "stopped"
                          => Working(s) = {}]_vars

-----------------------------------------------------------------------------
(* Liveness.                                                               *)

\* Every request that reached an instance is answered, unless that instance
\* goes away: no handler is left waiting for the PushDummy mutex.
EveryRequestIsAnswered ==
    \A r \in Requests : pc[r] \in HandlerPCs ~> pc[r] \in {"done", "lost"}

\* The locations that the questions clients ask can lead to.
AskedLocations ==
    {GetDeltaLocation(a.from, i, a.accepted) : a \in Asks, i \in Images}

\* When nothing fails and nothing exits, marking a location with a dummy leads
\* to a delta for it in the registry, also when the creation that the dummy
\* announced gives way to another one.
DummyLeadsToDelta ==
    \A l \in AskedLocations :
        (tag[l] # NoManifest /\ IsDummy(tag[l])) ~> (\E m \in deltas : m.loc = l)

-----------------------------------------------------------------------------
(* Refinement.                                                             *)

Published == {<<m.loc, m.by>> : m \in deltas}

Answers ==
    [r \in Requests |->
       IF pc[r] = "lost" THEN <<"lost">>
       ELSE IF reply[r] = "success" THEN <<"success", served[r].loc, served[r].by>>
       ELSE <<reply[r]>>]

Board == INSTANCE DeltaBoard WITH board <- Published, answer <- Answers

\* The service keeps the promise of DeltaBoard: one answer per request, about
\* the image the target named while the request was running, and never a delta
\* that was made for another question.
KeepsThePromise == Board!BoardSpec
=============================================================================
