------------------------- MODULE DeltaServiceProofs -------------------------
(* Theorems about DeltaService and their proofs.                           *)
EXTENDS DeltaService, FiniteSetTheorems, TLAPS

(***************************************************************************)
(* Typing.                                                                 *)
(***************************************************************************)

\* ChooseAlgorithms always makes one of the choices a tag suffix exists for.
LEMMA ChooseAlgorithmsType ==
    ASSUME NEW accepted, NEW from
    PROVE  ChooseAlgorithms(accepted, from) \in Algorithms
BY DEF ChooseAlgorithms, Algorithms

\* GetDeltaLocation names a location when both images exist.
LEMMA GetDeltaLocationType ==
    ASSUME NEW from \in Images, NEW to \in Images, NEW accepted
    PROVE  GetDeltaLocation(from, to, accepted) \in Locations
BY ChooseAlgorithmsType DEF GetDeltaLocation, Locations

\* Dummies and deltas of a request at a location are manifests.
LEMMA ManifestType ==
    ASSUME NEW l \in Locations, NEW r \in Requests
    PROVE  /\ Dummy(l, r) \in Manifests
           /\ Delta(l, r) \in Manifests
BY DEF Dummy, Delta, Manifests

\* What a handler knows at each of its steps: where it runs and what was asked
\* from the start, the target once it has loaded the manifests, the location
\* from the lookup on, and for as long as its goroutine lives.
Located == {"lookup", "inspect", "lockDummy", "tagDummy", "artifacts"}

Shape ==
    \A r \in Requests :
        /\ pc[r] # "idle" => home[r] \in Servers /\ ask[r] \in Asks
        /\ pc[r] = "manifests" => target[r] \in Images
        /\ pc[r] \in Located \/ task[r] # "none" => loc[r] \in Locations
        /\ pc[r] \in {"idle", "resolveFrom", "resolveTo", "manifests"} =>
             loc[r] = NoLocation
        /\ task[r] # "none" => pc[r] = "done"
        /\ pc[r] = "inspect" => found[r] # NoManifest

TypeInv == TypeOK /\ Shape

\* When a process goes away its handlers and goroutines do, and nobody else's.
LEMMA TerminateType ==
    ASSUME NEW s \in Servers, NEW how \in {"stopped", "killed"},
           TypeInv, Terminate(s, how)
    PROVE  TypeInv'
<1> USE DEF TypeInv, TypeOK, Shape, Terminate, Handling, Working, HandlerPCs, TaskPCs,
            Located, registryVars, localVars
<1>1. pc' \in [Requests -> HandlerPCs \cup {"idle", "done", "lost"}]
  OBVIOUS
<1>2. task' \in [Requests -> TaskPCs \cup {"none", "ended", "lost"}]
  OBVIOUS
<1>3. TypeOK'
  BY <1>1, <1>2
<1>4. \A r \in Requests : pc'[r] = pc[r] \/ (pc[r] # "idle" /\ pc'[r] = "lost" /\ pc[r] # "done")
  OBVIOUS
<1>5. \A r \in Requests : task'[r] # "none" => task[r] # "none"
  OBVIOUS
<1>6. Shape'
  BY <1>4, <1>5
<1>7. QED
  BY <1>3, <1>6

\* Typing of the whole state, with what each handler and each goroutine knows
\* at each of its steps (readDelta and the goroutine it spawns).
THEOREM TypeInvariant == Spec => []TypeInv
<1>1. Init => TypeInv
  BY ServiceAssumption DEF Init, TypeInv, TypeOK, Shape, Located
<1>2. TypeInv /\ [Next]_vars => TypeInv'
  <2> SUFFICES ASSUME TypeInv, [Next]_vars
               PROVE  TypeInv'
    OBVIOUS
  <2> USE ServiceAssumption, NoManifestAssumption DEF TypeInv, TypeOK, Shape, Located,
        HandlerPCs, TaskPCs, Replies, Serving, registryVars, processVars, localVars
  <2>1. ASSUME NEW r \in Requests, Arrive(r)
         PROVE  TypeInv'
    BY <2>1 DEF Arrive, Goto
  <2>2. ASSUME NEW r \in Requests, ResolveFrom(r)
         PROVE  TypeInv'
    BY <2>2 DEF ResolveFrom, At, Goto, Fail, Answer
  <2>3. ASSUME NEW r \in Requests, ResolveTo(r)
         PROVE  TypeInv'
    <3>1. home[r] \in Servers /\ ask[r] \in Questions
      BY <2>3 DEF ResolveTo, At
    <3>2. ResolvedTarget(r) \in Images
      BY <3>1 DEF Questions, ResolvedTarget
    <3>3. TypeOK'
      BY <2>3, <3>1, <3>2 DEF ResolveTo, At, Goto, Fail, Answer
    <3>4. Shape'
      BY <2>3, <3>1, <3>2 DEF ResolveTo, At, Goto, Fail, Answer
    <3>5. QED
      BY <3>3, <3>4
  <2>4. ASSUME NEW r \in Requests, LoadManifests(r)
         PROVE  TypeInv'
    <3>1. home[r] \in Servers /\ ask[r] \in Questions /\ target[r] \in Images
      BY <2>4 DEF LoadManifests, At
    <3>2. GetDeltaLocation(ask[r].from, target[r], ask[r].accepted) \in Locations
      BY <3>1, GetDeltaLocationType DEF Questions
    <3>3. TypeOK'
      BY <2>4, <3>1, <3>2 DEF LoadManifests, At, Goto, Fail, Answer
    <3>4. Shape'
      BY <2>4, <3>1, <3>2 DEF LoadManifests, At, Goto, Fail, Answer
    <3>5. QED
      BY <3>3, <3>4
  <2>5. ASSUME NEW r \in Requests, LookupDelta(r)
         PROVE  TypeInv'
    BY <2>5 DEF LookupDelta, At, Goto
  <2>6. ASSUME NEW r \in Requests, InspectDelta(r)
         PROVE  TypeInv'
    <3>1. home[r] \in Servers /\ loc[r] \in Locations
      BY <2>6 DEF InspectDelta, At
    <3>2. found[r] \in Manifests
      BY <2>6 DEF InspectDelta, At
    <3>3. /\ found' \in [Requests -> Manifests \cup {NoManifest}]
          /\ served' \in [Requests -> Manifests \cup {NoManifest}]
      BY <2>6, <3>2 DEF InspectDelta, Fail, Answer
    <3>4. wg' \in [Servers -> Int]
      BY <2>6, <3>1 DEF InspectDelta, Fail, Answer
    <3>5. /\ pc' \in [Requests -> HandlerPCs \cup {"idle", "done", "lost"}]
          /\ reply' \in [Requests -> Replies \cup {"none"}]
      BY <2>6 DEF InspectDelta, Goto, Fail, Answer
    <3>6. TypeOK'
      BY <2>6, <3>3, <3>4, <3>5 DEF InspectDelta
    <3>7. /\ pc'[r] \in {"done", "lockDummy"}
          /\ \A q \in Requests \ {r} : pc'[q] = pc[q] /\ found'[q] = found[q]
      BY <2>6 DEF InspectDelta, Goto, Fail, Answer
    <3>8. UNCHANGED <<home, ask, target, loc, task>> /\ pc[r] = "inspect"
      BY <2>6 DEF InspectDelta, At
    <3>9. Shape'
      BY <3>1, <3>7, <3>8
    <3>10. QED
      BY <3>6, <3>9
  <2>7. ASSUME NEW r \in Requests, LockDummy(r)
         PROVE  TypeInv'
    <3>1. home[r] \in Servers /\ loc[r] \in Locations
      BY <2>7 DEF LockDummy, At
    <3>2. dummies' \in [Servers -> SUBSET Locations]
      BY <2>7, <3>1 DEF LockDummy
    <3>3. TypeOK'
      BY <2>7, <3>1, <3>2 DEF LockDummy, At, Goto
    <3>4. Shape'
      BY <2>7, <3>1 DEF LockDummy, At, Goto
    <3>5. QED
      BY <3>3, <3>4
  <2>8. ASSUME NEW r \in Requests, TagDummy(r)
         PROVE  TypeInv'
    <3>1. home[r] \in Servers /\ loc[r] \in Locations
      BY <2>8 DEF TagDummy, UnlockDummy, At
    <3>2. Dummy(loc[r], r) \in Manifests
      BY <3>1, ManifestType
    <3>3. tag' \in [Locations -> Manifests \cup {NoManifest}]
      BY <2>8, <3>1, <3>2 DEF TagDummy, UnlockDummy
    <3>4. dummies' \in [Servers -> SUBSET Locations]
      BY <2>8, <3>1 DEF TagDummy, UnlockDummy, Unmark
    <3>5. /\ wg' \in [Servers -> Int]
          /\ dummyLock' \in [Servers -> Requests \cup {NoRequest}]
      BY <2>8, <3>1 DEF TagDummy, UnlockDummy, Fail, Answer
    <3>6. /\ pc' \in [Requests -> HandlerPCs \cup {"idle", "done", "lost"}]
          /\ reply' \in [Requests -> Replies \cup {"none"}]
          /\ served' \in [Requests -> Manifests \cup {NoManifest}]
      BY <2>8, <3>1 DEF TagDummy, UnlockDummy, At, Goto, Fail, Answer
    <3>7. TypeOK'
      BY <2>8, <3>3, <3>4, <3>5, <3>6 DEF TagDummy, UnlockDummy
    <3>8. Shape'
      BY <2>8, <3>1 DEF TagDummy, UnlockDummy, At, Goto, Fail, Answer
    <3>9. QED
      BY <3>7, <3>8
  <2>9. ASSUME NEW r \in Requests, LoadArtifacts(r)
         PROVE  TypeInv'
    BY <2>9 DEF LoadArtifacts, At, Goto, Fail, Answer
  <2>10. ASSUME NEW r \in Requests, ClaimDelta(r)
         PROVE  TypeInv'
    BY <2>10 DEF ClaimDelta, Claimed, TaskAt, EndTask
  <2>11. ASSUME NEW r \in Requests, PushDelta(r)
         PROVE  TypeInv'
    BY <2>11, ManifestType DEF PushDelta, TaskAt
  <2>12. ASSUME NEW r \in Requests, TagDelta(r)
         PROVE  TypeInv'
    BY <2>12, ManifestType DEF TagDelta, TaskAt
  <2>13. ASSUME NEW r \in Requests, ReleaseDelta(r)
         PROVE  TypeInv'
    BY <2>13 DEF ReleaseDelta, Unclaim, TaskAt, EndTask
  <2>14. ASSUME NEW r \in Requests, Expire(r)
         PROVE  TypeInv'
    BY <2>14 DEF Expire
  <2>15. ASSUME NEW s \in Servers, BeginStop(s)
         PROVE  TypeInv'
    BY <2>15 DEF BeginStop
  <2>16. ASSUME NEW s \in Servers, ExitGracefully(s)
         PROVE  TypeInv'
    <3>1. Terminate(s, "stopped")
      BY <2>16 DEF ExitGracefully
    <3>2. QED
      BY <3>1, TerminateType
  <2>17. ASSUME NEW s \in Servers, Kill(s)
         PROVE  TypeInv'
    <3>1. Terminate(s, "killed")
      BY <2>17 DEF Kill
    <3>2. QED
      BY <3>1, TerminateType
  <2>18. ASSUME NEW s \in Servers, Restart(s)
         PROVE  TypeInv'
    BY <2>18 DEF Restart
  <2>19. CASE Release
    BY <2>19 DEF Release
  <2>20. CASE UNCHANGED vars
    BY <2>20 DEF vars
  <2>21. QED
    BY <2>1, <2>2, <2>3, <2>4, <2>5, <2>6, <2>7, <2>8, <2>9, <2>10, <2>11, <2>12, <2>13, <2>14, <2>15, <2>16, <2>17, <2>18, <2>19, <2>20 DEF Next, Handler, Creation
<1>3. QED
  BY <1>1, <1>2, PTL DEF Spec

(***************************************************************************)
(* The mutex of PushDummy.                                                 *)
(***************************************************************************)

\* The registry delegate's mutex is held exactly by the handler that is pushing
\* a dummy (PushDummy's Lock and deferred Unlock).
THEOREM DummyLockTheorem == Spec => []DummyLockIsHeldByPusher
<1>1. Init => DummyLockIsHeldByPusher
  BY ServiceAssumption DEF Init, DummyLockIsHeldByPusher, Handling
<1>2. TypeInv /\ DummyLockIsHeldByPusher /\ [Next]_vars => DummyLockIsHeldByPusher'
  <2> SUFFICES ASSUME TypeInv, DummyLockIsHeldByPusher, [Next]_vars
               PROVE  DummyLockIsHeldByPusher'
    OBVIOUS
  <2> USE ServiceAssumption DEF TypeInv, TypeOK, Shape, Located, DummyLockIsHeldByPusher,
        Handling, HandlerPCs, TaskPCs, Serving, registryVars, processVars, localVars
  <2>1. ASSUME NEW r \in Requests, Arrive(r)
         PROVE  DummyLockIsHeldByPusher'
    BY <2>1 DEF Arrive, Goto
  <2>2. ASSUME NEW r \in Requests, ResolveFrom(r)
         PROVE  DummyLockIsHeldByPusher'
    BY <2>2 DEF ResolveFrom, At, Goto, Fail, Answer
  <2>3. ASSUME NEW r \in Requests, ResolveTo(r)
         PROVE  DummyLockIsHeldByPusher'
    BY <2>3 DEF ResolveTo, At, Goto, Fail, Answer
  <2>4. ASSUME NEW r \in Requests, LoadManifests(r)
         PROVE  DummyLockIsHeldByPusher'
    BY <2>4 DEF LoadManifests, At, Goto, Fail, Answer
  <2>5. ASSUME NEW r \in Requests, LookupDelta(r)
         PROVE  DummyLockIsHeldByPusher'
    BY <2>5 DEF LookupDelta, At, Goto
  <2>6. ASSUME NEW r \in Requests, InspectDelta(r)
         PROVE  DummyLockIsHeldByPusher'
    BY <2>6 DEF InspectDelta, At, Goto, Fail, Answer
  <2>7. ASSUME NEW r \in Requests, LockDummy(r)
         PROVE  DummyLockIsHeldByPusher'
    BY <2>7 DEF LockDummy, At, Goto
  <2>8. ASSUME NEW r \in Requests, TagDummy(r)
         PROVE  DummyLockIsHeldByPusher'
    BY <2>8 DEF TagDummy, UnlockDummy, At, Goto, Fail, Answer
  <2>9. ASSUME NEW r \in Requests, LoadArtifacts(r)
         PROVE  DummyLockIsHeldByPusher'
    BY <2>9 DEF LoadArtifacts, At, Goto, Fail, Answer
  <2>10. ASSUME NEW r \in Requests, ClaimDelta(r)
         PROVE  DummyLockIsHeldByPusher'
    BY <2>10 DEF ClaimDelta, Claimed, TaskAt, EndTask
  <2>11. ASSUME NEW r \in Requests, PushDelta(r)
         PROVE  DummyLockIsHeldByPusher'
    BY <2>11 DEF PushDelta, TaskAt
  <2>12. ASSUME NEW r \in Requests, TagDelta(r)
         PROVE  DummyLockIsHeldByPusher'
    BY <2>12 DEF TagDelta, TaskAt
  <2>13. ASSUME NEW r \in Requests, ReleaseDelta(r)
         PROVE  DummyLockIsHeldByPusher'
    BY <2>13 DEF ReleaseDelta, Unclaim, TaskAt, EndTask
  <2>14. ASSUME NEW r \in Requests, Expire(r)
         PROVE  DummyLockIsHeldByPusher'
    BY <2>14 DEF Expire
  <2>15. ASSUME NEW s \in Servers, BeginStop(s)
         PROVE  DummyLockIsHeldByPusher'
    BY <2>15 DEF BeginStop
  <2>16. ASSUME NEW s \in Servers, ExitGracefully(s)
         PROVE  DummyLockIsHeldByPusher'
    BY <2>16 DEF ExitGracefully, Terminate
  <2>17. ASSUME NEW s \in Servers, Kill(s)
         PROVE  DummyLockIsHeldByPusher'
    BY <2>17 DEF Kill, Terminate
  <2>18. ASSUME NEW s \in Servers, Restart(s)
         PROVE  DummyLockIsHeldByPusher'
    BY <2>18 DEF Restart
  <2>19. CASE Release
    BY <2>19 DEF Release
  <2>20. CASE UNCHANGED vars
    BY <2>20 DEF vars
  <2>21. QED
    BY <2>1, <2>2, <2>3, <2>4, <2>5, <2>6, <2>7, <2>8, <2>9, <2>10, <2>11, <2>12, <2>13, <2>14, <2>15, <2>16, <2>17, <2>18, <2>19, <2>20 DEF Next, Handler, Creation
<1>3. QED
  BY <1>1, <1>2, TypeInvariant, PTL DEF Spec

(***************************************************************************)
(* At most one creation of a delta per instance.                           *)
(***************************************************************************)

\* Two creations never share a claim because the claim is the shared entry, and
\* the entry is there exactly as long as one of them is past ClaimDelta.
ClaimInv == ClaimsAreLive /\ OneCreationPerInstance

\* The requests of an instance that are past ClaimDelta.
Claimants(s) == {q \in Requests : home[q] = s /\ task[q] \in Creating}

\* ClaimsAreLive in terms of Claimants, in this state and in the next.
LEMMA ClaimsOf ==
    /\ ClaimsAreLive <=> \A s \in Servers : creating[s] = {loc[q] : q \in Claimants(s)}
    /\ ClaimsAreLive' <=>
         \A s \in Servers : creating'[s] = {loc'[q] : q \in Claimants(s)'}
<1>1. \A s : {q \in Working(s) : task[q] \in Creating} = Claimants(s)
  BY DEF Working, Claimants, Creating, TaskPCs
<1>2. \A s : {q \in Working(s)' : task'[q] \in Creating} = Claimants(s)'
  BY DEF Working, Claimants, Creating, TaskPCs
<1>3. QED
  BY <1>1, <1>2 DEF ClaimsAreLive

\* A step that neither claims nor releases, and leaves the claimants'
\* locations alone, preserves ClaimInv.
LEMMA SameClaims ==
    ASSUME ClaimInv, creating' = creating,
           \A s \in Servers : Claimants(s)' = Claimants(s),
           \A q \in Requests : task'[q] \in Creating =>
               task[q] \in Creating /\ loc'[q] = loc[q] /\ home'[q] = home[q]
    PROVE  ClaimInv'
<1>1. \A s \in Servers : \A q \in Claimants(s)' : loc'[q] = loc[q]
  BY DEF Claimants
<1>2. \A s \in Servers : {loc'[q] : q \in Claimants(s)'} = {loc[q] : q \in Claimants(s)}
  BY <1>1
<1>3. ClaimsAreLive'
  BY <1>2, ClaimsOf DEF ClaimInv
<1>4. OneCreationPerInstance'
  BY DEF ClaimInv, OneCreationPerInstance
<1>5. QED
  BY <1>3, <1>4 DEF ClaimInv

\* A process that goes away takes its claims and their claimants with it.
LEMMA TerminateClaims ==
    ASSUME TypeInv, ClaimInv, NEW s \in Servers, NEW how, Terminate(s, how)
    PROVE  ClaimInv'
<1> USE DEF TypeInv, TypeOK, Terminate, localVars
<1>1. \A q \in Requests : task'[q] \in Creating => task[q] \in Creating /\ home[q] # s
  BY DEF Working, Creating, TaskPCs
<1>2. \A t \in Servers : Claimants(t)' = IF t = s THEN {} ELSE Claimants(t)
  BY <1>1 DEF Claimants, Working
<1>3. creating'[s] = {} /\ \A t \in Servers \ {s} : creating'[t] = creating[t]
  OBVIOUS
<1>4. ClaimsAreLive'
  BY <1>2, <1>3, ClaimsOf DEF ClaimInv
<1>5. OneCreationPerInstance'
  BY <1>1 DEF ClaimInv, OneCreationPerInstance
<1>6. QED
  BY <1>4, <1>5 DEF ClaimInv

\* On one instance, no two creations of the same delta run at once, and the set
\* that prevents it holds nothing else (CreateDelta).
THEOREM ClaimTheorem == Spec => []ClaimInv
<1>1. Init => ClaimInv
  BY DEF Init, ClaimInv, ClaimsAreLive, OneCreationPerInstance, Working, TaskPCs, Creating
<1>2. TypeInv /\ ClaimInv /\ [Next]_vars => ClaimInv'
  <2> SUFFICES ASSUME TypeInv, ClaimInv, [Next]_vars
               PROVE  ClaimInv'
    OBVIOUS
  <2> USE ServiceAssumption DEF TypeInv, TypeOK, Shape, Located, ClaimInv, ClaimsAreLive,
        OneCreationPerInstance, Creating, Working, Handling, HandlerPCs, TaskPCs, Serving,
        registryVars, processVars, localVars
  <2>1. ASSUME NEW r \in Requests, Arrive(r)
         PROVE  ClaimInv'
    BY <2>1 DEF Arrive, Goto
  <2>2. ASSUME NEW r \in Requests, ResolveFrom(r)
         PROVE  ClaimInv'
    BY <2>2 DEF ResolveFrom, At, Goto, Fail, Answer
  <2>3. ASSUME NEW r \in Requests, ResolveTo(r)
         PROVE  ClaimInv'
    BY <2>3 DEF ResolveTo, At, Goto, Fail, Answer
  <2>4. ASSUME NEW r \in Requests, LoadManifests(r)
         PROVE  ClaimInv'
    <3>1. home[r] \in Servers /\ task[r] = "none"
      BY <2>4 DEF LoadManifests, At
    <3>2. \A s \in Servers : Claimants(s)' = Claimants(s)
      BY <2>4, <3>1 DEF LoadManifests, At, Goto, Fail, Answer, Claimants
    <3>3. \A q \in Requests : task'[q] \in Creating =>
             task[q] \in Creating /\ loc'[q] = loc[q] /\ home'[q] = home[q]
      BY <2>4, <3>1 DEF LoadManifests, At, Goto, Fail, Answer, Claimants
    <3>4. creating' = creating
      BY <2>4 DEF LoadManifests
    <3>5. QED
      BY <3>2, <3>3, <3>4, SameClaims
  <2>5. ASSUME NEW r \in Requests, LookupDelta(r)
         PROVE  ClaimInv'
    BY <2>5 DEF LookupDelta, At, Goto
  <2>6. ASSUME NEW r \in Requests, InspectDelta(r)
         PROVE  ClaimInv'
    BY <2>6 DEF InspectDelta, At, Goto, Fail, Answer
  <2>7. ASSUME NEW r \in Requests, LockDummy(r)
         PROVE  ClaimInv'
    BY <2>7 DEF LockDummy, At, Goto
  <2>8. ASSUME NEW r \in Requests, TagDummy(r)
         PROVE  ClaimInv'
    BY <2>8 DEF TagDummy, UnlockDummy, At, Goto, Fail, Answer
  <2>9. ASSUME NEW r \in Requests, LoadArtifacts(r)
         PROVE  ClaimInv'
    <3>1. home[r] \in Servers /\ task[r] = "none"
      BY <2>9 DEF LoadArtifacts, At
    <3>2. \A s \in Servers : Claimants(s)' = Claimants(s)
      BY <2>9, <3>1 DEF LoadArtifacts, At, Goto, Fail, Answer, Claimants
    <3>3. \A q \in Requests : task'[q] \in Creating =>
             task[q] \in Creating /\ loc'[q] = loc[q] /\ home'[q] = home[q]
      BY <2>9, <3>1 DEF LoadArtifacts, At, Goto, Fail, Answer, Claimants
    <3>4. creating' = creating
      BY <2>9 DEF LoadArtifacts
    <3>5. QED
      BY <3>2, <3>3, <3>4, SameClaims
  <2>10. ASSUME NEW r \in Requests, ClaimDelta(r)
         PROVE  ClaimInv'
    <3>1. home[r] \in Servers /\ loc[r] \in Locations /\ task[r] = "diff"
      BY <2>10 DEF ClaimDelta, Claimed, TaskAt
    <3>2. CASE task'[r] = "ended"
      <4>1. \A q \in Requests : task'[q] \in Creating => task[q] \in Creating
        BY <2>10, <3>1, <3>2 DEF ClaimDelta, Claimed, EndTask
      <4>2. \A s \in Servers : Claimants(s)' = Claimants(s)
        BY <2>10, <3>1, <3>2 DEF ClaimDelta, Claimed, EndTask, Claimants
      <4>3. creating' = creating /\ loc' = loc /\ home' = home
        BY <2>10, <3>1, <3>2 DEF ClaimDelta, Claimed, EndTask
      <4>4. QED
        BY <4>1, <4>2, <4>3, SameClaims
    <3>3. CASE task'[r] = "push"
      <4>1. /\ loc[r] \notin creating[home[r]]
            /\ creating' = [creating EXCEPT ![home[r]] = @ \cup {loc[r]}]
            /\ task' = [task EXCEPT ![r] = "push"]
            /\ home' = home /\ loc' = loc
        BY <2>10, <3>1, <3>3 DEF ClaimDelta, Claimed, EndTask
      <4>2. \A s \in Servers : Claimants(s)' =
               IF s = home[r] THEN Claimants(s) \cup {r} ELSE Claimants(s)
        BY <3>1, <4>1 DEF Claimants
      <4>3. \A q \in Claimants(home[r]) : loc[q] # loc[r]
        BY <3>1, <4>1, ClaimsOf
      <4>4. OneCreationPerInstance'
        BY <3>1, <4>1, <4>3 DEF Claimants
      <4>5. \A s \in Servers : creating'[s] = {loc'[q] : q \in Claimants(s)'}
        <5> TAKE s \in Servers
        <5>1. creating[s] = {loc[q] : q \in Claimants(s)}
          BY ClaimsOf
        <5>2. CASE s = home[r]
          <6>1. {loc[q] : q \in Claimants(s) \cup {r}}
                  = {loc[q] : q \in Claimants(s)} \cup {loc[r]}
            OBVIOUS
          <6>2. creating'[s] = creating[s] \cup {loc[r]}
            BY <3>1, <4>1, <5>2
          <6>3. QED
            BY <4>1, <4>2, <5>1, <5>2, <6>1, <6>2
        <5>3. CASE s # home[r]
          BY <4>1, <4>2, <5>1, <5>3
        <5>4. QED
          BY <5>2, <5>3
      <4>6. QED
        BY <4>4, <4>5, ClaimsOf
    <3>4. QED
      BY <2>10, <3>1, <3>2, <3>3 DEF ClaimDelta, Claimed, EndTask
  <2>11. ASSUME NEW r \in Requests, PushDelta(r)
         PROVE  ClaimInv'
    <3>1. home[r] \in Servers /\ task[r] = "push" /\ loc[r] \in Locations
      BY <2>11 DEF PushDelta, TaskAt
    <3>2. \A s \in Servers : Claimants(s)' = Claimants(s)
      BY <2>11, <3>1 DEF PushDelta, TaskAt, Claimants
    <3>3. \A q \in Requests : task'[q] \in Creating =>
             task[q] \in Creating /\ loc'[q] = loc[q] /\ home'[q] = home[q]
      BY <2>11, <3>1 DEF PushDelta, TaskAt, Claimants
    <3>4. creating' = creating
      BY <2>11 DEF PushDelta
    <3>5. QED
      BY <3>2, <3>3, <3>4, SameClaims
  <2>12. ASSUME NEW r \in Requests, TagDelta(r)
         PROVE  ClaimInv'
    BY <2>12 DEF TagDelta, TaskAt
  <2>13. ASSUME NEW r \in Requests, ReleaseDelta(r)
         PROVE  ClaimInv'
    BY <2>13 DEF ReleaseDelta, Unclaim, TaskAt, EndTask
  <2>14. ASSUME NEW r \in Requests, Expire(r)
         PROVE  ClaimInv'
    BY <2>14 DEF Expire
  <2>15. ASSUME NEW s \in Servers, BeginStop(s)
         PROVE  ClaimInv'
    BY <2>15 DEF BeginStop
  <2>16. ASSUME NEW s \in Servers, ExitGracefully(s)
         PROVE  ClaimInv'
    <3>1. Terminate(s, "stopped")
      BY <2>16 DEF ExitGracefully
    <3>2. QED
      BY <3>1, TerminateClaims
  <2>17. ASSUME NEW s \in Servers, Kill(s)
         PROVE  ClaimInv'
    <3>1. Terminate(s, "killed")
      BY <2>17 DEF Kill
    <3>2. QED
      BY <3>1, TerminateClaims
  <2>18. ASSUME NEW s \in Servers, Restart(s)
         PROVE  ClaimInv'
    BY <2>18 DEF Restart
  <2>19. CASE Release
    BY <2>19 DEF Release
  <2>20. CASE UNCHANGED vars
    BY <2>20 DEF vars
  <2>21. QED
    BY <2>1, <2>2, <2>3, <2>4, <2>5, <2>6, <2>7, <2>8, <2>9, <2>10, <2>11, <2>12, <2>13, <2>14, <2>15, <2>16, <2>17, <2>18, <2>19, <2>20 DEF Next, Handler, Creation
<1>3. QED
  BY <1>1, <1>2, TypeInvariant, PTL DEF Spec

(***************************************************************************)
(* What is served is real.                                                 *)
(***************************************************************************)

\* Every manifest a tag points at is about that tag's location, and a delta
\* that is tagged is in the registry.  The same holds of the manifest a handler
\* has resolved, whatever the tag points at meanwhile.
TagInv ==
    \A l \in Locations : tag[l] # NoManifest =>
        tag[l].loc = l /\ (tag[l].kind = "delta" => tag[l] \in deltas)

FoundInv ==
    \A r \in Requests : found[r] # NoManifest =>
        found[r].loc = loc[r] /\ (found[r].kind = "delta" => found[r] \in deltas)

\* A handler's location is computed from its own question and target, which do
\* not change any more; an answer is given once; a goroutine tags what it pushed.
LocInv ==
    \A r \in Requests :
        /\ loc[r] # NoLocation =>
             loc[r] = GetDeltaLocation(ask[r].from, target[r], ask[r].accepted)
        /\ reply[r] # "none" => pc[r] = "done"
        /\ task[r] = "tag" => Delta(loc[r], r) \in deltas

ServedInv == TagInv /\ FoundInv /\ LocInv /\ ServedDeltaIsReal

\* A 200 answer names a delta that exists and that answers the question.
THEOREM ServedTheorem == Spec => []ServedInv
<1>1. Init => ServedInv
  BY DEF Init, ServedInv, TagInv, FoundInv, LocInv, ServedDeltaIsReal
<1>2. TypeInv /\ ServedInv /\ [Next]_vars => ServedInv'
  <2> SUFFICES ASSUME TypeInv, ServedInv, [Next]_vars
               PROVE  ServedInv'
    OBVIOUS
  <2> USE ServiceAssumption, NoManifestAssumption DEF TypeInv, TypeOK, Shape, Located, ServedInv, TagInv, FoundInv, LocInv,
        ServedDeltaIsReal, IsDummy, IsExpired, Working, Handling, HandlerPCs, TaskPCs, Serving,
        registryVars, processVars, localVars
  <2>1. ASSUME NEW r \in Requests, Arrive(r)
         PROVE  ServedInv'
    BY <2>1 DEF Arrive, Goto
  <2>2. ASSUME NEW r \in Requests, ResolveFrom(r)
         PROVE  ServedInv'
    BY <2>2 DEF ResolveFrom, At, Goto, Fail, Answer
  <2>3. ASSUME NEW r \in Requests, ResolveTo(r)
         PROVE  ServedInv'
    BY <2>3 DEF ResolveTo, At, Goto, Fail, Answer
  <2>4. ASSUME NEW r \in Requests, LoadManifests(r)
         PROVE  ServedInv'
    <3>1. home[r] \in Servers /\ ask[r] \in Questions /\ target[r] \in Images
          /\ loc[r] = NoLocation /\ found[r] = NoManifest /\ reply[r] = "none"
      BY <2>4 DEF LoadManifests, At, Manifests
    <3>2. loc'[r] = NoLocation \/
          loc'[r] = GetDeltaLocation(ask[r].from, target[r], ask[r].accepted)
      BY <2>4, <3>1 DEF LoadManifests
    <3>3. \A q \in Requests \ {r} : loc'[q] = loc[q] /\ reply'[q] = reply[q]
                                   /\ pc'[q] = pc[q] /\ served'[q] = served[q]
      BY <2>4 DEF LoadManifests, At, Goto, Fail, Answer
    <3>4. TagInv' /\ FoundInv'
      BY <2>4, <3>1, <3>3 DEF LoadManifests
    <3>5. reply'[r] \in {"none", "incompatible", "error"}
          /\ (reply'[r] # "none" => pc'[r] = "done")
      BY <2>4, <3>1 DEF LoadManifests, At, Goto, Fail, Answer
    <3>6. LocInv'
      BY <2>4, <3>2, <3>3, <3>5 DEF LoadManifests
    <3>7. ServedDeltaIsReal'
      BY <2>4, <3>3, <3>5 DEF LoadManifests
    <3>8. QED
      BY <3>4, <3>6, <3>7
  <2>5. ASSUME NEW r \in Requests, LookupDelta(r)
         PROVE  ServedInv'
    BY <2>5 DEF LookupDelta, At, Goto
  <2>6. ASSUME NEW r \in Requests, InspectDelta(r)
         PROVE  ServedInv'
    <3>1. /\ home[r] \in Servers /\ loc[r] \in Locations
          /\ found[r] \in Manifests /\ found[r].loc = loc[r]
      BY <2>6 DEF InspectDelta, At
    <3>2. \A q \in Requests \ {r} : found'[q] = found[q] /\ reply'[q] = reply[q]
                                   /\ pc'[q] = pc[q] /\ served'[q] = served[q]
      BY <2>6 DEF InspectDelta, At, Goto, Fail, Answer
    <3>3. TagInv' /\ FoundInv'
      BY <2>6, <3>2 DEF InspectDelta
    <3>4. LocInv'
      BY <2>6, <3>1, <3>2 DEF InspectDelta, At, Goto, Fail, Answer
    <3>5. reply'[r] = "success" => served'[r] = found[r] /\ found[r].kind = "delta"
      <4>1. found[r].kind \in {"dummy", "delta"}
        BY <3>1 DEF Manifests
      <4>2. reply[r] # "success"
        BY <2>6 DEF InspectDelta, At
      <4>3. QED
        BY <2>6, <4>1, <4>2 DEF InspectDelta, At, Goto, Fail, Answer
    <3>6. ServedDeltaIsReal'
      BY <2>6, <3>1, <3>2, <3>5 DEF InspectDelta
    <3>7. QED
      BY <3>3, <3>4, <3>6
  <2>7. ASSUME NEW r \in Requests, LockDummy(r)
         PROVE  ServedInv'
    BY <2>7 DEF LockDummy, At, Goto
  <2>8. ASSUME NEW r \in Requests, TagDummy(r)
         PROVE  ServedInv'
    <3>1. home[r] \in Servers /\ loc[r] \in Locations /\ reply[r] = "none"
      BY <2>8 DEF TagDummy, UnlockDummy, At
    <3>2. Dummy(loc[r], r).loc = loc[r] /\ Dummy(loc[r], r).kind = "dummy"
      BY DEF Dummy
    <3>3. TagInv'
      BY <2>8, <3>1, <3>2 DEF TagDummy, UnlockDummy
    <3>4. FoundInv'
      BY <2>8 DEF TagDummy, UnlockDummy
    <3>5. \A q \in Requests \ {r} : reply'[q] = reply[q] /\ pc'[q] = pc[q]
                                   /\ served'[q] = served[q]
      BY <2>8 DEF TagDummy, UnlockDummy, At, Goto, Fail, Answer
    <3>6. reply'[r] \in {"none", "error"} /\ (reply'[r] # "none" => pc'[r] = "done")
      BY <2>8, <3>1 DEF TagDummy, UnlockDummy, At, Goto, Fail, Answer
    <3>7. LocInv' /\ ServedDeltaIsReal'
      BY <2>8, <3>5, <3>6 DEF TagDummy, UnlockDummy
    <3>8. QED
      BY <3>3, <3>4, <3>7
  <2>9. ASSUME NEW r \in Requests, LoadArtifacts(r)
         PROVE  ServedInv'
    BY <2>9 DEF LoadArtifacts, At, Goto, Fail, Answer
  <2>10. ASSUME NEW r \in Requests, ClaimDelta(r)
         PROVE  ServedInv'
    BY <2>10 DEF ClaimDelta, Claimed, TaskAt, EndTask
  <2>11. ASSUME NEW r \in Requests, PushDelta(r)
         PROVE  ServedInv'
    BY <2>11 DEF PushDelta, TaskAt
  <2>12. ASSUME NEW r \in Requests, TagDelta(r)
         PROVE  ServedInv'
    <3>1. home[r] \in Servers /\ loc[r] \in Locations /\ Delta(loc[r], r) \in deltas
      BY <2>12 DEF TagDelta, TaskAt
    <3>2. Delta(loc[r], r).loc = loc[r]
      BY DEF Delta
    <3>3. TagInv'
      BY <2>12, <3>1, <3>2 DEF TagDelta
    <3>4. FoundInv' /\ LocInv' /\ ServedDeltaIsReal'
      BY <2>12 DEF TagDelta, TaskAt
    <3>5. QED
      BY <3>3, <3>4
  <2>13. ASSUME NEW r \in Requests, ReleaseDelta(r)
         PROVE  ServedInv'
    BY <2>13 DEF ReleaseDelta, Unclaim, TaskAt, EndTask
  <2>14. ASSUME NEW r \in Requests, Expire(r)
         PROVE  ServedInv'
    BY <2>14 DEF Expire
  <2>15. ASSUME NEW s \in Servers, BeginStop(s)
         PROVE  ServedInv'
    BY <2>15 DEF BeginStop
  <2>16. ASSUME NEW s \in Servers, ExitGracefully(s)
         PROVE  ServedInv'
    BY <2>16 DEF ExitGracefully, Terminate
  <2>17. ASSUME NEW s \in Servers, Kill(s)
         PROVE  ServedInv'
    BY <2>17 DEF Kill, Terminate
  <2>18. ASSUME NEW s \in Servers, Restart(s)
         PROVE  ServedInv'
    BY <2>18 DEF Restart
  <2>19. CASE Release
    BY <2>19 DEF Release
  <2>20. CASE UNCHANGED vars
    BY <2>20 DEF vars
  <2>21. QED
    BY <2>1, <2>2, <2>3, <2>4, <2>5, <2>6, <2>7, <2>8, <2>9, <2>10, <2>11, <2>12, <2>13, <2>14, <2>15, <2>16, <2>17, <2>18, <2>19, <2>20 DEF Next, Handler, Creation
<1>3. QED
  BY <1>1, <1>2, TypeInvariant, PTL DEF Spec

(***************************************************************************)
(* The entries of activeDummiesCreation.                                   *)
(***************************************************************************)

\* The request accounts for an entry at its location, on its instance.
Accounts(r) == pc[r] = "tagDummy" \/ reply[r] = "error"

\* A step that marks no location keeps every entry explained, if those who
\* account for one still do.
LEMMA SameMarks ==
    ASSUME DummyMarksAreExplained, \A s \in Servers : dummies'[s] \subseteq dummies[s],
           \A r \in Requests : Accounts(r) =>
               Accounts(r)' /\ home'[r] = home[r] /\ loc'[r] = loc[r]
    PROVE  DummyMarksAreExplained'
BY DEF DummyMarksAreExplained, Accounts

\* PushDummy leaves no entry behind but by failing, and no other way through
\* readDelta, no crash and no restart does.
THEOREM DummyMarkTheorem == Spec => []DummyMarksAreExplained
<1>1. Init => DummyMarksAreExplained
  BY DEF Init, DummyMarksAreExplained
<1>2. TypeInv /\ LocInv /\ DummyMarksAreExplained /\ [Next]_vars
        => DummyMarksAreExplained'
  <2> SUFFICES ASSUME TypeInv, LocInv, DummyMarksAreExplained, [Next]_vars
               PROVE  DummyMarksAreExplained'
    OBVIOUS
  <2> USE DEF TypeInv, TypeOK, Shape, Located, LocInv, HandlerPCs, TaskPCs,
        registryVars, processVars, localVars
  <2>1. ASSUME NEW r \in Requests,
               \/ Arrive(r) \/ ResolveFrom(r) \/ ResolveTo(r) \/ LoadManifests(r)
               \/ LookupDelta(r) \/ InspectDelta(r) \/ LoadArtifacts(r)
        PROVE  DummyMarksAreExplained'
    <3>1. pc[r] # "tagDummy" /\ reply[r] = "none" /\ dummies' = dummies
      BY <2>1 DEF Arrive, ResolveFrom, ResolveTo, LoadManifests, LookupDelta,
         InspectDelta, LoadArtifacts, At
    <3>2. \A q \in Requests \ {r} :
             pc'[q] = pc[q] /\ reply'[q] = reply[q] /\ home'[q] = home[q] /\ loc'[q] = loc[q]
      BY <2>1 DEF Arrive, ResolveFrom, ResolveTo, LoadManifests, LookupDelta,
         InspectDelta, LoadArtifacts, Goto, Fail, Answer
    <3> QED BY <3>1, <3>2, SameMarks DEF Accounts
  <2>2. ASSUME NEW r \in Requests, LockDummy(r)
        PROVE  DummyMarksAreExplained'
    <3>1. UNCHANGED <<home, loc, reply>> /\ pc[r] = "lockDummy" /\ home[r] \in Servers
      BY <2>2 DEF LockDummy, At
    <3>2. \A q \in Requests \ {r} : pc'[q] = pc[q]
      BY <2>2 DEF LockDummy, Goto
    <3>3. CASE dummies' = dummies
      BY <3>1, <3>2, <3>3, SameMarks DEF Accounts
    <3>4. CASE dummies' = [dummies EXCEPT ![home[r]] = @ \cup {loc[r]}] /\ pc'[r] = "tagDummy"
      <4> SUFFICES ASSUME NEW s \in Servers, NEW l \in Locations, l \in dummies'[s]
                   PROVE  \E q \in Requests :
                             home'[q] = s /\ loc'[q] = l /\ Accounts(q)'
        BY DEF DummyMarksAreExplained, Accounts
      <4>1. CASE s = home[r] /\ l = loc[r]
        BY <3>1, <3>4, <4>1 DEF Accounts
      <4>2. CASE ~(s = home[r] /\ l = loc[r])
        <5>1. l \in dummies[s]
          BY <3>4, <4>2
        <5>2. PICK q \in Requests : home[q] = s /\ loc[q] = l /\ Accounts(q)
          BY <5>1 DEF DummyMarksAreExplained, Accounts
        <5> QED BY <3>1, <3>2, <4>2, <5>2 DEF Accounts
      <4> QED BY <4>1, <4>2
    <3> QED BY <2>2, <3>3, <3>4 DEF LockDummy, Goto
  <2>3. ASSUME NEW r \in Requests, TagDummy(r)
        PROVE  DummyMarksAreExplained'
    <3>1. UNCHANGED <<home, loc>> /\ pc[r] = "tagDummy" /\ home[r] \in Servers
      BY <2>3 DEF TagDummy, At
    <3>2. \A q \in Requests \ {r} : pc'[q] = pc[q] /\ reply'[q] = reply[q]
      BY <2>3 DEF TagDummy, Goto, Fail, Answer
    <3>3. CASE Unmark(r)
      BY <3>1, <3>2, <3>3 DEF Unmark, DummyMarksAreExplained
    <3>4. CASE dummies' = dummies /\ Fail(r)
      <4>1. reply'[r] = "error"
        BY <3>4 DEF Fail, Answer
      <4> QED BY <3>1, <3>2, <3>4, <4>1, SameMarks DEF Accounts
    <3> QED BY <2>3, <3>3, <3>4 DEF TagDummy
  <2>4. ASSUME NEW s \in Servers, NEW how, Terminate(s, how)
        PROVE  DummyMarksAreExplained'
    <3>1. /\ UNCHANGED <<home, loc, reply>> /\ dummies' = [dummies EXCEPT ![s] = {}]
          /\ \A q \in Requests : home[q] # s => pc'[q] = pc[q]
      BY <2>4 DEF Terminate, Handling
    <3> QED BY <3>1 DEF DummyMarksAreExplained
  <2>5. CASE \/ \E r \in Requests : Creation(r) \/ Expire(r)
             \/ \E s \in Servers : BeginStop(s) \/ Restart(s)
             \/ Release
             \/ UNCHANGED vars
    <3>1. UNCHANGED <<dummies, home, loc, pc, reply>>
      BY <2>5 DEF Creation, ClaimDelta, PushDelta, TagDelta, ReleaseDelta, Expire,
         BeginStop, Restart, Release, vars
    <3> QED BY <3>1, SameMarks DEF Accounts
  <2> QED BY <2>1, <2>2, <2>3, <2>4, <2>5 DEF Next, Handler, ExitGracefully, Kill
<1>3. QED
  BY <1>1, <1>2, TypeInvariant, ServedTheorem, PTL DEF Spec, ServedInv

(***************************************************************************)
(* The properties that are model-checked, as consequences.                 *)
(***************************************************************************)

\* The state is well typed.
THEOREM Typed == Spec => []TypeOK
BY TypeInvariant, PTL DEF TypeInv

\* No goroutine duplicates a creation that is running on its instance.
THEOREM NoDuplicateCreation == Spec => []OneCreationPerInstance
BY ClaimTheorem, PTL DEF ClaimInv

\* No error path of CreateDelta leaves its claim behind.
THEOREM NoStaleClaim == Spec => []ClaimsAreLive
BY ClaimTheorem, PTL DEF ClaimInv

\* Every delta that is served exists and answers the question it is served for.
THEOREM ServedIsReal == Spec => []ServedDeltaIsReal
BY ServedTheorem, PTL DEF ServedInv

(***************************************************************************)
(* The WaitGroup.                                                          *)
(***************************************************************************)

\* The count is right, and there is something to count: only finitely many
\* handlers and goroutines run at a time, however many requests there will be.
Counted(s) ==
    /\ IsFiniteSet(Handling(s)) /\ IsFiniteSet(Working(s))
    /\ wg[s] = Cardinality(Handling(s)) + Cardinality(Working(s))

\* An instance that a step does not concern keeps its count.
LEMMA CountUntouched ==
    ASSUME NEW s \in Servers, Counted(s), wg'[s] = wg[s],
           Handling(s)' = Handling(s), Working(s)' = Working(s)
    PROVE  Counted(s)'
BY DEF Counted

\* A handler that starts is counted.
LEMMA CountArrival ==
    ASSUME NEW s \in Servers, Counted(s), NEW r, r \notin Handling(s),
           Handling(s)' = Handling(s) \cup {r}, Working(s)' = Working(s),
           wg'[s] = wg[s] + 1
    PROVE  Counted(s)'
<1>1. /\ IsFiniteSet(Handling(s)')
      /\ Cardinality(Handling(s)') = Cardinality(Handling(s)) + 1
  BY FS_AddElement DEF Counted
<1>2. Cardinality(Handling(s)) \in Nat /\ Cardinality(Working(s)) \in Nat
  BY FS_CardinalityType DEF Counted
<1> QED BY <1>1, <1>2 DEF Counted

\* A handler that answers is counted no more.
LEMMA CountAnswer ==
    ASSUME NEW s \in Servers, Counted(s), NEW r \in Handling(s),
           Handling(s)' = Handling(s) \ {r}, Working(s)' = Working(s),
           wg'[s] = wg[s] - 1
    PROVE  Counted(s)'
<1>1. /\ IsFiniteSet(Handling(s)')
      /\ Cardinality(Handling(s)') = Cardinality(Handling(s)) - 1
  BY FS_RemoveElement DEF Counted
<1>2. Cardinality(Handling(s)) \in Nat /\ Cardinality(Working(s)) \in Nat
  BY FS_CardinalityType DEF Counted
<1> QED BY <1>1, <1>2 DEF Counted

\* Nor is a goroutine that returns.
LEMMA CountReturn ==
    ASSUME NEW s \in Servers, Counted(s), NEW r \in Working(s),
           Handling(s)' = Handling(s), Working(s)' = Working(s) \ {r},
           wg'[s] = wg[s] - 1
    PROVE  Counted(s)'
<1>1. /\ IsFiniteSet(Working(s)')
      /\ Cardinality(Working(s)') = Cardinality(Working(s)) - 1
  BY FS_RemoveElement DEF Counted
<1>2. Cardinality(Handling(s)) \in Nat /\ Cardinality(Working(s)) \in Nat
  BY FS_CardinalityType DEF Counted
<1> QED BY <1>1, <1>2 DEF Counted

\* A handler that spawns a goroutine hands its place in the count over to it.
LEMMA CountSpawn ==
    ASSUME NEW s \in Servers, Counted(s), NEW r \in Handling(s), r \notin Working(s),
           Handling(s)' = Handling(s) \ {r}, Working(s)' = Working(s) \cup {r},
           wg'[s] = wg[s]
    PROVE  Counted(s)'
<1>1. /\ IsFiniteSet(Handling(s)')
      /\ Cardinality(Handling(s)') = Cardinality(Handling(s)) - 1
  BY FS_RemoveElement DEF Counted
<1>2. /\ IsFiniteSet(Working(s)')
      /\ Cardinality(Working(s)') = Cardinality(Working(s)) + 1
  BY FS_AddElement DEF Counted
<1>3. Cardinality(Handling(s)) \in Nat /\ Cardinality(Working(s)) \in Nat
  BY FS_CardinalityType DEF Counted
<1> QED BY <1>1, <1>2, <1>3 DEF Counted

CountInv == \A s \in Servers : Counted(s)

\* What a handler does to the count: it goes on, answers, or spawns a goroutine.
LEMMA HandlerCount ==
    ASSUME TypeInv, CountInv, NEW r \in Requests, pc[r] \in HandlerPCs,
           UNCHANGED home,
           \A q \in Requests \ {r} : pc'[q] = pc[q] /\ task'[q] = task[q],
           \/ pc'[r] \in HandlerPCs /\ UNCHANGED <<task, wg>>
           \/ /\ pc'[r] = "done" /\ task'[r] = task[r]
              /\ wg' = [wg EXCEPT ![home[r]] = @ - 1]
           \/ /\ pc'[r] = "done" /\ task'[r] \in TaskPCs
              /\ wg' = [wg EXCEPT ![home[r]] = (@ + 1) - 1]
    PROVE  CountInv'
<1> SUFFICES ASSUME NEW s \in Servers PROVE Counted(s)'
  BY DEF CountInv
<1>1. Counted(s) /\ home[r] \in Servers /\ wg \in [Servers -> Int]
  BY DEF CountInv, TypeInv, TypeOK, Shape, HandlerPCs
<1>2. task[r] \notin TaskPCs
  BY DEF TypeInv, Shape, HandlerPCs, TaskPCs
<1>3. "done" \notin HandlerPCs
  BY DEF HandlerPCs
<1>4. CASE s # home[r]
  BY <1>1, <1>4, CountUntouched DEF Handling, Working
<1>5. CASE s = home[r] /\ pc'[r] \in HandlerPCs /\ UNCHANGED <<task, wg>>
  BY <1>1, <1>5, CountUntouched DEF Handling, Working
<1>6. CASE /\ s = home[r] /\ pc'[r] = "done" /\ task'[r] = task[r]
           /\ wg' = [wg EXCEPT ![home[r]] = @ - 1]
  BY <1>1, <1>2, <1>3, <1>6, CountAnswer DEF Handling, Working
<1>7. CASE /\ s = home[r] /\ pc'[r] = "done" /\ task'[r] \in TaskPCs
           /\ wg' = [wg EXCEPT ![home[r]] = (@ + 1) - 1]
  BY <1>1, <1>2, <1>3, <1>7, CountSpawn DEF Handling, Working
<1> QED BY <1>4, <1>5, <1>6, <1>7

\* What a goroutine does to the count: it goes on, or returns.
LEMMA CreationCount ==
    ASSUME TypeInv, CountInv, NEW r \in Requests, task[r] \in TaskPCs,
           UNCHANGED <<home, pc>>,
           \A q \in Requests \ {r} : task'[q] = task[q],
           \/ task'[r] \in TaskPCs /\ UNCHANGED wg
           \/ task'[r] = "ended" /\ wg' = [wg EXCEPT ![home[r]] = @ - 1]
    PROVE  CountInv'
<1> SUFFICES ASSUME NEW s \in Servers PROVE Counted(s)'
  BY DEF CountInv
<1>1. Counted(s) /\ home[r] \in Servers /\ wg \in [Servers -> Int]
  BY DEF CountInv, TypeInv, TypeOK, Shape, TaskPCs
<1>2. "ended" \notin TaskPCs
  BY DEF TaskPCs
<1>3. CASE s # home[r]
  BY <1>1, <1>3, CountUntouched DEF Handling, Working
<1>4. CASE s = home[r] /\ task'[r] \in TaskPCs /\ UNCHANGED wg
  BY <1>1, <1>4, CountUntouched DEF Handling, Working
<1>5. CASE s = home[r] /\ task'[r] = "ended" /\ wg' = [wg EXCEPT ![home[r]] = @ - 1]
  BY <1>1, <1>2, <1>5, CountReturn DEF Handling, Working
<1> QED BY <1>3, <1>4, <1>5

\* A process that goes away takes all it has counted with it.
LEMMA TerminateCount ==
    ASSUME TypeInv, CountInv, NEW s \in Servers, NEW how, Terminate(s, how)
    PROVE  CountInv'
<1> SUFFICES ASSUME NEW t \in Servers PROVE Counted(t)'
  BY DEF CountInv
<1>1. "lost" \notin HandlerPCs \cup TaskPCs
  BY DEF HandlerPCs, TaskPCs
<1>2. CASE t = s
  <2>1. Handling(t)' = {} /\ Working(t)' = {}
    BY <1>1, <1>2 DEF Terminate, Handling, Working, localVars
  <2>2. wg'[t] = 0
    BY <1>2 DEF Terminate, TypeInv, TypeOK
  <2> QED BY <2>1, <2>2, FS_EmptySet DEF Counted
<1>3. CASE t # s
  <2>1. Handling(t)' = Handling(t) /\ Working(t)' = Working(t)
    BY <1>3 DEF Terminate, Handling, Working, localVars
  <2>2. wg'[t] = wg[t]
    BY <1>3 DEF Terminate, TypeInv, TypeOK
  <2> QED BY <2>1, <2>2, CountUntouched DEF CountInv
<1> QED BY <1>2, <1>3

\* A request that arrives is counted, if it is not refused at once.
LEMMA ArriveCount ==
    ASSUME TypeInv, CountInv, NEW r \in Requests, Arrive(r)
    PROVE  CountInv'
<1> SUFFICES ASSUME NEW t \in Servers PROVE Counted(t)'
  BY DEF CountInv
<1>1. /\ Counted(t) /\ wg \in [Servers -> Int] /\ pc[r] = "idle"
      /\ home \in [Requests -> Servers \cup {NoServer}]
      /\ pc \in [Requests -> HandlerPCs \cup {"idle", "done", "lost"}]
      /\ task[r] \notin TaskPCs
  BY DEF CountInv, TypeInv, TypeOK, Shape, TaskPCs, Arrive
<1>2. "idle" \notin HandlerPCs /\ "done" \notin HandlerPCs /\ "resolveFrom" \in HandlerPCs
  BY DEF HandlerPCs
<1>3. PICK s \in Servers :
        /\ home' = [home EXCEPT ![r] = s]
        /\ \/ Goto(r, "resolveFrom") /\ wg' = [wg EXCEPT ![s] = @ + 1]
           \/ Goto(r, "done") /\ UNCHANGED wg
  BY DEF Arrive
<1>4. UNCHANGED task
  BY DEF Arrive
<1>5. Working(t)' = Working(t)
  BY <1>1, <1>3, <1>4 DEF Working
<1>6. CASE t = s /\ Goto(r, "resolveFrom") /\ wg' = [wg EXCEPT ![s] = @ + 1]
  <2>1. r \notin Handling(t) /\ Handling(t)' = Handling(t) \cup {r}
    BY <1>1, <1>2, <1>3, <1>6 DEF Handling, Goto
  <2>2. wg'[t] = wg[t] + 1
    BY <1>1, <1>6
  <2> QED BY <1>1, <1>5, <2>1, <2>2, CountArrival
<1>7. CASE t # s \/ (Goto(r, "done") /\ UNCHANGED wg)
  <2>1. Handling(t)' = Handling(t)
    BY <1>1, <1>2, <1>3, <1>7 DEF Handling, Goto
  <2>2. wg'[t] = wg[t]
    BY <1>1, <1>3, <1>7
  <2> QED BY <1>1, <1>5, <2>1, <2>2, CountUntouched
<1> QED BY <1>3, <1>6, <1>7

\* The WaitGroup counts the handlers and goroutines of the instance that run, at
\* every moment: no path through readDelta or CreateDelta leaves it too early,
\* twice or never (wg.Add and the deferred wg.Done).
THEOREM WaitGroupTheorem == Spec => []WaitGroupCounts
<1>1. Init => CountInv
  <2> SUFFICES ASSUME Init, NEW s \in Servers PROVE Counted(s)
    BY DEF CountInv
  <2>1. Handling(s) = {} /\ Working(s) = {} /\ wg[s] = 0
    BY DEF Init, Handling, Working, HandlerPCs, TaskPCs
  <2> QED BY <2>1, FS_EmptySet DEF Counted
<1>2. TypeInv /\ CountInv /\ [Next]_vars => CountInv'
  <2> SUFFICES ASSUME TypeInv, CountInv, [Next]_vars
               PROVE  CountInv'
    OBVIOUS
  <2>1. ASSUME NEW r \in Requests, Handler(r)
         PROVE  CountInv'
    <3> USE DEF TypeInv, TypeOK, At, Goto, Fail, Answer, HandlerPCs, TaskPCs, localVars, processVars
    <3>1. pc[r] \in HandlerPCs /\ UNCHANGED home
      BY <2>1 DEF Handler, ResolveFrom, ResolveTo, LoadManifests, LookupDelta, InspectDelta,
            LockDummy, TagDummy, LoadArtifacts
    <3>2. \A q \in Requests \ {r} : pc'[q] = pc[q] /\ task'[q] = task[q]
      BY <2>1 DEF Handler, ResolveFrom, ResolveTo, LoadManifests, LookupDelta, InspectDelta,
            LockDummy, TagDummy, LoadArtifacts
    <3>3. \/ pc'[r] \in HandlerPCs /\ UNCHANGED <<task, wg>>
          \/ /\ pc'[r] = "done" /\ task'[r] = task[r]
             /\ wg' = [wg EXCEPT ![home[r]] = @ - 1]
          \/ /\ pc'[r] = "done" /\ task'[r] \in TaskPCs
             /\ wg' = [wg EXCEPT ![home[r]] = (@ + 1) - 1]
      BY <2>1 DEF Handler, ResolveFrom, ResolveTo, LoadManifests, LookupDelta, InspectDelta,
            LockDummy, TagDummy, LoadArtifacts
    <3> QED BY <3>1, <3>2, <3>3, HandlerCount
  <2>2. ASSUME NEW r \in Requests, Creation(r)
         PROVE  CountInv'
    <3> USE DEF TypeInv, TypeOK, TaskAt, EndTask, TaskPCs, localVars, processVars
    <3>1. task[r] \in TaskPCs /\ UNCHANGED <<home, pc>>
      BY <2>2 DEF Creation, ClaimDelta, PushDelta, TagDelta, ReleaseDelta
    <3>2. \A q \in Requests \ {r} : task'[q] = task[q]
      BY <2>2 DEF Creation, ClaimDelta, PushDelta, TagDelta, ReleaseDelta
    <3>3. \/ task'[r] \in TaskPCs /\ UNCHANGED wg
          \/ task'[r] = "ended" /\ wg' = [wg EXCEPT ![home[r]] = @ - 1]
      BY <2>2 DEF Creation, ClaimDelta, PushDelta, TagDelta, ReleaseDelta
    <3> QED BY <3>1, <3>2, <3>3, CreationCount
  <2>3. ASSUME NEW s \in Servers, ExitGracefully(s) \/ Kill(s)
         PROVE  CountInv'
    BY <2>3, TerminateCount DEF ExitGracefully, Kill
  <2>4. ASSUME NEW r \in Requests, Arrive(r)
         PROVE  CountInv'
    BY <2>4, ArriveCount
  <2>5. CASE UNCHANGED <<home, pc, task, wg>>
    <3>1. ASSUME NEW s \in Servers PROVE Counted(s)'
      BY <2>5, CountUntouched DEF CountInv, Handling, Working
    <3> QED BY <3>1 DEF CountInv
  <2>6. (UNCHANGED vars \/ Release \/ (\E r \in Requests : Expire(r))
          \/ (\E s \in Servers : BeginStop(s) \/ Restart(s)))
        => UNCHANGED <<home, pc, task, wg>>
    BY DEF vars, Release, Expire, BeginStop, Restart, localVars, processVars
  <2> QED BY <2>1, <2>2, <2>3, <2>4, <2>5, <2>6 DEF Next
<1>3. CountInv => WaitGroupCounts
  BY DEF CountInv, Counted, WaitGroupCounts
<1> QED
  BY <1>1, <1>2, <1>3, TypeInvariant, PTL DEF Spec
=============================================================================
