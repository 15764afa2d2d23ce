-------------------------- MODULE DeltaBoardProofs --------------------------
(***************************************************************************)
(* The proof that DeltaService keeps the promise of DeltaBoard, for any    *)
(* instances, requests, images and questions.                              *)
(***************************************************************************)
EXTENDS DeltaServiceProofs

Resolving == {"idle", "resolveFrom", "resolveTo"}
Pushed    == {"tag", "release", "ended", "lost"}

\* What the board is about: the target is settled when the handler has resolved
\* it, only compatible images get as far as a location, only an accepted request
\* has a goroutine, and only its own goroutine pushes a request's delta.
SettledInv ==
    \A r \in Requests :
        /\ ask[r] = NoAsk <=> pc[r] = "idle"
        /\ pc[r] \in Resolving => target[r] = NoImage
        /\ pc[r] \in Located \/ task[r] # "none" =>
              target[r] \in Images /\ checkCompatability(ask[r].from, target[r])
        /\ task[r] # "none" => reply[r] = "accepted"

PushedInv == \A m \in deltas : task[m.by] \in Pushed

BoardInv == TypeInv /\ ServedInv /\ SettledInv /\ PushedInv

\* What clients ask names images, or the tag.
LEMMA AsksAreQuestions ==
    ASSUME NEW a \in Asks
    PROVE  /\ a.from \in Images /\ a.want \in Images \cup {LatestTag}
           /\ a # NoAsk
BY ServiceAssumption, NoManifestAssumption DEF Questions

\* A target is set once, by ResolveTo, and only LoadManifests lets a handler go on.
LEMMA NextSettled == TypeInv /\ LocInv /\ SettledInv /\ [Next]_vars => SettledInv'
<1> SUFFICES ASSUME TypeInv, LocInv, SettledInv, [Next]_vars PROVE SettledInv'
  OBVIOUS
<1>0. NoImage \notin Images /\ NoAsk \notin Asks /\ LatestTag \notin Images
  BY ServiceAssumption, NoManifestAssumption
<1> USE <1>0 DEF TypeInv, TypeOK, Shape, LocInv, SettledInv, Resolving, Located,
        HandlerPCs, TaskPCs, At, TaskAt, Goto, Fail, Answer, EndTask, registryVars,
        processVars, localVars
<1>1. ASSUME NEW r \in Requests, Arrive(r) PROVE SettledInv'
  BY <1>1 DEF Arrive
<1>2. ASSUME NEW r \in Requests, ResolveFrom(r) PROVE SettledInv'
  BY <1>2 DEF ResolveFrom
<1>3. ASSUME NEW r \in Requests, ResolveTo(r) PROVE SettledInv'
  BY <1>3 DEF ResolveTo
<1>4. ASSUME NEW r \in Requests, LoadManifests(r) PROVE SettledInv'
  BY <1>4 DEF LoadManifests
<1>5. ASSUME NEW r \in Requests, LookupDelta(r) PROVE SettledInv'
  BY <1>5 DEF LookupDelta
<1>6. ASSUME NEW r \in Requests, InspectDelta(r) PROVE SettledInv'
  BY <1>6 DEF InspectDelta
<1>7. ASSUME NEW r \in Requests, LockDummy(r) PROVE SettledInv'
  BY <1>7 DEF LockDummy
<1>8. ASSUME NEW r \in Requests, TagDummy(r) PROVE SettledInv'
  BY <1>8 DEF TagDummy
<1>9. ASSUME NEW r \in Requests, LoadArtifacts(r) PROVE SettledInv'
  BY <1>9 DEF LoadArtifacts
<1>10. ASSUME NEW r \in Requests, Creation(r) PROVE SettledInv'
  BY <1>10 DEF Creation, ClaimDelta, PushDelta, TagDelta, ReleaseDelta
<1>11. ASSUME NEW s \in Servers, NEW how, Terminate(s, how) PROVE SettledInv'
  BY <1>11 DEF Terminate, Handling, Working
<1>12. CASE \/ \E r \in Requests : Expire(r)
            \/ \E s \in Servers : BeginStop(s) \/ Restart(s)
            \/ Release
            \/ UNCHANGED vars
  BY <1>12 DEF Expire, BeginStop, Restart, Release, vars
<1> QED BY <1>1, <1>2, <1>3, <1>4, <1>5, <1>6, <1>7, <1>8, <1>9, <1>10, <1>11, <1>12
        DEF Next, Handler, ExitGracefully, Kill

\* PushDelta is the only step that adds a delta, under its own name.
LEMMA NextPushed == TypeInv /\ PushedInv /\ [Next]_vars => PushedInv'
<1> SUFFICES ASSUME TypeInv, PushedInv, [Next]_vars PROVE PushedInv'
  OBVIOUS
<1> USE DEF TypeInv, TypeOK, Shape, PushedInv, Pushed, Manifests, registryVars
<1>1. ASSUME NEW r \in Requests, ClaimDelta(r) \/ TagDelta(r) \/ ReleaseDelta(r)
      PROVE  PushedInv'
  BY <1>1 DEF ClaimDelta, TagDelta, ReleaseDelta, TaskAt, EndTask
<1>2. ASSUME NEW r \in Requests, PushDelta(r) PROVE PushedInv'
  BY <1>2 DEF PushDelta, TaskAt, Delta
<1>3. ASSUME NEW r \in Requests, LoadArtifacts(r) PROVE PushedInv'
  BY <1>3 DEF LoadArtifacts, At, Located
<1>4. ASSUME NEW s \in Servers, NEW how, Terminate(s, how) PROVE PushedInv'
  BY <1>4 DEF Terminate
<1>5. ASSUME UNCHANGED <<deltas, task>> PROVE PushedInv'
  BY <1>5
<1> QED BY <1>1, <1>2, <1>3, <1>4, <1>5
        DEF Next, Handler, Creation, Arrive, ResolveFrom, ResolveTo, LoadManifests,
            LookupDelta, InspectDelta, LockDummy, TagDummy, Expire, BeginStop,
            ExitGracefully, Kill, Restart, Release, vars

\* All that the mapping rests on holds in every reachable state.
LEMMA BoardInvHolds == Spec => []BoardInv
<1>1. Init => SettledInv /\ PushedInv
  BY DEF Init, SettledInv, PushedInv, Located, Resolving
<1>2. TypeInv /\ ServedInv /\ SettledInv /\ PushedInv /\ [Next]_vars
        => SettledInv' /\ PushedInv'
  BY NextSettled, NextPushed DEF ServedInv
<1> QED BY <1>1, <1>2, TypeInvariant, ServedTheorem, PTL DEF Spec, BoardInv

(***************************************************************************)
(* The mapping                                                             *)
(***************************************************************************)

\* The board computes locations as the service does.
LEMMA SameLocation ==
    /\ \A i, j : Board!checkCompatability(i, j) <=> checkCompatability(i, j)
    /\ \A i, j, a : Board!GetDeltaLocation(i, j, a) = GetDeltaLocation(i, j, a)
BY DEF Board!checkCompatability, checkCompatability, Board!GetDeltaLocation,
       GetDeltaLocation, Board!ChooseAlgorithms, ChooseAlgorithms

AnswerOf ==
    \A r \in Requests :
        /\ pc[r] = "lost" => Answers[r] = <<"lost">>
        /\ pc[r] # "lost" /\ reply[r] = "success" =>
              Answers[r] = <<"success", served[r].loc, served[r].by>>
        /\ pc[r] # "lost" /\ reply[r] # "success" => Answers[r] = <<reply[r]>>

\* The answer of a request, by what its handler has come to.
LEMMA AnswersAre == AnswerOf
BY DEF AnswerOf, Answers

\* The same of the next state.
LEMMA AnswersAreNext == AnswerOf'
BY AnswersAre, PTL

\* What leaves the handlers' answers, or changes one of them, does so on the
\* board.
LEMMA AnswersStay ==
    ASSUME UNCHANGED <<reply, served>>, \A r \in Requests : pc[r] = "lost" <=> pc'[r] = "lost"
    PROVE  Answers' = Answers
BY DEF Answers

\* A handler that answers, other than with a delta, changes its own answer only.
LEMMA Answered ==
    ASSUME TypeInv, NEW r \in Requests, NEW kind \in Replies \ {"success"}, NEW m,
           pc[r] # "lost", Answer(r, kind, m)
    PROVE  Answers' = [Answers EXCEPT ![r] = <<kind>>]
<1>1. /\ pc' = [pc EXCEPT ![r] = "done"] /\ reply' = [reply EXCEPT ![r] = kind]
      /\ served' = [served EXCEPT ![r] = m]
  BY DEF Answer, Goto
<1>2. /\ pc'[r] = "done" /\ reply'[r] = kind
      /\ \A q \in Requests \ {r} :
            pc'[q] = pc[q] /\ reply'[q] = reply[q] /\ served'[q] = served[q]
  BY <1>1 DEF TypeInv, TypeOK
<1>3. Answers'[r] = <<kind>>
  BY <1>2, AnswersAreNext DEF AnswerOf
<1>4. \A q \in Requests \ {r} : Answers'[q] = Answers[q]
  BY <1>2, AnswersAre, AnswersAreNext DEF AnswerOf
<1>5. /\ Answers = [q \in Requests |-> Answers[q]]
      /\ Answers' = [q \in Requests |-> Answers'[q]]
  BY DEF Answers
<1> QED BY <1>3, <1>4, <1>5

\* A handler's question is pending; it is settled from "manifests" on.
LEMMA HandlerIsPending ==
    ASSUME BoardInv, NEW r \in Requests, pc[r] \in HandlerPCs
    PROVE  /\ Board!Pending(r)
           /\ pc[r] \in Located \cup {"manifests"} => Board!Settled(r)
           /\ pc[r] \in Located => Board!Wanted(r) = loc[r]
<1>1. reply[r] = "none" /\ pc[r] \notin {"idle", "done", "lost"}
  BY DEF BoardInv, ServedInv, LocInv, HandlerPCs
<1>2. Answers[r] = <<"none">>
  BY <1>1, AnswersAre DEF AnswerOf
<1>3. Board!Pending(r)
  BY <1>1, <1>2 DEF Board!Pending, Board!Open, BoardInv, SettledInv
<1>4. ASSUME pc[r] \in Located \cup {"manifests"} PROVE target[r] # NoImage
  BY <1>4, ServiceAssumption DEF BoardInv, SettledInv, TypeInv, Shape
<1>5. ASSUME pc[r] \in Located PROVE Board!Wanted(r) = loc[r]
  <2>1. loc[r] # NoLocation
    BY <1>5, ServiceAssumption DEF BoardInv, TypeInv, Shape
  <2> QED BY <2>1, SameLocation DEF Board!Wanted, BoardInv, ServedInv, LocInv
<1> QED BY <1>3, <1>4, <1>5 DEF Board!Settled

\* A refusal, with an error or because the images are incompatible.
LEMMA Refused ==
    ASSUME BoardInv, NEW r \in Requests, pc[r] \in HandlerPCs,
           NEW kind \in {"error", "incompatible"}, NEW m, Answer(r, kind, m),
           UNCHANGED <<latest, ask, target, deltas>>
    PROVE  Board!Refuse(r)
<1>1. Answers' = [Answers EXCEPT ![r] = <<kind>>]
  BY Answered DEF BoardInv, Replies, HandlerPCs
<1>2. <<kind>> \in Board!Refusals \ {<<"noNewVersion">>}
  BY DEF Board!Refusals
<1>3. Published' = Published
  BY DEF Published
<1> QED BY <1>1, <1>2, <1>3, HandlerIsPending DEF Board!Refuse

\* A client is told to wait: its target is settled and compatible.
LEMMA Accepted ==
    ASSUME BoardInv, NEW r \in Requests, pc[r] \in Located, NEW m,
           Answer(r, "accepted", m), UNCHANGED <<latest, ask, target, deltas>>
    PROVE  Board!Accept(r)
<1>1. Answers' = [Answers EXCEPT ![r] = <<"accepted">>]
  BY Answered DEF BoardInv, Replies, Located
<1>2. Published' = Published
  BY DEF Published
<1>3. Board!Settled(r)
  BY HandlerIsPending DEF Located, HandlerPCs
<1>4. Board!checkCompatability(ask[r].from, target[r])
  BY SameLocation DEF BoardInv, SettledInv
<1> QED BY <1>1, <1>2, <1>3, <1>4 DEF Board!Accept

\* What changes neither answers nor deltas is not seen on the board.
LEMMA Unseen ==
    ASSUME UNCHANGED <<latest, ask, target, deltas, reply, served>>,
           \A r \in Requests : pc[r] = "lost" <=> pc'[r] = "lost"
    PROVE  UNCHANGED Board!boardVars
BY AnswersStay DEF Board!boardVars, Published

(***************************************************************************)
(* Every step of the service is a step of the board, or is not seen on it. *)
(***************************************************************************)

BoardStep == [Board!BoardNext]_Board!boardVars

\* A request that arrives is asked on the board, or refused out of hand.
LEMMA ArriveStep ==
    ASSUME BoardInv, NEW r \in Requests, Arrive(r)
    PROVE  BoardStep
<1>1. /\ pc[r] = "idle" /\ ask[r] = NoAsk /\ reply[r] = "none"
      /\ Published' = Published
  BY DEF Arrive, BoardInv, SettledInv, ServedInv, LocInv, registryVars, Published
<1>2. pc' \in {[pc EXCEPT ![r] = "resolveFrom"], [pc EXCEPT ![r] = "done"]}
  BY DEF Arrive, Goto
<1>3. \E q \in Asks : ask' = [ask EXCEPT ![r] = q]
  BY DEF Arrive
<1>4. Answers' \in {Answers, [Answers EXCEPT ![r] = <<"error">>]}
  <2>1. CASE UNCHANGED <<reply, served>>
    BY <1>1, <1>2, <2>1, AnswersStay DEF BoardInv, TypeInv, TypeOK
  <2>2. CASE ~UNCHANGED <<reply, served>>
    <3>1. /\ pc' = [pc EXCEPT ![r] = "done"]
          /\ reply' = [reply EXCEPT ![r] = "error"] /\ served' = served
      BY <2>2 DEF Arrive, Goto
    <3>2. /\ pc'[r] = "done" /\ reply'[r] = "error"
          /\ \A q \in Requests \ {r} :
                pc'[q] = pc[q] /\ reply'[q] = reply[q] /\ served'[q] = served[q]
      BY <3>1 DEF BoardInv, TypeInv, TypeOK
    <3>3. Answers'[r] = <<"error">>
      BY <3>2, AnswersAreNext DEF AnswerOf
    <3>4. \A q \in Requests \ {r} : Answers'[q] = Answers[q]
      BY <3>2, AnswersAre, AnswersAreNext DEF AnswerOf
    <3>5. /\ Answers = [q \in Requests |-> Answers[q]]
          /\ Answers' = [q \in Requests |-> Answers'[q]]
      BY DEF Answers
    <3> QED BY <3>3, <3>4, <3>5
  <2> QED BY <2>1, <2>2
<1>5. UNCHANGED <<latest, target>>
  BY DEF Arrive, registryVars
<1> QED BY <1>1, <1>3, <1>4, <1>5 DEF BoardStep, Board!BoardNext, Board!Ask

\* The target is settled in one step with the answer to it.
LEMMA ResolveStep ==
    ASSUME BoardInv, NEW r \in Requests, ResolveFrom(r) \/ ResolveTo(r)
    PROVE  BoardStep
<1>1. pc[r] \in HandlerPCs /\ pc[r] # "lost" /\ UNCHANGED <<latest, ask, deltas>>
  BY DEF ResolveFrom, ResolveTo, At, HandlerPCs, registryVars, localVars
<1>2. CASE ResolveFrom(r)
  <2>1. CASE Fail(r)
    BY <1>1, <1>2, <2>1, Refused DEF Fail, ResolveFrom, localVars, BoardStep, Board!BoardNext
  <2>2. CASE Goto(r, "resolveTo") /\ UNCHANGED <<reply, served>>
    BY <1>1, <1>2, <2>2, Unseen
    DEF ResolveFrom, Goto, localVars, BoardInv, TypeInv, TypeOK, BoardStep
  <2> QED BY <1>2, <2>1, <2>2 DEF ResolveFrom
<1>3. CASE ResolveTo(r)
  <2> DEFINE to == ResolvedTarget(r)
  <2>1. /\ Board!Pending(r) /\ target[r] = NoImage
        /\ Published' = Published
    BY <1>1, <1>3, HandlerIsPending
    DEF ResolveTo, At, BoardInv, SettledInv, Resolving, Published
  <2>2. CASE Fail(r) /\ UNCHANGED target
    BY <1>1, <2>2, Refused DEF Fail, BoardStep, Board!BoardNext
  <2>3. CASE /\ target' = [target EXCEPT ![r] = to]
             /\ to = ask[r].from /\ Answer(r, "noNewVersion", NoManifest)
    <3>1. Answers' = [Answers EXCEPT ![r] = <<"noNewVersion">>]
      BY <1>1, <2>3, Answered DEF BoardInv, Replies
    <3> QED BY <1>1, <2>1, <2>3, <3>1
            DEF ResolvedTarget, Board!Settle, Board!BoardNext, BoardStep
  <2>4. CASE /\ target' = [target EXCEPT ![r] = to]
             /\ to # ask[r].from /\ Goto(r, "manifests") /\ UNCHANGED <<reply, served>>
    <3>1. Answers' = Answers
      BY <1>1, <2>4, AnswersStay DEF Goto, BoardInv, TypeInv, TypeOK
    <3>2. Answers = [q \in Requests |-> Answers[q]] /\ Answers[r] = Board!Open
      BY <2>1 DEF Answers, Board!Pending
    <3>3. Answers' = [Answers EXCEPT ![r] = Board!Open]
      BY <3>1, <3>2
    <3> QED BY <1>1, <2>1, <2>4, <3>3
            DEF ResolvedTarget, Board!Settle, Board!BoardNext, BoardStep
  <2> QED BY <1>3, <2>2, <2>3, <2>4 DEF ResolveTo
<1> QED BY <1>2, <1>3

\* Manifests and artifacts that are loaded, or not.
LEMMA LoadStep ==
    ASSUME BoardInv, NEW r \in Requests, LoadManifests(r) \/ LoadArtifacts(r)
    PROVE  BoardStep
<1>1. /\ pc[r] \in HandlerPCs /\ pc[r] # "lost"
      /\ UNCHANGED <<latest, ask, target, deltas>>
  BY DEF LoadManifests, LoadArtifacts, At, HandlerPCs, registryVars, localVars
<1>2. CASE Fail(r) \/ Answer(r, "incompatible", NoManifest)
  BY <1>1, <1>2, Refused DEF Fail, BoardStep, Board!BoardNext
<1>3. CASE LoadManifests(r) /\ Goto(r, "lookup") /\ UNCHANGED <<reply, served>>
  BY <1>1, <1>3, Unseen DEF Goto, BoardInv, TypeInv, TypeOK, BoardStep
<1>4. CASE LoadArtifacts(r) /\ ~Fail(r)
  <2>1. /\ pc' = [pc EXCEPT ![r] = "done"] /\ reply' = [reply EXCEPT ![r] = "accepted"]
        /\ served' = served /\ pc[r] \in Located
    BY <1>4 DEF LoadArtifacts, At, Goto, Located
  <2>2. /\ pc'[r] = "done" /\ reply'[r] = "accepted"
        /\ \A q \in Requests \ {r} :
              pc'[q] = pc[q] /\ reply'[q] = reply[q] /\ served'[q] = served[q]
    BY <2>1 DEF BoardInv, TypeInv, TypeOK
  <2>3. Answers'[r] = <<"accepted">>
    BY <2>2, AnswersAreNext DEF AnswerOf
  <2>4. \A q \in Requests \ {r} : Answers'[q] = Answers[q]
    BY <2>2, AnswersAre, AnswersAreNext DEF AnswerOf
  <2>5. /\ Answers = [q \in Requests |-> Answers[q]]
        /\ Answers' = [q \in Requests |-> Answers'[q]]
    BY DEF Answers
  <2>6. Board!Accept(r)
    BY <1>1, <2>1, <2>3, <2>4, <2>5, HandlerIsPending, SameLocation
    DEF Board!Accept, Published, BoardInv, SettledInv
  <2> QED BY <2>6 DEF BoardStep, Board!BoardNext
<1> QED BY <1>2, <1>3, <1>4 DEF LoadManifests, LoadArtifacts

\* The manifest the tag was resolved to decides what is answered.
LEMMA InspectStep ==
    ASSUME BoardInv, NEW r \in Requests, InspectDelta(r)
    PROVE  BoardStep
<1>1. /\ pc[r] = "inspect" /\ pc[r] \in Located /\ pc[r] \in HandlerPCs
      /\ UNCHANGED <<latest, ask, target, deltas>>
  BY DEF InspectDelta, At, Located, HandlerPCs, registryVars
<1>2. CASE Fail(r)
  BY <1>1, <1>2, Refused DEF Fail, BoardStep, Board!BoardNext
<1>3. CASE Answer(r, "accepted", NoManifest)
  BY <1>1, <1>3, Accepted DEF BoardStep, Board!BoardNext
<1>4. CASE Goto(r, "lockDummy") /\ UNCHANGED <<reply, served>>
  BY <1>1, <1>4, Unseen DEF Goto, BoardInv, TypeInv, TypeOK, BoardStep
<1>5. CASE ~IsDummy(found[r]) /\ Answer(r, "success", found[r])
  <2>1. found[r] \in deltas /\ found[r].loc = loc[r]
    BY <1>1, <1>5 DEF BoardInv, TypeInv, TypeOK, Shape, ServedInv, FoundInv, IsDummy,
       Manifests
  <2>2. /\ pc' = [pc EXCEPT ![r] = "done"] /\ reply' = [reply EXCEPT ![r] = "success"]
        /\ served' = [served EXCEPT ![r] = found[r]]
    BY <1>5 DEF Answer, Goto
  <2>3. /\ pc'[r] = "done" /\ reply'[r] = "success" /\ served'[r] = found[r]
        /\ \A q \in Requests \ {r} :
              pc'[q] = pc[q] /\ reply'[q] = reply[q] /\ served'[q] = served[q]
    BY <2>2 DEF BoardInv, TypeInv, TypeOK
  <2>4. Answers'[r] = <<"success", found[r].loc, found[r].by>>
    BY <2>3, AnswersAreNext DEF AnswerOf
  <2>5. \A q \in Requests \ {r} : Answers'[q] = Answers[q]
    BY <2>3, AnswersAre, AnswersAreNext DEF AnswerOf
  <2>6. /\ Answers = [q \in Requests |-> Answers[q]]
        /\ Answers' = [q \in Requests |-> Answers'[q]]
    BY DEF Answers
  <2>7. <<found[r].loc, found[r].by>> \in Published /\ Published' = Published
    BY <1>1, <2>1 DEF Published
  <2>8. Board!Settled(r) /\ Board!Wanted(r) = found[r].loc
    BY <1>1, <2>1, HandlerIsPending
  <2>9. Answers' = [Answers EXCEPT ![r] = <<"success", found[r].loc, found[r].by>>]
    BY <2>4, <2>5, <2>6
  <2>10. Board!Serve(r)
    BY <1>1, <2>7, <2>8, <2>9 DEF Board!Serve
  <2> QED BY <2>10 DEF BoardStep, Board!BoardNext
<1> QED BY <1>2, <1>3, <1>4, <1>5 DEF InspectDelta

\* Nothing of a dummy is seen on the board but a failure.
LEMMA DummyStep ==
    ASSUME BoardInv, NEW r \in Requests, LookupDelta(r) \/ LockDummy(r) \/ TagDummy(r)
    PROVE  BoardStep
<1>1. /\ pc[r] \in HandlerPCs /\ pc[r] # "lost"
      /\ UNCHANGED <<latest, ask, target, deltas>>
  BY DEF LookupDelta, LockDummy, TagDummy, At, HandlerPCs, registryVars, localVars
<1>2. CASE Fail(r)
  BY <1>1, <1>2, Refused DEF Fail, BoardStep, Board!BoardNext
<1>3. CASE /\ Goto(r, "inspect") \/ Goto(r, "lockDummy") \/ Goto(r, "tagDummy")
                \/ Goto(r, "artifacts")
           /\ UNCHANGED <<reply, served>>
  BY <1>1, <1>3, Unseen DEF Goto, BoardInv, TypeInv, TypeOK, BoardStep
<1> QED BY <1>2, <1>3 DEF LookupDelta, LockDummy, TagDummy

\* Of a creation, the push of the delta is seen on the board.
LEMMA CreationStep ==
    ASSUME BoardInv, NEW r \in Requests, Creation(r)
    PROVE  BoardStep
<1>1. UNCHANGED <<latest, ask, target, pc, reply, served>>
  BY DEF Creation, ClaimDelta, PushDelta, TagDelta, ReleaseDelta, registryVars, localVars
<1>2. CASE deltas' = deltas
  BY <1>1, <1>2, Unseen DEF BoardStep
<1>3. CASE deltas' # deltas
  <2>1. task[r] = "push" /\ deltas' = deltas \cup {Delta(loc[r], r)}
    BY <1>3 DEF Creation, ClaimDelta, PushDelta, TagDelta, ReleaseDelta, TaskAt, registryVars
  <2>2. Published' = Published \cup {<<loc[r], r>>}
    <3> DEFINE d == Delta(loc[r], r)
    <3>1. d.loc = loc[r] /\ d.by = r
      BY DEF Delta
    <3>2. Published' = {<<m.loc, m.by>> : m \in deltas \cup {d}}
      BY <2>1 DEF Published
    <3>3. @ = {<<m.loc, m.by>> : m \in deltas} \cup {<<d.loc, d.by>>}
      OBVIOUS
    <3> HIDE DEF d
    <3> QED BY <3>1, <3>2, <3>3 DEF Published
  <2>3. <<loc[r], r>> \notin Published
    BY <2>1 DEF Published, BoardInv, PushedInv, Pushed
  <2>4. Answers[r] = <<"accepted">>
    BY <2>1, AnswersAre DEF AnswerOf, BoardInv, SettledInv, TypeInv, Shape
  <2>5. Board!Wanted(r) = loc[r]
    <3>1. loc[r] # NoLocation
      BY <2>1, ServiceAssumption DEF BoardInv, TypeInv, Shape
    <3> QED BY <3>1, SameLocation DEF Board!Wanted, BoardInv, ServedInv, LocInv
  <2>6. Answers' = Answers
    BY <1>1, AnswersStay
  <2>7. Board!Publish(r)
    BY <1>1, <2>2, <2>3, <2>4, <2>5, <2>6 DEF Board!Publish
  <2> QED BY <2>7 DEF BoardStep, Board!BoardNext
<1> QED BY <1>2, <1>3

\* A process that goes away takes pending questions with it.
LEMMA TerminateStep ==
    ASSUME BoardInv, NEW s \in Servers, NEW how, Terminate(s, how)
    PROVE  BoardStep
<1> DEFINE lost == Handling(s)
<1>1. UNCHANGED <<latest, ask, target, deltas, reply, served>>
  BY DEF Terminate, registryVars, localVars
<1>2. \A r \in lost : Board!Pending(r) /\ r \in Requests
  BY HandlerIsPending DEF Handling
<1>3. \A r \in Requests : pc'[r] = IF r \in lost THEN "lost" ELSE pc[r]
  BY DEF Terminate
<1>4. \A r \in Requests : Answers'[r] = IF r \in lost THEN <<"lost">> ELSE Answers[r]
  BY <1>1, <1>3, AnswersAre, AnswersAreNext DEF AnswerOf
<1>5. Answers' = [r \in Requests |-> IF r \in lost THEN <<"lost">> ELSE Answers[r]]
  BY <1>4 DEF Answers
<1>6. Published' = Published
  BY <1>1 DEF Published
<1>7. Board!Lose
  BY <1>1, <1>2, <1>5, <1>6 DEF Board!Lose
<1> QED BY <1>7 DEF BoardStep, Board!BoardNext

\* The service keeps its promise, however many instances, requests and images
\* there are and however they fail: every answer is about the image the target
\* named while the request was running, and names a delta made for it.
THEOREM Promise == Spec => KeepsThePromise
<1>1. Init => Board!BoardInit
  BY DEF Init, Board!BoardInit, Board!Open, Published, Answers
<1>2. BoardInv /\ [Next]_vars => [Board!BoardNext]_Board!boardVars
  <2> SUFFICES ASSUME BoardInv, [Next]_vars PROVE BoardStep
    BY DEF BoardStep
  <2>1. CASE Release
    <3>1. latest' \in Images /\ Answers' = Answers /\ Published' = Published
      BY <2>1, AnswersStay
      DEF Release, BoardInv, TypeInv, TypeOK, localVars, Published
    <3> QED BY <2>1, <3>1
            DEF Release, localVars, Board!Release, Board!BoardNext, BoardStep
  <2>2. CASE \/ \E r \in Requests : Expire(r)
             \/ \E s \in Servers : BeginStop(s) \/ Restart(s)
             \/ UNCHANGED vars
    <3>1. UNCHANGED <<latest, ask, target, deltas, pc, reply, served>>
      BY <2>2 DEF Expire, BeginStop, Restart, vars, registryVars, localVars
    <3> QED BY <3>1, Unseen DEF BoardStep
  <2> QED BY <2>1, <2>2, ArriveStep, ResolveStep, LoadStep, InspectStep, DummyStep,
             CreationStep, TerminateStep
          DEF Next, Handler, ExitGracefully, Kill
<1> QED BY <1>1, <1>2, BoardInvHolds, PTL DEF Spec, KeepsThePromise, Board!BoardSpec
=============================================================================
