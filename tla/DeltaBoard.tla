----------------------------- MODULE DeltaBoard -----------------------------
(***************************************************************************)
(* What the delta service promises, without servers, dummies or            *)
(* goroutines.  A client asks for a delta from an image it has to a tag or *)
(* to another image; the service settles on an image and answers once.  A  *)
(* positive answer names a delta that is on the board, starts at the       *)
(* client's image, ends at the image settled on, and uses the algorithms   *)
(* the client's list calls for.  Deltas are put on the board on demand, at *)
(* most one for every request, and are never taken down.  Questions may be *)
(* lost, and nothing is promised about how soon a delta is there.          *)
(***************************************************************************)
EXTENDS DeltaLocation

CONSTANTS Requests, Asks, LatestTag, NoImage, NoAsk

VARIABLES
    latest,     \* the image LatestTag points at
    ask,        \* ask[r]: what the client of request r asked
    target,     \* target[r]: the image the service settled on
    board,      \* the deltas that exist: pairs of location and request
    answer      \* answer[r]: a tuple that begins with the kind of answer

boardVars == <<latest, ask, target, board, answer>>

Open       == <<"none">>
Pending(r) == ask[r] # NoAsk /\ answer[r] = Open
Settled(r) == Pending(r) /\ target[r] # NoImage
Wanted(r)  == GetDeltaLocation(ask[r].from, target[r], ask[r].accepted)

Refusals == {<<"error">>, <<"incompatible">>, <<"noNewVersion">>}

BoardInit ==
    /\ latest \in Images
    /\ ask = [r \in Requests |-> NoAsk]
    /\ target = [r \in Requests |-> NoImage]
    /\ board = {}
    /\ answer = [r \in Requests |-> Open]

\* A question is asked, and possibly refused out of hand.
Ask(r) ==
    /\ ask[r] = NoAsk
    /\ \E q \in Asks : ask' = [ask EXCEPT ![r] = q]
    /\ answer' \in {answer, [answer EXCEPT ![r] = <<"error">>]}
    /\ UNCHANGED <<latest, target, board>>

\* The service settles on the image asked for, or on the one the tag points
\* at now.  Nothing is left to do if the client has that image already.
Settle(r) ==
    /\ Pending(r) /\ target[r] = NoImage
    /\ LET to == IF ask[r].want = LatestTag THEN latest ELSE ask[r].want
       IN  /\ target' = [target EXCEPT ![r] = to]
           /\ answer' = [answer EXCEPT ![r] =
                           IF to = ask[r].from THEN <<"noNewVersion">> ELSE Open]
    /\ UNCHANGED <<latest, ask, board>>

Refuse(r) ==
    /\ Pending(r)
    /\ \E a \in Refusals \ {<<"noNewVersion">>} : answer' = [answer EXCEPT ![r] = a]
    /\ UNCHANGED <<latest, ask, target, board>>

\* Only a client whose target is settled and compatible is told to wait, ...
Accept(r) ==
    /\ Settled(r)
    /\ checkCompatability(ask[r].from, target[r])
    /\ answer' = [answer EXCEPT ![r] = <<"accepted">>]
    /\ UNCHANGED <<latest, ask, target, board>>

\* ... only one that was told to wait has a delta made, and only one, ...
Publish(r) ==
    /\ answer[r] = <<"accepted">>
    /\ <<Wanted(r), r>> \notin board
    /\ board' = board \cup {<<Wanted(r), r>>}
    /\ UNCHANGED <<latest, ask, target, answer>>

\* ... and a delta that is served is one that was made for the same question.
Serve(r) ==
    /\ Settled(r)
    /\ \E d \in board :
         /\ d[1] = Wanted(r)
         /\ answer' = [answer EXCEPT ![r] = <<"success", d[1], d[2]>>]
    /\ UNCHANGED <<latest, ask, target, board>>

\* A server that dies takes the questions it was handling with it.
Lose ==
    /\ \E lost \in SUBSET {r \in Requests : Pending(r)} :
         answer' = [r \in Requests |-> IF r \in lost THEN <<"lost">> ELSE answer[r]]
    /\ UNCHANGED <<latest, ask, target, board>>

Release ==
    /\ latest' \in Images
    /\ UNCHANGED <<ask, target, board, answer>>

BoardNext ==
    \/ \E r \in Requests : \/ Ask(r) \/ Settle(r) \/ Refuse(r) \/ Accept(r)
                           \/ Publish(r) \/ Serve(r)
    \/ Lose
    \/ Release

BoardSpec == BoardInit /\ [][BoardNext]_boardVars
=============================================================================
