---------------------------- MODULE SpeechService ----------------------------
(***************************************************************************)
(* What POST /v1/audio/speech promises its clients: each request gets one  *)
(* answer to what it asked for; a 200 carries a rendering of it; and a     *)
(* request is admitted while there is room and turned away only when there *)
(* is none.  No cache, no lock, no gate, no provider.  The detailed module *)
(* is SpeechEndpoint, which implements this one.                           *)
(***************************************************************************)
EXTENDS Integers, FiniteSets

CONSTANTS
    Requests,     \* client connections
    Bodies,       \* what they ask for
    Renderings,   \* body -> the audio that may be answered
    Capacity,     \* requests admitted at once
    None

VARIABLES
    place,    \* each request: "away", "before" admission, "inside", "after"
    asked,    \* what a request that is not away asked for
    answer    \* the response sent last: [asked, kind, audio]

vars == <<place, asked, answer>>

Init == /\ place = [r \in Requests |-> "away"]
        /\ asked = [r \in Requests |-> None]
        /\ answer = [asked |-> None, kind |-> "none", audio |-> None]

Admitted == {r \in Requests : place[r] = "inside"}

(* What can go wrong, by how far the request has got *)
Errors == [away   |-> {"rejected"},
           before |-> {"load_failed", "load_timed_out"},
           inside |-> {"synthesis_failed", "synthesis_timed_out", "server_error"},
           after  |-> {"transcode_failed", "server_error"}]

-----------------------------------------------------------------------------
(* r asks for b now, or did and has not been let in yet. *)
Asks(r, b) == /\ b \in Bodies
              /\ \/ place[r] = "away"
                 \/ place[r] = "before" /\ asked[r] = b

MoveTo(r, b, where) ==
    /\ place' = [place EXCEPT ![r] = where]
    /\ asked' = [asked EXCEPT ![r] = b]
    /\ UNCHANGED answer

Respond(r, b, kind, audio) ==
    /\ place' = [place EXCEPT ![r] = "away"]
    /\ asked' = [asked EXCEPT ![r] = None]
    /\ answer' = [asked |-> b, kind |-> kind, audio |-> audio]

Await(r, b) ==
    /\ Asks(r, b)
    /\ MoveTo(r, b, "before")

Admit(r, b) ==
    /\ Asks(r, b)
    /\ Cardinality(Admitted) < Capacity
    /\ MoveTo(r, b, "inside")

TurnAway(r, b) ==
    /\ Asks(r, b)
    /\ Cardinality(Admitted) >= Capacity
    /\ Respond(r, b, "at_capacity", None)

(* Room is made before the answer is ready. *)
Leave(r) ==
    /\ place[r] = "inside"
    /\ MoveTo(r, asked[r], "after")

(* Known already: answered on arrival, without admission *)
Recall(r, b) ==
    /\ place[r] = "away"
    /\ b \in Bodies
    /\ \E audio \in Renderings[b] : Respond(r, b, "ok", audio)

Deliver(r) ==
    /\ place[r] \in {"inside", "after"}
    /\ \E audio \in Renderings[asked[r]] : Respond(r, asked[r], "ok", audio)

Fail(r, b) ==
    /\ b \in Bodies
    /\ place[r] = "away" \/ asked[r] = b
    /\ \E kind \in Errors[place[r]] : Respond(r, b, kind, None)

Next == \E r \in Requests :
            \/ Leave(r)
            \/ Deliver(r)
            \/ \E b \in Bodies : \/ Await(r, b)
                                 \/ Admit(r, b)
                                 \/ TurnAway(r, b)
                                 \/ Recall(r, b)
                                 \/ Fail(r, b)

Spec == Init /\ [][Next]_vars
=============================================================================
