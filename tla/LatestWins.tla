----------------------------- MODULE LatestWins -----------------------------
(* What capture::FrameSource promises its caller (framesource.h:48-51): one  *)
(* request is served at a time, a request made meanwhile is remembered, and  *)
(* only a newer request replaces a remembered one.  Every request that is    *)
(* served is answered, and answering it starts serving the remembered one.   *)
EXTENDS Integers

CONSTANTS
    Request,   \* what can be asked for
    None       \* no request

VARIABLES
    serving,   \* the request being served, or None
    waiting,   \* the remembered request, or None
    turn       \* the number of requests served to the end, modulo 2: it tells
               \* a request from an equal one that follows it

vars == <<serving, waiting, turn>>

TypeOK ==
    /\ serving \in Request \cup {None}
    /\ waiting \in Request \cup {None}
    /\ waiting # None => serving # None
    /\ turn \in {0, 1}

Init ==
    /\ serving = None
    /\ waiting = None
    /\ turn = 0

(* A request made while nothing is served is served, and one made while      *)
(* another is served becomes the remembered one.                             *)
Submit(r) ==
    /\ IF serving = None
       THEN serving' = r /\ UNCHANGED waiting
       ELSE waiting' = r /\ UNCHANGED serving
    /\ UNCHANGED turn

(* The served request is answered and the remembered one is served next.     *)
Answer ==
    /\ serving # None
    /\ serving' = waiting
    /\ waiting' = None
    /\ turn' = 1 - turn

(* Whoever receives the answer makes a further request before it returns:    *)
(* that request is the newest, so it is the one served next.                 *)
AnswerAndSubmit(r) ==
    /\ serving # None
    /\ serving' = r
    /\ waiting' = None
    /\ turn' = 1 - turn

(* The remembered request is answered with a refusal as soon as its turn     *)
(* comes, so that both end in one step.                                      *)
AnswerAndRefuse ==
    /\ serving # None
    /\ serving' = None
    /\ waiting' = None
    /\ turn' = 1 - turn

Finish ==
    \/ Answer
    \/ AnswerAndRefuse
    \/ \E r \in Request : AnswerAndSubmit(r)

Next ==
    \/ \E r \in Request : Submit(r)
    \/ Finish

Safety == Init /\ [][Next]_vars

Spec == Safety /\ WF_vars(Finish)
=============================================================================
