----------------------------- MODULE Requester -----------------------------
(***************************************************************************)
(* What a node of mstp/bacnet.cpp promises to the bus about its requests,  *)
(* without its timers, polls and stand-ins: it works through rounds of     *)
(* requests in their order, each request is sent or lost but never sent    *)
(* again, and nothing is sent except while the bus grants it.              *)
(*                                                                         *)
(* BacnetMonitor.tla implements it (ImplementsRequester).                  *)
(***************************************************************************)
EXTENDS Sequences

CONSTANTS
  Round,     \* the requests of a round, in order
  Nothing    \* no request

VARIABLES
  granted,   \* the bus has given this node the token and not taken it back
  todo,      \* the requests of the round that are still to be sent
  said       \* the request sent by the last step, or Nothing

reqVars == <<granted, todo, said>>

Init == granted = FALSE /\ todo = << >> /\ said = Nothing

(* The next request is sent, or lost on the way. *)
Ask ==
  /\ todo # << >>
  /\ said' \in {Head(todo), Nothing}
  /\ todo' = Tail(todo)

Quiet == said' = Nothing /\ UNCHANGED todo

(* A grant may be answered with a request at once. *)
Granted == granted' = TRUE /\ (Ask \/ Quiet)

Revoked == granted' = FALSE /\ Quiet

AskOn == granted /\ Ask /\ UNCHANGED granted

NewRound ==
  /\ todo = << >> /\ todo' = Round /\ said' = Nothing
  /\ UNCHANGED granted

Next == Granted \/ Revoked \/ AskOn \/ NewRound \/ (Quiet /\ UNCHANGED granted)

Spec == Init /\ [][Next]_reqVars

=============================================================================
