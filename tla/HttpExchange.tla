---------------------------- MODULE HttpExchange ----------------------------
(***************************************************************************)
(* What the HTTP client promises for one call of Send or SendAsync, with   *)
(* no thread, queue, handle or timer in sight: a call is refused or        *)
(* accepted, an accepted call is tried a bounded number of times and       *)
(* answered once, and nothing is tried again once it has been answered.    *)
(***************************************************************************)
EXTENDS Naturals

CONSTANTS Calls, \* the calls of Send and SendAsync
          Limit  \* how often each of them may be put on the wire

VARIABLES status, \* where each call stands
          tries   \* how often it has been put on the wire

exchangeVars == <<status, tries>>

ExchangeInit == /\ status = [c \in Calls |-> "idle"]
                /\ tries  = [c \in Calls |-> 0]

Accept(c) == /\ status[c] = "idle"
             /\ status' = [status EXCEPT ![c] = "pending"]
             /\ UNCHANGED tries

Refuse(c) == /\ status[c] = "idle"
             /\ status' = [status EXCEPT ![c] = "refused"]
             /\ UNCHANGED tries

Try(c) == /\ status[c] = "pending"
          /\ tries[c] < Limit[c]
          /\ tries' = [tries EXCEPT ![c] = @ + 1]
          /\ UNCHANGED status

Answer(c) == /\ status[c] = "pending"
             /\ status' = [status EXCEPT ![c] = "answered"]
             /\ UNCHANGED tries

ExchangeNext == \E c \in Calls : Accept(c) \/ Refuse(c) \/ Try(c) \/ Answer(c)

ExchangeSpec == ExchangeInit /\ [][ExchangeNext]_exchangeVars

\* Every accepted call is answered in the end.
EveryCallAnswered ==
  \A c \in Calls : (status[c] = "pending") ~> (status[c] = "answered")
============================================================================
