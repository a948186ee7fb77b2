--------------------------- MODULE C2HubDelivery ---------------------------
(***************************************************************************)
(* C2Hub observed from both ends: which payloads a session's channel has     *)
(* accepted and which the agent has read, as sequences.  The two histories    *)
(* only watch the hub's actions; they never enable or disable one.            *)
(***************************************************************************)
EXTENDS C2Hub

VARIABLES
  accepted,  \* payloads whose channel send succeeded, per session
  received   \* payloads the agent has read, per session

dvars == <<hubVars, accepted, received>>

DeliveryInit ==
  /\ HubInit
  /\ accepted = [s \in Session |-> <<>>]
  /\ received = [s \in Session |-> <<>>]

\* Bound: each payload is accepted at most once, so that the histories stay finite.
Fresh(m) ==
  /\ \A s \in Session : \A i \in DOMAIN accepted[s] : accepted[s][i] # m
  /\ \A d \in Dispatcher : dmsg[d] # m

DeliveryNext ==
  \/ \E s \in Session :
       \/ /\ WriteOk(s)
          /\ received' = IF link[s] THEN [received EXCEPT ![s] = Append(@, Head(send[s]))]
                         ELSE received
          /\ UNCHANGED accepted
       \/ /\ \/ Register(s) \/ StartPumps(s) \/ ReadEnd(s) \/ Unregister(s)
             \/ LinkDown(s) \/ WriteError(s)
          /\ UNCHANGED <<accepted, received>>
  \/ \E d \in Dispatcher :
       \/ /\ DispatchEnqueue(d)
          /\ accepted' = [accepted EXCEPT ![dsess[d]] = Append(@, dmsg[d])]
          /\ UNCHANGED received
       \/ /\ \/ \E c \in Serial, m \in Msg : Fresh(m) /\ DispatchLookup(d, c, m)
             \/ DispatchTimeout(d) \/ DispatchPanic(d) \/ DispatchReturn(d)
          /\ UNCHANGED <<accepted, received>>

DeliverySpec == DeliveryInit /\ [][DeliveryNext]_dvars /\ HubFairness

\* Payloads reach the agent in the order in which the hub accepted them, none of them twice
\* and none from another session; and while both ends of the socket are up, every accepted
\* payload has been read by the agent or is still in the channel (writePump loses nothing).
DeliveredInOrder ==
  \A s \in Session :
    /\ Len(received[s]) <= Len(accepted[s])
    /\ \A i \in 1 .. Len(received[s]) : received[s][i] = accepted[s][i]
    /\ link[s] /\ conn[s] = "open" => accepted[s] = received[s] \o send[s]
=============================================================================
