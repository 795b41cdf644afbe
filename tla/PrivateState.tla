------------------------------- MODULE PrivateState -------------------------------
(***************************************************************************)
(* What the carries, the residency flag and the packed block promise       *)
(* together: every decoding request has a recurrent state of its own.  It  *)
(* starts at the request's prefilled prompt, only ever moves forward, by   *)
(* the rows one verify accepted, and no step for one request is seen by    *)
(* another.  Only a failure of the whole engine loses states.              *)
(***************************************************************************)
EXTENDS Integers

CONSTANTS Slots, Request, NoRequest, MaxRows

VARIABLES
    state,  \* the state of the request decoding on each slot
    lost    \* the engine failed

Nothing == [req |-> NoRequest, rows |-> 0]

Init == state = [s \in Slots |-> Nothing] /\ lost = FALSE

\* A prefilled request that decodes nowhere else takes a free slot.
Start(s) ==
    /\ ~lost /\ state[s] = Nothing
    /\ \E r \in Request :
         /\ \A t \in Slots : state[t].req # r
         /\ state' = [state EXCEPT ![s] = [req |-> r, rows |-> 0]]
    /\ UNCHANGED lost

\* The accepted rows of one verify.
Extend(s) ==
    /\ ~lost /\ state[s] # Nothing
    /\ \E n \in 1..MaxRows : state' = [state EXCEPT ![s].rows = @ + n]
    /\ UNCHANGED lost

Stop(s) == state' = [state EXCEPT ![s] = Nothing] /\ UNCHANGED lost
StopAll == state' = [s \in Slots |-> Nothing] /\ UNCHANGED lost
Lose == state' = [s \in Slots |-> Nothing] /\ lost' = TRUE

Next == StopAll \/ Lose \/ \E s \in Slots : Start(s) \/ Extend(s) \/ Stop(s)

Spec == Init /\ [][Next]_<<state, lost>>
===================================================================================
