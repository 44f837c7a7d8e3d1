------------------------------ MODULE MC_Replay ------------------------------
(***************************************************************************)
(* One session, and the history of which events were ever applied: an      *)
(* event that is delivered again must not move a state again.              *)
(***************************************************************************)
EXTENDS StateEngine

VARIABLES
    applied,      \* ids of the events ingested so far
    repeated      \* an event moved a state when it came again

HInit == Init /\ applied = {} /\ repeated = FALSE

HReceive ==
    /\ now <= LastInput
    /\ \E e \in Inputs :
          /\ Deliverable(e) /\ ingest(e)
          /\ applied' = applied \cup {e.event_id}
          /\ repeated' = (repeated \/ /\ e.event_id \in applied
                                      /\ get_state(e.session)' # get_state(e.session))

HNext == HReceive \/ ((expire_ttls \/ Tick) /\ UNCHANGED <<applied, repeated>>)

HSpec == HInit /\ [][HNext]_<<vars, applied, repeated>>

\* An event received more than once moves the state at most once.
DuplicatesAreNoops == ~repeated
=============================================================================
