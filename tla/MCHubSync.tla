------------------------------ MODULE MCHubSync ------------------------------
(* Small instances of HubSync for TLC. *)
EXTENDS HubSync

MCOnePayload == {[f |-> 1]}
MCTwoWrites == [e \in Edge |-> 2]
MCTwoAndOne == [e \in Edge |-> IF e = 1 THEN 2 ELSE 1]
MCNormal == [e \in Edge |-> {2}]
MCUrgentToo == [e \in Edge |-> {0, 2}]
MCOneCollection == [k \in Key |-> 1]

=============================================================================
