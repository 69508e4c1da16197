--------------------------- MODULE MCArrivalOrder ----------------------------
(* Small instances of ArrivalOrder for TLC. *)
EXTENDS ArrivalOrder

MCFields == {"f", "g"}
MCPayloads == {[f |-> 1], [f |-> 2], [g |-> 1]}
MCOnePayload == {[f |-> 2]}

\* The record as node 0, the HQ, last wrote it, and its tombstone.
MCBase ==
    [data |-> [f |-> 0], vc |-> Increment(EmptyClock, 0), ts |-> 0,
     by |-> 0, deleted |-> FALSE]
MCBases == {NoRecord, MCBase, [MCBase EXCEPT !.deleted = TRUE]}
MCLiveBase == {MCBase}

=============================================================================
