---------------------------- MODULE MCSyncSessions ----------------------------
(* Small instances of SyncSessions for TLC. *)
EXTENDS SyncSessions

CONSTANTS o1, o2

\* One urgent operation, and one that is urgent or not.
MCUrgentAndAny == [o \in {o1, o2} |-> IF o = o1 THEN {0} ELSE {0, 2}]
MCNormal == [o \in {o1, o2} |-> {2}]

=============================================================================
