--------------------------- MODULE MCEngineThreads ----------------------------
(* A small instance of EngineThreads for TLC. *)
EXTENDS EngineThreads

CONSTANTS a, b

\* One thread asks and synchronises, the other writes and stops; both start.
MCCalls ==
    [c \in {a, b} |-> IF c = a THEN {"status", "sync", "start"}
                               ELSE {"write", "start", "stop"}]

\* An HTTP link and a serial one, named as in the code.
MCLinks == {"http", "serial"}
MCOneShot == {"http"}

=============================================================================
