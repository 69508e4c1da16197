--------------------------- MODULE MCFileExchange -----------------------------
(* A small instance of FileExchange for TLC. *)
EXTENDS FileExchange

CONSTANTS e, f, o1, o2

\* An operation of each edge.
MCOwner == (o1 :> e) @@ (o2 :> f)

=============================================================================
