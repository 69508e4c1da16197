---------------------------- MODULE MCEngineStore -----------------------------
(* Small instances of EngineStore for TLC. *)
EXTENDS EngineStore, TLC

MCOnePayload == {[f |-> 1]}

\* The threads of the application are interchangeable.
CallerSymmetry == Permutations(Callers)

=============================================================================
