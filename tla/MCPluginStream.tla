--------------------------- MODULE MCPluginStream ---------------------------
(* Small instances of PluginStream for TLC. *)
EXTENDS PluginStream, TLC

\* The connections are interchangeable.
ConnSymmetry == Permutations(Conns)

=============================================================================
