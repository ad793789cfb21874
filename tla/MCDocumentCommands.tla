-------------------------- MODULE MCDocumentCommands --------------------------
(* Small instances of DocumentCommands. *)
EXTENDS DocumentCommands, TLC

CONSTANTS w1, w2, k1, k2

\* The values documents may have.
Overlapping == {{k1}, {k1, k2}}
OneOrNone == {{}, {k1}}

None == {}
Second == {2}

\* Workers are alike.
WorkerSymmetry == Permutations(Workers)

=============================================================================
