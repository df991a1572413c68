--------------------------- MODULE MCFileTransfer ---------------------------
(* A file of two chunks, an empty one, and one whose hash is not its own.    *)
EXTENDS FileTransfer, TLC
CONSTANTS f, e, bad
MCSize == f :> 2 @@ e :> 0 @@ bad :> 2
MCFiles == {f, e, bad}
MCTampered == {bad}
MCPrograms == {"chunked", "blob", "cli"}
=============================================================================
