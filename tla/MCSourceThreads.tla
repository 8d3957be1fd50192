--------------------------- MODULE MCSourceThreads ---------------------------
(* Senders are interchangeable in the thread model. *)
EXTENDS SourceThreads, TLC

Interchangeable == Permutations(Sender)
=============================================================================
