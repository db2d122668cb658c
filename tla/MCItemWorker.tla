----------------------------- MODULE MCItemWorker -----------------------------
(* Model-checking instances of ItemWorker. *)
EXTENDS ItemWorker, TLC

AnyReading == Faults \cup {"read"}

(* Invocations are interchangeable; used only where no liveness is checked. *)
WorkerSymmetry == Permutations(Workers)
=============================================================================
