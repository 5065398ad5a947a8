----------------------------- MODULE MCBatchRun ------------------------------
(* BatchRun for TLC.  Three shapes of request: a flat one, one with a batch *)
(* between two actions and an observation in it, and batches three deep.    *)
(* Each batch may have a short, a longer or no deadline and each kind of    *)
(* final observation; the inputs name the frame that is stored when the     *)
(* call comes in.                                                           *)
EXTENDS BatchRun

Leaf(n, op, id) == [op |-> op, last |-> n, ms |-> 0, final |-> "none", id |-> id]
Batch(last, ms, final) ==
  [op |-> "batch", last |-> last, ms |-> ms, final |-> final, id |-> 0]

Delays == 0 .. 2

Flat == {<<Batch(4, d, f), Leaf(2, "input", 1), Leaf(3, "wait", 0),
           Leaf(4, "input", 0)>> : d \in Delays, f \in Finals}

Nested == {<<Batch(6, d, "none"), Leaf(2, "read", 0), Batch(5, e, f),
             Leaf(4, "observe", 0), Leaf(5, "input", 1), Leaf(6, "input", 1)>> :
             d \in Delays, e \in Delays, f \in Finals}

Deep == {<<Batch(6, d, "image"), Batch(5, e, "none"), Batch(4, g, f),
           Leaf(4, "wait", 0), Leaf(5, "read", 0), Leaf(6, "input", 1)>> :
           d \in Delays, e \in Delays, g \in {0, 1}, f \in Finals}

MCPlans == Flat \cup Nested \cup Deep
=============================================================================
