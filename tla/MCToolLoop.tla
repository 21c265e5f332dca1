----------------------------- MODULE MCToolLoop -----------------------------
(* An instance of ToolLoop: three calls that may succeed and one that no     *)
(* tool answers to.                                                          *)
EXTENDS ToolLoop

Call(name) == [tool |-> name, json |-> TRUE, ordered |-> TRUE, days |-> 7, unknown |-> {}]

MCRequests == {Call("compare_shifts"), Call("get_anomaly_details"), Call("get_shift_notes"),
               Call("unlisted")}
=============================================================================
