------------------------ MODULE MCDurableOperations -------------------------
(* Two turns of a model: a write and a read, then a second call of the     *)
(* first tool, with other arguments under the same id.                     *)
EXTENDS DurableOperations

MCBatches == {<<"write", "read">>, <<"again">>}
MCId == [c \in Calls |-> IF c = "read" THEN "read-2" ELSE "write-1"]
MCFingerprint == [c \in Calls |-> c]
MCClass == [c \in Calls |-> IF c = "read" THEN "READ_ONLY" ELSE "IDEMPOTENT_WRITE"]
=============================================================================
