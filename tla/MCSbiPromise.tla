---------------------------- MODULE MCSbiPromise ----------------------------
(* The calls of the AMF's tasks for the model checker.                     *)
EXTENDS SbiPromise

MCMakes == [c \in Clients |-> CASE c = "TASK_AMF_N1" -> {"smf", "json"}
                                [] c = "TASK_AMF_N2" -> {"n2_sm"}
                                [] c = "HTTP" -> {"http"}]
=============================================================================
