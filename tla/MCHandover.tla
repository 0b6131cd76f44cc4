------------------------------ MODULE MCHandover ------------------------------
(* The row of the callbacks for the model checker.                         *)
EXTENDS Handover

\* ngap_message_callback.hpp, entry 13.
CodeRow == <<"handover_request", "handover_request_ack", "handover_failure">>

\* The function that decodes the acknowledgement, where a successful outcome
\* finds it.
DecodingRow == <<"handover_request_ack", "handover_request", "handover_failure">>
=============================================================================
