----------------------------- MODULE MCRuntime ------------------------------
(* Runtime on a small instance.                                            *)
EXTENDS Runtime

(* Keys the operator edits: what send reads of one channel.                *)
MCEdits == {"telegram"} \X {"enabled", "capabilities"}
=============================================================================
