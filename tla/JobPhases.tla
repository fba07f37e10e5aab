------------------------------ MODULE JobPhases ------------------------------
(***************************************************************************)
(* The phases of a job, and what each of them means to the commands.       *)
(***************************************************************************)

BUSY_PHASES == {"starting", "running"}
TERMINAL_DECISION_PHASES == {"accepted", "stopped"}
RECOVER_PHASES == {"failed", "interrupted", "needs_attention", "stopped"}
RESERVING_PHASES ==
  {"starting", "running", "awaiting_review", "failed", "interrupted", "needs_attention"}

Phase == RESERVING_PHASES \cup TERMINAL_DECISION_PHASES
\* A job id whose job.json has not been written.
ABSENT == "absent"
=============================================================================
