----------------------------- MODULE RemoteReceipt -----------------------------
(***************************************************************************)
(* What the Windows side promises about receipt.json of a request: the     *)
(* order in which its status may change (remote_codex_runner.cjs).  The    *)
(* Mac side asks for the receipt at any moment and relies on this order.   *)
(***************************************************************************)
CONSTANT Request
VARIABLE receipt  \* receipt[r]: the status in receipt.json; "absent": none yet

Outcome == {"cwd_busy", "completed_claimed", "failed", "timed_out", "killed_by_carrier_loss"}
Status == {"absent", "accepted", "starting", "running"} \cup Outcome

\* A timeout may still overtake the failure of a stream: finish writes last.
Order ==
  {<<"absent", "accepted">>, <<"accepted", "starting">>,
   <<"accepted", "cwd_busy">>, <<"accepted", "failed">>, <<"failed", "timed_out">>}
    \cup ({"starting", "running"} \X {"running", "completed_claimed", "failed",
                                     "timed_out", "killed_by_carrier_loss"})

Init == receipt = [r \in Request |-> "absent"]

Next ==
  \E r \in Request, status \in Status :
    /\ <<receipt[r], status>> \in Order
    /\ receipt' = [receipt EXCEPT ![r] = status]

Spec == Init /\ [][Next]_receipt
=============================================================================
