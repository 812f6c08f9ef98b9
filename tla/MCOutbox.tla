------------------------------ MODULE MCOutbox ------------------------------
(* Small instances of Outbox for TLC: two messages, a lead alert sent as a *)
(* template and a text that needs the service window, and two workers.     *)
EXTENDS Outbox, TLC

CONSTANTS alert, text

MCJobs == {alert, text}
MCAlerts == {alert}
MCTexts == {text}
WorkerSymmetry == Permutations(Workers)
=============================================================================
