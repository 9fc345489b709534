--------------------------- MODULE MCEventControl ---------------------------
(* Triggers for TLC. *)
EXTENDS EventControl

CONSTANTS t1, t2, r1, r2

Of(type, forbid, targets) == [type |-> type, suspended |-> FALSE, forbid |-> forbid, targets |-> targets]

MCTriggers ==
  {Of("cron", FALSE, <<t1, t2>>), Of("cron", TRUE, <<t1>>), Of("team-output", FALSE, <<t1>>),
   Of("webhook", TRUE, <<t1>>), [Of("webhook", FALSE, <<t1>>) EXCEPT !.suspended = TRUE]}

MCModes(r) == IF r = r1 THEN {"sync", "sse"} ELSE {"async", "sse"}
MCMaxEdits(t) == IF t.type = "cron" THEN 1 ELSE 0
MCLastTick(t) == IF t.type = "cron" THEN 5 ELSE IF t.type = "webhook" THEN 3 ELSE 4
=============================================================================
