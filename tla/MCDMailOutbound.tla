--------------------------- MODULE MCDMailOutbound ---------------------------
EXTENDS DMailOutbound
CONSTANTS alarm, report, w1, w2
Alarm  == [kind |-> "convergence", high |-> TRUE, threaded |-> TRUE, target |-> "amadeus"]
Report == [kind |-> "report", high |-> FALSE, threaded |-> TRUE, target |-> "amadeus"]
AlarmAndReport == [f \in Files |-> IF f = alarm THEN Alarm ELSE Report]
(* A report on work nobody asked for from Slack. *)
AlarmAndStray == [AlarmAndReport EXCEPT ![report].threaded = FALSE]
=============================================================================
