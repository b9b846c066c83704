----------------------------- MODULE ChartTrialMC -----------------------------
(* Two watchdogs and one shell; what goes another way than arm, enable,         *)
(* activate and roll back goes so one at a time.                                *)
EXTENDS ChartTrial, FiniteSets

Seen(happened, what) == IF happened THEN {what} ELSE {}

Asides ==
  Seen("abort" \in files, "abort") \cup Seen("done fail" \in files, "done")
    \cup Seen(log # <<>> \/ "sent" \in files, "message")
    \cup Seen(hand, "hand edit")
    \cup Seen(script[Agent] # NoScript, "agent")
    \cup Seen(\E o \in Operator : shell[o].cmd = "install", "install")
    \cup Seen(claim = "failed", "failed claim")
    \cup Seen(Fired /\ claim = "none", "tampering")
    \cup Seen(\A w \in Watchdog : dog[w].pc # "none", "second watchdog")

OneAside ==
  /\ Cardinality(Asides) <= 1
  /\ Cardinality({s \in Watchdog \cup {Agent} : Running(s)}) <= 1
=============================================================================
