-------------------------------- MODULE Alerts --------------------------------
(***************************************************************************)
(* What people are told, and when: the metrics the session publishes, the  *)
(* service level targets judged on them at every tick, and the router of   *)
(* layers/l7_observability/alerts.py, which sends an alert once and then   *)
(* suppresses it while it is open.  resolve has no caller, so what was     *)
(* once opened stays open.  A value is what its target makes of it:        *)
(* within it, beyond it, or never measured.                                *)
(***************************************************************************)
EXTENDS Integers, FiniteSets

CONSTANT
  Target,      \* the targets of SLO_TARGETS watched here, by name
  MaxReports   \* the model's events, ticks and reconciliations

P1 == "P1"
P2 == "P2"
P3 == "P3"

LiveSeverity(t) ==
  IF t \in {"order_ack_latency_p99", "signal_to_order_latency_p99"} THEN P2 ELSE P1
QuietSeverity(t) == IF t = "signal_to_order_latency_p99" THEN P3 ELSE P2
\* those the session sets from each event, its histograms, and its own gauges
OfTheEvent == {"feed_uptime"}
OfLatency == {"order_ack_latency_p99", "signal_to_order_latency_p99", "feed_staleness_p99"}

ASSUME AlertsAssumption ==
  /\ MaxReports \in Nat
  /\ Target \subseteq OfTheEvent \cup OfLatency \cup
                      {"reconciliation_failures", "risk_decision_latency_p99", "clock_drift"}

VARIABLES
  measured,  \* the registry: what each target's metric stands at
  holding,   \* session.has_open_positions
  must,      \* killswitch.must_flatten
  mode,      \* session.state
  open,      \* AlertRouter._open, keys (severity, name)
  notified,  \* AlertRouter.sent: how often each key went out
  judged,    \* history: the last tick's breached targets, at what risk
  reports    \* history: how much happened

alertVars == <<measured, holding, must, mode, open, notified, judged, reports>>

\* raise_alert: once while it is open
RaisedByName(alerts, keys) == alerts \cup {k \in keys : \A a \in alerts : a[2] # k[2]}
Raised(alerts, keys) == alerts \cup keys
Sent(keys) == [k \in DOMAIN notified |->
                 IF k \in Raised(open, keys) \ open THEN notified[k] + 1 ELSE notified[k]]

Breached(values) == {t \in Target : values[t] = "beyond"}
Severity(t, at_risk) == IF at_risk THEN LiveSeverity(t) ELSE QuietSeverity(t)
Flatten == <<P1, "flatten">>

\* slo.raise_all, and the flatten a tick may end in
Judge(values, risk, flattens) ==
  LET beyond == Breached(values)
      keys == {<<Severity(t, risk), t>> : t \in beyond} \cup (IF flattens THEN {Flatten} ELSE {})
  IN
  /\ open' = Raised(open, keys) /\ notified' = Sent(keys)
  /\ judged' = [beyond |-> beyond, risk |-> risk]
  /\ mode' = IF flattens THEN "HALTED" ELSE mode

\* reconcile, as the gauge sees it: a cycle that fails sets nothing, however
\* often it fails
Cycle(result) ==
  measured' = IF "reconciliation_failures" \notin Target THEN measured ELSE
    CASE result = "clean"   -> [measured EXCEPT !["reconciliation_failures"] = "within"]
      [] result = "halting" -> [measured EXCEPT !["reconciliation_failures"] = "beyond"]
      [] result \in {"failed", "not due"} -> measured

Occurs == reports < MaxReports /\ reports' = reports + 1

\* tick, which the runner's timer calls whatever the state
TimedTick(result) ==
  /\ Occurs
  /\ Cycle(result)
  /\ Judge(measured', holding, must /\ mode = "RUNNING")
  /\ UNCHANGED <<holding, must>>

\* on_event: the metrics of the event, then the periodic work
Event(stale, slow) ==
  /\ mode = "RUNNING" /\ slow \subseteq OfLatency \cap Target /\ Occurs
  /\ measured' = [t \in Target |->
       CASE t \in OfTheEvent -> IF stale THEN "beyond" ELSE "within"
         [] t \in OfLatency  -> IF t \in slow THEN "beyond" ELSE "within"
         [] OTHER            -> measured[t]]
  /\ Judge(measured', holding, must)
  /\ UNCHANGED <<holding, must>>

\* a drawdown, a lost heartbeat or a loss limit demands that the book be flattened
Demand == must' = TRUE /\ UNCHANGED <<measured, holding, mode, open, notified, judged, reports>>

\* a person releases what demanded it; the session stays halted
Release ==
  must /\ must' = FALSE /\ UNCHANGED <<measured, holding, mode, open, notified, judged, reports>>

\* manual_kill, again and again if an operator likes
ManuallyKilled ==
  /\ Occurs
  /\ open' = Raised(open, {Flatten}) /\ notified' = Sent({Flatten})
  /\ mode' = "HALTED" /\ must' = TRUE
  /\ UNCHANGED <<measured, holding, judged>>

\* a fill opens or closes the only position
Books ==
  holding' = ~holding /\ UNCHANGED <<measured, must, mode, open, notified, judged, reports>>

\* _register_metrics makes every gauge at zero before an event has come, and
\* zero is less than the uptime wanted
AlertsInit ==
  /\ measured = [t \in Target |->
       CASE t = "feed_uptime" -> "beyond"
         [] t = "risk_decision_latency_p99" -> "unmeasured"
         [] OTHER -> "within"]
  /\ holding \in BOOLEAN /\ must = FALSE /\ mode = "RUNNING"
  /\ open = {} /\ judged = [beyond |-> {}, risk |-> FALSE] /\ reports = 0
  /\ notified = [k \in {P1, P2, P3} \X (Target \cup {"flatten"}) |-> 0]

AlertsNext ==
  \/ \E result \in {"clean", "halting", "failed", "not due"} : TimedTick(result)
  \/ \E stale \in BOOLEAN, slow \in SUBSET OfLatency : Event(stale, slow)
  \/ Demand
  \/ Release
  \/ ManuallyKilled
  \/ Books

AlertsSpec == AlertsInit /\ [][AlertsNext]_alertVars

-----------------------------------------------------------------------------
\* Whatever went out before, and however mild it was then, a target that is
\* breached while a position is held has its own severity open: what was told
\* while flat does not silence the page.  Nothing is sent
\* twice while it is open, and every flatten has paged.
PagedWhileAtRisk ==
  /\ judged.risk => \A t \in judged.beyond : <<LiveSeverity(t), t>> \in open
  /\ ~judged.risk => \A t \in judged.beyond : <<QuietSeverity(t), t>> \in open
  /\ \A k \in DOMAIN notified : notified[k] = IF k \in open THEN 1 ELSE 0
  /\ mode = "HALTED" => Flatten \in open
=============================================================================
