--------------------------------- MODULE Desk ---------------------------------
(***************************************************************************)
(* The parts of the system that share no state, in one model: each behaviour *)
(* is one part's, from its Init through its Next, while the others rest.     *)
(* Parts that do share state are composed where they meet: the executor, the *)
(* venue and the books in Pipeline, the risk service and the switch in       *)
(* RiskService, all of them in Session.                                      *)
(***************************************************************************)
EXTENDS Execution, Recovery, VenueErrors, Matching, UserStream,
        Books, Portfolio, Strategies, Approvals,
        MarketData, Capture, AuditLog, Alerts, Research

VARIABLE part \* whose behaviour this is

orders  == <<vars, killVars, venueVars, matchingVars, streamVars>>
money   == <<booksVars, portfolioVars, strategyVars, approvalVars>>
records == <<marketVars, captureVars, auditVars, alertVars, researchVars>>
deskVars == <<part, orders, money, records>>

\* the parts that may start in several ways start in one while they rest
AtRest ==
  /\ part # "venue errors" => adapter = CHOOSE a \in Adapter : TRUE
  /\ part # "matching"     => delay = CHOOSE d \in OrderDelays : TRUE
  /\ part # "strategies"   => kind = "trend"
  /\ part # "approvals"    => rule = "two_person" /\ registered = {}
  /\ part # "alerts"       => ~holding

DeskInit ==
  /\ part \in {"execution", "recovery", "venue errors", "matching", "user stream",
               "books", "portfolio", "strategies", "approvals",
               "market data", "capture", "audit", "alerts", "research"}
  /\ Init /\ KillInit /\ VenueErrorsInit /\ MatchingInit /\ StreamInit
  /\ BooksInit /\ PortfolioInit /\ StrategiesInit /\ ApprovalsInit
  /\ MarketInit /\ CaptureInit /\ AuditInit /\ AlertsInit /\ ResearchInit
  /\ AtRest

DeskNext ==
  \/ /\ part = "execution" /\ Next
     /\ UNCHANGED <<part, killVars, venueVars, matchingVars, streamVars, money, records>>
  \/ /\ part = "recovery" /\ KillNext
     /\ UNCHANGED <<part, vars, venueVars, matchingVars, streamVars, money, records>>
  \/ /\ part = "venue errors" /\ VenueErrorsNext
     /\ UNCHANGED <<part, vars, killVars, matchingVars, streamVars, money, records>>
  \/ /\ part = "matching" /\ MatchingNext
     /\ UNCHANGED <<part, vars, killVars, venueVars, streamVars, money, records>>
  \/ /\ part = "user stream" /\ StreamNext
     /\ UNCHANGED <<part, vars, killVars, venueVars, matchingVars, money, records>>
  \/ /\ part = "books" /\ BooksNext
     /\ UNCHANGED <<part, portfolioVars, strategyVars, approvalVars, orders, records>>
  \/ /\ part = "portfolio" /\ PortfolioNext
     /\ UNCHANGED <<part, booksVars, strategyVars, approvalVars, orders, records>>
  \/ /\ part = "strategies" /\ StrategiesNext
     /\ UNCHANGED <<part, booksVars, portfolioVars, approvalVars, orders, records>>
  \/ /\ part = "approvals" /\ ApprovalsNext
     /\ UNCHANGED <<part, booksVars, portfolioVars, strategyVars, orders, records>>
  \/ /\ part = "market data" /\ MarketNext
     /\ UNCHANGED <<part, captureVars, auditVars, alertVars, researchVars, orders, money>>
  \/ /\ part = "capture" /\ CaptureNext
     /\ UNCHANGED <<part, marketVars, auditVars, alertVars, researchVars, orders, money>>
  \/ /\ part = "audit" /\ AuditNext
     /\ UNCHANGED <<part, marketVars, captureVars, alertVars, researchVars, orders, money>>
  \/ /\ part = "alerts" /\ AlertsNext
     /\ UNCHANGED <<part, marketVars, captureVars, auditVars, researchVars, orders, money>>
  \/ /\ part = "research" /\ ResearchNext
     /\ UNCHANGED <<part, marketVars, captureVars, auditVars, alertVars, orders, money>>

DeskSpec == DeskInit /\ [][DeskNext]_deskVars

-----------------------------------------------------------------------------
(* Values for the model checker that a configuration cannot write.         *)

Traders2 == <<"a", "b">>
Ladder(amber, soft, hard, daily, weekly) ==
  [drawdown_amber |-> amber, drawdown_soft |-> soft, drawdown_hard |-> hard,
   daily_loss |-> daily, weekly_loss |-> weekly]
\* a ladder in order, one whose rungs collide, and one out of its bounds
Ladders == {Ladder(1, 2, 3, 1, 2), Ladder(1, 2, 2, 1, 2), Ladder(1, 2, 9, 1, 2)}
LadderBounds == [limit \in Rungs |-> 0..5]
=============================================================================
