------------------------------ MODULE Approvals ------------------------------
(***************************************************************************)
(* How risk limits come into force: the approvals of a document            *)
(* (layers/l5_risk/approval.py) and the register that is built from it     *)
(* (limits.py).  A document is its limits, so its digest is the document   *)
(* itself and an edit is another document.  config.load_limits builds a    *)
(* register with no chain at all.                                          *)
(***************************************************************************)
EXTENDS Integers, FiniteSets, FiniteSetsExt, Functions

CONSTANTS
  Approver,     \* people, registered or not
  Document,     \* documents: functions from limits to values
  Bounds,       \* what each document declares for a limit: limit -> values
  Wait,         \* ApprovalChain.delay_seconds, in days
  LastDay,      \* the model's time
  MaxSigned     \* and how often anybody signs in it

ASSUME ApprovalsAssumption ==
  /\ IsFiniteSet(Approver) /\ {Wait, LastDay, MaxSigned} \subseteq Nat
  /\ \A limit \in DOMAIN Bounds : Bounds[limit] \subseteq Int

Rungs == {"drawdown_amber", "drawdown_soft", "drawdown_hard", "daily_loss", "weekly_loss"}

VARIABLES
  rule,       \* ApprovalChain.mode
  registered, \* those with a secret
  approvals,  \* ApprovalChain._approvals: who, what, when; kept in order of time
  inForce,    \* LimitRegister in use, if any: its document, and was a chain asked?
  attempts,   \* history: how many approvals there were of each document and person
  day         \* the clock

approvalVars == <<rule, registered, approvals, inForce, attempts, day>>

-----------------------------------------------------------------------------
(* ApprovalChain.                                                          *)

ApprovalsFor(doc) == {a \in approvals : a.doc = doc /\ a.who \in registered}
DistinctSigners(doc) == {a.who : a \in ApprovalsFor(doc)}
\* as many approvals as there were, whoever gave them
SignaturesOf(doc) == MapThenSumSet(LAMBDA who : attempts[<<who, doc>>], registered)
Earliest(doc) == Min({a.at : a \in ApprovalsFor(doc)})

CheckedByCount(doc) ==
  /\ ApprovalsFor(doc) # {}
  /\ rule = "two_person" => SignaturesOf(doc) >= 2
  /\ rule = "delayed_single_person" => day - Earliest(doc) >= Wait
Checked(doc) ==
  /\ ApprovalsFor(doc) # {}
  /\ rule = "two_person" => Cardinality(DistinctSigners(doc)) >= 2
  /\ rule = "delayed_single_person" => day - Earliest(doc) >= Wait

\* approve: an approver is named in advance, or the approval is refused
SignDocument(who, doc) ==
  /\ who \in registered
  /\ MapThenSumSet(LAMBDA k : attempts[k], DOMAIN attempts) < MaxSigned
  /\ approvals' = approvals \cup {[who |-> who, doc |-> doc, at |-> day]}
  /\ attempts' = [attempts EXCEPT ![<<who, doc>>] = @ + 1]
  /\ UNCHANGED <<rule, registered, inForce, day>>

-----------------------------------------------------------------------------
(* LimitRegister.                                                          *)

Ordered(doc) ==
  /\ doc["drawdown_amber"] < doc["drawdown_soft"] /\ doc["drawdown_soft"] < doc["drawdown_hard"]
  /\ doc["daily_loss"] < doc["drawdown_hard"] /\ doc["daily_loss"] < doc["weekly_loss"]

\* _build: every limit within the bounds declared for it, and the ladder whole
Builds(doc) ==
  /\ DOMAIN doc # {}
  /\ \A limit \in DOMAIN doc : limit \in DOMAIN Bounds /\ doc[limit] \in Bounds[limit]
  /\ Rungs \subseteq DOMAIN doc /\ Ordered(doc)

\* from_mapping asks the chain before it reads a value; what does not load
\* leaves the register that was in force
FromMapping(doc) ==
  /\ Checked(doc) /\ Builds(doc)
  /\ inForce' = {[doc |-> doc, chained |-> TRUE]}
  /\ UNCHANGED <<rule, registered, approvals, attempts, day>>

\* load_limits, which every entry point of the program uses
LoadLimits(doc) ==
  /\ Builds(doc)
  /\ inForce' = {[doc |-> doc, chained |-> FALSE]}
  /\ UNCHANGED <<rule, registered, approvals, attempts, day>>

\* a process that starts again has no approvals, and whoever is named then
ChainAgain(names) ==
  /\ registered' = names /\ approvals' = {}
  /\ attempts' = [k \in Approver \X Document |-> 0]
  /\ inForce' = {}
  /\ UNCHANGED <<rule, day>>

NextDay == day < LastDay /\ day' = day + 1 /\ UNCHANGED <<rule, registered, approvals, inForce, attempts>>

ApprovalsInit ==
  /\ rule \in {"two_person", "delayed_single_person"}
  /\ registered \in SUBSET Approver
  /\ approvals = {} /\ inForce = {} /\ day = 0
  /\ attempts = [k \in Approver \X Document |-> 0]

ApprovalsNext ==
  \/ \E who \in Approver, doc \in Document : SignDocument(who, doc)
  \/ \E doc \in Document : FromMapping(doc)
  \/ \E doc \in Document : LoadLimits(doc)
  \/ \E names \in SUBSET Approver : ChainAgain(names)
  \/ NextDay

ApprovalsSpec == ApprovalsInit /\ [][ApprovalsNext]_approvalVars

-----------------------------------------------------------------------------
\* Limits a chain let through carry two people's approval of exactly these
\* limits, or stood approved for the delay; one person who signs twice is one
\* person, and an approval of other limits is none.  Whatever is in force, the
\* daily limit acts before the hard stop, and the ladder is in order.
LoadedByApproval ==
  \A register \in inForce :
    /\ register.doc["daily_loss"] < register.doc["drawdown_hard"]
    /\ register.doc["drawdown_amber"] < register.doc["drawdown_hard"]
    /\ register.chained /\ rule = "two_person" =>
         \E a, b \in approvals : a.who # b.who /\ a.doc = register.doc /\ b.doc = register.doc
    /\ register.chained /\ rule = "delayed_single_person" =>
         \E a \in approvals : a.doc = register.doc /\ day - a.at >= Wait
=============================================================================
