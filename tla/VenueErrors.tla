----------------------------- MODULE VenueErrors -----------------------------
(***************************************************************************)
(* What an order's fate at a venue looks like through its adapter: the     *)
(* transport, the two tables of error codes (adapters/binance.py and       *)
(* bybit.py) and the words for an order's status, and what the executor    *)
(* makes of the class of error it is handed.  A request may be lost before *)
(* or after the venue acted, and the venue may answer that it failed when  *)
(* it did not.  In a shadow run every order is recorded and none is sent.  *)
(***************************************************************************)
EXTENDS Integers, FiniteSets

CONSTANTS
  Adapter,   \* of "binance", "bybit" and "shadow", those in the model
  MaxCalls   \* how many requests the model makes

ASSUME VenueErrorsAssumption ==
  Adapter \subseteq {"binance", "bybit", "shadow"} /\ MaxCalls \in Nat

VARIABLES
  adapter,  \* where the order goes
  truth,    \* what it is at the venue
  believed, \* the machine's status, or "NONE"
  raised,   \* the error that reached executor.cancel's caller, or "none"
  calls     \* history: how many requests there were

venueVars == <<adapter, truth, believed, raised, calls>>

Living == {"working", "part filled"}
Finished == {"filled", "cancelled"}
BeliefOver == {"FILLED", "CANCELLED", "REJECTED"}

-----------------------------------------------------------------------------
(* map_error.  A code that is in no table is a VenueError and no more.     *)

BinanceClass(code) ==
  CASE code \in {-1003, -1015}        -> "RateLimited"
    [] code = -1007                   -> "UnknownState"
    [] code = -1013                   -> "FilterViolation"
    [] code \in {-1022, -2014, -2015} -> "AuthFailed"
    [] code = -2010                   -> "InsufficientBalance"
    [] code = -2011                   -> "CancelRejected"
    [] code = -2013                   -> "OrderNotFound"
    [] OTHER                          -> "VenueError"

BybitClass(code) ==
  CASE code = 10006                                  -> "RateLimited"
    [] code = 10016                                  -> "VenueDown"
    [] code = 10018                                  -> "IpBanned"
    [] code \in {10003, 10004, 10005}                -> "AuthFailed"
    [] code \in {10001, 110017, 110045, 170140}      -> "FilterViolation"
    [] code \in {110004, 110007, 110012, 170131}     -> "InsufficientBalance"
    [] code = 110001                                 -> "OrderNotFound"
    [] code = 110025                                 -> "CancelRejected"
    [] OTHER                                         -> "VenueError"

Banned(venue) == IF venue = "binance" THEN 418 ELSE 403
ErrorOf(venue, status, code) ==
  CASE status = Banned(venue) -> "IpBanned"
    [] status = 429           -> "RateLimited"
    [] status >= 500          -> "VenueDown"
    [] OTHER -> IF venue = "binance" THEN BinanceClass(code) ELSE BybitClass(code)

\* an answer: lost on the way, or a status and a code; 0 is no code
Lost == [status |-> 0, code |-> 0]
Reply(status, code) == [status |-> status, code |-> code]
\* _call: Binance's status tells, Bybit's body may say more; a body without a
\* code is taken for success
BinanceSucceeds(a) == a.status = 200
BybitSucceeds(a) == a.status = 200 /\ a.code = 0
Succeeds(venue, a) == IF venue = "binance" THEN BinanceSucceeds(a) ELSE BybitSucceeds(a)
\* UrllibTransport: a lost request may have changed the account, unless it reads
Outcome(venue, method, a) ==
  CASE a = Lost -> IF method = "GET" THEN "VenueDown" ELSE "UnknownState"
    [] a # Lost /\ Succeeds(venue, a) -> "done"
    [] OTHER -> ErrorOf(venue, a.status, a.code)

\* what a venue says that acted, and what one says that did not
Codes(venue) ==
  IF venue = "binance" THEN {-1003, -1013, -1021, -1022, -2010, -2015}
                       ELSE {10001, 10002, 10003, 10006, 10018, 110007, 110017}
Coded(venue, codes) == {Reply(IF venue = "binance" THEN 400 ELSE 200, c) : c \in codes}
Unsure(venue) == {Lost, Reply(503, 0)} \cup
                 Coded(venue, IF venue = "binance" THEN {-1006, -1007} ELSE {10016, 10000})
Acted(venue) == Unsure(venue) \cup {Reply(200, 0)}
NotActed(venue) ==
  Unsure(venue) \cup {Reply(429, 0), Reply(Banned(venue), 0)} \cup Coded(venue, Codes(venue))

Calls == calls < MaxCalls /\ calls' = calls + 1

-----------------------------------------------------------------------------
(* The executor over an adapter.                                           *)

\* submit's except clauses: what is not classified is unknown, not failed
LandsFailed(outcome) ==
  CASE outcome = "done" -> "ACKED" [] outcome = "UnknownState" -> "QUERY" [] OTHER -> "REJECTED"
Lands(outcome) ==
  CASE outcome = "done" -> "ACKED"
    [] outcome \in {"FilterViolation", "InsufficientBalance", "OrderNotFound", "RateLimited"} ->
         "REJECTED"
    [] OTHER -> "QUERY"

\* submit, by way of place: the order arrives or it does not
PlaceCall(acts, a) ==
  /\ believed = "NONE" /\ adapter # "shadow" /\ Calls
  /\ a \in IF acts THEN Acted(adapter) ELSE NotActed(adapter)
  /\ truth' = IF acts THEN "working" ELSE "absent"
  /\ believed' = Lands(Outcome(adapter, "POST", a))
  /\ UNCHANGED <<adapter, raised>>

\* ShadowVenue.place records, and the venue never hears of it
PlaceShadow ==
  /\ believed = "NONE" /\ adapter = "shadow" /\ Calls
  /\ believed' = "ACKED" /\ UNCHANGED <<adapter, truth, raised>>

\* _to_order_state: a word that is not in _STATUS_MAP is an unknown status
Word(known) ==
  CASE ~known                  -> "QUERY"
    [] known /\ truth = "working"     -> "ACKED"
    [] known /\ truth = "part filled" -> "PARTIAL"
    [] known /\ truth = "filled"      -> "FILLED"
    [] OTHER                   -> "CANCELLED"

\* query_order; Bybit's list forgets what has been over for a while
Found(known, forgets) ==
  IF truth = "absent" \/ (forgets /\ adapter = "bybit" /\ truth \in Finished)
    THEN "REJECTED" ELSE Word(known)

\* resolve_unknown: found, not found, or still unknown
QueryCall(a, known, forgets) ==
  /\ believed = "QUERY" /\ adapter # "shadow" /\ Calls
  /\ a \in {Lost, Reply(200, 0), Reply(429, 0), Reply(503, 0)}
  /\ known \/ truth \in Finished
  /\ believed' = IF Outcome(adapter, "GET", a) = "done" THEN Found(known, forgets) ELSE "QUERY"
  /\ UNCHANGED <<adapter, truth, raised>>

\* cancel: the machine closes on an acknowledgement alone.  Refused, it is
\* asked about at once; not found, the machine is told so, which only an order
\* in doubt can be; anything else is the caller's
Asked == {"QUERY"} \cup {Found(known, forgets) : known \in {k \in BOOLEAN : k \/ truth \notin Living},
                                                forgets \in BOOLEAN}
Cancelled(outcome) ==
  CASE outcome = "done"           -> {"CANCELLED"}
    [] outcome = "CancelRejected" -> Asked
    [] outcome = "OrderNotFound" /\ believed = "QUERY" -> {"REJECTED"}
    [] OTHER                      -> {believed}
Escapes(outcome) ==
  CASE outcome \in {"done", "CancelRejected"} -> "none"
    [] outcome = "OrderNotFound" -> IF believed = "QUERY" THEN "none" ELSE "IllegalTransition"
    [] OTHER -> outcome

CancelCall(acts, a) ==
  /\ believed \in {"ACKED", "PARTIAL", "QUERY"} /\ adapter # "shadow" /\ Calls
  /\ acts => truth \in Living /\ a \in Acted(adapter)
  /\ ~acts /\ truth \in Living => a \in NotActed(adapter)
  /\ truth \notin Living =>
       a \in Coded(adapter, {IF adapter = "binance" THEN -2011 ELSE 110001}) \cup {Lost}
  /\ truth' = IF acts THEN "cancelled" ELSE truth
  /\ LET outcome == Outcome(adapter, IF adapter = "binance" THEN "DELETE" ELSE "POST", a) IN
     believed' \in Cancelled(outcome) /\ raised' = Escapes(outcome)
  /\ UNCHANGED adapter

\* ShadowVenue.cancel marks the record
CancelShadow ==
  /\ believed = "ACKED" /\ adapter = "shadow" /\ Calls
  /\ believed' = "CANCELLED" /\ UNCHANGED <<adapter, truth, raised>>

\* the market, at the venue: the machine hears of it by the stream, or asks
Executed ==
  /\ truth \in Living
  /\ truth' \in {"part filled", "filled", "cancelled"}
  /\ UNCHANGED <<adapter, believed, raised, calls>>

VenueErrorsInit ==
  /\ adapter \in Adapter /\ truth = "absent" /\ believed = "NONE"
  /\ raised = "none" /\ calls = 0

VenueErrorsNext ==
  \/ \E acts \in BOOLEAN : \E a \in Acted(adapter) \cup NotActed(adapter) : PlaceCall(acts, a)
  \/ PlaceShadow
  \/ \E a \in NotActed(adapter) \cup {Reply(200, 0)}, known, forgets \in BOOLEAN :
       QueryCall(a, known, forgets)
  \/ \E acts \in BOOLEAN :
       \E a \in Acted(adapter) \cup NotActed(adapter) \cup Coded(adapter, {-2011, 110001}) :
         CancelCall(acts, a)
  \/ CancelShadow
  \/ Executed

VenueErrorsSpec == VenueErrorsInit /\ [][VenueErrorsNext]_venueVars

-----------------------------------------------------------------------------
\* An order that works at the venue is never taken for over: through lost
\* requests, servers that fail after they acted, codes in no table and words
\* in no table, over any sequence of placing, asking and cancelling.  What a
\* machine takes for filled is over at the venue, and a shadow order exists nowhere.
NeverWrittenOffAlive ==
  /\ truth \in Living => believed \notin BeliefOver
  /\ believed = "FILLED" => truth = "filled"
  /\ adapter = "shadow" => truth = "absent"
=============================================================================
