------------------------------ MODULE UserStream ------------------------------
(***************************************************************************)
(* How the fills reach a live session: the user loop of live/runner.py,    *)
(* the token its socket needs (adapters/binance.py), which the timer's     *)
(* loop extends, and decode_fill of live/binance_live.py.  A unit of time  *)
(* is long against the timer's interval, so the timer looks at its clock   *)
(* at every unit; the venue takes a token for dead once it was not         *)
(* extended for Validity, and a socket whose token is dead says nothing.   *)
(***************************************************************************)
EXTENDS Integers, Sequences, FiniteSets

CONSTANTS
  Validity,     \* ListenKeyManager.VALIDITY_S
  Keepalive,    \* LiveConfig.token_keepalive_s
  StreamEnd,      \* the model's time
  MaxTrades     \* the executions of the venue

ASSUME UserStreamAssumption ==
  {Validity, Keepalive} \subseteq Nat \ {0} /\ {StreamEnd, MaxTrades} \subseteq Nat

VARIABLES
  loop,     \* _user_loop: "connect", "connecting", "up", "backoff" or "ended"
  token,    \* runner._token is set
  extended, \* the venue's: when the token was issued or last extended
  keepclock,\* _tick_loop's last_keepalive
  failed,   \* history: a keepalive failed since then
  wall,     \* the wall clock
  wire,     \* messages on their way to us
  order,    \* our machine of the order the fills belong to: "open" or "closed"
  fills     \* history: traded, booked, missed, and whose nobody knows

streamVars == <<loop, token, extended, keepclock, failed, wall, wire, order, fills>>

Alive == token /\ wall - extended < Validity
Traded(lines) == Cardinality({i \in DOMAIN lines : lines[i] = "TRADE"})

-----------------------------------------------------------------------------
(* _user_loop.                                                             *)

\* _release_token swallows what goes wrong; open_user_stream may not answer
Issue(answers) ==
  /\ loop = "connect"
  /\ token' = answers
  /\ loop' = IF answers THEN "connecting" ELSE "backoff"
  /\ extended' = IF answers THEN wall ELSE extended
  /\ failed' = IF answers THEN FALSE ELSE failed
  /\ UNCHANGED <<keepclock, wall, wire, order, fills>>

\* a connection that fails keeps the token until the next attempt
Open(opens) ==
  /\ loop = "connecting"
  /\ loop' = IF opens THEN "up" ELSE "backoff"
  /\ UNCHANGED <<token, extended, keepclock, failed, wall, wire, order, fills>>

\* what was on its way is lost with the socket, and nobody asks for it again
DropStream ==
  /\ loop = "up" /\ loop' = "backoff"
  /\ wire' = <<>> /\ fills' = [fills EXCEPT !.missed = @ + Traded(wire)]
  /\ UNCHANGED <<token, extended, keepclock, failed, wall, order>>

BackedOff ==
  /\ loop = "backoff" /\ loop' = "connect"
  /\ UNCHANGED <<token, extended, keepclock, failed, wall, wire, order, fills>>

\* decode_fill: only an execution moved quantity, the terminal report repeats it
Decodes(kind) == kind = "TRADE"

\* _strategy_of looks through the open machines only
Message ==
  /\ loop = "up" /\ wire # <<>>
  /\ wire' = Tail(wire)
  /\ fills' = IF Decodes(Head(wire))
       THEN [fills EXCEPT !.booked = @ + 1, !.nameless = @ + (IF order = "open" THEN 0 ELSE 1)]
       ELSE fills
  /\ UNCHANGED <<loop, token, extended, keepclock, failed, wall, order>>

\* a fill its machine has no transition for raises out of the loop, and
\* gather ends every other loop with it
MessageRaises ==
  /\ loop = "up" /\ wire # <<>> /\ Decodes(Head(wire)) /\ order = "closed"
  /\ loop' = "ended" /\ token' = FALSE
  /\ wire' = <<>> /\ fills' = [fills EXCEPT !.missed = @ + Traded(wire)]
  /\ UNCHANGED <<extended, keepclock, failed, wall, order>>

-----------------------------------------------------------------------------
(* _tick_loop, once per unit of time.                                      *)

DueAtExpiry(since) == since >= Validity
Due(since) == since >= Keepalive

\* the clock of the attempts moves before the attempt is made
TimerTick(answers) ==
  /\ wall < StreamEnd /\ wall' = wall + 1
  /\ loop # "ended"
  /\ IF token /\ Due(wall' - keepclock)
     THEN /\ keepclock' = wall'
          /\ extended' = IF answers /\ wall' - extended < Validity THEN wall' ELSE extended
          /\ failed' = IF wall' - extended < Validity THEN ~answers ELSE failed
     ELSE UNCHANGED <<keepclock, extended, failed>>
  /\ UNCHANGED <<loop, token, wire, order, fills>>

-----------------------------------------------------------------------------
(* The venue.                                                              *)

\* an execution, and with the last one the terminal report
Executes(last) ==
  /\ fills.traded < MaxTrades
  /\ LET lines == IF last THEN <<"TRADE", "FILLED">> ELSE <<"TRADE">>
         heard == loop = "up" /\ Alive
     IN
     /\ wire' = IF heard THEN wire \o lines ELSE wire
     /\ fills' = [fills EXCEPT !.traded = @ + 1, !.missed = IF heard THEN @ ELSE @ + 1]
  /\ UNCHANGED <<loop, token, extended, keepclock, failed, wall, order>>

\* an answer closes the machine before the stream tells of the fill
AnswerCloses ==
  /\ order = "open" /\ order' = "closed"
  /\ UNCHANGED <<loop, token, extended, keepclock, failed, wall, wire, fills>>

StreamInit ==
  /\ loop = "connect" /\ token = FALSE
  /\ extended = 0 /\ keepclock = 0 /\ failed = FALSE /\ wall = 0
  /\ wire = <<>> /\ order = "open"
  /\ fills = [traded |-> 0, booked |-> 0, missed |-> 0, nameless |-> 0]

StreamNext ==
  \/ \E answers \in BOOLEAN : Issue(answers)
  \/ \E opens \in BOOLEAN : Open(opens)
  \/ DropStream
  \/ BackedOff
  \/ Message
  \/ MessageRaises
  \/ \E answers \in BOOLEAN : TimerTick(answers)
  \/ \E last \in BOOLEAN : Executes(last)
  \/ AnswerCloses

StreamSpec == StreamInit /\ [][StreamNext]_streamVars

-----------------------------------------------------------------------------
\* The token a socket lives by dies only after a keepalive of it failed,
\* however reconnects and keepalives fall together; and every execution of the
\* venue is booked once, on its way, or lost with a socket or a dead token.
TokenOutlivesSilence ==
  /\ token /\ ~Alive => failed
  /\ fills.traded = fills.booked + fills.missed + Traded(wire)
  /\ order = "open" => fills.nameless = 0
=============================================================================
