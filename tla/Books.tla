------------------------------- MODULE Books -------------------------------
(***************************************************************************)
(* The ledger of accounting.py and the account beside it that the risk     *)
(* service decides from.  Fills, marks and funding reach the ledger        *)
(* through the pipeline; the risk state is told after a fill and after a   *)
(* funding payment.  Internal crossings and borrow are operations of the   *)
(* ledger that nothing calls yet: Unused says whether the model does.      *)
(*                                                                         *)
(* Quantities and prices are integers; so is every average, which in the   *)
(* code is a decimal: what would leave a fraction behind is not booked.    *)
(***************************************************************************)
EXTENDS Integers, Sequences, FiniteSets, FiniteSetsExt, Functions

CONSTANTS
  Strategy,     \* the strategies whose fills are booked
  Instrument,   \* the (venue, symbol) keys of a position
  Price,        \* the prices a fill or a mark may have
  Rate,         \* funding per unit of notional and whole interval
  MaxHeld,      \* no ledger is taken beyond this quantity
  MaxEntries,   \* how many things the model books
  Unused        \* are the operations without a caller exercised too?

StartCash == 100
FillFee == 1

ASSUME BooksAssumption ==
  /\ IsFiniteSet(Instrument) /\ IsFiniteSet(Strategy)
  /\ Price \subseteq Nat \ {0} /\ Rate \subseteq Int
  /\ MaxHeld \in Nat /\ MaxEntries \in Nat /\ Unused \in BOOLEAN

NoPrice == 0                          \* _marks.get(key) is None
Size == 1..MaxHeld
Magnitude(n) == IF n < 0 THEN -n ELSE n
Flat == [qty |-> 0, avg |-> 0]        \* no entry for the key

VARIABLES
  book,     \* Books
  ledger,   \* Books.strategies
  known,    \* the strategies in the order they first appeared in the dict
  account,  \* what the risk state holds of it: equity and its running peak
  funded,   \* Pipeline._last_funding_ts: the instruments that have a last time
  flow      \* history: what was paid and received, and was the risk state told?

booksVars == <<book, ledger, known, account, funded, flow>>

-----------------------------------------------------------------------------
(* What a position is worth.                                               *)

MarkOr(b, k, price) == IF b.mark[k] = NoPrice THEN price ELSE b.mark[k]
OverKeys(f) == SumFunctionOnSet(f, Instrument)

Unrealised(b) ==
  OverKeys([k \in Instrument |->
              (MarkOr(b, k, b.pos[k].avg) - b.pos[k].avg) * b.pos[k].qty])
Equity(b) == b.cash + Unrealised(b) + b.funding - b.borrow
ExpectedCash(b) ==
  StartCash + b.realised - b.fees - b.slippage + b.settled

\* _refresh_strategy_unrealised
Paper(b, led) ==
  OverKeys([k \in Instrument |->
              (MarkOr(b, k, led.pos[k].avg) - led.pos[k].avg) * led.pos[k].qty])
Refreshed(b, ledgers) ==
  [s \in Strategy |-> [ledgers[s] EXCEPT !.unrealised = Paper(b, ledgers[s])]]

\* PortfolioState.mark, after apply_to
ApplyTo(b, a) ==
  [equity |-> Equity(b),
   peak   |-> IF Equity(b) > a.peak THEN Equity(b) ELSE a.peak]

-----------------------------------------------------------------------------
(* A fill.                                                                 *)

SameWay(a, b) == (a > 0) = (b > 0)
LastPrice(held, signed, price) == price
Average(held, signed, price) ==
  (Magnitude(held.qty) * held.avg + Magnitude(signed) * price)
    \div Magnitude(held.qty + signed)

\* _apply_position: the position after, and the profit its reduction realised
Applied(held, signed, price) ==
  LET new == held.qty + signed
      At(avg, realised) == [pos |-> IF new = 0 THEN Flat ELSE [qty |-> new, avg |-> avg],
                            realised |-> realised]
      Whole == (price - held.avg) * held.qty
  IN CASE held.qty = 0 -> At(price, 0)
       [] held.qty # 0 /\ SameWay(held.qty, signed) -> At(Average(held, signed, price), 0)
       [] held.qty # 0 /\ new = 0 -> At(0, Whole)
       [] held.qty # 0 /\ ~SameWay(held.qty, signed) /\ new # 0 /\ SameWay(held.qty, new) ->
            At(held.avg, (price - held.avg) * (-signed))
       [] OTHER -> At(price, Whole)

\* the strategy's own view of the position: a view that turns over keeps its
\* old average
MirroredAfresh(held, signed, price) ==
  IF held.qty + signed = 0 THEN Flat ELSE [qty |-> signed, avg |-> price]
Mirrored(held, signed, price) ==
  LET new == held.qty + signed IN
  CASE new = 0 -> Flat
    [] new # 0 /\ held.qty = 0 -> [qty |-> new, avg |-> price]
    [] new # 0 /\ held.qty # 0 /\ SameWay(held.qty, signed) ->
         [qty |-> new, avg |-> Average(held, signed, price)]
    [] OTHER -> [qty |-> new, avg |-> held.avg]

Meet(s) == IF \E i \in DOMAIN known : known[i] = s THEN known ELSE Append(known, s)

BookFill(b, k, signed, price, slippage) ==
  LET done == Applied(b.pos[k], signed, price) IN
  [b EXCEPT !.pos[k] = done.pos, !.realised = @ + done.realised,
            !.cash = @ + done.realised - FillFee - slippage,
            !.fees = @ + FillFee, !.slippage = @ + slippage]

LedgerFill(led, k, signed, price, slippage, realised) ==
  [led EXCEPT !.realised = @ + realised, !.fees = @ + FillFee,
              !.slippage = @ + slippage, !.fills = @ + 1,
              !.pos[k] = Mirrored(@, signed, price)]

Room == flow.entries < MaxEntries
WholeAverage(held, signed, price) ==
  held.qty # 0 /\ SameWay(held.qty, signed) =>
    (Magnitude(held.qty) * held.avg + Magnitude(signed) * price)
      % Magnitude(held.qty + signed) = 0
Fits(held, signed, price) ==
  Magnitude(held.qty + signed) <= MaxHeld /\ WholeAverage(held, signed, price)
Signed == Size \cup {-n : n \in Size}

\* Pipeline.on_fill as the books see it
Fill(s, k, signed, price, slippage) ==
  LET after == BookFill(book, k, signed, price, slippage)
      gained == after.realised - book.realised
  IN
  /\ Room /\ Fits(book.pos[k], signed, price) /\ Fits(ledger[s].pos[k], signed, price)
  /\ book' = after
  /\ ledger' = Refreshed(after, [ledger EXCEPT ![s] =
                  LedgerFill(@, k, signed, price, slippage, gained)])
  /\ known' = Meet(s)
  /\ account' = ApplyTo(after, account)
  /\ flow' = [flow EXCEPT !.entries = @ + 1, !.paid = @ + signed * price,
                          !.costs = @ + FillFee + slippage, !.told = TRUE]
  /\ UNCHANGED funded

-----------------------------------------------------------------------------
(* Marks and funding, from the market stream.                              *)

\* Pipeline.on_market_event: the books are marked, the risk state is not told
Mark(k, price) ==
  LET after == [book EXCEPT !.mark[k] = price] IN
  /\ book.mark[k] # price
  /\ book' = after
  /\ ledger' = Refreshed(after, ledger)
  /\ flow' = [flow EXCEPT !.told = FALSE]
  /\ UNCHANGED <<known, account, funded>>

\* accrue_funding: a short receives when the rate is positive
Received(b, k, rate) == -(b.pos[k].qty * MarkOr(b, k, b.pos[k].avg) * rate)

AccrueFunding(b, k, rate) ==
  [b EXCEPT !.funding = @ + Received(b, k, rate), !.accrual[k] = @ + Received(b, k, rate)]
SettleFunding(b, k) ==
  [b EXCEPT !.funding = @ - b.accrual[k], !.cash = @ + b.accrual[k],
            !.settled = @ + b.accrual[k], !.accrual[k] = 0]

\* _position_owner: the first ledger that holds the key
Holders(k) == {i \in DOMAIN known : ledger[known[i]].pos[k].qty # 0}
PositionOwner(k) == known[Min(Holders(k))]

\* _accrue_funding: the first event of an instrument only sets its clock, and
\* no more than one interval is ever charged
Funding(k, rate, intervals) ==
  LET charged == IF intervals > 1 THEN rate ELSE rate * intervals
      after == SettleFunding(AccrueFunding(book, k, charged), k)
  IN
  /\ Room
  /\ funded' = funded \cup {k}
  /\ IF k \notin funded \/ intervals = 0 \/ book.pos[k].qty = 0
       THEN UNCHANGED <<book, ledger, account, flow>>
       ELSE /\ book' = after
            /\ ledger' = [ledger EXCEPT ![PositionOwner(k)].funding =
                            @ + Received(book, k, charged)]
            /\ account' = ApplyTo(after, account)
            /\ flow' = [flow EXCEPT !.entries = @ + 1,
                                    !.funding = @ + Received(book, k, charged),
                                    !.told = TRUE]
  /\ UNCHANGED known

-----------------------------------------------------------------------------
(* Operations of the ledger that nothing calls.                            *)

\* book_internal_cross, for one side of the crossing
Crossed(led, k, signed, mid) ==
  LET held == led.pos[k]
      closing == held.qty # 0 /\ ~SameWay(held.qty, signed)
  IN [led EXCEPT !.pos[k] = Mirrored(held, signed, mid),
                 !.realised = @ + IF closing THEN (mid - held.avg) * (-signed) ELSE 0]

InternalCross(buyer, seller, k, quantity, mid) ==
  LET bought == [ledger EXCEPT ![buyer] = Crossed(@, k, quantity, mid)] IN
  /\ Unused /\ Room /\ buyer # seller
  /\ Fits(ledger[buyer].pos[k], quantity, mid) /\ Fits(ledger[seller].pos[k], -quantity, mid)
  /\ known' = LET met == Meet(buyer) IN
              IF \E i \in DOMAIN met : met[i] = seller THEN met ELSE Append(met, seller)
  /\ ledger' = Refreshed(book, [bought EXCEPT ![seller] = Crossed(@, k, -quantity, mid)])
  /\ flow' = [flow EXCEPT !.entries = @ + 1]
  /\ UNCHANGED <<book, account, funded>>

\* accrue_borrow: only shorts borrow, and what is owed never settles
AccrueBorrow(s, k) ==
  LET cost == -(book.pos[k].qty * MarkOr(book, k, book.pos[k].avg)) IN
  /\ Unused /\ Room /\ book.pos[k].qty < 0
  /\ book' = [book EXCEPT !.borrow = @ + cost]
  /\ ledger' = [ledger EXCEPT ![s].borrow = @ + cost]
  /\ known' = Meet(s)
  /\ flow' = [flow EXCEPT !.entries = @ + 1, !.costs = @ + cost, !.told = FALSE]
  /\ UNCHANGED <<account, funded>>

-----------------------------------------------------------------------------
BooksInit ==
  /\ book = [cash |-> StartCash, realised |-> 0, funding |-> 0, borrow |-> 0,
             settled |-> 0, fees |-> 0, slippage |-> 0,
             pos |-> [k \in Instrument |-> Flat],
             mark |-> [k \in Instrument |-> NoPrice],
             accrual |-> [k \in Instrument |-> 0]]
  /\ ledger = [s \in Strategy |->
                [realised |-> 0, unrealised |-> 0, fees |-> 0, slippage |-> 0,
                 funding |-> 0, borrow |-> 0, fills |-> 0,
                 pos |-> [k \in Instrument |-> Flat]]]
  /\ known = <<>>
  /\ account = [equity |-> StartCash, peak |-> StartCash]
  /\ funded = {}
  /\ flow = [entries |-> 0, paid |-> 0, costs |-> 0, funding |-> 0, told |-> TRUE]

BooksNext ==
  \/ \E s \in Strategy, k \in Instrument, signed \in Signed, price \in Price :
       Fill(s, k, signed, price, 0)
  \/ \E k \in Instrument, price \in Price : Mark(k, price)
  \/ \E k \in Instrument, rate \in Rate, intervals \in 0..2 : Funding(k, rate, intervals)
  \/ \E buyer, seller \in Strategy, k \in Instrument, n \in Size, mid \in Price :
       InternalCross(buyer, seller, k, n, mid)
  \/ \E s \in Strategy, k \in Instrument : AccrueBorrow(s, k)

BooksSpec == BooksInit /\ [][BooksNext]_booksVars

-----------------------------------------------------------------------------
(* Properties.                                                             *)

\* However positions are added to, reduced, closed and turned over, equity is
\* the starting cash, less what was paid for what is held and traded, plus
\* what is held at its mark, with costs and funding: averaging and realising
\* move profit between two numbers and never make any.  Cash reconciles, and
\* the risk state knows that equity but for marks and borrow since a booking.
EquityIsTrading ==
  LET worth == [k \in Instrument |-> book.pos[k].qty * MarkOr(book, k, book.pos[k].avg)] IN
  /\ Equity(book) = StartCash - flow.paid + OverKeys(worth) - flow.costs + flow.funding
  /\ book.cash = ExpectedCash(book) /\ book.funding = 0
  /\ flow.told => account.equity = Equity(book)

\* The strategies' own positions add up to the account's, whoever's fills made
\* it, so a funding payment on a position always finds a strategy to go to.
AttributedWhole == \A k \in Instrument :
  /\ SumFunctionOnSet([s \in Strategy |-> ledger[s].pos[k].qty], Strategy) = book.pos[k].qty
  /\ book.pos[k].qty # 0 => Holders(k) # {}
=============================================================================
