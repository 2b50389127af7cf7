-------------------------- MODULE BrokerageReplays --------------------------
(***************************************************************************)
(* The replays over every history the abstract brokerage can produce.      *)
(***************************************************************************)
EXTENDS Brokerage, Replay

CONSTANT Home      \* the currency of each account

\* The form demands the rate of a foreign trade.  Nobody edits an account here
\* (InvestmentPosting has the edits), so no replay is without one.
ASSUME HomeAssumption ==
  /\ Home \in [Accounts -> Currencies]
  /\ \A f \in Forms : Rated(f, Home[f.account])

LastDay == Max({0} \cup {t.day : t \in posted})

Sum(f(_), S) == SumFunction([x \in S |-> f(x)])

SignedQuantity(t) ==
  CASE t.kind = "BUY" -> t.quantity
    [] t.kind = "SELL" -> -t.quantity
    [] OTHER -> 0

Abs(n) == IF n < 0 THEN -n ELSE n

\* Shares held once t and everything before it are applied.
NetThrough(t, trades) ==
  Sum(SignedQuantity, {u \in trades : u = t \/ Before(u, t)})

History(a, s) == AllTrades(posted, a, s)

Replays(rows, a, s) == Holding(AllTrades(rows, a, s), Home[a]).ok

Events(a) == RealizedGainEvents(posted, a, LastDay, Home[a])

EventsOf(a, s) ==
  LET all == Events(a).events
  IN  {all[i] : i \in {j \in DOMAIN all : all[j].security = s}}

-----------------------------------------------------------------------------
\* The two hand-written replays, holdings.py and cost_basis.py, refuse the same
\* histories, those in which some sale, in date order, exceeds what all the
\* purchases before it left; otherwise the quantity is purchases minus sales,
\* and the sales of the tax report sum to the realised gain of the holdings
\* page, in both currencies.
ReplaysAgree ==
  \A a \in Accounts :
    LET report == Events(a)
        page == [s \in Securities |-> Holding(History(a, s), Home[a])]
    IN  /\ \A s \in Securities :
             page[s].ok <=> \A t \in History(a, s) : NetThrough(t, History(a, s)) >= 0
        /\ report.ok <=> \A s \in Securities : page[s].ok
        /\ report.ok => \A s \in Securities :
             /\ page[s].quantity = Sum(SignedQuantity, History(a, s))
             /\ Sum(LAMBDA e : e.gain, EventsOf(a, s)) = page[s].realized
             /\ Sum(LAMBDA e : e.gainBase, EventsOf(a, s)) = page[s].realizedBase
             /\ PositionIn(report, s) = [quantity |-> page[s].quantity,
                                         cost |-> page[s].cost, base |-> page[s].base]

\* No acquisition cost is lost or counted twice: what the purchases cost is
\* what is still in the position plus what the sales took out, up to the half
\* unit in the last place per share that a closing sale rounds away, and a
\* position that is closed has no cost left.
CostBalanced ==
  \A a \in Accounts, s \in Securities :
    LET trades == History(a, s)
        p == Holding(trades, Home[a])
        closing == {t \in trades : t.kind = "SELL" /\ NetThrough(t, trades) = 0}
        bought == Sum(LAMBDA t : IF t.kind = "BUY" THEN Acquisition(t) * Ulp ELSE 0, trades)
        taken == Sum(LAMBDA e : e.allocated, EventsOf(a, s))
    IN  Events(a).ok =>
          /\ 2 * Abs(bought - p.cost - taken) <= Sum(LAMBDA t : t.quantity, closing)
          /\ p.quantity = 0 => p.cost = 0 /\ p.base = 0

\* Whatever the sales took out, the shares that are left never cost less than
\* nothing.
CostNeverNegative ==
  \A a \in Accounts, s \in Securities :
    Events(a).ok => Holding(History(a, s), Home[a]).cost >= 0

\* The average cost method neither loses cost, nor counts it twice, nor takes
\* more out of a position than it holds.
CostConserved == CostBalanced /\ CostNeverNegative

\* A posting turns a history that replays into one that does not only by being
\* a sale dated before another sale of the same security.
OnlyBackdatedSaleBreaksHistory ==
  [][\A t \in posted' \ posted :
       Replays(posted, t.account, t.security) /\ ~Replays(posted', t.account, t.security)
         => /\ t.kind = "SELL"
            /\ \E u \in History(t.account, t.security) : u.kind = "SELL" /\ t.day < u.day]_posted

\* README.md:141, "Short selling is rejected.": no account ever has sold more
\* of a security than it had bought by then.
ShortSellingRejected ==
  \A a \in Accounts, s \in Securities : Replays(posted, a, s)
=============================================================================
