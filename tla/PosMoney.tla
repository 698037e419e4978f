------------------------------- MODULE PosMoney -------------------------------
(***************************************************************************)
(* What a ticket costs: the one place its money is derived.  Amounts are   *)
(* mills, ten to the cent, so that a sub-cent amount is an integer too; a  *)
(* quantity is in tenths of a unit and a price in cents, so that their     *)
(* product is in mills.  A percentage and a tax rate are whole percents.   *)
(***************************************************************************)
EXTENDS Integers, Sequences, Functions

Cent == 10

Magnitude(v) == IF v < 0 THEN -v ELSE v

\* Mutant: change is not clamped.
Unclamped(v) == v

AtLeastZero(v) == IF v < 0 THEN 0 ELSE v

\* Mutant: the digits beyond the step are cut off.
Truncated(v, step) ==
  LET whole == (Magnitude(v) \div step) * step IN IF v < 0 THEN -whole ELSE whole

\* The nearest multiple of step, a midpoint away from zero.
Nearest(v, step) ==
  LET whole == ((2 * Magnitude(v) + step) \div (2 * step)) * step
  IN  IF v < 0 THEN -whole ELSE whole

Money(v) == Nearest(v, Cent)

\* What the register's cash rounding makes of a total; unit 0 is no rounding.
RoundTo(v, unit) == IF unit <= 0 THEN Money(v) ELSE Money(Nearest(v, unit))

----------------------------------------------------------------------------
(* Lines.  A line is [quantity, price, discount]. *)

ListPrice(l) == l.quantity * l.price

Net(l) == Money(ListPrice(l)) - Money(l.discount)

Priced(l) == l.quantity >= 0 /\ l.price >= 0 /\ l.discount >= 0 /\ Net(l) >= 0

\* A line's share of the order discount: money(gross * pct).
Share(l, pct) == Nearest(ListPrice(l) * pct, 100 * Cent) \div 100

DiscountFits(l, pct) == l.discount + Share(l, pct) <= ListPrice(l)

Folded(l, pct) == [l EXCEPT !.discount = l.discount + Share(l, pct)]

FoldOrderDiscount(basket, pct) == [i \in DOMAIN basket |-> Folded(basket[i], pct)]

\* The pair the priced lane rings a line with, from what the cart pricer answers.
FromCart(quantity, price, net) ==
  [quantity |-> quantity, price |-> price,
   discount |-> AtLeastZero(Money(quantity * price) - net)]

----------------------------------------------------------------------------
(* The tax engine, behind its port: it taxes every line net, and may move  *)
(* a cent between two lines so that the document rounds as a whole.        *)

TaxOn(net, rate) == Nearest(net * rate, 100 * Cent) \div 100

Redistributed(nets) ==
  {nets} \cup IF Len(nets) < 2 THEN {}
              ELSE {[nets EXCEPT ![1] = @ + Cent, ![Len(nets)] = @ - Cent]}

----------------------------------------------------------------------------
(* A ticket's header, from the nets its lines adopt and the tax on them. *)

Header(nets, tax, unit) ==
  LET net     == Money(SumFunction(nets))
      taxed   == Money(tax)
      grand   == net + taxed
      rounded == RoundTo(grand, unit)
  IN  [net |-> net, tax |-> taxed, grand |-> grand,
       adjustment |-> rounded - grand, rounded |-> rounded]

FirstPass(basket) == [i \in DOMAIN basket |-> Net(basket[i])]

TaxTotal(nets, rate) == SumFunction([i \in DOMAIN nets |-> TaxOn(nets[i], rate)])

\* Whether a basket is priced at all: the refusals of the fold and the compute.
Accepts(basket, pct) ==
  /\ basket # <<>>
  /\ pct \in 0..100
  /\ pct > 0 => \A i \in DOMAIN basket : DiscountFits(basket[i], pct)
  /\ \A i \in DOMAIN basket : Priced(Folded(basket[i], pct))

\* Every [nets, header] the compute may answer with for a basket.
Computed(basket, pct, rate, unit) ==
  LET first == FirstPass(FoldOrderDiscount(basket, pct))
  IN  {[nets |-> nets, header |-> Header(nets, TaxTotal(first, rate), unit)] :
         nets \in Redistributed(first)}
===============================================================================
