------------------------------ MODULE MCPosSync ------------------------------
(* Instances of PosSync for TLC.  Amounts are in mills, prices in cents.      *)
EXTENDS PosSync

CONSTANTS u1, u2, f1, c1, n1, n2

Line(quantity, price, discount) ==
  [quantity |-> quantity, price |-> price, discount |-> discount]

Pay(method, amount) == [method |-> method, amount |-> amount]

Sale(uuid, customer, basket, pct, ts) ==
  [uuid |-> uuid, of |-> None, customer |-> customer, basket |-> basket, pct |-> pct,
   tenders |-> ts]

Refund(uuid, of) == [Sale(uuid, c1, <<>>, 0, <<>>) EXCEPT !.of = of]

\* One line of 1.00, and two lines a third off, the second priced by the cart.
One == <<Line(10, 100, 0)>>
Two == <<Line(10, 33, 0), FromCart(15, 35, 500)>>

\* Three thirds of one: the raw sum is whole, the rows are a cent short.
Thirds == <<Pay("cash", 334), Pay("cash", 334), Pay("cash", 334)>>

\* Two baskets of one sale, a cent short and paid up; another sale.
SaleReplays == {Sale(u1, c1, One, 10, <<Pay("cash", 990)>>), Sale(u1, c1, Two, 33, Thirds),
                Sale(u2, c1, One, 0, <<Pay("card", 200)>>)}

MCReplays == SaleReplays \cup {Refund(f1, u1)}

MCTenders == {Pay("cash", 10)}

MCReceiptOf(u) == IF u = u1 THEN n1 ELSE n2

\* Two halves that round up in the rows and down in the sum.
MCHalves ==
  {Sale(u1, c1, <<Line(10, 68, 0)>>, 0, <<>>),
   Sale(u1, c1, <<Line(10, 68, 0)>>, 0, <<Pay("cash", 335), Pay("cash", 335)>>)}
==============================================================================
