----------------------------- MODULE RetailSale -----------------------------
(***************************************************************************)
(* What the retail seam promises of one sale: the books move one way, each *)
(* leg once, and the ticket never shows what the books do not hold.        *)
(***************************************************************************)
VARIABLES
  books,  \* how far the two legs are booked, and then reversed
  shown   \* the status the counter shows

vars == <<books, shown>>

Books == {"unbooked", "invoiced", "settled", "refunded", "reversed"}

Init == books = "unbooked" /\ shown = "draft"

Book(from, to) == books = from /\ books' = to /\ UNCHANGED shown
Show(from, to) == shown = from /\ shown' = to /\ UNCHANGED books

Invoice == Book("unbooked", "invoiced")
Settle  == Book("invoiced", "settled")
Pay     == books = "settled" /\ Show("draft", "paid")
Refund  == shown = "paid" /\ Book("settled", "refunded")
Credit  == shown = "paid" /\ Book("refunded", "reversed")
Return  == books = "reversed" /\ Show("paid", "returned")

Next == Invoice \/ Settle \/ Pay \/ Refund \/ Credit \/ Return

Spec == Init /\ [][Next]_vars

TypeOK == books \in Books /\ shown \in {"draft", "paid", "returned"}
=============================================================================
