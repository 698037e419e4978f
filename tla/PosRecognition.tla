--------------------------- MODULE PosRecognition ---------------------------
(***************************************************************************)
(* Recognising and returning one ticket: recognize_sale and return_sale,   *)
(* one action per statement and per call of a port, with the services      *)
(* behind the ports.  Tickets do not meet here: the advisory lock, the     *)
(* rows and the documents are those of one ticket.                         *)
(*                                                                         *)
(* invoice, settlement and notes belong to billing, payment and inventory, *)
(* which POS reaches only through a port.  None of them recognises a       *)
(* repeated request; reversing what is reversed changes nothing.           *)
(***************************************************************************)
EXTENDS Integers

CONSTANTS
  Workers,      \* deliveries of a trigger, and return requests, served at once
  Invoices,     \* ids billing may give an invoice
  Payments,     \* ids payment may give a settlement
  Notes,        \* ids inventory may give a delivery note
  Amounts,      \* totals and tenders the ticket may have
  StockTracked, \* whether the register relieves stock
  Faults,       \* what may go wrong
  None

ASSUME RecognitionAssumption ==
  /\ None \notin Workers \cup Invoices \cup Payments \cup Notes
  /\ Amounts \subseteq Nat
  /\ StockTracked \in BOOLEAN
  \* decline  a port refuses, and nothing was booked
  \* lost     a port books, and its answer does not arrive
  \* crash    the request dies between two statements
  \* guard    the connection that holds the advisory lock dies, the request does not
  \* replay   an offline replay rewrites the ticket while it is a draft
  /\ Faults \subseteq {"decline", "lost", "crash", "guard", "replay"}

VARIABLES
  ticket,      \* the ticket's row
  invoice, settlement, notes,
  returns,     \* return tickets inserted against the ticket
  published,   \* PosInvoicePaid and PosInvoiceReturned events published
  guard,       \* the request that holds the ticket's advisory lock
  pc,          \* what each request does next
  call         \* what each request remembers

books == <<invoice, settlement, notes>>
vars  == <<ticket, invoice, settlement, notes, returns, published, guard, pc, call>>

NoInvoice    == [state |-> "none", amount |-> 0]
NoSettlement == [state |-> "none", amount |-> 0, invoice |-> None]

NoCall == [invoice |-> None, payment |-> None, note |-> None, total |-> 0, amount |-> 0]

PC == {"idle", "fetch", "lines", "raise", "link", "settle", "flip", "publish_paid",
       "relief", "issue", "note", "refund", "credit", "return", "publish_returned"}

----------------------------------------------------------------------------
(* Statements and calls. *)

Goto(w, from, to) == pc[w] = from /\ pc' = [pc EXCEPT ![w] = to]

\* The request answers: its transaction ends, and with it the advisory lock.
End(w) ==
  /\ pc' = [pc EXCEPT ![w] = "idle"]
  /\ call' = [call EXCEPT ![w] = NoCall]
  /\ guard' = IF guard = w THEN None ELSE guard

\* A port refuses: nothing was booked, the request reports it.
Declined(w) == "decline" \in Faults /\ End(w) /\ UNCHANGED books

\* What a port booked is acknowledged, or its answer is lost and the request fails.
Acknowledged(w, from, to, noted) ==
  \/ /\ Goto(w, from, to)
     /\ call' = [call EXCEPT ![w] = noted]
     /\ UNCHANGED guard
  \/ "lost" \in Faults /\ End(w)

\* A statement that goes on to the next one.
Continue(w, from, to, noted) ==
  /\ Goto(w, from, to)
  /\ call' = [call EXCEPT ![w] = noted]
  /\ UNCHANGED guard

----------------------------------------------------------------------------
(* recognize_sale *)

\* Mutant: the advisory lock is not taken.
NoAdvisoryLock(w) == UNCHANGED guard

TakeGuard(w) == guard = None /\ guard' = w

\* The lock is waited for; then short_circuit_paid reads the ticket.
RecognizeBegin(w) ==
  /\ TakeGuard(w)
  /\ Goto(w, "idle", IF ticket.status = "paid" /\ ticket.billing # None
                       THEN "relief" ELSE "fetch")
  /\ UNCHANGED <<ticket, books, returns, published, call>>

\* fetch_for_recognition: a draft, fully tendered; a linked invoice is reused.
Fetch(w) ==
  LET noted == [call[w] EXCEPT !.total = ticket.total, !.invoice = ticket.billing] IN
  /\ pc[w] = "fetch"
  /\ IF ticket.status = "draft" /\ ticket.paid >= ticket.total
       THEN Continue(w, "fetch", IF ticket.billing = None THEN "lines" ELSE "settle", noted)
       ELSE End(w)
  /\ UNCHANGED <<ticket, books, returns, published>>

\* The lines to invoice are read by a statement of their own.
Lines(w) ==
  /\ Continue(w, "lines", "raise", [call[w] EXCEPT !.amount = ticket.total])
  /\ UNCHANGED <<ticket, books, returns, published>>

Raise(w) ==
  /\ pc[w] = "raise"
  /\ \/ Declined(w)
     \/ \E i \in Invoices :
          /\ invoice[i].state = "none"
          /\ invoice' = [invoice EXCEPT ![i] = [state |-> "open", amount |-> call[w].amount]]
          /\ Acknowledged(w, "raise", "link", [call[w] EXCEPT !.invoice = i])
          /\ UNCHANGED <<settlement, notes>>
  /\ UNCHANGED <<ticket, returns, published>>

\* Mutant: the invoice is linked only by the flip to paid.
NeverLinked(w) ==
  /\ Continue(w, "link", "settle", call[w])
  /\ UNCHANGED <<ticket, books, returns, published>>

\* link_billing_invoice: a draft that names no invoice yet, or the request fails.
Link(w) ==
  /\ pc[w] = "link"
  /\ \/ /\ ticket.status = "draft" /\ ticket.billing = None
        /\ ticket' = [ticket EXCEPT !.billing = call[w].invoice]
        /\ Continue(w, "link", "settle", call[w])
     \/ /\ ~(ticket.status = "draft" /\ ticket.billing = None)
        /\ End(w)
        /\ UNCHANGED ticket
  /\ UNCHANGED <<books, returns, published>>

Settle(w) ==
  /\ pc[w] = "settle"
  /\ \/ Declined(w)
     \/ \E p \in Payments :
          /\ settlement[p].state = "none"
          /\ settlement' = [settlement EXCEPT ![p] =
                              [state |-> "open", amount |-> call[w].total,
                               invoice |-> call[w].invoice]]
          /\ Acknowledged(w, "settle", "flip", [call[w] EXCEPT !.payment = p])
          /\ UNCHANGED <<invoice, notes>>
  /\ UNCHANGED <<ticket, returns, published>>

\* Mutant: the flip does not look at the status it flips.
MarkPaidUngated(w) ==
  /\ ticket' = [ticket EXCEPT !.status = "paid", !.billing = call[w].invoice,
                              !.payment = call[w].payment]
  /\ Continue(w, "flip", "publish_paid", call[w])
  /\ UNCHANGED <<books, returns, published>>

\* Mutant: the two ids of the flip are bound in the wrong order.
MarkPaidSwapped(w) ==
  /\ pc[w] = "flip"
  /\ ticket.status = "draft"
  /\ ticket' = [ticket EXCEPT !.status = "paid", !.billing = call[w].payment,
                              !.payment = call[w].invoice]
  /\ Continue(w, "flip", "publish_paid", call[w])
  /\ UNCHANGED <<books, returns, published>>

\* mark_paid: the event is for the request whose flip took.
MarkPaid(w) ==
  /\ pc[w] = "flip"
  /\ \/ /\ ticket.status = "draft"
        /\ ticket' = [ticket EXCEPT !.status = "paid", !.billing = call[w].invoice,
                                    !.payment = call[w].payment]
        /\ Continue(w, "flip", "publish_paid", call[w])
     \/ /\ ticket.status # "draft"
        /\ Continue(w, "flip", "relief", call[w])
        /\ UNCHANGED ticket
  /\ UNCHANGED <<books, returns, published>>

\* Mutant: relief is left to the request that flipped the ticket, and to nobody else.
ReliefOfFlipperOnly(w) ==
  /\ pc[w] = "relief"
  /\ IF ticket.status = "paid" /\ ticket.note = None /\ StockTracked /\ call[w].payment # None
       THEN Continue(w, "relief", "issue", call[w])
       ELSE End(w)
  /\ UNCHANGED <<ticket, books, returns, published>>

\* Mutant: relief goes by the status alone.
ReliefUnrecorded(w) ==
  /\ pc[w] = "relief"
  /\ IF ticket.status = "paid" /\ StockTracked
       THEN Continue(w, "relief", "issue", call[w])
       ELSE End(w)
  /\ UNCHANGED <<ticket, books, returns, published>>

PublishPaid(w) ==
  /\ Continue(w, "publish_paid", "relief", call[w])
  /\ published' = [published EXCEPT !.paid = @ + 1]
  /\ UNCHANGED <<ticket, books, returns>>

\* relieve_stock_once: by the ticket's own record of its relief.
Relief(w) ==
  /\ pc[w] = "relief"
  /\ IF ticket.status = "paid" /\ ticket.note = None /\ StockTracked
       THEN Continue(w, "relief", "issue", call[w])
       ELSE End(w)
  /\ UNCHANGED <<ticket, books, returns, published>>

Issue(w) ==
  /\ pc[w] = "issue"
  /\ \/ Declined(w)
     \/ \E n \in Notes \ notes :
          /\ notes' = notes \cup {n}
          /\ Acknowledged(w, "issue", "note", [call[w] EXCEPT !.note = n])
          /\ UNCHANGED <<invoice, settlement>>
  /\ UNCHANGED <<ticket, returns, published>>

LinkNote(w) ==
  /\ pc[w] = "note"
  /\ ticket' = IF ticket.note = None THEN [ticket EXCEPT !.note = call[w].note] ELSE ticket
  /\ End(w)
  /\ UNCHANGED <<books, returns, published>>

----------------------------------------------------------------------------
(* return_sale: no advisory lock *)

ReturnBegin(w) ==
  /\ ticket.status \in {"paid", "returned"} /\ ticket.billing # None
  /\ Continue(w, "idle", "refund",
              [NoCall EXCEPT !.invoice = ticket.billing, !.payment = ticket.payment])
  /\ UNCHANGED <<ticket, books, returns, published>>

Refund(w) ==
  /\ pc[w] = "refund"
  /\ \/ Declined(w)
     \/ /\ settlement' = [settlement EXCEPT ![call[w].payment].state = "refunded"]
        /\ Acknowledged(w, "refund", "credit", call[w])
        /\ UNCHANGED <<invoice, notes>>
  /\ UNCHANGED <<ticket, returns, published>>

\* Mutant: the ticket is returned whatever billing answers.
CreditNoteUnchecked(w) ==
  /\ Continue(w, "credit", "return", call[w])
  /\ \/ UNCHANGED invoice
     \/ invoice' = [invoice EXCEPT ![call[w].invoice].state = "credited"]
  /\ UNCHANGED <<ticket, settlement, notes, returns, published>>

CreditNote(w) ==
  /\ pc[w] = "credit"
  /\ \/ Declined(w)
     \/ /\ invoice' = [invoice EXCEPT ![call[w].invoice].state = "credited"]
        /\ Acknowledged(w, "credit", "return", call[w])
        /\ UNCHANGED <<settlement, notes>>
  /\ UNCHANGED <<ticket, returns, published>>

\* Mutant: the return ticket is inserted whether or not the flip took.
MarkReturnedUngated(w) ==
  /\ ticket' = [ticket EXCEPT !.status = "returned"]
  /\ returns' = returns + 1
  /\ Continue(w, "return", "publish_returned", call[w])
  /\ UNCHANGED <<books, published>>

\* The flip and the return ticket are one transaction; a repeat finds the ticket of the
\* first.
MarkReturned(w) ==
  /\ pc[w] = "return"
  /\ \/ /\ ticket.status = "paid"
        /\ ticket' = [ticket EXCEPT !.status = "returned"]
        /\ returns' = returns + 1
        /\ Continue(w, "return", "publish_returned", call[w])
     \/ /\ ticket.status # "paid"
        /\ End(w)
        /\ UNCHANGED <<ticket, returns>>
  /\ UNCHANGED <<books, published>>

PublishReturned(w) ==
  /\ pc[w] = "publish_returned"
  /\ published' = [published EXCEPT !.returned = @ + 1]
  /\ End(w)
  /\ UNCHANGED <<ticket, books, returns>>

----------------------------------------------------------------------------
(* Faults. *)

Crash(w) ==
  /\ "crash" \in Faults
  /\ pc[w] # "idle"
  /\ End(w)
  /\ UNCHANGED <<ticket, books, returns, published>>

\* The transaction that holds the lock is idle while the ports are called: losing its
\* connection frees the lock under a request that goes on.
LoseGuard(w) ==
  /\ "guard" \in Faults
  /\ guard = w
  /\ guard' = None
  /\ UNCHANGED <<ticket, books, returns, published, pc, call>>

\* sync_from_ui on a draft: another basket, other tenders, the linked invoice kept.
Replay(total, paid) ==
  /\ "replay" \in Faults
  /\ ticket.status = "draft"
  /\ ticket' = [ticket EXCEPT !.total = total, !.paid = paid]
  /\ UNCHANGED <<books, returns, published, guard, pc, call>>

----------------------------------------------------------------------------
Init ==
  /\ \E total \in Amounts :
       ticket = [status |-> "draft", total |-> total, paid |-> total,
                 billing |-> None, payment |-> None, note |-> None]
  /\ invoice    = [i \in Invoices |-> NoInvoice]
  /\ settlement = [p \in Payments |-> NoSettlement]
  /\ notes = {} /\ returns = 0 /\ published = [paid |-> 0, returned |-> 0]
  /\ guard = None
  /\ pc   = [w \in Workers |-> "idle"]
  /\ call = [w \in Workers |-> NoCall]

Recognize(w) ==
  \/ Fetch(w) \/ Lines(w) \/ Raise(w) \/ Link(w) \/ Settle(w)
  \/ MarkPaid(w) \/ PublishPaid(w) \/ Relief(w) \/ Issue(w) \/ LinkNote(w)

Return(w) == Refund(w) \/ CreditNote(w) \/ MarkReturned(w) \/ PublishReturned(w)

Next ==
  \/ \E w \in Workers : RecognizeBegin(w) \/ Recognize(w)
  \/ \E w \in Workers : ReturnBegin(w) \/ Return(w)
  \/ \E w \in Workers : Crash(w) \/ LoseGuard(w)
  \/ \E total, paid \in Amounts : Replay(total, paid)

Spec == Init /\ [][Next]_vars

\* A request that is served goes on; the trigger is delivered again for as long as it can
\* be; a port asked again and again does not refuse forever.
Accepts(Call(_)) == \E w \in Workers : Call(w) /\ books' # books

FairSpec ==
  /\ Spec
  /\ \A w \in Workers : WF_vars(Recognize(w)) /\ WF_vars(Return(w))
  /\ SF_vars(\E w \in Workers : RecognizeBegin(w))
  /\ SF_vars(Accepts(Raise)) /\ SF_vars(Accepts(Settle)) /\ SF_vars(Accepts(Issue))

----------------------------------------------------------------------------
Tickets ==
  [status : {"draft", "paid", "returned"}, total : Nat, paid : Nat,
   billing : Invoices \cup {None}, payment : Payments \cup {None}, note : Notes \cup {None}]

Calls ==
  [invoice : Invoices \cup {None}, payment : Payments \cup {None}, note : Notes \cup {None},
   total : Nat, amount : Nat]

\* Every document, row and request keeps its shape.
TypeOK ==
  /\ ticket \in Tickets
  /\ invoice \in [Invoices -> [state : {"none", "open", "credited"}, amount : Nat]]
  /\ settlement \in [Payments -> [state : {"none", "open", "refunded"}, amount : Nat,
                                  invoice : Invoices \cup {None}]]
  /\ notes \subseteq Notes
  /\ returns \in Nat
  /\ published \in [paid : Nat, returned : Nat]
  /\ guard \in Workers \cup {None}
  /\ pc \in [Workers -> PC]
  /\ call \in [Workers -> Calls]

\* A paid ticket names an invoice that was raised for it and a settlement of that very
\* invoice; a returned one names the ones that were reversed.
TicketNamesItsBooks ==
  /\ ticket.status # "draft" =>
       /\ ticket.billing # None /\ invoice[ticket.billing].state # "none"
       /\ ticket.payment # None /\ settlement[ticket.payment].state # "none"
       /\ settlement[ticket.payment].invoice = ticket.billing
  /\ ticket.status = "returned" =>
       /\ invoice[ticket.billing].state = "credited"
       /\ settlement[ticket.payment].state = "refunded"

\* However often, and however concurrently, a ticket is recognised and returned, the
\* counter hears of each at most once, and one return ticket exists.
ToldAtMostOnce ==
  /\ published.paid <= 1 /\ published.returned <= returns
  /\ returns = (IF ticket.status = "returned" THEN 1 ELSE 0)

Raised  == {i \in Invoices : invoice[i].state # "none"}
Settled == {p \in Payments : settlement[p].state # "none"}

\* Where the books of this ticket stand; "twice" is nowhere the promise allows.
BooksOf ==
  IF \E i, j \in Raised : i # j THEN "twice"
  ELSE IF \E p, q \in Settled : p # q THEN "twice"
  ELSE IF Raised = {} THEN "unbooked"
  ELSE IF \E i \in Raised : invoice[i].state = "credited" THEN "reversed"
  ELSE IF \E p \in Settled : settlement[p].state = "refunded" THEN "refunded"
  ELSE IF Settled # {} THEN "settled" ELSE "invoiced"

Sale == INSTANCE RetailSale WITH books <- BooksOf, shown <- ticket.status

\* As long as every port answers and no request dies, deliveries racing one another,
\* refusals, retries and replays book each leg of the sale once.
SaleImplemented == Sale!Spec

\* Stock leaves once for a ticket, under the same faults.
StockLeavesOnce == \A m, n \in notes : m = n

\* Refused, retried and replayed, in whatever order, a sale that stays fully tendered is
\* recognised in the end, and its stock leaves unless the sale is returned first.
SaleCompletes ==
  \/ []<>(ticket.paid < ticket.total)
  \/ <>(ticket.status = "returned" \/ (ticket.status = "paid" /\ (StockTracked => ticket.note # None)))

\* The settlement of a recognised sale is of the amount it was invoiced for.
ReceivableClears ==
  ticket.status = "paid" => invoice[ticket.billing].amount = settlement[ticket.payment].amount

\* A sale is settled once, also when the request that settled it died before it could
\* mark the ticket paid.
SettledOnce == \A p, q \in Settled : p = q
=============================================================================
