---------------------------- MODULE PosReceipt ----------------------------
(***************************************************************************)
(* The printed receipt of one ticket, and whoever writes the ticket while  *)
(* it is printed.                                                          *)
(*                                                                         *)
(* receipt reads the header, the lines and the tenders by three statements *)
(* of their own.  Each verb commits its rows in one transaction, so a      *)
(* write is one action; the reads are not.  A basket stands for the lines, *)
(* told apart by what they cost; amounts are whole cents (PosSync tells    *)
(* what less than a cent does); the layout of the slip is left out.        *)
(***************************************************************************)
EXTENDS Naturals, Sequences, Functions
CONSTANTS Baskets,     \* rounded totals of the baskets a client may send
          Coins,       \* amounts of a tender
          MaxRows      \* bound on the tender rows of the ticket
ASSUME ReceiptAssumption == MaxRows \in Nat

VARIABLES ticket,      \* header, lines and tenders, as committed
          due,         \* whether recognition has found the ticket fully tendered
          slip         \* what receipt has read so far
receiptVars == <<ticket, due, slip>>

TenderRows == UNION {[1 .. n -> Coins] : n \in 0 .. MaxRows}
Paid(ts) == SumFunction(ts)

\* The header columns a receipt shows.
Header(basket, ts, status, invoiced) ==
  [total |-> basket, paid |-> Paid(ts), status |-> status, is_invoiced |-> invoiced,
   change |-> IF Paid(ts) > basket THEN Paid(ts) - basket ELSE 0]

Ticket(basket, ts, status, invoiced) ==
  [header |-> Header(basket, ts, status, invoiced), lines |-> basket, tenders |-> ts]
NoTicket == Ticket(0, <<>>, "none", FALSE)

Status == ticket.header.status
Invoiced == ticket.header.is_invoiced

\* The ticket with another status or link.
Marked(status, invoiced) == Ticket(ticket.lines, ticket.tenders, status, invoiced)

\* A slip before the first read.
Unread == [header |-> NoTicket.header, lines |-> 0, tenders |-> <<>>, read |-> 0]

\* Mutant: the header is read last.
ReadsHeaderLast == <<"lines", "tenders", "header">>

\* The reads of receipt, in the order it makes them.
Reads == <<"header", "lines", "tenders">>
----------------------------------------------------------------------------
ReceiptInit == ticket = NoTicket /\ due = FALSE /\ slip = Unread

\* A ticket is rung, by the counter without tenders or by a replay with its own.
Rings ==
  /\ Status = "none"
  /\ \E b \in Baskets, ts \in TenderRows : ticket' = Ticket(b, ts, "draft", FALSE)
  /\ UNCHANGED <<due, slip>>

\* A replay puts another basket and other tenders in place of the draft's.
Replaces ==
  /\ Status = "draft"
  /\ \E b \in Baskets, ts \in TenderRows : ticket' = Ticket(b, ts, "draft", Invoiced)
  /\ UNCHANGED <<due, slip>>

\* A tender adds its row and sums the rows into the header.
Tendered ==
  /\ Status = "draft"
  /\ \E c \in Coins :
       /\ Append(ticket.tenders, c) \in TenderRows
       /\ ticket' = Ticket(ticket.lines, Append(ticket.tenders, c), "draft", Invoiced)
  /\ UNCHANGED <<due, slip>>

\* Recognition finds the ticket paid up, links the invoice it raised, and flips the
\* ticket; it does not look at the tenders again.
Due ==
  /\ Status = "draft" /\ ~due
  /\ ticket.header.paid >= ticket.header.total
  /\ due' = TRUE
  /\ UNCHANGED <<ticket, slip>>
Links ==
  /\ due /\ ~Invoiced
  /\ ticket' = Marked(Status, TRUE)
  /\ UNCHANGED <<due, slip>>
Flips ==
  /\ due /\ Status = "draft" /\ Invoiced
  /\ ticket' = Marked("paid", Invoiced)
  /\ UNCHANGED <<due, slip>>

Returns ==
  /\ Status = "paid"
  /\ ticket' = Marked("returned", Invoiced)
  /\ UNCHANGED <<due, slip>>

\* The next read of receipt; without a header there is no receipt.
Reading(part) == slip.read < Len(Reads) /\ Reads[slip.read + 1] = part
With(header, lines, tenders) ==
  [header |-> header, lines |-> lines, tenders |-> tenders, read |-> slip.read + 1]
ReadsOn ==
  /\ \/ /\ Reading("header") /\ Status # "none"
        /\ slip' = With(ticket.header, slip.lines, slip.tenders)
     \/ /\ Reading("header") /\ Status = "none"
        /\ slip' = Unread
     \/ /\ Reading("lines")
        /\ slip' = With(slip.header, ticket.lines, slip.tenders)
     \/ /\ Reading("tenders")
        /\ slip' = With(slip.header, slip.lines, ticket.tenders)
  /\ UNCHANGED <<ticket, due>>

\* The slip is handed over, or its request ends early.
HandsOver ==
  /\ slip.read > 0
  /\ slip' = Unread
  /\ UNCHANGED <<ticket, due>>

ReceiptNext ==
  Rings \/ Replaces \/ Tendered \/ Due \/ Links \/ Flips \/ Returns \/ ReadsOn \/ HandsOver

ReceiptSpec == ReceiptInit /\ [][ReceiptNext]_receiptVars
----------------------------------------------------------------------------
ReceiptTypeOK ==
  /\ ticket.lines \in Baskets \cup {0} /\ ticket.tenders \in TenderRows
  /\ Status \in {"none", "draft", "paid", "returned"}
  /\ due \in BOOLEAN /\ slip.read \in 0 .. Len(Reads)

(***************************************************************************)
(* The receipt of a ticket that is no longer a draft is the ticket, to the *)
(* line and the tender, and it adds up, whatever was written between its   *)
(* three reads.  (The receipt of a draft need not.)                        *)
(***************************************************************************)
PaidReceiptIsTheTicket ==
  slip.read = Len(Reads) /\ slip.header.status # "draft" =>
    /\ slip.lines = ticket.lines /\ slip.tenders = ticket.tenders
    /\ slip.header =
         Header(slip.lines, slip.tenders, slip.header.status, slip.header.is_invoiced)
=============================================================================
